---------------------------- MODULE CommandFuture ----------------------------
(***************************************************************************)
(* What the command path promises each caller (spec sections 2 and 3): a  *)
(* submitted command is a future that is resolved exactly once, either    *)
(* with the result of the response to its own request or with an error.  *)
(* A caller submits one command; nothing here says it is ever resolved.   *)
(***************************************************************************)
LOCAL INSTANCE Naturals

CONSTANTS
  Callers,   \* the callers, one command each
  NoOne      \* the origin of an error resolution

VARIABLES
  future,    \* future[c]: "idle", "pending", "ok" or "err"
  deliveries,\* deliveries[c]: how many resolutions c's future received
  origin     \* origin[c]: whose request the resolving response answered

vars == <<future, deliveries, origin>>

Init ==
  /\ future = [c \in Callers |-> "idle"]
  /\ deliveries = [c \in Callers |-> 0]
  /\ origin = [c \in Callers |-> NoOne]

Submit(c) ==
  /\ future[c] = "idle"
  /\ future' = [future EXCEPT ![c] = "pending"]
  /\ UNCHANGED <<deliveries, origin>>

\* The response to c's own request resolves the future with its result.
ResolveOk(c) ==
  /\ future[c] = "pending"
  /\ future' = [future EXCEPT ![c] = "ok"]
  /\ deliveries' = [deliveries EXCEPT ![c] = @ + 1]
  /\ origin' = [origin EXCEPT ![c] = c]

\* A transport failure resolves the future with an error.
ResolveErr(c) ==
  /\ future[c] = "pending"
  /\ future' = [future EXCEPT ![c] = "err"]
  /\ deliveries' = [deliveries EXCEPT ![c] = @ + 1]
  /\ UNCHANGED origin

Next == \E c \in Callers : Submit(c) \/ ResolveOk(c) \/ ResolveErr(c)

Spec == Init /\ [][Next]_vars
=============================================================================
