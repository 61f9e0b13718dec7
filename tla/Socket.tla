------------------------------- MODULE Socket -------------------------------
(***************************************************************************)
(* The command/response core of tot/socket: one Socket with its command    *)
(* id counter (NextCommandID), its pending-command registry (commands),    *)
(* the connection it owns (Connect / Disconnect, conn, connected), the     *)
(* Listen read loop, one SendCommand goroutine per caller, and the remote  *)
(* browser on the other end of each websocket.                             *)
(*                                                                         *)
(* Every goroutine is a process with a program counter in pc.  A step is   *)
(* one statement, or a run of statements that only touch state no other   *)
(* process reads in between (for instance everything Connect does while   *)
(* holding socket.mux).  Disconnect does not take socket.mux, so its four  *)
(* statements are four steps.  Calling a method on a nil conn panics, and  *)
(* an unrecovered panic in any goroutine ends the process: crashed.        *)
(***************************************************************************)
EXTENDS Naturals, Sequences, FiniteSets, Functions, TLC

CONSTANTS
  Callers,          \* goroutines that each build and send one command
  Loop,             \* the goroutine running socket.Listen()
  User,             \* an API user that may call Stop() and Disconnect()
  MaxConns,         \* bound on websockets newSocket may open
  DialMayFail,      \* whether newSocket may return an error
  PeerCloses,       \* bound on connections the browser drops
  MaxDupResponses,  \* bound on duplicate responses the browser sends
  UserStops,        \* whether the user calls Stop()
  UserDisconnects,  \* bound on Disconnect() calls by the user
  MaxEvents         \* bound on event frames the browser sends

ASSUME /\ Loop \notin Callers /\ User \notin Callers /\ Loop # User
       /\ MaxConns \in Nat \ {0}
       /\ DialMayFail \in BOOLEAN /\ UserStops \in BOOLEAN
       /\ {PeerCloses, MaxDupResponses, UserDisconnects, MaxEvents} \subseteq Nat

Procs == Callers \cup {Loop, User}
Transports == 1..MaxConns
Nil == 0                      \* socket.conn == nil

VARIABLES
  pc,             \* program counter of every goroutine
  commandID,      \* socket.commandID
  cid,            \* cid[c]: the id NextCommandID gave caller c's command
  commands,       \* the CommandMap: command id -> caller, a partial function
  outcome,        \* what command.Respond delivered to caller c last
  resolved,       \* how many times command.Respond was called for c
  answer,         \* the caller whose request the resolving response answered
  connected,      \* socket.connected
  conn,           \* socket.conn: a transport, or Nil
  trans,          \* the websockets: state, inbox from the browser, requests
  lconn,          \* the conn Listen's ReadJSON is blocked on
  stopListening,  \* socket.stopListening
  crashed,        \* a goroutine dereferenced a nil conn
  env             \* counters bounding the environment, and whether Stop() ran

vars == <<pc, commandID, cid, commands, outcome, resolved, answer, connected,
          conn, trans, lconn, stopListening, crashed, env>>

Request == [id : Nat, origin : Callers]       \* a payload the browser read

(* An inbound frame: a response carries the id of the request it answers, *)
(* an event a method name and id 0.  origin is for the model only.        *)
Frame == [id : Nat, method : {"", "event"}, origin : Callers \cup {Nil}]
ResponseTo(r) == [id |-> r.id, method |-> "", origin |-> r.origin]
EventFrame == [id |-> 0, method |-> "event", origin |-> Nil]

TypeOK ==
  /\ pc \in [Procs -> {"idle", "connect", "write", "register", "wait",
                       "connect0", "reset", "rconnect", "rconn", "recv",
                       "dcheck", "dclose", "dnil", "dclear",
                       "stopped", "failed"}]
  /\ commandID \in Nat
  /\ cid \in [Callers -> Nat]
  /\ DOMAIN commands \subseteq Nat /\ Range(commands) \subseteq Callers
  /\ outcome \in [Callers -> {"none", "ok", "err"}]
  /\ resolved \in [Callers -> Nat]
  /\ answer \in [Callers -> Callers \cup {Nil}]
  /\ connected \in BOOLEAN
  /\ conn \in Transports \cup {Nil}
  /\ trans \in [Transports -> [st : {"unused", "open", "peerClosed", "closed"},
                               inbox : Seq(Frame),
                               reqs : SUBSET Request,
                               answered : SUBSET Request]]
  /\ lconn \in Transports \cup {Nil}
  /\ stopListening \in BOOLEAN
  /\ crashed \in BOOLEAN
  /\ env \in [stopCalled : BOOLEAN, disconnects : Nat, peerCloses : Nat,
              dups : Nat, events : Nat]

Init ==
  /\ pc = [p \in Procs |-> CASE p = Loop -> "connect0"
                             [] OTHER    -> "idle"]
  /\ commandID = 0
  /\ cid = [c \in Callers |-> 0]
  /\ commands = <<>>
  /\ outcome = [c \in Callers |-> "none"]
  /\ resolved = [c \in Callers |-> 0]
  /\ answer = [c \in Callers |-> Nil]
  /\ connected = FALSE
  /\ conn = Nil
  /\ trans = [t \in Transports |->
                [st |-> "unused", inbox |-> <<>>, reqs |-> {}, answered |-> {}]]
  /\ lconn = Nil
  /\ stopListening = FALSE
  /\ crashed = FALSE
  /\ env = [stopCalled |-> FALSE, disconnects |-> 0, peerCloses |-> 0,
            dups |-> 0, events |-> 0]

Goto(p, l) == pc' = [pc EXCEPT ![p] = l]

-----------------------------------------------------------------------------
(* Conner.Connect, under socket.mux: nothing to do when connected;         *)
(* otherwise newSocket dials a new websocket and, only on success, stores  *)
(* it in conn and sets connected.  ConnectOk and ConnectErr are its two    *)
(* outcomes; the caller adds what it does with the returned error.         *)
FreshTransports == {t \in Transports : trans[t].st = "unused"}

ConnectOk ==
  \/ /\ connected
     /\ UNCHANGED <<connected, conn, trans>>
  \/ /\ ~connected
     /\ FreshTransports # {}
     /\ LET t == CHOOSE u \in FreshTransports :
                   \A v \in FreshTransports : u <= v
        IN /\ trans' = [trans EXCEPT ![t].st = "open"]
           /\ conn' = t
           /\ connected' = TRUE

ConnectErr ==
  /\ ~connected
  /\ DialMayFail
  /\ connected' = FALSE
  /\ UNCHANGED <<conn, trans>>

(* command.Respond(response): the caller's channel receives one result.   *)
Respond(c, res, from) ==
  /\ outcome' = [outcome EXCEPT ![c] = res]
  /\ resolved' = [resolved EXCEPT ![c] = @ + 1]
  /\ answer' = [answer EXCEPT ![c] = from]

-----------------------------------------------------------------------------
(* Mutant of NextCommandID: the incremented id is returned but not       *)
(* stored back into socket.commandID.                                     *)
NextCommandIDUnstored(c) ==
  /\ pc[c] = "idle"
  /\ commandID' = commandID
  /\ cid' = [cid EXCEPT ![c] = commandID + 1]
  /\ Goto(c, "connect")
  /\ UNCHANGED <<commands, outcome, resolved, answer, connected, conn, trans,
                 lconn, stopListening, crashed, env>>

(* NewCommand calls NextCommandID under commandIDMux, then SendCommand     *)
(* starts the goroutine that writes the payload and returns the channel.   *)
NextCommandID(c) ==
  /\ pc[c] = "idle"
  /\ commandID' = commandID + 1
  /\ cid' = [cid EXCEPT ![c] = commandID + 1]
  /\ Goto(c, "connect")
  /\ UNCHANGED <<commands, outcome, resolved, answer, connected, conn, trans,
                 lconn, stopListening, crashed, env>>

(* WriteJSON's Connect.  On error the goroutine responds with the error   *)
(* and returns without registering the command.                            *)
WriteConnect(c) ==
  /\ pc[c] = "connect"
  /\ \/ ConnectOk /\ Goto(c, "write") /\ UNCHANGED <<outcome, resolved, answer>>
     \/ ConnectErr /\ Goto(c, "wait") /\ Respond(c, "err", Nil)
  /\ UNCHANGED <<commandID, cid, commands, lconn, stopListening, crashed, env>>

(* socket.conn.WriteJSON(payload).  A nil conn panics.  A closed socket    *)
(* fails; one the browser dropped may fail or swallow the payload.         *)
WritePayload(c) ==
  LET req == [id |-> cid[c], origin |-> c] IN
  /\ pc[c] = "write"
  /\ \/ /\ conn = Nil
        /\ crashed' = TRUE
        /\ UNCHANGED <<pc, trans, outcome, resolved, answer>>
     \/ /\ conn # Nil
        /\ trans[conn].st = "open"
        /\ trans' = [trans EXCEPT ![conn].reqs = @ \cup {req}]
        /\ Goto(c, "register")
        /\ UNCHANGED <<crashed, outcome, resolved, answer>>
     \/ /\ conn # Nil
        /\ trans[conn].st = "peerClosed"
        /\ Goto(c, "register")
        /\ UNCHANGED <<crashed, trans, outcome, resolved, answer>>
     \/ /\ conn # Nil
        /\ trans[conn].st \in {"peerClosed", "closed"}
        /\ Goto(c, "wait")
        /\ Respond(c, "err", Nil)
        /\ UNCHANGED <<crashed, trans>>
  /\ UNCHANGED <<commandID, cid, commands, connected, conn, lconn,
                 stopListening, env>>

(* Mutant of Register: the id is stored where the command belongs.       *)
RegisterById(c) ==
  /\ pc[c] = "register"
  /\ commands' = (cid[c] :> cid[c]) @@ commands
  /\ Goto(c, "wait")
  /\ UNCHANGED <<commandID, cid, outcome, resolved, answer, connected, conn,
                 trans, lconn, stopListening, crashed, env>>

(* socket.commands.Set(command), after the write returned.                *)
Register(c) ==
  /\ pc[c] = "register"
  /\ commands' = (cid[c] :> c) @@ commands
  /\ Goto(c, "wait")
  /\ UNCHANGED <<commandID, cid, outcome, resolved, answer, connected, conn,
                 trans, lconn, stopListening, crashed, env>>

-----------------------------------------------------------------------------
(* Mutant of HandleResponse: the command is looked up under id - 1.      *)
HandleResponseOffByOne(f) ==
  IF f.id - 1 \in DOMAIN commands
  THEN /\ Respond(commands[f.id - 1], "ok", f.origin)
       /\ commands' = Restrict(commands, DOMAIN commands \ {f.id - 1})
  ELSE UNCHANGED <<outcome, resolved, answer, commands>>

(* handleResponse: look the id up, respond, delete it.  Only Listen        *)
(* deletes, and callers Set other ids, so the three calls are one step.    *)
HandleResponse(f) ==
  IF f.id \in DOMAIN commands
  THEN /\ Respond(commands[f.id], "ok", f.origin)
       /\ commands' = Restrict(commands, DOMAIN commands \ {f.id})
  ELSE UNCHANGED <<outcome, resolved, answer, commands>>

(* Listen: the first Connect; on error Listen returns at once.             *)
ListenConnect ==
  /\ pc[Loop] = "connect0"
  /\ \/ ConnectOk /\ Goto(Loop, "reset")
     \/ ConnectErr /\ Goto(Loop, "failed")
  /\ UNCHANGED <<commandID, cid, commands, outcome, resolved, answer, lconn,
                 stopListening, crashed, env>>

(* socket.stopListening = false, before the loop.                         *)
ListenReset ==
  /\ pc[Loop] = "reset"
  /\ stopListening' = FALSE
  /\ Goto(Loop, "rconnect")
  /\ UNCHANGED <<commandID, cid, commands, outcome, resolved, answer,
                 connected, conn, trans, lconn, crashed, env>>

(* ReadJSON's Connect.  On error: Stop(), the empty response goes to       *)
(* handleUnknown (commands.Get(0) finds nothing), and the loop breaks.    *)
ReadConnect ==
  /\ pc[Loop] = "rconnect"
  /\ \/ ConnectOk /\ Goto(Loop, "rconn") /\ UNCHANGED stopListening
     \/ ConnectErr /\ Goto(Loop, "dcheck") /\ stopListening' = TRUE
  /\ UNCHANGED <<commandID, cid, commands, outcome, resolved, answer, lconn,
                 crashed, env>>

(* socket.conn.ReadJSON: the method is called on the current conn.        *)
ReadConn ==
  /\ pc[Loop] = "rconn"
  /\ \/ conn = Nil /\ crashed' = TRUE /\ UNCHANGED <<pc, lconn>>
     \/ conn # Nil /\ lconn' = conn /\ Goto(Loop, "recv") /\ UNCHANGED crashed
  /\ UNCHANGED <<commandID, cid, commands, outcome, resolved, answer,
                 connected, conn, trans, stopListening, env>>

(* handleEvent reads the handler map and starts one goroutine per         *)
(* listener (EventHandlers); it leaves the command state alone.           *)
HandleEvent == UNCHANGED <<outcome, resolved, answer, commands>>

(* The blocking read returns a frame, which is dispatched by its id, then  *)
(* by its method, and then the loop breaks if stopListening is set.  The  *)
(* browser's frames have an id or a method, never neither.                *)
ReceiveFrame ==
  LET t == lconn
      f == Head(trans[t].inbox)
  IN
  /\ pc[Loop] = "recv"
  /\ trans[t].st \in {"open", "peerClosed"}
  /\ trans[t].inbox # <<>>
  /\ trans' = [trans EXCEPT ![t].inbox = Tail(@)]
  /\ IF f.id > 0 THEN HandleResponse(f) ELSE HandleEvent
  /\ Goto(Loop, IF stopListening THEN "dcheck" ELSE "rconnect")
  /\ UNCHANGED <<commandID, cid, connected, conn, lconn, stopListening,
                 crashed, env>>

(* handleUnknown: the frame is answered to command 0 if one is           *)
(* registered, which is not deleted afterwards; else it is only logged.   *)
HandleUnknown ==
  IF 0 \in DOMAIN commands
  THEN Respond(commands[0], "err", Nil) /\ UNCHANGED commands
  ELSE UNCHANGED <<outcome, resolved, answer, commands>>

(* Mutant of ReceiveError: the read error is logged but Stop() is not    *)
(* called, so the loop goes round again.                                  *)
ReceiveErrorNoStop ==
  LET t == lconn IN
  /\ pc[Loop] = "recv"
  /\ \/ trans[t].st = "closed"
     \/ trans[t].st = "peerClosed" /\ trans[t].inbox = <<>>
  /\ HandleUnknown
  /\ Goto(Loop, IF stopListening THEN "dcheck" ELSE "rconnect")
  /\ UNCHANGED <<commandID, cid, connected, conn, trans, lconn, stopListening,
                 crashed, env>>

(* The read fails: a closed socket, or a dropped one with nothing left.   *)
(* Stop(); the empty response goes to handleUnknown; the loop breaks.     *)
ReceiveError ==
  LET t == lconn IN
  /\ pc[Loop] = "recv"
  /\ \/ trans[t].st = "closed"
     \/ trans[t].st = "peerClosed" /\ trans[t].inbox = <<>>
  /\ stopListening' = TRUE
  /\ HandleUnknown
  /\ Goto(Loop, "dcheck")
  /\ UNCHANGED <<commandID, cid, connected, conn, trans, lconn, crashed, env>>

-----------------------------------------------------------------------------
(* Conner.Disconnect, by Listen's defer or by the user; no lock is held.  *)
AfterDisconnect(p) == IF p = Loop THEN "stopped" ELSE "idle"

DisconnectCheck(p) ==
  /\ pc[p] = "dcheck"
  /\ Goto(p, IF connected THEN "dclose" ELSE AfterDisconnect(p))
  /\ UNCHANGED <<commandID, cid, commands, outcome, resolved, answer,
                 connected, conn, trans, lconn, stopListening, crashed, env>>

(* socket.conn.Close(); its error is returned but changes nothing.        *)
DisconnectClose(p) ==
  /\ pc[p] = "dclose"
  /\ \/ conn = Nil /\ crashed' = TRUE /\ UNCHANGED <<pc, trans>>
     \/ /\ conn # Nil
        /\ trans' = [trans EXCEPT ![conn].st = "closed"]
        /\ Goto(p, "dnil")
        /\ UNCHANGED crashed
  /\ UNCHANGED <<commandID, cid, commands, outcome, resolved, answer,
                 connected, conn, lconn, stopListening, env>>

DisconnectNil(p) ==
  /\ pc[p] = "dnil"
  /\ conn' = Nil
  /\ Goto(p, "dclear")
  /\ UNCHANGED <<commandID, cid, commands, outcome, resolved, answer,
                 connected, trans, lconn, stopListening, crashed, env>>

DisconnectClear(p) ==
  /\ pc[p] = "dclear"
  /\ connected' = FALSE
  /\ Goto(p, AfterDisconnect(p))
  /\ UNCHANGED <<commandID, cid, commands, outcome, resolved, answer, conn,
                 trans, lconn, stopListening, crashed, env>>

Disconnect(p) ==
  DisconnectCheck(p) \/ DisconnectClose(p) \/ DisconnectNil(p)
    \/ DisconnectClear(p)

-----------------------------------------------------------------------------
(* The user: Stop() sets the flag; Disconnect() is a public method.       *)
Stop ==
  /\ pc[User] = "idle"
  /\ UserStops /\ ~env.stopCalled
  /\ stopListening' = TRUE
  /\ env' = [env EXCEPT !.stopCalled = TRUE]
  /\ UNCHANGED <<pc, commandID, cid, commands, outcome, resolved, answer,
                 connected, conn, trans, lconn, crashed>>

UserDisconnect ==
  /\ pc[User] = "idle"
  /\ env.disconnects < UserDisconnects
  /\ env' = [env EXCEPT !.disconnects = @ + 1]
  /\ Goto(User, "dcheck")
  /\ UNCHANGED <<commandID, cid, commands, outcome, resolved, answer,
                 connected, conn, trans, lconn, stopListening, crashed>>

-----------------------------------------------------------------------------
(* The browser answers each request it received once, in any order; it    *)
(* may repeat a response and may drop the connection.                     *)
BrowserRespond(t) ==
  /\ trans[t].st = "open"
  /\ \E r \in trans[t].reqs \ trans[t].answered :
       trans' = [trans EXCEPT ![t].inbox = Append(@, ResponseTo(r)),
                              ![t].answered = @ \cup {r}]
  /\ UNCHANGED <<pc, commandID, cid, commands, outcome, resolved, answer,
                 connected, conn, lconn, stopListening, crashed, env>>

BrowserDuplicate(t) ==
  /\ trans[t].st = "open"
  /\ env.dups < MaxDupResponses
  /\ \E r \in trans[t].answered :
       trans' = [trans EXCEPT ![t].inbox = Append(@, ResponseTo(r))]
  /\ env' = [env EXCEPT !.dups = @ + 1]
  /\ UNCHANGED <<pc, commandID, cid, commands, outcome, resolved, answer,
                 connected, conn, lconn, stopListening, crashed>>

(* An event the browser emits on the connection, between responses.      *)
BrowserEvent(t) ==
  /\ trans[t].st = "open"
  /\ env.events < MaxEvents
  /\ trans' = [trans EXCEPT ![t].inbox = Append(@, EventFrame)]
  /\ env' = [env EXCEPT !.events = @ + 1]
  /\ UNCHANGED <<pc, commandID, cid, commands, outcome, resolved, answer,
                 connected, conn, lconn, stopListening, crashed>>

BrowserClose(t) ==
  /\ trans[t].st = "open"
  /\ env.peerCloses < PeerCloses
  /\ trans' = [trans EXCEPT ![t].st = "peerClosed"]
  /\ env' = [env EXCEPT !.peerCloses = @ + 1]
  /\ UNCHANGED <<pc, commandID, cid, commands, outcome, resolved, answer,
                 connected, conn, lconn, stopListening, crashed>>

-----------------------------------------------------------------------------
SendCommand(c) == WriteConnect(c) \/ WritePayload(c) \/ Register(c)

Listen ==
  \/ ListenConnect \/ ListenReset \/ ReadConnect \/ ReadConn
  \/ ReceiveFrame \/ ReceiveError \/ Disconnect(Loop)

Browser == \E t \in Transports :
             BrowserRespond(t) \/ BrowserDuplicate(t) \/ BrowserEvent(t)
               \/ BrowserClose(t)

Next ==
  /\ ~crashed
  /\ \/ \E c \in Callers : NextCommandID(c) \/ SendCommand(c)
     \/ Listen
     \/ Stop \/ UserDisconnect \/ Disconnect(User)
     \/ Browser

(* Go schedules every runnable goroutine, and the browser answers every   *)
(* command it receives; the user and the browser's drops are not forced.  *)
Fairness ==
  /\ \A c \in Callers : WF_vars(SendCommand(c))
  /\ WF_vars(Listen)
  /\ WF_vars(Disconnect(User))
  /\ \A t \in Transports : WF_vars(BrowserRespond(t))

Spec == Init /\ [][Next]_vars
FairSpec == Spec /\ Fairness

-----------------------------------------------------------------------------
(* The command path implements the command future of the spec: a caller's *)
(* command is pending from NextCommandID until command.Respond, which     *)
(* runs once, with the result of the response to the caller's own request *)
(* or with an error.  Breaking it takes NextCommandID handing out an id   *)
(* twice, handleResponse routing by anything but the id, or a response    *)
(* (a duplicate, a late one) resolving a command a second time.           *)
FutureOf(c) ==
  IF pc[c] = "idle" THEN "idle"
  ELSE IF outcome[c] = "none" THEN "pending" ELSE outcome[c]

Future == INSTANCE CommandFuture
            WITH NoOne <- Nil,
                 future <- [c \in Callers |-> FutureOf(c)],
                 deliveries <- resolved,
                 origin <- answer

CommandFutureRefinement == Future!Spec

(* No goroutine calls a method on a nil socket.conn.  Disconnect clears   *)
(* conn without socket.mux while WriteJSON, ReadJSON and Disconnect use   *)
(* conn after their Connect or connected check returned.                  *)
NoNilConnUse == ~crashed

(* No websocket is left open that the socket no longer holds: Disconnect  *)
(* closes the channel and clears the state together (spec section 4.1),   *)
(* so every open transport is socket.conn.  Two Disconnects, each without *)
(* socket.mux, must not nil a connection that Connect dialled after the   *)
(* other one closed the old one.                                           *)
NoLeakedTransport ==
  \A t \in Transports : trans[t].st = "open" => conn = t

(* Once Stop() has been called, stopListening stays set: Listen's          *)
(* "socket.stopListening = false" must not undo a Stop().                 *)
StopNotLost == env.stopCalled => stopListening

(* Every command a caller submits is eventually resolved (spec section 8: *)
(* each of N concurrent commands receives exactly one resolution).        *)
CommandsEventuallyResolved ==
  \A c \in Callers : pc[c] # "idle" ~> outcome[c] # "none"

(* When the browser drops the connection Listen reads from, the loop     *)
(* stops: spec section 4.5 has a read failure end the loop, and the read  *)
(* error path calls Stop() and breaks.  (After a user Disconnect ReadJSON *)
(* redials, as spec section 4.1 prescribes, so its run has none.)         *)
LoopReading == pc[Loop] \in {"rconnect", "rconn", "recv"}

ConnectionLossEndsLoop ==
  \A t \in Transports :
    (LoopReading /\ lconn = t /\ trans[t].st \in {"peerClosed", "closed"})
      ~> (pc[Loop] = "stopped" \/ crashed)
(* A command registered before the browser's response to it was read is   *)
(* resolved, unless the read loop ends first: the browser answers every   *)
(* request on an open connection, Listen reads every frame of the         *)
(* connection it is on, and handleResponse finds the id it was given.    *)
RequestOf(c) == [id |-> cid[c], origin |-> c]

AnswerAhead(c) ==
  \E t \in Transports :
    /\ RequestOf(c) \in trans[t].reqs
    /\ \/ RequestOf(c) \notin trans[t].answered
       \/ \E k \in DOMAIN trans[t].inbox : trans[t].inbox[k] = ResponseTo(RequestOf(c))

RegisteredCommandsResolved ==
  \A c \in Callers :
    (cid[c] \in DOMAIN commands /\ AnswerAhead(c))
      ~> (outcome[c] # "none" \/ pc[Loop] \in {"stopped", "failed"} \/ crashed)
=============================================================================
