--------------------------- MODULE HandlerRegistry ---------------------------
(***************************************************************************)
(* What the event-handler registry promises (spec section 4.3) for one     *)
(* event name: an ordered list of listeners.  Adding appends; removing     *)
(* drops the first entry equal by identity and leaves the rest in order,   *)
(* and removing an absent listener changes nothing.  Delivering an event   *)
(* reads the list and changes nothing.                                     *)
(***************************************************************************)
LOCAL INSTANCE Sequences
LOCAL SeqExt == INSTANCE SequencesExt

CONSTANT Handlers

VARIABLE registered

Add(h) == registered' = Append(registered, h)

Remove(h) == registered' = SeqExt!RemoveFirst(registered, h)

Init == registered = <<>>

Next == \E h \in Handlers : Add(h) \/ Remove(h)

Spec == Init /\ [][Next]_registered
=============================================================================
