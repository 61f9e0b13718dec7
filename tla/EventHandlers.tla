---------------------------- MODULE EventHandlers ----------------------------
(***************************************************************************)
(* The event side of tot/socket for one event name: AddEventHandler and    *)
(* RemoveEventHandler run by API users under the EventHandlerMap's lock,   *)
(* while the Listen goroutine's handleEvent reads the map without the      *)
(* lock and starts one goroutine per listener (go event.Handle).  The      *)
(* closure a domain's On... function registers decodes the params and     *)
(* calls the user's callback only if decoding succeeds.                    *)
(*                                                                         *)
(* The map stores a Go slice: a backing array, shared by every copy of     *)
(* the slice header, and a length.  append writes in place while the       *)
(* array has room and otherwise copies into a new array of twice the       *)
(* capacity; RemoveEventHandler's append(handlers[:i], handlers[i+1:]...)  *)
(* shifts the tail left inside the same array.  handleEvent's range        *)
(* fixes the length when it starts but reads each element from the array  *)
(* when it reaches it, so it sees what a concurrent remove moved there.    *)
(***************************************************************************)
EXTENDS Naturals, Sequences, FiniteSets, SequencesExt

CONSTANTS
  Handlers,     \* listener identities (EventHandler pointers)
  NoHandler,    \* the zero value in unused array slots
  MaxAdds,      \* bound on AddEventHandler calls
  MaxRemoves,   \* bound on RemoveEventHandler calls
  MaxEvents     \* bound on events the browser sends for this name

ASSUME NoHandler \notin Handlers /\ {MaxAdds, MaxRemoves, MaxEvents} \subseteq Nat

(* Capacities go 1, 2, 4, ...: MaxAdds adds allocate at most this many    *)
(* arrays.                                                                 *)
RECURSIVE Allocations(_, _)
Allocations(cap, n) == IF n <= cap THEN 0
                       ELSE 1 + Allocations(IF cap = 0 THEN 1 ELSE 2 * cap, n)
MaxArrays == Allocations(0, MaxAdds)
Arrays == 1..MaxArrays

VARIABLES
  slice,        \* the map entry: whether the name is present, array, length
  heap,         \* heap[a]: the contents of backing array a, one per slot
  narrays,      \* arrays allocated so far
  lastRemove,   \* what the latest RemoveEventHandler saw and returned
  lpc,          \* handleEvent's state: "idle" or iterating ("iter")
  ev,           \* events handleEvent has started
  snap,         \* the slice header handleEvent's range iterates over
  i,            \* the range index
  payloadOk,    \* payloadOk[e]: whether event e's params decode
  spawns,       \* every go event.Handle started: [ev, h], in start order
  calls,        \* spawn indices whose callback ran, in the order they ran
  ran,          \* spawn indices whose goroutine has run
  seen,         \* seen[e]: the lists registered while event e was fanned out
  ops,          \* adds and removes done so far
  storing,      \* the lock holder's store into the Go map is in progress
  mapRace       \* a Get of handleEvent ran while a store was in progress

vars == <<slice, heap, narrays, lastRemove, lpc, ev, snap, i, payloadOk,
          spawns, calls, ran, seen, ops, storing, mapRace>>

Events == 1..MaxEvents

(* The list the map holds now, as the registry's user sees it.            *)
Registered ==
  IF slice.present /\ slice.len > 0
  THEN SubSeq(heap[slice.base], 1, slice.len) ELSE <<>>

TypeOK ==
  /\ slice \in [present : BOOLEAN, base : Arrays \cup {0}, len : Nat]
  /\ heap \in [Arrays -> Seq(Handlers \cup {NoHandler})]
  /\ narrays \in 0..MaxArrays
  /\ lastRemove \in [h : Handlers \cup {NoHandler}, found : BOOLEAN,
                     returned : {"nil", "err"}]
  /\ lpc \in {"idle", "iter"}
  /\ ev \in 0..MaxEvents
  /\ snap \in [base : Arrays \cup {0}, len : Nat]
  /\ i \in Nat
  /\ payloadOk \in [Events -> BOOLEAN]
  /\ spawns \in Seq([ev : Events, h : Handlers \cup {NoHandler}])
  /\ calls \in Seq(Nat) /\ ran \subseteq Nat
  /\ seen \in [Events -> SUBSET Seq(Handlers)]
  /\ ops \in [adds : Nat, removes : Nat]
  /\ storing \in BOOLEAN /\ mapRace \in BOOLEAN

Init ==
  /\ slice = [present |-> FALSE, base |-> 0, len |-> 0]
  /\ heap = [a \in Arrays |-> <<>>]
  /\ narrays = 0
  /\ lastRemove = [h |-> NoHandler, found |-> TRUE, returned |-> "nil"]
  /\ lpc = "idle"
  /\ ev = 0
  /\ snap = [base |-> 0, len |-> 0]
  /\ i = 0
  /\ payloadOk \in [Events -> BOOLEAN]
  /\ spawns = <<>>
  /\ calls = <<>>
  /\ ran = {}
  /\ seen = [e \in Events |-> {}]
  /\ ops = [adds |-> 0, removes |-> 0]
  /\ storing = FALSE
  /\ mapRace = FALSE

(* A registry change while an event is being fanned out is something that *)
(* event could linearize with.                                            *)
Observe(reg) ==
  seen' = IF lpc = "iter" THEN [seen EXCEPT ![ev] = @ \cup {reg}] ELSE seen

-----------------------------------------------------------------------------
(* append(stack[name], handler): in place while there is room, otherwise  *)
(* into a new array of double the capacity (1 for a nil slice).           *)
AppendHandler(h) ==
  LET cap == IF slice.base = 0 THEN 0 ELSE Len(heap[slice.base]) IN
  IF slice.len < cap
  THEN /\ heap' = [heap EXCEPT ![slice.base][slice.len + 1] = h]
       /\ slice' = [slice EXCEPT !.present = TRUE, !.len = @ + 1]
       /\ UNCHANGED narrays
  ELSE LET a == narrays + 1
           newcap == IF cap = 0 THEN 1 ELSE 2 * cap
       IN /\ a \in Arrays
          /\ heap' = [heap EXCEPT ![a] =
                        [k \in 1..newcap |->
                           CASE k <= slice.len  -> heap[slice.base][k]
                             [] k = slice.len + 1 -> h
                             [] OTHER           -> NoHandler]]
          /\ narrays' = a
          /\ slice' = [present |-> TRUE, base |-> a, len |-> slice.len + 1]

(* Socket.AddEventHandler -> EventHandlerMap.Add, under the map's lock:  *)
(* the append, then the store of the new slice into the Go map, which     *)
(* StoreDone ends.                                                        *)
AddEventHandler(h) ==
  /\ ~storing
  /\ ops.adds < MaxAdds
  /\ AppendHandler(h)
  /\ ops' = [ops EXCEPT !.adds = @ + 1]
  /\ Observe(Append(Registered, h))
  /\ storing' = TRUE
  /\ UNCHANGED <<lastRemove, lpc, ev, snap, i, payloadOk, spawns, calls, ran,
                 mapRace>>

(* Mutant of ShiftOut: the copy starts one slot late, so the removed     *)
(* handler stays and its successor is dropped.                            *)
ShiftOutLate(arr, p, len) ==
  [k \in DOMAIN arr |-> IF p < k /\ k < len THEN arr[k + 1] ELSE arr[k]]

(* append(handlers[:i], handlers[i+1:]...): the elements after position p *)
(* move one slot left in the same array; the last old slot keeps its      *)
(* value.                                                                 *)
ShiftOut(arr, p, len) ==
  [k \in DOMAIN arr |-> IF p <= k /\ k < len THEN arr[k + 1] ELSE arr[k]]

(* Mutant of RemoveEventHandler: the slice is shortened and stored even   *)
(* when the handler was not found.                                        *)
RemoveEventHandlerUnchecked(h) ==
  LET arr   == heap[slice.base]
      found == {k \in 1..slice.len : arr[k] = h}
      p     == CHOOSE k \in found : \A q \in found : k <= q
  IN
  /\ ~storing
  /\ ops.removes < MaxRemoves
  /\ ops' = [ops EXCEPT !.removes = @ + 1]
  /\ \/ /\ ~slice.present
        /\ lastRemove' = [h |-> h, found |-> FALSE, returned |-> "err"]
        /\ UNCHANGED <<slice, heap, seen, storing>>
     \/ /\ slice.present /\ found = {}
        /\ slice' = [slice EXCEPT !.len = @ - 1]
        /\ lastRemove' = [h |-> h, found |-> FALSE, returned |-> "nil"]
        /\ storing' = TRUE
        /\ UNCHANGED <<heap, seen>>
     \/ /\ slice.present /\ found # {}
        /\ heap' = [heap EXCEPT ![slice.base] = ShiftOut(arr, p, slice.len)]
        /\ slice' = [slice EXCEPT !.len = @ - 1]
        /\ lastRemove' = [h |-> h, found |-> TRUE, returned |-> "nil"]
        /\ Observe(RemoveAt(Registered, p))
        /\ storing' = TRUE
  /\ UNCHANGED <<narrays, lpc, ev, snap, i, payloadOk, spawns, calls, ran,
                 mapRace>>

(* Socket.RemoveEventHandler, holding the map's lock throughout: Get, the *)
(* scan for the first identical handler, the shift and Set; it returns    *)
(* Get's error for an absent name and nil otherwise, found or not.  Get   *)
(* and Set take no lock of their own (the caller already holds it), and   *)
(* the Set, a store into the Go map, lasts until StoreDone.               *)
RemoveEventHandler(h) ==
  LET arr   == heap[slice.base]
      found == {k \in 1..slice.len : arr[k] = h}
      p     == CHOOSE k \in found : \A q \in found : k <= q
  IN
  /\ ~storing
  /\ ops.removes < MaxRemoves
  /\ ops' = [ops EXCEPT !.removes = @ + 1]
  /\ \/ /\ ~slice.present
        /\ lastRemove' = [h |-> h, found |-> FALSE, returned |-> "err"]
        /\ UNCHANGED <<slice, heap, seen, storing>>
     \/ /\ slice.present /\ found = {}
        /\ lastRemove' = [h |-> h, found |-> FALSE, returned |-> "nil"]
        /\ UNCHANGED <<slice, heap, seen, storing>>
     \/ /\ slice.present /\ found # {}
        /\ heap' = [heap EXCEPT ![slice.base] = ShiftOut(arr, p, slice.len)]
        /\ slice' = [slice EXCEPT !.len = @ - 1]
        /\ lastRemove' = [h |-> h, found |-> TRUE, returned |-> "nil"]
        /\ Observe(RemoveAt(Registered, p))
        /\ storing' = TRUE
  /\ UNCHANGED <<narrays, lpc, ev, snap, i, payloadOk, spawns, calls, ran,
                 mapRace>>

(* The store into the Go map returns and the lock is released (the end  *)
(* of EventHandlerMap.Add, or Set and the deferred Unlock).               *)
StoreDone ==
  /\ storing
  /\ storing' = FALSE
  /\ UNCHANGED <<slice, heap, narrays, lastRemove, lpc, ev, snap, i,
                 payloadOk, spawns, calls, ran, seen, ops, mapRace>>

-----------------------------------------------------------------------------
(* Listen hands the next event to handleEvent, which calls               *)
(* socket.handlers.Get(method) without the lock: an absent name is only   *)
(* logged; otherwise the range takes the slice header it returned.  A Get *)
(* during a store reads the Go map while it is being written.             *)
HandleEvent ==
  /\ lpc = "idle"
  /\ ev < MaxEvents
  /\ ev' = ev + 1
  /\ mapRace' = (mapRace \/ storing)
  /\ \/ /\ ~slice.present
        /\ seen' = [seen EXCEPT ![ev + 1] = {<<>>}]
        /\ UNCHANGED <<lpc, snap, i>>
     \/ /\ slice.present
        /\ snap' = [base |-> slice.base, len |-> slice.len]
        /\ i' = 1
        /\ lpc' = "iter"
        /\ seen' = [seen EXCEPT ![ev + 1] = {Registered}]
  /\ UNCHANGED <<slice, heap, narrays, lastRemove, payloadOk, spawns, calls,
                 ran, ops, storing>>

(* Mutant of RangeHandlers: the loop stops one element early.            *)
RangeHandlersShort ==
  /\ lpc = "iter"
  /\ IF i < snap.len
     THEN /\ spawns' = Append(spawns, [ev |-> ev, h |-> heap[snap.base][i]])
          /\ i' = i + 1
          /\ UNCHANGED lpc
     ELSE /\ lpc' = "idle"
          /\ UNCHANGED <<spawns, i>>
  /\ UNCHANGED <<slice, heap, narrays, lastRemove, ev, snap, payloadOk, calls,
                 ran, seen, ops, storing, mapRace>>

(* One turn of "for a, event := range handlers { go event.Handle(...) }": *)
(* element a is read from the backing array now.                          *)
RangeHandlers ==
  /\ lpc = "iter"
  /\ IF i <= snap.len
     THEN /\ spawns' = Append(spawns, [ev |-> ev, h |-> heap[snap.base][i]])
          /\ i' = i + 1
          /\ UNCHANGED lpc
     ELSE /\ lpc' = "idle"
          /\ UNCHANGED <<spawns, i>>
  /\ UNCHANGED <<slice, heap, narrays, lastRemove, ev, snap, payloadOk, calls,
                 ran, seen, ops, storing, mapRace>>

(* A started goroutine runs the registered closure: json.Unmarshal of the *)
(* params, then the callback, or only a logged error when decoding fails. *)
Handle(j) ==
  /\ j \in DOMAIN spawns \ ran
  /\ ran' = ran \cup {j}
  /\ calls' = IF payloadOk[spawns[j].ev] THEN Append(calls, j) ELSE calls
  /\ UNCHANGED <<slice, heap, narrays, lastRemove, lpc, ev, snap, i,
                 payloadOk, spawns, seen, ops, storing, mapRace>>

Next ==
  \/ \E h \in Handlers : AddEventHandler(h) \/ RemoveEventHandler(h)
  \/ StoreDone
  \/ HandleEvent
  \/ RangeHandlers
  \/ \E j \in DOMAIN spawns : Handle(j)

Spec == Init /\ [][Next]_vars

-----------------------------------------------------------------------------
(* The map refines the abstract ordered list: every Add appends, every    *)
(* Remove drops exactly the first identical listener and keeps the order  *)
(* of the rest, across array growth and in-place shifting.                *)
Abstract == INSTANCE HandlerRegistry WITH registered <- Registered

RegistryRefinement == Abstract!Spec

(* The handlers started for one event are the list as it stood at some    *)
(* moment of that event's fan-out, each exactly once and in order: a      *)
(* concurrent Add or Remove may land before or after the event, never in  *)
(* the middle of it.                                                      *)
SpawnedFor(e) == [k \in 1..Len(SelectSeq(spawns, LAMBDA s : s.ev = e)) |->
                    SelectSeq(spawns, LAMBDA s : s.ev = e)[k].h]

FanOutLinearizable ==
  \A e \in 1..ev : (e < ev \/ lpc = "idle") => SpawnedFor(e) \in seen[e]

(* The handler map is never read while it is written (spec section 3:    *)
(* no field is read or written without its guarding lock): handleEvent's  *)
(* Get does not overlap the store of an AddEventHandler or a              *)
(* RemoveEventHandler.  Go aborts the process on a concurrent map read    *)
(* and map write.                                                         *)
NoMapReadDuringWrite == ~mapRace
=============================================================================
