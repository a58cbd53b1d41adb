---------------------------- MODULE EventLedger ----------------------------
(***************************************************************************)
(* What the event pipeline promises, whatever its instances, connections   *)
(* and broker do: an event the publisher was told is safe stays in the     *)
(* queue until it is in processed_events or in the dead-letter queue, and  *)
(* leaves neither.                                                         *)
(***************************************************************************)

CONSTANT Events

VARIABLES
  confirmed,  \* events whose publish resolved
  pending,    \* events with a copy in tasks_queue
  recorded,   \* events in processed_events
  dead        \* events with a copy in tasks_queue.dlq

ledger == <<confirmed, pending, recorded, dead>>

Init == confirmed = {} /\ pending = {} /\ recorded = {} /\ dead = {}

Known == pending \cup recorded \cup dead

Enqueue(e) ==
  /\ pending' = pending \cup {e}
  /\ UNCHANGED <<confirmed, recorded, dead>>

Confirm(e) ==
  /\ e \in Known
  /\ confirmed' = confirmed \cup {e}
  /\ UNCHANGED <<pending, recorded, dead>>

Record(e) ==
  /\ e \in Known
  /\ recorded' = recorded \cup {e}
  /\ UNCHANGED <<confirmed, pending, dead>>

\* Copies leave the queue: those of doomed for the dead-letter queue.
Leave(doomed, staying) ==
  /\ dead' = dead \cup doomed
  /\ pending \ staying \subseteq recorded \cup dead'
  /\ pending' = staying
  /\ UNCHANGED <<confirmed, recorded>>

Next ==
  \/ \E e \in Events : Enqueue(e) \/ Confirm(e) \/ Record(e)
  \/ \E doomed, staying \in SUBSET pending : Leave(doomed, staying)

Spec == Init /\ [][Next]_ledger

\* Nothing confirmed is ever forgotten: by tasks.service.ts, only an event whose
\* publish failed is dropped.
NothingForgotten == confirmed \subseteq Known

=============================================================================
