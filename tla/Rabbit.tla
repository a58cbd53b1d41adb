------------------------------- MODULE Rabbit -------------------------------
(***************************************************************************)
(* The RabbitMQ broker as this repository declares and uses it: the        *)
(* exchange tasks.exchange, the quorum queue tasks_queue with its          *)
(* x-delivery-limit, and the dead-letter queue behind tasks.dlx.  The      *)
(* broker is not in the repository: its behaviour is modelled from the     *)
(* topology that queue.consumer.ts declares.                               *)
(*                                                                         *)
(* A message is one copy of an event, as written once on a socket.         *)
(***************************************************************************)
EXTENDS Naturals

CONSTANTS
  Msgs,           \* every copy of an event that may ever be written
  DeliveryLimit   \* x-delivery-limit of tasks_queue

VARIABLES
  msg,      \* where each message is
  returns,  \* the quorum queue's delivery counter of each message
  bound     \* tasks_queue exists and is bound to tasks.exchange

\* "none": never written, "wire": on a socket, "gone": lost with a socket,
\* "unrouted": confirmed and discarded, as no queue was bound.
Queued == {"ready", "unacked", "acked", "dead"}
Statuses == {"none", "wire", "gone", "unrouted"} \cup Queued

BrokerTypeOK ==
  /\ msg \in [Msgs -> Statuses]
  /\ returns \in [Msgs -> 0..(DeliveryLimit + 1)]
  /\ bound \in BOOLEAN

-----------------------------------------------------------------------------

Write(m) ==
  /\ msg' = [msg EXCEPT ![m] = "wire"]
  /\ UNCHANGED <<returns, bound>>

\* The exchange routes m.  Messages are published without the mandatory flag.
Accept(m) ==
  /\ msg[m] = "wire"
  /\ msg' = [msg EXCEPT ![m] = IF bound THEN "ready" ELSE "unrouted"]
  /\ UNCHANGED <<returns, bound>>

Deliver(m) ==
  /\ msg[m] = "ready"
  /\ msg' = [msg EXCEPT ![m] = "unacked"]
  /\ UNCHANGED <<returns, bound>>

Ack(m) ==
  /\ msg[m] = "unacked"
  /\ msg' = [msg EXCEPT ![m] = "acked"]
  /\ UNCHANGED <<returns, bound>>

\* Delivered and nacked without requeue: the dead-letter exchange takes m.
Discard(m) ==
  /\ msg[m] = "ready"
  /\ msg' = [msg EXCEPT ![m] = "dead"]
  /\ UNCHANGED <<returns, bound>>

\* The messages of back return to the queue, as their consumer nacked them or
\* is gone.  One returned more than DeliveryLimit times is dead-lettered.
\* The messages of lost were on a socket that broke.
Return(back, lost) ==
  /\ msg' = [m \in Msgs |->
               IF m \in back
               THEN IF returns[m] < DeliveryLimit THEN "ready" ELSE "dead"
               ELSE IF m \in lost THEN "gone" ELSE msg[m]]
  /\ returns' = [m \in Msgs |-> IF m \in back THEN returns[m] + 1 ELSE returns[m]]
  /\ UNCHANGED bound

=============================================================================
