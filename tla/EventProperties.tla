--------------------------- MODULE EventProperties ---------------------------
(***************************************************************************)
(* What TaskEvents must satisfy, and what the repository says of it.       *)
(***************************************************************************)
EXTENDS TaskEvents

InQueue(m) == msg[m] \in {"ready", "unacked"}
CopiesOf(r) == {m \in Copies : m[1] = r}
Kept(r) == r \in processed \/ \E m \in CopiesOf(r) : InQueue(m) \/ msg[m] = "dead"

\* A POST /tasks that answered 201 and logged no "Failed to publish" has its
\* event in processed_events, in tasks_queue or in the dead-letter queue, through
\* every crash, redelivery and lost connection: create() drops only what it logs.
NoSilentLoss ==
  \A r \in Requests : req[r] = "done" /\ r \notin dropped => Kept(r)

\* An event is only ever written, handled or recorded for a task whose row was
\* committed: create() publishes after save, and no failure reorders them.
NoPhantomEvent ==
  \A r \in Requests :
    (work[r] > 0 \/ r \in processed \/ \E m \in CopiesOf(r) : msg[m] # "none") => r \in tasks

\* A message the broker counts as unacked is in the hands of a handleMessage that
\* still runs, on a process that does, and its channel is open, or closed by the
\* client, in which case the broker takes it back: no return or throw of
\* handleMessage leaves a message with nobody to settle it.
NoStuckMessage ==
  \A m \in Copies : msg[m] = "unacked" =>
    LET d == <<m, returns[m]>>
    IN  /\ handler[d] \in Active /\ host[d] \in Instances /\ proc[host[d]] # "down"
        /\ d \in orphaned \/ conLink[host[d]] \in Open

\* An event of a task reaches the dead-letter queue by coming back more often than
\* x-delivery-limit, as the broker counts, never by a nack without requeue.  That is
\* one failed attempt more than the documents say: see DeadLetteredInTime.
NoEarlyDeadLetter ==
  \A m \in Copies : m[1] \in Requests /\ msg[m] = "dead" => returns[m] > DeliveryLimit

\* The side effect repeats only if the event was written twice or came back to
\* the queue: handleMessage itself runs it once per delivery.
RepeatNeedsRedelivery ==
  \A r \in Requests : work[r] > 1 =>
    sends[r] > 1 \/ \E m \in CopiesOf(r) : returns[m] > 0

\* The pipeline implements the ledger of events: what is confirmed leaves the
\* queue only for processed_events or the dead-letter queue, and stays there.
Confirmed == {r \in Requests : pub[r] = "confirmed"}
Pending == {r \in Requests : \E m \in CopiesOf(r) : InQueue(m)}
Dead == {r \in Requests : \E m \in CopiesOf(r) : msg[m] = "dead"}
Ledger == INSTANCE EventLedger WITH
  Events <- Requests, confirmed <- Confirmed, pending <- Pending,
  recorded <- processed, dead <- Dead
ImplementsLedger == Ledger!Spec

\* A POST /tasks whose row is committed is answered 201, or cut off with its process,
\* whatever the broker does: publishTaskCreated bounds that wait by 2 s.  The wait for
\* the database has no bound: it ends unless the database stays silent.
RequestAnswered ==
  \A r \in Requests :
    /\ req[r] = "publishing" ~> req[r] \in {"done", "cut"}
    /\ (req[r] = "saving" ~> req[r] # "saving") \/ <>[](db = "mute")

\* An instance that received SIGTERM ends by itself, unless a connection broke while
\* its hook waited for CloseOk, or the database stays silent under a request it
\* serves: neither onModuleDestroy nor the drain waits for what it closed itself.
ShutdownCompletes ==
  \A i \in Instances :
    \/ proc[i] \in {"closing", "draining"} ~> proc[i] = "down"
    \/ <>[](pubLink[i] = "hung" \/ conLink[i] = "hung")
    \/ <>[](db = "mute" /\ Serving(i) # {})

\* A confirmed event ends in processed_events or in the dead-letter queue, unless the
\* broker stays down, the database stays silent, or no instance is left that consumes,
\* each ended, stopping or cancelled by the broker: a handler cut off by a crash, a
\* SIGTERM or a lost connection gives its message back, and one that lives finishes.
EventuallyHandled ==
  \A r \in Requests :
    \/ pub[r] = "confirmed" ~> r \in processed \/ \E m \in CopiesOf(r) : msg[m] = "dead"
    \/ <>[](~broker) \/ <>[](db = "mute")
    \/ <>[](\A i \in Instances : proc[i] # "up" \/ conLink[i] = "cancelled")

-----------------------------------------------------------------------------
(* The inductive invariant the proofs rest on.                             *)

\* A message that is not dead-lettered has attempts left, and each copy is written
\* once.
BrokerInv ==
  /\ Q!BrokerTypeOK
  /\ \A m \in Copies : msg[m] # "dead" => returns[m] <= DeliveryLimit
  /\ \A m \in Copies : m[1] \in Requests /\ m[2] > sends[m[1]] => msg[m] = "none"

\* A handler runs for the event of a request, and acks once its row is committed.
HandlerInv ==
  \A d \in Deliveries :
    /\ handler[d] \in Active => d[1][1] \in Requests
    /\ handler[d] = "recorded" => d[1][1] \in processed

\* Inductive.
TypeInv == TypeOK /\ BrokerInv /\ HandlerInv

\* An event is published once, after its row is committed.
WebInv ==
  \A r \in Requests :
    /\ req[r] \in {"idle", "saving"} => pub[r] = "none"
    /\ pub[r] # "none" => r \in tasks
    /\ pub[r] \in {"sent", "confirmed"} => sends[r] > 0

\* An event exists, at each place it passes, only once its row is committed.
FromTask ==
  /\ \A m \in Copies : m[1] \in Requests /\ msg[m] # "none" => m[1] \in tasks
  /\ \A d \in Deliveries : handler[d] \in Active => d[1][1] \in tasks
  /\ \A r \in Requests : work[r] > 0 => r \in tasks
  /\ processed \subseteq tasks

\* An event leaves the queue by an ack, after its row is in processed_events.
NeverLost ==
  /\ bound
  /\ \A r \in Requests : req[r] = "done" /\ r \notin dropped => pub[r] = "confirmed"
  /\ \A m \in Copies : m[1] \in Requests /\ msg[m] = "acked" => m[1] \in processed
  /\ \A m \in Copies : msg[m] # "unrouted"
  /\ \A r \in Requests : pub[r] = "confirmed" => Kept(r)

\* A consumer's channel belongs to a running process, and is closed by the client
\* under its handlers before the process leaves it.
LinksInv ==
  \A i \in Instances :
    /\ conLink[i] \in Open \cup {"lost", "down"} => proc[i] = "up"
    /\ conLink[i] \in {"closing", "hung"} => proc[i] = "closing"

\* A delivery is handled on an instance, and either its message is unacked under it
\* or the broker took the message back.
DeliveryInv ==
  \A d \in Deliveries :
    /\ handler[d] = "idle" => host[d] = "nobody" /\ d \notin orphaned
    /\ handler[d] \in Active =>
         host[d] \in Instances /\ (Live(d) \/ d[2] < returns[d[1]])

\* An event written once whose message never came back runs its side effect in the
\* first delivery alone, after the lookup.
OncePerDelivery ==
  \A r \in Requests :
    sends[r] <= 1 /\ (\A m \in CopiesOf(r) : returns[m] = 0) =>
      /\ work[r] <= 1
      /\ work[r] = 1 =>
           /\ handler[<<<<r, 1>>, 0>>] # "lookup"
           /\ msg[<<r, 1>>] \in {"unacked", "acked"}

\* What is handled has reached the queue.
HandledCame == \A d \in Deliveries : handler[d] \in Active => msg[d[1]] \in Q!Queued

-----------------------------------------------------------------------------
(* What the repository says and the code does not do.                      *)

\* queue.consumer.ts:96-98: a redelivery is "a safe no-op, not a repeat of the
\* side effect".
SideEffectOnce == \A r \in Requests : work[r] <= 1

\* README.md:145: with postgres-primary down, GET /tasks keeps working.
ReadsKeepWorking == \E i \in Instances : proc[i] # "down"

\* tasks.service.ts:22-23: a broker outage does not turn a successful write into
\* a failed request.  README.md:53: SIGTERM does not cut off in-flight work.
CommittedWriteAnswered == \A r \in tasks : req[r] \notin {"error", "cut"}

\* README.md:147: a message is in the dead-letter queue "after 3 failed attempts";
\* queue.consumer.ts:47-48: what "fails MAX_DELIVERY_ATTEMPTS times lands here".
DeadLetteredInTime == \A m \in Copies : InQueue(m) => returns[m] < DeliveryLimit

=============================================================================
