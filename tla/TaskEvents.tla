----------------------------- MODULE TaskEvents -----------------------------
(***************************************************************************)
(* POST /tasks and the task.created event behind it: TasksService.create,  *)
(* QueueService (publisher) and QueueConsumerService (consumer), in every  *)
(* instance of the app, with the broker, the primary database and the      *)
(* failures of each.                                                       *)
(*                                                                         *)
(* Event e is the event of request e: publishTaskCreated runs once per     *)
(* request, so its random eventId names the request.  A copy <<e, n>> is   *)
(* the n-th time e is written on a socket; a delivery <<<<e, n>>, k>> is   *)
(* the k+1-st time the broker hands that copy to a consumer.               *)
(*                                                                         *)
(* Steps are the program's stretches between two awaits.  processed only   *)
(* grows, so the code after the answer to the lookup may as well run when  *)
(* the database answers.                                                   *)
(***************************************************************************)
EXTENDS Naturals

CONSTANTS
  Instances,      \* app1, app2: the containers that run the app
  Requests,       \* the POST /tasks requests that may arrive
  Junk,           \* messages in tasks_queue that are not JSON
  MaxSends,       \* bound: times one publish may be written on a socket
  DeliveryLimit,  \* MAX_DELIVERY_ATTEMPTS
  FreshBroker,    \* TRUE when no consumer has declared tasks_queue yet
  Budgets         \* bound: how often each kind of fault may strike, one of these

Faults == {"crash", "drop", "broker", "cancel", "db", "sigterm"}

ASSUME NobodyAssumption == "nobody" \notin Instances
ASSUME JunkAssumption == Junk \cap Requests = {}
ASSUME MaxSendsAssumption == MaxSends \in Nat \ {0}
ASSUME LimitAssumption == DeliveryLimit \in Nat
ASSUME FreshBrokerAssumption == FreshBroker \in BOOLEAN
ASSUME BudgetAssumption == Budgets \subseteq [Faults -> Nat]

Copies == (Requests \cup Junk) \X (1..MaxSends)
Deliveries == Copies \X (0..DeliveryLimit)

VARIABLES
  msg, returns, bound,  \* the broker: see Rabbit
  broker, left,  \* whether the broker is up; faults left
  db,         \* the primary database; "mute": its connections stay and nothing answers
  proc,       \* the process of each instance; "closing": onModuleDestroy is awaited
  pubLink,    \* its publisher's channel and connection (QueueService)
  conLink,    \* its consumer's: "lost", broken and not yet noticed; "cancelled", open
              \* and without a consumer.  Of both: "closing", CloseOk is awaited;
              \* "hung", it never comes
  req, at,    \* each POST /tasks, and the instance that serves it
  pub, sends, \* its publish in amqp-connection-manager; times written
  tasks,      \* rows of the tasks table on the primary
  processed,  \* rows of the processed_events table
  dropped,    \* requests that logged "Failed to publish"
  handler,    \* each delivery's handleMessage
  host,       \* the instance it runs on
  orphaned,   \* deliveries whose channel object is closed in the client
  work        \* times the side effect of an event ran: 0, 1, 2 or more

Q == INSTANCE Rabbit WITH Msgs <- Copies

brokerVars == <<msg, returns, bound>>
envVars == <<broker, db, left>>
procVars == <<proc, pubLink, conLink>>
webVars == <<req, at, pub, sends, tasks, dropped>>
workVars == <<processed, handler, host, orphaned, work>>
vars == <<brokerVars, envVars, procVars, webVars, workVars>>

Active == {"lookup", "saving", "recorded"}
PubStates == {"up", "down", "closing", "hung", "closed"}
ConStates == PubStates \cup {"cancelled", "lost"}
\* "error": answered with an HTTP error; "cut": its process ended, and nobody answers.
ReqStates == {"idle", "saving", "publishing", "done", "error", "cut"}

TypeOK ==
  /\ Q!BrokerTypeOK
  /\ broker \in BOOLEAN /\ db \in {"up", "down", "mute"} /\ left \in [Faults -> Nat]
  /\ proc \in [Instances -> {"up", "closing", "draining", "down"}]
  /\ pubLink \in [Instances -> PubStates] /\ conLink \in [Instances -> ConStates]
  /\ req \in [Requests -> ReqStates]
  /\ at \in [Requests -> Instances \cup {"nobody"}]
  /\ pub \in [Requests -> {"none", "buffered", "sent", "confirmed", "rejected"}]
  /\ sends \in [Requests -> 0..MaxSends]
  /\ tasks \subseteq Requests /\ dropped \subseteq Requests
  /\ processed \subseteq Requests
  /\ handler \in [Deliveries -> {"idle"} \cup Active]
  /\ host \in [Deliveries -> Instances \cup {"nobody"}]
  /\ orphaned \subseteq Deliveries
  /\ work \in [Requests -> 0..2]

Init ==
  /\ msg = [m \in Copies |-> IF m[1] \in Junk /\ m[2] = 1 THEN "ready" ELSE "none"]
  /\ returns = [m \in Copies |-> 0]
  /\ bound = ~FreshBroker
  /\ broker = TRUE /\ db = "up" /\ left \in Budgets
  /\ proc = [i \in Instances |-> "up"]
  /\ pubLink = [i \in Instances |-> "down"]
  /\ conLink = [i \in Instances |-> "down"]
  /\ req = [r \in Requests |-> "idle"] /\ at = [r \in Requests |-> "nobody"]
  /\ pub = [r \in Requests |-> "none"] /\ sends = [r \in Requests |-> 0]
  /\ tasks = {} /\ processed = {} /\ dropped = {}
  /\ handler = [d \in Deliveries |-> "idle"]
  /\ host = [d \in Deliveries |-> "nobody"]
  /\ orphaned = {}
  /\ work = [r \in Requests |-> 0]

Fault(f) == left[f] > 0 /\ left' = [left EXCEPT ![f] = @ - 1]

-----------------------------------------------------------------------------
(* What several handlers share.                                            *)

Live(d) == msg[d[1]] = "unacked" /\ returns[d[1]] = d[2]
Held(i) == {m \in Copies : msg[m] = "unacked" /\ host[<<m, returns[m]>>] = i}
\* Those whose channel the client has closed, and the broker has not.
Forsaken(i) == {m \in Held(i) : <<m, returns[m]>> \in orphaned}
InTransit(i) == {m \in Copies : m[1] \in Requests /\ msg[m] = "wire" /\ at[m[1]] = i}
Unsettled(i) == {r \in Requests : at[r] = i /\ pub[r] \in {"buffered", "sent"}}
Serving(i) == {r \in Requests : at[r] = i /\ req[r] \in {"saving", "publishing"}}

\* The publishes of R reject: create() logs it and answers all the same.  Those
\* of again wait in the library to be written once more.
Reject(R, again) ==
  /\ pub' = [r \in Requests |-> IF r \in R THEN "rejected"
                               ELSE IF r \in again THEN "buffered" ELSE pub[r]]
  /\ req' = [r \in Requests |->
               IF r \in R /\ req[r] = "publishing" THEN "done" ELSE req[r]]
  /\ dropped' = dropped \cup {r \in R : req[r] = "publishing"}

\* handleMessage returns, or its process is gone.
Over(D) ==
  /\ handler' = [d \in Deliveries |-> IF d \in D THEN "idle" ELSE handler[d]]
  /\ host' = [d \in Deliveries |-> IF d \in D THEN "nobody" ELSE host[d]]
  /\ orphaned' = orphaned \ D

\* The process of i is gone, its sockets, requests and handlers with it.
Die(i) ==
  /\ proc' = [proc EXCEPT ![i] = "down"]
  /\ pubLink' = [pubLink EXCEPT ![i] = "closed"]
  /\ conLink' = [conLink EXCEPT ![i] = "closed"]
  /\ Q!Return(Held(i), InTransit(i))
  /\ req' = [r \in Requests |-> IF r \in Serving(i) THEN "cut" ELSE req[r]]
  /\ pub' = [r \in Requests |-> IF r \in Unsettled(i) THEN "rejected" ELSE pub[r]]
  /\ Over({d \in Deliveries : host[d] = i})
  /\ UNCHANGED <<at, sends, tasks, dropped>>

\* save of d is answered with an error: the database is down, or has the event's row.
Refused(d) == \/ db = "down"
              \/ db = "up" /\ d[1][1] \in processed

\* channel.ack / channel.nack(.., true) of delivery d, and handleMessage returns.
\* On a socket that broke it has no effect; on a closed channel it throws, the
\* promise of handleMessage rejects unhandled, and Node ends the process.
Throws(d) == d \in orphaned /\ Die(host[d])

Ack(d) ==
  \/ /\ d \notin orphaned
     /\ IF Live(d) THEN Q!Ack(d[1]) ELSE UNCHANGED brokerVars
     /\ Over({d})
     /\ UNCHANGED <<procVars, webVars>>
  \/ Throws(d)

Requeue(d) ==
  \/ /\ d \notin orphaned
     /\ IF Live(d) THEN Q!Return({d[1]}, {}) ELSE UNCHANGED brokerVars
     /\ Over({d})
     /\ UNCHANGED <<procVars, webVars>>
  \/ Throws(d)

-----------------------------------------------------------------------------
(* Mutated forms of operations below, each with a bug that some property   *)
(* of EventProperties must find.  No specification uses them.              *)

ArriveAndPublish(r, i) ==        \* the event leaves before the row is saved
  /\ req[r] = "idle" /\ proc[i] \in {"up", "closing"}
  /\ req' = [req EXCEPT ![r] = "saving"]
  /\ at' = [at EXCEPT ![r] = i]
  /\ pub' = [pub EXCEPT ![r] = "buffered"]
  /\ UNCHANGED <<sends, tasks, dropped, brokerVars, envVars, procVars, workVars>>

TimeoutWhenSent(r) ==            \* the timer starts when the message is written
  /\ req[r] = "publishing" /\ pub[r] = "sent"
  /\ req' = [req EXCEPT ![r] = "done"]
  /\ dropped' = dropped \cup {r}
  /\ UNCHANGED <<at, pub, sends, tasks, brokerVars, envVars, procVars, workVars>>

DeliverFresh(m, i) ==            \* redelivered messages are ignored
  /\ broker /\ conLink[i] = "up" /\ m[1] \in Requests /\ returns[m] = 0
  /\ Q!Deliver(m)
  /\ handler' = [handler EXCEPT ![<<m, 0>>] = "lookup"]
  /\ host' = [host EXCEPT ![<<m, 0>>] = i]
  /\ UNCHANGED <<processed, orphaned, work, envVars, procVars, webVars>>

LookupFailsCaught(d) ==          \* caught and logged, with neither ack nor nack
  /\ handler[d] = "lookup" /\ db = "down"
  /\ Over({d})
  /\ UNCHANGED <<brokerVars, envVars, procVars, webVars, processed, work>>

ProcessAcked(d) ==               \* ack before save
  /\ handler[d] = "lookup" /\ db = "up" /\ d[1][1] \notin processed
  /\ handler' = [handler EXCEPT ![d] = "saving"]
  /\ work' = [work EXCEPT ![d[1][1]] = IF @ < 2 THEN @ + 1 ELSE 2]
  /\ IF Live(d) THEN Q!Ack(d[1]) ELSE UNCHANGED brokerVars
  /\ UNCHANGED <<processed, host, orphaned, envVars, procVars, webVars>>

RecordByCopy(d) ==               \* the row is keyed by the message, not the event
  /\ handler[d] = "saving" /\ db = "up"
  /\ processed' = processed \cup {d[1]}
  /\ handler' = [handler EXCEPT ![d] = "recorded"]
  /\ UNCHANGED <<host, orphaned, work, brokerVars, envVars, procVars, webVars>>

SaveFailsAcked(d) ==             \* the catch acks
  /\ handler[d] = "saving" /\ Refused(d)
  /\ Ack(d)
  /\ UNCHANGED <<envVars, processed, work>>

SaveFailsDiscarded(d) ==         \* the catch nacks without requeue
  /\ handler[d] = "saving" /\ Refused(d)
  /\ d \notin orphaned /\ Live(d)
  /\ msg' = [msg EXCEPT ![d[1]] = "dead"]
  /\ Over({d})
  /\ UNCHANGED <<returns, bound, procVars, webVars, envVars, processed, work>>

SaveFailsRetried(d) ==           \* the catch starts handleMessage over
  /\ handler[d] = "saving" /\ Refused(d)
  /\ handler' = [handler EXCEPT ![d] = "lookup"]
  /\ UNCHANGED <<brokerVars, host, orphaned, procVars, webVars, envVars, processed, work>>

DrainSettled(i) ==               \* the shutdown waits for every publish
  /\ proc[i] = "closing" /\ Unsettled(i) = {}
  /\ pubLink[i] = "closed" /\ conLink[i] = "closed"
  /\ proc' = [proc EXCEPT ![i] = "draining"]
  /\ UNCHANGED <<pubLink, conLink, brokerVars, envVars, webVars, workVars>>

-----------------------------------------------------------------------------
(* TasksService.create and QueueService.publishTaskCreated.                *)

Arrive(r, i) ==
  /\ req[r] = "idle" /\ proc[i] \in {"up", "closing"}
  /\ req' = [req EXCEPT ![r] = "saving"]
  /\ at' = [at EXCEPT ![r] = i]
  /\ UNCHANGED <<pub, sends, tasks, dropped, brokerVars, envVars, procVars, workVars>>

\* The row is committed and publishTaskCreated hands its event to the library.
SaveTask(r) ==
  /\ req[r] = "saving" /\ db = "up"
  /\ req' = [req EXCEPT ![r] = "publishing"]
  /\ pub' = [pub EXCEPT ![r] = "buffered"]
  /\ tasks' = tasks \cup {r}
  /\ UNCHANGED <<at, sends, dropped, brokerVars, envVars, procVars, workVars>>

\* The row may have been committed and only the answer lost.
SaveTaskFails(r) ==
  /\ req[r] = "saving" /\ db = "down"
  /\ req' = [req EXCEPT ![r] = "error"]
  /\ tasks' \in {tasks, tasks \cup {r}}
  /\ UNCHANGED <<at, pub, sends, dropped, brokerVars, envVars, procVars, workVars>>

Send(r) ==
  /\ pub[r] = "buffered" /\ pubLink[at[r]] = "up" /\ sends[r] < MaxSends
  /\ sends' = [sends EXCEPT ![r] = @ + 1]
  /\ pub' = [pub EXCEPT ![r] = "sent"]
  /\ Q!Write(<<r, sends[r] + 1>>)
  /\ UNCHANGED <<req, at, tasks, dropped, envVars, procVars, workVars>>

Route(m) ==
  /\ broker
  /\ Q!Accept(m)
  /\ UNCHANGED <<envVars, procVars, webVars, workVars>>

\* The confirm of the copy last written resolves the publish.
Confirm(r) ==
  /\ pub[r] = "sent" /\ msg[<<r, sends[r]>>] \in Q!Queued \cup {"unrouted"}
  /\ pub' = [pub EXCEPT ![r] = "confirmed"]
  /\ req' = [req EXCEPT ![r] = IF @ = "publishing" THEN "done" ELSE @]
  /\ UNCHANGED <<at, sends, tasks, dropped, brokerVars, envVars, procVars, workVars>>

\* The 2 s of Promise.race are over; the library still holds the message.
PublishTimeout(r) ==
  /\ req[r] = "publishing"
  /\ req' = [req EXCEPT ![r] = "done"]
  /\ dropped' = dropped \cup {r}
  /\ UNCHANGED <<at, pub, sends, tasks, brokerVars, envVars, procVars, workVars>>

-----------------------------------------------------------------------------
(* QueueConsumerService.handleMessage.                                     *)

Deliver(m, i) ==
  /\ broker /\ conLink[i] = "up" /\ m[1] \in Requests
  /\ Q!Deliver(m)
  /\ handler' = [handler EXCEPT ![<<m, returns[m]>>] = "lookup"]
  /\ host' = [host EXCEPT ![<<m, returns[m]>>] = i]
  /\ UNCHANGED <<processed, orphaned, work, envVars, procVars, webVars>>

\* JSON.parse throws: nack without requeue, all in the consume callback.
DeliverJunk(m) ==
  /\ broker /\ (\E i \in Instances : conLink[i] = "up") /\ m[1] \in Junk
  /\ Q!Discard(m)
  /\ UNCHANGED <<envVars, procVars, webVars, workVars>>

\* findOne is awaited outside the try: its failure rejects handleMessage.
LookupFails(d) ==
  /\ handler[d] = "lookup" /\ db = "down"
  /\ Die(host[d])
  /\ UNCHANGED <<envVars, processed, work>>

Skip(d) ==
  /\ handler[d] = "lookup" /\ db = "up" /\ d[1][1] \in processed
  /\ Ack(d)
  /\ UNCHANGED <<envVars, processed, work>>

\* The side effect runs, then save is awaited.
Process(d) ==
  /\ handler[d] = "lookup" /\ db = "up" /\ d[1][1] \notin processed
  /\ handler' = [handler EXCEPT ![d] = "saving"]
  /\ work' = [work EXCEPT ![d[1][1]] = IF @ < 2 THEN @ + 1 ELSE 2]
  /\ UNCHANGED <<processed, host, orphaned, brokerVars, envVars, procVars, webVars>>

Record(d) ==
  /\ handler[d] = "saving" /\ db = "up"
  /\ processed' = processed \cup {d[1][1]}
  /\ handler' = [handler EXCEPT ![d] = "recorded"]
  /\ UNCHANGED <<host, orphaned, work, brokerVars, envVars, procVars, webVars>>

\* save rejects: another consumer inserted the row since the lookup, or the
\* database went down before the commit, or after it with the answer.
SaveFails(d) ==
  /\ \/ handler[d] = "saving" /\ Refused(d)
     \/ handler[d] = "recorded" /\ db = "down"
  /\ Requeue(d)
  /\ UNCHANGED <<envVars, processed, work>>

Finish(d) ==
  /\ handler[d] = "recorded"
  /\ Ack(d)
  /\ UNCHANGED <<envVars, processed, work>>

-----------------------------------------------------------------------------
(* Connections, the failures of the environment, start and stop.           *)

Broken(link) == CASE link = "up" -> "down" [] link = "closing" -> "hung" [] OTHER -> link

\* The publishers of I lose their sockets.  What they wrote and saw no confirm
\* of is put back to be written again, or rejects.
LosePub(I, again) ==
  LET unconfirmed == {r \in Requests : at[r] \in I /\ pub[r] = "sent"}
  IN  /\ again \subseteq {r \in unconfirmed : sends[r] < MaxSends}
      /\ pubLink' = [i \in Instances |->
                       IF i \in I THEN Broken(pubLink[i]) ELSE pubLink[i]]
      /\ Reject(unconfirmed \ again, again)

DropPub(i, again) ==
  /\ Fault("drop") /\ pubLink[i] \in {"up", "closing"}
  /\ LosePub({i}, again)
  /\ Q!Return({}, InTransit(i))
  /\ UNCHANGED <<broker, db, proc, conLink, at, sends, tasks, workVars>>

\* The channel object of the consumer closes under its handlers.
Orphan(i) == orphaned' = orphaned \cup {d \in Deliveries : host[d] = i}

Open == {"up", "cancelled"}

\* The consumer of i loses its socket, and the broker sees it first ...
DropCon(i) ==
  /\ Fault("drop") /\ conLink[i] \in Open
  /\ conLink' = [conLink EXCEPT ![i] = "lost"]
  /\ Q!Return(Held(i) \ Forsaken(i), {})
  /\ UNCHANGED <<broker, db, proc, pubLink, webVars, workVars>>

NoticeCon(i) ==
  /\ conLink[i] = "lost"
  /\ conLink' = [conLink EXCEPT ![i] = "down"]
  /\ Orphan(i)
  /\ UNCHANGED <<proc, pubLink, processed, handler, host, work, brokerVars, envVars, webVars>>

\* ... or the client does, and the broker later, as after a Close of the client.
AbandonCon(i) ==
  /\ Fault("drop") /\ conLink[i] \in Open
  /\ conLink' = [conLink EXCEPT ![i] = "down"]
  /\ Orphan(i)
  /\ UNCHANGED <<broker, db, proc, pubLink, processed, handler, host, work, brokerVars, webVars>>

Release(i) ==
  /\ Forsaken(i) # {}
  /\ Q!Return(Forsaken(i), {})
  /\ UNCHANGED <<envVars, procVars, webVars, workVars>>

\* The socket breaks while CloseOk is awaited: amqplib then never calls back.
HangCon(i) ==
  /\ Fault("drop") /\ conLink[i] = "closing"
  /\ conLink' = [conLink EXCEPT ![i] = "hung"]
  /\ UNCHANGED <<broker, db, proc, pubLink, brokerVars, webVars, workVars>>

ReconnectPub(i) ==
  /\ broker /\ pubLink[i] = "down"
  /\ pubLink' = [pubLink EXCEPT ![i] = "up"]
  /\ UNCHANGED <<proc, conLink, brokerVars, envVars, webVars, workVars>>

\* The setup function declares the topology again, then consumes.
ReconnectCon(i) ==
  /\ broker /\ conLink[i] = "down"
  /\ conLink' = [conLink EXCEPT ![i] = "up"]
  /\ bound' = TRUE
  /\ UNCHANGED <<proc, pubLink, msg, returns, envVars, webVars, workVars>>

\* The broker cancels the consumer: handleMessage(null) returns, the channel stays
\* open, and nobody consumes on it again.
Cancel(i) ==
  /\ Fault("cancel") /\ broker /\ conLink[i] = "up"
  /\ conLink' = [conLink EXCEPT ![i] = "cancelled"]
  /\ UNCHANGED <<broker, db, proc, pubLink, brokerVars, webVars, workVars>>

BrokerDown(again) ==
  /\ Fault("broker") /\ broker
  /\ broker' = FALSE
  /\ LosePub(Instances, again)
  /\ conLink' = [i \in Instances |->
                   IF conLink[i] \in Open THEN "lost" ELSE Broken(conLink[i])]
  /\ Q!Return({m \in Copies : msg[m] = "unacked"}, {m \in Copies : msg[m] = "wire"})
  /\ UNCHANGED <<db, proc, at, sends, tasks, workVars>>

BrokerUp ==
  /\ ~broker /\ broker' = TRUE
  /\ UNCHANGED <<db, left, brokerVars, procVars, webVars, workVars>>

\* Queries fail, or stay without an answer: no connection has a timeout.
DbDown ==
  /\ Fault("db") /\ db = "up"
  /\ db' \in {"down", "mute"}
  /\ UNCHANGED <<broker, brokerVars, procVars, webVars, workVars>>

DbUp ==
  /\ db # "up" /\ db' = "up"
  /\ UNCHANGED <<broker, left, brokerVars, procVars, webVars, workVars>>

Crash(i) ==
  /\ Fault("crash") /\ proc[i] # "down"
  /\ Die(i)
  /\ UNCHANGED <<broker, db, processed, work>>

\* onModuleDestroy of both services, at once: unsettled publishes reject, the
\* handlers still running keep a closed channel, and each open channel and
\* connection sends its Close.  One into a broken socket gets no answer.
Sigterm(i) ==
  /\ Fault("sigterm") /\ proc[i] = "up"
  /\ proc' = [proc EXCEPT ![i] = "closing"]
  /\ pubLink' = [pubLink EXCEPT ![i] = IF @ = "up" THEN "closing" ELSE "closed"]
  /\ conLink' = [conLink EXCEPT ![i] = IF @ \in Open THEN "closing"
                                       ELSE IF @ = "lost" THEN "hung" ELSE "closed"]
  /\ Reject(Unsettled(i), {})
  /\ Orphan(i)
  /\ UNCHANGED <<broker, db, at, sends, tasks, processed, handler, host, work, brokerVars>>

\* CloseOk, after what was written before the Close.
ClosePub(i) ==
  /\ pubLink[i] = "closing" /\ InTransit(i) = {}
  /\ pubLink' = [pubLink EXCEPT ![i] = "closed"]
  /\ UNCHANGED <<proc, conLink, brokerVars, envVars, webVars, workVars>>

CloseCon(i) ==
  /\ conLink[i] = "closing"
  /\ conLink' = [conLink EXCEPT ![i] = "closed"]
  /\ UNCHANGED <<proc, pubLink, brokerVars, envVars, webVars, workVars>>

\* Both hooks have returned: the HTTP server accepts no more.
Drain(i) ==
  /\ proc[i] = "closing" /\ pubLink[i] = "closed" /\ conLink[i] = "closed"
  /\ proc' = [proc EXCEPT ![i] = "draining"]
  /\ UNCHANGED <<pubLink, conLink, brokerVars, envVars, webVars, workVars>>

\* Nest waits for the requests being served, not for the handlers.
Exit(i) ==
  /\ proc[i] = "draining" /\ Serving(i) = {}
  /\ Die(i)
  /\ UNCHANGED <<envVars, processed, work>>

\* By hand, or by a deploy: docker-compose.yml gives no restart policy.
Restart(i) ==
  /\ proc[i] = "down"
  /\ proc' = [proc EXCEPT ![i] = "up"]
  /\ pubLink' = [pubLink EXCEPT ![i] = "down"]
  /\ conLink' = [conLink EXCEPT ![i] = "down"]
  /\ UNCHANGED <<brokerVars, envVars, webVars, workVars>>

-----------------------------------------------------------------------------

Requesting(r) ==
  \/ \E i \in Instances : Arrive(r, i)
  \/ SaveTask(r) \/ SaveTaskFails(r) \/ Send(r) \/ Confirm(r) \/ PublishTimeout(r)

Handling(d) ==
  \/ LookupFails(d) \/ Skip(d) \/ Process(d)
  \/ Record(d) \/ SaveFails(d) \/ Finish(d)

Consuming(m) == \/ \E i \in Instances : Deliver(m, i)
                \/ DeliverJunk(m)

Linking(i) ==
  \/ NoticeCon(i) \/ Release(i) \/ ReconnectPub(i) \/ ReconnectCon(i)
  \/ ClosePub(i) \/ CloseCon(i) \/ Drain(i)

Failing(i) ==
  \/ \E again \in SUBSET Requests : DropPub(i, again)
  \/ DropCon(i) \/ AbandonCon(i) \/ HangCon(i) \/ Cancel(i)
  \/ Crash(i) \/ Sigterm(i) \/ Restart(i)

Next ==
  \/ \E r \in Requests : Requesting(r)
  \/ \E m \in Copies : Route(m) \/ Consuming(m)
  \/ \E d \in Deliveries : Handling(d)
  \/ \E i \in Instances : Linking(i) \/ Failing(i) \/ Exit(i)
  \/ \E again \in SUBSET Requests : BrokerDown(again)
  \/ BrokerUp \/ DbDown \/ DbUp

\* The steps the program, its libraries and the broker take by themselves.
\* Requests, faults, repairs and restarts need not happen.
Fairness ==
  /\ \A r \in Requests :
       /\ WF_vars(SaveTask(r) \/ SaveTaskFails(r))
       /\ WF_vars(Send(r) \/ Confirm(r)) /\ WF_vars(PublishTimeout(r))
  /\ \A m \in Copies : WF_vars(Route(m)) /\ WF_vars(Consuming(m))
  /\ \A d \in Deliveries : WF_vars(Handling(d))
  /\ \A i \in Instances : WF_vars(Linking(i)) /\ WF_vars(Exit(i))

Spec == Init /\ [][Next]_vars
FairSpec == Spec /\ Fairness

=============================================================================
