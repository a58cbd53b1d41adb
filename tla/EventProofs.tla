----------------------------- MODULE EventProofs -----------------------------
(***************************************************************************)
(* Theorems about TaskEvents, for every number of instances, requests and  *)
(* messages, every delivery limit and every budget of faults.              *)
(***************************************************************************)
EXTENDS EventProperties, TLAPS

-----------------------------------------------------------------------------
(* What the shared operators preserve.                                     *)

USE DEF Copies, Deliveries, Active, PubStates, ConStates, ReqStates, Open

LEMMA InitType == Init => TypeInv
  BY JunkAssumption, MaxSendsAssumption, LimitAssumption, BudgetAssumption, FreshBrokerAssumption
  DEF Init, TypeInv, TypeOK, BrokerInv, HandlerInv, Q!BrokerTypeOK, Q!Statuses, Q!Queued

\* Returning messages of the queue keeps the broker's types and the limit.
LEMMA ReturnType ==
  ASSUME TypeInv, NEW back \in SUBSET Copies, NEW lost \in SUBSET Copies,
         \A m \in back : InQueue(m), \A m \in lost : msg[m] = "wire",
         Q!Return(back, lost), UNCHANGED sends
  PROVE  BrokerInv'
  BY LimitAssumption
  DEF TypeInv, BrokerInv, InQueue, Q!Return, Q!BrokerTypeOK, Q!Statuses, Q!Queued

\* So does one message that moves on.
LEMMA MoveType ==
  ASSUME TypeInv, NEW m \in Copies, msg[m] \notin {"none", "dead"},
         NEW status \in Q!Statuses, msg' = [msg EXCEPT ![m] = status],
         UNCHANGED <<returns, bound, sends>>
  PROVE  BrokerInv'
  BY DEF TypeInv, BrokerInv, Q!BrokerTypeOK, Q!Statuses, Q!Queued

LEMMA QuietType ==
  ASSUME TypeInv, UNCHANGED <<msg, returns, bound, sends>>
  PROVE  BrokerInv'
  BY DEF TypeInv, BrokerInv, Q!BrokerTypeOK

LEMMA QuietHandlers ==
  ASSUME TypeInv, UNCHANGED <<processed, handler>>
  PROVE  HandlerInv'
  BY DEF TypeInv, HandlerInv

LEMMA HeldInQueue ==
  \A i : /\ Held(i) \in SUBSET Copies /\ Forsaken(i) \in SUBSET Held(i)
        /\ \A m \in Held(i) : InQueue(m)
  BY DEF Held, Forsaken, InQueue

\* The end of a process, at a moment the environment may also change.
LEMMA DieType ==
  ASSUME TypeInv, NEW i, Die(i), UNCHANGED <<processed, work>>,
         broker' \in BOOLEAN, db' \in {"up", "down", "mute"}, left' \in [Faults -> Nat]
  PROVE  TypeInv'
<1>1. Q!Return(Held(i), InTransit(i)) /\ InTransit(i) \in SUBSET Copies
  BY DEF Die, InTransit
<1>2. BrokerInv'
  BY <1>1, HeldInQueue, ReturnType DEF Die, InTransit
<1>3. QED
  BY <1>2 DEF Die, Over, TypeInv, TypeOK, BrokerInv, HandlerInv

\* The end of handleMessage by an ack or a nack, thrown or not.
LEMMA AckType ==
  ASSUME TypeInv, NEW d \in Deliveries, Ack(d), UNCHANGED <<envVars, processed, work>>
  PROVE  TypeInv'
<1>1. CASE Throws(d)
  BY <1>1, DieType DEF Throws, TypeInv, TypeOK, envVars
<1>2. CASE d \notin orphaned /\ ~Throws(d)
  <2>1. BrokerInv'
    <3>1. CASE Live(d)
      BY <1>2, <3>1, MoveType DEF Ack, Live, Q!Ack, Q!Statuses, Q!Queued, webVars
    <3>2. CASE ~Live(d)
      BY <1>2, <3>2, QuietType DEF Ack, brokerVars, webVars
    <3>3. QED
      BY <3>1, <3>2
  <2>2. QED
    BY <1>2, <2>1 DEF Ack, Over, TypeInv, TypeOK, BrokerInv, HandlerInv, envVars, procVars, webVars
<1>3. QED
  BY <1>1, <1>2 DEF Ack

LEMMA RequeueType ==
  ASSUME TypeInv, NEW d \in Deliveries, Requeue(d), UNCHANGED <<envVars, processed, work>>
  PROVE  TypeInv'
<1>1. CASE Throws(d)
  BY <1>1, DieType DEF Throws, TypeInv, TypeOK, envVars
<1>2. CASE d \notin orphaned /\ ~Throws(d)
  <2>1. BrokerInv'
    <3>1. CASE Live(d)
      <4>1. Q!Return({d[1]}, {}) /\ {d[1]} \in SUBSET Copies /\ \A m \in {d[1]} : InQueue(m)
        BY <1>2, <3>1 DEF Requeue, Live, InQueue
      <4>2. QED
        BY <1>2, <4>1, ReturnType DEF Requeue, webVars
    <3>2. CASE ~Live(d)
      BY <1>2, <3>2, QuietType DEF Requeue, brokerVars, webVars
    <3>3. QED
      BY <3>1, <3>2
  <2>2. QED
    BY <1>2, <2>1 DEF Requeue, Over, TypeInv, TypeOK, BrokerInv, HandlerInv, envVars, procVars, webVars
<1>3. QED
  BY <1>1, <1>2 DEF Requeue

LEMMA RequestingType ==
  ASSUME TypeInv, NEW r \in Requests, Requesting(r)
  PROVE  TypeInv'
<1> USE DEF TypeInv, TypeOK, brokerVars, envVars, procVars, webVars, workVars
<1>1. UNCHANGED <<envVars, procVars, workVars>>
  BY DEF Requesting, Arrive, SaveTask, SaveTaskFails, Send, Confirm, PublishTimeout
<1>2. HandlerInv'
  BY <1>1, QuietHandlers
<1>3. CASE Send(r)
  <2>1. BrokerInv'
    BY <1>3, MaxSendsAssumption
    DEF Send, BrokerInv, Q!Write, Q!BrokerTypeOK, Q!Statuses, Q!Queued
  <2>2. QED
    BY <1>1, <1>2, <1>3, <2>1, MaxSendsAssumption DEF Send, BrokerInv
<1>4. CASE ~Send(r)
  <2>1. BrokerInv'
    BY <1>4, QuietType
    DEF Requesting, Arrive, SaveTask, SaveTaskFails, Confirm, PublishTimeout
  <2>2. ASSUME NEW i \in Instances, Arrive(r, i) PROVE TypeInv'
    BY <1>1, <1>2, <2>1, <2>2 DEF Arrive, BrokerInv
  <2>3. CASE SaveTask(r)
    BY <1>1, <1>2, <2>1, <2>3 DEF SaveTask, BrokerInv
  <2>4. CASE SaveTaskFails(r)
    <3>1. req' \in [Requests -> ReqStates] /\ tasks' \subseteq Requests
      BY <2>4 DEF SaveTaskFails
    <3>2. UNCHANGED <<at, pub, sends, dropped>>
      BY <2>4 DEF SaveTaskFails
    <3>3. QED
      BY <1>1, <1>2, <2>1, <3>1, <3>2 DEF BrokerInv
  <2>5. CASE Confirm(r)
    BY <1>1, <1>2, <2>1, <2>5 DEF Confirm, BrokerInv
  <2>6. CASE PublishTimeout(r)
    BY <1>1, <1>2, <2>1, <2>6 DEF PublishTimeout, BrokerInv
  <2>7. QED
    BY <1>4, <2>2, <2>3, <2>4, <2>5, <2>6 DEF Requesting
<1>5. QED
  BY <1>3, <1>4

LEMMA ConsumingType ==
  ASSUME TypeInv, NEW m \in Copies, Route(m) \/ Consuming(m)
  PROVE  TypeInv'
<1>1. BrokerInv'
  <2> USE DEF Q!Statuses, Q!Queued, webVars
  <2>1. CASE Route(m)
    <3>1. msg[m] = "wire" /\ UNCHANGED <<returns, bound, sends>>
      BY <2>1 DEF Route, Q!Accept
    <3>2. \E status \in {"ready", "unrouted"} : msg' = [msg EXCEPT ![m] = status]
      BY <2>1 DEF Route, Q!Accept
    <3>3. QED
      BY <3>1, <3>2, MoveType
  <2>2. ASSUME NEW i \in Instances, Deliver(m, i) PROVE BrokerInv'
    BY <2>2, MoveType DEF Deliver, Q!Deliver
  <2>3. CASE DeliverJunk(m)
    BY <2>3, MoveType DEF DeliverJunk, Q!Discard
  <2>4. QED
    BY <2>1, <2>2, <2>3 DEF Consuming
<1>2. CASE Route(m) \/ DeliverJunk(m)
  <2>1. UNCHANGED <<envVars, procVars, webVars, workVars>>
    BY <1>2 DEF Route, DeliverJunk
  <2>2. QED
    BY <1>1, <2>1 DEF TypeInv, TypeOK, BrokerInv, HandlerInv, envVars, procVars, webVars, workVars
<1>3. ASSUME NEW i \in Instances, Deliver(m, i) PROVE TypeInv'
  <2>1. /\ UNCHANGED <<envVars, procVars, webVars, processed, orphaned, work>>
        /\ handler' \in [Deliveries -> {"idle"} \cup Active]
        /\ host' \in [Deliveries -> Instances \cup {"nobody"}]
    BY <1>3 DEF Deliver, TypeInv, TypeOK
  <2>2. HandlerInv'
    <3>1. \A d \in Deliveries : d = <<m, returns[m]>> => d[1] = m
      OBVIOUS
    <3>2. QED
      BY <1>3, <3>1 DEF Deliver, TypeInv, TypeOK, HandlerInv
  <2>3. QED
    BY <1>1, <2>1, <2>2 DEF TypeInv, TypeOK, BrokerInv, HandlerInv, envVars, procVars, webVars
<1>4. QED
  BY <1>2, <1>3 DEF Consuming

LEMMA HandlingType ==
  ASSUME TypeInv, NEW d \in Deliveries, Handling(d)
  PROVE  TypeInv'
<1>1. CASE LookupFails(d)
  BY <1>1, DieType DEF LookupFails, TypeInv, TypeOK, envVars
<1>2. CASE Skip(d)
  BY <1>2, AckType DEF Skip
<1>3. CASE Process(d) \/ Record(d)
  <2>1. BrokerInv'
    BY <1>3, QuietType DEF Process, Record, brokerVars, webVars
  <2>2. CASE Process(d)
    BY <2>1, <2>2 DEF Process, TypeInv, TypeOK, BrokerInv, HandlerInv, envVars, procVars, webVars
  <2>3. CASE Record(d)
    BY <2>1, <2>3 DEF Record, TypeInv, TypeOK, BrokerInv, HandlerInv, envVars, procVars, webVars
  <2>4. QED
    BY <1>3, <2>2, <2>3
<1>4. CASE SaveFails(d)
  BY <1>4, RequeueType DEF SaveFails
<1>5. CASE Finish(d)
  BY <1>5, AckType DEF Finish
<1>6. QED
  BY <1>1, <1>2, <1>3, <1>4, <1>5 DEF Handling

\* A connection broken, or closed: messages return and publishes reject.
LEMMA RejectType ==
  ASSUME TypeInv, NEW R, NEW again, Reject(R, again)
  PROVE  /\ pub' \in [Requests -> {"none", "buffered", "sent", "confirmed", "rejected"}]
         /\ req' \in [Requests -> ReqStates]
         /\ R \subseteq Requests => dropped' \subseteq Requests
  BY DEF Reject, TypeInv, TypeOK

LEMMA LinkingType ==
  ASSUME TypeInv, NEW i \in Instances, Linking(i)
  PROVE  TypeInv'
<1> USE DEF TypeInv, TypeOK, BrokerInv, HandlerInv, Q!BrokerTypeOK,
      brokerVars, envVars, procVars, webVars, workVars
<1>1. CASE NoticeCon(i)
  BY <1>1 DEF NoticeCon, Orphan
<1>2. CASE ReconnectPub(i)
  BY <1>2 DEF ReconnectPub
<1>3. CASE ReconnectCon(i)
  BY <1>3 DEF ReconnectCon
<1>4. CASE Release(i)
  <2>1. /\ Q!Return(Forsaken(i), {}) /\ UNCHANGED sends
        /\ Forsaken(i) \in SUBSET Copies /\ \A m \in Forsaken(i) : InQueue(m)
    BY <1>4, HeldInQueue DEF Release
  <2>2. BrokerInv'
    <3> HIDE DEF TypeInv, TypeOK, BrokerInv, Q!BrokerTypeOK
    <3>1. QED
      BY <2>1, ReturnType
  <2>3. QED
    BY <1>4, <2>2 DEF Release
<1>5. CASE ClosePub(i)
  BY <1>5 DEF ClosePub
<1>6. CASE CloseCon(i)
  BY <1>6 DEF CloseCon
<1>7. CASE Drain(i)
  BY <1>7 DEF Drain
<1>8. QED
  BY <1>1, <1>2, <1>3, <1>4, <1>5, <1>6, <1>7 DEF Linking

LEMMA FaultType ==
  ASSUME TypeInv, NEW f \in Faults, Fault(f)
  PROVE  left' \in [Faults -> Nat]
  BY DEF Fault, TypeInv, TypeOK

LEMMA LosePubType ==
  ASSUME TypeInv, NEW I \in SUBSET Instances, NEW again, LosePub(I, again)
  PROVE  /\ pub' \in [Requests -> {"none", "buffered", "sent", "confirmed", "rejected"}]
         /\ req' \in [Requests -> ReqStates]
         /\ dropped' \subseteq Requests
         /\ pubLink' \in [Instances -> PubStates]
<1> DEFINE unconfirmed == {r \in Requests : at[r] \in I /\ pub[r] = "sent"}
<1>1. Reject(unconfirmed \ again, again) /\ unconfirmed \ again \subseteq Requests
  BY DEF LosePub
<1>2. QED
  BY <1>1, RejectType DEF LosePub, Broken, TypeInv, TypeOK

LEMMA FailingType ==
  ASSUME TypeInv, NEW i \in Instances, Failing(i)
  PROVE  TypeInv'
<1>1. ASSUME NEW again \in SUBSET Requests, DropPub(i, again) PROVE TypeInv'
  <2>1. BrokerInv'
    <3>1. Q!Return({}, InTransit(i)) /\ InTransit(i) \in SUBSET Copies
      BY <1>1 DEF DropPub, InTransit
    <3>2. QED
      BY <1>1, <3>1, ReturnType DEF DropPub, InTransit
  <2>2. LosePub({i}, again) /\ "drop" \in Faults /\ Fault("drop")
    BY <1>1 DEF DropPub, Faults
  <2>3. QED
    BY <1>1, <2>1, <2>2, LosePubType, FaultType DEF DropPub, TypeInv, TypeOK, BrokerInv, HandlerInv, workVars
<1>2. CASE DropCon(i)
  <2>1. BrokerInv'
    BY <1>2, HeldInQueue, ReturnType DEF DropCon, webVars
  <2>2. "drop" \in Faults /\ Fault("drop")
    BY <1>2 DEF DropCon, Faults
  <2>3. QED
    BY <1>2, <2>1, <2>2, FaultType DEF DropCon, TypeInv, TypeOK, BrokerInv, HandlerInv, webVars, workVars
<1>3. CASE Crash(i)
  <2>1. "crash" \in Faults /\ Fault("crash")
    BY <1>3 DEF Crash, Faults
  <2>2. QED
    BY <1>3, <2>1, FaultType, DieType DEF Crash, TypeInv, TypeOK
<1>4. CASE Sigterm(i)
  <2>1. BrokerInv'
    BY <1>4, QuietType DEF Sigterm, brokerVars
  <2>2. "sigterm" \in Faults /\ Fault("sigterm")
    BY <1>4 DEF Sigterm, Faults
  <2>3. Reject(Unsettled(i), {}) /\ Unsettled(i) \subseteq Requests
    BY <1>4 DEF Sigterm, Unsettled
  <2>4. QED
    BY <1>4, <2>1, <2>2, <2>3, FaultType, RejectType DEF Sigterm, Orphan, TypeInv, TypeOK, BrokerInv, HandlerInv
<1>5. CASE Restart(i)
  BY <1>5 DEF Restart, TypeInv, TypeOK, BrokerInv, HandlerInv, Q!BrokerTypeOK,
    brokerVars, envVars, webVars, workVars
<1>6. CASE AbandonCon(i) \/ HangCon(i) \/ Cancel(i)
  <2>1. left' \in [Faults -> Nat]
    BY <1>6, FaultType DEF AbandonCon, HangCon, Cancel, Faults
  <2>2. BrokerInv'
    BY <1>6, QuietType DEF AbandonCon, HangCon, Cancel, brokerVars, webVars
  <2> USE DEF TypeInv, TypeOK, BrokerInv, HandlerInv, webVars, workVars
  <2>3. CASE AbandonCon(i)
    BY <2>1, <2>2, <2>3 DEF AbandonCon, Orphan
  <2>4. CASE HangCon(i)
    BY <2>1, <2>2, <2>4 DEF HangCon
  <2>5. CASE Cancel(i)
    BY <2>1, <2>2, <2>5 DEF Cancel
  <2>6. QED
    BY <1>6, <2>3, <2>4, <2>5
<1>7. QED
  BY <1>1, <1>2, <1>3, <1>4, <1>5, <1>6 DEF Failing

LEMMA EnvironmentType ==
  ASSUME TypeInv,
         \/ \E again \in SUBSET Requests : BrokerDown(again)
         \/ BrokerUp \/ DbDown \/ DbUp
  PROVE  TypeInv'
<1>1. ASSUME NEW again \in SUBSET Requests, BrokerDown(again) PROVE TypeInv'
  <2>1. BrokerInv'
    BY <1>1, ReturnType DEF BrokerDown, InQueue
  <2>2. LosePub(Instances, again) /\ "broker" \in Faults /\ Fault("broker")
    BY <1>1 DEF BrokerDown, Faults
  <2>3. QED
    BY <1>1, <2>1, <2>2, LosePubType, FaultType DEF BrokerDown, Broken, TypeInv, TypeOK, BrokerInv, HandlerInv, workVars
<1>2. CASE BrokerUp
  BY <1>2 DEF BrokerUp, TypeInv, TypeOK, BrokerInv, HandlerInv, Q!BrokerTypeOK,
    brokerVars, procVars, webVars, workVars
<1>3. CASE DbDown
  <2>1. Fault("db") /\ "db" \in Faults
    BY <1>3 DEF DbDown, Faults
  <2>2. left' \in [Faults -> Nat]
    BY <2>1, FaultType
  <2>3. QED
    BY <1>3, <2>2 DEF DbDown, TypeInv, TypeOK, BrokerInv, HandlerInv, Q!BrokerTypeOK,
      brokerVars, procVars, webVars, workVars
<1>4. CASE DbUp
  BY <1>4 DEF DbUp, TypeInv, TypeOK, BrokerInv, HandlerInv, Q!BrokerTypeOK,
    brokerVars, procVars, webVars, workVars
<1>5. QED
  BY <1>1, <1>2, <1>3, <1>4

LEMMA StepType == TypeInv /\ [Next]_vars => TypeInv'
<1> SUFFICES ASSUME TypeInv, [Next]_vars PROVE TypeInv'
  OBVIOUS
<1>1. CASE \E r \in Requests : Requesting(r)
  BY <1>1, RequestingType
<1>2. CASE \E m \in Copies : Route(m) \/ Consuming(m)
  BY <1>2, ConsumingType
<1>3. CASE \E d \in Deliveries : Handling(d)
  BY <1>3, HandlingType
<1>4. ASSUME NEW i \in Instances, Exit(i) PROVE TypeInv'
  BY <1>4, DieType DEF Exit, TypeInv, TypeOK, envVars
<1>5. CASE \E i \in Instances : Linking(i) \/ Failing(i)
  BY <1>5, LinkingType, FailingType
<1>6. CASE (\E again \in SUBSET Requests : BrokerDown(again)) \/ BrokerUp \/ DbDown \/ DbUp
  BY <1>6, EnvironmentType
<1>7. CASE UNCHANGED vars
  BY <1>7 DEF vars, TypeInv, TypeOK, BrokerInv, HandlerInv, Q!BrokerTypeOK,
    brokerVars, envVars, procVars, webVars, workVars
<1>8. QED
  BY <1>1, <1>2, <1>3, <1>4, <1>5, <1>6, <1>7 DEF Next

LEMMA AlwaysTypeInv == Spec => []TypeInv
  BY InitType, StepType, PTL DEF Spec

\* Every variable keeps its type: in particular no message is returned more often
\* than its limit allows, and processed_events only names events of requests.
THEOREM TypeCorrect == Spec => []TypeOK
<1>1. TypeInv => TypeOK
  BY DEF TypeInv
<1>2. QED
  BY <1>1, AlwaysTypeInv, PTL

-----------------------------------------------------------------------------
(* An event is published after its row is committed.                       *)

LEMMA InitWeb == Init => WebInv
  BY DEF Init, WebInv

LEMMA RejectWeb ==
  ASSUME WebInv, NEW R, NEW again, Reject(R, again), UNCHANGED <<sends, tasks>>,
         \A r \in Requests : r \in R \cup again => pub[r] \in {"buffered", "sent"}
  PROVE  WebInv'
  BY DEF WebInv, Reject

LEMMA LosePubWeb ==
  ASSUME WebInv, NEW I, NEW again, LosePub(I, again), UNCHANGED <<sends, tasks>>
  PROVE  WebInv'
  BY RejectWeb DEF LosePub

LEMMA DieWeb ==
  ASSUME WebInv, NEW i, Die(i)
  PROVE  WebInv'
  BY DEF WebInv, Die, Unsettled, Serving

LEMMA RequestingWeb ==
  ASSUME TypeOK, WebInv, NEW r \in Requests, Requesting(r)
  PROVE  WebInv'
<1> USE DEF WebInv, TypeOK
<1>1. ASSUME NEW i \in Instances, Arrive(r, i) PROVE WebInv'
  BY <1>1 DEF Arrive
<1>2. CASE SaveTask(r)
  BY <1>2 DEF SaveTask
<1>3. CASE SaveTaskFails(r)
  BY <1>3 DEF SaveTaskFails
<1>4. CASE Send(r)
  BY <1>4 DEF Send
<1>5. CASE Confirm(r) \/ PublishTimeout(r)
  BY <1>5 DEF Confirm, PublishTimeout
<1>6. QED
  BY <1>1, <1>2, <1>3, <1>4, <1>5 DEF Requesting

LEMMA StepWeb == TypeInv /\ WebInv /\ [Next]_vars => WebInv'
<1> SUFFICES ASSUME TypeInv, WebInv, [Next]_vars PROVE WebInv'
  OBVIOUS
<1>1. CASE \E r \in Requests : Requesting(r)
  BY <1>1, RequestingWeb DEF TypeInv
<1>2. CASE UNCHANGED webVars
  BY <1>2 DEF WebInv, webVars
<1>3. CASE \E i \in Instances : Die(i)
  BY <1>3, DieWeb
<1>4. ASSUME NEW d \in Deliveries, Handling(d) PROVE WebInv'
  <2>1. UNCHANGED webVars \/ Die(host[d])
    BY <1>4 DEF Handling, LookupFails, Skip, Process, Record, SaveFails, Finish,
      Ack, Requeue, Throws
  <2>2. QED
    BY <1>2, <2>1, DieWeb
<1>5. ASSUME NEW i \in Instances, Failing(i) PROVE WebInv'
  <2>1. ASSUME NEW again \in SUBSET Requests, DropPub(i, again) PROVE WebInv'
    BY <2>1, LosePubWeb DEF DropPub
  <2>2. CASE Sigterm(i)
    BY <2>2, RejectWeb DEF Sigterm, Unsettled
  <2>3. CASE \/ DropCon(i) \/ AbandonCon(i) \/ HangCon(i) \/ Cancel(i)
             \/ Crash(i) \/ Restart(i)
    BY <1>2, <1>3, <2>3 DEF DropCon, AbandonCon, HangCon, Cancel, Crash, Restart
  <2>4. QED
    BY <1>5, <2>1, <2>2, <2>3 DEF Failing
<1>6. ASSUME NEW again \in SUBSET Requests, BrokerDown(again) PROVE WebInv'
  BY <1>6, LosePubWeb DEF BrokerDown
<1>7. CASE \/ \E m \in Copies : Route(m) \/ Consuming(m)
           \/ \E i \in Instances : Linking(i)
           \/ BrokerUp \/ DbDown \/ DbUp
  BY <1>2, <1>7 DEF Route, Consuming, Deliver, DeliverJunk, Linking, NoticeCon, Release,
    ReconnectPub, ReconnectCon, ClosePub, CloseCon, Drain, BrokerUp, DbDown, DbUp
<1>8. CASE \E i \in Instances : Exit(i)
  BY <1>3, <1>8 DEF Exit
<1>9. CASE UNCHANGED vars
  BY <1>2, <1>9 DEF vars
<1>10. QED
  BY <1>1, <1>4, <1>5, <1>6, <1>7, <1>8, <1>9 DEF Next

\* What the safety proofs assume of each state.
LEMMA AlwaysInv == Spec => [](TypeInv /\ WebInv)
  BY InitType, StepType, InitWeb, StepWeb, PTL DEF Spec

=============================================================================
