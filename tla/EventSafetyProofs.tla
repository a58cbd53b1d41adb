-------------------------- MODULE EventSafetyProofs --------------------------
(***************************************************************************)
(* The safety of the event pipeline.  Everything rests on StepMoves, which *)
(* says what one step may do to a message, a publish, a request and a      *)
(* handler, whatever the step.                                             *)
(***************************************************************************)
EXTENDS EventProofs

USE DEF Copies, Deliveries, Active

\* What a step may do to message m.
MessageMoves(m) ==
  \/ msg'[m] = msg[m]
  \/ msg[m] = "none" /\ msg'[m] = "wire" /\ m[1] \in Requests /\ pub[m[1]] = "buffered"
  \/ msg[m] = "wire" /\ msg'[m] \in (IF bound THEN {"ready", "gone"} ELSE {"unrouted", "gone"})
  \/ msg[m] = "ready" /\ msg'[m] = "unacked"
  \/ msg[m] = "ready" /\ msg'[m] = "dead" /\ m[1] \in Junk
  \/ msg[m] = "unacked" /\ msg'[m] = "ready" /\ returns'[m] > returns[m]
  \/ msg[m] = "unacked" /\ msg'[m] = "dead" /\ returns'[m] > DeliveryLimit
  \/ msg[m] = "unacked" /\ msg'[m] = "acked" /\ m[1] \in processed

\* To the messages, whose counters never decrease, and the binding, once made.
BrokerMoves ==
  /\ \A m \in Copies : MessageMoves(m) /\ returns'[m] >= returns[m]
  /\ bound => bound'

\* To the publish of request r.
PublishMoves(r) ==
  /\ sends'[r] >= sends[r]
  /\ \/ pub'[r] = pub[r]
     \/ pub[r] \in {"none", "sent"} /\ pub'[r] = "buffered"
     \/ pub[r] = "buffered" /\ pub'[r] = "sent" /\ sends'[r] > 0
     \/ /\ pub[r] = "sent" /\ pub'[r] = "confirmed" /\ sends'[r] = sends[r]
        /\ \E m \in CopiesOf(r) : msg[m] \in Q!Queued \cup {"unrouted"} /\ msg'[m] = msg[m]
     \/ pub[r] \in {"buffered", "sent"} /\ pub'[r] = "rejected"

\* To request r: it is answered 201 with its publish confirmed, or dropped.
RequestMoves(r) ==
  req'[r] = "done" => req[r] = "done" \/ r \in dropped' \/ pub'[r] = "confirmed"

WebMoves ==
  /\ \A r \in Requests : PublishMoves(r) /\ RequestMoves(r)
  /\ tasks \subseteq tasks' /\ dropped \subseteq dropped'

\* To the handlers, and to what they write.
HandlerMoves ==
  /\ \A d \in Deliveries :
       /\ handler'[d] \in Active => handler[d] \in Active \/ msg[d[1]] = "ready"
       /\ handler'[d] = "lookup" => handler[d] = "lookup" \/ msg[d[1]] = "ready"
  /\ \A r \in Requests : work'[r] # work[r] =>
       /\ work'[r] <= work[r] + 1
       /\ \E d \in Deliveries :
            /\ handler[d] = "lookup" /\ handler'[d] = "saving" /\ d[1][1] = r
            /\ UNCHANGED msg
  /\ processed \subseteq processed'
  /\ \A r \in processed' \ processed :
       \E d \in Deliveries : handler[d] \in Active /\ d[1][1] = r

LEMMA ReturnMoves ==
  ASSUME TypeInv, NEW back \in SUBSET Copies, NEW lost \in SUBSET Copies,
         \A m \in back : msg[m] = "unacked", \A m \in lost : msg[m] = "wire",
         Q!Return(back, lost)
  PROVE  BrokerMoves
<1> USE DEF BrokerMoves, MessageMoves, Q!Return
<1>1. ASSUME NEW m \in Copies PROVE returns[m] \in Nat /\ DeliveryLimit \in Nat
  BY LimitAssumption DEF TypeInv, TypeOK, Q!BrokerTypeOK
<1>2. ASSUME NEW m \in back PROVE MessageMoves(m) /\ returns'[m] >= returns[m]
  BY <1>1, <1>2
<1>3. ASSUME NEW m \in Copies \ back PROVE MessageMoves(m) /\ returns'[m] >= returns[m]
  BY <1>1, <1>3
<1>4. QED
  BY <1>2, <1>3

\* One message that moves on as MessageMoves allows; or none.
LEMMA MoveMoves ==
  ASSUME TypeInv, NEW m \in Copies, NEW status, msg' = [msg EXCEPT ![m] = status],
         MessageMoves(m), UNCHANGED returns, bound => bound'
  PROVE  BrokerMoves
  BY DEF BrokerMoves, MessageMoves, TypeInv, TypeOK, Q!BrokerTypeOK

LEMMA QuietMoves ==
  ASSUME TypeInv
  PROVE  /\ UNCHANGED <<msg, returns>> /\ (bound => bound') => BrokerMoves
         /\ UNCHANGED <<req, pub, sends, tasks, dropped>> => WebMoves
         /\ UNCHANGED <<processed, handler, work>> => HandlerMoves
<1>1. UNCHANGED <<msg, returns>> /\ (bound => bound') => BrokerMoves
  BY DEF BrokerMoves, MessageMoves, TypeInv, TypeOK, Q!BrokerTypeOK
<1>2. UNCHANGED <<req, pub, sends, tasks, dropped>> => WebMoves
  BY DEF WebMoves, PublishMoves, RequestMoves, TypeInv, TypeOK
<1>3. UNCHANGED <<processed, handler, work>> => HandlerMoves
  BY DEF HandlerMoves, TypeInv, TypeOK
<1>4. QED
  BY <1>1, <1>2, <1>3

LEMMA OverMoves ==
  ASSUME TypeInv, NEW D, Over(D), UNCHANGED <<processed, work>>
  PROVE  HandlerMoves
<1>1. \A r \in Requests : work'[r] = work[r]
  OBVIOUS
<1>2. \A d \in Deliveries : handler'[d] \in {handler[d], "idle"}
  BY DEF Over
<1>3. QED
  BY <1>1, <1>2 DEF HandlerMoves

LEMMA DieMoves ==
  ASSUME TypeInv, NEW i, Die(i), UNCHANGED <<processed, work>>
  PROVE  BrokerMoves /\ WebMoves /\ HandlerMoves
<1>1. BrokerMoves
  <2>1. /\ Held(i) \in SUBSET Copies /\ \A m \in Held(i) : msg[m] = "unacked"
        /\ InTransit(i) \in SUBSET Copies /\ \A m \in InTransit(i) : msg[m] = "wire"
    BY DEF Held, InTransit
  <2>2. QED
    BY <2>1, ReturnMoves DEF Die
<1>2. WebMoves
  <2>1. ASSUME NEW r \in Requests PROVE PublishMoves(r)
    <3>1. pub'[r] = pub[r] \/ (pub[r] \in {"buffered", "sent"} /\ pub'[r] = "rejected")
      BY DEF Die, Unsettled
    <3>2. sends'[r] >= sends[r]
      BY DEF Die, TypeInv, TypeOK
    <3>3. QED
      BY <3>1, <3>2 DEF PublishMoves
  <2>2. ASSUME NEW r \in Requests PROVE RequestMoves(r)
    BY DEF Die, RequestMoves
  <2>3. QED
    BY <2>1, <2>2 DEF WebMoves, Die
<1>3. HandlerMoves
  BY OverMoves DEF Die
<1>4. QED
  BY <1>1, <1>2, <1>3

LEMMA AckMoves ==
  ASSUME TypeInv, NEW d \in Deliveries, d[1][1] \in processed, Ack(d),
         UNCHANGED <<processed, work>>
  PROVE  BrokerMoves /\ WebMoves /\ HandlerMoves
<1>1. CASE Throws(d)
  BY <1>1, DieMoves DEF Throws
<1>2. CASE d \notin orphaned /\ ~Throws(d)
  <2>1. BrokerMoves
    <3>1. CASE Live(d)
      BY <1>2, <3>1, MoveMoves DEF Ack, Live, Q!Ack, MessageMoves, TypeInv, TypeOK, Q!BrokerTypeOK
    <3>2. CASE ~Live(d)
      BY <1>2, <3>2, QuietMoves DEF Ack, brokerVars
    <3>3. QED
      BY <3>1, <3>2
  <2>2. WebMoves
    BY <1>2, QuietMoves DEF Ack, webVars
  <2>3. HandlerMoves
    BY <1>2, OverMoves DEF Ack
  <2>4. QED
    BY <2>1, <2>2, <2>3
<1>3. QED
  BY <1>1, <1>2 DEF Ack

LEMMA RequeueMoves ==
  ASSUME TypeInv, NEW d \in Deliveries, Requeue(d), UNCHANGED <<processed, work>>
  PROVE  BrokerMoves /\ WebMoves /\ HandlerMoves
<1>1. CASE Throws(d)
  BY <1>1, DieMoves DEF Throws
<1>2. CASE d \notin orphaned /\ ~Throws(d)
  <2>1. BrokerMoves
    <3>1. CASE Live(d)
      <4>1. Q!Return({d[1]}, {}) /\ {d[1]} \in SUBSET Copies /\ msg[d[1]] = "unacked"
        BY <1>2, <3>1 DEF Requeue, Live
      <4>2. QED
        BY <4>1, ReturnMoves
    <3>2. CASE ~Live(d)
      BY <1>2, <3>2, QuietMoves DEF Requeue, brokerVars
    <3>3. QED
      BY <3>1, <3>2
  <2>2. WebMoves
    BY <1>2, QuietMoves DEF Requeue, webVars
  <2>3. HandlerMoves
    BY <1>2, OverMoves DEF Requeue
  <2>4. QED
    BY <2>1, <2>2, <2>3
<1>3. QED
  BY <1>1, <1>2 DEF Requeue

LEMMA RequestingMoves ==
  ASSUME TypeInv, WebInv, NEW r \in Requests, Requesting(r)
  PROVE  BrokerMoves /\ WebMoves /\ HandlerMoves
<1>1. HandlerMoves
  BY QuietMoves
  DEF Requesting, Arrive, SaveTask, SaveTaskFails, Send, Confirm, PublishTimeout, workVars
<1>2. BrokerMoves
  <2>1. CASE Send(r)
    <3>1. <<r, sends[r] + 1>> \in Copies /\ msg[<<r, sends[r] + 1>>] = "none"
      BY <2>1, MaxSendsAssumption DEF Send, TypeInv, TypeOK, BrokerInv
    <3>2. QED
      BY <2>1, <3>1, MoveMoves DEF Send, Q!Write, MessageMoves, TypeInv, TypeOK, Q!BrokerTypeOK
  <2>2. CASE ~Send(r)
    BY <2>2, QuietMoves
    DEF Requesting, Arrive, SaveTask, SaveTaskFails, Confirm, PublishTimeout, brokerVars
  <2>3. QED
    BY <2>1, <2>2
<1>3. WebMoves
  <2> USE DEF WebMoves, PublishMoves, RequestMoves, TypeInv, TypeOK
  <2>1. ASSUME NEW i \in Instances, Arrive(r, i) PROVE WebMoves
    BY <2>1 DEF Arrive
  <2>2. CASE SaveTask(r)
    BY <2>2 DEF SaveTask, WebInv
  <2>3. CASE SaveTaskFails(r)
    BY <2>3 DEF SaveTaskFails
  <2>4. CASE Send(r)
    BY <2>4 DEF Send
  <2>5. CASE Confirm(r)
    <3>1. <<r, sends[r]>> \in CopiesOf(r) /\ UNCHANGED msg
      BY <2>5 DEF Confirm, WebInv, CopiesOf, brokerVars
    <3>2. QED
      BY <2>5, <3>1 DEF Confirm
  <2>6. CASE PublishTimeout(r)
    BY <2>6 DEF PublishTimeout
  <2>7. QED
    BY <2>1, <2>2, <2>3, <2>4, <2>5, <2>6 DEF Requesting
<1>4. QED
  BY <1>1, <1>2, <1>3

LEMMA ConsumingMoves ==
  ASSUME TypeInv, NEW m \in Copies, Route(m) \/ Consuming(m)
  PROVE  BrokerMoves /\ WebMoves /\ HandlerMoves
<1>1. WebMoves
  BY QuietMoves DEF Route, Consuming, Deliver, DeliverJunk, webVars
<1>2. BrokerMoves
  <2> USE DEF MessageMoves, TypeInv, TypeOK, Q!BrokerTypeOK
  <2>1. CASE Route(m)
    BY <2>1, MoveMoves DEF Route, Q!Accept
  <2>2. ASSUME NEW i \in Instances, Deliver(m, i) PROVE BrokerMoves
    BY <2>2, MoveMoves DEF Deliver, Q!Deliver
  <2>3. CASE DeliverJunk(m)
    BY <2>3, MoveMoves DEF DeliverJunk, Q!Discard
  <2>4. QED
    BY <2>1, <2>2, <2>3 DEF Consuming
<1>3. HandlerMoves
  <2>1. ASSUME NEW i \in Instances, Deliver(m, i) PROVE HandlerMoves
    <3>1. \A d \in Deliveries : d = <<m, returns[m]>> => d[1] = m
      OBVIOUS
    <3>2. \A d \in Deliveries : handler'[d] = handler[d] \/ msg[d[1]] = "ready"
      BY <2>1, <3>1 DEF Deliver, Q!Deliver, TypeInv, TypeOK
    <3>3. UNCHANGED <<processed, work>>
      BY <2>1 DEF Deliver
    <3>4. QED
      BY <3>2, <3>3 DEF HandlerMoves
  <2>2. CASE Route(m) \/ DeliverJunk(m)
    BY <2>2, QuietMoves DEF Route, DeliverJunk, workVars
  <2>3. QED
    BY <2>1, <2>2 DEF Consuming
<1>4. QED
  BY <1>1, <1>2, <1>3

LEMMA HandlingMoves ==
  ASSUME TypeInv, NEW d \in Deliveries, Handling(d)
  PROVE  BrokerMoves /\ WebMoves /\ HandlerMoves
<1>1. CASE LookupFails(d)
  BY <1>1, DieMoves DEF LookupFails
<1>2. CASE Skip(d)
  BY <1>2, AckMoves DEF Skip
<1>3. CASE Process(d) \/ Record(d)
  <2>1. BrokerMoves /\ WebMoves
    BY <1>3, QuietMoves DEF Process, Record, brokerVars, webVars
  <2>2. CASE Process(d)
    <3>1. \A r \in Requests : work'[r] # work[r] => d[1][1] = r /\ work'[r] <= work[r] + 1
      BY <2>2 DEF Process, TypeInv, TypeOK
    <3>2. \A e \in Deliveries : handler'[e] = IF e = d THEN "saving" ELSE handler[e]
      BY <2>2 DEF Process, TypeInv, TypeOK
    <3>3. handler[d] = "lookup" /\ UNCHANGED <<processed, msg>>
      BY <2>2 DEF Process, brokerVars
    <3>4. HandlerMoves
      <4> HIDE DEF Copies, Deliveries
      <4>1. QED
        BY <3>1, <3>2, <3>3 DEF HandlerMoves
    <3>5. QED
      BY <2>1, <3>4
  <2>3. CASE Record(d)
    <3>1. /\ handler[d] = "saving" /\ UNCHANGED work
          /\ \A e \in Deliveries : handler'[e] = IF e = d THEN "recorded" ELSE handler[e]
          /\ processed' = processed \cup {d[1][1]}
      BY <2>3 DEF Record, TypeInv, TypeOK
    <3>2. HandlerMoves
      <4> HIDE DEF Copies, Deliveries
      <4>1. QED
        BY <3>1 DEF HandlerMoves
    <3>3. QED
      BY <2>1, <3>2
  <2>4. QED
    BY <1>3, <2>2, <2>3
<1>4. CASE SaveFails(d)
  BY <1>4, RequeueMoves DEF SaveFails
<1>5. CASE Finish(d)
  BY <1>5, AckMoves DEF Finish, TypeInv, HandlerInv
<1>6. QED
  BY <1>1, <1>2, <1>3, <1>4, <1>5 DEF Handling

LEMMA RejectMoves ==
  ASSUME TypeInv, NEW R \in SUBSET Requests, NEW again \in SUBSET Requests,
         \A r \in R : pub[r] \in {"buffered", "sent"},
         \A r \in again : pub[r] = "sent",
         Reject(R, again), UNCHANGED <<sends, tasks>>
  PROVE  WebMoves
<1>1. ASSUME NEW r \in Requests PROVE PublishMoves(r)
  BY DEF Reject, PublishMoves, TypeInv, TypeOK
<1>2. ASSUME NEW r \in Requests PROVE RequestMoves(r)
  BY DEF Reject, RequestMoves
<1>3. QED
  BY <1>1, <1>2 DEF WebMoves, Reject

LEMMA LosePubMoves ==
  ASSUME TypeInv, NEW I, NEW again, LosePub(I, again), UNCHANGED <<sends, tasks>>
  PROVE  WebMoves
<1> DEFINE unconfirmed == {r \in Requests : at[r] \in I /\ pub[r] = "sent"}
<1>1. again \in SUBSET unconfirmed /\ Reject(unconfirmed \ again, again)
  BY DEF LosePub
<1>2. QED
  BY <1>1, RejectMoves

LEMMA FailingMoves ==
  ASSUME TypeInv, NEW i \in Instances, Failing(i)
  PROVE  BrokerMoves /\ WebMoves /\ HandlerMoves
<1>1. /\ Held(i) \in SUBSET Copies /\ \A m \in Held(i) : msg[m] = "unacked"
      /\ InTransit(i) \in SUBSET Copies /\ \A m \in InTransit(i) : msg[m] = "wire"
  BY DEF Held, InTransit
<1>2. ASSUME NEW again \in SUBSET Requests, DropPub(i, again)
      PROVE  BrokerMoves /\ WebMoves /\ HandlerMoves
  <2>1. BrokerMoves
    BY <1>1, <1>2, ReturnMoves DEF DropPub
  <2>2. WebMoves
    BY <1>2, LosePubMoves DEF DropPub
  <2>3. QED
    BY <1>2, <2>1, <2>2, QuietMoves DEF DropPub, workVars
<1>3. CASE DropCon(i)
  <2>1. BrokerMoves
    BY <1>1, <1>3, ReturnMoves DEF DropCon
  <2>2. QED
    BY <1>3, <2>1, QuietMoves DEF DropCon, webVars, workVars
<1>4. CASE Crash(i)
  BY <1>4, DieMoves DEF Crash
<1>5. CASE Sigterm(i)
  <2>1. BrokerMoves
    BY <1>5, QuietMoves DEF Sigterm, brokerVars
  <2>2. WebMoves
    BY <1>5, RejectMoves DEF Sigterm, Unsettled
  <2>3. QED
    BY <1>5, <2>1, <2>2, QuietMoves DEF Sigterm
<1>6. CASE AbandonCon(i) \/ HangCon(i) \/ Cancel(i) \/ Restart(i)
  BY <1>6, QuietMoves DEF AbandonCon, HangCon, Cancel, Restart, brokerVars, webVars, workVars
<1>7. QED
  BY <1>2, <1>3, <1>4, <1>5, <1>6 DEF Failing

LEMMA LinkingMoves ==
  ASSUME TypeInv, NEW i \in Instances, Linking(i)
  PROVE  BrokerMoves /\ WebMoves /\ HandlerMoves
<1>1. CASE Release(i)
  <2>1. Forsaken(i) \in SUBSET Copies /\ \A m \in Forsaken(i) : msg[m] = "unacked"
    BY DEF Forsaken, Held
  <2>2. BrokerMoves
    BY <1>1, <2>1, ReturnMoves DEF Release
  <2>3. QED
    BY <1>1, <2>2, QuietMoves DEF Release, webVars, workVars
<1>2. CASE ~Release(i)
  BY <1>2, QuietMoves DEF Linking, NoticeCon, ReconnectPub, ReconnectCon,
    ClosePub, CloseCon, Drain, brokerVars, webVars, workVars
<1>3. QED
  BY <1>1, <1>2

LEMMA StepMoves ==
  ASSUME TypeInv, WebInv, [Next]_vars
  PROVE  BrokerMoves /\ WebMoves /\ HandlerMoves
<1>1. CASE \E r \in Requests : Requesting(r)
  BY <1>1, RequestingMoves
<1>2. CASE \E m \in Copies : Route(m) \/ Consuming(m)
  BY <1>2, ConsumingMoves
<1>3. CASE \E d \in Deliveries : Handling(d)
  BY <1>3, HandlingMoves
<1>4. CASE \E i \in Instances : Linking(i)
  BY <1>4, LinkingMoves
<1>5. CASE \E i \in Instances : Failing(i)
  BY <1>5, FailingMoves
<1>6. CASE \E i \in Instances : Exit(i)
  BY <1>6, DieMoves DEF Exit
<1>7. ASSUME NEW again \in SUBSET Requests, BrokerDown(again)
      PROVE  BrokerMoves /\ WebMoves /\ HandlerMoves
  <2>1. BrokerMoves
    BY <1>7, ReturnMoves DEF BrokerDown
  <2>2. WebMoves
    BY <1>7, LosePubMoves DEF BrokerDown
  <2>3. QED
    BY <1>7, <2>1, <2>2, QuietMoves DEF BrokerDown, workVars
<1>8. CASE BrokerUp \/ DbDown \/ DbUp \/ UNCHANGED vars
  BY <1>8, QuietMoves DEF BrokerUp, DbDown, DbUp, vars, brokerVars, webVars, workVars
<1>9. QED
  BY <1>1, <1>2, <1>3, <1>4, <1>5, <1>6, <1>7, <1>8 DEF Next

-----------------------------------------------------------------------------
(* The invariants.                                                         *)

LEMMA InitSafe == Init => FromTask /\ NoEarlyDeadLetter /\ (~FreshBroker => NeverLost)
<1> SUFFICES ASSUME Init PROVE FromTask /\ NoEarlyDeadLetter /\ (~FreshBroker => NeverLost)
  OBVIOUS
<1>1. \A m \in Copies :
        /\ msg[m] \in {"none", "ready"}
        /\ m[1] \in Requests => msg[m] = "none"
  BY JunkAssumption DEF Init
<1>2. FromTask
  <2>1. /\ \A d \in Deliveries : handler[d] = "idle"
        /\ \A r \in Requests : work[r] = 0
        /\ processed = {}
    BY DEF Init
  <2>2. QED
    BY <1>1, <2>1 DEF FromTask
<1>3. NoEarlyDeadLetter
  BY <1>1 DEF NoEarlyDeadLetter
<1>4. ~FreshBroker => NeverLost
  BY <1>1 DEF Init, NeverLost
<1>5. QED
  BY <1>2, <1>3, <1>4

LEMMA FromTaskStep ==
  ASSUME TypeInv, WebInv, FromTask, [Next]_vars
  PROVE  FromTask'
<1>1. BrokerMoves /\ WebMoves /\ HandlerMoves
  BY StepMoves
<1>2. tasks \subseteq tasks'
  BY <1>1 DEF WebMoves
<1>3. ASSUME NEW m \in Copies, m[1] \in Requests, msg'[m] # "none" PROVE m[1] \in tasks'
  BY <1>1, <1>2, <1>3 DEF BrokerMoves, MessageMoves, FromTask, WebInv
<1>4. ASSUME NEW d \in Deliveries, handler'[d] \in Active PROVE d[1][1] \in tasks'
  <2>1. d[1] \in Copies /\ d[1][1] \in Requests
    BY <1>4, StepType DEF TypeInv, HandlerInv
  <2>2. handler[d] \in Active \/ msg[d[1]] = "ready"
    BY <1>1, <1>4 DEF HandlerMoves
  <2>3. QED
    BY <1>2, <2>1, <2>2 DEF FromTask
<1>5. ASSUME NEW r \in Requests, work'[r] > 0 PROVE r \in tasks'
  BY <1>1, <1>2, <1>5 DEF HandlerMoves, FromTask, TypeInv, TypeOK
<1>6. processed' \subseteq tasks'
  BY <1>1, <1>2 DEF HandlerMoves, FromTask
<1>7. QED
  BY <1>3, <1>4, <1>5, <1>6 DEF FromTask

LEMMA DeadLetterStep ==
  ASSUME TypeInv, WebInv, NoEarlyDeadLetter, [Next]_vars
  PROVE  NoEarlyDeadLetter'
<1>1. BrokerMoves
  BY StepMoves
<1>2. ASSUME NEW m \in Copies, m[1] \in Requests, msg'[m] = "dead"
      PROVE  returns'[m] > DeliveryLimit
  <2>1. TypeOK /\ TypeOK' /\ m[1] \notin Junk
    BY <1>2, StepType, JunkAssumption DEF TypeInv
  <2>2. returns[m] \in Nat /\ returns'[m] \in Nat /\ DeliveryLimit \in Nat
    BY <2>1, LimitAssumption DEF TypeOK, Q!BrokerTypeOK
  <2>3. QED
    BY <1>1, <1>2, <2>1, <2>2 DEF BrokerMoves, MessageMoves, NoEarlyDeadLetter
<1>3. QED
  BY <1>2 DEF NoEarlyDeadLetter

LEMMA NeverLostStep ==
  ASSUME TypeInv, WebInv, NeverLost, [Next]_vars
  PROVE  NeverLost'
<1>1. BrokerMoves /\ WebMoves /\ HandlerMoves
  BY StepMoves
<1>2. processed \subseteq processed' /\ bound'
  BY <1>1 DEF HandlerMoves, BrokerMoves, NeverLost
<1>3. ASSUME NEW r \in Requests, req'[r] = "done", r \notin dropped'
      PROVE  pub'[r] = "confirmed"
  BY <1>1, <1>3 DEF WebMoves, PublishMoves, RequestMoves, NeverLost
<1>4. ASSUME NEW m \in Copies, m[1] \in Requests, msg'[m] = "acked"
      PROVE  m[1] \in processed'
  BY <1>1, <1>2, <1>4 DEF BrokerMoves, MessageMoves, NeverLost
<1>5. ASSUME NEW m \in Copies PROVE msg'[m] # "unrouted"
  BY <1>1 DEF BrokerMoves, MessageMoves, NeverLost
<1>6. ASSUME NEW r \in Requests, pub'[r] = "confirmed" PROVE Kept(r)'
  <2>1. ASSUME NEW m \in CopiesOf(r), InQueue(m) \/ msg[m] = "dead" PROVE Kept(r)'
    <3>1. m \in Copies /\ m[1] = r
      BY DEF CopiesOf
    <3>2. InQueue(m)' \/ msg'[m] = "dead" \/ r \in processed
      BY <1>1, <2>1, <3>1 DEF BrokerMoves, MessageMoves, InQueue
    <3>3. QED
      BY <1>2, <2>1, <3>2 DEF Kept, CopiesOf
  <2>2. CASE pub[r] = "confirmed"
    BY <1>2, <2>1, <2>2 DEF NeverLost, Kept
  <2>3. CASE pub[r] # "confirmed"
    <3>1. PICK m \in CopiesOf(r) : msg[m] \in Q!Queued \cup {"unrouted"}
      BY <1>1, <1>6, <2>3 DEF WebMoves, PublishMoves
    <3>2. m \in Copies /\ m[1] = r
      BY DEF CopiesOf
    <3>3. CASE msg[m] = "acked"
      BY <1>2, <3>2, <3>3 DEF NeverLost, Kept
    <3>4. CASE msg[m] # "acked"
      BY <2>1, <3>1, <3>2, <3>4 DEF NeverLost, Q!Queued, InQueue
    <3>5. QED
      BY <3>3, <3>4
  <2>4. QED
    BY <2>2, <2>3
<1>7. QED
  BY <1>2, <1>3, <1>4, <1>5, <1>6 DEF NeverLost

\* No event without its task: publishing follows the commit through every crash.
THEOREM NoPhantoms == Spec => []NoPhantomEvent
<1>1. FromTask => NoPhantomEvent
  BY DEF FromTask, NoPhantomEvent, CopiesOf
<1>2. TypeInv /\ WebInv /\ FromTask /\ [Next]_vars => FromTask'
  BY FromTaskStep
<1>3. QED
  BY <1>1, <1>2, InitSafe, AlwaysInv, PTL DEF Spec

\* The delivery limit is the only way of an event to the dead-letter queue.
THEOREM DeadLettersAreExhausted == Spec => []NoEarlyDeadLetter
<1>1. TypeInv /\ WebInv /\ NoEarlyDeadLetter /\ [Next]_vars => NoEarlyDeadLetter'
  BY DeadLetterStep
<1>2. QED
  BY <1>1, InitSafe, AlwaysInv, PTL DEF Spec

\* Once a consumer has declared the queue, a request that answers 201 without a
\* warning has its event in the queue, in the dead-letter queue or processed.
THEOREM NothingLost == ~FreshBroker => (Spec => []NoSilentLoss)
<1> SUFFICES ASSUME ~FreshBroker PROVE Spec => []NoSilentLoss
  OBVIOUS
<1>1. NeverLost => NoSilentLoss
  BY DEF NeverLost, NoSilentLoss
<1>2. TypeInv /\ WebInv /\ NeverLost /\ [Next]_vars => NeverLost'
  BY NeverLostStep
<1>3. Init => NeverLost
  BY InitSafe
<1>4. QED
  BY <1>1, <1>2, <1>3, AlwaysInv, PTL DEF Spec

=============================================================================
