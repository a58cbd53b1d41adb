-------------------------- MODULE EventHandlerProofs --------------------------
(***************************************************************************)
(* The handlers of the consumers: no message is left unacked without one   *)
(* that can still answer for it, and each delivery runs its side effect at *)
(* most once.                                                              *)
(***************************************************************************)
EXTENDS EventSafetyProofs

USE DEF Copies, Deliveries, Active, PubStates, ConStates, ReqStates, Open

-----------------------------------------------------------------------------
(* Connections and processes.                                              *)

LEMMA LinksStep ==
  ASSUME TypeInv, LinksInv, [Next]_vars
  PROVE  LinksInv'
<1> USE DEF LinksInv, TypeInv, TypeOK
<1>1. CASE UNCHANGED procVars
  BY <1>1 DEF procVars
<1>2. ASSUME NEW i, Die(i) PROVE LinksInv'
  BY <1>2 DEF Die
<1>3. ASSUME NEW d \in Deliveries, Handling(d) PROVE LinksInv'
  BY <1>1, <1>2, <1>3 DEF Handling, LookupFails, Skip, Process, Record, SaveFails, Finish,
    Ack, Requeue, Throws
<1>4. ASSUME NEW i \in Instances, Linking(i) \/ Failing(i) \/ Exit(i) PROVE LinksInv'
  <2>1. CASE NoticeCon(i) \/ AbandonCon(i)
    BY <2>1 DEF NoticeCon, AbandonCon
  <2>2. CASE Release(i)
    BY <1>1, <2>2 DEF Release
  <2>3. CASE ReconnectPub(i)
    BY <2>3 DEF ReconnectPub
  <2>4. CASE ReconnectCon(i)
    BY <2>4 DEF ReconnectCon
  <2>5. CASE ClosePub(i) \/ CloseCon(i) \/ Drain(i)
    BY <2>5 DEF ClosePub, CloseCon, Drain
  <2>6. CASE (\E again \in SUBSET Requests : DropPub(i, again)) \/ DropCon(i)
    BY <2>6 DEF DropPub, DropCon
  <2>7. CASE HangCon(i) \/ Cancel(i)
    BY <2>7 DEF HangCon, Cancel
  <2>8. CASE Sigterm(i)
    BY <2>8 DEF Sigterm
  <2>9. CASE Crash(i) \/ Exit(i)
    BY <1>2, <2>9 DEF Crash, Exit
  <2>10. CASE Restart(i)
    BY <2>10 DEF Restart
  <2>11. QED
    BY <1>4, <2>1, <2>2, <2>3, <2>4, <2>5, <2>6, <2>7, <2>8, <2>9, <2>10 DEF Linking, Failing
<1>5. CASE \E again \in SUBSET Requests : BrokerDown(again)
  BY <1>5 DEF BrokerDown, Broken
<1>6. CASE \/ \E r \in Requests : Requesting(r)
           \/ \E m \in Copies : Route(m) \/ Consuming(m)
           \/ BrokerUp \/ DbDown \/ DbUp \/ UNCHANGED vars
  BY <1>1, <1>6 DEF Requesting, Arrive, SaveTask, SaveTaskFails, Send, Confirm,
    PublishTimeout, Route, Consuming, Deliver, DeliverJunk, BrokerUp, DbDown, DbUp, vars
<1>7. QED
  BY <1>3, <1>4, <1>5, <1>6 DEF Next

-----------------------------------------------------------------------------
(* Messages and the handlers they are with.                                *)

HandsInv == DeliveryInv /\ NoStuckMessage

\* A message that can be delivered, or is, has a delivery.
LEMMA LiveDelivery ==
  ASSUME TypeInv, NEW m \in Copies, msg[m] \in {"ready", "unacked"}
  PROVE  <<m, returns[m]>> \in Deliveries
  BY LimitAssumption DEF TypeInv, TypeOK, BrokerInv, Q!BrokerTypeOK

\* Steps that touch no handler and no consumer's channel.
LEMMA CalmHands ==
  ASSUME HandsInv, UNCHANGED <<returns, proc, conLink, handler, host, orphaned>>,
         \A m \in Copies : msg'[m] = "unacked" <=> msg[m] = "unacked"
  PROVE  HandsInv'
  BY DEF HandsInv, DeliveryInv, NoStuckMessage, Live

\* A channel breaks or closes: the broker takes its messages back, and the handlers
\* that had them run on.
LEMMA BackHands ==
  ASSUME TypeInv, HandsInv, NEW back \in SUBSET Copies, NEW lost \in SUBSET Copies,
         \A m \in back : msg[m] = "unacked", \A m \in lost : msg[m] = "wire",
         Q!Return(back, lost), UNCHANGED <<handler, host>>,
         \A d \in orphaned' : d \in orphaned \/ host[d] \in Instances,
         \A m \in Copies : msg[m] = "unacked" /\ m \notin back =>
           LET d == <<m, returns[m]>>
           IN  proc'[host[d]] # "down" /\ (d \in orphaned' \/ conLink'[host[d]] \in Open)
  PROVE  HandsInv'
<1>1. ASSUME NEW m \in Copies
      PROVE  /\ returns[m] \in Nat
             /\ m \in back => msg'[m] # "unacked" /\ returns'[m] = returns[m] + 1
             /\ m \notin back => (msg'[m] = "unacked" <=> msg[m] = "unacked")
                               /\ returns'[m] = returns[m]
  BY DEF Q!Return, TypeInv, TypeOK, Q!BrokerTypeOK
<1>2. DeliveryInv'
  <2> SUFFICES ASSUME NEW d \in Deliveries
               PROVE  /\ handler'[d] = "idle" => host'[d] = "nobody" /\ d \notin orphaned'
                      /\ handler'[d] \in Active =>
                           host'[d] \in Instances /\ (Live(d)' \/ d[2] < returns'[d[1]])
    BY DEF DeliveryInv
  <2>1. handler'[d] = "idle" => host'[d] = "nobody" /\ d \notin orphaned'
    BY NobodyAssumption DEF HandsInv, DeliveryInv
  <2>2. ASSUME handler'[d] \in Active
        PROVE  host'[d] \in Instances /\ (Live(d)' \/ d[2] < returns'[d[1]])
    BY <1>1, <2>2 DEF HandsInv, DeliveryInv, Live
  <2>3. QED
    BY <2>1, <2>2
<1>3. NoStuckMessage'
  BY <1>1 DEF HandsInv, NoStuckMessage
<1>4. QED
  BY <1>2, <1>3 DEF HandsInv

\* A process ends: its messages return and its handlers are gone.
LEMMA DieHands ==
  ASSUME TypeInv, HandsInv, NEW i \in Instances, Die(i)
  PROVE  HandsInv'
<1>1. ASSUME NEW m \in Copies
      PROVE  /\ returns[m] \in Nat
             /\ m \in Held(i) => msg'[m] # "unacked" /\ returns'[m] = returns[m] + 1
             /\ m \notin Held(i) => (msg'[m] = "unacked" <=> msg[m] = "unacked")
                                  /\ returns'[m] = returns[m]
  BY DEF Die, InTransit, Q!Return, TypeInv, TypeOK, Q!BrokerTypeOK
<1>2. ASSUME NEW d \in Deliveries
      PROVE  /\ host[d] = i => handler'[d] = "idle" /\ host'[d] = "nobody" /\ d \notin orphaned'
             /\ host[d] # i => handler'[d] = handler[d] /\ host'[d] = host[d]
                             /\ (d \in orphaned' <=> d \in orphaned)
  BY DEF Die, Over
<1>3. DeliveryInv'
  <2> SUFFICES ASSUME NEW d \in Deliveries
               PROVE  /\ handler'[d] = "idle" => host'[d] = "nobody" /\ d \notin orphaned'
                      /\ handler'[d] \in Active =>
                           host'[d] \in Instances /\ (Live(d)' \/ d[2] < returns'[d[1]])
    BY DEF DeliveryInv
  <2>1. QED
    BY <1>1, <1>2 DEF HandsInv, DeliveryInv, Live
<1>4. NoStuckMessage'
  <2> SUFFICES ASSUME NEW m \in Copies, msg'[m] = "unacked"
               PROVE  LET d == <<m, returns'[m]>>
                      IN  /\ handler'[d] \in Active /\ host'[d] \in Instances
                          /\ proc'[host'[d]] # "down"
                          /\ d \in orphaned' \/ conLink'[host'[d]] \in Open
    BY DEF NoStuckMessage
  <2> DEFINE d == <<m, returns[m]>>
  <2>1. msg[m] = "unacked" /\ returns'[m] = returns[m] /\ host[d] # i
    BY <1>1 DEF Held
  <2>2. d \in Deliveries
    BY <2>1, LiveDelivery
  <2>3. host[d] \in Instances /\ conLink'[host[d]] = conLink[host[d]]
                              /\ proc'[host[d]] = proc[host[d]]
    BY <2>1 DEF HandsInv, NoStuckMessage, Die, TypeInv, TypeOK
  <2>4. QED
    BY <1>2, <2>1, <2>2, <2>3 DEF HandsInv, NoStuckMessage
<1>5. QED
  BY <1>3, <1>4 DEF HandsInv

\* handleMessage returns after it acked or nacked a message that was still its own.
LEMMA ReplyHands ==
  ASSUME TypeInv, TypeInv', HandsInv, NEW d \in Deliveries, Over({d}), UNCHANGED procVars,
         Live(d) => msg'[d[1]] # "unacked",
         ~Live(d) => msg'[d[1]] = msg[d[1]] /\ returns'[d[1]] = returns[d[1]],
         \A m \in Copies :
           /\ returns'[m] >= returns[m]
           /\ m # d[1] => msg'[m] = msg[m] /\ returns'[m] = returns[m]
  PROVE  HandsInv'
<1>1. ASSUME NEW e \in Deliveries
      PROVE  /\ e = d => handler'[e] = "idle" /\ host'[e] = "nobody" /\ e \notin orphaned'
             /\ e # d => handler'[e] = handler[e] /\ host'[e] = host[e]
                         /\ (e \in orphaned' <=> e \in orphaned)
  BY DEF Over
<1>2. DeliveryInv'
  <2> SUFFICES ASSUME NEW e \in Deliveries
               PROVE  /\ handler'[e] = "idle" => host'[e] = "nobody" /\ e \notin orphaned'
                      /\ handler'[e] \in Active =>
                           host'[e] \in Instances /\ (Live(e)' \/ e[2] < returns'[e[1]])
    BY DEF DeliveryInv
  <2>1. CASE e = d
    BY <1>1, <2>1
  <2>2. CASE e # d
    <3>1. returns[e[1]] \in Nat /\ returns'[e[1]] >= returns[e[1]]
      BY DEF TypeInv, TypeOK, Q!BrokerTypeOK
    <3>2. CASE Live(d) /\ e[1] = d[1]
      <4>1. e[2] # d[2]
        BY <2>2, <3>2
      <4>2. e[2] \in Nat /\ returns'[e[1]] \in Nat
        BY DEF TypeInv, TypeOK, Q!BrokerTypeOK
      <4>3. QED
        BY <1>1, <2>2, <3>1, <3>2, <4>1, <4>2 DEF HandsInv, DeliveryInv, Live
    <3>3. CASE ~(Live(d) /\ e[1] = d[1])
      BY <1>1, <2>2, <3>1, <3>3 DEF HandsInv, DeliveryInv, Live
    <3>4. QED
      BY <3>2, <3>3
  <2>3. QED
    BY <2>1, <2>2
<1>3. NoStuckMessage'
  <2> SUFFICES ASSUME NEW m \in Copies, msg'[m] = "unacked"
               PROVE  LET e == <<m, returns'[m]>>
                      IN  /\ handler'[e] \in Active /\ host'[e] \in Instances
                          /\ proc'[host'[e]] # "down"
                          /\ e \in orphaned' \/ conLink'[host'[e]] \in Open
    BY DEF NoStuckMessage
  <2> DEFINE e == <<m, returns[m]>>
  <2>1. msg[m] = "unacked" /\ returns'[m] = returns[m]
    OBVIOUS
  <2>2. e \in Deliveries
    BY <2>1, LiveDelivery
  <2>3. e # d
    BY <2>1 DEF Live
  <2>4. QED
    BY <1>1, <2>1, <2>2, <2>3 DEF HandsInv, NoStuckMessage, procVars
<1>4. QED
  BY <1>2, <1>3 DEF HandsInv

LEMMA AnswerHands ==
  ASSUME TypeInv, HandsInv, NEW d \in Deliveries, handler[d] \in Active,
         Ack(d) \/ Requeue(d), UNCHANGED <<envVars, processed, work>>
  PROVE  HandsInv'
<1>1. CASE Throws(d)
  BY <1>1, DieHands DEF Throws, HandsInv, DeliveryInv
<1>2. CASE d \notin orphaned /\ ~Throws(d)
  <2>1. TypeInv' /\ Over({d}) /\ UNCHANGED procVars
    BY <1>2, AckType, RequeueType DEF Ack, Requeue
  <2>2. CASE Live(d) /\ Q!Ack(d[1])
    <3>1. \A m \in Copies :
            returns'[m] = returns[m] /\ msg'[m] = IF m = d[1] THEN "acked" ELSE msg[m]
      BY <2>2 DEF Q!Ack, TypeInv, TypeOK, Q!BrokerTypeOK
    <3>2. \A m \in Copies : returns[m] \in Nat
      BY DEF TypeInv, TypeOK, Q!BrokerTypeOK
    <3>3. QED
      BY <2>1, <2>2, <3>1, <3>2, ReplyHands
  <2>3. CASE Live(d) /\ Q!Return({d[1]}, {})
    <3>1. \A m \in Copies :
            /\ returns'[m] = IF m = d[1] THEN returns[m] + 1 ELSE returns[m]
            /\ IF m = d[1] THEN msg'[m] \in {"ready", "dead"} ELSE msg'[m] = msg[m]
      BY <2>3 DEF Q!Return
    <3>2. \A m \in Copies : returns[m] \in Nat
      BY DEF TypeInv, TypeOK, Q!BrokerTypeOK
    <3>3. QED
      BY <2>1, <2>3, <3>1, <3>2, ReplyHands
  <2>4. CASE ~Live(d) /\ UNCHANGED brokerVars
    <3>1. \A m \in Copies : returns[m] \in Nat /\ returns'[m] = returns[m] /\ msg'[m] = msg[m]
      BY <2>4 DEF TypeInv, TypeOK, Q!BrokerTypeOK, brokerVars
    <3>2. QED
      BY <2>1, <2>4, <3>1, ReplyHands
  <2>5. QED
    BY <1>2, <2>2, <2>3, <2>4 DEF Ack, Requeue
<1>3. QED
  BY <1>1, <1>2 DEF Ack, Requeue

LEMMA HandlingHands ==
  ASSUME TypeInv, HandsInv, NEW d \in Deliveries, Handling(d)
  PROVE  HandsInv'
<1>1. CASE LookupFails(d)
  BY <1>1, DieHands DEF LookupFails, HandsInv, DeliveryInv
<1>2. CASE Skip(d) \/ SaveFails(d) \/ Finish(d)
  BY <1>2, AnswerHands DEF Skip, SaveFails, Finish
<1>3. CASE Process(d) \/ Record(d)
  <2>1. /\ UNCHANGED <<msg, returns, proc, conLink, host, orphaned>>
        /\ \A e \in Deliveries : handler'[e] = handler[e] \/ (e = d /\ handler'[e] \in Active)
        /\ handler[d] \in Active
    BY <1>3 DEF Process, Record, brokerVars, procVars, TypeInv, TypeOK
  <2>2. DeliveryInv'
    BY <2>1 DEF HandsInv, DeliveryInv, Live
  <2>3. NoStuckMessage'
    BY <2>1, LiveDelivery DEF HandsInv, NoStuckMessage
  <2>4. QED
    BY <2>2, <2>3 DEF HandsInv
<1>4. QED
  BY <1>1, <1>2, <1>3 DEF Handling

LEMMA ConsumingHands ==
  ASSUME TypeInv, LinksInv, HandsInv, NEW m \in Copies, Route(m) \/ Consuming(m)
  PROVE  HandsInv'
<1>1. CASE Route(m) \/ DeliverJunk(m)
  <2>1. UNCHANGED <<returns, proc, conLink, handler, host, orphaned>>
    BY <1>1 DEF Route, DeliverJunk, Q!Accept, Q!Discard, procVars, workVars
  <2>2. \A n \in Copies : msg'[n] = "unacked" <=> msg[n] = "unacked"
    BY <1>1 DEF Route, DeliverJunk, Q!Accept, Q!Discard, TypeInv, TypeOK, Q!BrokerTypeOK
  <2>3. QED
    BY <2>1, <2>2, CalmHands
<1>2. ASSUME NEW i \in Instances, Deliver(m, i) PROVE HandsInv'
  <2> DEFINE d == <<m, returns[m]>>
  <2>1. d \in Deliveries /\ msg[m] = "ready" /\ conLink[i] = "up" /\ proc[i] = "up"
    BY <1>2, LiveDelivery DEF Deliver, Q!Deliver, LinksInv
  <2>2. handler[d] = "idle" /\ d \notin orphaned
    <3>1. returns[m] \in Nat
      BY DEF TypeInv, TypeOK, Q!BrokerTypeOK
    <3>2. QED
      BY <2>1, <3>1 DEF HandsInv, DeliveryInv, Live, TypeInv, TypeOK
  <2>3. /\ UNCHANGED <<returns, orphaned, proc, conLink>>
        /\ \A n \in Copies : msg'[n] = IF n = m THEN "unacked" ELSE msg[n]
        /\ \A e \in Deliveries : /\ handler'[e] = IF e = d THEN "lookup" ELSE handler[e]
                                 /\ host'[e] = IF e = d THEN i ELSE host[e]
    BY <1>2 DEF Deliver, Q!Deliver, procVars, TypeInv, TypeOK, Q!BrokerTypeOK
  <2>4. DeliveryInv'
    <3> SUFFICES ASSUME NEW e \in Deliveries
                 PROVE  /\ handler'[e] = "idle" => host'[e] = "nobody" /\ e \notin orphaned'
                        /\ handler'[e] \in Active =>
                             host'[e] \in Instances /\ (Live(e)' \/ e[2] < returns'[e[1]])
      BY DEF DeliveryInv
    <3>1. CASE e = d
      BY <2>1, <2>3, <3>1 DEF Live
    <3>2. CASE e # d
      BY <2>1, <2>3, <3>2 DEF HandsInv, DeliveryInv, Live
    <3>3. QED
      BY <3>1, <3>2
  <2>5. NoStuckMessage'
    <3> SUFFICES ASSUME NEW n \in Copies, msg'[n] = "unacked"
                 PROVE  LET e == <<n, returns'[n]>>
                        IN  /\ handler'[e] \in Active /\ host'[e] \in Instances
                            /\ proc'[host'[e]] # "down"
                            /\ e \in orphaned' \/ conLink'[host'[e]] \in Open
      BY DEF NoStuckMessage
    <3>1. CASE n = m
      BY <2>1, <2>2, <2>3, <3>1
    <3>2. CASE n # m
      <4>1. msg[n] = "unacked" /\ <<n, returns[n]>> \in Deliveries /\ <<n, returns[n]>> # d
        BY <2>3, <3>2, LiveDelivery
      <4>2. QED
        BY <2>3, <4>1 DEF HandsInv, NoStuckMessage
    <3>3. QED
      BY <3>1, <3>2
  <2>6. QED
    BY <2>4, <2>5 DEF HandsInv
<1>3. QED
  BY <1>1, <1>2 DEF Consuming

\* Channels that open, and processes that go on.
LEMMA OpenHands ==
  ASSUME HandsInv, UNCHANGED <<msg, returns, handler, host, orphaned>>,
         \A j \in Instances : conLink[j] \in Open => conLink'[j] \in Open,
         \A j \in Instances : proc[j] # "down" => proc'[j] # "down"
  PROVE  HandsInv'
<1>1. DeliveryInv'
  BY DEF HandsInv, DeliveryInv, Live
<1>2. NoStuckMessage'
  BY DEF HandsInv, NoStuckMessage
<1>3. QED
  BY <1>1, <1>2 DEF HandsInv

\* The client closes the channel of i under its handlers; the broker knows nothing.
LEMMA LeaveHands ==
  ASSUME TypeInv, HandsInv, NEW i \in Instances, Orphan(i),
         UNCHANGED <<msg, returns, handler, host>>,
         \A j \in Instances \ {i} : conLink'[j] = conLink[j],
         \A j \in Instances : proc[j] # "down" => proc'[j] # "down"
  PROVE  HandsInv'
<1>1. orphaned' = orphaned \cup {d \in Deliveries : host[d] = i}
  BY DEF Orphan
<1>2. DeliveryInv'
  BY <1>1, NobodyAssumption DEF HandsInv, DeliveryInv, Live
<1>3. NoStuckMessage'
  <2> SUFFICES ASSUME NEW m \in Copies, msg[m] = "unacked"
               PROVE  LET d == <<m, returns[m]>>
                      IN  /\ handler[d] \in Active /\ host[d] \in Instances
                          /\ proc'[host[d]] # "down"
                          /\ d \in orphaned' \/ conLink'[host[d]] \in Open
    BY DEF NoStuckMessage
  <2>1. <<m, returns[m]>> \in Deliveries
    BY LiveDelivery
  <2>2. QED
    BY <1>1, <2>1 DEF HandsInv, NoStuckMessage
<1>4. QED
  BY <1>2, <1>3 DEF HandsInv

LEMMA LinkingHands ==
  ASSUME TypeInv, HandsInv, NEW i \in Instances, Linking(i)
  PROVE  HandsInv'
<1>1. CASE NoticeCon(i)
  BY <1>1, LeaveHands DEF NoticeCon, brokerVars
<1>2. CASE Release(i)
  <2>1. /\ Q!Return(Forsaken(i), {}) /\ UNCHANGED <<proc, conLink, handler, host, orphaned>>
        /\ Forsaken(i) \in SUBSET Copies /\ \A m \in Forsaken(i) : msg[m] = "unacked"
    BY <1>2 DEF Release, Forsaken, Held, procVars, workVars
  <2>2. ASSUME NEW m \in Copies, msg[m] = "unacked"
        PROVE  LET d == <<m, returns[m]>>
               IN  proc'[host[d]] # "down" /\ (d \in orphaned' \/ conLink'[host[d]] \in Open)
    BY <2>1, <2>2 DEF HandsInv, NoStuckMessage
  <2>3. QED
    BY <2>1, <2>2, BackHands
<1>3. CASE ReconnectPub(i) \/ ClosePub(i)
  BY <1>3, CalmHands DEF ReconnectPub, ClosePub, brokerVars, workVars
<1>4. CASE ReconnectCon(i) \/ CloseCon(i)
  <2>1. /\ UNCHANGED <<msg, returns, proc, handler, host, orphaned>>
        /\ \A j \in Instances : conLink[j] \in Open => conLink'[j] \in Open
    BY <1>4 DEF ReconnectCon, CloseCon, brokerVars, workVars, TypeInv, TypeOK
  <2>2. QED
    BY <2>1, OpenHands
<1>5. CASE Drain(i)
  <2>1. /\ UNCHANGED <<msg, returns, conLink, handler, host, orphaned>>
        /\ \A j \in Instances : proc[j] # "down" => proc'[j] # "down"
    BY <1>5 DEF Drain, brokerVars, workVars, TypeInv, TypeOK
  <2>2. QED
    BY <2>1, OpenHands
<1>6. QED
  BY <1>1, <1>2, <1>3, <1>4, <1>5 DEF Linking

LEMMA FailingHands ==
  ASSUME TypeInv, LinksInv, HandsInv, NEW i \in Instances, Failing(i)
  PROVE  HandsInv'
<1>1. ASSUME NEW again \in SUBSET Requests, DropPub(i, again) PROVE HandsInv'
  <2>1. UNCHANGED <<proc, conLink, handler, host, orphaned>>
    BY <1>1 DEF DropPub, workVars
  <2>2. /\ UNCHANGED returns
        /\ \A m \in Copies : msg'[m] = "unacked" <=> msg[m] = "unacked"
    BY <1>1 DEF DropPub, Q!Return, InTransit, TypeInv, TypeOK, Q!BrokerTypeOK
  <2>3. QED
    BY <2>1, <2>2, CalmHands
<1>2. CASE DropCon(i)
  <2> DEFINE back == Held(i) \ Forsaken(i)
  <2>1. /\ Q!Return(back, {}) /\ UNCHANGED <<proc, handler, host, orphaned>>
        /\ \A j \in Instances \ {i} : conLink'[j] = conLink[j]
    BY <1>2 DEF DropCon, workVars, TypeInv, TypeOK
  <2>2. back \in SUBSET Copies /\ \A m \in back : msg[m] = "unacked"
    BY DEF Held
  <2>3. ASSUME NEW m \in Copies, msg[m] = "unacked", m \notin back
        PROVE  LET d == <<m, returns[m]>>
               IN  proc'[host[d]] # "down" /\ (d \in orphaned' \/ conLink'[host[d]] \in Open)
    BY <2>1, <2>3 DEF HandsInv, NoStuckMessage, Held, Forsaken
  <2>4. QED
    BY <2>1, <2>2, <2>3, BackHands
<1>3. CASE AbandonCon(i)
  <2>1. Orphan(i) /\ \A j \in Instances \ {i} : conLink'[j] = conLink[j]
    BY <1>3 DEF AbandonCon, TypeInv, TypeOK
  <2>2. QED
    BY <1>3, <2>1, LeaveHands DEF AbandonCon, brokerVars
<1>4. CASE HangCon(i) \/ Cancel(i)
  <2>1. /\ UNCHANGED <<msg, returns, proc, handler, host, orphaned>>
        /\ \A j \in Instances : conLink[j] \in Open => conLink'[j] \in Open
    BY <1>4 DEF HangCon, Cancel, brokerVars, workVars, TypeInv, TypeOK
  <2>2. QED
    BY <2>1, OpenHands
<1>5. CASE Crash(i)
  BY <1>5, DieHands DEF Crash
<1>6. CASE Sigterm(i)
  <2>1. /\ Orphan(i)
        /\ \A j \in Instances \ {i} : conLink'[j] = conLink[j]
        /\ \A j \in Instances : proc[j] # "down" => proc'[j] # "down"
    BY <1>6 DEF Sigterm, TypeInv, TypeOK
  <2>2. QED
    BY <1>6, <2>1, LeaveHands DEF Sigterm, brokerVars
<1>7. CASE Restart(i)
  <2>1. /\ UNCHANGED <<msg, returns, handler, host, orphaned>>
        /\ conLink[i] \notin Open
        /\ \A j \in Instances \ {i} : conLink'[j] = conLink[j]
        /\ \A j \in Instances : proc[j] # "down" => proc'[j] # "down"
    BY <1>7 DEF Restart, LinksInv, brokerVars, workVars, TypeInv, TypeOK
  <2>2. \A j \in Instances : conLink[j] \in Open => conLink'[j] \in Open
    BY <2>1
  <2>3. QED
    BY <2>1, <2>2, OpenHands
<1>8. QED
  BY <1>1, <1>2, <1>3, <1>4, <1>5, <1>6, <1>7 DEF Failing

LEMMA HandsStep ==
  ASSUME TypeInv, LinksInv, HandsInv, [Next]_vars
  PROVE  HandsInv'
<1>1. ASSUME NEW r \in Requests, Requesting(r) PROVE HandsInv'
  <2>1. UNCHANGED <<returns, proc, conLink, handler, host, orphaned>>
    BY <1>1 DEF Requesting, Arrive, SaveTask, SaveTaskFails, Send, Confirm, PublishTimeout,
      Q!Write, brokerVars, procVars, workVars
  <2>2. \A m \in Copies : msg'[m] = "unacked" <=> msg[m] = "unacked"
    <3>1. CASE Send(r)
      <4>1. <<r, sends[r] + 1>> \in Copies /\ msg[<<r, sends[r] + 1>>] = "none"
        BY <3>1, MaxSendsAssumption DEF Send, TypeInv, TypeOK, BrokerInv
      <4>2. QED
        BY <3>1, <4>1 DEF Send, Q!Write, TypeInv, TypeOK, Q!BrokerTypeOK
    <3>2. CASE ~Send(r)
      BY <1>1, <3>2 DEF Requesting, Arrive, SaveTask, SaveTaskFails, Confirm,
        PublishTimeout, brokerVars
    <3>3. QED
      BY <3>1, <3>2
  <2>3. QED
    BY <2>1, <2>2, CalmHands
<1>2. CASE \E m \in Copies : Route(m) \/ Consuming(m)
  BY <1>2, ConsumingHands
<1>3. CASE \E d \in Deliveries : Handling(d)
  BY <1>3, HandlingHands
<1>4. CASE \E i \in Instances : Linking(i) \/ Failing(i)
  BY <1>4, LinkingHands, FailingHands
<1>5. CASE \E i \in Instances : Exit(i)
  BY <1>5, DieHands DEF Exit
<1>6. ASSUME NEW again \in SUBSET Requests, BrokerDown(again) PROVE HandsInv'
  <2>1. /\ Q!Return({m \in Copies : msg[m] = "unacked"}, {m \in Copies : msg[m] = "wire"})
        /\ UNCHANGED <<handler, host, orphaned>>
    BY <1>6 DEF BrokerDown, workVars
  <2>2. QED
    BY <2>1, BackHands
<1>7. CASE BrokerUp \/ DbDown \/ DbUp \/ UNCHANGED vars
  BY <1>7, CalmHands DEF BrokerUp, DbDown, DbUp, vars, brokerVars, procVars, workVars
<1>8. QED
  BY <1>1, <1>2, <1>3, <1>4, <1>5, <1>6, <1>7 DEF Next

LEMMA AlwaysHands == Spec => [](LinksInv /\ HandsInv)
<1>1. Init => LinksInv /\ HandsInv
  <2> SUFFICES ASSUME Init PROVE LinksInv /\ HandsInv
    OBVIOUS
  <2>1. LinksInv
    BY DEF Init, LinksInv
  <2>2. DeliveryInv
    BY DEF Init, DeliveryInv
  <2>3. NoStuckMessage
    BY DEF Init, NoStuckMessage
  <2>4. QED
    BY <2>1, <2>2, <2>3 DEF HandsInv
<1>2. TypeInv /\ LinksInv /\ [Next]_vars => LinksInv'
  BY LinksStep
<1>3. TypeInv /\ LinksInv /\ HandsInv /\ [Next]_vars => HandsInv'
  BY HandsStep
<1>4. QED
  BY <1>1, <1>2, <1>3, AlwaysTypeInv, PTL DEF Spec

\* No path through handleMessage, and no connection that breaks or process that ends
\* at any point of it, leaves a message unacked without a handler that can answer.
THEOREM NothingStuck == Spec => []NoStuckMessage
<1>1. HandsInv => NoStuckMessage
  BY DEF HandsInv
<1>2. QED
  BY <1>1, AlwaysHands, PTL

-----------------------------------------------------------------------------
(* The side effect.                                                        *)

LEMMA OnceStep ==
  ASSUME TypeInv, WebInv, HandsInv, OncePerDelivery, [Next]_vars
  PROVE  OncePerDelivery'
<1> SUFFICES ASSUME NEW r \in Requests, sends'[r] <= 1,
                    \A m \in CopiesOf(r) : returns'[m] = 0
             PROVE  /\ work'[r] <= 1
                    /\ work'[r] = 1 =>
                         /\ handler'[<<<<r, 1>>, 0>>] # "lookup"
                         /\ msg'[<<r, 1>>] \in {"unacked", "acked"}
  BY DEF OncePerDelivery, CopiesOf
<1> DEFINE copy == <<r, 1>>
           first == <<copy, 0>>
<1>1. BrokerMoves /\ WebMoves /\ HandlerMoves
  BY StepMoves
<1>2. /\ sends[r] \in Nat /\ work[r] \in 0..2
      /\ \A m \in Copies : returns[m] \in Nat
      /\ copy \in CopiesOf(r) /\ first \in Deliveries
  BY MaxSendsAssumption, LimitAssumption DEF CopiesOf, TypeInv, TypeOK, Q!BrokerTypeOK
<1>3. sends[r] <= 1
  <2>1. sends'[r] >= sends[r] /\ sends'[r] \in Nat
    BY <1>1, StepType DEF WebMoves, PublishMoves, TypeInv, TypeOK
  <2>2. QED
    BY <1>2, <2>1
<1>4. \A m \in CopiesOf(r) : m \in Copies /\ returns[m] = 0
  BY <1>1, <1>2 DEF BrokerMoves, CopiesOf
<1>5. /\ work[r] <= 1
      /\ work[r] = 1 => handler[first] # "lookup" /\ msg[copy] \in {"unacked", "acked"}
  BY <1>3, <1>4 DEF OncePerDelivery
<1>6. CASE work'[r] = work[r]
  <2>1. ASSUME work[r] = 1 PROVE handler'[first] # "lookup"
    BY <1>1, <1>2, <1>5, <2>1 DEF HandlerMoves, CopiesOf
  <2>2. ASSUME work[r] = 1 PROVE msg'[copy] \in {"unacked", "acked"}
    <3>1. MessageMoves(copy) /\ returns'[copy] = 0 /\ returns[copy] = 0
      BY <1>1, <1>2, <1>4 DEF BrokerMoves, CopiesOf
    <3>2. QED
      BY <1>5, <2>2, <3>1, LimitAssumption DEF MessageMoves
  <2>3. QED
    BY <1>5, <1>6, <2>1, <2>2
<1>7. CASE work'[r] # work[r]
  <2>1. PICK d \in Deliveries :
          handler[d] = "lookup" /\ handler'[d] = "saving" /\ d[1][1] = r /\ UNCHANGED msg
    BY <1>1, <1>7 DEF HandlerMoves
  <2>2. d[1] \in CopiesOf(r) /\ d[2] \in Nat
    BY <2>1 DEF CopiesOf
  <2>3. msg[d[1]] = "unacked" /\ d[2] = 0
    BY <1>4, <2>1, <2>2 DEF HandsInv, DeliveryInv, Live
  <2>4. d[1][2] = 1
    BY <1>2, <1>3, <2>1, <2>3 DEF TypeInv, BrokerInv
  <2>5. d = first
    BY <2>1, <2>3, <2>4
  <2>6. work[r] = 0 /\ work'[r] <= 1
    BY <1>1, <1>2, <1>5, <1>7, <2>1, <2>5 DEF HandlerMoves
  <2>7. QED
    BY <2>1, <2>3, <2>5, <2>6
<1>8. QED
  BY <1>6, <1>7

\* Within one delivery the side effect runs once, whichever of its queries fails: it
\* repeats only by a copy written again or a message given back.
THEOREM RepeatsAreRedeliveries == Spec => []RepeatNeedsRedelivery
<1>1. Init => OncePerDelivery
  BY DEF Init, OncePerDelivery
<1>2. TypeInv /\ WebInv /\ HandsInv /\ OncePerDelivery /\ [Next]_vars => OncePerDelivery'
  BY OnceStep
<1>3. TypeInv /\ OncePerDelivery => RepeatNeedsRedelivery
  <2> SUFFICES ASSUME TypeInv, OncePerDelivery, NEW r \in Requests, work[r] > 1,
                      ~(sends[r] > 1), ~\E m \in CopiesOf(r) : returns[m] > 0
               PROVE  FALSE
    BY DEF RepeatNeedsRedelivery
  <2>1. sends[r] <= 1 /\ work[r] \in Nat
    BY DEF TypeInv, TypeOK
  <2>2. \A m \in CopiesOf(r) : returns[m] = 0
    BY DEF CopiesOf, TypeInv, TypeOK, Q!BrokerTypeOK
  <2>3. work[r] <= 1
    <3> HIDE DEF CopiesOf
    <3>1. QED
      BY <2>1, <2>2 DEF OncePerDelivery
  <2>4. QED
    BY <2>1, <2>3
<1>4. QED
  BY <1>1, <1>2, <1>3, AlwaysHands, AlwaysInv, PTL DEF Spec

=============================================================================
