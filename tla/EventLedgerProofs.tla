--------------------------- MODULE EventLedgerProofs ---------------------------
(***************************************************************************)
(* TaskEvents implements EventLedger: every step of the pipeline enqueues, *)
(* confirms or records one event, or lets copies leave the queue, or       *)
(* leaves the ledger as it is.                                             *)
(***************************************************************************)
EXTENDS EventSafetyProofs

USE DEF Copies, Deliveries, Active

\* What the map to the ledger rests on, beside the types.
LedgerInv == NeverLost /\ HandledCame

LEMMA HandledCameStep ==
  ASSUME TypeInv, WebInv, HandledCame, [Next]_vars
  PROVE  HandledCame'
<1> SUFFICES ASSUME NEW d \in Deliveries, handler'[d] \in Active
             PROVE  msg'[d[1]] \in Q!Queued
  BY DEF HandledCame, Q!Queued
<1>1. BrokerMoves /\ HandlerMoves /\ d[1] \in Copies
  BY StepMoves
<1>2. msg[d[1]] \in Q!Queued
  BY <1>1 DEF HandlerMoves, HandledCame, Q!Queued
<1>3. QED
  BY <1>1, <1>2 DEF BrokerMoves, MessageMoves, Q!Queued

LEMMA AlwaysLedgerInv == ~FreshBroker => (Spec => []LedgerInv)
<1> SUFFICES ASSUME ~FreshBroker PROVE Spec => []LedgerInv
  OBVIOUS
<1>1. Init => LedgerInv
  BY InitSafe DEF LedgerInv, HandledCame, Init
<1>2. TypeInv /\ WebInv /\ LedgerInv /\ [Next]_vars => LedgerInv'
  BY NeverLostStep, HandledCameStep DEF LedgerInv
<1>3. QED
  BY <1>1, <1>2, AlwaysInv, PTL DEF Spec

-----------------------------------------------------------------------------
(* Copies leave the queue.                                                 *)

\* No publish is confirmed, no row is inserted and no copy reaches the queue.
OnlyLeaves ==
  /\ \A r \in Requests : pub'[r] = "confirmed" => pub[r] = "confirmed"
  /\ processed' = processed
  /\ \A m \in Copies : msg[m] = "wire" => msg'[m] # "ready"

LEMMA LeaveStep ==
  ASSUME TypeInv, WebInv, [Next]_vars, OnlyLeaves
  PROVE  Ledger!Next
<1>1. BrokerMoves /\ WebMoves
  BY StepMoves
<1>2. Confirmed' = Confirmed
  BY <1>1 DEF Confirmed, OnlyLeaves, WebMoves, PublishMoves
<1>3. ASSUME NEW r \in Requests, NEW m \in CopiesOf(r)
      PROVE  /\ m \in Copies
             /\ InQueue(m)' => InQueue(m)
             /\ msg[m] = "dead" => msg'[m] = "dead"
             /\ msg'[m] = "dead" => msg[m] = "dead" \/ InQueue(m)
             /\ InQueue(m) => InQueue(m)' \/ msg'[m] = "dead" \/ r \in processed
  <2>1. MessageMoves(m) /\ m \in Copies /\ m[1] = r /\ r \notin Junk
    BY <1>1, JunkAssumption DEF BrokerMoves, CopiesOf
  <2>2. QED
    BY <2>1 DEF MessageMoves, OnlyLeaves, InQueue
<1>4. Pending' \subseteq Pending
  BY <1>3 DEF Pending, CopiesOf
<1>5. Dead \subseteq Dead' /\ Dead' \ Dead \subseteq Pending
  BY <1>3 DEF Pending, Dead, CopiesOf
<1>6. Pending \ Pending' \subseteq processed \cup Dead'
  BY <1>3 DEF Pending, Dead, CopiesOf
<1>7. Ledger!Leave(Dead' \ Dead, Pending')
  BY <1>2, <1>4, <1>5, <1>6 DEF Ledger!Leave, OnlyLeaves
<1>8. QED
  BY <1>4, <1>5, <1>7 DEF Ledger!Next

LEMMA ReturnLeaves ==
  ASSUME TypeInv, NEW back, NEW lost, \A m \in back : msg[m] = "unacked",
         Q!Return(back, lost), UNCHANGED processed,
         \A r \in Requests : pub'[r] = "confirmed" => pub[r] = "confirmed"
  PROVE  OnlyLeaves
  BY DEF OnlyLeaves, Q!Return

LEMMA DieLeaves ==
  ASSUME TypeInv, NEW i, Die(i), UNCHANGED processed
  PROVE  OnlyLeaves
<1>1. \A m \in Held(i) : msg[m] = "unacked"
  BY DEF Held
<1>2. \A r \in Requests : pub'[r] = "confirmed" => pub[r] = "confirmed"
  BY DEF Die
<1>3. QED
  BY <1>1, <1>2, ReturnLeaves DEF Die

LEMMA AnswerLeaves ==
  ASSUME TypeInv, NEW d \in Deliveries, Ack(d) \/ Requeue(d), UNCHANGED processed
  PROVE  OnlyLeaves
<1>1. CASE Throws(d)
  BY <1>1, DieLeaves DEF Throws
<1>2. CASE ~Throws(d)
  <2>1. UNCHANGED <<pub, processed>>
    BY <1>2 DEF Ack, Requeue, webVars
  <2>2. CASE Live(d) /\ Q!Return({d[1]}, {})
    BY <2>1, <2>2, ReturnLeaves DEF Live
  <2>3. CASE (Live(d) /\ Q!Ack(d[1])) \/ UNCHANGED brokerVars
    BY <2>1, <2>3 DEF OnlyLeaves, Q!Ack, brokerVars, TypeInv, TypeOK, Q!BrokerTypeOK
  <2>4. QED
    BY <1>2, <2>2, <2>3 DEF Ack, Requeue
<1>3. QED
  BY <1>1, <1>2

LEMMA HandlingLeaves ==
  ASSUME TypeInv, NEW d \in Deliveries, Handling(d), ~Record(d)
  PROVE  OnlyLeaves
<1>1. CASE LookupFails(d)
  BY <1>1, DieLeaves DEF LookupFails
<1>2. CASE Skip(d) \/ SaveFails(d) \/ Finish(d)
  BY <1>2, AnswerLeaves DEF Skip, SaveFails, Finish
<1>3. CASE Process(d)
  BY <1>3 DEF Process, OnlyLeaves, webVars, brokerVars
<1>4. QED
  BY <1>1, <1>2, <1>3 DEF Handling

LEMMA RequestingLeaves ==
  ASSUME TypeInv, NEW r \in Requests, Requesting(r), ~Confirm(r)
  PROVE  OnlyLeaves
<1>1. UNCHANGED processed
  BY DEF Requesting, Arrive, SaveTask, SaveTaskFails, Send, Confirm, PublishTimeout, workVars
<1>2. \A q \in Requests : pub'[q] = "confirmed" => pub[q] = "confirmed"
  BY DEF Requesting, Arrive, SaveTask, SaveTaskFails, Send, PublishTimeout, TypeInv, TypeOK
<1>3. \A m \in Copies : msg'[m] = msg[m] \/ msg'[m] = "wire"
  BY DEF Requesting, Arrive, SaveTask, SaveTaskFails, Send, PublishTimeout, Q!Write,
    brokerVars, TypeInv, TypeOK, Q!BrokerTypeOK
<1>4. QED
  BY <1>1, <1>2, <1>3 DEF OnlyLeaves

LEMMA FailingLeaves ==
  ASSUME TypeInv,
         \/ \E i \in Instances : Failing(i)
         \/ \E again \in SUBSET Requests : BrokerDown(again)
  PROVE  OnlyLeaves
<1>1. ASSUME NEW R, NEW again, Reject(R, again)
      PROVE  \A r \in Requests : pub'[r] = "confirmed" => pub[r] = "confirmed"
  BY <1>1 DEF Reject
<1>2. ASSUME NEW i \in Instances, NEW again \in SUBSET Requests, DropPub(i, again)
      PROVE  OnlyLeaves
  BY <1>1, <1>2, ReturnLeaves DEF DropPub, LosePub, workVars
<1>3. ASSUME NEW i \in Instances, DropCon(i) PROVE OnlyLeaves
  BY <1>3, ReturnLeaves DEF DropCon, Held, webVars, workVars
<1>4. ASSUME NEW i \in Instances, Crash(i) PROVE OnlyLeaves
  BY <1>4, DieLeaves DEF Crash
<1>5. ASSUME NEW i \in Instances, Sigterm(i) PROVE OnlyLeaves
  BY <1>1, <1>5 DEF Sigterm, OnlyLeaves, brokerVars
<1>6. ASSUME NEW i \in Instances, AbandonCon(i) \/ HangCon(i) \/ Cancel(i) \/ Restart(i)
      PROVE  OnlyLeaves
  BY <1>6 DEF AbandonCon, HangCon, Cancel, Restart, OnlyLeaves, brokerVars, webVars, workVars
<1>7. ASSUME NEW again \in SUBSET Requests, BrokerDown(again) PROVE OnlyLeaves
  BY <1>1, <1>7, ReturnLeaves DEF BrokerDown, LosePub, workVars
<1>8. QED
  BY <1>2, <1>3, <1>4, <1>5, <1>6, <1>7 DEF Failing

\* Every step but three kinds is a Leave, most of them with nothing leaving.
LEMMA OthersLeave ==
  ASSUME TypeInv, [Next]_vars,
         ~\E r \in Requests : Confirm(r),
         ~\E m \in Copies : Route(m),
         ~\E d \in Deliveries : Record(d)
  PROVE  OnlyLeaves
<1>1. CASE \E r \in Requests : Requesting(r)
  BY <1>1, RequestingLeaves
<1>2. CASE \E d \in Deliveries : Handling(d)
  BY <1>2, HandlingLeaves
<1>3. ASSUME NEW m \in Copies, Consuming(m) PROVE OnlyLeaves
  BY <1>3 DEF Consuming, Deliver, DeliverJunk, Q!Deliver, Q!Discard, OnlyLeaves,
    webVars, workVars, TypeInv, TypeOK, Q!BrokerTypeOK
<1>4. ASSUME NEW i \in Instances, Linking(i) PROVE OnlyLeaves
  <2>1. CASE Release(i)
    BY <2>1, ReturnLeaves DEF Release, Forsaken, Held, webVars, workVars
  <2>2. CASE ~Release(i)
    BY <1>4, <2>2 DEF Linking, NoticeCon, ReconnectPub, ReconnectCon, ClosePub, CloseCon,
      Drain, OnlyLeaves, brokerVars, webVars, workVars
  <2>3. QED
    BY <2>1, <2>2
<1>5. CASE (\E i \in Instances : Failing(i)) \/ \E again \in SUBSET Requests : BrokerDown(again)
  BY <1>5, FailingLeaves
<1>6. CASE \E i \in Instances : Exit(i)
  BY <1>6, DieLeaves DEF Exit
<1>7. CASE BrokerUp \/ DbDown \/ DbUp \/ UNCHANGED vars
  BY <1>7 DEF BrokerUp, DbDown, DbUp, OnlyLeaves, vars, brokerVars, webVars, workVars
<1>8. QED
  BY <1>1, <1>2, <1>3, <1>4, <1>5, <1>6, <1>7 DEF Next

-----------------------------------------------------------------------------
(* The other steps.                                                        *)

LEMMA ConfirmStep ==
  ASSUME TypeInv, WebInv, NeverLost, NEW r \in Requests, Confirm(r)
  PROVE  Ledger!Next
<1>1. /\ UNCHANGED <<msg, processed>>
      /\ \A q \in Requests : pub'[q] = IF q = r THEN "confirmed" ELSE pub[q]
  BY DEF Confirm, brokerVars, workVars, TypeInv, TypeOK
<1>2. Confirmed' = Confirmed \cup {r} /\ UNCHANGED <<Pending, Dead>>
  BY <1>1 DEF Confirmed, Pending, Dead, CopiesOf, InQueue
<1>3. r \in Ledger!Known
  <2>1. <<r, sends[r]>> \in CopiesOf(r) /\ msg[<<r, sends[r]>>] \in Q!Queued \cup {"unrouted"}
    BY DEF Confirm, WebInv, CopiesOf, TypeInv, TypeOK
  <2>2. QED
    BY <2>1 DEF NeverLost, Q!Queued, Ledger!Known, Pending, Dead, CopiesOf, InQueue
<1>4. Ledger!Confirm(r)
  BY <1>1, <1>2, <1>3 DEF Ledger!Confirm
<1>5. QED
  BY <1>4 DEF Ledger!Next

LEMMA RouteStep ==
  ASSUME TypeInv, NeverLost, NEW m \in Copies, Route(m)
  PROVE  Ledger!Next \/ UNCHANGED Ledger!ledger
<1>1. /\ UNCHANGED <<pub, processed>> /\ msg[m] = "wire"
      /\ \A n \in Copies : msg'[n] = IF n = m THEN "ready" ELSE msg[n]
  BY DEF Route, Q!Accept, NeverLost, webVars, workVars, TypeInv, TypeOK, Q!BrokerTypeOK
<1>2. UNCHANGED <<Confirmed, Dead, processed>>
  BY <1>1 DEF Confirmed, Dead, CopiesOf
<1>3. CASE m[1] \in Requests
  <2>1. Pending' = Pending \cup {m[1]}
    BY <1>1, <1>3 DEF Pending, CopiesOf, InQueue
  <2>2. Ledger!Enqueue(m[1])
    BY <1>2, <2>1 DEF Ledger!Enqueue
  <2>3. QED
    BY <1>3, <2>2 DEF Ledger!Next
<1>4. CASE m[1] \notin Requests
  <2>1. UNCHANGED Pending
    BY <1>1, <1>4 DEF Pending, CopiesOf, InQueue
  <2>2. QED
    BY <1>2, <2>1 DEF Ledger!ledger
<1>5. QED
  BY <1>3, <1>4

LEMMA RecordStep ==
  ASSUME TypeInv, LedgerInv, NEW d \in Deliveries, Record(d)
  PROVE  Ledger!Next
<1> DEFINE e == d[1][1]
<1>1. UNCHANGED <<pub, msg>> /\ processed' = processed \cup {e} /\ handler[d] \in Active
  BY DEF Record, brokerVars, webVars
<1>2. UNCHANGED <<Confirmed, Pending, Dead>>
  BY <1>1 DEF Confirmed, Pending, Dead, CopiesOf, InQueue
<1>3. e \in Requests /\ d[1] \in CopiesOf(e) /\ msg[d[1]] \in Q!Queued
  BY <1>1 DEF TypeInv, HandlerInv, LedgerInv, HandledCame, CopiesOf
<1>4. e \in Ledger!Known
  BY <1>3 DEF LedgerInv, NeverLost, Q!Queued, Ledger!Known, Pending, Dead, CopiesOf, InQueue
<1>5. Ledger!Record(e)
  BY <1>1, <1>2, <1>4 DEF Ledger!Record
<1>6. QED
  BY <1>3, <1>5 DEF Ledger!Next

LEMMA InitLedger == Init => Ledger!Init
<1> SUFFICES ASSUME Init PROVE Ledger!Init
  OBVIOUS
<1>1. \A m \in Copies : m[1] \in Requests => msg[m] = "none"
  BY JunkAssumption DEF Init
<1>2. Confirmed = {} /\ processed = {}
  BY DEF Init, Confirmed
<1>3. Pending = {} /\ Dead = {}
  BY <1>1 DEF Pending, Dead, CopiesOf, InQueue
<1>4. QED
  BY <1>2, <1>3 DEF Ledger!Init

\* Once a consumer has declared the queue, the pipeline keeps the ledger: what the
\* publisher was told is safe leaves the queue for processed_events or the dead-letter
\* queue alone, whatever fails.
THEOREM PipelineKeepsLedger == ~FreshBroker => (Spec => ImplementsLedger)
<1> SUFFICES ASSUME ~FreshBroker PROVE Spec => ImplementsLedger
  OBVIOUS
<1>1. TypeInv /\ WebInv /\ LedgerInv /\ [Next]_vars => [Ledger!Next]_(Ledger!ledger)
  <2> SUFFICES ASSUME TypeInv, WebInv, LedgerInv, [Next]_vars
               PROVE  Ledger!Next \/ UNCHANGED Ledger!ledger
    OBVIOUS
  <2>1. CASE \E r \in Requests : Confirm(r)
    BY <2>1, ConfirmStep DEF LedgerInv
  <2>2. CASE \E m \in Copies : Route(m)
    BY <2>2, RouteStep DEF LedgerInv
  <2>3. CASE \E d \in Deliveries : Record(d)
    BY <2>3, RecordStep
  <2>4. QED
    BY <2>1, <2>2, <2>3, OthersLeave, LeaveStep
<1>2. QED
  BY <1>1, InitLedger, AlwaysInv, AlwaysLedgerInv, PTL DEF Spec, ImplementsLedger, Ledger!Spec

=============================================================================
