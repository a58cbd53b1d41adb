--------------------------- MODULE WebClientProofs ---------------------------
(***************************************************************************)
(* Theorems about WebClient, for every number of tabs, tokens and tasks.   *)
(***************************************************************************)
EXTENDS WebClient, TLAPS

USE DEF NoToken

\* The part of Inv that speaks of pages and lists, and the part that speaks of calls.
TabsStand ==
  /\ page \in [Tabs -> {"login", "tasks", "crashed"}] /\ form \in [Tabs -> BOOLEAN]
  /\ list \in [Tabs -> List]
  /\ \A t \in Tabs : ListStands(t)

CallsStand ==
  /\ call \in [Tabs -> Call]
  /\ told \in [Tabs -> {"nothing", "created", "failed", "login"}]
  /\ rows \in [Tabs -> {0, 1}]
  /\ ToldTheTruth
  /\ \A t \in Tabs : CallStands(t)

NumbersStand ==
  /\ signed \in 0..MaxTokens /\ expired \in 0..signed /\ cookie \in 0..signed
  /\ stored \in 0..MaxTasks /\ replica \in 0..stored

LEMMA InvParts == Inv <=> NumbersStand /\ TabsStand /\ CallsStand
  BY DEF Inv, TypeOK, NumbersStand, TabsStand, CallsStand

LEMMA PartsHold == NumbersStand' /\ TabsStand' /\ CallsStand' => Inv'
  BY DEF Inv, TypeOK, NumbersStand, TabsStand, CallsStand

LEMMA NumbersAreNat ==
  Inv => signed \in Nat /\ expired \in Nat /\ cookie \in 0..MaxTokens /\ signed <= MaxTokens
  BY BoundsAssumption DEF Inv, TypeOK

LEMMA InitInv == Init => Inv
<1> SUFFICES ASSUME Init PROVE Inv
  OBVIOUS
<1>1. NoCall \in Call /\ NoList \in List
  BY BoundsAssumption DEF NoCall, NoList, Call, List
<1>2. NumbersStand
  BY BoundsAssumption DEF Init, NumbersStand
<1>3. TabsStand
  BY <1>1, BoundsAssumption DEF Init, TabsStand, ListStands, NoList
<1>4. CallsStand
  BY <1>1 DEF Init, CallsStand, CallStands, ToldTheTruth, NoCall
<1>5. QED
  BY <1>2, <1>3, <1>4, InvParts

-----------------------------------------------------------------------------
(* What a tab shows.                                                       *)

\* A list the tab has, or none, may stay when another page is shown.
Kept(t, l) == l \in {NoList, list[t]}

LEMMA CrashType ==
  ASSUME Inv, NEW t \in Tabs, Crashes(t), UNCHANGED taskVars
  PROVE  TabsStand'
<1>1. NoList \in List /\ NoList.data = 0
  BY BoundsAssumption DEF NoList, List
<1>2. QED
  BY <1>1, InvParts DEF Crashes, TabsStand, ListStands, NumbersStand, taskVars

LEMMA LoginType ==
  ASSUME Inv, NEW t \in Tabs, NEW l, Kept(t, l), ShowsLogin(t, l), UNCHANGED taskVars
  PROVE  TabsStand'
<1>1. l \in List /\ l.data <= replica
  BY InvParts, BoundsAssumption DEF Kept, NoList, List, TabsStand, ListStands, NumbersStand
<1>2. QED
  BY <1>1, InvParts DEF ShowsLogin, TabsStand, ListStands, NumbersStand, taskVars

LEMMA TasksType ==
  ASSUME Inv, NEW t \in Tabs, NEW l, Kept(t, l), NEW session \in BOOLEAN,
         ShowsTasks(t, session, l), UNCHANGED taskVars
  PROVE  TabsStand'
<1>1. CASE Crashes(t)
  BY <1>1, CrashType
<1>2. CASE ~Crashes(t)
  <2>1. page' = [page EXCEPT ![t] = "tasks"] /\ form' = [form EXCEPT ![t] = session]
    BY <1>2 DEF ShowsTasks
  <2>2. list' = [list EXCEPT ![t] = Mounted(l, replica)]
    BY <1>2 DEF ShowsTasks, FindAll
  <2>3. Mounted(l, replica) \in List /\ Mounted(l, replica).data <= replica
    BY InvParts, BoundsAssumption
    DEF Kept, NoList, Mounted, List, TabsStand, ListStands, NumbersStand
  <2>4. QED
    BY <2>1, <2>2, <2>3, InvParts DEF TabsStand, ListStands, NumbersStand, taskVars
<1>3. QED
  BY <1>1, <1>2

\* Calls stand as long as tokens only grow in number and in age.
LEMMA QuietCalls ==
  ASSUME Inv, UNCHANGED <<call, createVars>>, signed' \in Nat, signed <= signed',
         expired' \in Nat, expired <= expired'
  PROVE  CallsStand'
<1>1. UNCHANGED <<call, told, rows>>
  BY DEF createVars
<1>2. \A t \in Tabs : CallStands(t)'
  BY <1>1, InvParts DEF CallsStand, CallStands, Call, NumbersStand
<1>3. QED
  BY <1>1, <1>2, InvParts DEF CallsStand, ToldTheTruth

\* Or when one tab's call takes a step that stands by itself.
CallTypes ==
  /\ call \in [Tabs -> Call]
  /\ told \in [Tabs -> {"nothing", "created", "failed", "login"}]
  /\ rows \in [Tabs -> {0, 1}]

Truth(t) ==
  /\ told[t] = "created" => rows[t] = 1
  /\ told[t] = "login" => rows[t] = 0

LEMMA OneCall ==
  ASSUME Inv, NEW t \in Tabs, CallTypes', Truth(t)', CallStands(t)',
         \A u \in Tabs \ {t} :
           call'[u] = call[u] /\ told'[u] = told[u] /\ rows'[u] = rows[u],
         signed' \in Nat, signed <= signed', expired' \in Nat, expired <= expired'
  PROVE  CallsStand'
<1>1. \A u \in Tabs \ {t} : CallStands(u)'
  BY InvParts DEF CallsStand, CallStands, Call, NumbersStand
<1>2. ToldTheTruth'
  BY InvParts DEF CallsStand, ToldTheTruth, Truth
<1>3. QED
  BY <1>1, <1>2 DEF CallsStand, CallTypes

LEMMA NoCallStands ==
  ASSUME Inv, NEW t \in Tabs, Done(t), signed' \in Nat
  PROVE  CallStands(t)'
  BY InvParts DEF Done, NoCall, CallStands, CallsStand

-----------------------------------------------------------------------------
(* What each action preserves.                                             *)

LEMMA QuietTabs ==
  ASSUME Inv, UNCHANGED tabVars, replica' \in Nat, replica <= replica'
  PROVE  TabsStand'
  BY InvParts DEF tabVars, TabsStand, ListStands, NumbersStand, List

\* Users, who open a page or submit a form.
LEMMA UsingType ==
  ASSUME Inv, NEW t \in Tabs, Using(t)
  PROVE  Inv'
<1> USE InvParts
<1>1. UNCHANGED <<cookie, signed, expired, stored, replica>> /\ NumbersStand'
  BY DEF Using, Open, SubmitLogin, SubmitLogout, SubmitCreate, Calls, tokenVars, taskVars,
         NumbersStand
<1>2. CASE Open(t)
  <2>1. TabsStand'
    <3>1. CASE ShowsTasks(t, cookie # NoToken, NoList)
      BY <1>2, <3>1, TasksType DEF Open, Kept
    <3>2. CASE ShowsLogin(t, NoList)
      BY <1>2, <3>2, LoginType DEF Open, Kept
    <3>3. QED
      BY <1>2, <3>1, <3>2 DEF Open
  <2>2. CallsStand'
    <3>1. UNCHANGED call /\ call[t] = NoCall
      BY <1>2 DEF Open
    <3>2. told' = [told EXCEPT ![t] = "nothing"] /\ rows' = [rows EXCEPT ![t] = 0]
      BY <1>2 DEF Open, Tell
    <3>3. /\ CallTypes' /\ Truth(t)'
          /\ \A u \in Tabs \ {t} : told'[u] = told[u] /\ rows'[u] = rows[u]
      BY <3>1, <3>2 DEF CallsStand, CallTypes, Truth
    <3>4. CallStands(t)'
      BY <1>1, <3>1 DEF CallStands, NoCall, NumbersStand, CallsStand
    <3>5. QED
      BY <1>1, <3>1, <3>3, <3>4, OneCall, NumbersAreNat
  <2>3. QED
    BY <1>1, <2>1, <2>2, PartsHold
<1>3. CASE SubmitLogin(t) \/ SubmitLogout(t) \/ SubmitCreate(t)
  <2>1. TabsStand'
    BY <1>1, <1>3, QuietTabs
    DEF SubmitLogin, SubmitLogout, SubmitCreate, Calls, NumbersStand
  <2>2. PICK action \in {"login", "logout", "create"}, token \in 0..signed :
          /\ Calls(t, action, token)
          /\ \/ told' = [told EXCEPT ![t] = "nothing"] /\ rows' = [rows EXCEPT ![t] = 0]
             \/ action # "create" /\ UNCHANGED <<told, rows>>
    <3>1. 0 \in 0..signed /\ cookie \in 0..signed
      BY DEF NumbersStand
    <3>2. CASE SubmitLogin(t)
      BY <3>1, <3>2 DEF SubmitLogin, createVars
    <3>3. CASE SubmitLogout(t)
      BY <3>1, <3>3 DEF SubmitLogout, createVars
    <3>4. CASE SubmitCreate(t)
      BY <3>1, <3>4 DEF SubmitCreate, Tell
    <3>5. QED
      BY <1>3, <3>2, <3>3, <3>4
  <2> DEFINE c == [NoCall EXCEPT !.action = action, !.token = token]
  <2>3. /\ call' = [call EXCEPT ![t] = c] /\ c \in Call
        /\ c.action = action /\ c.token = token /\ c.status = "none"
    <3>1. NoCall \in Call /\ NoCall.status = "none" /\ token \in 0..MaxTokens
      BY NumbersAreNat, BoundsAssumption DEF NoCall, Call
    <3>2. c \in Call /\ c.action = action /\ c.token = token /\ c.status = "none"
      BY <3>1 DEF Call
    <3>3. QED
      BY <2>2, <3>2 DEF Calls
  <2> HIDE DEF c
  <2>4. /\ CallTypes' /\ Truth(t)'
        /\ \A u \in Tabs \ {t} :
             call'[u] = call[u] /\ told'[u] = told[u] /\ rows'[u] = rows[u]
    BY <2>2, <2>3 DEF CallsStand, CallTypes, Truth, ToldTheTruth
  <2>5. CallStands(t)'
    BY <1>1, <2>2, <2>3 DEF CallStands, NumbersStand, CallsStand
  <2>6. CallsStand'
    BY <1>1, <2>4, <2>5, OneCall, NumbersAreNat
  <2>7. QED
    BY <1>1, <2>1, <2>6, PartsHold
<1>4. QED
  BY <1>2, <1>3 DEF Using

\* A call whose answer is on its way says nothing to its tab.
LEMMA AnswerStands ==
  ASSUME Inv, NEW t \in Tabs, NEW c \in Call, call' = [call EXCEPT ![t] = c],
         NEW n \in {0, 1}, rows' = [rows EXCEPT ![t] = n],
         n # rows[t] => told[t] = "nothing",
         UNCHANGED <<page, form, list, told, replica, expired>>,
         NumbersStand', signed <= signed', CallStands(t)'
  PROVE  Inv'
<1>1. TabsStand'
  BY QuietTabs, InvParts DEF tabVars, NumbersStand
<1>2. /\ CallTypes' /\ Truth(t)'
      /\ \A u \in Tabs \ {t} :
           call'[u] = call[u] /\ told'[u] = told[u] /\ rows'[u] = rows[u]
  BY InvParts DEF CallsStand, CallTypes, Truth, ToldTheTruth
<1>3. signed' \in Nat
  BY DEF NumbersStand
<1>4. CallsStand'
  BY <1>2, <1>3, OneCall, NumbersAreNat
<1>5. QED
  BY <1>1, <1>4, PartsHold

LEMMA SignType ==
  ASSUME Inv, NEW t \in Tabs, Sign(t)
  PROVE  Inv'
<1> DEFINE c == [call[t] EXCEPT !.token = signed + 1, !.status = "2xx"]
<1>1. call[t] \in Call /\ call[t].action = "login"
  BY InvParts DEF CallsStand, Sign, Waits
<1>2. signed < MaxTokens /\ signed' = signed + 1 /\ UNCHANGED <<cookie, expired, stored, replica>>
  BY DEF Sign, taskVars
<1>3. c \in Call /\ c.token = signed' /\ c.action = "login" /\ c.status = "2xx"
  <2>1. signed + 1 \in 0..MaxTokens
    BY <1>2, NumbersAreNat, BoundsAssumption
  <2>2. QED
    BY <1>1, <1>2, <2>1 DEF Call, Statuses
<1>4. /\ call' = [call EXCEPT ![t] = c] /\ rows' = [rows EXCEPT ![t] = rows[t]]
      /\ rows[t] \in {0, 1} /\ UNCHANGED <<page, form, list, told>>
  BY InvParts DEF Sign, createVars, tabVars, CallsStand
<1>5. NumbersStand' /\ signed <= signed'
  BY <1>2, InvParts, BoundsAssumption DEF NumbersStand
<1> HIDE DEF c
<1>6. CallStands(t)'
  BY <1>2, <1>3, <1>4, InvParts, NumbersAreNat DEF CallStands, CallsStand
<1>7. QED
  BY <1>2, <1>3, <1>4, <1>5, <1>6, AnswerStands

LEMMA StoreType ==
  ASSUME Inv, NEW t \in Tabs, Store(t)
  PROVE  Inv'
<1>1. /\ call[t] \in Call /\ call[t].action = "create" /\ call[t].token <= signed
      /\ rows[t] = 0 /\ told[t] = "nothing"
  BY InvParts DEF CallsStand, CallStands, Store
<1>2. PICK status \in {"2xx", "error"} :
        call' = [call EXCEPT ![t] = [call[t] EXCEPT !.status = status]]
  BY DEF Store, Answers
<1> DEFINE c == [call[t] EXCEPT !.status = status]
<1>3. c \in Call /\ c.action = "create" /\ c.status = status /\ c.token = call[t].token
  BY <1>1 DEF Call, Statuses
<1>4. rows' = [rows EXCEPT ![t] = 1] /\ UNCHANGED <<page, form, list, told>>
  BY <1>1 DEF Store, tabVars
<1>5. NumbersStand' /\ signed <= signed' /\ UNCHANGED <<signed, expired, replica>>
  BY InvParts, BoundsAssumption DEF Store, NumbersStand, tokenVars
<1> HIDE DEF c
<1>6. call' = [call EXCEPT ![t] = c]
  BY <1>2 DEF c
<1>7. CallStands(t)'
  BY <1>1, <1>3, <1>4, <1>5, <1>6, InvParts DEF CallStands, CallsStand
<1>8. QED
  BY <1>1, <1>3, <1>4, <1>5, <1>6, <1>7, NumbersAreNat, AnswerStands

LEMMA RefuseType ==
  ASSUME Inv, NEW t \in Tabs,
         AcceptToken(t) \/ RejectToken(t) \/ Refuse(t) \/ AnswerAtOnce(t)
  PROVE  Inv'
<1>1. /\ call[t] \in Call /\ call[t].token <= signed
      /\ call[t].action = "create" => rows[t] = 0 /\ told[t] = "nothing"
      /\ rows[t] \in {0, 1}
  BY InvParts DEF CallsStand, CallStands, AcceptToken, RejectToken, Refuse, AnswerAtOnce, Waits
<1>2. PICK status \in Statuses \cup {"accepted"} :
        /\ call' = [call EXCEPT ![t] = [call[t] EXCEPT !.status = status]]
        /\ status = "401" => call[t].token \in 1..expired
        /\ status = "2xx" => call[t].action = "logout"
        /\ status = "accepted" => call[t].action = "create"
  <2>1. CASE AcceptToken(t)
    BY <2>1 DEF AcceptToken, Answers, Waits
  <2>2. CASE RejectToken(t)
    BY <2>2 DEF RejectToken, Answers, Statuses
  <2>3. CASE Refuse(t)
    BY <2>3 DEF Refuse, Answers, Statuses
  <2>4. CASE AnswerAtOnce(t)
    BY <2>4 DEF AnswerAtOnce, Answers, Statuses, Waits
  <2>5. QED
    BY <2>1, <2>2, <2>3, <2>4
<1> DEFINE c == [call[t] EXCEPT !.status = status]
<1>3. c \in Call /\ c.action = call[t].action /\ c.status = status /\ c.token = call[t].token
  BY <1>1 DEF Call
<1>4. /\ rows' = [rows EXCEPT ![t] = rows[t]]
      /\ UNCHANGED <<page, form, list, told, rows, cookie, signed, expired, stored, replica>>
  BY InvParts DEF AcceptToken, RejectToken, Refuse, AnswerAtOnce, tabVars, tokenVars, taskVars, createVars,
                  CallsStand
<1>5. NumbersStand' /\ signed <= signed'
  BY <1>4, InvParts DEF NumbersStand
<1> HIDE DEF c
<1>6. call' = [call EXCEPT ![t] = c]
  BY <1>2 DEF c
<1>7. CallStands(t)'
  BY <1>1, <1>2, <1>3, <1>4, <1>6, InvParts DEF CallStands, CallsStand
<1>8. QED
  BY <1>1, <1>3, <1>4, <1>5, <1>6, <1>7, NumbersAreNat, AnswerStands

\* A call that has ended leaves what it told and what it stored.
LEMMA EndedStands ==
  ASSUME Inv, NEW t \in Tabs, Done(t), UNCHANGED <<tokenVars, rows>>,
         NEW w \in {"nothing", "created", "failed", "login"}, told' = [told EXCEPT ![t] = w],
         w = "created" => rows[t] = 1, w = "login" => rows[t] = 0,
         NumbersStand', TabsStand'
  PROVE  Inv'
<1>1. CallTypes' /\ Truth(t)'
  <2>1. NoCall \in Call
    BY BoundsAssumption DEF NoCall, Call
  <2>2. QED
    BY <2>1, InvParts DEF CallsStand, CallTypes, Truth, Done
<1>2. \A u \in Tabs \ {t} : call'[u] = call[u] /\ told'[u] = told[u] /\ rows'[u] = rows[u]
  BY InvParts DEF CallsStand, Done
<1>3. signed' \in Nat /\ signed <= signed' /\ expired' \in Nat /\ expired <= expired'
  BY NumbersAreNat DEF tokenVars
<1>4. CallStands(t)'
  BY <1>3, NoCallStands
<1>5. CallsStand'
  BY <1>1, <1>2, <1>3, <1>4, OneCall
<1>6. QED
  BY <1>5, PartsHold

\* A login or a logout whose answer arrives, and a create whose answer does.
LEMMA AnsweredType ==
  ASSUME Inv, NEW t \in Tabs, LoginAnswered(t) \/ LogoutAnswered(t) \/ CreateAnswered(t)
  PROVE  Inv'
<1>1. /\ Done(t) /\ UNCHANGED <<tokenVars, rows>> /\ UNCHANGED taskVars
      /\ told[t] \in {"nothing", "created", "failed", "login"} /\ call[t].token <= signed
      /\ call[t].token \in 0..MaxTokens /\ call[t] \in Call
      /\ Kept(t, list[t])
  BY InvParts DEF LoginAnswered, LogoutAnswered, CreateAnswered, createVars, CallsStand,
                  CallStands, Call, Kept
<1>2. ASSUME UNCHANGED tabVars
      PROVE  TabsStand'
  BY <1>1, <1>2, InvParts, QuietTabs DEF taskVars, NumbersStand
<1>3. ASSUME cookie' \in {0, cookie, call[t].token}
      PROVE  NumbersStand'
  BY <1>1, <1>3, InvParts DEF tokenVars, taskVars, NumbersStand
<1>4. CASE LoginAnswered(t) \/ LogoutAnswered(t)
  <2>1. cookie' \in {0, cookie, call[t].token}
    BY <1>4 DEF LoginAnswered, LogoutAnswered
  <2>2. ASSUME ShowsTasks(t, TRUE, list[t]) PROVE TabsStand'
    BY <1>1, <2>2, TasksType
  <2>3. ASSUME ShowsLogin(t, list[t]) PROVE TabsStand'
    BY <1>1, <2>3, LoginType
  <2>4. \/ UNCHANGED tabVars
        \/ ShowsTasks(t, TRUE, list[t])
        \/ ShowsLogin(t, list[t])
    BY <1>4 DEF LoginAnswered, LogoutAnswered
  <2>5. TabsStand'
    BY <1>2, <2>2, <2>3, <2>4
  <2>6. told' = [told EXCEPT ![t] = told[t]]
    BY <1>4, InvParts DEF LoginAnswered, LogoutAnswered, createVars, CallsStand
  <2>7. /\ told[t] = "created" => rows[t] = 1
        /\ told[t] = "login" => rows[t] = 0
    BY InvParts DEF CallsStand, ToldTheTruth
  <2>8. QED
    BY <1>1, <1>3, <2>1, <2>5, <2>6, <2>7, EndedStands
<1>5. CASE CreateAnswered(t)
  <2>1. /\ call[t].action = "create" /\ call[t].status \in Statuses
        /\ call[t].status \in {"401", "noToken"} => rows[t] = 0
        /\ call[t].status = "2xx" => rows[t] = 1
    BY <1>1, <1>5, InvParts DEF CreateAnswered, Answered, CallsStand, CallStands, Call
  <2>2. CASE Created(t)
    <3>1. rows[t] = 1
      BY <2>1, <2>2 DEF Created, PostTask, Statuses
    <3>2. told' = [told EXCEPT ![t] = "created"] /\ NumbersStand'
      BY <1>3, <2>2 DEF Created, Tell
    <3>3. TabsStand'
      BY <1>1, <2>2, TasksType DEF Created
    <3>4. QED
      BY <1>1, <3>1, <3>2, <3>3, EndedStands
  <2>3. CASE ToLogin(t)
    <3>1. rows[t] = 0
      BY <2>1, <2>3 DEF ToLogin, PostTask, Statuses
    <3>2. told' = [told EXCEPT ![t] = "login"] /\ NumbersStand'
      BY <1>3, <2>3 DEF ToLogin, Tell
    <3>3. TabsStand'
      BY <1>1, <2>3, LoginType DEF ToLogin
    <3>4. QED
      BY <1>1, <3>1, <3>2, <3>3, EndedStands
  <2>4. CASE CreateFailed(t)
    <3>1. told' = [told EXCEPT ![t] = "failed"] /\ NumbersStand' /\ TabsStand'
      BY <1>2, <1>3, <2>4 DEF CreateFailed, Tell
    <3>2. QED
      BY <1>1, <3>1, EndedStands
  <2>5. QED
    BY <1>5, <2>2, <2>3, <2>4 DEF CreateAnswered
<1>6. QED
  BY <1>4, <1>5

LEMMA LostType ==
  ASSUME Inv, NEW t \in Tabs, AnswerLost(t)
  PROVE  Inv'
<1>1. /\ Done(t) /\ UNCHANGED <<tokenVars, rows>> /\ UNCHANGED <<cookie, taskVars>>
  BY DEF AnswerLost
<1>2. NumbersStand'
  BY <1>1, InvParts DEF tokenVars, taskVars, NumbersStand
<1>3. CASE call[t].action = "create"
  <2>1. told' = [told EXCEPT ![t] = "failed"] /\ UNCHANGED tabVars
    BY <1>3 DEF AnswerLost, Tell
  <2>2. TabsStand'
    BY <1>1, <2>1, InvParts, QuietTabs DEF taskVars, NumbersStand
  <2>3. QED
    BY <1>1, <1>2, <2>1, <2>2, EndedStands
<1>4. CASE call[t].action # "create"
  <2>1. told' = [told EXCEPT ![t] = told[t]] /\ Crashes(t)
        /\ told[t] \in {"nothing", "created", "failed", "login"}
    BY <1>4, InvParts DEF AnswerLost, CallsStand
  <2>2. TabsStand'
    BY <1>1, <2>1, CrashType
  <2>3. /\ told[t] = "created" => rows[t] = 1
        /\ told[t] = "login" => rows[t] = 0
    BY InvParts DEF CallsStand, ToldTheTruth
  <2>4. QED
    BY <1>1, <1>2, <2>1, <2>2, <2>3, EndedStands
<1>5. QED
  BY <1>3, <1>4

\* What happens to the lists, the tokens and the replica while the calls wait.
LEMMA QuietType ==
  ASSUME Inv,
         \/ \E t \in Tabs : RefetchFails(t) \/ Forget(t)
         \/ TokenExpires \/ CookieExpires \/ Replicate
  PROVE  Inv'
<1>1. UNCHANGED <<call, createVars>> /\ signed' = signed
  BY DEF RefetchFails, Forget, TokenExpires, CookieExpires, Replicate, tokenVars
<1>2. NumbersStand' /\ expired <= expired' /\ replica <= replica'
  BY InvParts DEF RefetchFails, Forget, TokenExpires, CookieExpires, Replicate, tokenVars,
                  taskVars, NumbersStand
<1>3. CallsStand'
  BY <1>1, <1>2, NumbersAreNat, QuietCalls DEF NumbersStand
<1>4. TabsStand'
  <2>1. CASE UNCHANGED tabVars
    BY <1>2, <2>1, QuietTabs DEF NumbersStand
  <2>2. CASE \E t \in Tabs : RefetchFails(t)
    BY <2>2, InvParts DEF RefetchFails, TabsStand, ListStands, List, taskVars
  <2>3. CASE \E t \in Tabs : Forget(t)
    <3>1. NoList \in List /\ NoList.data = 0
      BY BoundsAssumption DEF NoList, List
    <3>2. QED
      BY <2>3, <3>1, InvParts DEF Forget, TabsStand, ListStands, taskVars, NumbersStand
  <2>4. QED
    BY <2>1, <2>2, <2>3 DEF TokenExpires, CookieExpires, Replicate
<1>5. QED
  BY <1>2, <1>3, <1>4, PartsHold

LEMMA StepInv == Inv /\ [Next]_vars => Inv'
<1> SUFFICES ASSUME Inv, [Next]_vars PROVE Inv'
  OBVIOUS
<1>1. CASE UNCHANGED vars
  BY <1>1 DEF vars, tokenVars, taskVars, tabVars, createVars, Inv, TypeOK, ToldTheTruth,
              CallStands, ListStands
<1>2. ASSUME NEW t \in Tabs, Using(t) PROVE Inv'
  BY <1>2, UsingType
<1>3. ASSUME NEW t \in Tabs, Serving(t) PROVE Inv'
  BY <1>3, SignType, StoreType, RefuseType, AnsweredType DEF Serving
<1>4. ASSUME NEW t \in Tabs, AnswerLost(t) PROVE Inv'
  BY <1>4, LostType
<1>5. QED
  BY <1>1, <1>2, <1>3, <1>4, QuietType DEF Next

LEMMA SpecInv == Spec => []Inv
  BY InitInv, StepInv, PTL DEF Spec

-----------------------------------------------------------------------------
(* What the runs check.                                                    *)

\* Every value the web client keeps has its type, and no create stores two rows.
THEOREM TypeCorrect == Spec => []TypeOK
<1>1. Inv => TypeOK
  BY DEF Inv
<1>2. QED
  BY <1>1, SpecInv, PTL

\* The create form says "created" only of a row on the primary, and sends its user to
\* the login page only when nothing was stored: createTaskAction and postTask.
THEOREM TruthTold == Spec => []ToldTheTruth
<1>1. Inv => ToldTheTruth
  BY DEF Inv
<1>2. QED
  BY <1>1, SpecInv, PTL

\* The step that takes a live session from the cookie ends a logout, or a create sent
\* with an older token and answered 401: the cookies that loginAction, logoutAction and
\* createTaskAction set and clear.
THEOREM LiveSession == Spec => LiveSessionKept
<1>1. ASSUME Inv, [Next]_vars, cookie > expired, cookie' = NoToken, vars' # vars
      PROVE  \E t \in Tabs : EndsSession(t)
  <2>1. Next /\ expired \in Nat /\ cookie \in Nat /\ cookie' # cookie
    BY <1>1, NumbersAreNat DEF Inv, TypeOK
  <2>2. ~CookieExpires
    BY <1>1, <2>1 DEF CookieExpires
  <2>3. PICK t \in Tabs : LoginAnswered(t) \/ LogoutAnswered(t) \/ CreateAnswered(t)
    BY <2>1, <2>2 DEF Next, Using, Serving, Open, SubmitLogin, SubmitLogout, SubmitCreate, Calls,
       Sign, AcceptToken, RejectToken, Store, Refuse, AnswerAtOnce, RefetchFails, Forget,
       AnswerLost, TokenExpires, Replicate
  <2>4. Done(t) /\ call[t] # NoCall /\ call'[t] = NoCall
    <3>1. Done(t) /\ call[t].action # "none"
      BY <2>3 DEF LoginAnswered, LogoutAnswered, CreateAnswered, Answered
    <3>2. call'[t] = NoCall
      BY <1>1, <3>1, InvParts DEF Done, CallsStand
    <3>3. QED
      BY <3>1, <3>2 DEF NoCall
  <2>5. CASE LoginAnswered(t)
    <3>1. call[t].action = "login" /\ call[t].status = "2xx" /\ cookie' = call[t].token
      BY <2>1, <2>5 DEF LoginAnswered, Answered
    <3>2. QED
      BY <1>1, <3>1 DEF Inv, CallStands
  <2>6. CASE LogoutAnswered(t)
    BY <2>4, <2>6 DEF LogoutAnswered, Answered, EndsSession
  <2>7. CASE CreateAnswered(t)
    <3>1. Answered(t, "create") /\ PostTask(call[t].status) = "unauthorized"
      BY <2>1, <2>7 DEF CreateAnswered, Created, ToLogin, CreateFailed
    <3>2. call[t].status = "401"
      BY <3>1 DEF PostTask
    <3>3. call[t].token \in 1..expired
      BY <1>1, <3>2 DEF Inv, CallStands
    <3>4. QED
      BY <1>1, <2>1, <2>4, <3>1, <3>2, <3>3 DEF Answered, EndsSession
  <2>8. QED
    BY <2>3, <2>5, <2>6, <2>7
<1> DEFINE Rule == cookie > expired /\ cookie' = NoToken => \E t \in Tabs : EndsSession(t)
<1>2. Inv /\ [Next]_vars => [Rule]_vars
  BY <1>1
<1>3. QED
  BY <1>2, SpecInv, PTL DEF LiveSessionKept, Spec

\* The list of a tab never goes back to an older state of the table: findAll on the
\* replica, and the query that keeps the data it has.
THEOREM ReadsAreMonotonic == Spec => MonotonicReads
<1>1. ASSUME Inv, [Next]_vars, NEW t \in Tabs,
             list[t].status # "none", list'[t].status # "none"
      PROVE  list'[t].data >= list[t].data
  <2>1. /\ list \in [Tabs -> List] /\ list[t].data \in Nat /\ list[t].data <= replica
        /\ replica \in Nat
    BY <1>1 DEF Inv, TypeOK, ListStands, List
  <2>2. ASSUME NEW u \in Tabs, list' = [list EXCEPT ![u] = NoList] PROVE list'[t] = list[t]
    BY <1>1, <2>1, <2>2 DEF NoList
  <2>3. ASSUME NEW u \in Tabs, NEW l, Kept(u, l), NEW session, ShowsTasks(u, session, l)
        PROVE  list'[t].data >= list[t].data
    <3>1. CASE Crashes(u)
      <4>1. list'[t] = list[t]
        BY <2>2, <3>1 DEF Crashes
      <4>2. QED
        BY <2>1, <4>1
    <3>2. CASE list' = [list EXCEPT ![u] = Mounted(l, replica)]
      BY <2>1, <2>3, <3>2 DEF Mounted, Kept, NoList
    <3>3. QED
      BY <2>3, <3>1, <3>2 DEF ShowsTasks, FindAll
  <2>4. ASSUME NEW u \in Tabs, NEW l, Kept(u, l), ShowsLogin(u, l)
        PROVE  list'[t].data >= list[t].data
    <3>1. list' = [list EXCEPT ![u] = NoList] \/ list' = list
      BY <2>1, <2>4 DEF ShowsLogin, Kept
    <3>2. QED
      BY <2>1, <2>2, <3>1
  <2>5. ASSUME NEW u \in Tabs, AnswerLost(u) \/ Forget(u) \/ RefetchFails(u)
        PROVE  list'[t].data >= list[t].data
    <3>1. \/ list' = [list EXCEPT ![u] = NoList] \/ list' = list
          \/ list' = [list EXCEPT ![u].status = "error"]
      BY <2>5 DEF AnswerLost, Forget, RefetchFails, Crashes, tabVars
    <3>2. QED
      BY <2>1, <2>2, <3>1 DEF List
  <2>6. ASSUME NEW u \in Tabs, Open(u) \/ LoginAnswered(u) \/ LogoutAnswered(u)
                                \/ CreateAnswered(u)
        PROVE  list'[t].data >= list[t].data
    <3>1. \/ \E l \in {NoList, list[u]}, session \in BOOLEAN : ShowsTasks(u, session, l)
          \/ \E l \in {NoList, list[u]} : ShowsLogin(u, l)
          \/ list' = list
      BY <2>6 DEF Open, LoginAnswered, LogoutAnswered, CreateAnswered, Created, ToLogin,
                  CreateFailed, tabVars
    <3>2. QED
      BY <2>1, <2>3, <2>4, <3>1 DEF Kept
  <2>7. \/ list' = list
        \/ \E u \in Tabs : AnswerLost(u) \/ Forget(u) \/ RefetchFails(u)
        \/ \E u \in Tabs : Open(u) \/ LoginAnswered(u) \/ LogoutAnswered(u)
                            \/ CreateAnswered(u)
    BY <1>1 DEF Next, Using, Serving, SubmitLogin, SubmitLogout, SubmitCreate, Calls, Sign,
       AcceptToken, RejectToken, Store, Refuse, AnswerAtOnce, TokenExpires, CookieExpires, Replicate, vars,
       tabVars
  <2>8. QED
    BY <2>1, <2>5, <2>6, <2>7
<1> DEFINE Rule == \A t \in Tabs : list[t].status # "none" /\ list'[t].status # "none" =>
                     list'[t].data >= list[t].data
<1>2. Inv /\ [Next]_vars => [Rule]_vars
  BY <1>1
<1>3. QED
  BY <1>2, SpecInv, PTL DEF MonotonicReads, Spec

=============================================================================
