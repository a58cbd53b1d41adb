----------------------------- MODULE WebClient -----------------------------
(***************************************************************************)
(* The web client: tabs of one browser that share the session cookie, the  *)
(* Server Actions they call (loginAction, logoutAction, createTaskAction), *)
(* the API behind those, and the task list of each tab, which the server   *)
(* reads through the replica and TanStack Query keeps in the tab.          *)
(*                                                                         *)
(* Tokens are numbered in the order they are signed; each lives one hour,  *)
(* so they expire in that order.  Rows of tasks are numbered in the order  *)
(* the primary commits them, in which the replica applies them: a read     *)
(* that returns rows 1..k is the number k.                                 *)
(***************************************************************************)
EXTENDS Naturals

CONSTANTS
  Tabs,       \* tabs of the browser
  MaxTokens,  \* bound: tokens signed
  MaxTasks    \* bound: rows of tasks

ASSUME BoundsAssumption == MaxTokens \in Nat /\ MaxTasks \in Nat

VARIABLES
  cookie,           \* the token in the session cookie, NoToken when there is none
  signed, expired,  \* tokens signed; the first of them have expired
  stored, replica,  \* rows of tasks on the primary; the first of them on the replica
  page,             \* the page of each tab; "crashed": only a reload leaves it
  form,             \* whether it shows the create form and the logout button
  call,             \* the Server Action it waits for
  told, rows,       \* what it said of its last create, and the rows that create stored
  list              \* the query ["tasks", "list"] in its QueryClient

tokenVars == <<signed, expired>>
taskVars == <<stored, replica>>
tabVars == <<page, form, list>>
createVars == <<told, rows>>
vars == <<cookie, tokenVars, taskVars, tabVars, call, createVars>>

NoToken == 0
NoCall == [action |-> "none", token |-> NoToken, status |-> "none"]
NoList == [data |-> 0, status |-> "none"]

Statuses == {"2xx", "401", "noToken", "error"}
Call == [action : {"none", "login", "logout", "create"}, token : 0..MaxTokens,
         status : {"none", "accepted"} \cup Statuses]
List == [data : 0..MaxTasks, status : {"none", "success", "error"}]

\* No create stores two rows, whatever fails.
TypeOK ==
  /\ signed \in 0..MaxTokens /\ expired \in 0..signed /\ cookie \in 0..signed
  /\ stored \in 0..MaxTasks /\ replica \in 0..stored
  /\ page \in [Tabs -> {"login", "tasks", "crashed"}] /\ form \in [Tabs -> BOOLEAN]
  /\ call \in [Tabs -> Call]
  /\ told \in [Tabs -> {"nothing", "created", "failed", "login"}]
  /\ rows \in [Tabs -> {0, 1}]
  /\ list \in [Tabs -> List]

\* A browser without a session, and tasks the replica may not have yet.
Init ==
  /\ cookie = NoToken /\ signed = 0 /\ expired = 0
  /\ stored \in 0..MaxTasks /\ replica \in 0..stored
  /\ page = [t \in Tabs |-> "login"] /\ form = [t \in Tabs |-> FALSE]
  /\ call = [t \in Tabs |-> NoCall]
  /\ told = [t \in Tabs |-> "nothing"] /\ rows = [t \in Tabs |-> 0]
  /\ list = [t \in Tabs |-> NoList]

Waits(t, action) == call[t].action = action /\ call[t].status = "none"
Answered(t, action) == call[t].action = action /\ call[t].status \in Statuses
Done(t) == call' = [call EXCEPT ![t] = NoCall]
Tell(t, what) == told' = [told EXCEPT ![t] = what]

-----------------------------------------------------------------------------
(* Mutated forms of operations below, each with a bug that some property   *)
(* must find.  No specification uses them.                                 *)

FindAllAnywhere(k) ==            \* reads are spread over replica and primary
  k \in {replica, stored}

PostTaskUnchecked(status) ==     \* res.ok is not looked at
  IF status = "401" THEN "unauthorized"
  ELSE IF status = "noToken" THEN "noToken" ELSE "created"

PostTaskUnauthorized(status) ==  \* every error of postTask counts as a 401
  IF status = "2xx" THEN "created"
  ELSE IF status = "noToken" THEN "noToken" ELSE "unauthorized"

StoreTwice(t) ==                 \* the mutation is retried after an error
  /\ call[t].action = "create" /\ call[t].status \in {"accepted", "error"}
  /\ stored < MaxTasks
  /\ stored' = stored + 1 /\ rows' = [rows EXCEPT ![t] = @ + 1]
  /\ \E s \in {"2xx", "error"} : call' = [call EXCEPT ![t].status = s]
  /\ UNCHANGED <<cookie, tokenVars, replica, tabVars, told>>

-----------------------------------------------------------------------------
(* What a tab shows.                                                       *)

\* TasksService.findAll: the read path.
FindAll(k) == k = replica

\* useQuery takes the tasks the page was rendered with only when its cache is empty.
Mounted(l, k) == IF l.status = "none" THEN [data |-> k, status |-> "success"] ELSE l

\* There is no error.tsx: an error while rendering takes the whole tree.
Crashes(t) ==
  /\ page' = [page EXCEPT ![t] = "crashed"] /\ form' = [form EXCEPT ![t] = FALSE]
  /\ list' = [list EXCEPT ![t] = NoList]

\* TasksPage, rendered on the server with or without a token; fetchTasks may throw.
ShowsTasks(t, session, l) ==
  \/ /\ page' = [page EXCEPT ![t] = "tasks"] /\ form' = [form EXCEPT ![t] = session]
     /\ \E k \in 0..stored : FindAll(k) /\ list' = [list EXCEPT ![t] = Mounted(l, k)]
  \/ Crashes(t)

ShowsLogin(t, l) ==
  /\ page' = [page EXCEPT ![t] = "login"] /\ form' = [form EXCEPT ![t] = FALSE]
  /\ list' = [list EXCEPT ![t] = l]

\* An address or a link is loaded: the tab has a new QueryClient.
Open(t) ==
  /\ call[t] = NoCall
  /\ ShowsTasks(t, cookie # NoToken, NoList) \/ ShowsLogin(t, NoList)
  /\ Tell(t, "nothing") /\ rows' = [rows EXCEPT ![t] = 0]
  /\ UNCHANGED <<cookie, tokenVars, taskVars, call>>

\* fetchTasks as the queryFn of the tab: on mount, on focus, after a create.  The host
\* of INTERNAL_API_URL is unknown to a browser; the query keeps its data.
RefetchFails(t) ==
  /\ page[t] = "tasks" /\ list[t].status = "success"
  /\ list' = [list EXCEPT ![t].status = "error"]
  /\ UNCHANGED <<cookie, tokenVars, taskVars, page, form, call, createVars>>

\* gcTime: a query that no component has used for five minutes.
Forget(t) ==
  /\ page[t] = "login" /\ list[t].status # "none"
  /\ list' = [list EXCEPT ![t] = NoList]
  /\ UNCHANGED <<cookie, tokenVars, taskVars, page, form, call, createVars>>

-----------------------------------------------------------------------------
(* The Server Actions, from the click to the request they make.            *)

Calls(t, action, token) ==
  /\ call[t] = NoCall
  /\ call' = [call EXCEPT ![t] = [NoCall EXCEPT !.action = action, !.token = token]]
  /\ UNCHANGED <<cookie, tokenVars, taskVars, tabVars>>

SubmitLogin(t) == page[t] = "login" /\ Calls(t, "login", NoToken) /\ UNCHANGED createVars
SubmitLogout(t) == form[t] /\ Calls(t, "logout", NoToken) /\ UNCHANGED createVars

\* The browser sends the cookie it has, which need not be the one of the page.
SubmitCreate(t) ==
  /\ form[t] /\ Calls(t, "create", cookie)
  /\ Tell(t, "nothing") /\ rows' = [rows EXCEPT ![t] = 0]

-----------------------------------------------------------------------------
(* What the server makes of them.                                          *)

Answers(t, status) == call' = [call EXCEPT ![t].status = status]

\* AuthService.login signs a token.
Sign(t) ==
  /\ Waits(t, "login") /\ signed < MaxTokens
  /\ signed' = signed + 1
  /\ call' = [call EXCEPT ![t].token = signed + 1, ![t].status = "2xx"]
  /\ UNCHANGED <<cookie, expired, taskVars, tabVars, createVars>>

\* JwtAuthGuard, before the handler runs.
AcceptToken(t) ==
  /\ Waits(t, "create") /\ call[t].token > expired
  /\ Answers(t, "accepted")
  /\ UNCHANGED <<cookie, tokenVars, taskVars, tabVars, createVars>>

RejectToken(t) ==
  /\ Waits(t, "create") /\ call[t].token \in 1..expired
  /\ Answers(t, "401")
  /\ UNCHANGED <<cookie, tokenVars, taskVars, tabVars, createVars>>

\* TasksService.create; after the commit the answer may still be an error, or none.
Store(t) ==
  /\ call[t].action = "create" /\ call[t].status = "accepted" /\ stored < MaxTasks
  /\ stored' = stored + 1 /\ rows' = [rows EXCEPT ![t] = @ + 1]
  /\ Answers(t, "2xx") \/ Answers(t, "error")
  /\ UNCHANGED <<cookie, tokenVars, replica, tabVars, told>>

\* Wrong credentials, a 429, a 5xx, no connection.
Refuse(t) ==
  /\ \/ Waits(t, "login") \/ (Waits(t, "create") /\ call[t].token # NoToken)
     \/ call[t].status = "accepted"
  /\ Answers(t, "error")
  /\ UNCHANGED <<cookie, tokenVars, taskVars, tabVars, createVars>>

\* logoutAction, and createTaskAction without a token, ask nothing of the API.
AnswerAtOnce(t) ==
  /\ \/ Waits(t, "logout") /\ Answers(t, "2xx")
     \/ Waits(t, "create") /\ call[t].token = NoToken /\ Answers(t, "noToken")
  /\ UNCHANGED <<cookie, tokenVars, taskVars, tabVars, createVars>>

-----------------------------------------------------------------------------
(* The answer of a Server Action reaches the tab: the cookies it sets, then *)
(* the page it redirects to, without a new QueryClient.                    *)

LoginAnswered(t) ==
  /\ Answered(t, "login") /\ Done(t)
  /\ IF call[t].status = "2xx"
     THEN cookie' = call[t].token /\ ShowsTasks(t, TRUE, list[t])
     ELSE UNCHANGED <<cookie, tabVars>>
  /\ UNCHANGED <<tokenVars, taskVars, createVars>>

LogoutAnswered(t) ==
  /\ Answered(t, "logout") /\ Done(t)
  /\ cookie' = NoToken /\ ShowsLogin(t, list[t])
  /\ UNCHANGED <<tokenVars, taskVars, createVars>>

\* postTask, and the catch of createTaskAction.
PostTask(status) ==
  CASE status = "2xx" -> "created"
    [] status = "401" -> "unauthorized"
    [] status = "noToken" -> "noToken"
    [] OTHER -> "failed"

\* The form is reset and the page rendered again, though TaskList keeps its data.
Created(t) ==
  /\ PostTask(call[t].status) = "created"
  /\ Tell(t, "created")
  /\ ShowsTasks(t, TRUE, list[t])
  /\ UNCHANGED cookie

ToLogin(t) ==
  /\ PostTask(call[t].status) \in {"unauthorized", "noToken"}
  /\ Tell(t, "login")
  /\ ShowsLogin(t, list[t])
  /\ cookie' = IF PostTask(call[t].status) = "unauthorized" THEN NoToken ELSE cookie

CreateFailed(t) ==
  /\ PostTask(call[t].status) = "failed"
  /\ Tell(t, "failed")
  /\ UNCHANGED <<cookie, tabVars>>

CreateAnswered(t) ==
  /\ Answered(t, "create") /\ Done(t)
  /\ Created(t) \/ ToLogin(t) \/ CreateFailed(t)
  /\ UNCHANGED <<tokenVars, taskVars, rows>>

\* The connection breaks: useMutation has an error, a form action throws.
AnswerLost(t) ==
  /\ call[t].status \in Statuses /\ Done(t)
  /\ IF call[t].action = "create"
     THEN Tell(t, "failed") /\ UNCHANGED tabVars
     ELSE Crashes(t) /\ UNCHANGED told
  /\ UNCHANGED <<cookie, tokenVars, taskVars, rows>>

-----------------------------------------------------------------------------
(* Time and the replica.                                                   *)

TokenExpires ==
  /\ expired < signed /\ expired' = expired + 1
  /\ UNCHANGED <<cookie, signed, taskVars, tabVars, call, createVars>>

\* maxAge is the lifetime of a token, and counts from later than the token's.
CookieExpires ==
  /\ cookie \in 1..expired /\ cookie' = NoToken
  /\ UNCHANGED <<tokenVars, taskVars, tabVars, call, createVars>>

Replicate ==
  /\ replica < stored /\ replica' = replica + 1
  /\ UNCHANGED <<cookie, tokenVars, stored, tabVars, call, createVars>>

-----------------------------------------------------------------------------

Using(t) == Open(t) \/ SubmitLogin(t) \/ SubmitLogout(t) \/ SubmitCreate(t)

Serving(t) ==
  \/ Sign(t) \/ AcceptToken(t) \/ RejectToken(t) \/ Store(t) \/ Refuse(t) \/ AnswerAtOnce(t)
  \/ LoginAnswered(t) \/ LogoutAnswered(t) \/ CreateAnswered(t)

Next ==
  \/ \E t \in Tabs : Using(t) \/ Serving(t) \/ RefetchFails(t) \/ Forget(t) \/ AnswerLost(t)
  \/ TokenExpires \/ CookieExpires \/ Replicate

Spec == Init /\ [][Next]_vars

-----------------------------------------------------------------------------
(* What must hold.                                                         *)

\* What a tab says of a create is true of the tasks table: "created" (the form is
\* reset) only of a row on the primary, the way to the login page only when nothing was
\* stored.  An error leaves it open.
ToldTheTruth ==
  \A t \in Tabs :
    /\ told[t] = "created" => rows[t] = 1
    /\ told[t] = "login" => rows[t] = 0

\* A step that takes a session whose token is live from the cookie ends a logout, or a
\* create that another tab sent with an older token, before the login of this one, and
\* that was answered 401: no other answer of any Server Action ends the session.
EndsSession(t) ==
  /\ call[t] # NoCall /\ call'[t] = NoCall
  /\ \/ call[t].action = "logout"
     \/ call[t].action = "create" /\ call[t].status = "401" /\ call[t].token \in 1..(cookie - 1)
LiveSessionKept ==
  [][ cookie > expired /\ cookie' = NoToken => \E t \in Tabs : EndsSession(t) ]_vars

\* A tab never shows an older state of the table than before, whether its list was
\* kept or loaded again, however far behind the replica is.
MonotonicReads ==
  [][ \A t \in Tabs : list[t].status # "none" /\ list'[t].status # "none" =>
        list'[t].data >= list[t].data ]_vars

\* .env.example:55-57, "Browser-side code never sees this; it only ever navigates
\* same-origin pages or submits forms to Server Actions": no tab asks the API itself, so
\* no error of such a request takes the place of the tasks its page was rendered with.
ServerOnlyFetch ==
  \A t \in Tabs : page[t] = "tasks" /\ list[t].data > 0 => list[t].status = "success"

-----------------------------------------------------------------------------
(* The inductive invariant the proofs rest on.                             *)

\* What a pending Server Action knows: a 401 is for an expired token, a login that
\* succeeded has its token, and the answer to a create tells what it stored.
CallStands(t) ==
  /\ call[t].token <= signed
  /\ call[t].status = "401" => call[t].token \in 1..expired
  /\ call[t].action = "login" /\ call[t].status = "2xx" => call[t].token # NoToken
  /\ call[t].status = "accepted" => call[t].action = "create"
  /\ call[t].action = "create" =>
       /\ told[t] = "nothing"
       /\ call[t].status \in {"none", "accepted", "401", "noToken"} => rows[t] = 0
       /\ call[t].status = "2xx" => rows[t] = 1

\* The replica has every row a tab lists.
ListStands(t) == list[t].data <= replica

Inv == TypeOK /\ ToldTheTruth /\ \A t \in Tabs : CallStands(t) /\ ListStands(t)

=============================================================================
