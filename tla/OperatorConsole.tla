-------------------------- MODULE OperatorConsole --------------------------
(***************************************************************************)
(* The operator console (apps/operator-console/app.js): what its screen    *)
(* shows of the server.  A refresh sends a request for every list with the *)
(* token of that moment, waits for all the answers and puts them on the    *)
(* screen at once; the first request that fails ends the session instead.  *)
(* Refreshes begin on a timer, on every action and on a login, and nothing *)
(* makes one wait for another.                                             *)
(*                                                                         *)
(* What the server has is the number of its last change; two lists stand   *)
(* for the nineteen, whose answers are of different moments.               *)
(***************************************************************************)
EXTENDS Naturals

CONSTANTS
  Tokens,     \* tokens that may be entered
  Valid,      \* those the server knows
  Nothing,    \* no token, no session, no refresh, no answer
  Slots,      \* bound: refreshes under way at a time
  MaxChanges, \* bound: changes of the server's state
  MaxLogins,  \* bound: tokens ever entered
  MaxMoves,   \* bound: views ever chosen
  MaxFailures \* bound: requests that fail although the token is valid

Lists == {"executions", "audit"}

Changes == 0 .. MaxChanges

Refresh ==
  [token : Tokens, from : Changes, floor : Changes, answers : [Lists -> Changes \cup {Nothing}]]

ASSUME ConsoleAssumption ==
  /\ Valid \subseteq Tokens
  /\ Nothing \notin Tokens \cup Nat \cup Refresh
  /\ {MaxChanges, MaxLogins, MaxMoves, MaxFailures} \subseteq Nat

Polled == {"overview", "executions", "audit"}

Views == Polled \cup {"missions"}

VARIABLES
  now,       \* the server: its last change
  token,     \* the token entered last
  session,   \* whose session the screen shows
  shown,     \* what it shows of each list
  view,
  refreshes, \* the refreshes under way
  due,       \* actions that were answered and refresh next
  logins, moves, failures,
  promised,  \* history: no screen since shows less
  crossed    \* history: at the last login a refresh of an earlier one was under way

vars == <<now, token, session, shown, view, refreshes, due, logins, moves, failures, promised, crossed>>

UnderWay == {s \in Slots : refreshes[s] # Nothing}

(* A refresh that begins: its answers will be of this moment or later, and *)
(* it remembers the oldest refresh under way, which may be the last to be  *)
(* shown.  Which free slot it takes makes no difference.                   *)
Begin(t) ==
  /\ UnderWay # Slots
  /\ \E oldest \in {now} \cup {refreshes[s].from : s \in UnderWay} :
       /\ oldest <= now /\ \A s \in UnderWay : oldest <= refreshes[s].from
       /\ refreshes' = [refreshes EXCEPT ![CHOOSE s \in Slots \ UnderWay : TRUE] =
            [token |-> t, from |-> now, floor |-> oldest, answers |-> [l \in Lists |-> Nothing]]]

Init ==
  /\ now = 0
  /\ token \in Tokens \cup {Nothing}
  /\ session = Nothing
  /\ shown = [l \in Lists |-> 0]
  /\ view = "overview"
  /\ refreshes = [s \in Slots |-> Nothing]
  /\ due = IF token = Nothing THEN 0 ELSE 1
  /\ logins = 0 /\ moves = 0 /\ failures = 0
  /\ promised = 0
  /\ crossed = FALSE

(* The server changes without the console.                                 *)
Change ==
  /\ now < MaxChanges
  /\ now' = now + 1
  /\ UNCHANGED <<token, session, shown, view, refreshes, due, logins, moves, failures, promised, crossed>>

(* A button or a form: the request is answered, and then refresh begins.   *)
(* One that the server refuses, as of a screen that is out of date, leaves *)
(* everything as it is.                                                    *)
Act ==
  /\ session # Nothing /\ now < MaxChanges
  /\ now' = now + 1
  /\ due' = due + 1
  /\ UNCHANGED <<token, session, shown, view, refreshes, logins, moves, failures, promised, crossed>>

(* The refresh of an action or of the page's load.                         *)
RefreshDue ==
  /\ due > 0
  /\ due' = due - 1
  /\ Begin(token)
  /\ UNCHANGED <<now, token, session, shown, view, logins, moves, failures, promised, crossed>>

(* Mutant: the token of the requests is the one from before the login.     *)
LoginKeeping(t) ==
  /\ session = Nothing /\ logins < MaxLogins
  /\ token # Nothing
  /\ logins' = logins + 1
  /\ token' = t
  /\ crossed' = (UnderWay # {})
  /\ Begin(token)
  /\ UNCHANGED <<now, session, shown, view, due, moves, failures, promised>>

(* The login form, which shows only without a session.                     *)
Login(t) ==
  /\ session = Nothing /\ logins < MaxLogins
  /\ logins' = logins + 1
  /\ token' = t
  /\ crossed' = (UnderWay # {})
  /\ Begin(t)
  /\ UNCHANGED <<now, session, shown, view, due, moves, failures, promised>>

ShowView(v) ==
  /\ session # Nothing /\ v # view /\ moves < MaxMoves
  /\ moves' = moves + 1
  /\ view' = v
  /\ UNCHANGED <<now, token, session, shown, refreshes, due, logins, failures, promised, crossed>>

(* Mutant: the timer looks for one view only.                              *)
PollOverview ==
  /\ session # Nothing /\ view = "overview"
  /\ Begin(token)
  /\ UNCHANGED <<now, token, session, shown, view, due, logins, moves, failures, promised, crossed>>

(* setInterval.                                                            *)
Poll ==
  /\ session # Nothing /\ view \in Polled
  /\ Begin(token)
  /\ UNCHANGED <<now, token, session, shown, view, due, logins, moves, failures, promised, crossed>>

(* The refresh button, in any view.                                        *)
Click ==
  /\ token # Nothing
  /\ Begin(token)
  /\ UNCHANGED <<now, token, session, shown, view, due, logins, moves, failures, promised, crossed>>

(* Mutant: an answer comes from a cache.                                   *)
AnswerCached(s, l) ==
  /\ s \in UnderWay /\ refreshes[s].token \in Valid
  /\ refreshes[s].answers[l] = Nothing
  /\ refreshes' = [refreshes EXCEPT ![s].answers[l] = shown[l]]
  /\ UNCHANGED <<now, token, session, shown, view, due, logins, moves, failures, promised, crossed>>

(* The server answers one request with what it has then.                   *)
Answer(s, l) ==
  /\ s \in UnderWay /\ refreshes[s].token \in Valid
  /\ refreshes[s].answers[l] = Nothing
  /\ refreshes' = [refreshes EXCEPT ![s].answers[l] = now]
  /\ UNCHANGED <<now, token, session, shown, view, due, logins, moves, failures, promised, crossed>>

(* Promise.all has every answer, the session among them.                   *)
Arrive(s) ==
  /\ s \in UnderWay
  /\ \A l \in Lists : refreshes[s].answers[l] # Nothing
  /\ shown' = refreshes[s].answers
  /\ session' = refreshes[s].token
  /\ promised' = IF promised < refreshes[s].floor THEN refreshes[s].floor ELSE promised
  /\ refreshes' = [refreshes EXCEPT ![s] = Nothing]
  /\ UNCHANGED <<now, token, view, due, logins, moves, failures, crossed>>

(* A request fails: the token is not valid, or the server is not there.    *)
Fail(s) ==
  /\ s \in UnderWay
  /\ IF refreshes[s].token \in Valid
     THEN failures < MaxFailures /\ failures' = failures + 1
     ELSE UNCHANGED failures
  /\ session' = Nothing
  /\ refreshes' = [refreshes EXCEPT ![s] = Nothing]
  /\ UNCHANGED <<now, token, shown, view, due, logins, moves, promised, crossed>>

Next ==
  \/ Change
  \/ Act
  \/ RefreshDue
  \/ \E t \in Tokens : Login(t)
  \/ \E v \in Views : ShowView(v)
  \/ Poll
  \/ Click
  \/ \E s \in Slots :
       \/ \E l \in Lists : Answer(s, l)
       \/ Arrive(s)
       \/ Fail(s)

(* The timer goes on; a request is answered or fails in the end.           *)
Spec ==
  /\ Init /\ [][Next]_vars
  /\ WF_vars(Poll)
  /\ \A s \in Slots :
       /\ \A l \in Lists : WF_vars(Answer(s, l))
       /\ WF_vars(Arrive(s))
       /\ WF_vars(Fail(s) /\ refreshes[s].token \notin Valid)

-----------------------------------------------------------------------------
TypeOK ==
  /\ now \in Changes /\ promised \in Changes
  /\ {token, session} \subseteq Tokens \cup {Nothing}
  /\ shown \in [Lists -> Changes]
  /\ view \in Views
  /\ refreshes \in [Slots -> Refresh \cup {Nothing}]
  /\ due \in 0 .. MaxChanges + 1
  /\ logins \in 0 .. MaxLogins
  /\ moves \in 0 .. MaxMoves
  /\ failures \in 0 .. MaxFailures
  /\ crossed \in BOOLEAN

(* A refresh that began before another and ends after it puts older lists  *)
(* on the screen; but once a refresh has ended, no screen is older than    *)
(* the beginning of the oldest refresh that was under way when it began,   *)
(* so that an action, once shown, is hidden again only by a refresh that   *)
(* was already under way (refresh).                                        *)
ScreenRegular == \A l \in Lists : promised <= shown[l]

(* The session and its role are of the token that the next request will    *)
(* carry, unless a refresh from before the login was still under way.      *)
SessionOfToken == session # Nothing /\ ~crossed => session = token

(* When nothing changes any more, a console in a view that is polled shows *)
(* what the server has, and the session of its token.                      *)
CatchesUp ==
  <>[](session # Nothing /\ view \in Polled =>
         session = token /\ \A l \in Lists : shown[l] = now)
=============================================================================
