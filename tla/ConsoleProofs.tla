--------------------------- MODULE ConsoleProofs ---------------------------
(* Theorems about OperatorConsole, for every set of tokens and slots and   *)
(* all bounds.                                                             *)
EXTENDS OperatorConsole, TLAPS

-----------------------------------------------------------------------------
(* Whoever waits for an answer has a token to wait with, and every change  *)
(* of this console is refreshed after at most once.                        *)
Entered ==
  /\ due > 0 \/ session # Nothing \/ UnderWay # {} => token # Nothing
  /\ due <= now + 1

TypeInv == TypeOK /\ Entered

(* A refresh that begins is well-formed and takes a slot that was free.    *)
LEMMA BeginFacts ==
  ASSUME TypeInv, NEW t \in Tokens, Begin(t)
  PROVE  \E new \in Slots \ UnderWay, oldest \in Changes :
           /\ oldest <= now /\ \A s \in UnderWay : oldest <= refreshes[s].from
           /\ refreshes' = [refreshes EXCEPT ![new] =
                [token |-> t, from |-> now, floor |-> oldest, answers |-> [l \in Lists |-> Nothing]]]
           /\ refreshes' \in [Slots -> Refresh \cup {Nothing}]
<1>1. PICK oldest \in {now} \cup {refreshes[s].from : s \in UnderWay} :
        /\ oldest <= now /\ \A s \in UnderWay : oldest <= refreshes[s].from
        /\ refreshes' = [refreshes EXCEPT ![CHOOSE s \in Slots \ UnderWay : TRUE] =
             [token |-> t, from |-> now, floor |-> oldest, answers |-> [l \in Lists |-> Nothing]]]
  BY DEF Begin
<1> DEFINE new == CHOOSE s \in Slots \ UnderWay : TRUE
<1>2. new \in Slots \ UnderWay
  BY DEF Begin, UnderWay
<1>3. oldest \in Changes
  BY <1>1 DEF TypeInv, TypeOK, UnderWay, Refresh
<1>4. [token |-> t, from |-> now, floor |-> oldest, answers |-> [l \in Lists |-> Nothing]] \in Refresh
  BY <1>3 DEF TypeInv, TypeOK, Refresh
<1>5. refreshes' \in [Slots -> Refresh \cup {Nothing}]
  BY <1>1, <1>2, <1>4 DEF TypeInv, TypeOK
<1> QED BY <1>1, <1>2, <1>3, <1>5

LEMMA TypeInit == Init => TypeInv
<1> SUFFICES ASSUME Init PROVE TypeInv
  OBVIOUS
<1>1. UnderWay = {} /\ due \in 0 .. 1 /\ (due > 0 => token # Nothing)
  BY DEF Init, UnderWay
<1>2. Entered
  BY <1>1 DEF Init, Entered
<1>3. {MaxChanges, MaxLogins, MaxMoves, MaxFailures} \subseteq Nat
  BY ConsoleAssumption
<1>4. 0 \in Changes /\ 0 .. 1 \subseteq 0 .. MaxChanges + 1
  BY <1>3 DEF Changes
<1>5. /\ now \in Changes /\ promised \in Changes
      /\ {token, session} \subseteq Tokens \cup {Nothing}
      /\ shown \in [Lists -> Changes]
      /\ refreshes \in [Slots -> Refresh \cup {Nothing}]
  BY <1>4 DEF Init
<1>6. view \in Views /\ crossed \in BOOLEAN
  BY DEF Init, Views, Polled
<1>7. due \in 0 .. MaxChanges + 1
  BY <1>1, <1>4
<1>8. logins \in 0 .. MaxLogins /\ moves \in 0 .. MaxMoves /\ failures \in 0 .. MaxFailures
  BY <1>3 DEF Init
<1> QED BY <1>2, <1>5, <1>6, <1>7, <1>8 DEF TypeInv, TypeOK

LEMMA TypeNext == TypeInv /\ [Next]_vars => TypeInv'
<1> SUFFICES ASSUME TypeInv, [Next]_vars PROVE TypeInv'
  OBVIOUS
<1> USE ConsoleAssumption DEF TypeInv, TypeOK, Entered, UnderWay, Changes
<1>1. CASE Change
  BY <1>1 DEF Change
<1>2. CASE Act
  BY <1>2 DEF Act
<1>3. CASE RefreshDue
  <2>1. token \in Tokens /\ Begin(token)
    BY <1>3 DEF RefreshDue
  <2> QED BY <1>3, <2>1, BeginFacts DEF RefreshDue
<1>4. ASSUME NEW t \in Tokens, Login(t) PROVE TypeInv'
  BY <1>4, BeginFacts DEF Login
<1>5. ASSUME NEW v \in Views, ShowView(v) PROVE TypeInv'
  BY <1>5 DEF ShowView
<1>6. CASE Poll
  <2>1. token \in Tokens /\ Begin(token)
    BY <1>6 DEF Poll
  <2> QED BY <1>6, <2>1, BeginFacts DEF Poll
<1>7. CASE Click
  <2>1. token \in Tokens /\ Begin(token)
    BY <1>7 DEF Click
  <2> QED BY <1>7, <2>1, BeginFacts DEF Click
<1>8. ASSUME NEW s \in Slots, NEW l \in Lists, Answer(s, l) PROVE TypeInv'
  <2>1. refreshes[s] \in Refresh
    BY <1>8 DEF Answer
  <2>2. [refreshes[s] EXCEPT !.answers[l] = now] \in Refresh
    BY <2>1 DEF Refresh
  <2>3. refreshes' = [refreshes EXCEPT ![s] = [refreshes[s] EXCEPT !.answers[l] = now]]
    BY <1>8, <2>1 DEF Answer, Refresh
  <2>4. refreshes' \in [Slots -> Refresh \cup {Nothing}]
    BY <2>2, <2>3
  <2> QED BY <1>8, <2>4 DEF Answer
<1>9. ASSUME NEW s \in Slots, Arrive(s) PROVE TypeInv'
  BY <1>9 DEF Arrive, Refresh
<1>10. ASSUME NEW s \in Slots, Fail(s) PROVE TypeInv'
  BY <1>10 DEF Fail
<1>11. CASE UNCHANGED vars
  BY <1>11 DEF vars
<1> QED BY <1>1, <1>2, <1>3, <1>4, <1>5, <1>6, <1>7, <1>8, <1>9, <1>10, <1>11 DEF Next

(* The types of the console's state hold in every reachable state.         *)
THEOREM TypeCorrect == Spec => []TypeOK
<1>1. TypeInv => TypeOK
  BY DEF TypeInv
<1> QED BY <1>1, TypeInit, TypeNext, PTL DEF Spec

-----------------------------------------------------------------------------
(* Every answer is of the refresh's beginning or later, what is promised   *)
(* is not later than any refresh under way, and no refresh under way began *)
(* before what another one will promise.                                   *)
ScreenInv ==
  /\ TypeInv
  /\ promised <= now
  /\ ScreenRegular
  /\ \A s \in UnderWay :
       /\ promised <= refreshes[s].from
       /\ refreshes[s].from <= now
       /\ \A l \in Lists : refreshes[s].answers[l] # Nothing => refreshes[s].from <= refreshes[s].answers[l]
  /\ \A r, s \in UnderWay : refreshes[r].floor <= refreshes[s].from

LEMMA ScreenInit == Init => ScreenInv
<1> SUFFICES ASSUME Init PROVE ScreenInv
  OBVIOUS
<1>1. UnderWay = {}
  BY DEF Init, UnderWay
<1> QED BY <1>1, TypeInit DEF Init, ScreenInv, ScreenRegular

(* A refresh that begins keeps it.                                         *)
LEMMA ScreenBegin ==
  ASSUME ScreenInv, NEW t \in Tokens, Begin(t), TypeInv', UNCHANGED <<now, promised, shown>>
  PROVE  ScreenInv'
<1>1. PICK new \in Slots \ UnderWay, oldest \in Changes :
        /\ oldest <= now /\ \A s \in UnderWay : oldest <= refreshes[s].from
        /\ refreshes' = [refreshes EXCEPT ![new] =
             [token |-> t, from |-> now, floor |-> oldest, answers |-> [l \in Lists |-> Nothing]]]
        /\ refreshes' \in [Slots -> Refresh \cup {Nothing}]
  BY BeginFacts DEF ScreenInv
<1>2. UnderWay' = UnderWay \cup {new}
  BY <1>1, ConsoleAssumption DEF UnderWay, ScreenInv, TypeInv, TypeOK, Refresh
<1>3. refreshes'[new] = [token |-> t, from |-> now, floor |-> oldest, answers |-> [l \in Lists |-> Nothing]]
  BY <1>1 DEF ScreenInv, TypeInv, TypeOK
<1>4. \A s \in UnderWay : refreshes'[s] = refreshes[s]
  BY <1>1 DEF ScreenInv, TypeInv, TypeOK
<1>5. \A s \in UnderWay' :
        /\ promised <= refreshes'[s].from
        /\ refreshes'[s].from <= now
        /\ \A l \in Lists : refreshes'[s].answers[l] # Nothing => refreshes'[s].from <= refreshes'[s].answers[l]
  BY <1>2, <1>3, <1>4 DEF ScreenInv, TypeInv, TypeOK, Changes
<1>6. \A s \in UnderWay : refreshes[s].floor <= now
  BY DEF ScreenInv, TypeInv, TypeOK, UnderWay, Refresh, Changes
<1>7. \A r, s \in UnderWay' : refreshes'[r].floor <= refreshes'[s].from
  BY <1>1, <1>2, <1>3, <1>4, <1>6 DEF ScreenInv
<1> QED BY <1>5, <1>7 DEF ScreenInv, ScreenRegular

LEMMA ScreenNext == ScreenInv /\ [Next]_vars => ScreenInv'
<1> SUFFICES ASSUME ScreenInv, [Next]_vars PROVE ScreenInv'
  OBVIOUS
<1> TypeInv /\ TypeInv'
  BY TypeNext DEF ScreenInv
<1>1. CASE Change
  BY <1>1 DEF Change, ScreenInv, ScreenRegular, UnderWay, TypeInv, TypeOK, Refresh, Changes
<1>2. CASE Act
  BY <1>2 DEF Act, ScreenInv, ScreenRegular, UnderWay, TypeInv, TypeOK, Refresh, Changes
<1>3. CASE RefreshDue
  BY <1>3, ScreenBegin DEF RefreshDue, TypeInv, TypeOK, Entered
<1>4. ASSUME NEW t \in Tokens, Login(t) PROVE ScreenInv'
  BY <1>4, ScreenBegin DEF Login
<1>5. ASSUME NEW v \in Views, ShowView(v) PROVE ScreenInv'
  BY <1>5 DEF ShowView, ScreenInv, ScreenRegular, UnderWay
<1>6. CASE Poll
  BY <1>6, ScreenBegin DEF Poll, TypeInv, TypeOK, Entered
<1>7. CASE Click
  BY <1>7, ScreenBegin DEF Click, TypeInv, TypeOK
<1>8. ASSUME NEW s \in Slots, NEW k \in Lists, Answer(s, k) PROVE ScreenInv'
  <2>1. refreshes[s] \in Refresh /\ now \in Nat
    BY <1>8 DEF Answer, UnderWay, TypeInv, TypeOK, Changes
  <2>2. /\ refreshes'[s] = [refreshes[s] EXCEPT !.answers[k] = now]
        /\ \A r \in Slots \ {s} : refreshes'[r] = refreshes[r]
    BY <1>8 DEF Answer, TypeInv, TypeOK
  <2>3. refreshes'[s] \in Refresh
    BY <2>1, <2>2 DEF Refresh, TypeInv, TypeOK
  <2>4. UnderWay' = UnderWay
    BY <1>8, <2>2, <2>3, ConsoleAssumption DEF Answer, UnderWay
  <2>5. /\ refreshes'[s].from = refreshes[s].from /\ refreshes'[s].floor = refreshes[s].floor
        /\ \A l \in Lists : refreshes'[s].answers[l] = IF l = k THEN now ELSE refreshes[s].answers[l]
    BY <2>1, <2>2 DEF Refresh
  <2> QED BY <1>8, <2>1, <2>2, <2>4, <2>5 DEF Answer, ScreenInv, ScreenRegular
<1>9. ASSUME NEW s \in Slots, Arrive(s) PROVE ScreenInv'
  <2>1. refreshes[s] \in Refresh /\ s \in UnderWay
    BY <1>9 DEF Arrive, UnderWay, TypeInv, TypeOK
  <2>2. UnderWay' = UnderWay \ {s} /\ \A r \in UnderWay' : refreshes'[r] = refreshes[r]
    BY <1>9 DEF Arrive, UnderWay, TypeInv, TypeOK
  <2>3. promised' <= refreshes[s].from /\ promised' <= now
    BY <1>9, <2>1 DEF Arrive, ScreenInv, TypeInv, TypeOK, Changes, Refresh
  <2>4. ScreenRegular'
    BY <1>9, <2>1, <2>3 DEF Arrive, ScreenInv, ScreenRegular, Refresh, Changes, TypeInv, TypeOK
  <2>5. \A r \in UnderWay' : promised' <= refreshes[r].from
    BY <1>9, <2>1, <2>2 DEF Arrive, ScreenInv
  <2> QED BY <1>9, <2>2, <2>3, <2>4, <2>5 DEF Arrive, ScreenInv
<1>10. ASSUME NEW s \in Slots, Fail(s) PROVE ScreenInv'
  <2>1. UnderWay' = UnderWay \ {s} /\ \A r \in UnderWay' : refreshes'[r] = refreshes[r]
    BY <1>10 DEF Fail, UnderWay, TypeInv, TypeOK
  <2> QED BY <1>10, <2>1 DEF Fail, ScreenInv, ScreenRegular
<1>11. CASE UNCHANGED vars
  BY <1>11 DEF vars, ScreenInv, ScreenRegular, UnderWay
<1> QED BY <1>1, <1>2, <1>3, <1>4, <1>5, <1>6, <1>7, <1>8, <1>9, <1>10, <1>11 DEF Next

(* Whatever the order of the answers, the screen goes back only as far as  *)
(* the oldest refresh that ran beside the one it showed.                   *)
THEOREM ScreenHolds == Spec => []ScreenRegular
<1>1. ScreenInv => ScreenRegular
  BY DEF ScreenInv
<1> QED BY <1>1, ScreenInit, ScreenNext, PTL DEF Spec

-----------------------------------------------------------------------------
(* Unless a login crossed an earlier refresh, every refresh under way is   *)
(* of the token entered last.                                              *)
SessionInv ==
  /\ TypeInv
  /\ SessionOfToken
  /\ ~crossed => \A s \in UnderWay : refreshes[s].token = token

LEMMA SessionInit == Init => SessionInv
<1> SUFFICES ASSUME Init PROVE SessionInv
  OBVIOUS
<1>1. UnderWay = {}
  BY DEF Init, UnderWay
<1> QED BY <1>1, TypeInit DEF Init, SessionInv, SessionOfToken

LEMMA SessionBegin ==
  ASSUME TypeInv, NEW t \in Tokens, Begin(t)
  PROVE  \A s \in UnderWay' : refreshes'[s].token = t \/ (s \in UnderWay /\ refreshes'[s] = refreshes[s])
<1>1. PICK new \in Slots \ UnderWay, oldest \in Changes :
        refreshes' = [refreshes EXCEPT ![new] =
          [token |-> t, from |-> now, floor |-> oldest, answers |-> [l \in Lists |-> Nothing]]]
  BY BeginFacts
<1> QED BY <1>1 DEF UnderWay, TypeInv, TypeOK

LEMMA SessionNext == SessionInv /\ [Next]_vars => SessionInv'
<1> SUFFICES ASSUME SessionInv, [Next]_vars PROVE SessionInv'
  OBVIOUS
<1> TypeInv /\ TypeInv'
  BY TypeNext DEF SessionInv
<1> USE DEF SessionOfToken
<1>1. CASE Change
  BY <1>1 DEF Change, SessionInv, UnderWay
<1>2. CASE Act
  BY <1>2 DEF Act, SessionInv, UnderWay
<1>3. CASE RefreshDue
  BY <1>3, SessionBegin DEF RefreshDue, SessionInv, TypeInv, TypeOK, Entered
<1>4. ASSUME NEW t \in Tokens, Login(t) PROVE SessionInv'
  BY <1>4, SessionBegin DEF Login, SessionInv
<1>5. ASSUME NEW v \in Views, ShowView(v) PROVE SessionInv'
  BY <1>5 DEF ShowView, SessionInv, UnderWay
<1>6. CASE Poll
  BY <1>6, SessionBegin DEF Poll, SessionInv, TypeInv, TypeOK, Entered
<1>7. CASE Click
  BY <1>7, SessionBegin DEF Click, SessionInv, TypeInv, TypeOK
<1>8. ASSUME NEW s \in Slots, NEW k \in Lists, Answer(s, k) PROVE SessionInv'
  <2>1. refreshes[s] \in Refresh
    BY <1>8 DEF Answer, UnderWay, TypeInv, TypeOK
  <2>2. \A r \in UnderWay' : r \in UnderWay /\ refreshes'[r].token = refreshes[r].token
    BY <1>8, <2>1 DEF Answer, UnderWay, TypeInv, TypeOK, Refresh
  <2> QED BY <1>8, <2>2 DEF Answer, SessionInv
<1>9. ASSUME NEW s \in Slots, Arrive(s) PROVE SessionInv'
  BY <1>9 DEF Arrive, SessionInv, UnderWay, TypeInv, TypeOK
<1>10. ASSUME NEW s \in Slots, Fail(s) PROVE SessionInv'
  BY <1>10 DEF Fail, SessionInv, UnderWay, TypeInv, TypeOK
<1>11. CASE UNCHANGED vars
  BY <1>11 DEF vars, SessionInv, UnderWay
<1> QED BY <1>1, <1>2, <1>3, <1>4, <1>5, <1>6, <1>7, <1>8, <1>9, <1>10, <1>11 DEF Next

(* The screen shows the session of the token that requests carry, unless a *)
(* login crossed a refresh.                                                *)
THEOREM SessionHolds == Spec => []SessionOfToken
<1>1. SessionInv => SessionOfToken
  BY DEF SessionInv
<1> QED BY <1>1, SessionInit, SessionNext, PTL DEF Spec
=============================================================================
