---------------------------- MODULE RuntimeProofs ----------------------------
(***************************************************************************)
(* RuntimeProcess for every number of calls and every output limit: its    *)
(* types, what a successful run is, and that no child lives without the    *)
(* timer that will kill it.                                                *)
(***************************************************************************)
EXTENDS RuntimeProcess, TLAPS

(* Settling a promise touches that promise alone, and only if it pends.    *)
LEMMA SettleAsValue ==
  ASSUME TypeOK, NEW c \in Calls, NEW outcome, SettleAs(c, outcome)
  PROVE  /\ promise' = [promise EXCEPT ![c] = promise'[c]]
         /\ Pending(c) => promise'[c] = outcome
         /\ ~Pending(c) => promise'[c] = promise[c]
  BY DEF SettleAs, TypeOK

-----------------------------------------------------------------------------
LEMMA TypeInit == Init => TypeOK
  BY OutputLimitAssumption DEF Init, TypeOK, Errors

LEMMA TypeStep == TypeOK /\ [Next]_vars => TypeOK'
  <1> SUFFICES ASSUME TypeOK, [Next]_vars PROVE TypeOK' OBVIOUS
  <1> USE OutputLimitAssumption
  <1>1. ASSUME NEW c \in Calls, Refuse(c) \/ Spawn(c) \/ SpawnFails(c) PROVE TypeOK'
    BY <1>1 DEF Refuse, Spawn, SpawnFails, TypeOK, Errors
  <1>2. ASSUME NEW c \in Calls, Output(c) PROVE TypeOK'
    <2>1. bytes' \in [Calls -> 0 .. OutputLimit + 1]
      BY <1>2 DEF Output, TypeOK
    <2>2. promise' \in [Calls -> Errors \cup {"none", "pending", "resolved"}]
      BY <1>2, SettleAsValue DEF Output, TypeOK, Errors
    <2>3. QED BY <1>2, <2>1, <2>2 DEF Output, TypeOK
  <1>3. ASSUME NEW c \in Calls, Fork(c) \/ Release(c) PROVE TypeOK'
    BY <1>3 DEF Fork, Release, TypeOK
  <1>4. ASSUME NEW c \in Calls, NEW how \in {"zero", "other"}, Exit(c, how) PROVE TypeOK'
    BY <1>4 DEF Exit, TypeOK
  <1>5. ASSUME NEW c \in Calls, Die(c) \/ TimeOut(c) \/ Kill(c) PROVE TypeOK'
    BY <1>5 DEF Die, TimeOut, Kill, TypeOK
  <1>6. ASSUME NEW c \in Calls, Close(c) PROVE TypeOK'
    <2>1. promise' \in [Calls -> Errors \cup {"none", "pending", "resolved"}]
      BY <1>6, SettleAsValue DEF Close, TypeOK, Errors
    <2>2. QED BY <1>6, <2>1 DEF Close, TypeOK
  <1>7. CASE UNCHANGED vars BY <1>7 DEF TypeOK, vars
  <1>8. QED BY <1>1, <1>2, <1>3, <1>4, <1>5, <1>6, <1>7 DEF Next, CallStep

(* Every variable keeps its type; the output counter stops one chunk above *)
(* its limit (runProcess).                                                 *)
THEOREM TypeCorrect == Spec => []TypeOK
  BY TypeInit, TypeStep, PTL DEF Spec

-----------------------------------------------------------------------------
(* Only a start brings a child to life, and it arms the timer; the timer   *)
(* is cleared by the close of a child that has exited, and runs out with   *)
(* the signal that dooms a living one (runProcess).                        *)
THEOREM LivingTimed == Spec => []LivingIsTimed
  <1>1. Init => LivingIsTimed
    BY DEF Init, LivingIsTimed
  <1>2. TypeOK /\ LivingIsTimed /\ [Next]_vars => LivingIsTimed'
    <2> SUFFICES ASSUME TypeOK, LivingIsTimed, [Next]_vars, NEW c \in Calls,
                        child'[c] = "alive"
                 PROVE  timer'[c] \in {"armed", "killing"}
      BY DEF LivingIsTimed
    <2>1. ASSUME NEW d \in Calls, Refuse(d) \/ Spawn(d) \/ SpawnFails(d)
          PROVE  timer'[c] \in {"armed", "killing"}
      BY <2>1 DEF Refuse, Spawn, SpawnFails, TypeOK, LivingIsTimed
    <2>2. ASSUME NEW d \in Calls, Output(d) \/ Fork(d) \/ Release(d)
          PROVE  timer'[c] \in {"armed", "killing"}
      BY <2>2 DEF Output, Fork, Release, LivingIsTimed
    <2>3. ASSUME NEW d \in Calls, NEW how \in {"zero", "other"}, Exit(d, how)
          PROVE  timer'[c] \in {"armed", "killing"}
      BY <2>3 DEF Exit, TypeOK, LivingIsTimed
    <2>4. ASSUME NEW d \in Calls, Die(d) \/ Close(d)
          PROVE  timer'[c] \in {"armed", "killing"}
      BY <2>4 DEF Die, Close, TypeOK, LivingIsTimed
    <2>5. ASSUME NEW d \in Calls, TimeOut(d) \/ Kill(d)
          PROVE  timer'[c] \in {"armed", "killing"}
      BY <2>5 DEF TimeOut, Kill, TypeOK, LivingIsTimed
    <2>6. CASE UNCHANGED vars BY <2>6 DEF vars, LivingIsTimed
    <2>7. QED BY <2>1, <2>2, <2>3, <2>4, <2>5, <2>6 DEF Next, CallStep
  <1>3. QED BY <1>1, <1>2, TypeCorrect, PTL DEF Spec

-----------------------------------------------------------------------------
(* A call not made yet has no child and no output.                         *)
Fresh(c) == promise[c] = "none" => child[c] = "none" /\ bytes[c] = 0

(* A promise still open has seen no more output than is kept.              *)
WithinLimit(c) == Pending(c) => bytes[c] <= OutputLimit

(* A success is final: nothing runs any more that could change it.         *)
Whole(c) == promise[c] = "resolved" =>
  /\ child[c] = "closed" /\ code[c] = "zero"
  /\ bytes[c] <= OutputLimit
  /\ timer[c] = "off"

(* A child that has exited left a code.                                    *)
Coded(c) == child[c] = "exited" => code[c] # "none"

CallInv(c) == Fresh(c) /\ WithinLimit(c) /\ Coded(c) /\ Whole(c)

SuccessInv == \A c \in Calls : CallInv(c)

(* A step of one call leaves the others as they are.                       *)
LEMMA OtherCalls ==
  ASSUME TypeOK, NEW d \in Calls, CallStep(d), NEW c \in Calls, c # d
  PROVE  /\ child'[c] = child[c] /\ code'[c] = code[c]
         /\ bytes'[c] = bytes[c] /\ timer'[c] = timer[c]
         /\ promise'[c] = promise[c]
  <1>1. CASE Refuse(d) \/ Spawn(d) \/ SpawnFails(d)
    BY <1>1 DEF Refuse, Spawn, SpawnFails, TypeOK
  <1>2. CASE Output(d) BY <1>2, SettleAsValue DEF Output, TypeOK
  <1>3. CASE Fork(d) \/ Release(d) BY <1>3 DEF Fork, Release, TypeOK
  <1>4. ASSUME NEW how \in {"zero", "other"}, Exit(d, how)
        PROVE  /\ child'[c] = child[c] /\ code'[c] = code[c]
               /\ bytes'[c] = bytes[c] /\ timer'[c] = timer[c]
               /\ promise'[c] = promise[c]
    BY <1>4 DEF Exit, TypeOK
  <1>5. CASE Close(d) BY <1>5, SettleAsValue DEF Close, TypeOK
  <1>6. CASE Die(d) \/ TimeOut(d) \/ Kill(d) BY <1>6 DEF Die, TimeOut, Kill, TypeOK
  <1>7. QED BY <1>1, <1>2, <1>3, <1>4, <1>5, <1>6 DEF CallStep

LEMMA CallInvStep ==
  ASSUME TypeOK, NEW c \in Calls, CallInv(c), CallStep(c)
  PROVE  CallInv(c)'
  <1> USE OutputLimitAssumption DEF CallInv, Fresh, WithinLimit, Coded, Whole, Pending
  <1>1. CASE Refuse(c) BY <1>1 DEF Refuse, NextCall, TypeOK
  <1>2. CASE Spawn(c) BY <1>2 DEF Spawn, NextCall, TypeOK
  <1>3. CASE SpawnFails(c) BY <1>3 DEF SpawnFails, NextCall, TypeOK
  (* Past the limit the promise is settled with the same chunk.            *)
  <1>4. CASE Output(c)
    <2>1. child[c] # "closed" /\ child[c] # "none" /\ bytes'[c] = bytes[c] + 1
      BY <1>4 DEF Output, TypeOK
    <2>2. promise[c] # "none" /\ promise[c] # "resolved" BY <2>1
    <2>3. promise'[c] # "none" /\ promise'[c] # "resolved"
      BY <1>4, <2>2, SettleAsValue DEF Output
    <2>4. Pending(c)' => bytes'[c] <= OutputLimit
      BY <1>4, <2>1, SettleAsValue DEF Output, TypeOK
    <2>5. child'[c] = child[c] /\ code'[c] = code[c] BY <1>4 DEF Output
    <2>6. QED BY <2>3, <2>4, <2>5
  <1>5. CASE Fork(c) \/ Release(c) BY <1>5 DEF Fork, Release, TypeOK
  <1>6. ASSUME NEW how \in {"zero", "other"}, Exit(c, how) PROVE CallInv(c)'
    BY <1>6 DEF Exit, TypeOK
  <1>7. CASE Die(c) BY <1>7 DEF Die, TypeOK
  (* A success is announced when the timer has not fired, and clears it.   *)
  <1>8. CASE Close(c)
    <2>1. /\ child[c] = "exited" /\ child'[c] = "closed"
          /\ code'[c] = code[c] /\ bytes'[c] = bytes[c]
          /\ timer'[c] = IF timer[c] = "armed" THEN "off" ELSE timer[c]
      BY <1>8 DEF Close, TypeOK
    <2>2. promise[c] # "none" /\ promise[c] # "resolved" BY <2>1
    <2>3. /\ ~Pending(c) => promise'[c] = promise[c]
          /\ Pending(c) => promise'[c] = IF TimedOut(c) THEN "RUNTIME_TIMEOUT"
                                         ELSE IF code[c] = "other" THEN "RUNTIME_FAILED"
                                         ELSE "resolved"
      BY <1>8, SettleAsValue DEF Close
    <2>4. CASE promise'[c] = "resolved"
      <3>1. Pending(c) /\ ~TimedOut(c) /\ code[c] # "other"
        BY <2>2, <2>3, <2>4
      <3>2. timer'[c] = "off" BY <2>1, <3>1 DEF TimedOut, TypeOK
      <3>3. code[c] = "zero" BY <2>1, <3>1 DEF TypeOK
      <3>4. QED BY <2>1, <2>4, <3>1, <3>2, <3>3
    <2>5. CASE promise'[c] # "resolved" BY <2>1, <2>2, <2>3, <2>5
    <2>6. QED BY <2>4, <2>5
  <1>9. CASE TimeOut(c) BY <1>9 DEF TimeOut, TypeOK
  <1>10. CASE Kill(c) BY <1>10 DEF Kill, TypeOK
  <1>11. QED
    BY <1>1, <1>2, <1>3, <1>4, <1>5, <1>6, <1>7, <1>8, <1>9, <1>10 DEF CallStep

(* A run is reported as a success only when the child exited with code 0,  *)
(* in time, with all of its output kept; no later event changes any of     *)
(* this (runProcess: collect, the timer and close race for one promise).   *)
THEOREM SuccessHolds == Spec => []SuccessIsWhole
  <1>1. Init => SuccessInv
    BY OutputLimitAssumption
       DEF Init, SuccessInv, CallInv, Fresh, WithinLimit, Coded, Whole, Pending
  <1>2. TypeOK /\ SuccessInv /\ [Next]_vars => SuccessInv'
    <2> SUFFICES ASSUME TypeOK, SuccessInv, [Next]_vars, NEW c \in Calls
                 PROVE  CallInv(c)'
      BY DEF SuccessInv
    <2>1. CASE UNCHANGED vars
      BY <2>1 DEF vars, SuccessInv, CallInv, Fresh, WithinLimit, Coded, Whole, Pending
    <2>2. ASSUME NEW d \in Calls, CallStep(d), d # c PROVE CallInv(c)'
      BY <2>2, OtherCalls DEF SuccessInv, CallInv, Fresh, WithinLimit, Coded, Whole, Pending
    <2>3. CASE CallStep(c) BY <2>3, CallInvStep DEF SuccessInv
    <2>4. QED BY <2>1, <2>2, <2>3 DEF Next
  <1>3. SuccessInv => SuccessIsWhole
    BY DEF SuccessInv, CallInv, Whole, SuccessIsWhole, TimedOut
  <1>4. QED BY <1>1, <1>2, <1>3, TypeCorrect, PTL DEF Spec
=============================================================================
