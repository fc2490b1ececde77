-------------------------- MODULE DispatcherProofs --------------------------
(***************************************************************************)
(* Dispatcher for every number of executions, every limit and every number *)
(* of crashes and failed writes: its types, at most one start per          *)
(* execution, and the implementation of the ledger.                        *)
(***************************************************************************)
EXTENDS Dispatcher, TLAPS, FiniteSetTheorems

(* Where TRANSITIONS can lead, and from where it leads to running.         *)
LEMMA TransitionTypes ==
  /\ \A s \in Statuses \cup {"absent"} : Transitions[s] \subseteq Statuses
  /\ \A s \in Statuses \cup {"absent"} :
       /\ "proposed" \notin Transitions[s]
       /\ "approved" \in Transitions[s] => s = "proposed"
       /\ "running" \in Transitions[s] => s = "approved"
  BY DEF Transitions, Statuses

(* A listing lists members of what it lists.                               *)
LEMMA NewestSubset == \A es, limit : Newest(es, limit) \subseteq es
  BY DEF Newest

(* The image holds each execution under its status or not at all.          *)
LEMMA ImageType ==
  ASSUME NEW st \in [Executions -> Statuses \cup {"absent"}]
  PROVE  /\ Image(st) \in [Executions -> Statuses \cup {"absent"}]
         /\ \A e \in Executions : Image(st)[e] \in {st[e], "absent"}
  BY DEF Image

-----------------------------------------------------------------------------
(* Every variable keeps its type, through every crash and recovery.        *)
LEMMA TypeInit == Init => TypeOK
  BY MaxExecutionsAssumption, MaxCrashesAssumption, MaxFailuresAssumption
     DEF Init, TypeOK, Executions, None

LEMMA SetStatusType ==
  ASSUME TypeOK, NEW e, NEW to \in Statuses, NEW ok \in BOOLEAN, SetStatus(e, to, ok)
  PROVE  /\ status' \in [Executions -> Statuses \cup {"absent"}]
         /\ stored' \in [Executions -> Statuses \cup {"absent"}]
         /\ failures' \in 0 .. MaxFailures
  <1>1. status' \in [Executions -> Statuses \cup {"absent"}]
    BY DEF TypeOK, SetStatus
  <1>2. stored' \in [Executions -> Statuses \cup {"absent"}]
    BY <1>1, ImageType DEF SetStatus, TypeOK
  <1>3. failures' \in 0 .. MaxFailures
    BY MaxFailuresAssumption DEF SetStatus, TypeOK
  <1>4. QED BY <1>1, <1>2, <1>3

LEMMA MoveType ==
  ASSUME TypeOK, NEW e \in Executions, NEW to, NEW ok \in BOOLEAN, Move(e, to, ok)
  PROVE  /\ to \in Statuses
         /\ status' \in [Executions -> Statuses \cup {"absent"}]
         /\ stored' \in [Executions -> Statuses \cup {"absent"}]
         /\ failures' \in 0 .. MaxFailures
  <1>1. to \in Statuses BY TransitionTypes DEF TypeOK, Move
  <1>2. QED BY <1>1, SetStatusType DEF Move

LEMMA TypeStep == TypeOK /\ [Next]_vars => TypeOK'
  <1> SUFFICES ASSUME TypeOK, [Next]_vars PROVE TypeOK' OBVIOUS
  <1>1. ASSUME NEW ok \in BOOLEAN, Propose(ok) PROVE TypeOK'
    <2>1. /\ status' \in [Executions -> Statuses \cup {"absent"}]
          /\ stored' \in [Executions -> Statuses \cup {"absent"}]
          /\ failures' \in 0 .. MaxFailures
      BY <1>1, SetStatusType DEF Propose, Statuses
    <2>2. created' \in 0 .. MaxExecutions
      BY <1>1, MaxExecutionsAssumption DEF Propose, TypeOK
    <2>3. QED BY <1>1, <2>1, <2>2 DEF Propose, TypeOK
  <1>2. ASSUME NEW ok \in BOOLEAN, NEW e \in Executions, NEW to \in Statuses,
               OperatorMove(e, to, ok)
        PROVE  TypeOK'
    BY <1>2, MoveType DEF OperatorMove, TypeOK
  <1>3. CASE Tick
    <2>1. batch' \subseteq Executions
      BY <1>3, NewestSubset DEF Tick, WithStatus
    <2>2. QED BY <1>3, <2>1 DEF Tick, TypeOK
  <1>4. ASSUME NEW e \in Executions, Claim(e) PROVE TypeOK'
    <2>1. runs' \in [Executions -> Nat] BY <1>4 DEF Claim, TypeOK
    <2>2. QED BY <1>4, <2>1, MoveType DEF Claim, TypeOK
  <1>5. ASSUME NEW e \in Executions, ClaimFails(e) \/ ClaimRefused(e) PROVE TypeOK'
    <2>1. CASE ClaimFails(e) BY <2>1, MoveType DEF ClaimFails, TypeOK
    <2>2. CASE ClaimRefused(e) BY <2>2 DEF ClaimRefused, TypeOK
    <2>3. QED BY <1>5, <2>1, <2>2
  <1>6. ASSUME NEW ok \in BOOLEAN, NEW outcome \in {"completed", "failed"}, Settle(outcome, ok)
        PROVE  TypeOK'
    <2>1. inflight \in Executions BY <1>6 DEF Settle, TypeOK
    <2>2. /\ status' \in [Executions -> Statuses \cup {"absent"}]
          /\ stored' \in [Executions -> Statuses \cup {"absent"}]
          /\ failures' \in 0 .. MaxFailures
      BY <1>6, <2>1, MoveType DEF Settle, TypeOK
    <2>3. batch' \subseteq Executions BY <1>6 DEF Settle, TypeOK
    <2>4. QED BY <1>6, <2>2, <2>3 DEF Settle, TypeOK
  <1>7. CASE Crash
    BY <1>7, MaxCrashesAssumption DEF Crash, TypeOK
  <1>8. ASSUME NEW e \in Executions, Recover(e) PROVE TypeOK'
    BY <1>8, MoveType DEF Recover, TypeOK
  <1>9. CASE StartTimer BY <1>9 DEF StartTimer, TypeOK
  <1>10. CASE UNCHANGED vars BY <1>10 DEF vars, TypeOK
  <1>11. QED BY <1>1, <1>2, <1>3, <1>4, <1>5, <1>6, <1>7, <1>8, <1>9, <1>10 DEF Next

(* The type invariant of Dispatcher.                                       *)
THEOREM TypeCorrect == Spec => []TypeOK
  BY TypeInit, TypeStep, PTL DEF Spec

-----------------------------------------------------------------------------
(* What makes a second start impossible: once started, an execution is     *)
(* neither approved nor on its way there, in memory and on disk, and an    *)
(* execution yet to be proposed has left no trace.                         *)
Claimable == {"proposed", "approved"}

StartedIsClaimed ==
  \A e \in Executions : runs[e] # 0 =>
    /\ runs[e] = 1
    /\ status[e] \notin Claimable
    /\ stored[e] \notin Claimable

FutureIsBlank ==
  \A e \in Executions : e > created =>
    status[e] = "absent" /\ stored[e] = "absent" /\ runs[e] = 0

StartInv == TypeOK /\ StartedIsClaimed /\ FutureIsBlank

(* Moving one execution keeps the invariant if a started one is not moved  *)
(* back and the moved one has been proposed.                               *)
LEMMA MovePreserves ==
  ASSUME StartInv, TypeOK', NEW e \in Executions, NEW to \in Statuses,
         NEW ok \in BOOLEAN, SetStatus(e, to, ok), e <= created',
         to \in Claimable => runs[e] = 0,
         created' >= created, UNCHANGED runs
  PROVE  StartedIsClaimed' /\ FutureIsBlank'
  <1>1. /\ status'[e] = to
        /\ \A f \in Executions : f # e => status'[f] = status[f]
    BY DEF SetStatus, StartInv, TypeOK
  <1>2. \A f \in Executions : stored'[f] \in {status'[f], stored[f], "absent"}
    BY ImageType DEF SetStatus, TypeOK
  <1>3. StartedIsClaimed'
    BY <1>1, <1>2 DEF StartInv, StartedIsClaimed, Claimable
  <1>4. FutureIsBlank'
    BY <1>1, <1>2 DEF StartInv, FutureIsBlank, TypeOK, Executions
  <1>5. QED BY <1>3, <1>4

LEMMA StartInit == Init => StartInv
  BY TypeInit DEF Init, StartInv, StartedIsClaimed, FutureIsBlank, Executions

LEMMA StartStep == StartInv /\ [Next]_vars => StartInv'
  <1> SUFFICES ASSUME StartInv, [Next]_vars PROVE StartInv' OBVIOUS
  <1>0. TypeOK /\ TypeOK' BY TypeStep DEF StartInv
  <1> SUFFICES StartedIsClaimed' /\ FutureIsBlank' BY <1>0 DEF StartInv
  <1> USE <1>0
  <1>1. ASSUME NEW ok \in BOOLEAN, Propose(ok)
        PROVE  StartedIsClaimed' /\ FutureIsBlank'
    <2>1. /\ created + 1 \in Executions
          /\ created' = created + 1
          /\ created' >= created /\ created + 1 <= created'
      BY <1>1, MaxExecutionsAssumption DEF Propose, TypeOK, Executions
    <2>2. runs[created + 1] = 0
      BY <2>1 DEF StartInv, FutureIsBlank, TypeOK
    <2>3. SetStatus(created + 1, "proposed", ok) /\ UNCHANGED runs
      BY <1>1 DEF Propose
    <2>4. QED BY <2>1, <2>2, <2>3, MovePreserves DEF Statuses
  (* A legal move leaves absent alone, and leads into Claimable only from  *)
  (* proposed, that is from Claimable.                                     *)
  <1>2. ASSUME NEW e \in Executions, NEW to, NEW ok \in BOOLEAN, Move(e, to, ok),
               UNCHANGED <<created, runs>>
        PROVE  StartedIsClaimed' /\ FutureIsBlank'
    <2>1. to \in Statuses BY <1>2, MoveType
    <2>2. status[e] # "absent" BY <1>2 DEF Move, Transitions
    <2>3. e <= created BY <2>2 DEF StartInv, FutureIsBlank, TypeOK, Executions
    <2>4. to \in Claimable => runs[e] = 0
      BY <1>2, TransitionTypes
         DEF Move, Claimable, StartInv, StartedIsClaimed, TypeOK
    <2>5. created' >= created /\ e <= created' BY <1>2, <2>3 DEF TypeOK, Executions
    <2>6. QED BY <1>2, <2>1, <2>4, <2>5, MovePreserves DEF Move
  <1>3. ASSUME NEW ok \in BOOLEAN, NEW e \in Executions, NEW to \in Statuses,
               OperatorMove(e, to, ok)
        PROVE  StartedIsClaimed' /\ FutureIsBlank'
    BY <1>2, <1>3 DEF OperatorMove
  <1>4. CASE Tick
    BY <1>4 DEF Tick, StartInv, StartedIsClaimed, FutureIsBlank
  <1>5. ASSUME NEW e \in Executions, Claim(e)
        PROVE  StartedIsClaimed' /\ FutureIsBlank'
    <2>1. SetStatus(e, "running", TRUE) BY <1>5 DEF Claim, Move
    <2>2. status[e] = "approved"
      BY <1>5, TransitionTypes DEF Claim, Move, TypeOK
    <2>3. runs[e] = 0 /\ e <= created
      BY <2>2 DEF StartInv, StartedIsClaimed, FutureIsBlank, Claimable, TypeOK, Executions
    <2>4. /\ status'[e] = "running"
          /\ \A f \in Executions : f # e => status'[f] = status[f]
      BY <2>1 DEF SetStatus, TypeOK
    <2>5. \A f \in Executions : stored'[f] \in {status'[f], "absent"}
      BY <2>1, ImageType DEF SetStatus, TypeOK
    <2>6. /\ runs'[e] = 1
          /\ \A f \in Executions : f # e => runs'[f] = runs[f]
          /\ created' = created
      BY <1>5, <2>3 DEF Claim, TypeOK
    <2>7. StartedIsClaimed'
      BY <2>4, <2>5, <2>6 DEF StartInv, StartedIsClaimed, Claimable
    <2>8. FutureIsBlank'
      BY <2>3, <2>4, <2>5, <2>6 DEF StartInv, FutureIsBlank, TypeOK, Executions
    <2>9. QED BY <2>7, <2>8
  <1>6. ASSUME NEW e \in Executions, ClaimFails(e) \/ ClaimRefused(e)
        PROVE  StartedIsClaimed' /\ FutureIsBlank'
    <2>1. CASE ClaimFails(e) BY <1>2, <2>1 DEF ClaimFails
    <2>2. CASE ClaimRefused(e)
      BY <2>2 DEF ClaimRefused, StartInv, StartedIsClaimed, FutureIsBlank
    <2>3. QED BY <1>6, <2>1, <2>2
  <1>7. ASSUME NEW ok \in BOOLEAN, NEW outcome \in {"completed", "failed"}, Settle(outcome, ok)
        PROVE  StartedIsClaimed' /\ FutureIsBlank'
    <2>1. CASE status[inflight] = "running"
      BY <1>2, <1>7, <2>1 DEF Settle, TypeOK
    <2>2. CASE status[inflight] # "running"
      BY <1>7, <2>2 DEF Settle, StartInv, StartedIsClaimed, FutureIsBlank
    <2>3. QED BY <2>1, <2>2
  <1>8. CASE Crash
    BY <1>8 DEF Crash, StartInv, StartedIsClaimed, FutureIsBlank
  <1>9. ASSUME NEW e \in Executions, Recover(e)
        PROVE  StartedIsClaimed' /\ FutureIsBlank'
    BY <1>2, <1>9 DEF Recover
  <1>10. CASE StartTimer
    BY <1>10 DEF StartTimer, StartInv, StartedIsClaimed, FutureIsBlank
  <1>11. CASE UNCHANGED vars
    BY <1>11 DEF vars, StartInv, StartedIsClaimed, FutureIsBlank
  <1>12. QED
    BY <1>1, <1>3, <1>4, <1>5, <1>6, <1>7, <1>8, <1>9, <1>10, <1>11 DEF Next

(* No execution is handed to a runtime twice, however often the process    *)
(* dies and whichever writes fail, and even if the snapshot forgets        *)
(* executions.                                                             *)
THEOREM StartedOnce == Spec => []StartedAtMostOnce
  <1>1. StartInv => StartedAtMostOnce
    BY DEF StartInv, StartedIsClaimed, StartedAtMostOnce, TypeOK
  <1>2. QED BY <1>1, StartInit, StartStep, PTL DEF Spec

-----------------------------------------------------------------------------
(* A snapshot that is written leaves in doubt what it has no room for.     *)
LEMMA ImageDoubt ==
  ASSUME NEW st \in [Executions -> Statuses \cup {"absent"}]
  PROVE  {e \in Executions : Image(st)[e] # st[e]} = Ledger!Displaced(st)
  <1> DEFINE known == {e \in Executions : st[e] # "absent"}
             newer(e) == {f \in known : f > e}
  <1>1. ASSUME NEW e \in Executions
        PROVE  /\ newer(e) = {f \in Executions : st[f] # "absent" /\ f > e}
               /\ Cardinality(newer(e)) \in Nat
    <2>1. IsFiniteSet(Executions)
      BY FS_Interval, MaxExecutionsAssumption DEF Executions
    <2>2. newer(e) \subseteq Executions OBVIOUS
    <2>3. IsFiniteSet(newer(e)) BY <2>1, <2>2, FS_Subset
    <2>4. Cardinality(newer(e)) \in Nat BY <2>3, FS_CardinalityType
    <2>5. QED BY <2>4
  <1>2. \A e \in Executions :
          e \in Newest(known, SnapshotLimit) <=> e \in known /\ ~ Cardinality(newer(e)) >= SnapshotLimit
    BY <1>1, SnapshotLimitAssumption DEF Newest
  <1>3. \A e \in Executions :
          Image(st)[e] # st[e] <=> e \in known /\ e \notin Newest(known, SnapshotLimit)
    BY DEF Image
  <1>4. \A e \in Executions :
          e \in Ledger!Displaced(st) <=> e \in known /\ Cardinality(newer(e)) >= SnapshotLimit
    BY <1>1 DEF Ledger!Displaced, Ledger!Cardinality, Cardinality
  <1>5. Ledger!Displaced(st) \subseteq Executions BY DEF Ledger!Displaced
  <1>6. QED BY <1>2, <1>3, <1>4, <1>5

(* What a status can be exchanged for is later, and earlier statuses of an *)
(* earlier status are earlier too.                                         *)
LEMMA Order ==
  /\ \A s \in Statuses \cup {"absent"} :
       /\ s \notin Earlier[s]
       /\ Earlier[s] \subseteq Statuses \cup {"absent"}
       /\ s # "absent" => "absent" \in Earlier[s]
  /\ \A s \in Statuses \cup {"absent"} : \A t \in Transitions[s] :
       t \in Statuses /\ s \in Earlier[t] /\ Earlier[s] \subseteq Earlier[t]
  BY DEF Earlier, Transitions, Statuses

(* The disk is where the memory is or was, so that what is in doubt can    *)
(* only fall back.                                                         *)
Behind == \A e \in Executions : stored[e] = status[e] \/ stored[e] \in Earlier[status[e]]

LedgerInv == StartInv /\ Behind

(* A change of one status to a later one keeps the disk behind and is a    *)
(* change of the ledger, whose doubts a successful write settles.          *)
LEMMA ChangeStep ==
  ASSUME LedgerInv, TypeOK',
         NEW e \in Executions, NEW to \in Statuses, NEW ok \in BOOLEAN, SetStatus(e, to, ok),
         status[e] \in Earlier[to], Earlier[status[e]] \subseteq Earlier[to]
  PROVE  Behind' /\ Ledger!Change(e, to, ok)
  <1>0. TypeOK BY DEF LedgerInv, StartInv
  <1>1. /\ status' = [status EXCEPT ![e] = to]
        /\ status'[e] = to
        /\ \A f \in Executions : f # e => status'[f] = status[f]
    BY <1>0 DEF SetStatus, TypeOK
  <1>2. CASE ok
    <2>1. stored' = Image(status') BY <1>2 DEF SetStatus
    <2>2. Doubtful' = Ledger!Displaced(status')
      BY <2>1, ImageDoubt DEF Doubtful, TypeOK
    <2>3. Behind' BY <2>1, ImageType, Order DEF Behind, TypeOK
    <2>4. QED BY <1>1, <1>2, <2>2, <2>3 DEF Ledger!Change
  <1>3. CASE ~ok
    <2>1. stored' = stored BY <1>3 DEF SetStatus
    <2>2. stored[e] \in Earlier[to] BY DEF LedgerInv, Behind
    <2>3. Behind' BY <1>1, <2>1, <2>2 DEF LedgerInv, Behind
    <2>4. stored'[e] # status'[e] BY <1>1, <2>1, <2>2, Order
    <2>5. Doubtful' = Doubtful \cup {e} BY <1>1, <2>1, <2>4 DEF Doubtful
    <2>6. QED BY <1>1, <1>3, <2>3, <2>5 DEF Ledger!Change
  <1>4. QED BY <1>2, <1>3

(* Every step keeps the disk behind, and is a step of the ledger or none   *)
(* at all.                                                                 *)
LEMMA LedgerStep ==
  ASSUME LedgerInv, [Next]_vars
  PROVE  Behind' /\ [Ledger!Next]_<<status, Doubtful, created>>
  <1>0. TypeOK /\ TypeOK' BY TypeStep DEF LedgerInv, StartInv
  <1>1. ASSUME NEW ok \in BOOLEAN, Propose(ok)
        PROVE  Behind' /\ [Ledger!Next]_<<status, Doubtful, created>>
    <2>1. created + 1 \in Executions /\ created + 1 > created
      BY <1>0, <1>1, MaxExecutionsAssumption DEF Propose, TypeOK, Executions
    <2>2. status[created + 1] = "absent"
      BY <2>1 DEF LedgerInv, StartInv, FutureIsBlank
    <2>3. SetStatus(created + 1, "proposed", ok) BY <1>1 DEF Propose
    <2>4. "absent" \in Earlier["proposed"] /\ Earlier["absent"] \subseteq Earlier["proposed"]
      BY DEF Earlier
    <2>5. Behind' /\ Ledger!Change(created + 1, "proposed", ok)
      BY <1>0, <2>1, <2>2, <2>3, <2>4, ChangeStep DEF Statuses
    <2>6. Ledger!Propose(created + 1, ok)
      BY <1>1, <2>2, <2>5 DEF Ledger!Propose, Propose
    <2>7. QED BY <2>1, <2>5, <2>6 DEF Ledger!Next
  <1>2. ASSUME NEW e \in Executions, NEW to, NEW ok \in BOOLEAN, Move(e, to, ok),
               UNCHANGED created
        PROVE  Behind' /\ [Ledger!Next]_<<status, Doubtful, created>>
    <2>1. to \in Statuses /\ to \in Transitions[status[e]] /\ SetStatus(e, to, ok)
      BY <1>0, <1>2, MoveType DEF Move
    <2>2. status[e] \in Earlier[to] /\ Earlier[status[e]] \subseteq Earlier[to]
      BY <1>0, <2>1, Order DEF TypeOK
    <2>3. Behind' /\ Ledger!Change(e, to, ok)
      BY <1>0, <2>1, <2>2, ChangeStep
    <2>4. Ledger!Transition(e, to, ok)
      BY <1>2, <2>1, <2>3 DEF Ledger!Transition, Transitions, Ledger!Transitions
    <2>5. QED BY <2>1, <2>3, <2>4 DEF Ledger!Next, Statuses, Ledger!Statuses
  <1>3. CASE UNCHANGED <<status, stored, created>>
    BY <1>3 DEF LedgerInv, Behind, Doubtful
  <1>4. CASE Crash
    <2>1. status' = stored /\ stored' = stored /\ created' = created BY <1>4 DEF Crash
    <2>2. Behind' /\ Doubtful' = {} BY <2>1 DEF Behind, Doubtful
    <2>3. \A e \in Executions :
            IF e \in Doubtful THEN status'[e] \in Earlier[status[e]] ELSE status'[e] = status[e]
      BY <2>1 DEF LedgerInv, Behind, Doubtful
    <2>4. Ledger!Restart
      BY <1>0, <2>1, <2>2, <2>3 DEF TypeOK, Ledger!Restart, Earlier, Ledger!Earlier, Statuses, Ledger!Statuses
    <2>5. QED BY <2>2, <2>4 DEF Ledger!Next
  <1>5. ASSUME NEW ok \in BOOLEAN, NEW outcome \in {"completed", "failed"}, Settle(outcome, ok)
        PROVE  Behind' /\ [Ledger!Next]_<<status, Doubtful, created>>
    BY <1>0, <1>2, <1>3, <1>5 DEF Settle, TypeOK
  <1>6. QED
    BY <1>1, <1>2, <1>3, <1>4, <1>5 DEF Next, OperatorMove, Tick, Claim, ClaimFails,
       ClaimRefused, Recover, StartTimer, vars

(* The store with its dispatcher, crashes, recoveries, failed writes and a *)
(* snapshot that forgets the oldest executions implements the ledger.      *)
THEOREM LedgerImplemented == Spec => LedgerSpec
  <1>1. Init => LedgerInv /\ Ledger!Init
    BY StartInit DEF Init, LedgerInv, Behind, Doubtful, Ledger!Init
  <1>2. LedgerInv /\ [Next]_vars => LedgerInv'
    BY StartStep, LedgerStep DEF LedgerInv
  <1>3. LedgerInv /\ [Next]_vars => [Ledger!Next]_<<status, Doubtful, created>>
    BY LedgerStep
  <1>4. QED BY <1>1, <1>2, <1>3, PTL DEF Spec, LedgerSpec, Ledger!Spec
=============================================================================
