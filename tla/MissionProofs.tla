--------------------------- MODULE MissionProofs ---------------------------
(***************************************************************************)
(* The mission authority for every number of missions, tasks, attempts and *)
(* crashes and every plan: its types, then in this order the approval      *)
(* gate, dependencies and evidence, final states, the books, the copies of *)
(* evidence and the life cycle on disk.  Each invariant contains the one   *)
(* before it, but for that of the copies, a branch of its own over the     *)
(* final states.                                                           *)
(***************************************************************************)
EXTENDS MissionAuthority, TLAPS, FiniteSetTheorems


MissionTable == [Missions -> Mission]

MissionStatuses ==
  TerminalMissionStates \cup {"absent", "awaiting-approval", "approved", "running"}

-----------------------------------------------------------------------------
(* Types of what the actions put together.                                 *)

(* One field of a record set anew.                                         *)
LEMMA ExecUpdate ==
  ASSUME NEW e \in Exec, NEW status \in Statuses
  PROVE  [e EXCEPT !.status = status] \in Exec
  BY DEF Exec

LEMMA TaskUpdate ==
  ASSUME NEW tk \in Task
  PROVE  /\ \A status \in TaskStates : [tk EXCEPT !.status = status] \in Task
         /\ [tk EXCEPT !.approval = "approved"] \in Task
  BY DEF Task

(* There is a plan to choose whenever a mission is created.                *)
LEMMA NewMissionType ==
  ASSUME NEW type \in MissionTypes, NEW budget \in AttemptBudgets, NEW talks \in Conversations
  PROVE  NewMission(type, budget, talks) \in Mission
  BY BudgetAssumption, EnvironmentAssumption
     DEF NewMission, NewTask, Mission, Task, TaskStates, None

LEMMA NoMissionType == NoMission \in Mission
  BY PlanAssumption DEF NoMission, NewTask, Mission, Task, TaskStates, None

LEMMA SameLength ==
  ASSUME NEW es \in Seq(Exec), NEW es2 \in Seq(Exec), DOMAIN es2 = DOMAIN es
  PROVE  Len(es2) = Len(es)
  OBVIOUS

LEMMA StopWorkType ==
  ASSUME TypeOK, NEW m, NEW ts
  PROVE  StopWork(m, ts) \in Seq(Exec) /\ Len(StopWork(m, ts)) = Len(execs)
  <1> DEFINE stopped == {missions[m].tasks[t].exec : t \in ts}
             after(i) == IF i \in stopped /\ execs[i].status \in Live
                           THEN [execs[i] EXCEPT !.status = "cancelled"]
                           ELSE execs[i]
  <1>1. execs \in Seq(Exec) BY DEF TypeOK
  <1>2. \A i \in DOMAIN execs : after(i) \in Exec
    <2>1. TAKE i \in DOMAIN execs
    <2>2. execs[i] \in Exec BY <1>1
    <2>3. [execs[i] EXCEPT !.status = "cancelled"] \in Exec
      BY <2>2, ExecUpdate DEF Statuses
    <2>4. QED BY <2>2, <2>3
  <1>3. [i \in DOMAIN execs |-> after(i)] \in Seq(Exec)
    <2> HIDE DEF after
    <2>1. QED BY <1>1, <1>2
  <1>4. StopWork(m, ts) \in Seq(Exec) /\ DOMAIN StopWork(m, ts) = DOMAIN execs
    BY <1>3 DEF StopWork
  <1>5. QED BY <1>1, <1>4, SameLength

LEMMA RecoveredType ==
  ASSUME NEW es \in Seq(Exec)
  PROVE  Recovered(es) \in Seq(Exec) /\ Len(Recovered(es)) = Len(es)
  <1> DEFINE after(i) == IF es[i].status = "running" THEN [es[i] EXCEPT !.status = "failed"]
                                                     ELSE es[i]
  <1>1. \A i \in DOMAIN es : after(i) \in Exec
    <2>1. TAKE i \in DOMAIN es
    <2>2. es[i] \in Exec OBVIOUS
    <2>3. [es[i] EXCEPT !.status = "failed"] \in Exec
      BY <2>2, ExecUpdate DEF Statuses
    <2>4. QED BY <2>2, <2>3
  <1>2. [i \in DOMAIN es |-> after(i)] \in Seq(Exec)
    <2> HIDE DEF after
    <2>1. QED BY <1>1
  <1>3. Recovered(es) \in Seq(Exec) /\ DOMAIN Recovered(es) = DOMAIN es
    BY <1>2 DEF Recovered
  <1>4. QED BY <1>3, SameLength

LEMMA SetTasksType ==
  ASSUME TypeOK, NEW m \in Missions, NEW ts, NEW status \in TaskStates
  PROVE  SetTasks(m, ts, status) \in [Tasks -> Task]
  <1>1. missions[m].tasks \in [Tasks -> Task] BY DEF TypeOK, Mission
  <1>2. QED BY <1>1, TaskUpdate DEF SetTasks

LEMMA EvidenceType ==
  ASSUME TypeOK, NEW m \in Missions, NEW t \in Tasks
  PROVE  /\ Evidence(m, t) \in Seq(Artifact)
         /\ Len(Evidence(m, t)) = Len(artifacts) + 1
  BY DEF TypeOK, Evidence, Artifact, Mission, Task

LEMMA HandoffsType ==
  ASSUME NEW a \in Nat, NEW t, NEW us, us \subseteq Receivers(t),
         NEW status \in {"pending", "accepted"}
  PROVE  Handoffs(a, us, status) \subseteq Handoff
  BY DEF Handoffs, Handoff, Receivers

-----------------------------------------------------------------------------
(* One mission changed: the table keeps its type if the mission does.      *)
LEMMA MissionFields ==
  ASSUME TypeOK, NEW m \in Missions
  PROVE  /\ missions \in MissionTable
         /\ missions[m] \in Mission
         /\ missions[m].tasks \in [Tasks -> Task]
         /\ \A t \in Tasks : missions[m].tasks[t] \in Task
         /\ missions[m].used \in Nat
  BY DEF TypeOK, Mission, MissionTable

LEMMA TaskReset ==
  ASSUME TypeOK, NEW m \in Missions, NEW t \in Tasks
  PROVE  /\ [missions[m].tasks[t] EXCEPT !.status = "pending", !.exec = None] \in Task
         /\ \A status \in TaskStates : [missions[m].tasks[t] EXCEPT !.status = status] \in Task
         /\ \A a \in Nat :
              [missions[m].tasks[t] EXCEPT !.status = "completed", !.artifact = a] \in Task
         /\ \A i \in Nat :
              [missions[m].tasks[t] EXCEPT !.status = "running", !.exec = i, !.attempts = @ + 1]
                \in Task
  <1>1. missions[m].tasks[t] \in Task BY MissionFields
  <1>2. [missions[m].tasks[t] EXCEPT !.status = "pending", !.exec = None] \in Task
    BY <1>1 DEF Task, TaskStates, None
  <1>3. ASSUME NEW status \in TaskStates
        PROVE  [missions[m].tasks[t] EXCEPT !.status = status] \in Task
    BY <1>1 DEF Task
  <1>4. ASSUME NEW a \in Nat
        PROVE  [missions[m].tasks[t] EXCEPT !.status = "completed", !.artifact = a] \in Task
    BY <1>1 DEF Task, TaskStates
  <1>5. ASSUME NEW i \in Nat
        PROVE  [missions[m].tasks[t] EXCEPT !.status = "running", !.exec = i,
                                            !.attempts = @ + 1] \in Task
    <2>1. missions[m].tasks[t].attempts + 1 \in Nat BY <1>1 DEF Task
    <2> DEFINE attempts == missions[m].tasks[t].attempts + 1
    <2> HIDE DEF attempts
    <2>2. [missions[m].tasks[t] EXCEPT !.status = "running", !.exec = i,
                                       !.attempts = attempts] \in Task
      BY <1>1, <2>1 DEF Task, TaskStates, attempts
    <2>3. QED BY <2>2 DEF attempts
  <1>6. QED BY <1>2, <1>3, <1>4, <1>5

LEMMA TaskChanged ==
  ASSUME NEW table \in MissionTable, NEW m \in Missions, NEW t \in Tasks, NEW task \in Task
  PROVE  /\ [table EXCEPT ![m].tasks[t] = task] \in MissionTable
         /\ \A status \in MissionStatuses :
              [table EXCEPT ![m].tasks[t] = task, ![m].status = status] \in MissionTable
         /\ \A used \in Nat :
              [table EXCEPT ![m].tasks[t] = task, ![m].used = used] \in MissionTable
  <1>1. [table[m].tasks EXCEPT ![t] = task] \in [Tasks -> Task]
    BY DEF MissionTable, Mission
  <1> DEFINE tasks == [table[m].tasks EXCEPT ![t] = task]
  <1> HIDE DEF tasks
  <1>2. /\ [table[m] EXCEPT !.tasks = tasks] \in Mission
        /\ \A status \in MissionStatuses :
             [table[m] EXCEPT !.tasks = tasks, !.status = status] \in Mission
        /\ \A used \in Nat :
             [table[m] EXCEPT !.tasks = tasks, !.used = used] \in Mission
    BY <1>1 DEF MissionTable, Mission, MissionStatuses, tasks
  <1>3. table[m] \in Mission /\ table[m].tasks \in [Tasks -> Task]
    BY DEF MissionTable, Mission
  <1>4. [table EXCEPT ![m].tasks[t] = task] \in MissionTable
    <2>1. [table EXCEPT ![m].tasks[t] = task]
            = [table EXCEPT ![m] = [table[m] EXCEPT !.tasks = tasks]]
      BY <1>3 DEF MissionTable, Mission, tasks
    <2>2. QED BY <1>2, <2>1 DEF MissionTable
  <1>5. ASSUME NEW status \in MissionStatuses
        PROVE  [table EXCEPT ![m].tasks[t] = task, ![m].status = status] \in MissionTable
    <2>1. [table EXCEPT ![m].tasks[t] = task, ![m].status = status]
            = [table EXCEPT ![m] = [table[m] EXCEPT !.tasks = tasks, !.status = status]]
      BY <1>3 DEF MissionTable, Mission, tasks
    <2>2. QED BY <1>2, <2>1 DEF MissionTable
  <1>6. ASSUME NEW used \in Nat
        PROVE  [table EXCEPT ![m].tasks[t] = task, ![m].used = used] \in MissionTable
    <2>1. [table EXCEPT ![m].tasks[t] = task, ![m].used = used]
            = [table EXCEPT ![m] = [table[m] EXCEPT !.tasks = tasks, !.used = used]]
      BY <1>3 DEF MissionTable, Mission, tasks
    <2>2. QED BY <1>2, <2>1 DEF MissionTable
  <1>7. QED BY <1>4, <1>5, <1>6

(* An approval that throws changes approvals of tasks, in memory only.     *)
LEMMA ThrownApproval ==
  ASSUME TypeOK, NEW m \in Missions, ApproveThrows(m)
  PROVE  /\ missions' \in MissionTable
         /\ \A n \in Missions : n # m => missions'[n] = missions[n]
         /\ missions[m].status = "awaiting-approval"
         /\ missions'[m].status = "awaiting-approval"
         /\ missions'[m].approved = missions[m].approved
         /\ missions'[m].used = missions[m].used /\ missions'[m].max = missions[m].max
         /\ \A t \in Tasks :
              /\ missions'[m].tasks[t].status = missions[m].tasks[t].status
              /\ missions'[m].tasks[t].exec = missions[m].tasks[t].exec
              /\ missions'[m].tasks[t].artifact = missions[m].tasks[t].artifact
         /\ pc \in {"idle", "vault"}
         /\ UNCHANGED <<saved, execs, artifacts, handoffs, queue, pc, crashes>>
  <1> DEFINE tasks == [t \in Tasks |-> IF t \in Sensitive[missions[m].type]
                          THEN [missions[m].tasks[t] EXCEPT !.approval = "approved"]
                          ELSE missions[m].tasks[t]]
  <1>1. tasks \in [Tasks -> Task] BY MissionFields, TaskUpdate
  <1>2. /\ missions[m].status = "awaiting-approval" /\ pc \in {"idle", "vault"}
        /\ missions' = [missions EXCEPT ![m] = [missions[m] EXCEPT !.tasks = tasks]]
        /\ UNCHANGED <<saved, execs, artifacts, handoffs, queue, pc, crashes>>
    BY DEF ApproveThrows, Interruptible, stores, pass
  <1>3. \A t \in Tasks : /\ tasks[t].status = missions[m].tasks[t].status
                         /\ tasks[t].exec = missions[m].tasks[t].exec
                         /\ tasks[t].artifact = missions[m].tasks[t].artifact
    BY MissionFields DEF Task
  <1> HIDE DEF tasks
  <1>4. [missions[m] EXCEPT !.tasks = tasks] \in Mission BY <1>1, MissionFields DEF Mission
  <1>5. missions' \in MissionTable BY <1>2, <1>4, MissionFields DEF MissionTable
  <1>6. /\ missions'[m] = [missions[m] EXCEPT !.tasks = tasks]
        /\ \A n \in Missions : n # m => missions'[n] = missions[n]
    BY <1>2, MissionFields DEF MissionTable
  <1>7. /\ missions'[m].tasks = tasks /\ missions'[m].status = missions[m].status
        /\ missions'[m].approved = missions[m].approved
        /\ missions'[m].used = missions[m].used /\ missions'[m].max = missions[m].max
    BY <1>6, MissionFields DEF Mission
  <1>8. QED BY <1>2, <1>3, <1>5, <1>6, <1>7

LEMMA TypeInit == Init => TypeOK
  <1> SUFFICES ASSUME Init PROVE TypeOK OBVIOUS
  <1>1. missions \in MissionTable /\ saved \in MissionTable
    BY NoMissionType DEF Init, MissionTable
  <1>2. execs \in Seq(Exec) /\ artifacts \in Seq(Artifact) BY DEF Init
  <1>3. crashes \in 0 .. MaxCrashes BY BoundsAssumption DEF Init
  <1>4. forgotten \in 0 .. Len(execs) BY DEF Init
  <1>5. QED BY <1>1, <1>2, <1>3, <1>4 DEF Init, TypeOK, MissionTable

(* The requests of callers.                                                *)
LEMMA RequestTypes == TypeOK /\ Requests => TypeOK'
  <1> SUFFICES ASSUME TypeOK, Requests PROVE TypeOK' OBVIOUS
  <1>1. ASSUME NEW m \in Missions, NEW type \in MissionTypes, NEW budget \in AttemptBudgets,
               NEW talks \in Conversations, Create(m, type, budget, talks)
        PROVE  TypeOK'
    <2>1. missions' \in MissionTable
      BY <1>1, NewMissionType, MissionFields DEF Create, MissionTable
    <2>2. QED BY <1>1, <2>1 DEF Create, Save, TypeOK, MissionTable, stores, pass
  <1>2. ASSUME NEW m \in Missions, Approve(m) PROVE TypeOK'
    <2> DEFINE tasks == [t \in Tasks |-> IF t \in Sensitive[missions[m].type]
                            THEN [missions[m].tasks[t] EXCEPT !.approval = "approved"]
                            ELSE missions[m].tasks[t]]
    <2>1. tasks \in [Tasks -> Task] BY MissionFields, TaskUpdate
    <2>2. [missions[m] EXCEPT !.tasks = tasks, !.approved = TRUE, !.status = "approved"]
            \in Mission
      <3> HIDE DEF tasks
      <3>1. QED BY <2>1, MissionFields DEF Mission
    <2>3. missions' = [missions EXCEPT ![m] =
             [missions[m] EXCEPT !.tasks = tasks, !.approved = TRUE, !.status = "approved"]]
      BY <1>2 DEF Approve
    <2>4. missions' \in MissionTable
      BY <2>2, <2>3, MissionFields DEF MissionTable
    <2>5. QED BY <1>2, <2>4 DEF Approve, Save, TypeOK, MissionTable, stores, pass
  <1>2a. ASSUME NEW m \in Missions, ApproveThrows(m) PROVE TypeOK'
    BY <1>2a, ThrownApproval DEF ApproveThrows, TypeOK, MissionTable, stores, pass
  <1>3. ASSUME NEW m \in Missions, Start(m) PROVE TypeOK'
    <2>1. [missions[m] EXCEPT !.status = "running"] \in Mission
      BY MissionFields DEF Mission
    <2>2. missions' \in MissionTable
      BY <1>3, <2>1, MissionFields DEF Start, MissionTable
    <2>3. QED BY <1>3, <2>2 DEF Start, Save, TypeOK, MissionTable, stores, pass
  <1>4. ASSUME NEW m \in Missions, Cancel(m) PROVE TypeOK'
    <2> DEFINE tasks == SetTasks(m, CancelTargets(m), "cancelled")
    <2>1. tasks \in [Tasks -> Task] BY SetTasksType DEF TaskStates
    <2>2. [missions[m] EXCEPT !.tasks = tasks, !.status = "cancelled"] \in Mission
      <3> HIDE DEF tasks
      <3>1. QED BY <2>1, MissionFields DEF Mission, TerminalMissionStates
    <2>3. missions' = [missions EXCEPT ![m] =
             [missions[m] EXCEPT !.tasks = tasks, !.status = "cancelled"]]
      BY <1>4 DEF Cancel
    <2>4. missions' \in MissionTable
      BY <2>2, <2>3, MissionFields DEF MissionTable
    <2>5. execs' \in Seq(Exec) /\ Len(execs') = Len(execs) BY <1>4, StopWorkType DEF Cancel
    <2>6. QED BY <1>4, <2>4, <2>5 DEF Cancel, Save, TypeOK, MissionTable, pass
  <1>5. ASSUME NEW m \in Missions, NEW t \in Tasks, RetryTask(m, t) PROVE TypeOK'
    <2>1. missions' \in MissionTable
      BY <1>5, TaskReset, TaskChanged DEF RetryTask, TypeOK, MissionTable, MissionStatuses
    <2>2. QED BY <1>5, <2>1 DEF RetryTask, Save, TypeOK, MissionTable, stores, pass
  <1>6. QED BY <1>1, <1>2, <1>2a, <1>3, <1>4, <1>5 DEF Requests

(* What the end of a mission's turn, or of the pass, leaves behind.        *)
LEMMA PassTypes ==
  ASSUME TypeOK, NEW m, NextMission(m) \/ AbortPass
  PROVE  queue' \subseteq Missions /\ pc' \in {"idle", "settle"} /\ changed' \in BOOLEAN
  BY DEF TypeOK, NextMission, AbortPass

(* The steps of a reconcile pass.                                          *)
LEMMA ReconcileTypes == TypeOK /\ Reconcile => TypeOK'
  <1> SUFFICES ASSUME TypeOK, Reconcile PROVE TypeOK' OBVIOUS
  <1>1. ASSUME NEW m \in Missions, TimeOut(m) PROVE TypeOK'
    <2> DEFINE targets == {t \in Tasks : HasTaskIn(m, t, {"running"})}
               tasks == SetTasks(m, targets, "cancelled")
    <2>1. tasks \in [Tasks -> Task] BY SetTasksType DEF TaskStates
    <2>2. [missions[m] EXCEPT !.tasks = tasks, !.status = "failed"] \in Mission
      <3> HIDE DEF tasks
      <3>1. QED BY <2>1, MissionFields DEF Mission, TerminalMissionStates
    <2>3. missions' = [missions EXCEPT ![m] =
             [missions[m] EXCEPT !.tasks = tasks, !.status = "failed"]]
      BY <1>1 DEF TimeOut
    <2>4. missions' \in MissionTable
      BY <2>2, <2>3, MissionFields DEF MissionTable
    <2>5. execs' \in Seq(Exec) /\ Len(execs') = Len(execs)
      BY <1>1, StopWorkType DEF TimeOut
    <2>6. queue' \subseteq Missions /\ pc' \in {"idle", "settle"} /\ changed' \in BOOLEAN
      BY <1>1, PassTypes DEF TimeOut
    <2>7. QED BY <1>1, <2>4, <2>5, <2>6 DEF TimeOut, Save, TypeOK, MissionTable
  <1>2. ASSUME NEW m \in Missions, NEW t \in Tasks, CompleteTask(m, t) PROVE TypeOK'
    <2>1. artifacts' \in Seq(Artifact) /\ Len(artifacts') \in Nat
      BY <1>2, EvidenceType DEF CompleteTask
    <2>2. handoffs' \subseteq Handoff
      <3>1. Handoffs(Len(artifacts'), Receivers(t), "accepted") \subseteq Handoff
        BY <2>1, HandoffsType
      <3>2. QED BY <1>2, <3>1 DEF CompleteTask, TypeOK
    <2> DEFINE task == [missions[m].tasks[t] EXCEPT !.status = "completed",
                                                    !.artifact = Len(artifacts')]
    <2>3. task \in Task BY <2>1, TaskReset
    <2>4. missions' = [missions EXCEPT ![m].tasks[t] = task]
      BY <1>2 DEF CompleteTask
    <2>5. missions' \in MissionTable
      <3> HIDE DEF task
      <3>1. QED BY <2>3, <2>4, MissionFields, TaskChanged
    <2>6. QED BY <1>2, <2>1, <2>2, <2>5 DEF CompleteTask, TypeOK, MissionTable
  <1>3. ASSUME NEW m \in Missions, NEW t \in Tasks, ScheduleRetry(m, t) PROVE TypeOK'
    <2>1. missions' \in MissionTable
      BY <1>3, TaskReset, TaskChanged, MissionFields DEF ScheduleRetry
    <2>2. QED BY <1>3, <2>1 DEF ScheduleRetry, TypeOK, MissionTable, stores
  <1>4. ASSUME NEW m \in Missions, NEW t \in Tasks, EndTask(m, t) PROVE TypeOK'
    <2> DEFINE task == [missions[m].tasks[t] EXCEPT !.status = ExecStatus(m, t)]
    <2>1. ExecStatus(m, t) \in {"failed", "cancelled"} BY <1>4 DEF EndTask
    <2>2. task \in Task BY <2>1, TaskReset DEF TaskStates
    <2>3. missions' = [missions EXCEPT ![m].tasks[t] = task,
                                       ![m].status = ExecStatus(m, t)]
      BY <1>4 DEF EndTask
    <2>4. missions' \in MissionTable
      <3> HIDE DEF task
      <3>1. ExecStatus(m, t) \in MissionStatuses
        BY <2>1 DEF MissionStatuses, TerminalMissionStates
      <3>2. QED BY <2>2, <2>3, <3>1, MissionFields, TaskChanged
    <2>5. QED BY <1>4, <2>4 DEF EndTask, TypeOK, MissionTable, stores
  <1>5. ASSUME NEW m \in Missions, NEW t \in Tasks, ProposeExecution(m, t) PROVE TypeOK'
    <2>1. execs' \in Seq(Exec)
      BY <1>5 DEF ProposeExecution, TypeOK, Exec, Statuses
    <2>2. QED BY <1>5, <2>1 DEF ProposeExecution, TypeOK
  <1>6. ASSUME NEW m \in Missions, NEW t \in Tasks, ApproveExecution(m, t) PROVE TypeOK'
    <2>1. execs \in Seq(Exec) /\ Len(execs) \in Nat BY DEF TypeOK
    <2>2. execs' \in Seq(Exec)
      <3>1. \A i \in DOMAIN execs : [execs[i] EXCEPT !.status = "approved"] \in Exec
        <4>1. TAKE i \in DOMAIN execs
        <4>2. execs[i] \in Exec BY <2>1
        <4>3. QED BY <4>2, ExecUpdate DEF Statuses
      <3>2. execs' = [execs EXCEPT ![Len(execs)] =
                       [execs[Len(execs)] EXCEPT !.status = "approved"]]
        BY <1>6 DEF ApproveExecution
      <3>3. CASE Len(execs) \in DOMAIN execs
        <4> DEFINE last == [execs[Len(execs)] EXCEPT !.status = "approved"]
        <4>1. last \in Exec BY <3>1, <3>3
        <4> HIDE DEF last
        <4>2. execs' = [execs EXCEPT ![Len(execs)] = last] BY <3>2 DEF last
        <4>3. QED BY <2>1, <3>3, <4>1, <4>2
      <3>4. CASE Len(execs) \notin DOMAIN execs
        <4>1. execs' = execs BY <2>1, <3>2, <3>4
        <4>2. QED BY <2>1, <4>1
      <3>5. QED BY <3>3, <3>4
    <2> DEFINE task == [missions[m].tasks[t] EXCEPT !.status = "running", !.exec = Len(execs),
                                                    !.attempts = @ + 1]
    <2>3. task \in Task BY <2>1, TaskReset
    <2>4. missions' = [missions EXCEPT ![m].tasks[t] = task,
                                       ![m].used = missions[m].used + 1]
      <3>1. missions' = [missions EXCEPT
               ![m].tasks[t] = [@ EXCEPT !.status = "running", !.exec = Len(execs),
                                         !.attempts = @ + 1],
               ![m].used = @ + 1]
        BY <1>6 DEF ApproveExecution
      <3>2. QED BY <3>1, MissionFields DEF MissionTable, Mission, Task
    <2>5. missions' \in MissionTable
      <3> HIDE DEF task
      <3>1. missions[m].used + 1 \in Nat BY MissionFields
      <3>2. QED BY <2>3, <2>4, <3>1, MissionFields, TaskChanged
    <2>6. Len(execs') = Len(execs)
      <3>1. DOMAIN execs' = DOMAIN execs BY <1>6 DEF ApproveExecution
      <3>2. QED BY <2>1, <2>2, <3>1, SameLength
    <2>7. QED BY <1>6, <2>2, <2>5, <2>6 DEF ApproveExecution, TypeOK, MissionTable
  <1>1a. ASSUME NEW m \in Missions, ExecutionNotFound(m) PROVE TypeOK'
    BY <1>1a DEF ExecutionNotFound, AbortPass, TypeOK, stores
  <1>7. ASSUME NEW m \in Missions, NEW t \in Tasks, DispatchRefused(m, t) PROVE TypeOK'
    BY <1>7 DEF DispatchRefused, AbortPass, TypeOK, stores
  <1>8. ASSUME NEW m \in Missions, CompleteMission(m) PROVE TypeOK'
    <2>1. artifacts' \in Seq(Artifact) /\ Len(artifacts') \in Nat
      BY <1>8 DEF CompleteMission, TypeOK, Artifact, None
    <2>2. [missions[m] EXCEPT !.report = Len(artifacts'), !.status = "completed"] \in Mission
      BY <2>1, MissionFields DEF Mission, TerminalMissionStates
    <2>3. missions' = [missions EXCEPT ![m] =
             [missions[m] EXCEPT !.report = Len(artifacts'), !.status = "completed"]]
      BY <1>8 DEF CompleteMission
    <2>4. missions' \in MissionTable
      BY <2>2, <2>3, MissionFields DEF MissionTable
    <2>5. QED BY <1>8, <2>1, <2>4 DEF CompleteMission, TypeOK, MissionTable
  <1>9. ASSUME NEW m \in Missions, Leave(m) PROVE TypeOK'
    <2>1. queue' \subseteq Missions /\ pc' \in {"idle", "settle"} /\ changed' \in BOOLEAN
      BY <1>9, PassTypes DEF Leave
    <2>2. QED BY <1>9, <2>1 DEF Leave, TypeOK, stores
  <1>10. QED
    BY <1>1, <1>1a, <1>2, <1>3, <1>4, <1>5, <1>6, <1>7, <1>8, <1>9 DEF Reconcile

(* The vault's answer.                                                     *)
LEMMA VaultTypes == TypeOK /\ Vault => TypeOK'
  <1> SUFFICES ASSUME TypeOK, Vault PROVE TypeOK' OBVIOUS
  <1>1. ASSUME NEW m \in Missions, VaultDone(m) PROVE TypeOK'
    <2>1. [missions[m] EXCEPT !.projected = TRUE] \in Mission
      BY MissionFields DEF Mission
    <2>2. missions' \in MissionTable
      BY <1>1, <2>1, MissionFields DEF VaultDone, MissionTable
    <2>3. queue' \subseteq Missions /\ pc' \in {"idle", "settle"} /\ changed' \in BOOLEAN
      BY <1>1, PassTypes DEF VaultDone
    <2>4. QED BY <1>1, <2>2, <2>3 DEF VaultDone, Save, TypeOK, MissionTable, stores
  <1>2. ASSUME NEW m \in Missions, VaultFailed(m) PROVE TypeOK'
    BY <1>2 DEF VaultFailed, AbortPass, TypeOK, stores
  <1>3. QED BY <1>1, <1>2 DEF Vault

(* A process that dies with well-typed stores leaves them well typed.      *)
LEMMA DieTypes ==
  ASSUME TypeOK, NEW es \in Seq(Exec), NEW as \in Seq(Artifact), NEW hs,
         Len(es) = Len(execs), hs \subseteq Handoff, DieWith(es, as, hs)
  PROVE  TypeOK'
  <1>1. execs' \in Seq(Exec) /\ Len(execs') = Len(execs) BY RecoveredType DEF DieWith
  <1>2. crashes' \in 0 .. MaxCrashes BY BoundsAssumption DEF DieWith, TypeOK
  <1>3. forgotten' \in 0 .. Len(execs)
    <2>1. PICK room \in Rooms : forgotten' = Larger(forgotten, Len(execs) - room)
      BY DEF DieWith
    <2>2. room \in Nat /\ Len(execs) \in Nat /\ forgotten \in 0 .. Len(execs)
      BY EnvironmentAssumption DEF TypeOK
    <2>3. QED BY <2>1, <2>2 DEF Larger
  <1>4. QED BY <1>1, <1>2, <1>3 DEF DieWith, AbortPass, TypeOK

LEMMA DeathTypes == TypeOK /\ Death => TypeOK'
  <1> SUFFICES ASSUME TypeOK, Death PROVE TypeOK' OBVIOUS
  <1>0. execs \in Seq(Exec) /\ artifacts \in Seq(Artifact) /\ handoffs \subseteq Handoff
    BY DEF TypeOK
  <1>1. CASE Crash BY <1>0, <1>1, DieTypes DEF Crash
  <1>2. ASSUME NEW m \in Missions, StopInterrupted(m) PROVE TypeOK'
    BY <1>0, <1>2, StopWorkType, DieTypes DEF StopInterrupted
  <1>3. ASSUME NEW m \in Missions, NEW t \in Tasks, CompleteTaskInterrupted(m, t)
        PROVE  TypeOK'
    <2>1. PICK last \in Receivers(t) :
            LET a == Len(artifacts) + 1
                earlier == Handoffs(a, {u \in Receivers(t) : u < last}, "accepted")
            IN  \/ DieWith(execs, Evidence(m, t), handoffs \cup earlier)
                \/ DieWith(execs, Evidence(m, t),
                           handoffs \cup earlier \cup Handoffs(a, {last}, "pending"))
      BY <1>3 DEF CompleteTaskInterrupted
    <2> DEFINE a == Len(artifacts) + 1
               earlier == Handoffs(a, {u \in Receivers(t) : u < last}, "accepted")
    <2>2. a \in Nat BY <1>0
    <2>3. earlier \subseteq Handoff /\ Handoffs(a, {last}, "pending") \subseteq Handoff
      <3> HIDE DEF a
      <3>1. earlier \subseteq Handoff BY <2>2, HandoffsType
      <3>2. {last} \subseteq Receivers(t) BY <2>1
      <3>3. QED BY <2>2, <3>1, <3>2, HandoffsType
    <2>4. Evidence(m, t) \in Seq(Artifact) BY EvidenceType
    <2>5. QED
      <3> HIDE DEF a, earlier
      <3>1. DieWith(execs, Evidence(m, t), handoffs \cup earlier)
            \/ DieWith(execs, Evidence(m, t),
                       handoffs \cup earlier \cup Handoffs(a, {last}, "pending"))
        BY <2>1 DEF a, earlier
      <3>2. QED BY <1>0, <2>3, <2>4, <3>1, DieTypes
  <1>4. QED BY <1>1, <1>2, <1>3 DEF Death

LEMMA TypeStep == TypeOK /\ [Next]_vars => TypeOK'
  <1> SUFFICES ASSUME TypeOK, [Next]_vars PROVE TypeOK' OBVIOUS
  <1>1. ASSUME NEW m \in Missions, Expire(m) PROVE TypeOK'
    BY <1>1 DEF Expire, TypeOK, stores, pass
  <1>2. ASSUME NEW i \in DOMAIN execs, NEW to \in Moves, MoveExecution(i, to)
        PROVE  TypeOK'
    <2>1. execs \in Seq(Exec) /\ to \in Statuses
      BY EnvironmentAssumption DEF TypeOK
    <2>2. execs' = [execs EXCEPT ![i] = [execs[i] EXCEPT !.status = to]]
      BY <1>2 DEF MoveExecution
    <2>3. [execs[i] EXCEPT !.status = to] \in Exec BY <2>1, ExecUpdate
    <2>4. execs' \in Seq(Exec) BY <2>1, <2>2, <2>3
    <2>5. QED BY <1>2, <2>4 DEF MoveExecution, TypeOK, pass
  <1>3. CASE BeginPass BY <1>3 DEF BeginPass, TypeOK, stores
  <1>4. CASE UNCHANGED vars BY <1>4 DEF TypeOK, vars
  <1>5. QED
    BY <1>1, <1>2, <1>3, <1>4, RequestTypes, ReconcileTypes, VaultTypes, DeathTypes DEF Next

(* The type invariant of MissionAuthority.                                 *)
THEOREM TypeCorrect == Spec => []TypeOK
  BY TypeInit, TypeStep, PTL DEF Spec

-----------------------------------------------------------------------------
(* The approval gate.  ApprovalGate speaks of the missions on disk, while  *)
(* the pass dispatches from memory.  What ties the two: a mission running  *)
(* in memory is approved on disk, with the same approvals of its tasks,    *)
(* and no mission that has begun loses an approval.                        *)
Begun == TerminalMissionStates \cup {"running"}

Gate(mission, t) ==
  mission.approved /\ mission.status \in Begun /\ mission.tasks[t].approval # "pending"

(* Only an approved mission is ready to run or has tasks that were.        *)
Sound(mission) ==
  /\ mission.status \in {"approved", "running"} => mission.approved
  /\ \A t \in Tasks :
       mission.tasks[t].status # "pending" \/ mission.tasks[t].exec # None
         => mission.approved

SameApprovals(a, b) ==
  a.approved = b.approved /\ \A t \in Tasks : a.tasks[t].approval = b.tasks[t].approval

(* From mission a to mission b nothing is lost of what the gate asks.      *)
Grows(a, b) ==
  a.status \in Begun =>
    /\ b.status \in Begun
    /\ a.approved => b.approved
    /\ \A t \in Tasks : a.tasks[t].approval # "pending" => b.tasks[t].approval # "pending"

AllSound == \A m \in Missions : Sound(missions[m]) /\ Sound(saved[m])

ExecsGated ==
  \A i \in DOMAIN execs : /\ Gate(missions[execs[i].mission], execs[i].task)
                          /\ Gate(saved[execs[i].mission], execs[i].task)

RunningIsSaved ==
  \A m \in Missions : missions[m].status = "running" =>
    saved[m].status \in Begun /\ SameApprovals(missions[m], saved[m])

ApprovingRunning ==
  pc = "approve" => \A m \in Missions : Current(m) => missions[m].status = "running"

GateInv == TypeOK /\ AllSound /\ ExecsGated /\ RunningIsSaved /\ ApprovingRunning

(* There is one current mission at most.                                   *)
LEMMA CurrentUnique ==
  ASSUME TypeOK, NEW m \in Missions, NEW n \in Missions, Current(m), Current(n)
  PROVE  m = n
  BY DEF TypeOK, Current, Smallest, Missions

(* A step that saves what it makes run, and takes nothing from a mission   *)
(* that has begun, keeps the gate closed.                                  *)
LEMMA GateKept ==
  ASSUME GateInv, TypeOK', NEW m \in Missions,
         \A n \in Missions : n # m => missions'[n] = missions[n],
         Sound(missions'[m]),
         Grows(missions[m], missions'[m]),
         saved' = saved \/ saved' = missions',
         missions'[m].status = "running" =>
           \/ saved' = missions'
           \/ missions[m].status = "running" /\ SameApprovals(missions[m], missions'[m]),
         DOMAIN execs' = DOMAIN execs,
         \A i \in DOMAIN execs :
           execs'[i].mission = execs[i].mission /\ execs'[i].task = execs[i].task,
         pc' # "approve"
  PROVE  GateInv'
  <1>0. TypeOK BY DEF GateInv
  <1>1. \A n \in Missions : Grows(missions[n], missions'[n])
    BY DEF Grows
  <1>2. \A n \in Missions : Sound(missions'[n])
    BY DEF GateInv, AllSound
  <1>3. AllSound'
    BY <1>2 DEF GateInv, AllSound, Sound
  <1>4. ExecsGated'
    <2>1. SUFFICES ASSUME NEW i \in DOMAIN execs
                   PROVE  /\ Gate(missions'[execs'[i].mission], execs'[i].task)
                          /\ Gate(saved'[execs'[i].mission], execs'[i].task)
      BY DEF ExecsGated
    <2>0. execs[i] \in Exec BY <1>0 DEF TypeOK
    <2> DEFINE n == execs[i].mission
               t == execs[i].task
    <2>2. n \in Missions /\ t \in Tasks BY <2>0 DEF Exec
    <2>3. Gate(missions[n], t) /\ Gate(saved[n], t) BY DEF GateInv, ExecsGated
    <2>4. Gate(missions'[n], t) BY <1>1, <2>2, <2>3 DEF Gate, Grows
    <2>5. Gate(saved'[n], t) BY <2>3, <2>4
    <2>6. execs'[i].mission = n /\ execs'[i].task = t OBVIOUS
    <2>7. QED BY <2>4, <2>5, <2>6
  <1>5. RunningIsSaved'
    <2>1. SUFFICES ASSUME NEW n \in Missions, missions'[n].status = "running"
                   PROVE  saved'[n].status \in Begun /\ SameApprovals(missions'[n], saved'[n])
      BY DEF RunningIsSaved
    <2>2. CASE saved' = missions' BY <2>1, <2>2 DEF SameApprovals, Begun
    <2>3. CASE saved' = saved /\ saved' # missions'
      <3>1. missions[n].status = "running" /\ SameApprovals(missions[n], missions'[n])
        BY <2>1, <2>3 DEF SameApprovals
      <3>2. saved[n].status \in Begun /\ SameApprovals(missions[n], saved[n])
        BY <3>1 DEF GateInv, RunningIsSaved
      <3>3. QED BY <2>3, <3>1, <3>2 DEF SameApprovals
    <2>4. QED BY <2>2, <2>3
  <1>6. ApprovingRunning' BY DEF ApprovingRunning
  <1>7. QED BY <1>3, <1>4, <1>5, <1>6 DEF GateInv

(* Cancelling and recovering executions changes nothing but statuses.      *)
LEMMA StopWorkKeeps ==
  ASSUME TypeOK, NEW m, NEW ts
  PROVE  /\ DOMAIN StopWork(m, ts) = DOMAIN execs
         /\ \A i \in DOMAIN execs : /\ StopWork(m, ts)[i].mission = execs[i].mission
                                    /\ StopWork(m, ts)[i].task = execs[i].task
  <1>1. \A i \in DOMAIN execs : execs[i] \in Exec BY DEF TypeOK
  <1>2. QED BY <1>1 DEF StopWork, Exec

LEMMA RecoveredKeeps ==
  ASSUME NEW es \in Seq(Exec)
  PROVE  /\ DOMAIN Recovered(es) = DOMAIN es
         /\ \A i \in DOMAIN es : /\ Recovered(es)[i].mission = es[i].mission
                                 /\ Recovered(es)[i].task = es[i].task
  <1>1. \A i \in DOMAIN es : es[i] \in Exec OBVIOUS
  <1>2. QED BY <1>1 DEF Recovered, Exec

LEMMA GateInit == Init => GateInv
  <1> SUFFICES ASSUME Init PROVE GateInv OBVIOUS
  <1>1. TypeOK BY TypeInit
  <1>2. \A m \in Missions : Sound(NoMission) BY DEF Sound, NoMission, NewTask
  <1>3. AllSound BY <1>2 DEF Init, AllSound
  <1>4. ExecsGated BY DEF Init, ExecsGated
  <1>5. RunningIsSaved /\ ApprovingRunning
    BY DEF Init, RunningIsSaved, ApprovingRunning, NoMission
  <1>6. QED BY <1>1, <1>3, <1>4, <1>5 DEF GateInv

LEMMA RequestsKeepGate == GateInv /\ Requests => GateInv'
  <1> SUFFICES ASSUME GateInv, Requests PROVE GateInv' OBVIOUS
  <1>0. TypeOK /\ TypeOK' BY RequestTypes DEF GateInv
  <1> USE <1>0
  <1> USE DEF MissionTable
  <1>1. ASSUME NEW m \in Missions, NEW type \in MissionTypes, NEW budget \in AttemptBudgets,
               NEW talks \in Conversations, Create(m, type, budget, talks)
        PROVE  GateInv'
    <2>1. /\ missions[m].status = "absent"
          /\ missions'[m] = NewMission(type, budget, talks)
          /\ \A n \in Missions : n # m => missions'[n] = missions[n]
      BY <1>1, MissionFields DEF Create, Smallest
    <2>2. /\ Sound(missions'[m])
          /\ Grows(missions[m], missions'[m])
          /\ missions'[m].status # "running"
      BY <2>1 DEF Sound, Grows, Begun, TerminalMissionStates, NewMission, NewTask
    <2>3. QED
      BY <1>1, <2>1, <2>2, GateKept DEF Create, Save, stores, pass, Interruptible
  <1>2. ASSUME NEW m \in Missions, Approve(m) PROVE GateInv'
    <2>1. /\ missions[m].status = "awaiting-approval"
          /\ missions'[m].status = "approved" /\ missions'[m].approved
          /\ \A n \in Missions : n # m => missions'[n] = missions[n]
      BY <1>2, MissionFields DEF Approve, Mission
    <2>2. Sound(missions'[m]) /\ Grows(missions[m], missions'[m])
      BY <2>1 DEF Sound, Grows, Begun, TerminalMissionStates
    <2>3. QED
      BY <1>2, <2>1, <2>2, GateKept DEF Approve, Save, stores, pass, Interruptible
  <1>2a. ASSUME NEW m \in Missions, ApproveThrows(m) PROVE GateInv'
    <2>1. /\ missions[m].status = "awaiting-approval" /\ Sound(missions[m])
          /\ missions'[m].status = "awaiting-approval"
          /\ \A n \in Missions : n # m => missions'[n] = missions[n]
          /\ UNCHANGED <<saved, execs, pc>> /\ pc # "approve"
      BY <1>2a, ThrownApproval DEF GateInv, AllSound
    <2>2. Sound(missions'[m]) BY <1>2a, <2>1, ThrownApproval DEF Sound
    <2>3. Grows(missions[m], missions'[m]) BY <2>1 DEF Grows, Begun, TerminalMissionStates
    <2>4. QED BY <2>1, <2>2, <2>3, GateKept
  <1>3. ASSUME NEW m \in Missions, Start(m) PROVE GateInv'
    <2>1. /\ missions[m].status = "approved"
          /\ missions'[m] = [missions[m] EXCEPT !.status = "running"]
          /\ \A n \in Missions : n # m => missions'[n] = missions[n]
      BY <1>3, MissionFields DEF Start
    <2>2. missions[m] \in Mission /\ Sound(missions[m])
      BY MissionFields DEF GateInv, AllSound
    <2>3. Sound(missions'[m]) /\ Grows(missions[m], missions'[m])
      BY <2>1, <2>2 DEF Sound, Grows, Begun, TerminalMissionStates, Mission
    <2>4. QED
      BY <1>3, <2>1, <2>3, GateKept DEF Start, Save, stores, pass, Interruptible
  <1>4. ASSUME NEW m \in Missions, Cancel(m) PROVE GateInv'
    <2> DEFINE tasks == SetTasks(m, CancelTargets(m), "cancelled")
    <2>1. /\ missions'[m] = [missions[m] EXCEPT !.tasks = tasks, !.status = "cancelled"]
          /\ \A n \in Missions : n # m => missions'[n] = missions[n]
      BY <1>4, MissionFields DEF Cancel
    <2>2. missions[m] \in Mission /\ Sound(missions[m])
      BY MissionFields DEF GateInv, AllSound
    <2>3. \A t \in Tasks :
            /\ tasks[t].approval = missions[m].tasks[t].approval
            /\ tasks[t].status # "pending" \/ tasks[t].exec # None
                 => missions[m].tasks[t].status # "pending" \/ missions[m].tasks[t].exec # None
      BY MissionFields DEF SetTasks, CancelTargets, HasTaskIn, Task
    <2>4. Sound(missions'[m]) /\ Grows(missions[m], missions'[m])
      <3> HIDE DEF tasks
      <3>1. QED
        BY <2>1, <2>2, <2>3 DEF Sound, Grows, Begun, TerminalMissionStates, Mission
    <2>5. missions'[m].status # "running"
      BY <2>1, <2>2 DEF Mission
    <2>6. /\ DOMAIN execs' = DOMAIN execs
          /\ \A i \in DOMAIN execs :
               execs'[i].mission = execs[i].mission /\ execs'[i].task = execs[i].task
      BY <1>4, StopWorkKeeps DEF Cancel
    <2>7. QED
      BY <1>4, <2>1, <2>4, <2>5, <2>6, GateKept
         DEF Cancel, Save, pass, Interruptible
  <1>5. ASSUME NEW m \in Missions, NEW t \in Tasks, RetryTask(m, t) PROVE GateInv'
    <2>1. /\ missions'[m].status = "running"
          /\ SameApprovals(missions[m], missions'[m])
          /\ \A n \in Missions : n # m => missions'[n] = missions[n]
      BY <1>5, MissionFields DEF RetryTask, Mission, Task, SameApprovals
    <2>2. missions[m].approved
      BY <1>5 DEF RetryTask, GateInv, AllSound, Sound
    <2>3. Sound(missions'[m]) /\ Grows(missions[m], missions'[m])
      BY <2>1, <2>2 DEF SameApprovals, Sound, Grows, Begun
    <2>4. QED
      BY <1>5, <2>1, <2>3, GateKept DEF RetryTask, Save, stores, pass, Interruptible
  <1>6. QED BY <1>1, <1>2, <1>2a, <1>3, <1>4, <1>5 DEF Requests

(* The pass, up to the vault.  Its steps save nothing that was not         *)
(* approved before they began.                                             *)
LEMMA ReconcileKeepsGate == GateInv /\ Reconcile => GateInv'
  <1> SUFFICES ASSUME GateInv, Reconcile PROVE GateInv' OBVIOUS
  <1>0. TypeOK /\ TypeOK' BY ReconcileTypes DEF GateInv
  <1> USE <1>0
  <1> USE DEF MissionTable
  <1>1. ASSUME NEW m \in Missions, TimeOut(m) PROVE GateInv'
    <2> DEFINE targets == {t \in Tasks : HasTaskIn(m, t, {"running"})}
               tasks == SetTasks(m, targets, "cancelled")
    <2>1. /\ missions'[m] = [missions[m] EXCEPT !.tasks = tasks, !.status = "failed"]
          /\ \A n \in Missions : n # m => missions'[n] = missions[n]
      BY <1>1, MissionFields DEF TimeOut
    <2>2. missions[m] \in Mission /\ Sound(missions[m])
      BY MissionFields DEF GateInv, AllSound
    <2>3. \A t \in Tasks :
            /\ tasks[t].approval = missions[m].tasks[t].approval
            /\ tasks[t].status # "pending" \/ tasks[t].exec # None
                 => missions[m].tasks[t].status # "pending" \/ missions[m].tasks[t].exec # None
      BY MissionFields DEF SetTasks, HasTaskIn, Task
    <2>4. Sound(missions'[m]) /\ Grows(missions[m], missions'[m])
      <3> HIDE DEF tasks
      <3>1. QED
        BY <2>1, <2>2, <2>3 DEF Sound, Grows, Begun, TerminalMissionStates, Mission
    <2>5. missions'[m].status # "running"
      BY <2>1, <2>2 DEF Mission
    <2>6. /\ DOMAIN execs' = DOMAIN execs
          /\ \A i \in DOMAIN execs :
               execs'[i].mission = execs[i].mission /\ execs'[i].task = execs[i].task
      BY <1>1, StopWorkKeeps DEF TimeOut
    <2>7. QED
      BY <1>1, <2>1, <2>4, <2>5, <2>6, GateKept DEF TimeOut, Save, NextMission
  (* A settled task leaves the approvals alone and its mission begun.      *)
  <1>2. ASSUME NEW m \in Missions, SameApprovals(missions[m], missions'[m]),
               \A n \in Missions : n # m => missions'[n] = missions[n],
               missions[m].approved,
               \/ missions'[m].status = missions[m].status
               \/ missions'[m].status \in TerminalMissionStates,
               UNCHANGED saved,
               DOMAIN execs' = DOMAIN execs,
               \A i \in DOMAIN execs :
                 execs'[i].mission = execs[i].mission /\ execs'[i].task = execs[i].task,
               pc' # "approve"
        PROVE  GateInv'
    <2>1. Sound(missions'[m]) /\ Grows(missions[m], missions'[m])
      BY <1>2 DEF Sound, Grows, Begun, SameApprovals
    <2>2. missions'[m].status = "running" => missions[m].status = "running"
      BY <1>2 DEF TerminalMissionStates
    <2>3. QED BY <1>2, <2>1, <2>2, GateKept
  <1>3. ASSUME NEW m \in Missions, NEW t \in Tasks, Settling(m, t)
        PROVE  missions[m].approved /\ pc # "approve"
    BY <1>3 DEF Settling, Smallest, Due, HasTaskIn, GateInv, AllSound, Sound
  <1>4. ASSUME NEW m \in Missions, NEW t \in Tasks, CompleteTask(m, t) PROVE GateInv'
    <2>1. /\ missions'[m].status = missions[m].status
          /\ SameApprovals(missions[m], missions'[m])
          /\ \A n \in Missions : n # m => missions'[n] = missions[n]
      BY <1>4, MissionFields DEF CompleteTask, Mission, Task, SameApprovals
    <2>2. Settling(m, t) BY <1>4 DEF CompleteTask
    <2>3. QED BY <1>2, <1>3, <1>4, <2>1, <2>2 DEF CompleteTask
  <1>5. ASSUME NEW m \in Missions, NEW t \in Tasks, ScheduleRetry(m, t) PROVE GateInv'
    <2>1. /\ missions'[m].status = missions[m].status
          /\ SameApprovals(missions[m], missions'[m])
          /\ \A n \in Missions : n # m => missions'[n] = missions[n]
      BY <1>5, MissionFields DEF ScheduleRetry, Mission, Task, SameApprovals
    <2>2. Settling(m, t) BY <1>5 DEF ScheduleRetry
    <2>3. QED BY <1>2, <1>3, <1>5, <2>1, <2>2 DEF ScheduleRetry, stores
  <1>6. ASSUME NEW m \in Missions, NEW t \in Tasks, EndTask(m, t) PROVE GateInv'
    <2>1. /\ missions'[m].status = ExecStatus(m, t)
          /\ SameApprovals(missions[m], missions'[m])
          /\ \A n \in Missions : n # m => missions'[n] = missions[n]
      BY <1>6, MissionFields DEF EndTask, Mission, Task, SameApprovals
    <2>2. Settling(m, t) /\ ExecStatus(m, t) \in TerminalMissionStates
      BY <1>6 DEF EndTask, TerminalMissionStates
    <2>3. QED BY <1>2, <1>3, <1>6, <2>1, <2>2 DEF EndTask, stores
  (* The one step that adds an execution: its mission runs in memory, so   *)
  (* it has begun on disk and has the same approvals there.                *)
  <1>7. ASSUME NEW m \in Missions, NEW t \in Tasks, ProposeExecution(m, t) PROVE GateInv'
    <2>1. /\ missions[m].status = "running" /\ Current(m)
          /\ missions[m].tasks[t].approval # "pending"
      BY <1>7 DEF ProposeExecution, Dispatching, Settled, Smallest, Ready
    <2>2. Gate(missions[m], t) /\ Gate(saved[m], t)
      BY <2>1 DEF Gate, GateInv, AllSound, Sound, RunningIsSaved, SameApprovals, Begun
    <2>3. execs' = Append(execs, [mission |-> m, task |-> t, status |-> "proposed"])
      BY <1>7 DEF ProposeExecution
    <2>4. \A i \in DOMAIN execs' :
            \/ i \in DOMAIN execs /\ execs'[i] = execs[i]
            \/ execs'[i] = [mission |-> m, task |-> t, status |-> "proposed"]
      BY <2>3 DEF TypeOK
    <2>5. ExecsGated'
      <3>1. SUFFICES ASSUME NEW i \in DOMAIN execs'
                     PROVE  /\ Gate(missions[execs'[i].mission], execs'[i].task)
                            /\ Gate(saved[execs'[i].mission], execs'[i].task)
        BY <1>7 DEF ExecsGated, ProposeExecution
      <3>2. QED BY <2>2, <2>4 DEF GateInv, ExecsGated
    <2>6. ApprovingRunning'
      BY <1>7, <2>1, CurrentUnique
         DEF ApprovingRunning, ProposeExecution, Current, Smallest
    <2>7. QED
      BY <1>7, <2>5, <2>6 DEF ProposeExecution, GateInv, AllSound, RunningIsSaved
  <1>8. ASSUME NEW m \in Missions, NEW t \in Tasks, ApproveExecution(m, t) PROVE GateInv'
    <2>1. /\ missions'[m].status = missions[m].status
          /\ SameApprovals(missions[m], missions'[m])
          /\ \A n \in Missions : n # m => missions'[n] = missions[n]
      <3> DEFINE task == [missions[m].tasks[t] EXCEPT !.status = "running",
                             !.exec = Len(execs), !.attempts = @ + 1]
      <3>1. missions' = [missions EXCEPT
               ![m].tasks[t] = [@ EXCEPT !.status = "running", !.exec = Len(execs),
                                         !.attempts = @ + 1],
               ![m].used = @ + 1]
        BY <1>8 DEF ApproveExecution
      <3>2. missions' = [missions EXCEPT ![m].tasks[t] = task,
                                         ![m].used = missions[m].used + 1]
        BY <3>1, MissionFields DEF Mission, Task
      <3>3. task.approval = missions[m].tasks[t].approval
        BY MissionFields DEF Task
      <3> HIDE DEF task
      <3>4. QED BY <3>2, <3>3, MissionFields DEF Mission, SameApprovals
    <2>2. missions[m].approved
      BY <1>8 DEF ApproveExecution, GateInv, ApprovingRunning, AllSound, Sound
    <2>3. /\ DOMAIN execs' = DOMAIN execs
          /\ \A i \in DOMAIN execs :
               execs'[i].mission = execs[i].mission /\ execs'[i].task = execs[i].task
      <3>1. \A i \in DOMAIN execs : execs[i] \in Exec BY DEF TypeOK
      <3>2. QED BY <1>8, <3>1 DEF ApproveExecution, Exec
    <2>4. QED BY <1>2, <1>8, <2>1, <2>2, <2>3 DEF ApproveExecution
  <1>1a. ASSUME NEW m \in Missions, ExecutionNotFound(m) PROVE GateInv'
    BY <1>1a DEF ExecutionNotFound, AbortPass, GateInv, AllSound, ExecsGated, RunningIsSaved,
       ApprovingRunning, stores
  <1>9. ASSUME NEW m \in Missions, NEW t \in Tasks, DispatchRefused(m, t) PROVE GateInv'
    BY <1>9 DEF DispatchRefused, AbortPass, GateInv, AllSound, ExecsGated, RunningIsSaved,
       ApprovingRunning, stores
  <1>10. ASSUME NEW m \in Missions, CompleteMission(m) PROVE GateInv'
    <2>1. /\ missions'[m].status = "completed"
          /\ SameApprovals(missions[m], missions'[m])
          /\ \A n \in Missions : n # m => missions'[n] = missions[n]
      BY <1>10, MissionFields DEF CompleteMission, Mission, SameApprovals
    <2>2. missions[m].approved
      BY <1>10 DEF CompleteMission, GateInv, AllSound, Sound
    <2>3. QED BY <1>2, <1>10, <2>1, <2>2 DEF CompleteMission, TerminalMissionStates
  <1>11. ASSUME NEW m \in Missions, Leave(m) PROVE GateInv'
    <2>1. saved' = saved \/ saved' = missions' BY <1>11 DEF Leave
    <2>2. Sound(missions[m]) BY DEF GateInv, AllSound
    <2>3. SameApprovals(missions[m], missions[m]) /\ Grows(missions[m], missions[m])
      BY DEF SameApprovals, Grows
    <2>4. QED
      BY <1>11, <2>1, <2>2, <2>3, GateKept DEF Leave, NextMission, stores
  <1>12. QED
    BY <1>1, <1>1a, <1>4, <1>5, <1>6, <1>7, <1>8, <1>9, <1>10, <1>11 DEF Reconcile

LEMMA VaultKeepsGate == GateInv /\ Vault => GateInv'
  <1> SUFFICES ASSUME GateInv, Vault PROVE GateInv' OBVIOUS
  <1>0. TypeOK /\ TypeOK' BY VaultTypes DEF GateInv
  <1> USE <1>0
  <1> USE DEF MissionTable
  <1>1. ASSUME NEW m \in Missions, VaultDone(m) PROVE GateInv'
    <2>1. /\ missions'[m] = [missions[m] EXCEPT !.projected = TRUE]
          /\ \A n \in Missions : n # m => missions'[n] = missions[n]
      BY <1>1, MissionFields DEF VaultDone
    <2>2. missions[m] \in Mission /\ Sound(missions[m])
      BY MissionFields DEF GateInv, AllSound
    <2>3. /\ missions'[m].status = missions[m].status
          /\ SameApprovals(missions[m], missions'[m])
          /\ Sound(missions'[m]) /\ Grows(missions[m], missions'[m])
      BY <2>1, <2>2 DEF SameApprovals, Sound, Grows, Mission
    <2>4. saved' = saved \/ saved' = missions' BY <1>1 DEF VaultDone, Save
    <2>5. QED
      BY <1>1, <2>1, <2>3, <2>4, GateKept DEF VaultDone, NextMission, AbortPass, stores
  <1>2. ASSUME NEW m \in Missions, VaultFailed(m) PROVE GateInv'
    BY <1>2 DEF VaultFailed, AbortPass, GateInv, AllSound, ExecsGated, RunningIsSaved,
       ApprovingRunning, stores
  <1>3. QED BY <1>1, <1>2 DEF Vault

(* After a crash memory is the disk, where every execution was gated too.  *)
LEMMA DieKeepsGate ==
  ASSUME GateInv, TypeOK', NEW es \in Seq(Exec), NEW as, NEW hs, DieWith(es, as, hs),
         DOMAIN es = DOMAIN execs,
         \A i \in DOMAIN execs : es[i].mission = execs[i].mission /\ es[i].task = execs[i].task
  PROVE  GateInv'
  <1>1. /\ DOMAIN execs' = DOMAIN execs
        /\ \A i \in DOMAIN execs :
             execs'[i].mission = execs[i].mission /\ execs'[i].task = execs[i].task
    BY RecoveredKeeps DEF DieWith
  <1>2. missions' = saved /\ saved' = saved /\ pc' = "idle"
    BY DEF DieWith, AbortPass
  <1>3. AllSound' BY <1>2 DEF GateInv, AllSound
  <1>4. ExecsGated' BY <1>1, <1>2 DEF GateInv, ExecsGated
  <1>5. RunningIsSaved' BY <1>2 DEF RunningIsSaved, SameApprovals, Begun
  <1>6. ApprovingRunning' BY <1>2 DEF ApprovingRunning
  <1>7. QED BY <1>3, <1>4, <1>5, <1>6 DEF GateInv

LEMMA DeathKeepsGate == GateInv /\ Death => GateInv'
  <1> SUFFICES ASSUME GateInv, Death PROVE GateInv' OBVIOUS
  <1>0. TypeOK /\ TypeOK' BY DeathTypes DEF GateInv
  <1>1. execs \in Seq(Exec) BY <1>0 DEF TypeOK
  <1>2. CASE Crash BY <1>0, <1>1, <1>2, DieKeepsGate DEF Crash
  <1>3. ASSUME NEW m \in Missions, StopInterrupted(m) PROVE GateInv'
    BY <1>0, <1>3, StopWorkType, StopWorkKeeps, DieKeepsGate DEF StopInterrupted
  <1>4. ASSUME NEW m \in Missions, NEW t \in Tasks, CompleteTaskInterrupted(m, t)
        PROVE  GateInv'
    BY <1>0, <1>1, <1>4, DieKeepsGate DEF CompleteTaskInterrupted
  <1>5. QED BY <1>2, <1>3, <1>4 DEF Death

LEMMA GateStep == GateInv /\ [Next]_vars => GateInv'
  <1> SUFFICES ASSUME GateInv, [Next]_vars PROVE GateInv' OBVIOUS
  <1>0. TypeOK /\ TypeOK' BY TypeStep DEF GateInv
  <1>1. ASSUME NEW m \in Missions, Expire(m) PROVE GateInv'
    BY <1>0, <1>1 DEF Expire, GateInv, AllSound, ExecsGated, RunningIsSaved,
       ApprovingRunning, Current, stores, pass
  <1>2. ASSUME NEW i \in DOMAIN execs, NEW to \in Moves, MoveExecution(i, to)
        PROVE  GateInv'
    <2>1. \A j \in DOMAIN execs : execs[j] \in Exec BY <1>0 DEF TypeOK
    <2>2. /\ DOMAIN execs' = DOMAIN execs
          /\ \A j \in DOMAIN execs :
               execs'[j].mission = execs[j].mission /\ execs'[j].task = execs[j].task
      BY <1>2, <2>1 DEF MoveExecution, Exec
    <2>3. ExecsGated' BY <1>2, <2>2 DEF MoveExecution, GateInv, ExecsGated
    <2>4. QED
      BY <1>0, <1>2, <2>3 DEF MoveExecution, GateInv, AllSound, RunningIsSaved,
         ApprovingRunning, Current, pass
  <1>3. CASE BeginPass
    BY <1>0, <1>3 DEF BeginPass, GateInv, AllSound, ExecsGated, RunningIsSaved,
       ApprovingRunning, stores
  <1>4. CASE UNCHANGED vars
    BY <1>0, <1>4 DEF vars, GateInv, AllSound, ExecsGated, RunningIsSaved,
       ApprovingRunning, Current
  <1>5. QED
    BY <1>1, <1>2, <1>3, <1>4, RequestsKeepGate, ReconcileKeepsGate, VaultKeepsGate,
       DeathKeepsGate DEF Next

(* No execution exists for a mission that was not approved and started on  *)
(* disk, or for a task whose approval is pending there, whatever crashes   *)
(* fall between the writes of the three stores.                            *)
THEOREM GateHolds == Spec => []ApprovalGate
  <1>1. GateInv => ApprovalGate
    BY DEF GateInv, ExecsGated, Gate, Begun, ApprovalGate
  <1>2. QED BY <1>1, GateInit, GateStep, PTL DEF Spec

-----------------------------------------------------------------------------
(* Dependencies and evidence.  DependencyOrder speaks of executions, while *)
(* the pass looks at tasks, and after a crash at those of an older save.   *)
(* What ties them, in memory and on disk alike: a task's execution was     *)
(* made for it, and a completed task has its completed execution and its   *)
(* artifact.  Neither store ever takes such a thing back, so an old save   *)
(* is as good as a new one.                                                *)
Backed(task, m, t, es, as) ==
  /\ task.exec # None =>
       /\ task.exec \in DOMAIN es
       /\ es[task.exec].mission = m /\ es[task.exec].task = t
  /\ task.status = "completed" =>
       /\ task.exec # None
       /\ es[task.exec].status = "completed"
       /\ task.artifact \in DOMAIN as
       /\ as[task.artifact] = [mission |-> m, task |-> t, exec |-> task.exec]

Reported(mission, m, as) ==
  mission.status = "completed" =>
    /\ \A t \in Tasks : mission.tasks[t].status = "completed"
    /\ mission.report \in DOMAIN as
    /\ as[mission.report] = [mission |-> m, task |-> None, exec |-> None]

MissionBacked(mission, m, es, as) ==
  Reported(mission, m, as) /\ \A t \in Tasks : Backed(mission.tasks[t], m, t, es, as)

AllBacked ==
  \A m \in Missions : /\ MissionBacked(missions[m], m, execs, artifacts)
                      /\ MissionBacked(saved[m], m, execs, artifacts)

(* The execution being approved is the last one, proposed for the current  *)
(* mission.                                                                *)
ApprovingLast ==
  pc = "approve" =>
    /\ Len(execs) \in DOMAIN execs
    /\ execs[Len(execs)].status = "proposed"
    /\ Current(execs[Len(execs)].mission)

EvidenceInv == GateInv /\ AllBacked /\ ApprovingLast /\ DependencyOrder

(* What the stores keep: what an execution is for, that it completed, and  *)
(* every artifact.                                                         *)
Kept(es, es2) ==
  \A i \in DOMAIN es :
    /\ i \in DOMAIN es2
    /\ es2[i].mission = es[i].mission /\ es2[i].task = es[i].task
    /\ es[i].status = "completed" => es2[i].status = "completed"

Extended(as, as2) == \A a \in DOMAIN as : a \in DOMAIN as2 /\ as2[a] = as[a]

LEMMA BackedOnward ==
  ASSUME NEW es, NEW es2, NEW as, NEW as2, Kept(es, es2), Extended(as, as2),
         NEW mission, NEW m, MissionBacked(mission, m, es, as)
  PROVE  MissionBacked(mission, m, es2, as2)
  <1>1. ASSUME NEW t \in Tasks, Backed(mission.tasks[t], m, t, es, as)
        PROVE  Backed(mission.tasks[t], m, t, es2, as2)
    <2> DEFINE task == mission.tasks[t]
    <2>1. Backed(task, m, t, es, as) BY <1>1
    <2> HIDE DEF task
    <2>2. task.exec # None => /\ task.exec \in DOMAIN es2
                              /\ es2[task.exec].mission = m /\ es2[task.exec].task = t
      BY <2>1 DEF Backed, Kept
    <2>3. task.status = "completed" => es2[task.exec].status = "completed"
      BY <2>1 DEF Backed, Kept
    <2>4. task.status = "completed" =>
            /\ task.artifact \in DOMAIN as2
            /\ as2[task.artifact] = [mission |-> m, task |-> t, exec |-> task.exec]
      BY <2>1 DEF Backed, Extended
    <2>5. Backed(task, m, t, es2, as2) BY <2>1, <2>2, <2>3, <2>4 DEF Backed
    <2>6. QED BY <2>5 DEF task
  <1>2. Reported(mission, m, as2) BY DEF MissionBacked, Reported, Extended
  <1>3. QED BY <1>1, <1>2 DEF MissionBacked

LEMMA OrderOnward ==
  ASSUME TypeOK, DependencyOrder, Kept(execs, execs'), DOMAIN execs' = DOMAIN execs
  PROVE  DependencyOrder'
  <1>1. SUFFICES ASSUME NEW i \in DOMAIN execs, NEW d \in Dependencies[execs[i].task]
                 PROVE  \E j \in 1 .. (i - 1) : /\ execs'[j].mission = execs'[i].mission
                                                /\ execs'[j].task = d
                                                /\ execs'[j].status = "completed"
    BY DEF DependencyOrder, Kept
  <1>2. PICK j \in 1 .. (i - 1) : /\ execs[j].mission = execs[i].mission
                                  /\ execs[j].task = d
                                  /\ execs[j].status = "completed"
    BY DEF DependencyOrder
  <1>3. j \in DOMAIN execs BY <1>2 DEF TypeOK
  <1>4. QED BY <1>2, <1>3 DEF Kept

(* A step that changes one mission, and keeps it backed, keeps everything. *)
LEMMA EvidenceKept ==
  ASSUME EvidenceInv, GateInv', NEW m \in Missions,
         \A n \in Missions : n # m => missions'[n] = missions[n],
         MissionBacked(missions'[m], m, execs', artifacts'),
         saved' = saved \/ saved' = missions',
         Kept(execs, execs'), DOMAIN execs' = DOMAIN execs,
         Extended(artifacts, artifacts'),
         pc' # "approve"
  PROVE  EvidenceInv'
  <1>1. \A n \in Missions : /\ MissionBacked(missions[n], n, execs', artifacts')
                            /\ MissionBacked(saved[n], n, execs', artifacts')
    BY BackedOnward DEF EvidenceInv, AllBacked
  <1>2. \A n \in Missions : MissionBacked(missions'[n], n, execs', artifacts')
    BY <1>1
  <1>3. AllBacked' BY <1>1, <1>2 DEF AllBacked
  <1>4. DependencyOrder' BY OrderOnward DEF EvidenceInv, GateInv
  <1>5. QED BY <1>3, <1>4 DEF EvidenceInv, ApprovingLast

(* A step that leaves the missions alone.                                  *)
LEMMA EvidenceUntouched ==
  ASSUME EvidenceInv, GateInv', UNCHANGED <<missions, artifacts>>,
         saved' = saved \/ saved' = missions,
         Kept(execs, execs'), DOMAIN execs' = DOMAIN execs,
         pc' # "approve"
  PROVE  EvidenceInv'
  <1>1. AllBacked'
    BY BackedOnward DEF EvidenceInv, AllBacked, Extended
  <1>2. DependencyOrder' BY OrderOnward DEF EvidenceInv, GateInv
  <1>3. QED BY <1>1, <1>2 DEF EvidenceInv, ApprovingLast

LEMMA KeptSame == \A es : Kept(es, es)
  BY DEF Kept

LEMMA ExtendedSame == \A as : Extended(as, as)
  BY DEF Extended

LEMMA ExtendedAppend ==
  ASSUME NEW log \in Seq(Artifact), NEW a \in Artifact
  PROVE  /\ Extended(log, Append(log, a))
         /\ Len(Append(log, a)) \in DOMAIN Append(log, a)
         /\ Append(log, a)[Len(Append(log, a))] = a
  BY DEF Extended

LEMMA StopWorkKept ==
  ASSUME TypeOK, NEW m, NEW ts
  PROVE  Kept(execs, StopWork(m, ts)) /\ DOMAIN StopWork(m, ts) = DOMAIN execs
  <1>1. \A i \in DOMAIN execs : execs[i] \in Exec BY DEF TypeOK
  <1>2. QED BY <1>1 DEF StopWork, Exec, Kept, Live

LEMMA RecoveredKept ==
  ASSUME NEW es, NEW es2 \in Seq(Exec), Kept(es, es2), DOMAIN es2 = DOMAIN es
  PROVE  Kept(es, Recovered(es2)) /\ DOMAIN Recovered(es2) = DOMAIN es
  <1>1. \A i \in DOMAIN es2 : es2[i] \in Exec OBVIOUS
  <1>2. QED BY <1>1 DEF Recovered, Exec, Kept

(* A task that is not completed by a change stays backed.                  *)
LEMMA MarkedBacked ==
  ASSUME NEW task \in Task, NEW m, NEW t, NEW es, NEW as, Backed(task, m, t, es, as)
  PROVE  /\ \A status \in TaskStates \ {"completed"} :
              Backed([task EXCEPT !.status = status], m, t, es, as)
         /\ Backed([task EXCEPT !.status = "pending", !.exec = None], m, t, es, as)
         /\ Backed([task EXCEPT !.approval = "approved"], m, t, es, as)
  BY DEF Task, Backed

LEMMA SetTasksBacked ==
  ASSUME TypeOK, NEW m \in Missions, NEW ts, NEW status \in TaskStates \ {"completed"},
         NEW es, NEW as, \A t \in Tasks : Backed(missions[m].tasks[t], m, t, es, as)
  PROVE  \A t \in Tasks : Backed(SetTasks(m, ts, status)[t], m, t, es, as)
  BY MissionFields, MarkedBacked DEF SetTasks

(* One task of a mission replaced by one that is backed.                   *)
LEMMA TaskReplaced ==
  ASSUME TypeOK, NEW m \in Missions, NEW t \in Tasks, NEW task, NEW mission,
         mission.tasks = [missions[m].tasks EXCEPT ![t] = task],
         mission.status # "completed",
         NEW es, NEW as, MissionBacked(missions[m], m, es, as), Backed(task, m, t, es, as)
  PROVE  MissionBacked(mission, m, es, as)
  BY MissionFields DEF MissionBacked, Reported

LEMMA EvidenceInit == Init => EvidenceInv
  <1> SUFFICES ASSUME Init PROVE EvidenceInv OBVIOUS
  <1>1. \A m, es, as : MissionBacked(NoMission, m, es, as)
    <2>1. \A m, t, es, as : Backed(NewTask(FALSE), m, t, es, as) BY DEF Backed, NewTask
    <2>2. NoMission.status = "absent" /\ \A t \in Tasks : NoMission.tasks[t] = NewTask(FALSE)
      BY DEF NoMission
    <2>3. QED BY <2>1, <2>2 DEF MissionBacked, Reported
  <1>2. AllBacked BY <1>1 DEF Init, AllBacked
  <1>3. QED BY <1>2, GateInit DEF Init, EvidenceInv, ApprovingLast, DependencyOrder

LEMMA RequestsKeepEvidence == EvidenceInv /\ GateInv' /\ Requests => EvidenceInv'
  <1> SUFFICES ASSUME EvidenceInv, GateInv', Requests PROVE EvidenceInv' OBVIOUS
  <1>0. TypeOK BY DEF EvidenceInv, GateInv
  <1>a. ASSUME NEW m \in Missions
        PROVE  /\ MissionBacked(missions[m], m, execs, artifacts)
               /\ \A t \in Tasks : Backed(missions[m].tasks[t], m, t, execs, artifacts)
    BY DEF EvidenceInv, AllBacked, MissionBacked
  <1>1. ASSUME NEW m \in Missions, NEW type \in MissionTypes, NEW budget \in AttemptBudgets,
               NEW talks \in Conversations, Create(m, type, budget, talks)
        PROVE  EvidenceInv'
    <2>1. /\ missions'[m] = NewMission(type, budget, talks)
          /\ \A n \in Missions : n # m => missions'[n] = missions[n]
      BY <1>0, <1>1, MissionFields DEF Create, MissionTable
    <2>2. MissionBacked(missions'[m], m, execs', artifacts')
      BY <2>1 DEF MissionBacked, Reported, Backed, NewMission, NewTask
    <2>3. QED
      BY <1>1, <2>1, <2>2, EvidenceKept, KeptSame, ExtendedSame
         DEF Create, Save, stores, pass, Interruptible
  <1>2. ASSUME NEW m \in Missions, Approve(m) PROVE EvidenceInv'
    <2> DEFINE tasks == [t \in Tasks |-> IF t \in Sensitive[missions[m].type]
                            THEN [missions[m].tasks[t] EXCEPT !.approval = "approved"]
                            ELSE missions[m].tasks[t]]
    <2>1. /\ missions'[m] = [missions[m] EXCEPT !.tasks = tasks, !.approved = TRUE,
                                                !.status = "approved"]
          /\ \A n \in Missions : n # m => missions'[n] = missions[n]
      BY <1>0, <1>2, MissionFields DEF Approve, MissionTable
    <2>2. \A t \in Tasks : Backed(tasks[t], m, t, execs, artifacts)
      BY <1>0, <1>a, MissionFields, MarkedBacked
    <2>3. missions'[m].tasks = tasks /\ missions'[m].status = "approved"
      <3> HIDE DEF tasks
      <3>1. QED BY <1>0, <2>1, MissionFields DEF Mission
    <2>4. MissionBacked(missions'[m], m, execs, artifacts)
      <3> HIDE DEF tasks
      <3>1. QED BY <2>2, <2>3 DEF MissionBacked, Reported
    <2>5. UNCHANGED <<execs, artifacts>> /\ pc' # "approve" /\ saved' = missions'
      BY <1>2 DEF Approve, Save, stores, pass, Interruptible
    <2>6. QED BY <2>1, <2>4, <2>5, EvidenceKept, KeptSame, ExtendedSame
  <1>2a. ASSUME NEW m \in Missions, ApproveThrows(m) PROVE EvidenceInv'
    <2>1. MissionBacked(missions'[m], m, execs, artifacts)
      BY <1>0, <1>a, <1>2a, ThrownApproval DEF MissionBacked, Reported, Backed
    <2>2. /\ \A n \in Missions : n # m => missions'[n] = missions[n]
          /\ UNCHANGED <<execs, artifacts, saved, pc>> /\ pc # "approve"
      BY <1>0, <1>2a, ThrownApproval
    <2>3. QED BY <2>1, <2>2, EvidenceKept, KeptSame, ExtendedSame
  <1>3. ASSUME NEW m \in Missions, Start(m) PROVE EvidenceInv'
    <2>1. /\ missions'[m] = [missions[m] EXCEPT !.status = "running"]
          /\ \A n \in Missions : n # m => missions'[n] = missions[n]
      BY <1>0, <1>3, MissionFields DEF Start, MissionTable
    <2>2. missions'[m].tasks = missions[m].tasks /\ missions'[m].status = "running"
      BY <1>0, <2>1, MissionFields DEF Mission
    <2>3. MissionBacked(missions'[m], m, execs, artifacts)
      BY <1>a, <2>2 DEF MissionBacked, Reported
    <2>4. UNCHANGED <<execs, artifacts>> /\ pc' # "approve" /\ saved' = missions'
      BY <1>3 DEF Start, Save, stores, pass, Interruptible
    <2>5. QED BY <2>1, <2>3, <2>4, EvidenceKept, KeptSame, ExtendedSame
  <1>4. ASSUME NEW m \in Missions, Cancel(m) PROVE EvidenceInv'
    <2> DEFINE tasks == SetTasks(m, CancelTargets(m), "cancelled")
    <2>1. /\ missions'[m] = [missions[m] EXCEPT !.tasks = tasks, !.status = "cancelled"]
          /\ \A n \in Missions : n # m => missions'[n] = missions[n]
      BY <1>0, <1>4, MissionFields DEF Cancel, MissionTable
    <2>2. Kept(execs, execs') /\ DOMAIN execs' = DOMAIN execs
      BY <1>0, <1>4, StopWorkKept DEF Cancel
    <2>3. artifacts' = artifacts BY <1>4 DEF Cancel
    <2>4. \A t \in Tasks : Backed(missions[m].tasks[t], m, t, execs', artifacts')
      BY <1>a, <2>2, <2>3, BackedOnward, ExtendedSame DEF MissionBacked
    <2>5. \A t \in Tasks : Backed(tasks[t], m, t, execs', artifacts')
      BY <1>0, <2>4, SetTasksBacked DEF TaskStates
    <2>6. missions'[m].tasks = tasks /\ missions'[m].status = "cancelled"
      <3> HIDE DEF tasks
      <3>1. QED BY <1>0, <2>1, MissionFields DEF Mission
    <2>7. MissionBacked(missions'[m], m, execs', artifacts')
      <3> HIDE DEF tasks
      <3>1. QED BY <2>5, <2>6 DEF MissionBacked, Reported
    <2>8. QED
      BY <1>4, <2>1, <2>2, <2>3, <2>7, EvidenceKept, ExtendedSame
         DEF Cancel, Save, pass, Interruptible
  <1>5. ASSUME NEW m \in Missions, NEW t \in Tasks, RetryTask(m, t) PROVE EvidenceInv'
    <2> DEFINE task == [missions[m].tasks[t] EXCEPT !.status = "pending", !.exec = None]
    <2>1. /\ missions'[m].tasks = [missions[m].tasks EXCEPT ![t] = task]
          /\ missions'[m].status = "running"
          /\ \A n \in Missions : n # m => missions'[n] = missions[n]
      BY <1>0, <1>5, MissionFields DEF RetryTask, MissionTable, Mission
    <2>2. Backed(task, m, t, execs, artifacts) BY <1>0, <1>a, MissionFields, MarkedBacked
    <2>3. MissionBacked(missions'[m], m, execs, artifacts)
      <3> HIDE DEF task
      <3>1. QED BY <1>0, <1>a, <2>1, <2>2, TaskReplaced
    <2>4. UNCHANGED <<execs, artifacts>> /\ pc' # "approve" /\ saved' = missions'
      BY <1>5 DEF RetryTask, Save, stores, pass, Interruptible
    <2>5. QED BY <2>1, <2>3, <2>4, EvidenceKept, KeptSame, ExtendedSame
  <1>6. QED BY <1>1, <1>2, <1>2a, <1>3, <1>4, <1>5 DEF Requests

LEMMA ReconcileKeepsEvidence == EvidenceInv /\ GateInv' /\ Reconcile => EvidenceInv'
  <1> SUFFICES ASSUME EvidenceInv, GateInv', Reconcile PROVE EvidenceInv' OBVIOUS
  <1>0. TypeOK BY DEF EvidenceInv, GateInv
  <1>a. ASSUME NEW m \in Missions
        PROVE  /\ MissionBacked(missions[m], m, execs, artifacts)
               /\ \A t \in Tasks : Backed(missions[m].tasks[t], m, t, execs, artifacts)
    BY DEF EvidenceInv, AllBacked, MissionBacked
  (* A mission with a task to settle is not completed.                     *)
  <1>b. ASSUME NEW m \in Missions, NEW t \in Tasks, Settling(m, t)
        PROVE  /\ missions[m].status # "completed"
               /\ missions[m].tasks[t].exec # None
               /\ pc # "approve"
    BY <1>a, <1>b DEF Settling, Smallest, Due, HasTaskIn, MissionBacked, Reported
  <1>1. ASSUME NEW m \in Missions, TimeOut(m) PROVE EvidenceInv'
    <2> DEFINE targets == {t \in Tasks : HasTaskIn(m, t, {"running"})}
               tasks == SetTasks(m, targets, "cancelled")
    <2>1. /\ missions'[m] = [missions[m] EXCEPT !.tasks = tasks, !.status = "failed"]
          /\ \A n \in Missions : n # m => missions'[n] = missions[n]
      BY <1>0, <1>1, MissionFields DEF TimeOut, MissionTable
    <2>2. Kept(execs, execs') /\ DOMAIN execs' = DOMAIN execs
      BY <1>0, <1>1, StopWorkKept DEF TimeOut
    <2>3. artifacts' = artifacts BY <1>1 DEF TimeOut
    <2>4. \A t \in Tasks : Backed(missions[m].tasks[t], m, t, execs', artifacts')
      BY <1>a, <2>2, <2>3, BackedOnward, ExtendedSame DEF MissionBacked
    <2>5. \A t \in Tasks : Backed(tasks[t], m, t, execs', artifacts')
      BY <1>0, <2>4, SetTasksBacked DEF TaskStates
    <2>6. missions'[m].tasks = tasks /\ missions'[m].status = "failed"
      <3> HIDE DEF tasks
      <3>1. QED BY <1>0, <2>1, MissionFields DEF Mission
    <2>7. MissionBacked(missions'[m], m, execs', artifacts')
      <3> HIDE DEF tasks
      <3>1. QED BY <2>5, <2>6 DEF MissionBacked, Reported
    <2>8. QED
      BY <1>1, <2>1, <2>2, <2>3, <2>7, EvidenceKept, ExtendedSame
         DEF TimeOut, Save, NextMission
  <1>2. ASSUME NEW m \in Missions, NEW t \in Tasks, CompleteTask(m, t) PROVE EvidenceInv'
    <2> DEFINE a == [mission |-> m, task |-> t, exec |-> missions[m].tasks[t].exec]
               task == [missions[m].tasks[t] EXCEPT !.status = "completed",
                                                    !.artifact = Len(artifacts')]
    <2>1. /\ missions'[m].tasks = [missions[m].tasks EXCEPT ![t] = task]
          /\ missions'[m].status = missions[m].status
          /\ \A n \in Missions : n # m => missions'[n] = missions[n]
      BY <1>0, <1>2, MissionFields DEF CompleteTask, MissionTable, Mission
    <2>2. /\ artifacts \in Seq(Artifact) /\ a \in Artifact
          /\ artifacts' = Append(artifacts, a)
      BY <1>0, <1>2, MissionFields DEF CompleteTask, Evidence, TypeOK, Artifact, Task
    <2>3. /\ Extended(artifacts, artifacts')
          /\ Len(artifacts') \in DOMAIN artifacts' /\ artifacts'[Len(artifacts')] = a
      <3> HIDE DEF a
      <3>1. QED BY <2>2, ExtendedAppend
    <2>4. MissionBacked(missions[m], m, execs, artifacts')
      BY <1>a, <2>3, BackedOnward, KeptSame
    <2>5. Settling(m, t) /\ execs[missions[m].tasks[t].exec].status = "completed"
      BY <1>2 DEF CompleteTask, ExecStatus
    <2>6. /\ missions[m].tasks[t] \in Task
          /\ task.status = "completed" /\ task.artifact = Len(artifacts')
          /\ task.exec = missions[m].tasks[t].exec
      BY <1>0, MissionFields DEF Task
    <2>7. Backed(task, m, t, execs, artifacts')
      <3> HIDE DEF task
      <3>1. /\ task.exec # None /\ task.exec \in DOMAIN execs
            /\ execs[task.exec].mission = m /\ execs[task.exec].task = t
        <4>1. task.exec # None BY <1>b, <2>5, <2>6
        <4>2. Backed(missions[m].tasks[t], m, t, execs, artifacts) BY <1>a
        <4>3. QED BY <2>6, <4>1, <4>2 DEF Backed
      <3>2. artifacts'[task.artifact] = [mission |-> m, task |-> t, exec |-> task.exec]
        BY <2>3, <2>6 DEF a
      <3> HIDE DEF a
      <3>3. QED BY <2>3, <2>5, <2>6, <3>1, <3>2 DEF Backed
    <2>8. MissionBacked(missions'[m], m, execs, artifacts')
      <3> HIDE DEF task
      <3>1. QED BY <1>0, <1>b, <2>1, <2>4, <2>5, <2>7, TaskReplaced
    <2>9. QED
      BY <1>2, <1>b, <2>1, <2>3, <2>5, <2>8, EvidenceKept, KeptSame DEF CompleteTask
  <1>3. ASSUME NEW m \in Missions, NEW t \in Tasks, ScheduleRetry(m, t) PROVE EvidenceInv'
    <2> DEFINE task == [missions[m].tasks[t] EXCEPT !.status = "pending", !.exec = None]
    <2>1. /\ missions'[m].tasks = [missions[m].tasks EXCEPT ![t] = task]
          /\ missions'[m].status = missions[m].status
          /\ \A n \in Missions : n # m => missions'[n] = missions[n]
      BY <1>0, <1>3, MissionFields DEF ScheduleRetry, MissionTable, Mission
    <2>2. Backed(task, m, t, execs, artifacts) BY <1>0, <1>a, MissionFields, MarkedBacked
    <2>3. Settling(m, t) BY <1>3 DEF ScheduleRetry
    <2>4. MissionBacked(missions'[m], m, execs, artifacts)
      <3> HIDE DEF task
      <3>1. QED BY <1>0, <1>a, <1>b, <2>1, <2>2, <2>3, TaskReplaced
    <2>5. UNCHANGED <<execs, artifacts, saved, pc>>
      BY <1>3 DEF ScheduleRetry, stores
    <2>6. QED BY <1>b, <2>1, <2>3, <2>4, <2>5, EvidenceKept, KeptSame, ExtendedSame
  <1>4. ASSUME NEW m \in Missions, NEW t \in Tasks, EndTask(m, t) PROVE EvidenceInv'
    <2> DEFINE ended == ExecStatus(m, t)
               task == [missions[m].tasks[t] EXCEPT !.status = ended]
    <2>1. ended \in {"failed", "cancelled"} /\ Settling(m, t) BY <1>4 DEF EndTask
    <2>2. /\ missions'[m].tasks = [missions[m].tasks EXCEPT ![t] = task]
          /\ missions'[m].status = ended
          /\ \A n \in Missions : n # m => missions'[n] = missions[n]
      BY <1>0, <1>4, MissionFields DEF EndTask, MissionTable, Mission
    <2>3. Backed(task, m, t, execs, artifacts)
      <3> HIDE DEF ended
      <3>1. QED BY <1>0, <1>a, <2>1, MissionFields, MarkedBacked DEF TaskStates
    <2>4. MissionBacked(missions'[m], m, execs, artifacts)
      <3> HIDE DEF task, ended
      <3>1. QED BY <1>0, <1>a, <2>1, <2>2, <2>3, TaskReplaced
    <2>5. UNCHANGED <<execs, artifacts, saved, pc>>
      BY <1>4 DEF EndTask, stores
    <2>6. QED BY <1>b, <2>1, <2>2, <2>4, <2>5, EvidenceKept, KeptSame, ExtendedSame
  (* The one step that adds an execution: the tasks it waits for are       *)
  (* completed in memory, hence backed by earlier executions.              *)
  <1>5. ASSUME NEW m \in Missions, NEW t \in Tasks, ProposeExecution(m, t)
        PROVE  EvidenceInv'
    <2> DEFINE e == [mission |-> m, task |-> t, status |-> "proposed"]
    <2>1. /\ execs' = Append(execs, e) /\ execs \in Seq(Exec)
          /\ UNCHANGED <<missions, saved, artifacts, queue>>
      BY <1>0, <1>5 DEF ProposeExecution, TypeOK
    <2>2. /\ DOMAIN execs = 1 .. Len(execs) /\ Len(execs) \in Nat
          /\ DOMAIN execs' = 1 .. (Len(execs) + 1) /\ Len(execs') = Len(execs) + 1
          /\ \A i \in 1 .. Len(execs) : execs'[i] = execs[i]
          /\ execs'[Len(execs) + 1] = e
      <3> HIDE DEF e
      <3>1. QED BY <2>1
    <2>3. Kept(execs, execs') BY <2>2 DEF Kept
    <2>4. AllBacked'
      BY <2>1, <2>3, BackedOnward, ExtendedSame DEF EvidenceInv, AllBacked
    <2>5. e.mission = m /\ e.task = t /\ e.status = "proposed" OBVIOUS
    <2>6. Current(m)' BY <1>5, <2>1 DEF ProposeExecution, Dispatching, Settled, Current, Smallest
    <2>7. ApprovingLast' BY <2>2, <2>5, <2>6 DEF ApprovingLast
    <2>8. DependencyOrder'
      <3>1. SUFFICES ASSUME NEW i \in DOMAIN execs', NEW d \in Dependencies[execs'[i].task]
                     PROVE  \E j \in 1 .. (i - 1) : /\ execs'[j].mission = execs'[i].mission
                                                    /\ execs'[j].task = d
                                                    /\ execs'[j].status = "completed"
        BY DEF DependencyOrder
      <3>2. CASE i \in 1 .. Len(execs)
        <4>1. execs'[i] = execs[i] /\ i \in DOMAIN execs BY <2>2, <3>2
        <4>2. PICK j \in 1 .. (i - 1) : /\ execs[j].mission = execs[i].mission
                                        /\ execs[j].task = d
                                        /\ execs[j].status = "completed"
          BY <3>1, <4>1 DEF EvidenceInv, DependencyOrder
        <4>3. j \in 1 .. Len(execs) BY <2>2, <3>2
        <4>4. execs'[j] = execs[j] BY <2>2, <4>3
        <4>5. QED BY <4>1, <4>2, <4>4
      <3>3. CASE i = Len(execs) + 1
        <4>1. execs'[i] = e BY <2>2, <3>3
        <4>2. t \in Ready(m) BY <1>5 DEF ProposeExecution, Dispatching, Smallest
        <4>3. d \in Tasks /\ missions[m].tasks[d].status = "completed"
          BY <2>5, <3>1, <4>1, <4>2, PlanAssumption DEF Ready
        <4> DEFINE j == missions[m].tasks[d].exec
        <4>4. /\ j \in DOMAIN execs /\ execs[j].mission = m /\ execs[j].task = d
              /\ execs[j].status = "completed"
          <5>1. Backed(missions[m].tasks[d], m, d, execs, artifacts) BY <1>a, <4>3
          <5>2. QED BY <4>3, <5>1 DEF Backed
        <4> HIDE DEF j, e
        <4>5. j \in 1 .. (i - 1) /\ execs'[j] = execs[j] BY <2>2, <3>3, <4>4
        <4>6. QED BY <2>5, <4>1, <4>4, <4>5
      <3>4. QED BY <2>2, <3>2, <3>3
    <2>9. QED BY <2>4, <2>7, <2>8 DEF EvidenceInv
  <1>6. ASSUME NEW m \in Missions, NEW t \in Tasks, ApproveExecution(m, t)
        PROVE  EvidenceInv'
    <2> DEFINE last == Len(execs)
               task == [missions[m].tasks[t] EXCEPT !.status = "running", !.exec = last,
                                                    !.attempts = @ + 1]
    <2>1. /\ last \in DOMAIN execs
          /\ execs[last].mission = m /\ execs[last].task = t
          /\ execs[last].status = "proposed"
          /\ execs[last] \in Exec
      <3>1. pc = "approve" /\ Current(m) /\ t = execs[Len(execs)].task
        BY <1>6 DEF ApproveExecution
      <3>2. last \in DOMAIN execs /\ execs[last].status = "proposed"
            /\ Current(execs[last].mission)
        BY <3>1 DEF EvidenceInv, ApprovingLast
      <3>3. execs[last] \in Exec BY <1>0, <3>2 DEF TypeOK
      <3>4. execs[last].mission \in Missions BY <3>3 DEF Exec
      <3>5. execs[last].mission = m BY <1>0, <3>1, <3>2, <3>4, CurrentUnique
      <3>6. QED BY <3>1, <3>2, <3>3, <3>5
    <2>2. /\ DOMAIN execs' = DOMAIN execs
          /\ \A i \in DOMAIN execs : i # last => execs'[i] = execs[i]
          /\ execs'[last].mission = m /\ execs'[last].task = t
      BY <1>6, <2>1 DEF ApproveExecution, Exec
    <2>3. Kept(execs, execs') BY <2>1, <2>2 DEF Kept
    <2>4. /\ missions'[m].tasks = [missions[m].tasks EXCEPT ![t] = task]
          /\ missions'[m].status = missions[m].status
          /\ \A n \in Missions : n # m => missions'[n] = missions[n]
      <3>1. missions' = [missions EXCEPT
               ![m].tasks[t] = [@ EXCEPT !.status = "running", !.exec = Len(execs),
                                         !.attempts = @ + 1],
               ![m].used = @ + 1]
        BY <1>6 DEF ApproveExecution
      <3>2. missions' = [missions EXCEPT ![m].tasks[t] = task,
                                         ![m].used = missions[m].used + 1]
        BY <1>0, <3>1, MissionFields DEF MissionTable, Mission, Task
      <3> HIDE DEF task
      <3>3. QED BY <1>0, <3>2, MissionFields DEF MissionTable, Mission
    <2>5. /\ UNCHANGED <<artifacts, saved>> /\ pc' # "approve"
          /\ missions[m].status = "running"
      BY <1>6 DEF ApproveExecution, EvidenceInv, GateInv, ApprovingRunning
    <2>6. task.status = "running" /\ task.exec = last
      BY <1>0, MissionFields DEF Task
    <2>7. Backed(task, m, t, execs', artifacts')
      <3> HIDE DEF task
      <3>1. QED BY <2>1, <2>2, <2>6 DEF Backed
    <2>8. MissionBacked(missions[m], m, execs', artifacts')
      BY <1>a, <2>3, <2>5, BackedOnward, ExtendedSame
    <2>9. MissionBacked(missions'[m], m, execs', artifacts')
      <3> HIDE DEF task
      <3>1. QED BY <1>0, <2>4, <2>5, <2>7, <2>8, TaskReplaced
    <2>10. QED BY <2>2, <2>3, <2>4, <2>5, <2>9, EvidenceKept, ExtendedSame
  <1>1a. ASSUME NEW m \in Missions, ExecutionNotFound(m) PROVE EvidenceInv'
    BY <1>1a, EvidenceUntouched, KeptSame DEF ExecutionNotFound, AbortPass, stores
  <1>7. ASSUME NEW m \in Missions, NEW t \in Tasks, DispatchRefused(m, t)
        PROVE  EvidenceInv'
    BY <1>7, EvidenceUntouched, KeptSame DEF DispatchRefused, AbortPass, stores
  <1>8. ASSUME NEW m \in Missions, CompleteMission(m) PROVE EvidenceInv'
    <2> DEFINE a == [mission |-> m, task |-> None, exec |-> None]
    <2>1. /\ missions'[m].tasks = missions[m].tasks
          /\ missions'[m].report = Len(artifacts')
          /\ \A n \in Missions : n # m => missions'[n] = missions[n]
      BY <1>0, <1>8, MissionFields DEF CompleteMission, MissionTable, Mission
    <2>2. /\ artifacts \in Seq(Artifact) /\ a \in Artifact
          /\ artifacts' = Append(artifacts, a)
      BY <1>0, <1>8 DEF CompleteMission, TypeOK, Artifact, None
    <2>3. /\ Extended(artifacts, artifacts')
          /\ Len(artifacts') \in DOMAIN artifacts' /\ artifacts'[Len(artifacts')] = a
      <3> HIDE DEF a
      <3>1. QED BY <2>2, ExtendedAppend
    <2>4. MissionBacked(missions[m], m, execs, artifacts')
      BY <1>a, <2>3, BackedOnward, KeptSame
    <2>5. MissionBacked(missions'[m], m, execs, artifacts')
      BY <1>8, <2>1, <2>3, <2>4
         DEF CompleteMission, AllCompleted, MissionBacked, Reported
    <2>6. UNCHANGED <<execs, saved>> /\ pc' # "approve" BY <1>8 DEF CompleteMission
    <2>7. QED BY <2>1, <2>3, <2>5, <2>6, EvidenceKept, KeptSame
  <1>9. ASSUME NEW m \in Missions, Leave(m) PROVE EvidenceInv'
    BY <1>9, EvidenceUntouched, KeptSame DEF Leave, NextMission, stores
  <1>10. QED
    BY <1>1, <1>1a, <1>2, <1>3, <1>4, <1>5, <1>6, <1>7, <1>8, <1>9 DEF Reconcile

LEMMA VaultKeepsEvidence == EvidenceInv /\ GateInv' /\ Vault => EvidenceInv'
  <1> SUFFICES ASSUME EvidenceInv, GateInv', Vault PROVE EvidenceInv' OBVIOUS
  <1>0. TypeOK BY DEF EvidenceInv, GateInv
  <1>1. ASSUME NEW m \in Missions, VaultDone(m) PROVE EvidenceInv'
    <2>1. /\ missions'[m].tasks = missions[m].tasks
          /\ missions'[m].status = missions[m].status
          /\ missions'[m].report = missions[m].report
          /\ \A n \in Missions : n # m => missions'[n] = missions[n]
      BY <1>0, <1>1, MissionFields DEF VaultDone, MissionTable, Mission
    <2>2. MissionBacked(missions'[m], m, execs, artifacts)
      BY <2>1 DEF EvidenceInv, AllBacked, MissionBacked, Reported
    <2>3. /\ UNCHANGED <<execs, artifacts>> /\ pc' # "approve"
          /\ saved' = saved \/ saved' = missions'
      BY <1>1 DEF VaultDone, Save, NextMission, AbortPass, stores
    <2>4. QED BY <2>1, <2>2, <2>3, EvidenceKept, KeptSame, ExtendedSame
  <1>2. ASSUME NEW m \in Missions, VaultFailed(m) PROVE EvidenceInv'
    BY <1>2, EvidenceUntouched, KeptSame DEF VaultFailed, AbortPass, stores
  <1>3. QED BY <1>1, <1>2 DEF Vault

(* After a crash memory is the disk, and the disk was backed too.          *)
LEMMA DieKeepsEvidence ==
  ASSUME EvidenceInv, GateInv', NEW es \in Seq(Exec), NEW as, NEW hs, DieWith(es, as, hs),
         Kept(execs, es), DOMAIN es = DOMAIN execs, Extended(artifacts, as)
  PROVE  EvidenceInv'
  <1>1. /\ execs' = Recovered(es) /\ artifacts' = as /\ missions' = saved /\ saved' = saved
        /\ pc' = "idle"
    BY DEF DieWith, AbortPass
  <1>2. Kept(execs, execs') /\ DOMAIN execs' = DOMAIN execs BY <1>1, RecoveredKept
  <1>3. AllBacked' BY <1>1, <1>2, BackedOnward DEF EvidenceInv, AllBacked
  <1>4. DependencyOrder' BY <1>2, OrderOnward DEF EvidenceInv, GateInv
  <1>5. QED BY <1>1, <1>3, <1>4 DEF EvidenceInv, ApprovingLast

LEMMA DeathKeepsEvidence == EvidenceInv /\ GateInv' /\ Death => EvidenceInv'
  <1> SUFFICES ASSUME EvidenceInv, GateInv', Death PROVE EvidenceInv' OBVIOUS
  <1>0. TypeOK BY DEF EvidenceInv, GateInv
  <1>1. execs \in Seq(Exec) /\ artifacts \in Seq(Artifact) BY <1>0 DEF TypeOK
  <1>2. CASE Crash
    BY <1>1, <1>2, DieKeepsEvidence, KeptSame, ExtendedSame DEF Crash
  <1>3. ASSUME NEW m \in Missions, StopInterrupted(m) PROVE EvidenceInv'
    BY <1>0, <1>3, StopWorkType, StopWorkKept, DieKeepsEvidence, ExtendedSame
       DEF StopInterrupted
  <1>4. ASSUME NEW m \in Missions, NEW t \in Tasks, CompleteTaskInterrupted(m, t)
        PROVE  EvidenceInv'
    <2> DEFINE a == [mission |-> m, task |-> t, exec |-> missions[m].tasks[t].exec]
    <2>0. a \in Artifact BY <1>0, MissionFields DEF Artifact, Task
    <2>1. Extended(artifacts, Evidence(m, t)) /\ Evidence(m, t) \in Seq(Artifact)
      BY <1>0, <1>1, <2>0, ExtendedAppend, EvidenceType DEF Evidence
    <2>2. QED
      BY <1>1, <1>4, <2>1, DieKeepsEvidence, KeptSame DEF CompleteTaskInterrupted
  <1>5. QED BY <1>2, <1>3, <1>4 DEF Death

LEMMA EvidenceStep == EvidenceInv /\ [Next]_vars => EvidenceInv'
  <1> SUFFICES ASSUME EvidenceInv, [Next]_vars PROVE EvidenceInv' OBVIOUS
  <1>0. TypeOK /\ GateInv' BY GateStep DEF EvidenceInv, GateInv
  <1>1. ASSUME NEW m \in Missions, Expire(m) PROVE EvidenceInv'
    BY <1>0, <1>1, EvidenceUntouched, KeptSame DEF Expire, Interruptible, stores, pass
  <1>2. ASSUME NEW i \in DOMAIN execs, NEW to \in Moves, MoveExecution(i, to)
        PROVE  EvidenceInv'
    <2>1. \A j \in DOMAIN execs : execs[j] \in Exec BY <1>0 DEF TypeOK
    <2>2. execs[i].status # "completed" BY <1>2 DEF MoveExecution, Transitions
    <2>3. Kept(execs, execs') /\ DOMAIN execs' = DOMAIN execs
      BY <1>2, <2>1, <2>2 DEF MoveExecution, Kept, Exec
    <2>4. QED
      BY <1>0, <1>2, <2>3, EvidenceUntouched DEF MoveExecution, Interruptible, pass
  <1>3. CASE BeginPass
    BY <1>0, <1>3, EvidenceUntouched, KeptSame DEF BeginPass, stores
  <1>4. CASE UNCHANGED vars
    BY <1>0, <1>4 DEF vars, EvidenceInv, AllBacked, ApprovingLast, DependencyOrder, Current
  <1>5. QED
    BY <1>0, <1>1, <1>2, <1>3, <1>4, RequestsKeepEvidence, ReconcileKeepsEvidence,
       VaultKeepsEvidence, DeathKeepsEvidence DEF Next

(* A task is dispatched only after an execution of each task it depends on *)
(* has completed: no retry and no return to an older save lets the ready   *)
(* filter see a completed task that was not.                               *)
THEOREM OrderHolds == Spec => []DependencyOrder
  <1>1. EvidenceInv => DependencyOrder BY DEF EvidenceInv
  <1>2. QED BY <1>1, EvidenceInit, EvidenceStep, PTL DEF Spec

(* What the database calls completed has its execution completed and its   *)
(* evidence in the context, whatever crashes fall between the writes of    *)
(* the three stores.                                                       *)
THEOREM EvidenceHolds == Spec => []EvidenceBacked
  <1>1. ASSUME EvidenceInv PROVE EvidenceBacked
    <2>1. SUFFICES ASSUME NEW m \in Missions
          PROVE /\ \A t \in Tasks : saved[m].tasks[t].status = "completed" =>
                     /\ saved[m].tasks[t].artifact \in DOMAIN artifacts
                     /\ artifacts[saved[m].tasks[t].artifact] =
                          [mission |-> m, task |-> t, exec |-> saved[m].tasks[t].exec]
                     /\ execs[saved[m].tasks[t].exec] =
                          [mission |-> m, task |-> t, status |-> "completed"]
                /\ Reported(saved[m], m, artifacts)
      BY DEF EvidenceBacked, Reported
    <2>2. MissionBacked(saved[m], m, execs, artifacts)
      BY <1>1 DEF EvidenceInv, AllBacked
    <2>3. ASSUME NEW t \in Tasks, saved[m].tasks[t].status = "completed"
          PROVE  /\ saved[m].tasks[t].artifact \in DOMAIN artifacts
                 /\ artifacts[saved[m].tasks[t].artifact] =
                      [mission |-> m, task |-> t, exec |-> saved[m].tasks[t].exec]
                 /\ execs[saved[m].tasks[t].exec] =
                      [mission |-> m, task |-> t, status |-> "completed"]
      <3> DEFINE i == saved[m].tasks[t].exec
      <3>1. /\ i \in DOMAIN execs /\ execs[i].mission = m /\ execs[i].task = t
            /\ execs[i].status = "completed"
        BY <2>2, <2>3 DEF MissionBacked, Backed
      <3>2. execs[i] \in Exec BY <1>1, <3>1 DEF EvidenceInv, GateInv, TypeOK
      <3>3. execs[i] = [mission |-> m, task |-> t, status |-> "completed"]
        <4> HIDE DEF i
        <4>1. QED BY <3>1, <3>2 DEF Exec
      <3>4. QED BY <2>2, <2>3, <3>3 DEF MissionBacked, Backed
    <2>4. QED BY <2>2, <2>3 DEF MissionBacked
  <1>2. QED BY <1>1, EvidenceInit, EvidenceStep, PTL DEF Spec

-----------------------------------------------------------------------------
(* Final states.  No guard of retryTask asks whether the mission has       *)
(* ended; what keeps a cancelled or completed one down is that it has no   *)
(* failed task to retry.  That rests on the plans being chains: a mission  *)
(* has one task at a time that is neither waiting nor completed, so the    *)
(* status of that task and that of the mission go together.                *)
Orderly(mission) ==
  \A t \in Tasks :
    LET task == mission.tasks[t]
    IN  /\ task.status # "pending" =>
             \A u \in Tasks : u < t => mission.tasks[u].status = "completed"
        /\ task.status = "pending" => task.exec = None
        /\ task.status = "running" => task.exec # None
        /\ task.status \in {"running", "failed"} => mission.status = task.status

AllOrderly == \A m \in Missions : Orderly(missions[m]) /\ Orderly(saved[m])

(* What is final on disk is the same in memory.                            *)
FinalInMemory ==
  \A m \in Missions : saved[m].status \in {"completed", "cancelled"} =>
    missions[m].status = saved[m].status

(* The pass holds a completed mission only while it awaits its vault.      *)
QueueInv ==
  \A m \in queue : missions[m].status = "completed" => pc = "vault" /\ Current(m)

(* Nothing comes between the check of a task and its dispatch.             *)
ApprovingReady ==
  pc = "approve" => execs[Len(execs)].task \in Ready(execs[Len(execs)].mission)

FinalInv == EvidenceInv /\ AllOrderly /\ FinalInMemory /\ QueueInv /\ ApprovingReady

FinalStep ==
  \A m \in Missions :
    /\ saved[m].status = "completed" => saved'[m].status = "completed"
    /\ saved[m].status = "cancelled" => saved'[m].status # "running"

(* A step that changes mission m, and saves it unless its status stays or  *)
(* it ran.                                                                 *)
LEMMA FinalKept ==
  ASSUME FinalInv, EvidenceInv', NEW m \in Missions,
         \A n \in Missions : n # m => missions'[n] = missions[n],
         Orderly(missions'[m]),
         missions[m].status = "completed" => missions'[m].status = "completed",
         missions[m].status = "cancelled" => missions'[m].status # "running",
         \/ saved' = missions'
         \/ /\ saved' = saved
            /\ missions'[m].status = missions[m].status \/ missions[m].status = "running",
         QueueInv', pc' # "approve"
  PROVE  FinalInv' /\ FinalStep
  <1>1. AllOrderly'
    <2>1. \A n \in Missions : Orderly(missions'[n]) BY DEF FinalInv, AllOrderly
    <2>2. \A n \in Missions : Orderly(saved'[n]) BY <2>1 DEF FinalInv, AllOrderly
    <2>3. QED BY <2>1, <2>2 DEF AllOrderly, Orderly
  <1>2. FinalInMemory' BY DEF FinalInv, FinalInMemory
  <1>3. FinalStep BY DEF FinalInv, FinalInMemory, FinalStep
  <1>4. QED BY <1>1, <1>2, <1>3 DEF FinalInv, ApprovingReady

(* A step that leaves the missions alone, and may save them.               *)
LEMMA FinalUntouched ==
  ASSUME FinalInv, EvidenceInv', missions' = missions,
         saved' = saved \/ saved' = missions,
         QueueInv', pc' # "approve"
  PROVE  FinalInv' /\ FinalStep
  <1>1. AllOrderly' BY DEF FinalInv, AllOrderly, Orderly
  <1>2. FinalInMemory' BY DEF FinalInv, FinalInMemory
  <1>3. FinalStep BY DEF FinalInv, FinalInMemory, FinalStep
  <1>4. QED BY <1>1, <1>2, <1>3 DEF FinalInv, ApprovingReady

(* The pass stays where it is, or goes on to its next mission, or ends.    *)
LEMMA QueueStays ==
  ASSUME FinalInv, NEW m \in Missions,
         \A n \in Missions : n # m => missions'[n] = missions[n],
         missions'[m].status = missions[m].status \/ missions'[m].status # "completed",
         UNCHANGED <<queue, pc>>
  PROVE  QueueInv'
  <1>1. queue \subseteq Missions BY DEF FinalInv, EvidenceInv, GateInv, TypeOK
  <1>2. QED BY <1>1 DEF FinalInv, QueueInv, Current, Smallest

LEMMA QueueAdvances ==
  ASSUME FinalInv, NEW m \in Missions, Current(m), NextMission(m) \/ AbortPass,
         \A n \in Missions : n # m => missions'[n] = missions[n]
  PROVE  QueueInv' /\ pc' # "approve"
  <1>1. TypeOK /\ queue \subseteq Missions BY DEF FinalInv, EvidenceInv, GateInv, TypeOK
  <1>2. \A n \in queue : n # m => missions[n].status # "completed"
    BY <1>1, CurrentUnique DEF FinalInv, QueueInv
  <1>3. QED BY <1>1, <1>2 DEF QueueInv, NextMission, AbortPass

LEMMA TasksOrdered == \A t, u \in Tasks : t = u \/ t < u \/ u < t
  BY DEF Tasks

(* Around a task that has begun and not completed, the earlier ones are    *)
(* completed and the later ones wait.                                      *)
Around(mission, t) ==
  \A u \in Tasks : /\ u < t => mission.tasks[u].status = "completed"
                   /\ t < u => mission.tasks[u].status = "pending"

LEMMA OneActive ==
  ASSUME NEW mission, Orderly(mission), NEW t \in Tasks,
         mission.tasks[t].status \notin {"pending", "completed"}
  PROVE  Around(mission, t)
  BY DEF Orderly, Around

(* ... and around one that is ready, as its predecessor is completed.      *)
LEMMA ReadyAround ==
  ASSUME TypeOK, NEW m \in Missions, Orderly(missions[m]), NEW t \in Ready(m)
  PROVE  Around(missions[m], t)
  <1>1. t \in Tasks /\ missions[m].tasks[t].status = "pending"
        /\ \A d \in Dependencies[t] : missions[m].tasks[d].status = "completed"
    BY DEF Ready
  <1>2. ASSUME NEW u \in Tasks, t < u PROVE missions[m].tasks[u].status = "pending"
    BY <1>1, <1>2 DEF Orderly
  <1>3. ASSUME NEW u \in Tasks, u < t PROVE missions[m].tasks[u].status = "completed"
    <2>1. t \in Nat /\ u \in Nat /\ 1 <= u /\ t <= PlanLength /\ PlanLength \in Nat
      BY <1>1, BoundsAssumption DEF Tasks
    <2>2. t # 1 /\ t - 1 \in Tasks /\ (u = t - 1 \/ u < t - 1) BY <1>3, <2>1 DEF Tasks
    <2>3. t - 1 \in Dependencies[t] BY <1>1, <2>2, PlanAssumption
    <2>4. missions[m].tasks[t - 1].status = "completed" BY <1>1, <2>3
    <2>5. QED BY <2>2, <2>4 DEF Orderly
  <1>4. QED BY <1>2, <1>3 DEF Around

(* That task changed, and its mission with it.                             *)
LEMMA ActiveChanged ==
  ASSUME NEW old, Orderly(old), old.tasks \in [Tasks -> Task], NEW t \in Tasks,
         Around(old, t), NEW task, NEW mission,
         mission.tasks = [old.tasks EXCEPT ![t] = task],
         task.status = "pending" => task.exec = None,
         task.status = "running" => task.exec # None,
         task.status \in {"running", "failed"} => mission.status = task.status
  PROVE  Orderly(mission)
  <1>1. mission.tasks[t] = task /\ \A u \in Tasks : u # t => mission.tasks[u] = old.tasks[u]
    OBVIOUS
  <1>2. SUFFICES ASSUME NEW u \in Tasks
        PROVE  /\ mission.tasks[u].status # "pending" =>
                    \A v \in Tasks : v < u => mission.tasks[v].status = "completed"
               /\ mission.tasks[u].status = "pending" => mission.tasks[u].exec = None
               /\ mission.tasks[u].status = "running" => mission.tasks[u].exec # None
               /\ mission.tasks[u].status \in {"running", "failed"} =>
                    mission.status = mission.tasks[u].status
    BY DEF Orderly
  <1>3. CASE u = t
    <2>1. \A v \in Tasks : v < t => v # t BY DEF Tasks
    <2>2. QED BY <1>1, <1>3, <2>1 DEF Around
  <1>4. CASE u < t
    <2>1. u # t /\ \A v \in Tasks : v < u => v # t BY <1>4 DEF Tasks
    <2>2. old.tasks[u].status = "completed" BY <1>4 DEF Around
    <2>3. QED BY <1>1, <2>1, <2>2 DEF Orderly
  <1>5. CASE t < u
    <2>1. u # t BY <1>5 DEF Tasks
    <2>2. old.tasks[u].status = "pending" BY <1>5 DEF Around
    <2>3. QED BY <1>1, <2>1, <2>2 DEF Orderly
  <1>6. QED BY <1>3, <1>4, <1>5, TasksOrdered

(* The running tasks of a mission cancelled, as it ends.                   *)
LEMMA RunningStopped ==
  ASSUME TypeOK, NEW m \in Missions, Orderly(missions[m]), NEW ts, NEW mission,
         \A t \in Tasks : t \in ts <=> missions[m].tasks[t].status = "running",
         mission.tasks = SetTasks(m, ts, "cancelled"),
         \/ mission.status = "failed"
         \/ missions[m].status # "failed"
  PROVE  Orderly(mission)
  <1>1. ASSUME NEW t \in Tasks
        PROVE  /\ mission.tasks[t].status =
                    IF t \in ts THEN "cancelled" ELSE missions[m].tasks[t].status
               /\ mission.tasks[t].exec = missions[m].tasks[t].exec
    BY MissionFields DEF SetTasks, Task
  <1>2. QED BY <1>1 DEF Orderly

(* The tasks stay, and the status of their mission too if one asks for it. *)
LEMMA TasksStay ==
  ASSUME NEW old, Orderly(old), NEW mission,
         \A t \in Tasks : /\ mission.tasks[t].status = old.tasks[t].status
                          /\ mission.tasks[t].exec = old.tasks[t].exec,
         \/ mission.status = old.status
         \/ old.status \notin {"running", "failed"}
         \/ \A t \in Tasks : old.tasks[t].status = "completed"
  PROVE  Orderly(mission)
  BY DEF Orderly

LEMMA FinalInit == Init => FinalInv
  <1> SUFFICES ASSUME Init PROVE FinalInv OBVIOUS
  <1>1. Orderly(NoMission) BY DEF Orderly, NoMission, NewTask
  <1>2. AllOrderly /\ FinalInMemory BY <1>1 DEF Init, AllOrderly, FinalInMemory, NoMission
  <1>3. QED BY <1>2, EvidenceInit DEF Init, FinalInv, QueueInv, ApprovingReady

LEMMA RequestsKeepFinal ==
  FinalInv /\ EvidenceInv' /\ Requests => FinalInv' /\ FinalStep
  <1> SUFFICES ASSUME FinalInv, EvidenceInv', Requests PROVE FinalInv' /\ FinalStep OBVIOUS
  <1>0. TypeOK BY DEF FinalInv, EvidenceInv, GateInv
  <1>a. \A m \in Missions : Orderly(missions[m]) BY DEF FinalInv, AllOrderly
  <1>1. ASSUME NEW m \in Missions, NEW type \in MissionTypes, NEW budget \in AttemptBudgets,
               NEW talks \in Conversations, Create(m, type, budget, talks)
        PROVE  FinalInv' /\ FinalStep
    <2>1. /\ missions'[m] = NewMission(type, budget, talks)
          /\ missions[m].status = "absent"
          /\ \A n \in Missions : n # m => missions'[n] = missions[n]
      BY <1>0, <1>1, MissionFields DEF Create, MissionTable, Smallest
    <2>2. Orderly(missions'[m]) /\ missions'[m].status = "awaiting-approval"
      BY <2>1 DEF Orderly, NewMission, NewTask
    <2>3. UNCHANGED <<queue, pc>> /\ pc # "approve" /\ (saved' = missions' \/ saved' = saved)
      BY <1>1 DEF Create, Save, stores, pass, Interruptible
    <2>4. QueueInv' BY <2>1, <2>2, <2>3, QueueStays
    (* An absent mission is absent on disk, or was lost there.             *)
    <2>5. saved[m].status \notin {"completed", "cancelled"}
      BY <2>1 DEF FinalInv, FinalInMemory
    <2>6. AllOrderly'
      <3>1. \A n \in Missions : Orderly(missions'[n]) BY <1>a, <2>1, <2>2
      <3>2. \A n \in Missions : Orderly(saved'[n])
        BY <2>3, <3>1 DEF FinalInv, AllOrderly
      <3>3. QED BY <3>1, <3>2 DEF AllOrderly, Orderly
    <2>7. FinalInMemory' /\ FinalStep
      BY <2>1, <2>2, <2>3, <2>5 DEF FinalInv, FinalInMemory, FinalStep
    <2>8. QED BY <2>3, <2>4, <2>6, <2>7 DEF FinalInv, ApprovingReady
  <1>2. ASSUME NEW m \in Missions, Approve(m) PROVE FinalInv' /\ FinalStep
    <2>1. /\ missions[m].status = "awaiting-approval"
          /\ missions'[m].status = "approved"
          /\ \A t \in Tasks : /\ missions'[m].tasks[t].status = missions[m].tasks[t].status
                              /\ missions'[m].tasks[t].exec = missions[m].tasks[t].exec
          /\ \A n \in Missions : n # m => missions'[n] = missions[n]
      <3> DEFINE tasks == [t \in Tasks |-> IF t \in Sensitive[missions[m].type]
                              THEN [missions[m].tasks[t] EXCEPT !.approval = "approved"]
                              ELSE missions[m].tasks[t]]
      <3>1. /\ missions[m].status = "awaiting-approval"
            /\ missions'[m] = [missions[m] EXCEPT !.tasks = tasks, !.approved = TRUE,
                                                  !.status = "approved"]
            /\ \A n \in Missions : n # m => missions'[n] = missions[n]
        BY <1>0, <1>2, MissionFields DEF Approve, MissionTable
      <3>2. \A t \in Tasks : /\ tasks[t].status = missions[m].tasks[t].status
                             /\ tasks[t].exec = missions[m].tasks[t].exec
        BY <1>0, MissionFields DEF Task
      <3> HIDE DEF tasks
      <3>3. QED BY <1>0, <3>1, <3>2, MissionFields DEF Mission
    <2>2. Orderly(missions'[m]) BY <1>a, <2>1, TasksStay
    <2>3. UNCHANGED <<queue, pc>> /\ pc # "approve" /\ saved' = missions'
      BY <1>2 DEF Approve, Save, stores, pass, Interruptible
    <2>4. QueueInv' BY <2>1, <2>3, QueueStays
    <2>5. QED BY <2>1, <2>2, <2>3, <2>4, FinalKept
  <1>2a. ASSUME NEW m \in Missions, ApproveThrows(m) PROVE FinalInv' /\ FinalStep
    <2>1. /\ missions'[m].status = missions[m].status
          /\ \A t \in Tasks : /\ missions'[m].tasks[t].status = missions[m].tasks[t].status
                              /\ missions'[m].tasks[t].exec = missions[m].tasks[t].exec
          /\ \A n \in Missions : n # m => missions'[n] = missions[n]
          /\ UNCHANGED <<queue, pc, saved>> /\ pc # "approve"
      BY <1>0, <1>2a, ThrownApproval
    <2>2. Orderly(missions'[m]) BY <1>a, <2>1, TasksStay
    <2>3. QueueInv' BY <2>1, QueueStays
    <2>4. QED BY <2>1, <2>2, <2>3, FinalKept
  <1>3. ASSUME NEW m \in Missions, Start(m) PROVE FinalInv' /\ FinalStep
    <2>1. /\ missions[m].status = "approved"
          /\ missions'[m].status = "running" /\ missions'[m].tasks = missions[m].tasks
          /\ \A n \in Missions : n # m => missions'[n] = missions[n]
      BY <1>0, <1>3, MissionFields DEF Start, MissionTable, Mission
    <2>2. Orderly(missions'[m]) BY <1>a, <2>1, TasksStay
    <2>3. UNCHANGED <<queue, pc>> /\ pc # "approve" /\ saved' = missions'
      BY <1>3 DEF Start, Save, stores, pass, Interruptible
    <2>4. QueueInv' BY <2>1, <2>3, QueueStays
    <2>5. QED BY <2>1, <2>2, <2>3, <2>4, FinalKept
  <1>4. ASSUME NEW m \in Missions, Cancel(m) PROVE FinalInv' /\ FinalStep
    <2> DEFINE tasks == SetTasks(m, CancelTargets(m), "cancelled")
    <2>1. /\ missions'[m] = [missions[m] EXCEPT !.tasks = tasks, !.status = "cancelled"]
          /\ \A n \in Missions : n # m => missions'[n] = missions[n]
      BY <1>0, <1>4, MissionFields DEF Cancel, MissionTable
    <2>2. missions'[m].tasks = tasks /\ missions'[m].status = "cancelled"
      <3> HIDE DEF tasks
      <3>1. QED BY <1>0, <2>1, MissionFields DEF Mission
    <2>3. missions[m].status \notin {"completed", "failed"}
      BY <1>4 DEF Cancel, Cancellable, TerminalMissionStates
    <2>4. \A t \in Tasks : t \in CancelTargets(m) <=> missions[m].tasks[t].status = "running"
      BY <1>a DEF CancelTargets, HasTaskIn, Orderly
    <2>5. Orderly(missions'[m]) BY <1>0, <1>a, <2>2, <2>3, <2>4, RunningStopped
    <2>6. UNCHANGED <<queue, pc>> /\ pc # "approve" /\ saved' = missions'
      BY <1>4 DEF Cancel, Save, pass, Interruptible
    <2>7. QueueInv' BY <2>1, <2>2, <2>6, QueueStays
    <2>8. QED BY <2>1, <2>2, <2>3, <2>5, <2>6, <2>7, FinalKept
  <1>5. ASSUME NEW m \in Missions, NEW t \in Tasks, RetryTask(m, t)
        PROVE  FinalInv' /\ FinalStep
    <2> DEFINE task == [missions[m].tasks[t] EXCEPT !.status = "pending", !.exec = None]
    <2>1. /\ missions'[m].tasks = [missions[m].tasks EXCEPT ![t] = task]
          /\ missions'[m].status = "running"
          /\ \A n \in Missions : n # m => missions'[n] = missions[n]
      BY <1>0, <1>5, MissionFields DEF RetryTask, MissionTable, Mission
    <2>2. missions[m].tasks[t].status = "failed" /\ missions[m].status = "failed"
      BY <1>a, <1>5 DEF RetryTask, Orderly
    <2>3. Around(missions[m], t) BY <1>a, <2>2, OneActive
    <2>4. task.status = "pending" /\ task.exec = None BY <1>0, MissionFields DEF Task
    <2>5. Orderly(missions'[m])
      <3> HIDE DEF task
      <3>1. QED BY <1>0, <1>a, <2>1, <2>3, <2>4, MissionFields, ActiveChanged
    <2>6. UNCHANGED <<queue, pc>> /\ pc # "approve" /\ saved' = missions'
      BY <1>5 DEF RetryTask, Save, stores, pass, Interruptible
    <2>7. QueueInv' BY <2>1, <2>6, QueueStays
    <2>8. QED BY <2>1, <2>2, <2>5, <2>6, <2>7, FinalKept
  <1>6. QED BY <1>1, <1>2, <1>2a, <1>3, <1>4, <1>5 DEF Requests

LEMMA ReconcileKeepsFinal ==
  FinalInv /\ EvidenceInv' /\ Reconcile => FinalInv' /\ FinalStep
  <1> SUFFICES ASSUME FinalInv, EvidenceInv', Reconcile PROVE FinalInv' /\ FinalStep OBVIOUS
  <1>0. TypeOK BY DEF FinalInv, EvidenceInv, GateInv
  <1>a. \A m \in Missions : Orderly(missions[m]) BY DEF FinalInv, AllOrderly
  (* A task to settle runs, and so does its mission.                       *)
  <1>b. ASSUME NEW m \in Missions, NEW t \in Tasks, Settling(m, t)
        PROVE  /\ missions[m].status = "running"
               /\ Around(missions[m], t)
               /\ Current(m) /\ pc = "settle"
    <2>1. missions[m].tasks[t].status = "running" /\ Current(m) /\ pc = "settle"
      BY <1>b DEF Settling, Smallest, Due, HasTaskIn
    <2>2. QED BY <1>a, <2>1, OneActive DEF Orderly
  <1>1. ASSUME NEW m \in Missions, TimeOut(m) PROVE FinalInv' /\ FinalStep
    <2> DEFINE targets == {t \in Tasks : HasTaskIn(m, t, {"running"})}
               tasks == SetTasks(m, targets, "cancelled")
    <2>1. /\ missions'[m] = [missions[m] EXCEPT !.tasks = tasks, !.status = "failed"]
          /\ \A n \in Missions : n # m => missions'[n] = missions[n]
      BY <1>0, <1>1, MissionFields DEF TimeOut, MissionTable
    <2>2. missions'[m].tasks = tasks /\ missions'[m].status = "failed"
      <3> HIDE DEF tasks
      <3>1. QED BY <1>0, <2>1, MissionFields DEF Mission
    <2>3. /\ Current(m) /\ pc = "settle" /\ NextMission(m) /\ saved' = missions'
      BY <1>1 DEF TimeOut, OutOfTime, Save
    <2>4. missions[m].status # "completed"
      BY <2>3 DEF FinalInv, QueueInv, Current, Smallest
    <2>5. \A t \in Tasks : t \in targets <=> missions[m].tasks[t].status = "running"
      BY <1>a DEF HasTaskIn, Orderly
    <2>6. Orderly(missions'[m])
      <3> HIDE DEF targets
      <3>1. QED BY <1>0, <1>a, <2>2, <2>5, RunningStopped
    <2>7. QueueInv' /\ pc' # "approve" BY <2>1, <2>3, QueueAdvances
    <2>8. QED BY <2>1, <2>2, <2>3, <2>4, <2>6, <2>7, FinalKept
  <1>2. ASSUME NEW m \in Missions, NEW t \in Tasks, CompleteTask(m, t)
        PROVE  FinalInv' /\ FinalStep
    <2> DEFINE task == [missions[m].tasks[t] EXCEPT !.status = "completed",
                                                    !.artifact = Len(artifacts')]
    <2>1. /\ missions'[m].tasks = [missions[m].tasks EXCEPT ![t] = task]
          /\ missions'[m].status = missions[m].status
          /\ \A n \in Missions : n # m => missions'[n] = missions[n]
      BY <1>0, <1>2, MissionFields DEF CompleteTask, MissionTable, Mission
    <2>2. Settling(m, t) /\ UNCHANGED <<queue, pc, saved>> BY <1>2 DEF CompleteTask
    <2>3. task.status = "completed" BY <1>0, MissionFields DEF Task
    <2>4. Orderly(missions'[m])
      <3> HIDE DEF task
      <3>1. QED BY <1>0, <1>a, <1>b, <2>1, <2>2, <2>3, MissionFields, ActiveChanged
    <2>5. QueueInv' BY <2>1, <2>2, QueueStays
    <2>6. QED BY <1>b, <2>1, <2>2, <2>4, <2>5, FinalKept
  <1>3. ASSUME NEW m \in Missions, NEW t \in Tasks, ScheduleRetry(m, t)
        PROVE  FinalInv' /\ FinalStep
    <2> DEFINE task == [missions[m].tasks[t] EXCEPT !.status = "pending", !.exec = None]
    <2>1. /\ missions'[m].tasks = [missions[m].tasks EXCEPT ![t] = task]
          /\ missions'[m].status = missions[m].status
          /\ \A n \in Missions : n # m => missions'[n] = missions[n]
      BY <1>0, <1>3, MissionFields DEF ScheduleRetry, MissionTable, Mission
    <2>2. Settling(m, t) /\ UNCHANGED <<queue, pc, saved>> BY <1>3 DEF ScheduleRetry
    <2>3. task.status = "pending" /\ task.exec = None BY <1>0, MissionFields DEF Task
    <2>4. Orderly(missions'[m])
      <3> HIDE DEF task
      <3>1. QED BY <1>0, <1>a, <1>b, <2>1, <2>2, <2>3, MissionFields, ActiveChanged
    <2>5. QueueInv' BY <2>1, <2>2, QueueStays
    <2>6. QED BY <1>b, <2>1, <2>2, <2>4, <2>5, FinalKept
  <1>4. ASSUME NEW m \in Missions, NEW t \in Tasks, EndTask(m, t)
        PROVE  FinalInv' /\ FinalStep
    <2> DEFINE ended == ExecStatus(m, t)
               task == [missions[m].tasks[t] EXCEPT !.status = ended]
    <2>1. /\ ended \in {"failed", "cancelled"} /\ Settling(m, t)
          /\ UNCHANGED <<queue, pc, saved>>
      BY <1>4 DEF EndTask
    <2>2. /\ missions'[m].tasks = [missions[m].tasks EXCEPT ![t] = task]
          /\ missions'[m].status = ended
          /\ \A n \in Missions : n # m => missions'[n] = missions[n]
      BY <1>0, <1>4, MissionFields DEF EndTask, MissionTable, Mission
    <2>3. task.status = ended
      <3> HIDE DEF ended
      <3>1. QED BY <1>0, MissionFields DEF Task
    <2>4. Orderly(missions'[m])
      <3> HIDE DEF task, ended
      <3>1. QED BY <1>0, <1>a, <1>b, <2>1, <2>2, <2>3, MissionFields, ActiveChanged
    <2>5. QueueInv'
      <3> HIDE DEF ended
      <3>1. QED BY <2>1, <2>2, QueueStays
    <2>6. QED
      <3> HIDE DEF ended
      <3>1. QED BY <1>b, <2>1, <2>2, <2>4, <2>5, FinalKept
  <1>5. ASSUME NEW m \in Missions, NEW t \in Tasks, ProposeExecution(m, t)
        PROVE  FinalInv' /\ FinalStep
    <2>1. /\ execs' = Append(execs, [mission |-> m, task |-> t, status |-> "proposed"])
          /\ UNCHANGED <<missions, saved, queue>> /\ pc = "settle" /\ t \in Ready(m)
      BY <1>5 DEF ProposeExecution, Dispatching, Settled, Smallest
    <2>2. execs'[Len(execs')].task = t /\ execs'[Len(execs')].mission = m
      BY <1>0, <2>1 DEF TypeOK
    <2>3. ApprovingReady' BY <2>1, <2>2 DEF ApprovingReady, Ready
    <2>4. QueueInv' BY <2>1 DEF FinalInv, QueueInv, Current
    <2>5. AllOrderly' BY <2>1 DEF FinalInv, AllOrderly, Orderly
    <2>6. FinalInMemory' BY <2>1 DEF FinalInv, FinalInMemory
    <2>7. FinalStep BY <2>1 DEF FinalInv, FinalStep
    <2>8. QED BY <2>3, <2>4, <2>5, <2>6, <2>7 DEF FinalInv
  <1>6. ASSUME NEW m \in Missions, NEW t \in Tasks, ApproveExecution(m, t)
        PROVE  FinalInv' /\ FinalStep
    <2> DEFINE last == Len(execs)
               task == [missions[m].tasks[t] EXCEPT !.status = "running", !.exec = last,
                                                    !.attempts = @ + 1]
    <2>1. /\ pc = "approve" /\ Current(m) /\ t = execs[last].task
          /\ UNCHANGED <<queue, saved>> /\ pc' = "settle"
      BY <1>6 DEF ApproveExecution
    <2>2. last \in DOMAIN execs /\ Current(execs[last].mission) /\ t \in Ready(execs[last].mission)
      BY <2>1 DEF FinalInv, EvidenceInv, ApprovingLast, ApprovingReady
    <2>3. last # None /\ execs[last].mission \in Missions
      <3>1. execs \in Seq(Exec) /\ execs[last] \in Exec BY <1>0, <2>2 DEF TypeOK
      <3>2. last # 0
        <4>1. DOMAIN execs = 1 .. Len(execs) BY <3>1
        <4>2. QED BY <2>2, <4>1
      <3>3. execs[last].mission \in Missions
        <4> HIDE DEF last
        <4>1. QED BY <3>1 DEF Exec
      <3>4. QED BY <3>2, <3>3 DEF None
    <2>4. t \in Ready(m) BY <1>0, <2>1, <2>2, <2>3, CurrentUnique
    <2>5. missions[m].status = "running"
      BY <2>1 DEF FinalInv, EvidenceInv, GateInv, ApprovingRunning
    <2>6. /\ missions'[m].tasks = [missions[m].tasks EXCEPT ![t] = task]
          /\ missions'[m].status = missions[m].status
          /\ \A n \in Missions : n # m => missions'[n] = missions[n]
      <3>1. missions' = [missions EXCEPT
               ![m].tasks[t] = [@ EXCEPT !.status = "running", !.exec = Len(execs),
                                         !.attempts = @ + 1],
               ![m].used = @ + 1]
        BY <1>6 DEF ApproveExecution
      <3>2. missions' = [missions EXCEPT ![m].tasks[t] = task,
                                         ![m].used = missions[m].used + 1]
        BY <1>0, <3>1, MissionFields DEF MissionTable, Mission, Task
      <3> HIDE DEF task
      <3>3. QED BY <1>0, <3>2, MissionFields DEF MissionTable, Mission
    <2>7. task.status = "running" /\ task.exec = last BY <1>0, MissionFields DEF Task
    <2>8. Around(missions[m], t) BY <1>0, <1>a, <2>4, ReadyAround
    <2>9. Orderly(missions'[m])
      <3> HIDE DEF task
      <3>1. QED BY <1>0, <1>a, <2>3, <2>5, <2>6, <2>7, <2>8, MissionFields, ActiveChanged
    <2>10. QueueInv'
      <3>1. queue \subseteq Missions BY <1>0 DEF TypeOK
      <3>2. QED BY <2>1, <2>6, <3>1 DEF FinalInv, QueueInv
    <2>11. QED BY <2>1, <2>5, <2>6, <2>9, <2>10, FinalKept
  <1>1a. ASSUME NEW m \in Missions, ExecutionNotFound(m) PROVE FinalInv' /\ FinalStep
    <2>1. Current(m) /\ AbortPass /\ UNCHANGED <<missions, saved>>
      BY <1>1a DEF ExecutionNotFound
    <2>2. QED BY <2>1, QueueAdvances, FinalUntouched
  <1>7. ASSUME NEW m \in Missions, NEW t \in Tasks, DispatchRefused(m, t)
        PROVE  FinalInv' /\ FinalStep
    <2>1. Current(m) /\ AbortPass /\ UNCHANGED <<missions, saved>>
      BY <1>7 DEF DispatchRefused, Dispatching, Settled
    <2>2. QED BY <2>1, QueueAdvances, FinalUntouched
  <1>8. ASSUME NEW m \in Missions, CompleteMission(m) PROVE FinalInv' /\ FinalStep
    <2>1. /\ missions'[m].tasks = missions[m].tasks
          /\ missions'[m].status = "completed"
          /\ \A n \in Missions : n # m => missions'[n] = missions[n]
      BY <1>0, <1>8, MissionFields DEF CompleteMission, MissionTable, Mission
    <2>2. /\ Current(m) /\ pc = "settle" /\ missions[m].status = "running"
          /\ \A t \in Tasks : missions[m].tasks[t].status = "completed"
          /\ UNCHANGED <<saved, queue>> /\ pc' = "vault"
      BY <1>8 DEF CompleteMission, Settled, AllCompleted
    <2>3. Orderly(missions'[m]) BY <1>a, <2>1, <2>2, TasksStay
    <2>4. QueueInv'
      <3>1. queue \subseteq Missions BY <1>0 DEF TypeOK
      <3>2. \A n \in queue : n # m => missions'[n].status # "completed"
        BY <2>1, <2>2, <3>1 DEF FinalInv, QueueInv
      <3>3. QED BY <2>2, <3>2 DEF QueueInv, Current
    <2>5. QED BY <2>1, <2>2, <2>3, <2>4, FinalKept
  <1>9. ASSUME NEW m \in Missions, Leave(m) PROVE FinalInv' /\ FinalStep
    <2>1. /\ Current(m) /\ NextMission(m) /\ missions' = missions
          /\ saved' = saved \/ saved' = missions
      BY <1>9 DEF Leave, Settled
    <2>2. QED BY <2>1, QueueAdvances, FinalUntouched
  <1>10. QED
    BY <1>1, <1>1a, <1>2, <1>3, <1>4, <1>5, <1>6, <1>7, <1>8, <1>9 DEF Reconcile

LEMMA VaultKeepsFinal == FinalInv /\ EvidenceInv' /\ Vault => FinalInv' /\ FinalStep
  <1> SUFFICES ASSUME FinalInv, EvidenceInv', Vault PROVE FinalInv' /\ FinalStep OBVIOUS
  <1>0. TypeOK BY DEF FinalInv, EvidenceInv, GateInv
  <1>1. ASSUME NEW m \in Missions, VaultDone(m) PROVE FinalInv' /\ FinalStep
    <2>1. /\ missions'[m].tasks = missions[m].tasks
          /\ missions'[m].status = missions[m].status
          /\ \A n \in Missions : n # m => missions'[n] = missions[n]
      BY <1>0, <1>1, MissionFields DEF VaultDone, MissionTable, Mission
    <2>2. /\ Current(m) /\ (NextMission(m) \/ AbortPass)
          /\ saved' = saved \/ saved' = missions'
      BY <1>1 DEF VaultDone, Save
    <2>3. Orderly(missions'[m]) BY <2>1, TasksStay DEF FinalInv, AllOrderly
    <2>4. QueueInv' /\ pc' # "approve" BY <2>1, <2>2, QueueAdvances
    <2>5. QED BY <2>1, <2>2, <2>3, <2>4, FinalKept
  <1>2. ASSUME NEW m \in Missions, VaultFailed(m) PROVE FinalInv' /\ FinalStep
    BY <1>2, QueueAdvances, FinalUntouched DEF VaultFailed
  <1>3. QED BY <1>1, <1>2 DEF Vault

(* A process that dies changes nothing on disk, and the next one starts    *)
(* from there, outside any pass.                                           *)
LEMMA DeathKeepsFinal == FinalInv /\ EvidenceInv' /\ Death => FinalInv' /\ FinalStep
  <1> SUFFICES ASSUME FinalInv, EvidenceInv', Death PROVE FinalInv' /\ FinalStep OBVIOUS
  <1>1. missions' = saved /\ saved' = saved /\ queue' = {} /\ pc' = "idle"
    BY DEF Death, Crash, StopInterrupted, CompleteTaskInterrupted, DieWith, AbortPass
  <1>2. AllOrderly' BY <1>1 DEF FinalInv, AllOrderly, Orderly
  <1>3. QED
    BY <1>1, <1>2 DEF FinalInv, FinalInMemory, QueueInv, ApprovingReady, FinalStep

LEMMA FinalStepTaken == FinalInv /\ [Next]_vars => FinalInv' /\ FinalStep
  <1> SUFFICES ASSUME FinalInv, [Next]_vars PROVE FinalInv' /\ FinalStep OBVIOUS
  <1>0. EvidenceInv' BY EvidenceStep DEF FinalInv
  <1>1. ASSUME NEW m \in Missions, Expire(m) PROVE FinalInv' /\ FinalStep
    <2>1. UNCHANGED <<missions, saved, queue, pc>> /\ pc # "approve"
      BY <1>1 DEF Expire, Interruptible, pass
    <2>2. QueueInv' BY <2>1 DEF FinalInv, QueueInv, Current
    <2>3. QED BY <1>0, <2>1, <2>2, FinalUntouched
  <1>2. ASSUME NEW i \in DOMAIN execs, NEW to \in Moves, MoveExecution(i, to)
        PROVE  FinalInv' /\ FinalStep
    <2>1. UNCHANGED <<missions, saved, queue, pc>> /\ pc # "approve"
      BY <1>2 DEF MoveExecution, Interruptible, pass
    <2>2. QueueInv' BY <2>1 DEF FinalInv, QueueInv, Current
    <2>3. QED BY <1>0, <2>1, <2>2, FinalUntouched
  <1>3. CASE BeginPass
    <2>1. UNCHANGED <<missions, saved>> /\ pc' # "approve" BY <1>3 DEF BeginPass
    <2>2. QueueInv' BY <1>3 DEF BeginPass, QueueInv
    <2>3. QED BY <1>0, <2>1, <2>2, FinalUntouched
  <1>4. CASE UNCHANGED vars
    <2>1. UNCHANGED <<missions, saved, execs, queue, pc>> BY <1>4 DEF vars
    <2>2. AllOrderly' /\ FinalInMemory' /\ FinalStep
      BY <2>1 DEF FinalInv, AllOrderly, Orderly, FinalInMemory, FinalStep
    <2>3. QueueInv' BY <2>1 DEF FinalInv, QueueInv, Current
    <2>4. ApprovingReady' BY <2>1 DEF FinalInv, ApprovingReady, Ready
    <2>5. QED BY <1>0, <2>2, <2>3, <2>4 DEF FinalInv
  <1>5. QED
    BY <1>0, <1>1, <1>2, <1>3, <1>4, RequestsKeepFinal, ReconcileKeepsFinal, VaultKeepsFinal,
       DeathKeepsFinal DEF Next

(* A completed mission stays completed on disk and a cancelled one never   *)
(* runs again there, whatever is retried, whatever a stale pass writes and *)
(* whatever is lost in a crash.                                            *)
THEOREM FinalStatesKept == Spec => FinalStatesHold
  <1>1. FinalInv /\ [Next]_vars => FinalInv' BY FinalStepTaken
  <1>2. FinalInv /\ [Next]_vars =>
          [\A m \in Missions :
             /\ saved[m].status = "completed" => saved'[m].status = "completed"
             /\ saved[m].status = "cancelled" => saved'[m].status # "running"]_vars
    BY FinalStepTaken DEF FinalStep
  <1>3. QED BY <1>1, <1>2, FinalInit, PTL DEF Spec, FinalStatesHold

-----------------------------------------------------------------------------
(* The books: what has been charged to a mission, and which executions it  *)
(* knows.  Memory and disk agree on both but for the dispatch the pass has *)
(* made last, so a crash loses sight of one execution at most.             *)
Within(mission) ==
  mission.used <= mission.max /\ (mission.status = "absent" => mission.used = 0)

AllWithin == \A m \in Missions : Within(missions[m]) /\ Within(saved[m])

ApprovingCovered ==
  pc = "approve" => LET mission == missions[execs[Len(execs)].mission]
                    IN  mission.used < mission.max /\ forgotten < Len(execs)

(* Mission m has been dispatched a task in this pass: the last execution.  *)
Fresh(m) ==
  /\ pc = "settle" /\ Current(m) /\ changed
  /\ execs[Len(execs)].status = "approved" /\ forgotten < Len(execs)
  /\ \E t \in Tasks : missions[m].tasks[t].status = "running"
  /\ \A t \in Tasks : missions[m].tasks[t].status = "running" =>
       missions[m].tasks[t].exec = Len(execs)

SameRunning(m) ==
  \A t \in Tasks : missions[m].tasks[t].status = "running" =>
    /\ saved[m].tasks[t].status = "running"
    /\ saved[m].tasks[t].exec = missions[m].tasks[t].exec

Recorded ==
  \A m \in Missions :
    \/ missions[m].used = saved[m].used /\ SameRunning(m)
    \/ missions[m].used = saved[m].used + 1 /\ Fresh(m)

BooksInv ==
  /\ FinalInv
  /\ AllWithin
  /\ ApprovingCovered
  /\ Recorded
  /\ BudgetBoundsExecutions
  /\ NoUntrackedWork

(* What no step does to executions: change what they are for, or revive    *)
(* one.                                                                    *)
NoneRevived ==
  /\ DOMAIN execs' = DOMAIN execs
  /\ \A i \in DOMAIN execs :
       /\ execs'[i].mission = execs[i].mission /\ execs'[i].task = execs[i].task
       /\ execs'[i].status \in Live => execs[i].status \in Live

LEMMA BooksFinite ==
  ASSUME TypeOK
  PROVE  /\ crashes \in Nat
         /\ IsFiniteSet(DOMAIN execs)
         /\ IsFiniteSet(Untracked) /\ Cardinality(Untracked) \in Nat
         /\ \A m : IsFiniteSet(ExecsOf(m)) /\ Cardinality(ExecsOf(m)) \in Nat
  <1>1. DOMAIN execs = 1 .. Len(execs) /\ Len(execs) \in Nat BY DEF TypeOK
  <1>2. IsFiniteSet(DOMAIN execs) BY <1>1, FS_Interval
  <1>3. Untracked \subseteq DOMAIN execs /\ \A m : ExecsOf(m) \subseteq DOMAIN execs
    BY DEF Untracked, ExecsOf
  <1>4. IsFiniteSet(Untracked) /\ \A m : IsFiniteSet(ExecsOf(m))
    BY <1>2, <1>3, FS_Subset
  <1>5. QED BY <1>2, <1>4, FS_CardinalityType DEF TypeOK

LEMMA NoneRevivedExecs ==
  ASSUME NoneRevived, NEW m PROVE ExecsOf(m)' = ExecsOf(m)
  BY DEF NoneRevived, ExecsOf

(* A step that charges nothing, keeps the running tasks of every mission   *)
(* known as long as their executions live, and saves what it makes of them *)
(* unless they were all known.                                             *)
LEMMA BooksKept ==
  ASSUME BooksInv, FinalInv', UNCHANGED crashes, pc # "approve", pc' # "approve",
         NoneRevived,
         \A m \in Missions : Within(missions'[m]) /\ missions'[m].used = missions[m].used,
         \A m \in Missions, t \in Tasks :
           /\ missions[m].status = "running" /\ missions[m].tasks[t].status = "running"
           /\ missions[m].tasks[t].exec \in DOMAIN execs
           /\ execs'[missions[m].tasks[t].exec].status \in Live
           => /\ missions'[m].status = "running" /\ missions'[m].tasks[t].status = "running"
              /\ missions'[m].tasks[t].exec = missions[m].tasks[t].exec,
         \/ saved' = missions'
         \/ /\ saved' = saved
            /\ \A m \in Missions : ~Fresh(m)
            /\ \A m \in Missions, t \in Tasks : missions'[m].tasks[t].status = "running" =>
                 /\ missions[m].tasks[t].status = "running"
                 /\ missions'[m].tasks[t].exec = missions[m].tasks[t].exec
  PROVE  BooksInv'
  <1>0. TypeOK /\ TypeOK' BY DEF BooksInv, FinalInv, EvidenceInv, GateInv
  <1>1. AllWithin'
    <2>1. \A m \in Missions : Within(saved'[m]) BY DEF BooksInv, AllWithin
    <2>2. QED BY <2>1 DEF AllWithin, Within
  <1>2. ApprovingCovered' BY DEF ApprovingCovered
  <1>3. Recorded'
    <2>1. CASE saved' = missions' BY <2>1 DEF Recorded, SameRunning
    <2>2. CASE saved' = saved /\ saved' # missions'
      <3>1. \A m \in Missions : missions[m].used = saved[m].used /\ SameRunning(m)
        BY <2>2 DEF BooksInv, Recorded
      <3>2. QED BY <2>2, <3>1 DEF Recorded, SameRunning
    <2>3. QED BY <2>1, <2>2
  <1>4. BudgetBoundsExecutions'
    <2>1. SUFFICES ASSUME NEW m \in Missions
          PROVE  /\ missions'[m].used <= missions'[m].max
                 /\ Cardinality(ExecsOf(m)') <= missions'[m].used + crashes'
      <3>1. \A m \in Missions : missions'[m].used \in Nat /\ crashes' \in Nat
        BY <1>0, MissionFields, BooksFinite
      <3>2. QED BY <3>1 DEF BudgetBoundsExecutions, BetweenProposalAndRecord
    <2>2. Cardinality(ExecsOf(m)) <= missions[m].used + crashes
      BY <1>0, MissionFields, BooksFinite
         DEF BooksInv, BudgetBoundsExecutions, BetweenProposalAndRecord
    <2>3. ExecsOf(m)' = ExecsOf(m) BY NoneRevivedExecs
    <2>4. missions'[m].used <= missions'[m].max BY DEF Within
    <2>5. missions'[m].used = missions[m].used /\ crashes' = crashes OBVIOUS
    <2>6. QED BY ONLY <2>2, <2>3, <2>4, <2>5
  <1>5. NoUntrackedWork'
    <2>1. ASSUME NEW i \in Untracked' PROVE i \in Untracked
      <3>1. i \in DOMAIN execs /\ execs'[i].status \in Live /\ ~Tracked(i)'
        BY <2>1 DEF Untracked, NoneRevived
      <3>2. execs[i].status \in Live BY <3>1 DEF NoneRevived
      <3>3. execs[i].mission \in Missions /\ execs[i].task \in Tasks
        <4>1. execs[i] \in Exec BY <1>0, <3>1 DEF TypeOK
        <4>2. QED BY <4>1 DEF Exec
      <3>4. ~Tracked(i) BY <3>1, <3>3 DEF Tracked, NoneRevived
      <3>5. QED BY <3>1, <3>2, <3>4 DEF Untracked
    <2>2. Cardinality(Untracked') <= Cardinality(Untracked)
      BY <1>0, <2>1, BooksFinite, FS_Subset
    <2>3. Cardinality(Untracked) <= crashes
      BY <1>0, BooksFinite DEF BooksInv, NoUntrackedWork
    <2>4. /\ Cardinality(Untracked) \in Nat /\ crashes \in Nat
          /\ Cardinality(Untracked') \in Nat
      <3>1. Cardinality(Untracked') \in Nat
        BY <1>0, <2>1, BooksFinite, FS_Subset, FS_CardinalityType
      <3>2. QED BY <1>0, <3>1, BooksFinite
    <2>5. Cardinality(Untracked') <= crashes' BY <2>2, <2>3, <2>4
    <2>6. QED BY <2>4, <2>5 DEF NoUntrackedWork
  <1>6. QED BY <1>1, <1>2, <1>3, <1>4, <1>5 DEF BooksInv

(* ... one mission changed, ...                                            *)
LEMMA BooksChanged ==
  ASSUME BooksInv, FinalInv', UNCHANGED crashes, pc # "approve", pc' # "approve",
         NoneRevived, NEW m \in Missions,
         \A n \in Missions : n # m => missions'[n] = missions[n],
         Within(missions'[m]), missions'[m].used = missions[m].used,
         \A t \in Tasks :
           /\ missions[m].status = "running" /\ missions[m].tasks[t].status = "running"
           /\ missions[m].tasks[t].exec \in DOMAIN execs
           /\ execs'[missions[m].tasks[t].exec].status \in Live
           => /\ missions'[m].status = "running" /\ missions'[m].tasks[t].status = "running"
              /\ missions'[m].tasks[t].exec = missions[m].tasks[t].exec,
         \/ saved' = missions'
         \/ /\ saved' = saved
            /\ \A n \in Missions : ~Fresh(n)
            /\ \A t \in Tasks : missions'[m].tasks[t].status = "running" =>
                 /\ missions[m].tasks[t].status = "running"
                 /\ missions'[m].tasks[t].exec = missions[m].tasks[t].exec
  PROVE  BooksInv'
  <1>1. \A n \in Missions : Within(missions'[n]) /\ missions'[n].used = missions[n].used
    BY DEF BooksInv, AllWithin
  <1>2. \A n \in Missions, t \in Tasks :
           /\ missions[n].status = "running" /\ missions[n].tasks[t].status = "running"
           /\ missions[n].tasks[t].exec \in DOMAIN execs
           /\ execs'[missions[n].tasks[t].exec].status \in Live
           => /\ missions'[n].status = "running" /\ missions'[n].tasks[t].status = "running"
              /\ missions'[n].tasks[t].exec = missions[n].tasks[t].exec
    OBVIOUS
  <1>3. \/ saved' = missions'
        \/ /\ saved' = saved
           /\ \A n \in Missions : ~Fresh(n)
           /\ \A n \in Missions, t \in Tasks : missions'[n].tasks[t].status = "running" =>
                /\ missions[n].tasks[t].status = "running"
                /\ missions'[n].tasks[t].exec = missions[n].tasks[t].exec
    OBVIOUS
  <1>4. QED BY <1>1, <1>2, <1>3, BooksKept

(* ... or none.                                                            *)
LEMMA BooksUntouched ==
  ASSUME BooksInv, FinalInv', UNCHANGED <<crashes, missions>>, pc # "approve",
         pc' # "approve", NoneRevived,
         saved' = missions \/ (saved' = saved /\ \A n \in Missions : ~Fresh(n))
  PROVE  BooksInv'
  <1>1. \A n \in Missions : Within(missions'[n]) BY DEF BooksInv, AllWithin
  <1>2. QED BY <1>1, BooksKept

LEMMA SameNoneRevived == UNCHANGED execs => NoneRevived
  BY DEF NoneRevived

(* The statuses StopWork and Recovered give are final.                     *)
LEMMA StoppedNoneRevived ==
  ASSUME TypeOK, NEW m, NEW ts, NEW es, es = execs \/ es = StopWork(m, ts),
         execs' = es \/ execs' = Recovered(es)
  PROVE  NoneRevived
  <1>1. \A i \in DOMAIN execs : execs[i] \in Exec BY DEF TypeOK
  <1>2. /\ DOMAIN es = DOMAIN execs
        /\ \A i \in DOMAIN execs :
             /\ es[i] \in Exec
             /\ es[i].mission = execs[i].mission /\ es[i].task = execs[i].task
             /\ es[i].status \in Live => execs[i].status \in Live
    <2>1. \A i \in DOMAIN execs :
            /\ [execs[i] EXCEPT !.status = "cancelled"] \in Exec
            /\ [execs[i] EXCEPT !.status = "cancelled"].mission = execs[i].mission
            /\ [execs[i] EXCEPT !.status = "cancelled"].task = execs[i].task
            /\ [execs[i] EXCEPT !.status = "cancelled"].status = "cancelled"
      BY <1>1 DEF Exec, Statuses
    <2>2. QED BY <1>1, <2>1 DEF StopWork, Live
  <1>3. /\ DOMAIN Recovered(es) = DOMAIN execs
        /\ \A i \in DOMAIN execs :
             /\ Recovered(es)[i].mission = es[i].mission /\ Recovered(es)[i].task = es[i].task
             /\ Recovered(es)[i].status \in Live => es[i].status \in Live
    <2>1. \A i \in DOMAIN execs :
            /\ [es[i] EXCEPT !.status = "failed"].mission = es[i].mission
            /\ [es[i] EXCEPT !.status = "failed"].task = es[i].task
            /\ [es[i] EXCEPT !.status = "failed"].status = "failed"
      BY <1>2 DEF Exec
    <2>2. QED BY <1>2, <2>1 DEF Recovered, Live
  <1>4. QED BY <1>2, <1>3 DEF NoneRevived

(* While a mission settles, dispatches or completes, its last dispatch is  *)
(* known: a fresh one is still running, so there is nothing else to do.    *)
LEMMA NotFresh ==
  ASSUME BooksInv, NEW m \in Missions, Current(m),
         \/ \E t \in Tasks : Settling(m, t)
         \/ Ready(m) # {}
         \/ AllCompleted(m)
         \/ \E t \in Tasks : Lost(m, t) /\ missions[m].tasks[t].status = "running"
  PROVE  \A n \in Missions : ~Fresh(n)
  <1>0. TypeOK /\ Orderly(missions[m])
    BY DEF BooksInv, FinalInv, EvidenceInv, GateInv, AllOrderly
  <1>1. SUFFICES ASSUME Fresh(m) PROVE FALSE
    BY <1>0, CurrentUnique DEF Fresh
  <1>2. PICK u \in Tasks : missions[m].tasks[u].status = "running" BY <1>1 DEF Fresh
  <1>3. ASSUME NEW t \in Tasks, Settling(m, t) PROVE FALSE
    <2>1. missions[m].tasks[t].status = "running" /\ ExecStatus(m, t) \in Finished
      BY <1>3 DEF Settling, Smallest, Due, HasTaskIn
    <2>2. QED BY <1>1, <2>1 DEF Fresh, ExecStatus, Finished
  <1>4. ASSUME NEW t \in Ready(m) PROVE FALSE
    <2>1. Around(missions[m], t) /\ t \in Tasks /\ missions[m].tasks[t].status = "pending"
      BY <1>0, <1>4, ReadyAround DEF Ready
    <2>2. QED BY <1>2, <2>1, TasksOrdered DEF Around
  <1>5. ~AllCompleted(m) BY <1>2 DEF AllCompleted
  <1>6. ASSUME NEW t \in Tasks, Lost(m, t), missions[m].tasks[t].status = "running" PROVE FALSE
    BY <1>0, <1>1, <1>6 DEF Fresh, Lost, TypeOK
  <1>7. QED BY <1>3, <1>4, <1>5, <1>6

LEMMA BooksInit == Init => BooksInv
  <1> SUFFICES ASSUME Init PROVE BooksInv OBVIOUS
  <1>1. /\ NoMission.used = 0 /\ NoMission.max = 0
        /\ \A t \in Tasks : NoMission.tasks[t].status = "pending"
    BY DEF NoMission, NewTask
  <1>2. AllWithin BY <1>1 DEF Init, AllWithin, Within
  <1>3. Recorded BY <1>1 DEF Init, Recorded, SameRunning
  <1>4. Untracked = {} /\ \A m \in Missions : ExecsOf(m) = {}
    BY DEF Init, Untracked, ExecsOf
  <1>5. BudgetBoundsExecutions /\ NoUntrackedWork
    BY <1>1, <1>4, FS_EmptySet
       DEF Init, BudgetBoundsExecutions, NoUntrackedWork, BetweenProposalAndRecord
  <1>6. QED BY <1>2, <1>3, <1>5, FinalInit DEF Init, BooksInv, ApprovingCovered

LEMMA RequestsKeepBooks == BooksInv /\ FinalInv' /\ Requests => BooksInv'
  <1> SUFFICES ASSUME BooksInv, FinalInv', Requests PROVE BooksInv' OBVIOUS
  <1>0. TypeOK BY DEF BooksInv, FinalInv, EvidenceInv, GateInv
  <1>a. ASSUME NEW m \in Missions
        PROVE  Orderly(missions[m]) /\ Within(missions[m])
    BY DEF BooksInv, FinalInv, AllOrderly, AllWithin
  <1>1. ASSUME NEW m \in Missions, NEW type \in MissionTypes, NEW budget \in AttemptBudgets,
               NEW talks \in Conversations, Create(m, type, budget, talks)
        PROVE  BooksInv'
    <2>1. /\ missions'[m] = NewMission(type, budget, talks)
          /\ missions[m].status = "absent"
          /\ \A n \in Missions : n # m => missions'[n] = missions[n]
      BY <1>0, <1>1, MissionFields DEF Create, MissionTable, Smallest
    <2>2. /\ missions'[m].used = 0 /\ missions'[m].max = budget
          /\ \A t \in Tasks : missions'[m].tasks[t].status = "pending"
      BY <2>1 DEF NewMission, NewTask
    <2>3. Within(missions'[m]) /\ missions[m].used = 0
      BY <1>a, <2>1, <2>2, BudgetAssumption DEF Within
    <2>4. /\ pc \in {"idle", "vault"} /\ UNCHANGED <<pc, crashes, execs>>
          /\ saved' = missions' \/ saved' = saved
      BY <1>1 DEF Create, Save, stores, pass, Interruptible
    <2>5. \A n \in Missions : ~Fresh(n) BY <2>4 DEF Fresh
    <2>6. QED
      BY <2>1, <2>2, <2>3, <2>4, <2>5, BooksChanged, SameNoneRevived
  <1>2. ASSUME NEW m \in Missions, Approve(m) PROVE BooksInv'
    <2> DEFINE tasks == [t \in Tasks |-> IF t \in Sensitive[missions[m].type]
                            THEN [missions[m].tasks[t] EXCEPT !.approval = "approved"]
                            ELSE missions[m].tasks[t]]
    <2>1. /\ missions[m].status = "awaiting-approval"
          /\ missions'[m] = [missions[m] EXCEPT !.tasks = tasks, !.approved = TRUE,
                                                !.status = "approved"]
          /\ \A n \in Missions : n # m => missions'[n] = missions[n]
      BY <1>0, <1>2, MissionFields DEF Approve, MissionTable
    <2>2. /\ missions'[m].used = missions[m].used /\ missions'[m].max = missions[m].max
          /\ missions'[m].status = "approved"
      <3> HIDE DEF tasks
      <3>1. QED BY <1>0, <2>1, MissionFields DEF Mission
    <2>3. Within(missions'[m]) BY <1>a, <2>2 DEF Within
    <2>4. pc \in {"idle", "vault"} /\ UNCHANGED <<pc, crashes, execs>> /\ saved' = missions'
      BY <1>2 DEF Approve, Save, stores, pass, Interruptible
    <2>5. QED
      <3> HIDE DEF tasks
      <3>1. QED BY <2>1, <2>2, <2>3, <2>4, BooksChanged, SameNoneRevived
  <1>2a. ASSUME NEW m \in Missions, ApproveThrows(m) PROVE BooksInv'
    <2>1. /\ missions[m].status = "awaiting-approval"
          /\ missions'[m].status = "awaiting-approval"
          /\ missions'[m].used = missions[m].used /\ missions'[m].max = missions[m].max
          /\ \A t \in Tasks : /\ missions'[m].tasks[t].status = missions[m].tasks[t].status
                              /\ missions'[m].tasks[t].exec = missions[m].tasks[t].exec
          /\ \A n \in Missions : n # m => missions'[n] = missions[n]
          /\ pc \in {"idle", "vault"} /\ UNCHANGED <<pc, crashes, execs, saved>>
      BY <1>0, <1>2a, ThrownApproval
    <2>2. Within(missions'[m]) BY <1>a, <2>1 DEF Within
    <2>3. \A n \in Missions : ~Fresh(n) BY <2>1 DEF Fresh
    <2>4. QED BY <2>1, <2>2, <2>3, BooksChanged, SameNoneRevived
  <1>3. ASSUME NEW m \in Missions, Start(m) PROVE BooksInv'
    <2>1. /\ missions[m].status = "approved" /\ missions'[m].status = "running"
          /\ missions'[m].used = missions[m].used /\ missions'[m].max = missions[m].max
          /\ \A n \in Missions : n # m => missions'[n] = missions[n]
      BY <1>0, <1>3, MissionFields DEF Start, MissionTable, Mission
    <2>2. Within(missions'[m]) BY <1>a, <2>1 DEF Within
    <2>3. pc \in {"idle", "vault"} /\ UNCHANGED <<pc, crashes, execs>> /\ saved' = missions'
      BY <1>3 DEF Start, Save, stores, pass, Interruptible
    <2>4. QED BY <2>1, <2>2, <2>3, BooksChanged, SameNoneRevived
  <1>4. ASSUME NEW m \in Missions, Cancel(m) PROVE BooksInv'
    <2> DEFINE tasks == SetTasks(m, CancelTargets(m), "cancelled")
    <2>1. /\ missions'[m] = [missions[m] EXCEPT !.tasks = tasks, !.status = "cancelled"]
          /\ \A n \in Missions : n # m => missions'[n] = missions[n]
      BY <1>0, <1>4, MissionFields DEF Cancel, MissionTable
    <2>2. /\ missions'[m].used = missions[m].used /\ missions'[m].max = missions[m].max
          /\ missions'[m].status = "cancelled"
      <3> HIDE DEF tasks
      <3>1. QED BY <1>0, <2>1, MissionFields DEF Mission
    <2>3. Within(missions'[m]) BY <1>a, <2>2 DEF Within
    <2>4. pc \in {"idle", "vault"} /\ UNCHANGED <<pc, crashes>> /\ saved' = missions'
          /\ execs' = StopWork(m, CancelTargets(m))
      BY <1>4 DEF Cancel, Save, pass, Interruptible
    <2>5. NoneRevived BY <1>0, <2>4, StoppedNoneRevived
    (* The running tasks are the ones that were stopped.                   *)
    <2>6. ASSUME NEW t \in Tasks, missions[m].tasks[t].status = "running",
                 missions[m].tasks[t].exec \in DOMAIN execs
          PROVE  execs'[missions[m].tasks[t].exec].status \notin Live
      <3>1. t \in CancelTargets(m) BY <1>a, <2>6 DEF CancelTargets, HasTaskIn, Orderly
      <3>2. execs[missions[m].tasks[t].exec] \in Exec BY <1>0, <2>6 DEF TypeOK
      <3>3. QED BY <2>4, <2>6, <3>1, <3>2 DEF StopWork, Exec, Live
    <2>7. QED
      <3> HIDE DEF tasks
      <3>1. QED BY <2>1, <2>2, <2>3, <2>4, <2>5, <2>6, BooksChanged
  <1>5. ASSUME NEW m \in Missions, NEW t \in Tasks, RetryTask(m, t) PROVE BooksInv'
    <2>1. /\ missions'[m].used = missions[m].used /\ missions'[m].max = missions[m].max
          /\ missions'[m].status = "running" /\ missions[m].tasks[t].status = "failed"
          /\ \A n \in Missions : n # m => missions'[n] = missions[n]
      BY <1>0, <1>5, MissionFields DEF RetryTask, MissionTable, Mission
    <2>2. missions[m].status = "failed" BY <1>a, <2>1 DEF Orderly
    <2>3. Within(missions'[m]) BY <1>a, <2>1 DEF Within
    <2>4. pc \in {"idle", "vault"} /\ UNCHANGED <<pc, crashes, execs>> /\ saved' = missions'
      BY <1>5 DEF RetryTask, Save, stores, pass, Interruptible
    <2>5. QED BY <2>1, <2>2, <2>3, <2>4, BooksChanged, SameNoneRevived
  <1>6. QED BY <1>1, <1>2, <1>2a, <1>3, <1>4, <1>5 DEF Requests

(* The two steps of a dispatch.  The execution is unknown to its mission   *)
(* from its proposal to its approval, ...                                  *)
LEMMA ProposeKeepsBooks ==
  ASSUME BooksInv, FinalInv', NEW m \in Missions, NEW t \in Tasks, ProposeExecution(m, t)
  PROVE  BooksInv'
  <1>0. TypeOK /\ TypeOK' BY DEF BooksInv, FinalInv, EvidenceInv, GateInv
  <1> DEFINE last == Len(execs) + 1
             e == [mission |-> m, task |-> t, status |-> "proposed"]
  <1>1. /\ execs' = Append(execs, e) /\ execs \in Seq(Exec)
        /\ UNCHANGED <<missions, saved, queue, crashes>>
        /\ forgotten' \in Nat /\ forgotten' <= Len(execs)
        /\ pc = "settle" /\ pc' = "approve" /\ Current(m)
        /\ missions[m].used < missions[m].max /\ t \in Ready(m)
    BY <1>0 DEF ProposeExecution, Dispatching, Settled, Smallest, TypeOK
  <1>2. /\ DOMAIN execs = 1 .. Len(execs) /\ Len(execs) \in Nat
        /\ DOMAIN execs' = 1 .. last /\ Len(execs') = last
        /\ \A i \in 1 .. Len(execs) : execs'[i] = execs[i]
        /\ execs'[last] = e
    <2> HIDE DEF e
    <2>1. QED BY <1>1
  <1>3. e.mission = m /\ e.task = t OBVIOUS
  <1> HIDE DEF last, e
  <1>4. AllWithin' BY <1>1 DEF BooksInv, AllWithin, Within
  <1>5. ApprovingCovered'
    <2>1. forgotten' < last BY <1>1, <1>2 DEF last
    <2>2. QED BY <1>1, <1>2, <1>3, <2>1 DEF ApprovingCovered
  <1>6. \A n \in Missions : ~Fresh(n) BY <1>1, NotFresh
  <1>7. Recorded' BY <1>1, <1>6 DEF BooksInv, Recorded, SameRunning
  <1>8. DOMAIN execs' = DOMAIN execs \cup {last} BY <1>2 DEF last
  <1>9. BudgetBoundsExecutions'
    <2>1. SUFFICES ASSUME NEW n \in Missions
          PROVE  /\ missions[n].used <= missions[n].max
                 /\ Cardinality(ExecsOf(n)') <= missions[n].used + crashes
                                               + (IF n = m THEN 1 ELSE 0)
      <3>1. \A n \in Missions : BetweenProposalAndRecord(n)' <=> n = m
        BY <1>0, <1>1, CurrentUnique DEF BetweenProposalAndRecord, Current, Smallest
      <3>2. QED BY <1>1, <3>1 DEF BudgetBoundsExecutions
    <2>2. /\ missions[n].used <= missions[n].max
          /\ Cardinality(ExecsOf(n)) <= missions[n].used + crashes
      BY <1>0, <1>1, MissionFields, BooksFinite
         DEF BooksInv, BudgetBoundsExecutions, BetweenProposalAndRecord
    <2>3. CASE n = m
      <3>1. ExecsOf(n)' \subseteq ExecsOf(n) \cup {last} BY <1>2, <1>8 DEF ExecsOf, last
      <3>2. /\ IsFiniteSet(ExecsOf(n) \cup {last})
            /\ Cardinality(ExecsOf(n) \cup {last}) <= Cardinality(ExecsOf(n)) + 1
            /\ Cardinality(ExecsOf(n) \cup {last}) \in Nat
        <4>1. /\ IsFiniteSet(ExecsOf(n) \cup {last})
              /\ Cardinality(ExecsOf(n) \cup {last}) =
                   IF last \in ExecsOf(n) THEN Cardinality(ExecsOf(n))
                                           ELSE Cardinality(ExecsOf(n)) + 1
          BY <1>0, BooksFinite, FS_AddElement
        <4>2. QED BY <1>0, <4>1, BooksFinite
      <3>3. /\ Cardinality(ExecsOf(n)') <= Cardinality(ExecsOf(n) \cup {last})
            /\ Cardinality(ExecsOf(n)') \in Nat
        BY <3>1, <3>2, FS_Subset, FS_CardinalityType
      <3>4. QED BY <1>0, <2>2, <2>3, <3>2, <3>3, MissionFields, BooksFinite
    <2>4. CASE n # m
      <3>1. ExecsOf(n)' = ExecsOf(n) BY <1>2, <1>3, <1>8, <2>4 DEF ExecsOf, last
      <3>2. QED BY <1>0, <2>2, <2>4, <3>1, MissionFields, BooksFinite
    <2>5. QED BY <2>3, <2>4
  <1>10. NoUntrackedWork'
    <2>1. Untracked' \subseteq Untracked \cup {last}
      BY <1>1, <1>2, <1>8 DEF Untracked, Tracked, last
    <2>2. /\ IsFiniteSet(Untracked \cup {last})
          /\ Cardinality(Untracked \cup {last}) <= Cardinality(Untracked) + 1
          /\ Cardinality(Untracked \cup {last}) \in Nat
      <3>1. /\ IsFiniteSet(Untracked \cup {last})
            /\ Cardinality(Untracked \cup {last}) =
                 IF last \in Untracked THEN Cardinality(Untracked)
                                        ELSE Cardinality(Untracked) + 1
        BY <1>0, BooksFinite, FS_AddElement
      <3>2. QED BY <1>0, <3>1, BooksFinite
    <2>3. /\ Cardinality(Untracked') <= Cardinality(Untracked \cup {last})
          /\ Cardinality(Untracked') \in Nat
      BY <2>1, <2>2, FS_Subset, FS_CardinalityType
    <2>4. Cardinality(Untracked) <= crashes
      BY <1>0, <1>1, BooksFinite DEF BooksInv, NoUntrackedWork
    <2>5. Cardinality(Untracked') <= crashes + 1
      BY <1>0, <2>2, <2>3, <2>4, BooksFinite
    <2>6. QED BY <1>1, <2>5 DEF NoUntrackedWork
  <1>11. QED BY <1>4, <1>5, <1>7, <1>9, <1>10 DEF BooksInv

(* ... and fresh from then until the mission is saved.                     *)
LEMMA ApproveKeepsBooks ==
  ASSUME BooksInv, FinalInv', NEW m \in Missions, NEW t \in Tasks, ApproveExecution(m, t)
  PROVE  BooksInv'
  <1>0. TypeOK /\ TypeOK' /\ Orderly(missions[m])
    BY DEF BooksInv, FinalInv, EvidenceInv, GateInv, AllOrderly
  <1> DEFINE last == Len(execs)
             task == [missions[m].tasks[t] EXCEPT !.status = "running", !.exec = last,
                                                  !.attempts = @ + 1]
  <1>1. /\ pc = "approve" /\ Current(m) /\ t = execs[last].task
        /\ UNCHANGED <<queue, saved, crashes, forgotten>>
        /\ pc' = "settle" /\ changed' = TRUE
    BY DEF ApproveExecution
  <1>2. /\ last \in DOMAIN execs /\ execs[last] \in Exec
        /\ execs[last].status = "proposed" /\ execs[last].mission = m
        /\ t \in Ready(m)
    <2>1. /\ last \in DOMAIN execs /\ execs[last].status = "proposed"
          /\ Current(execs[last].mission) /\ t \in Ready(execs[last].mission)
      BY <1>1 DEF BooksInv, FinalInv, EvidenceInv, ApprovingLast, ApprovingReady
    <2>2. execs[last] \in Exec BY <1>0, <2>1 DEF TypeOK
    <2>3. execs[last].mission \in Missions BY <2>2 DEF Exec
    <2>4. execs[last].mission = m BY <1>0, <1>1, <2>1, <2>3, CurrentUnique
    <2>5. QED BY <2>1, <2>2, <2>4
  <1>3. /\ missions'[m].tasks = [missions[m].tasks EXCEPT ![t] = task]
        /\ missions'[m].status = missions[m].status
        /\ missions'[m].used = missions[m].used + 1 /\ missions'[m].max = missions[m].max
        /\ \A n \in Missions : n # m => missions'[n] = missions[n]
    <2>1. missions' = [missions EXCEPT
             ![m].tasks[t] = [@ EXCEPT !.status = "running", !.exec = Len(execs),
                                       !.attempts = @ + 1],
             ![m].used = @ + 1]
      BY DEF ApproveExecution
    <2>2. missions' = [missions EXCEPT ![m].tasks[t] = task,
                                       ![m].used = missions[m].used + 1]
      BY <1>0, <2>1, MissionFields DEF MissionTable, Mission, Task
    <2> HIDE DEF task
    <2>3. QED BY <1>0, <2>2, MissionFields DEF MissionTable, Mission
  <1>4. /\ task.status = "running" /\ task.exec = last /\ t \in Tasks
        /\ missions[m].tasks \in [Tasks -> Task]
        /\ missions[m].tasks[t].status = "pending" /\ missions[m].status = "running"
    BY <1>0, <1>1, <1>2, MissionFields
       DEF Task, Ready, BooksInv, FinalInv, EvidenceInv, GateInv, ApprovingRunning
  <1>5. /\ DOMAIN execs' = DOMAIN execs
        /\ \A i \in DOMAIN execs : i # last => execs'[i] = execs[i]
        /\ execs'[last].mission = m /\ execs'[last].task = t
        /\ execs'[last].status = "approved"
    BY <1>1, <1>2 DEF ApproveExecution, Exec
  <1>6. Len(execs') = last
    BY <1>0, <1>5 DEF TypeOK
  <1> HIDE DEF task, last
  <1>7. \A u \in Tasks : u # t => missions[m].tasks[u].status # "running"
    BY <1>0, <1>2, ReadyAround, TasksOrdered DEF Around
  <1>8. NoneRevived BY <1>2, <1>1, <1>5 DEF NoneRevived, Live
  <1>9. missions[m].used < missions[m].max /\ forgotten < last
    BY <1>1, <1>2 DEF BooksInv, ApprovingCovered, last
  <1>10. AllWithin'
    <2>1. Within(missions'[m])
      BY <1>0, <1>3, <1>4, <1>9, MissionFields DEF Within, Mission
    <2>2. QED BY <1>1, <1>3, <2>1 DEF BooksInv, AllWithin, Within
  <1>11. Recorded'
    <2>1. \A n \in Missions : missions[n].used = saved[n].used /\ SameRunning(n)
      BY <1>1 DEF BooksInv, Recorded, Fresh
    <2>2. Fresh(m)'
      BY <1>1, <1>3, <1>4, <1>5, <1>6, <1>7, <1>9 DEF Fresh, Current, Smallest
    <2>3. missions'[m].used = saved'[m].used + 1 BY <1>1, <1>3, <2>1
    <2>4. \A n \in Missions : n # m => missions'[n].used = saved'[n].used /\ SameRunning(n)'
      BY <1>1, <1>3, <2>1 DEF SameRunning
    <2>5. QED BY <2>2, <2>3, <2>4 DEF Recorded
  <1>12. BudgetBoundsExecutions'
    <2>1. SUFFICES ASSUME NEW n \in Missions
          PROVE  /\ missions'[n].used <= missions'[n].max
                 /\ Cardinality(ExecsOf(n)) <= missions'[n].used + crashes
      <3>1. \A n \in Missions : ~BetweenProposalAndRecord(n)'
        BY <1>1 DEF BetweenProposalAndRecord
      <3>2. \A n \in Missions : missions'[n].used \in Nat /\ crashes \in Nat
        <4>1. \A n \in Missions : missions[n].used \in Nat BY <1>0, MissionFields
        <4>2. \A n \in Missions : missions'[n].used \in Nat BY <1>3, <4>1
        <4>3. QED BY <1>0, <4>2, BooksFinite
      <3>3. QED BY <1>1, <1>8, <3>1, <3>2, NoneRevivedExecs DEF BudgetBoundsExecutions
    <2>2. missions'[n].used <= missions'[n].max BY <1>10 DEF AllWithin, Within
    <2>3. CASE n = m
      <3>1. Cardinality(ExecsOf(n)) <= missions[n].used + crashes + 1
        BY <1>0, <1>1, <2>3, MissionFields, BooksFinite
           DEF BooksInv, BudgetBoundsExecutions, BetweenProposalAndRecord
      <3>2. QED BY <1>0, <1>3, <2>2, <2>3, <3>1, MissionFields, BooksFinite
    <2>4. CASE n # m
      <3>1. ~BetweenProposalAndRecord(n)
        BY <1>0, <1>1, <2>4, CurrentUnique DEF BetweenProposalAndRecord
      <3>2. Cardinality(ExecsOf(n)) <= missions[n].used + crashes
        BY <1>0, <3>1, MissionFields, BooksFinite DEF BooksInv, BudgetBoundsExecutions
      <3>3. QED BY <1>3, <2>2, <2>4, <3>2
    <2>5. QED BY <2>3, <2>4
  <1>13. NoUntrackedWork'
    <2>1. last \in Untracked
      <3>1. ~Tracked(last) BY <1>1, <1>2, <1>4 DEF Tracked
      <3>2. QED BY <1>2, <3>1 DEF Untracked, Live
    <2>2. ASSUME NEW i \in Untracked' PROVE i \in Untracked \ {last}
      <3>1. i \in DOMAIN execs /\ execs'[i].status \in Live /\ ~Tracked(i)'
        BY <1>5, <2>2 DEF Untracked
      <3>2. i = last => Tracked(i)' BY <1>3, <1>4, <1>5 DEF Tracked
      <3>3. i # last /\ execs'[i] = execs[i] BY <1>5, <3>1, <3>2
      <3>4. execs[i] \in Exec BY <1>0, <3>1 DEF TypeOK
      <3>5. execs[i].mission \in Missions /\ execs[i].task \in Tasks BY <3>4 DEF Exec
      <3>6. ~Tracked(i)
        <4>1. CASE execs[i].mission # m BY <1>3, <3>1, <3>3, <3>5, <4>1 DEF Tracked
        <4>2. CASE execs[i].mission = m BY <1>4, <1>7, <3>5, <4>2 DEF Tracked
        <4>3. QED BY <4>1, <4>2
      <3>7. QED BY <3>1, <3>3, <3>6 DEF Untracked
    <2>3. /\ IsFiniteSet(Untracked \ {last})
          /\ Cardinality(Untracked \ {last}) = Cardinality(Untracked) - 1
      BY <1>0, <2>1, BooksFinite, FS_RemoveElement
    <2>4. /\ Cardinality(Untracked') <= Cardinality(Untracked \ {last})
          /\ Cardinality(Untracked') \in Nat
      BY <2>2, <2>3, FS_Subset, FS_CardinalityType
    <2>5. Cardinality(Untracked) <= crashes + 1
      BY <1>0, <1>1, BooksFinite DEF BooksInv, NoUntrackedWork
    <2>6. Cardinality(Untracked') <= crashes
      BY <1>0, <2>3, <2>4, <2>5, BooksFinite
    <2>7. QED BY <1>0, <1>1, <2>4, <2>6, BooksFinite DEF NoUntrackedWork
  <1>14. ApprovingCovered' BY <1>1 DEF ApprovingCovered
  <1>15. QED BY <1>10, <1>11, <1>12, <1>13, <1>14 DEF BooksInv

LEMMA ReconcileKeepsBooks == BooksInv /\ FinalInv' /\ Reconcile => BooksInv'
  <1> SUFFICES ASSUME BooksInv, FinalInv', Reconcile PROVE BooksInv' OBVIOUS
  <1>0. TypeOK BY DEF BooksInv, FinalInv, EvidenceInv, GateInv
  <1>a. ASSUME NEW m \in Missions
        PROVE  Orderly(missions[m]) /\ Within(missions[m])
    BY DEF BooksInv, FinalInv, AllOrderly, AllWithin
  (* A task that settles is the one running task of its mission, and its   *)
  (* execution no longer lives.                                            *)
  <1>b. ASSUME NEW m \in Missions, NEW t \in Tasks, Settling(m, t)
        PROVE  /\ pc = "settle" /\ \A n \in Missions : ~Fresh(n)
               /\ execs[missions[m].tasks[t].exec].status \notin Live
               /\ \A u \in Tasks : u # t => missions[m].tasks[u].status # "running"
    <2>1. /\ missions[m].tasks[t].status = "running" /\ Current(m) /\ pc = "settle"
          /\ ExecStatus(m, t) \in Finished
      BY <1>b DEF Settling, Smallest, Due, HasTaskIn
    <2>2. Around(missions[m], t) BY <1>a, <2>1, OneActive
    <2>3. QED
      BY <1>b, <2>1, <2>2, NotFresh, TasksOrdered DEF Around, ExecStatus, Finished, Live
  <1>1. ASSUME NEW m \in Missions, TimeOut(m) PROVE BooksInv'
    <2> DEFINE targets == {t \in Tasks : HasTaskIn(m, t, {"running"})}
               tasks == SetTasks(m, targets, "cancelled")
    <2>1. /\ missions'[m] = [missions[m] EXCEPT !.tasks = tasks, !.status = "failed"]
          /\ \A n \in Missions : n # m => missions'[n] = missions[n]
      BY <1>0, <1>1, MissionFields DEF TimeOut, MissionTable
    <2>2. /\ missions'[m].used = missions[m].used /\ missions'[m].max = missions[m].max
          /\ missions'[m].status = "failed"
      <3> HIDE DEF tasks
      <3>1. QED BY <1>0, <2>1, MissionFields DEF Mission
    <2>3. Within(missions'[m]) BY <1>a, <2>2 DEF Within
    <2>4. /\ pc = "settle" /\ pc' # "approve" /\ UNCHANGED crashes /\ saved' = missions'
          /\ execs' = StopWork(m, targets)
      BY <1>1 DEF TimeOut, OutOfTime, Save, NextMission
    <2>5. NoneRevived
      <3> HIDE DEF targets
      <3>1. QED BY <1>0, <2>4, StoppedNoneRevived
    <2>6. ASSUME NEW t \in Tasks, missions[m].tasks[t].status = "running",
                 missions[m].tasks[t].exec \in DOMAIN execs
          PROVE  execs'[missions[m].tasks[t].exec].status \notin Live
      <3>1. t \in targets BY <1>a, <2>6 DEF HasTaskIn, Orderly
      <3>2. execs[missions[m].tasks[t].exec] \in Exec BY <1>0, <2>6 DEF TypeOK
      <3> HIDE DEF targets
      <3>3. QED BY <2>4, <2>6, <3>1, <3>2 DEF StopWork, Exec, Live
    <2>7. QED
      <3> HIDE DEF tasks, targets
      <3>1. QED BY <2>1, <2>2, <2>3, <2>4, <2>5, <2>6, BooksChanged
  <1>2. ASSUME NEW m \in Missions, NEW t \in Tasks, CompleteTask(m, t) PROVE BooksInv'
    <2> DEFINE task == [missions[m].tasks[t] EXCEPT !.status = "completed",
                                                    !.artifact = Len(artifacts')]
    <2>1. /\ missions'[m].tasks = [missions[m].tasks EXCEPT ![t] = task]
          /\ missions'[m].status = missions[m].status
          /\ missions'[m].used = missions[m].used /\ missions'[m].max = missions[m].max
          /\ \A n \in Missions : n # m => missions'[n] = missions[n]
      BY <1>0, <1>2, MissionFields DEF CompleteTask, MissionTable, Mission
    <2>2. Settling(m, t) /\ UNCHANGED <<pc, saved, execs, crashes>> BY <1>2 DEF CompleteTask
    <2>3. task.status = "completed" /\ missions[m].tasks \in [Tasks -> Task]
      BY <1>0, MissionFields DEF Task
    <2>4. Within(missions'[m]) BY <1>a, <2>1 DEF Within
    <2>5. \A u \in Tasks : missions'[m].tasks[u].status # "running"
      <3> HIDE DEF task
      <3>1. QED BY <1>b, <2>1, <2>2, <2>3
    <2>6. \A u \in Tasks : missions[m].tasks[u].status = "running" =>
            execs'[missions[m].tasks[u].exec].status \notin Live
      BY <1>b, <2>2
    <2>7. pc = "settle" /\ \A n \in Missions : ~Fresh(n) BY <1>b, <2>2
    <2>8. NoneRevived BY <2>2, SameNoneRevived
    <2>9. QED
      <3> HIDE DEF task
      <3>1. QED BY <2>1, <2>2, <2>4, <2>5, <2>6, <2>7, <2>8, BooksChanged
  <1>3. ASSUME NEW m \in Missions, NEW t \in Tasks, ScheduleRetry(m, t) PROVE BooksInv'
    <2> DEFINE task == [missions[m].tasks[t] EXCEPT !.status = "pending", !.exec = None]
    <2>1. /\ missions'[m].tasks = [missions[m].tasks EXCEPT ![t] = task]
          /\ missions'[m].status = missions[m].status
          /\ missions'[m].used = missions[m].used /\ missions'[m].max = missions[m].max
          /\ \A n \in Missions : n # m => missions'[n] = missions[n]
      BY <1>0, <1>3, MissionFields DEF ScheduleRetry, MissionTable, Mission
    <2>2. Settling(m, t) /\ UNCHANGED <<pc, saved, execs, crashes>>
      BY <1>3 DEF ScheduleRetry, stores
    <2>3. task.status = "pending" /\ missions[m].tasks \in [Tasks -> Task]
      BY <1>0, MissionFields DEF Task
    <2>4. Within(missions'[m]) BY <1>a, <2>1 DEF Within
    <2>5. \A u \in Tasks : missions'[m].tasks[u].status # "running"
      <3> HIDE DEF task
      <3>1. QED BY <1>b, <2>1, <2>2, <2>3
    <2>6. \A u \in Tasks : missions[m].tasks[u].status = "running" =>
            execs'[missions[m].tasks[u].exec].status \notin Live
      BY <1>b, <2>2
    <2>7. pc = "settle" /\ \A n \in Missions : ~Fresh(n) BY <1>b, <2>2
    <2>8. NoneRevived BY <2>2, SameNoneRevived
    <2>9. QED
      <3> HIDE DEF task
      <3>1. QED BY <2>1, <2>2, <2>4, <2>5, <2>6, <2>7, <2>8, BooksChanged
  <1>4. ASSUME NEW m \in Missions, NEW t \in Tasks, EndTask(m, t) PROVE BooksInv'
    <2> DEFINE ended == ExecStatus(m, t)
               task == [missions[m].tasks[t] EXCEPT !.status = ended]
    <2>1. /\ ended \in {"failed", "cancelled"} /\ Settling(m, t)
          /\ UNCHANGED <<pc, saved, execs, crashes>>
      BY <1>4 DEF EndTask, stores
    <2>2. /\ missions'[m].tasks = [missions[m].tasks EXCEPT ![t] = task]
          /\ missions'[m].status = ended
          /\ missions'[m].used = missions[m].used /\ missions'[m].max = missions[m].max
          /\ \A n \in Missions : n # m => missions'[n] = missions[n]
      BY <1>0, <1>4, MissionFields DEF EndTask, MissionTable, Mission
    <2>3. task.status = ended /\ missions[m].tasks \in [Tasks -> Task]
      <3> HIDE DEF ended
      <3>1. QED BY <1>0, MissionFields DEF Task
    <2> HIDE DEF task, ended
    <2>4. Within(missions'[m]) BY <1>a, <2>1, <2>2 DEF Within
    <2>5. \A u \in Tasks : missions'[m].tasks[u].status # "running"
      BY <1>b, <2>1, <2>2, <2>3
    <2>6. \A u \in Tasks : missions[m].tasks[u].status = "running" =>
            execs'[missions[m].tasks[u].exec].status \notin Live
      BY <1>b, <2>1
    <2>7. pc = "settle" /\ \A n \in Missions : ~Fresh(n) BY <1>b, <2>1
    <2>8. NoneRevived BY <2>1, SameNoneRevived
    <2>9. QED BY <2>1, <2>2, <2>4, <2>5, <2>6, <2>7, <2>8, BooksChanged
  <1>1a. ASSUME NEW m \in Missions, ExecutionNotFound(m) PROVE BooksInv'
    <2>1. \E t \in Tasks : Lost(m, t) /\ missions[m].tasks[t].status = "running"
      <3>1. PICK t \in Tasks : Lost(m, t) /\ HasTaskIn(m, t, {"running", "pending"})
        BY <1>1a DEF ExecutionNotFound, Stoppable, CancelTargets, Smallest, Due, HasTaskIn
      <3>2. Orderly(missions[m]) BY DEF BooksInv, FinalInv, AllOrderly
      <3>3. QED BY <3>1, <3>2 DEF HasTaskIn, Orderly
    <2>2. /\ Current(m) /\ pc = "settle" /\ pc' = "idle"
          /\ UNCHANGED <<missions, saved, execs, crashes>>
      BY <1>1a DEF ExecutionNotFound, AbortPass, stores
    <2>3. QED BY <2>1, <2>2, NotFresh, BooksUntouched, SameNoneRevived
  <1>5. ASSUME NEW m \in Missions, NEW t \in Tasks, DispatchRefused(m, t) PROVE BooksInv'
    <2>1. /\ Current(m) /\ Ready(m) # {} /\ pc = "settle" /\ pc' = "idle"
          /\ UNCHANGED <<missions, saved, execs, crashes>>
      BY <1>5 DEF DispatchRefused, Dispatching, Settled, Smallest, AbortPass, stores
    <2>2. QED BY <2>1, NotFresh, BooksUntouched, SameNoneRevived
  <1>6. ASSUME NEW m \in Missions, CompleteMission(m) PROVE BooksInv'
    <2>1. /\ missions'[m].tasks = missions[m].tasks
          /\ missions'[m].status = "completed"
          /\ missions'[m].used = missions[m].used /\ missions'[m].max = missions[m].max
          /\ \A n \in Missions : n # m => missions'[n] = missions[n]
      BY <1>0, <1>6, MissionFields DEF CompleteMission, MissionTable, Mission
    <2>2. /\ Current(m) /\ AllCompleted(m) /\ pc = "settle" /\ pc' = "vault"
          /\ UNCHANGED <<saved, execs, crashes>>
      BY <1>6 DEF CompleteMission, Settled
    <2>3. Within(missions'[m]) BY <1>a, <2>1 DEF Within
    <2>4. \A t \in Tasks : missions[m].tasks[t].status = "completed"
      BY <2>2 DEF AllCompleted
    <2>5. QED
      BY <2>1, <2>2, <2>3, <2>4, NotFresh, BooksChanged, SameNoneRevived
  (* A fresh dispatch has set changed, so the mission is saved as it ends  *)
  (* its turn.                                                             *)
  <1>7. ASSUME NEW m \in Missions, Leave(m) PROVE BooksInv'
    <2>1. /\ Current(m) /\ pc = "settle" /\ pc' # "approve"
          /\ UNCHANGED <<missions, execs, crashes>>
          /\ IF changed THEN saved' = missions ELSE saved' = saved
      BY <1>7 DEF Leave, Settled, NextMission, stores
    <2>2. QED BY <2>1, BooksUntouched, SameNoneRevived DEF Fresh
  <1>8. QED
    BY <1>1, <1>1a, <1>2, <1>3, <1>4, <1>5, <1>6, <1>7, ProposeKeepsBooks, ApproveKeepsBooks
       DEF Reconcile

LEMMA VaultKeepsBooks == BooksInv /\ FinalInv' /\ Vault => BooksInv'
  <1> SUFFICES ASSUME BooksInv, FinalInv', Vault PROVE BooksInv' OBVIOUS
  <1>0. TypeOK BY DEF BooksInv, FinalInv, EvidenceInv, GateInv
  <1>1. ASSUME NEW m \in Missions, VaultDone(m) PROVE BooksInv'
    <2>1. /\ missions'[m].tasks = missions[m].tasks
          /\ missions'[m].status = missions[m].status
          /\ missions'[m].used = missions[m].used /\ missions'[m].max = missions[m].max
          /\ \A n \in Missions : n # m => missions'[n] = missions[n]
      BY <1>0, <1>1, MissionFields DEF VaultDone, MissionTable, Mission
    <2>2. /\ pc = "vault" /\ pc' # "approve" /\ UNCHANGED <<execs, crashes>>
          /\ saved' = saved \/ saved' = missions'
      BY <1>1 DEF VaultDone, Save, NextMission, AbortPass, stores
    <2>3. Within(missions'[m]) BY <2>1 DEF BooksInv, AllWithin, Within
    <2>4. \A n \in Missions : ~Fresh(n) BY <2>2 DEF Fresh
    <2>5. QED BY <2>1, <2>2, <2>3, <2>4, BooksChanged, SameNoneRevived
  <1>2. ASSUME NEW m \in Missions, VaultFailed(m) PROVE BooksInv'
    <2>1. /\ pc = "vault" /\ pc' = "idle"
          /\ UNCHANGED <<missions, saved, execs, crashes>>
      BY <1>2 DEF VaultFailed, AbortPass, stores
    <2>2. QED BY <2>1, BooksUntouched, SameNoneRevived DEF Fresh
  <1>3. QED BY <1>1, <1>2 DEF Vault

(* A crash costs one execution at most: the proposed one, or the fresh one *)
(* that the disk does not know.                                            *)
LEMMA DeathKeepsBooks == BooksInv /\ FinalInv' /\ Death => BooksInv'
  <1> SUFFICES ASSUME BooksInv, FinalInv', Death PROVE BooksInv' OBVIOUS
  <1>0. TypeOK /\ TypeOK' BY DEF BooksInv, FinalInv, EvidenceInv, GateInv
  <1>1. /\ missions' = saved /\ saved' = saved /\ pc' = "idle" /\ crashes' = crashes + 1
    BY DEF Death, Crash, StopInterrupted, CompleteTaskInterrupted, DieWith, AbortPass
  <1>2. NoneRevived
    <2>1. CASE Crash BY <1>0, <2>1, StoppedNoneRevived DEF Crash, DieWith
    <2>2. ASSUME NEW m \in Missions, StopInterrupted(m) PROVE NoneRevived
      BY <1>0, <2>2, StoppedNoneRevived DEF StopInterrupted, DieWith
    <2>3. ASSUME NEW m \in Missions, NEW t \in Tasks, CompleteTaskInterrupted(m, t)
          PROVE  NoneRevived
      BY <1>0, <2>3, StoppedNoneRevived DEF CompleteTaskInterrupted, DieWith
    <2>4. QED BY <2>1, <2>2, <2>3 DEF Death
  <1>3. AllWithin' /\ ApprovingCovered' /\ Recorded'
    BY <1>1 DEF BooksInv, AllWithin, Within, ApprovingCovered, Recorded, SameRunning
  <1>4. BudgetBoundsExecutions'
    <2>1. SUFFICES ASSUME NEW m \in Missions
          PROVE  /\ saved[m].used <= saved[m].max
                 /\ Cardinality(ExecsOf(m)) <= saved[m].used + crashes + 1
      <3>1. saved \in [Missions -> Mission] BY <1>0 DEF TypeOK
      <3>2. \A m \in Missions : saved[m].used \in Nat BY <3>1 DEF Mission
      <3>3. \A m \in Missions : ~BetweenProposalAndRecord(m)'
        BY <1>1 DEF BetweenProposalAndRecord
      <3>4. crashes \in Nat BY <1>0, BooksFinite
      <3>5. QED
        BY <1>1, <1>2, <3>2, <3>3, <3>4, NoneRevivedExecs DEF BudgetBoundsExecutions
    <2>2. saved[m].used <= saved[m].max BY DEF BooksInv, AllWithin, Within
    <2>3. saved[m] \in Mission BY <1>0 DEF TypeOK
    <2>4. /\ missions[m].used \in Nat /\ saved[m].used \in Nat /\ crashes \in Nat
          /\ Cardinality(ExecsOf(m)) \in Nat
      BY <1>0, <2>3, MissionFields, BooksFinite DEF Mission
    <2>5. Cardinality(ExecsOf(m)) <=
            missions[m].used + crashes + (IF BetweenProposalAndRecord(m) THEN 1 ELSE 0)
      BY DEF BooksInv, BudgetBoundsExecutions
    <2>6. \/ missions[m].used = saved[m].used
          \/ missions[m].used = saved[m].used + 1 /\ ~BetweenProposalAndRecord(m)
      BY DEF BooksInv, Recorded, Fresh, BetweenProposalAndRecord
    <2>7. QED BY ONLY <2>2, <2>4, <2>5, <2>6
  <1>5. NoUntrackedWork'
    <2> DEFINE last == Len(execs)
    (* Only a fresh execution is tracked in memory and not on disk.        *)
    <2>1. ASSUME NEW i \in Untracked', i \notin Untracked
          PROVE  i = last /\ pc # "approve"
      <3>1. i \in DOMAIN execs /\ execs'[i].status \in Live /\ ~Tracked(i)'
        BY <1>2, <2>1 DEF Untracked, NoneRevived
      <3>2. execs[i].status \in Live BY <1>2, <3>1 DEF NoneRevived
      <3>3. Tracked(i) BY <2>1, <3>1, <3>2 DEF Untracked
      <3>4. execs[i] \in Exec BY <1>0, <3>1 DEF TypeOK
      <3> DEFINE m == execs[i].mission
                 t == execs[i].task
      <3>5. m \in Missions /\ t \in Tasks BY <3>4 DEF Exec
      <3>6. /\ missions[m].tasks[t].status = "running"
            /\ missions[m].tasks[t].exec = i
        BY <3>3 DEF Tracked
      <3>7. CASE SameRunning(m)
        <4>1. saved[m].tasks[t].status = "running" /\ saved[m].tasks[t].exec = i
          BY <3>5, <3>6, <3>7 DEF SameRunning
        <4>2. saved[m].status = "running"
          BY <3>5, <4>1 DEF BooksInv, FinalInv, AllOrderly, Orderly
        <4>3. execs'[i].mission = m /\ execs'[i].task = t BY <1>2, <3>1 DEF NoneRevived
        <4>4. Tracked(i)' BY <1>1, <4>1, <4>2, <4>3 DEF Tracked
        <4>5. QED BY <3>1, <4>4
      <3>8. CASE Fresh(m) BY <3>5, <3>6, <3>8 DEF Fresh
      <3>9. QED BY <3>5, <3>7, <3>8 DEF BooksInv, Recorded
    <2>2. /\ IsFiniteSet(Untracked) /\ Cardinality(Untracked) \in Nat /\ crashes \in Nat
      BY <1>0, BooksFinite
    <2>3. CASE pc = "approve"
      <3>1. Untracked' \subseteq Untracked BY <2>1, <2>3
      <3>2. Cardinality(Untracked') <= Cardinality(Untracked) /\ Cardinality(Untracked') \in Nat
        BY <2>2, <3>1, FS_Subset, FS_CardinalityType
      <3>3. Cardinality(Untracked) <= crashes + 1
        BY <2>2, <2>3 DEF BooksInv, NoUntrackedWork
      <3>4. Cardinality(Untracked') <= crashes + 1 BY <2>2, <3>2, <3>3
      <3>5. QED BY <1>1, <2>2, <3>2, <3>4 DEF NoUntrackedWork
    <2>4. CASE pc # "approve"
      <3>1. Untracked' \subseteq Untracked \cup {last} BY <2>1
      <3> HIDE DEF last
      <3>2. /\ IsFiniteSet(Untracked \cup {last})
            /\ Cardinality(Untracked \cup {last}) =
                 IF last \in Untracked THEN Cardinality(Untracked)
                                        ELSE Cardinality(Untracked) + 1
        BY <2>2, FS_AddElement
      <3>3. /\ Cardinality(Untracked') <= Cardinality(Untracked \cup {last})
            /\ Cardinality(Untracked') \in Nat
        BY <3>1, <3>2, FS_Subset, FS_CardinalityType
      <3>4. Cardinality(Untracked) <= crashes
        BY <2>2, <2>4 DEF BooksInv, NoUntrackedWork
      <3>5. Cardinality(Untracked') <= crashes + 1 BY <2>2, <3>2, <3>3, <3>4
      <3>6. QED BY <1>1, <2>2, <3>3, <3>5 DEF NoUntrackedWork
    <2>5. QED BY <2>3, <2>4
  <1>6. QED BY <1>3, <1>4, <1>5 DEF BooksInv

LEMMA BooksStep == BooksInv /\ [Next]_vars => BooksInv'
  <1> SUFFICES ASSUME BooksInv, [Next]_vars PROVE BooksInv' OBVIOUS
  <1>0. TypeOK /\ FinalInv'
    BY FinalStepTaken DEF BooksInv, FinalInv, EvidenceInv, GateInv
  <1>1. ASSUME NEW m \in Missions, Expire(m) PROVE BooksInv'
    <2>1. /\ pc \in {"idle", "vault"}
          /\ UNCHANGED <<missions, saved, execs, pc, crashes>>
      BY <1>1 DEF Expire, Interruptible, stores, pass
    <2>2. QED BY <1>0, <2>1, BooksUntouched, SameNoneRevived DEF Fresh
  <1>2. ASSUME NEW i \in DOMAIN execs, NEW to \in Moves, MoveExecution(i, to)
        PROVE  BooksInv'
    <2>1. /\ pc \in {"idle", "vault"} /\ UNCHANGED <<missions, saved, pc, crashes>>
          /\ to \in Transitions[execs[i].status]
          /\ execs' = [execs EXCEPT ![i].status = to]
      BY <1>2 DEF MoveExecution, Interruptible, pass
    <2>2. \A j \in DOMAIN execs : execs[j] \in Exec BY <1>0 DEF TypeOK
    <2>3. execs[i].status \in Live BY <2>1, <2>2 DEF Transitions, Exec, Statuses, Live
    <2>4. NoneRevived BY <2>1, <2>2, <2>3 DEF NoneRevived, Exec
    <2>5. QED BY <1>0, <2>1, <2>4, BooksUntouched DEF Fresh
  <1>3. CASE BeginPass
    <2>1. /\ pc = "idle" /\ pc' # "approve"
          /\ UNCHANGED <<missions, saved, execs, crashes>>
      BY <1>3 DEF BeginPass, stores
    <2>2. QED BY <1>0, <2>1, BooksUntouched, SameNoneRevived DEF Fresh
  <1>4. CASE UNCHANGED vars
    BY <1>0, <1>4 DEF vars, BooksInv, AllWithin, ApprovingCovered, Recorded, Fresh, Current,
       SameRunning, BudgetBoundsExecutions, BetweenProposalAndRecord, ExecsOf,
       NoUntrackedWork, Untracked, Tracked
  <1>5. QED
    BY <1>0, <1>1, <1>2, <1>3, <1>4, RequestsKeepBooks, ReconcileKeepsBooks, VaultKeepsBooks,
       DeathKeepsBooks DEF Next

(* The attempt budget of a mission bounds its executions, but for one that *)
(* each crash may leave behind, through retries of every kind.             *)
THEOREM BudgetHolds == Spec => []BudgetBoundsExecutions
  <1>1. BooksInv => BudgetBoundsExecutions BY DEF BooksInv
  <1>2. QED BY <1>1, BooksInit, BooksStep, PTL DEF Spec

(* A mission that has ended has no work under way, and one that runs knows *)
(* all of its own, but for one execution for each crash.                   *)
THEOREM NoUntrackedHolds == Spec => []NoUntrackedWork
  <1>1. BooksInv => NoUntrackedWork BY DEF BooksInv
  <1>2. QED BY <1>1, BooksInit, BooksStep, PTL DEF Spec

-----------------------------------------------------------------------------
(* Copies of evidence.  A completed task has one more copy than crashes    *)
(* may have left behind, one that is not completed has none: it will be    *)
(* given its copy when it completes.                                       *)
CopiesOf(m, t) ==
  {a \in DOMAIN artifacts : artifacts[a].mission = m /\ artifacts[a].task = t}

Pending(hs) == {h \in hs : h.status = "pending"}

Unborn(mission) ==
  mission.status = "absent" => \A t \in Tasks : mission.tasks[t].status # "completed"

CopiesInv ==
  /\ FinalInv
  /\ \A m \in Missions : Unborn(missions[m]) /\ Unborn(saved[m])
  /\ \A m \in Missions, t \in Tasks :
       Cardinality(CopiesOf(m, t)) <=
         crashes + (IF missions[m].tasks[t].status = "completed" THEN 1 ELSE 0)
  /\ \A m \in Missions :
       Cardinality(CopiesOf(m, None)) <=
         crashes + (IF missions[m].status = "completed" THEN 1 ELSE 0)
  /\ IsFiniteSet(Pending(handoffs)) /\ Cardinality(Pending(handoffs)) <= crashes

LEMMA CopiesFinite ==
  ASSUME TypeOK, NEW m, NEW t
  PROVE  /\ crashes \in Nat
         /\ IsFiniteSet(CopiesOf(m, t)) /\ Cardinality(CopiesOf(m, t)) \in Nat
  <1>1. DOMAIN artifacts = 1 .. Len(artifacts) /\ Len(artifacts) \in Nat BY DEF TypeOK
  <1>2. IsFiniteSet(DOMAIN artifacts) BY <1>1, FS_Interval
  <1>3. CopiesOf(m, t) \subseteq DOMAIN artifacts BY DEF CopiesOf
  <1>4. IsFiniteSet(CopiesOf(m, t)) BY <1>2, <1>3, FS_Subset
  <1>5. QED BY <1>4, FS_CardinalityType DEF TypeOK

LEMMA CopyAdded ==
  ASSUME TypeOK, NEW a \in Artifact, artifacts' = Append(artifacts, a), NEW m, NEW t
  PROVE  /\ Cardinality(CopiesOf(m, t)') \in Nat
         /\ Cardinality(CopiesOf(m, t)') <= Cardinality(CopiesOf(m, t)) + 1
         /\ ~(a.mission = m /\ a.task = t) => CopiesOf(m, t)' = CopiesOf(m, t)
  <1> DEFINE last == Len(artifacts) + 1
  <1>1. artifacts \in Seq(Artifact) BY DEF TypeOK
  <1>2. /\ DOMAIN artifacts = 1 .. Len(artifacts) /\ Len(artifacts) \in Nat
        /\ DOMAIN artifacts' = 1 .. last
        /\ \A i \in 1 .. Len(artifacts) : artifacts'[i] = artifacts[i]
        /\ artifacts'[last] = a
    BY <1>1
  <1>3. last \notin DOMAIN artifacts /\ DOMAIN artifacts' = DOMAIN artifacts \cup {last}
    BY <1>2
  <1> HIDE DEF last
  <1>4. CopiesOf(m, t)' \subseteq CopiesOf(m, t) \cup {last}
    BY <1>2, <1>3 DEF CopiesOf
  <1>5. ~(a.mission = m /\ a.task = t) => CopiesOf(m, t)' = CopiesOf(m, t)
    BY <1>2, <1>3 DEF CopiesOf
  <1>6. /\ IsFiniteSet(CopiesOf(m, t) \cup {last})
        /\ Cardinality(CopiesOf(m, t) \cup {last}) =
             IF last \in CopiesOf(m, t) THEN Cardinality(CopiesOf(m, t))
                                        ELSE Cardinality(CopiesOf(m, t)) + 1
    BY CopiesFinite, FS_AddElement
  <1>7. /\ Cardinality(CopiesOf(m, t)') <= Cardinality(CopiesOf(m, t) \cup {last})
        /\ Cardinality(CopiesOf(m, t)') \in Nat
    BY <1>4, <1>6, FS_Subset, FS_CardinalityType
  <1>8. QED BY <1>5, <1>6, <1>7, CopiesFinite

LEMMA AcceptedNotPending ==
  ASSUME NEW hs, NEW a, NEW us
  PROVE  Pending(hs \cup Handoffs(a, us, "accepted")) = Pending(hs)
  <1>1. \A h \in Handoffs(a, us, "accepted") : h.status = "accepted" BY DEF Handoffs
  <1>2. QED BY <1>1 DEF Pending

(* A step that adds no evidence and takes no completion back.              *)
LEMMA CopiesKept ==
  ASSUME CopiesInv, FinalInv', UNCHANGED <<artifacts, handoffs, crashes>>,
         NEW m \in Missions, \A n \in Missions : n # m => missions'[n] = missions[n],
         \A t \in Tasks : missions[m].tasks[t].status = "completed" =>
                            missions'[m].tasks[t].status = "completed",
         missions[m].status = "completed" => missions'[m].status = "completed",
         missions'[m].status # "absent" \/ Unborn(missions'[m]),
         saved' = saved \/ saved' = missions'
  PROVE  CopiesInv'
  <1>1. TypeOK BY DEF CopiesInv, FinalInv, EvidenceInv, GateInv
  <1>2. \A n \in Missions : Unborn(missions'[n]) /\ Unborn(saved'[n])
    BY DEF CopiesInv, Unborn
  <1>3. \A n, t : /\ CopiesOf(n, t)' = CopiesOf(n, t)
                  /\ Cardinality(CopiesOf(n, t)) \in Nat /\ crashes \in Nat
    <2>1. \A n, t : CopiesOf(n, t)' = CopiesOf(n, t) BY DEF CopiesOf
    <2>2. \A n, t : Cardinality(CopiesOf(n, t)) \in Nat /\ crashes \in Nat
      BY <1>1, CopiesFinite
    <2>3. QED BY <2>1, <2>2
  <1>4. ASSUME NEW n \in Missions, NEW t \in Tasks
        PROVE  Cardinality(CopiesOf(n, t)') <=
                 crashes' + (IF missions'[n].tasks[t].status = "completed" THEN 1 ELSE 0)
    <2>1. missions[n].tasks[t].status = "completed" => missions'[n].tasks[t].status = "completed"
      OBVIOUS
    <2>2. QED BY <1>3, <2>1 DEF CopiesInv
  <1>5. ASSUME NEW n \in Missions
        PROVE  Cardinality(CopiesOf(n, None)') <=
                 crashes' + (IF missions'[n].status = "completed" THEN 1 ELSE 0)
    <2>1. missions[n].status = "completed" => missions'[n].status = "completed" OBVIOUS
    <2>2. QED BY <1>3, <2>1 DEF CopiesInv
  <1>6. QED BY <1>2, <1>4, <1>5 DEF CopiesInv, Unborn

LEMMA CopiesUntouched ==
  ASSUME CopiesInv, FinalInv', UNCHANGED <<artifacts, handoffs, crashes, missions>>,
         saved' = saved \/ saved' = missions
  PROVE  CopiesInv'
  BY DEF CopiesInv, Unborn, CopiesOf

LEMMA CopiesInit == Init => CopiesInv
  <1> SUFFICES ASSUME Init PROVE CopiesInv OBVIOUS
  <1>1. Unborn(NoMission) BY DEF Unborn, NoMission, NewTask
  <1>2. Pending(handoffs) = {} /\ \A m, t : CopiesOf(m, t) = {}
    BY DEF Init, Pending, CopiesOf
  <1>3. \A m \in Missions : /\ missions[m].status # "completed"
                            /\ \A t \in Tasks : missions[m].tasks[t].status # "completed"
    BY DEF Init, NoMission, NewTask
  <1>4. /\ IsFiniteSet(Pending(handoffs)) /\ Cardinality(Pending(handoffs)) = 0
        /\ \A m, t : Cardinality(CopiesOf(m, t)) = 0
    BY <1>2, FS_EmptySet
  <1>5. crashes = 0 /\ \A m \in Missions : Unborn(missions[m]) /\ Unborn(saved[m])
    BY <1>1 DEF Init
  <1>6. QED BY <1>3, <1>4, <1>5, FinalInit DEF CopiesInv

LEMMA RequestsKeepCopies == CopiesInv /\ FinalInv' /\ Requests => CopiesInv'
  <1> SUFFICES ASSUME CopiesInv, FinalInv', Requests PROVE CopiesInv' OBVIOUS
  <1>0. TypeOK BY DEF CopiesInv, FinalInv, EvidenceInv, GateInv
  <1>1. ASSUME NEW m \in Missions, NEW type \in MissionTypes, NEW budget \in AttemptBudgets,
               NEW talks \in Conversations, Create(m, type, budget, talks)
        PROVE  CopiesInv'
    <2>1. /\ missions'[m] = NewMission(type, budget, talks)
          /\ missions[m].status = "absent"
          /\ \A n \in Missions : n # m => missions'[n] = missions[n]
      BY <1>0, <1>1, MissionFields DEF Create, MissionTable, Smallest
    <2>2. missions'[m].status = "awaiting-approval" BY <2>1 DEF NewMission
    <2>3. \A t \in Tasks : missions[m].tasks[t].status # "completed"
      BY <2>1 DEF CopiesInv, Unborn
    <2>4. UNCHANGED <<artifacts, handoffs, crashes>> /\ (saved' = saved \/ saved' = missions')
      BY <1>1 DEF Create, Save, stores
    <2>5. QED BY <2>1, <2>2, <2>3, <2>4, CopiesKept
  <1>2. ASSUME NEW m \in Missions, Approve(m) PROVE CopiesInv'
    <2> DEFINE tasks == [t \in Tasks |-> IF t \in Sensitive[missions[m].type]
                            THEN [missions[m].tasks[t] EXCEPT !.approval = "approved"]
                            ELSE missions[m].tasks[t]]
    <2>1. /\ missions[m].status = "awaiting-approval"
          /\ missions'[m] = [missions[m] EXCEPT !.tasks = tasks, !.approved = TRUE,
                                                !.status = "approved"]
          /\ \A n \in Missions : n # m => missions'[n] = missions[n]
      BY <1>0, <1>2, MissionFields DEF Approve, MissionTable
    <2>2. \A t \in Tasks : tasks[t].status = missions[m].tasks[t].status
      BY <1>0, MissionFields DEF Task
    <2>3. missions'[m].tasks = tasks /\ missions'[m].status = "approved"
      <3> HIDE DEF tasks
      <3>1. QED BY <1>0, <2>1, MissionFields DEF Mission
    <2>4. UNCHANGED <<artifacts, handoffs, crashes>> /\ saved' = missions'
      BY <1>2 DEF Approve, Save, stores
    <2>5. QED
      <3> HIDE DEF tasks
      <3>1. QED BY <2>1, <2>2, <2>3, <2>4, CopiesKept
  <1>2a. ASSUME NEW m \in Missions, ApproveThrows(m) PROVE CopiesInv'
    <2>1. /\ missions[m].status = "awaiting-approval"
          /\ missions'[m].status = "awaiting-approval"
          /\ \A t \in Tasks : missions'[m].tasks[t].status = missions[m].tasks[t].status
          /\ \A n \in Missions : n # m => missions'[n] = missions[n]
          /\ UNCHANGED <<artifacts, handoffs, crashes, saved>>
      BY <1>0, <1>2a, ThrownApproval
    <2>2. QED BY <2>1, CopiesKept
  <1>3. ASSUME NEW m \in Missions, Start(m) PROVE CopiesInv'
    <2>1. /\ missions[m].status = "approved"
          /\ missions'[m].status = "running" /\ missions'[m].tasks = missions[m].tasks
          /\ \A n \in Missions : n # m => missions'[n] = missions[n]
      BY <1>0, <1>3, MissionFields DEF Start, MissionTable, Mission
    <2>2. UNCHANGED <<artifacts, handoffs, crashes>> /\ saved' = missions'
      BY <1>3 DEF Start, Save, stores
    <2>3. QED BY <2>1, <2>2, CopiesKept
  <1>4. ASSUME NEW m \in Missions, Cancel(m) PROVE CopiesInv'
    <2> DEFINE tasks == SetTasks(m, CancelTargets(m), "cancelled")
    <2>1. /\ missions'[m] = [missions[m] EXCEPT !.tasks = tasks, !.status = "cancelled"]
          /\ \A n \in Missions : n # m => missions'[n] = missions[n]
      BY <1>0, <1>4, MissionFields DEF Cancel, MissionTable
    <2>2. missions'[m].tasks = tasks /\ missions'[m].status = "cancelled"
      <3> HIDE DEF tasks
      <3>1. QED BY <1>0, <2>1, MissionFields DEF Mission
    <2>3. \A t \in Tasks : missions[m].tasks[t].status = "completed" =>
                             tasks[t].status = "completed"
      BY DEF SetTasks, CancelTargets, HasTaskIn
    <2>4. missions[m].status # "completed"
      BY <1>4 DEF Cancel, Cancellable, TerminalMissionStates
    <2>5. UNCHANGED <<artifacts, handoffs, crashes>> /\ saved' = missions'
      BY <1>4 DEF Cancel, Save
    <2>6. QED
      <3> HIDE DEF tasks
      <3>1. QED BY <2>1, <2>2, <2>3, <2>4, <2>5, CopiesKept
  <1>5. ASSUME NEW m \in Missions, NEW t \in Tasks, RetryTask(m, t) PROVE CopiesInv'
    <2> DEFINE task == [missions[m].tasks[t] EXCEPT !.status = "pending", !.exec = None]
    <2>1. /\ missions'[m].tasks = [missions[m].tasks EXCEPT ![t] = task]
          /\ missions'[m].status = "running"
          /\ missions[m].tasks[t].status = "failed"
          /\ missions[m].tasks \in [Tasks -> Task]
          /\ \A n \in Missions : n # m => missions'[n] = missions[n]
      BY <1>0, <1>5, MissionFields DEF RetryTask, MissionTable, Mission
    <2>2. missions[m].status = "failed"
      BY <2>1 DEF CopiesInv, FinalInv, AllOrderly, Orderly
    <2>3. UNCHANGED <<artifacts, handoffs, crashes>> /\ saved' = missions'
      BY <1>5 DEF RetryTask, Save, stores
    <2>4. QED
      <3> HIDE DEF task
      <3>1. QED BY <2>1, <2>2, <2>3, CopiesKept
  <1>6. QED BY <1>1, <1>2, <1>2a, <1>3, <1>4, <1>5 DEF Requests

(* Evidence of a task is added as the task completes.                      *)
LEMMA CompleteTaskKeepsCopies ==
  ASSUME CopiesInv, FinalInv', NEW m \in Missions, NEW t \in Tasks, CompleteTask(m, t)
  PROVE  CopiesInv'
  <1>0. TypeOK BY DEF CopiesInv, FinalInv, EvidenceInv, GateInv
  <1> DEFINE a == [mission |-> m, task |-> t, exec |-> missions[m].tasks[t].exec]
             task == [missions[m].tasks[t] EXCEPT !.status = "completed",
                                                  !.artifact = Len(artifacts')]
  <1>1. /\ missions'[m].tasks = [missions[m].tasks EXCEPT ![t] = task]
        /\ missions'[m].status = missions[m].status
        /\ \A n \in Missions : n # m => missions'[n] = missions[n]
    BY <1>0, MissionFields DEF CompleteTask, MissionTable, Mission
  <1>2. /\ task.status = "completed" /\ missions[m].tasks \in [Tasks -> Task]
        /\ missions[m].tasks[t].status = "running" /\ missions[m].status = "running"
    <2>1. task.status = "completed" /\ missions[m].tasks \in [Tasks -> Task]
      BY <1>0, MissionFields DEF Task
    <2>2. missions[m].tasks[t].status = "running"
      BY DEF CompleteTask, Settling, Smallest, Due, HasTaskIn
    <2>3. QED BY <2>1, <2>2 DEF CopiesInv, FinalInv, AllOrderly, Orderly
  <1>3. a \in Artifact /\ artifacts' = Append(artifacts, a) /\ a.mission = m /\ a.task = t
    BY <1>0, MissionFields DEF CompleteTask, Evidence, Artifact, Task
  <1>4. /\ UNCHANGED <<saved, crashes>>
        /\ handoffs' = handoffs \cup Handoffs(Len(artifacts'), Receivers(t), "accepted")
    BY DEF CompleteTask
  <1> HIDE DEF a, task
  <1>5. \A n \in Missions : Unborn(missions'[n]) /\ Unborn(saved'[n])
    BY <1>1, <1>2, <1>4 DEF CopiesInv, Unborn
  <1>6. ASSUME NEW n \in Missions, NEW u \in Tasks
        PROVE  Cardinality(CopiesOf(n, u)') <=
                 crashes' + (IF missions'[n].tasks[u].status = "completed" THEN 1 ELSE 0)
    <2>1. /\ Cardinality(CopiesOf(n, u)') \in Nat
          /\ Cardinality(CopiesOf(n, u)') <= Cardinality(CopiesOf(n, u)) + 1
          /\ ~(n = m /\ u = t) => CopiesOf(n, u)' = CopiesOf(n, u)
      BY <1>0, <1>3, CopyAdded
    <2>2. Cardinality(CopiesOf(n, u)) \in Nat /\ crashes \in Nat BY <1>0, CopiesFinite
    <2>3. Cardinality(CopiesOf(n, u)) <=
            crashes + (IF missions[n].tasks[u].status = "completed" THEN 1 ELSE 0)
      BY DEF CopiesInv
    <2>4. CASE n = m /\ u = t
      <3>1. /\ missions[n].tasks[u].status # "completed"
            /\ missions'[n].tasks[u].status = "completed"
        BY <1>1, <1>2, <2>4
      <3>2. QED BY <1>4, <2>1, <2>2, <2>3, <3>1
    <2>5. CASE ~(n = m /\ u = t)
      <3>1. missions'[n].tasks[u].status = missions[n].tasks[u].status
        BY <1>1, <1>2, <2>5
      <3>2. QED BY <1>4, <2>1, <2>3, <2>5, <3>1
    <2>6. QED BY <2>4, <2>5
  <1>7. ASSUME NEW n \in Missions
        PROVE  Cardinality(CopiesOf(n, None)') <=
                 crashes' + (IF missions'[n].status = "completed" THEN 1 ELSE 0)
    <2>1. t # None BY DEF Tasks, None
    <2>2. CopiesOf(n, None)' = CopiesOf(n, None) BY <1>0, <1>3, <2>1, CopyAdded
    <2>3. missions'[n].status = missions[n].status BY <1>1
    <2>4. QED BY <1>4, <2>2, <2>3 DEF CopiesInv
  <1>8. Pending(handoffs') = Pending(handoffs) BY <1>4, AcceptedNotPending
  <1>9. QED BY <1>4, <1>5, <1>6, <1>7, <1>8 DEF CopiesInv, Unborn, Pending

(* ... and the report as the mission does.                                 *)
LEMMA CompleteMissionKeepsCopies ==
  ASSUME CopiesInv, FinalInv', NEW m \in Missions, CompleteMission(m)
  PROVE  CopiesInv'
  <1>0. TypeOK BY DEF CopiesInv, FinalInv, EvidenceInv, GateInv
  <1> DEFINE a == [mission |-> m, task |-> None, exec |-> None]
  <1>1. /\ missions'[m].tasks = missions[m].tasks
        /\ missions'[m].status = "completed" /\ missions[m].status = "running"
        /\ \A n \in Missions : n # m => missions'[n] = missions[n]
    BY <1>0, MissionFields DEF CompleteMission, MissionTable, Mission
  <1>2. a \in Artifact /\ artifacts' = Append(artifacts, a) /\ a.mission = m /\ a.task = None
    BY DEF CompleteMission, Artifact, None
  <1>3. UNCHANGED <<saved, crashes, handoffs>> BY DEF CompleteMission
  <1> HIDE DEF a
  <1>4. \A n \in Missions : Unborn(missions'[n]) /\ Unborn(saved'[n])
    BY <1>1, <1>3 DEF CopiesInv, Unborn
  <1>5. ASSUME NEW n \in Missions, NEW u \in Tasks
        PROVE  Cardinality(CopiesOf(n, u)') <=
                 crashes' + (IF missions'[n].tasks[u].status = "completed" THEN 1 ELSE 0)
    <2>1. u # None BY DEF Tasks, None
    <2>2. CopiesOf(n, u)' = CopiesOf(n, u) BY <1>0, <1>2, <2>1, CopyAdded
    <2>3. missions'[n].tasks = missions[n].tasks BY <1>1
    <2>4. QED BY <1>3, <2>2, <2>3 DEF CopiesInv
  <1>6. ASSUME NEW n \in Missions
        PROVE  Cardinality(CopiesOf(n, None)') <=
                 crashes' + (IF missions'[n].status = "completed" THEN 1 ELSE 0)
    <2>1. /\ Cardinality(CopiesOf(n, None)') \in Nat
          /\ Cardinality(CopiesOf(n, None)') <= Cardinality(CopiesOf(n, None)) + 1
          /\ n # m => CopiesOf(n, None)' = CopiesOf(n, None)
      BY <1>0, <1>2, CopyAdded
    <2>2. Cardinality(CopiesOf(n, None)) \in Nat /\ crashes \in Nat BY <1>0, CopiesFinite
    <2>3. Cardinality(CopiesOf(n, None)) <=
            crashes + (IF missions[n].status = "completed" THEN 1 ELSE 0)
      BY DEF CopiesInv
    <2>4. CASE n = m BY <1>1, <1>3, <2>1, <2>2, <2>3, <2>4
    <2>5. CASE n # m BY <1>1, <1>3, <2>1, <2>3, <2>5
    <2>6. QED BY <2>4, <2>5
  <1>7. QED BY <1>3, <1>4, <1>5, <1>6 DEF CopiesInv, Unborn, Pending

LEMMA ReconcileKeepsCopies == CopiesInv /\ FinalInv' /\ Reconcile => CopiesInv'
  <1> SUFFICES ASSUME CopiesInv, FinalInv', Reconcile PROVE CopiesInv' OBVIOUS
  <1>0. TypeOK BY DEF CopiesInv, FinalInv, EvidenceInv, GateInv
  <1>b. ASSUME NEW m \in Missions, NEW t \in Tasks, Settling(m, t)
        PROVE  missions[m].tasks[t].status = "running" /\ missions[m].status = "running"
    <2>1. missions[m].tasks[t].status = "running"
      BY <1>b DEF Settling, Smallest, Due, HasTaskIn
    <2>2. QED BY <2>1 DEF CopiesInv, FinalInv, AllOrderly, Orderly
  <1>1. ASSUME NEW m \in Missions, TimeOut(m) PROVE CopiesInv'
    <2> DEFINE targets == {t \in Tasks : HasTaskIn(m, t, {"running"})}
               tasks == SetTasks(m, targets, "cancelled")
    <2>1. /\ missions'[m] = [missions[m] EXCEPT !.tasks = tasks, !.status = "failed"]
          /\ \A n \in Missions : n # m => missions'[n] = missions[n]
      BY <1>0, <1>1, MissionFields DEF TimeOut, MissionTable
    <2>2. missions'[m].tasks = tasks /\ missions'[m].status = "failed"
      <3> HIDE DEF tasks
      <3>1. QED BY <1>0, <2>1, MissionFields DEF Mission
    <2>3. \A t \in Tasks : missions[m].tasks[t].status = "completed" =>
                             tasks[t].status = "completed"
      BY DEF SetTasks, HasTaskIn
    <2>4. missions[m].status # "completed"
      BY <1>1 DEF TimeOut, OutOfTime, CopiesInv, FinalInv, QueueInv, Current, Smallest
    <2>5. UNCHANGED <<artifacts, handoffs, crashes>> /\ saved' = missions'
      BY <1>1 DEF TimeOut, Save
    <2>6. QED
      <3> HIDE DEF tasks
      <3>1. QED BY <2>1, <2>2, <2>3, <2>4, <2>5, CopiesKept
  <1>2. ASSUME NEW m \in Missions, NEW t \in Tasks, ScheduleRetry(m, t) PROVE CopiesInv'
    <2> DEFINE task == [missions[m].tasks[t] EXCEPT !.status = "pending", !.exec = None]
    <2>1. /\ missions'[m].tasks = [missions[m].tasks EXCEPT ![t] = task]
          /\ missions'[m].status = missions[m].status
          /\ missions[m].tasks \in [Tasks -> Task]
          /\ \A n \in Missions : n # m => missions'[n] = missions[n]
      BY <1>0, <1>2, MissionFields DEF ScheduleRetry, MissionTable, Mission
    <2>2. Settling(m, t) /\ UNCHANGED <<artifacts, handoffs, crashes, saved>>
      BY <1>2 DEF ScheduleRetry, stores
    <2>3. QED
      <3> HIDE DEF task
      <3>1. QED BY <1>b, <2>1, <2>2, CopiesKept
  <1>3. ASSUME NEW m \in Missions, NEW t \in Tasks, EndTask(m, t) PROVE CopiesInv'
    <2> DEFINE ended == ExecStatus(m, t)
               task == [missions[m].tasks[t] EXCEPT !.status = ended]
    <2>1. /\ ended \in {"failed", "cancelled"} /\ Settling(m, t)
          /\ UNCHANGED <<artifacts, handoffs, crashes, saved>>
      BY <1>3 DEF EndTask, stores
    <2>2. /\ missions'[m].tasks = [missions[m].tasks EXCEPT ![t] = task]
          /\ missions'[m].status = ended
          /\ missions[m].tasks \in [Tasks -> Task]
          /\ \A n \in Missions : n # m => missions'[n] = missions[n]
      BY <1>0, <1>3, MissionFields DEF EndTask, MissionTable, Mission
    <2> HIDE DEF task, ended
    <2>3. QED BY <1>b, <2>1, <2>2, CopiesKept
  <1>4. ASSUME NEW m \in Missions, NEW t \in Tasks, ProposeExecution(m, t) PROVE CopiesInv'
    BY <1>4, CopiesUntouched DEF ProposeExecution
  <1>5. ASSUME NEW m \in Missions, NEW t \in Tasks, ApproveExecution(m, t) PROVE CopiesInv'
    <2> DEFINE last == Len(execs)
               task == [missions[m].tasks[t] EXCEPT !.status = "running", !.exec = last,
                                                    !.attempts = @ + 1]
    <2>1. /\ pc = "approve" /\ Current(m) /\ t = execs[last].task
          /\ UNCHANGED <<artifacts, handoffs, crashes, saved>>
      BY <1>5 DEF ApproveExecution
    <2>2. t \in Ready(m) /\ missions[m].status = "running"
      <3>1. /\ last \in DOMAIN execs /\ Current(execs[last].mission)
            /\ t \in Ready(execs[last].mission)
        BY <2>1 DEF CopiesInv, FinalInv, EvidenceInv, ApprovingLast, ApprovingReady
      <3>2. execs[last] \in Exec BY <1>0, <3>1 DEF TypeOK
      <3>3. execs[last].mission \in Missions BY <3>2 DEF Exec
      <3>4. QED
        BY <1>0, <2>1, <3>1, <3>3, CurrentUnique
           DEF CopiesInv, FinalInv, EvidenceInv, GateInv, ApprovingRunning
    <2>3. /\ missions'[m].tasks = [missions[m].tasks EXCEPT ![t] = task]
          /\ missions'[m].status = missions[m].status
          /\ \A n \in Missions : n # m => missions'[n] = missions[n]
      <3>1. missions' = [missions EXCEPT
               ![m].tasks[t] = [@ EXCEPT !.status = "running", !.exec = Len(execs),
                                         !.attempts = @ + 1],
               ![m].used = @ + 1]
        BY <1>5 DEF ApproveExecution
      <3>2. missions' = [missions EXCEPT ![m].tasks[t] = task,
                                         ![m].used = missions[m].used + 1]
        BY <1>0, <3>1, MissionFields DEF MissionTable, Mission, Task
      <3> HIDE DEF task
      <3>3. QED BY <1>0, <3>2, MissionFields DEF MissionTable, Mission
    <2>4. missions[m].tasks \in [Tasks -> Task] /\ missions[m].tasks[t].status = "pending"
      BY <1>0, <2>2, MissionFields DEF Ready
    <2>5. QED
      <3> HIDE DEF task
      <3>1. QED BY <2>1, <2>2, <2>3, <2>4, CopiesKept
  <1>1a. ASSUME NEW m \in Missions, ExecutionNotFound(m) PROVE CopiesInv'
    BY <1>1a, CopiesUntouched DEF ExecutionNotFound, stores
  <1>6. ASSUME NEW m \in Missions, NEW t \in Tasks, DispatchRefused(m, t) PROVE CopiesInv'
    BY <1>6, CopiesUntouched DEF DispatchRefused, stores
  <1>7. ASSUME NEW m \in Missions, Leave(m) PROVE CopiesInv'
    BY <1>7, CopiesUntouched DEF Leave, stores
  <1>8. QED
    BY <1>1, <1>1a, <1>2, <1>3, <1>4, <1>5, <1>6, <1>7, CompleteTaskKeepsCopies,
       CompleteMissionKeepsCopies DEF Reconcile

LEMMA VaultKeepsCopies == CopiesInv /\ FinalInv' /\ Vault => CopiesInv'
  <1> SUFFICES ASSUME CopiesInv, FinalInv', Vault PROVE CopiesInv' OBVIOUS
  <1>0. TypeOK BY DEF CopiesInv, FinalInv, EvidenceInv, GateInv
  <1>1. ASSUME NEW m \in Missions, VaultDone(m) PROVE CopiesInv'
    <2>1. /\ missions'[m].tasks = missions[m].tasks
          /\ missions'[m].status = missions[m].status
          /\ \A n \in Missions : n # m => missions'[n] = missions[n]
      BY <1>0, <1>1, MissionFields DEF VaultDone, MissionTable, Mission
    <2>2. /\ UNCHANGED <<artifacts, handoffs, crashes>>
          /\ (saved' = saved \/ saved' = missions') /\ pc = "vault"
      BY <1>1 DEF VaultDone, Save, stores
    <2>3. Unborn(missions'[m]) BY <2>1 DEF CopiesInv, Unborn
    <2>4. QED BY <2>1, <2>2, <2>3, CopiesKept
  <1>2. ASSUME NEW m \in Missions, VaultFailed(m) PROVE CopiesInv'
    BY <1>2, CopiesUntouched DEF VaultFailed, stores
  <1>3. QED BY <1>1, <1>2 DEF Vault

(* A crash may take a completion back and leave its evidence, and may      *)
(* leave one handoff created and not accepted.                             *)
LEMMA DeathKeepsCopies == CopiesInv /\ FinalInv' /\ Death => CopiesInv'
  <1> SUFFICES ASSUME CopiesInv, FinalInv', Death PROVE CopiesInv' OBVIOUS
  <1>0. TypeOK BY DEF CopiesInv, FinalInv, EvidenceInv, GateInv
  <1>1. missions' = saved /\ saved' = saved /\ crashes' = crashes + 1
    BY DEF Death, Crash, StopInterrupted, CompleteTaskInterrupted, DieWith
  <1>2. \A m \in Missions : Unborn(missions'[m]) /\ Unborn(saved'[m])
    BY <1>1 DEF CopiesInv
  (* At most one copy more than the crashes before this one.               *)
  <1>3. ASSUME NEW n \in Missions, NEW t \in Tasks \cup {None}
        PROVE  /\ Cardinality(CopiesOf(n, t)) <= crashes + 1
               /\ Cardinality(CopiesOf(n, t)) \in Nat /\ crashes \in Nat
    BY <1>0, CopiesFinite DEF CopiesInv
  <1>4. ASSUME \A n \in Missions, t \in Tasks \cup {None} :
                 /\ Cardinality(CopiesOf(n, t)') <= crashes + 1
                 /\ Cardinality(CopiesOf(n, t)') \in Nat,
               IsFiniteSet(Pending(handoffs')),
               Cardinality(Pending(handoffs')) <= crashes + 1
        PROVE  CopiesInv'
    <2>1. ASSUME NEW n \in Missions, NEW t \in Tasks
          PROVE  Cardinality(CopiesOf(n, t)') <=
                   crashes' + (IF missions'[n].tasks[t].status = "completed" THEN 1 ELSE 0)
      BY <1>1, <1>3, <1>4
    <2>2. ASSUME NEW n \in Missions
          PROVE  Cardinality(CopiesOf(n, None)') <=
                   crashes' + (IF missions'[n].status = "completed" THEN 1 ELSE 0)
      BY <1>1, <1>3, <1>4
    <2>3. QED BY <1>1, <1>2, <1>4, <2>1, <2>2 DEF CopiesInv, Unborn, Pending
  <1>5. crashes \in Nat /\ Cardinality(Pending(handoffs)) \in Nat
    BY <1>0, FS_CardinalityType DEF CopiesInv, TypeOK
  <1>6. ASSUME UNCHANGED <<artifacts, handoffs>> PROVE CopiesInv'
    <2>1. \A n, t : CopiesOf(n, t)' = CopiesOf(n, t) BY <1>6 DEF CopiesOf
    <2>2. QED BY <1>3, <1>4, <1>5, <1>6, <2>1 DEF CopiesInv
  <1>7. CASE Crash BY <1>6, <1>7 DEF Crash, DieWith
  <1>8. ASSUME NEW m \in Missions, StopInterrupted(m) PROVE CopiesInv'
    BY <1>6, <1>8 DEF StopInterrupted, DieWith
  <1>9. ASSUME NEW m \in Missions, NEW t \in Tasks, CompleteTaskInterrupted(m, t)
        PROVE  CopiesInv'
    <2> DEFINE a == [mission |-> m, task |-> t, exec |-> missions[m].tasks[t].exec]
    <2>1. /\ a \in Artifact /\ artifacts' = Append(artifacts, a)
          /\ a.mission = m /\ a.task = t
      BY <1>0, <1>9, MissionFields
         DEF CompleteTaskInterrupted, DieWith, Evidence, Artifact, Task
    <2>2. missions[m].tasks[t].status # "completed"
      BY <1>9 DEF CompleteTaskInterrupted, Settling, Smallest, Due, HasTaskIn
    <2> HIDE DEF a
    <2>3. ASSUME NEW n \in Missions, NEW u \in Tasks \cup {None}
          PROVE  /\ Cardinality(CopiesOf(n, u)') <= crashes + 1
                 /\ Cardinality(CopiesOf(n, u)') \in Nat
      <3>1. /\ Cardinality(CopiesOf(n, u)') \in Nat
            /\ Cardinality(CopiesOf(n, u)') <= Cardinality(CopiesOf(n, u)) + 1
            /\ ~(n = m /\ u = t) => CopiesOf(n, u)' = CopiesOf(n, u)
        BY <1>0, <2>1, CopyAdded
      <3>2. CASE n = m /\ u = t
        <4>1. Cardinality(CopiesOf(n, u)) <= crashes
          BY <1>5, <2>2, <3>2 DEF CopiesInv
        <4>2. QED BY <1>3, <3>1, <4>1
      <3>3. CASE ~(n = m /\ u = t) BY <1>3, <3>1, <3>3
      <3>4. QED BY <3>2, <3>3
    <2>4. PICK last \in Receivers(t) :
            LET b == Len(artifacts) + 1
                earlier == Handoffs(b, {u \in Receivers(t) : u < last}, "accepted")
            IN  \/ handoffs' = handoffs \cup earlier
                \/ handoffs' = handoffs \cup earlier \cup Handoffs(b, {last}, "pending")
      BY <1>9 DEF CompleteTaskInterrupted, DieWith
    <2> DEFINE b == Len(artifacts) + 1
               us == {u \in Receivers(t) : u < last}
               h == [artifact |-> b, to |-> last, status |-> "pending"]
    <2>5. Handoffs(b, {last}, "pending") = {h} BY DEF Handoffs
    <2>6. \/ handoffs' = handoffs \cup Handoffs(b, us, "accepted")
          \/ handoffs' = handoffs \cup Handoffs(b, us, "accepted") \cup {h}
      BY <2>4, <2>5
    <2> HIDE DEF b, us, h
    <2>7. Pending(handoffs') = Pending(handoffs)
          \/ Pending(handoffs') \subseteq Pending(handoffs) \cup {h}
      BY <2>6, AcceptedNotPending DEF Pending, Handoffs
    <2>8. /\ IsFiniteSet(Pending(handoffs) \cup {h})
          /\ Cardinality(Pending(handoffs) \cup {h}) <= crashes + 1
      <3>1. /\ IsFiniteSet(Pending(handoffs) \cup {h})
            /\ Cardinality(Pending(handoffs) \cup {h}) =
                 IF h \in Pending(handoffs) THEN Cardinality(Pending(handoffs))
                                            ELSE Cardinality(Pending(handoffs)) + 1
        BY FS_AddElement DEF CopiesInv
      <3>2. Cardinality(Pending(handoffs)) <= crashes BY DEF CopiesInv
      <3>3. QED BY <1>5, <3>1, <3>2
    <2>9. Pending(handoffs') \subseteq Pending(handoffs) \cup {h} BY <2>7
    <2>10. /\ IsFiniteSet(Pending(handoffs'))
           /\ Cardinality(Pending(handoffs')) <= Cardinality(Pending(handoffs) \cup {h})
           /\ Cardinality(Pending(handoffs')) \in Nat
           /\ Cardinality(Pending(handoffs) \cup {h}) \in Nat
      BY <2>8, <2>9, FS_Subset, FS_CardinalityType
    <2>11. Cardinality(Pending(handoffs')) <= crashes + 1 BY <1>5, <2>8, <2>10
    <2>12. QED BY <1>4, <2>3, <2>10, <2>11
  <1>10. QED BY <1>7, <1>8, <1>9 DEF Death

LEMMA CopiesStep == CopiesInv /\ [Next]_vars => CopiesInv'
  <1> SUFFICES ASSUME CopiesInv, [Next]_vars PROVE CopiesInv' OBVIOUS
  <1>0. FinalInv' BY FinalStepTaken DEF CopiesInv
  <1>1. ASSUME NEW m \in Missions, Expire(m) PROVE CopiesInv'
    BY <1>0, <1>1, CopiesUntouched DEF Expire, stores
  <1>2. ASSUME NEW i \in DOMAIN execs, NEW to \in Moves, MoveExecution(i, to)
        PROVE  CopiesInv'
    BY <1>0, <1>2, CopiesUntouched DEF MoveExecution
  <1>3. CASE BeginPass BY <1>0, <1>3, CopiesUntouched DEF BeginPass, stores
  <1>4. CASE UNCHANGED vars BY <1>0, <1>4, CopiesUntouched DEF vars
  <1>5. QED
    BY <1>0, <1>1, <1>2, <1>3, <1>4, RequestsKeepCopies, ReconcileKeepsCopies,
       VaultKeepsCopies, DeathKeepsCopies DEF Next

(* Each task leaves one piece of evidence and each mission one report, and *)
(* every handoff is accepted, but for what each crash may repeat or leave. *)
THEOREM EvidenceRepeatsHolds == Spec => []EvidenceRepeatsOnlyByCrash
  <1>1. ASSUME CopiesInv PROVE EvidenceRepeatsOnlyByCrash
    <2>1. TypeOK BY <1>1 DEF CopiesInv, FinalInv, EvidenceInv, GateInv
    <2>2. \A m \in Missions, t \in Tasks \cup {None} :
            Cardinality(CopiesOf(m, t)) <= 1 + crashes
      BY <1>1, <2>1, CopiesFinite DEF CopiesInv
    <2>3. QED BY <1>1, <2>2 DEF CopiesInv, CopiesOf, Pending, EvidenceRepeatsOnlyByCrash
  <1>2. QED BY <1>1, CopiesInit, CopiesStep, PTL DEF Spec

-----------------------------------------------------------------------------
(* The life cycle.  The disk shows a mission late: what a pass has done to *)
(* it, and its creation, may be in memory only.  So memory is ahead of the *)
(* disk by no more than one step of the life, and a write, of whichever    *)
(* mission, lets the disk take that step.                                  *)
Ahead(r, s) ==
  \/ r = s
  \/ Lifecycle!Plan(r, s) /\ s.life = "awaiting-approval"
  \/ Lifecycle!Work(r, s)
  \/ Lifecycle!End(r, s)

AheadInv == \A m \in Missions : Ahead(Record(saved[m]), Record(missions[m]))

(* A pass under way has a mission left, and none that has not begun.       *)
QueueRan ==
  /\ pc # "idle" => queue # {}
  /\ \A m \in queue : missions[m].status \in Begun

LifeInv == BooksInv /\ AheadInv /\ QueueRan

SameOrStep(r, s) == r = s \/ Lifecycle!Step(r, s)

LifeStep == \A m \in Missions : SameOrStep(Record(saved[m]), Record(saved'[m]))

Lives == MissionStatuses \cup {"expired"}

Records == [life : Lives, evidence : [Tasks -> Nat], charged : Nat, budget : Nat]

LEMMA RecordType ==
  ASSUME NEW mission \in Mission
  PROVE  /\ Record(mission) \in Records
         /\ Record(mission).life =
              IF /\ mission.status = "failed"
                 /\ \A t \in Tasks : mission.tasks[t].status # "failed"
                THEN "expired" ELSE mission.status
         /\ \A t \in Tasks :
              Record(mission).evidence[t] = IF mission.tasks[t].status = "completed"
                                              THEN mission.tasks[t].artifact ELSE None
         /\ Record(mission).charged = mission.used
         /\ Record(mission).budget = mission.max
  <1> DEFINE life == IF /\ mission.status = "failed"
                        /\ \A t \in Tasks : mission.tasks[t].status # "failed"
                       THEN "expired" ELSE mission.status
             evidence == [t \in Tasks |-> IF mission.tasks[t].status = "completed"
                                            THEN mission.tasks[t].artifact ELSE None]
  <1>1. life \in Lives BY DEF Lives, MissionStatuses, Mission
  <1>2. evidence \in [Tasks -> Nat] BY DEF Mission, Task, None
  <1>3. mission.used \in Nat /\ mission.max \in Nat BY DEF Mission
  <1>4. Record(mission) =
          [life |-> life, evidence |-> evidence, charged |-> mission.used,
           budget |-> mission.max]
    BY DEF Record
  <1>5. \A t \in Tasks : evidence[t] = IF mission.tasks[t].status = "completed"
                                         THEN mission.tasks[t].artifact ELSE None
    OBVIOUS
  <1> HIDE DEF evidence
  <1>6. QED BY <1>1, <1>2, <1>3, <1>4, <1>5 DEF Records

(* Work after work is work, and what ends a mission at work ends it.       *)
LEMMA ProgressOn ==
  ASSUME NEW r \in Records, NEW s \in Records, NEW u \in Records,
         Lifecycle!Progress(r, s), Lifecycle!Progress(s, u)
  PROVE  Lifecycle!Progress(r, u)
  BY DEF Lifecycle!Progress, Lifecycle!Done, Records

(* A turn changes nothing but the life.                                    *)
LEMMA TurnTaken ==
  ASSUME NEW r \in Records, NEW s \in Records, NEW u \in Records, NEW from, NEW to,
         Lifecycle!Turn(s, u, from, to)
  PROVE  /\ s.life = from /\ u.life = to
         /\ u.evidence = s.evidence /\ u.charged = s.charged /\ u.budget = s.budget
         /\ Lifecycle!Done(u) = Lifecycle!Done(s)
         /\ Lifecycle!Progress(r, s) => Lifecycle!Progress(r, u)
  <1>1. /\ s.life = from /\ u.life = to
        /\ u.evidence = s.evidence /\ u.charged = s.charged /\ u.budget = s.budget
    BY DEF Lifecycle!Turn, Records
  <1>2. Lifecycle!Done(u) = Lifecycle!Done(s) BY <1>1 DEF Lifecycle!Done
  <1>3. QED BY <1>1, <1>2 DEF Lifecycle!Progress

(* The disk takes the step memory is ahead by and the one that memory      *)
(* takes as it is written, both at once.                                   *)
LEMMA StepsJoin ==
  ASSUME NEW r \in Records, NEW s \in Records, NEW u \in Records,
         Ahead(r, s), SameOrStep(s, u)
  PROVE  SameOrStep(r, u)
  <1>1. CASE r = s BY <1>1
  <1>2. CASE s = u
    BY <1>2 DEF Ahead, SameOrStep, Lifecycle!Step
  <1>3. CASE /\ Lifecycle!Plan(r, s) /\ s.life = "awaiting-approval"
             /\ Lifecycle!Step(s, u)
    <2>1. Lifecycle!Approve(s, u) \/ Lifecycle!Withdraw(s, u)
      BY <1>3 DEF Lifecycle!Step, Lifecycle!Plan, Lifecycle!Start, Lifecycle!Work,
         Lifecycle!End, Lifecycle!Retry, Lifecycle!ExpireLate, Lifecycle!Turn
    <2>2. /\ u.life \in {"approved", "cancelled"}
          /\ u.charged = s.charged /\ Lifecycle!Done(u) = Lifecycle!Done(s)
      BY <2>1, TurnTaken DEF Lifecycle!Approve, Lifecycle!Withdraw
    <2>3. Lifecycle!Plan(r, u) BY <1>3, <2>2 DEF Lifecycle!Plan
    <2>4. QED BY <2>3 DEF SameOrStep, Lifecycle!Step
  <1>4. CASE Lifecycle!Work(r, s) /\ Lifecycle!Step(s, u)
    <2>1. Lifecycle!Work(s, u) \/ Lifecycle!End(s, u)
      BY <1>4 DEF Lifecycle!Step, Lifecycle!Plan, Lifecycle!Approve, Lifecycle!Start,
         Lifecycle!Withdraw, Lifecycle!Work, Lifecycle!Retry, Lifecycle!ExpireLate,
         Lifecycle!Turn
    <2>2. Lifecycle!Progress(r, u)
      BY <1>4, <2>1, ProgressOn DEF Lifecycle!Work, Lifecycle!End
    <2>3. Lifecycle!Work(r, u) \/ Lifecycle!End(r, u)
      BY <1>4, <2>1, <2>2 DEF Lifecycle!Work, Lifecycle!End
    <2>4. QED BY <2>3 DEF SameOrStep, Lifecycle!Step
  <1>5. CASE Lifecycle!End(r, s) /\ Lifecycle!Step(s, u)
    <2>1. Lifecycle!Retry(s, u) \/ Lifecycle!ExpireLate(s, u)
      BY <1>5 DEF Lifecycle!Step, Lifecycle!Plan, Lifecycle!Approve, Lifecycle!Start,
         Lifecycle!Withdraw, Lifecycle!Work, Lifecycle!End, Lifecycle!Turn
    <2>2. /\ u.life \in {"running", "expired"}
          /\ Lifecycle!Progress(r, u)
      BY <1>5, <2>1, TurnTaken DEF Lifecycle!Retry, Lifecycle!ExpireLate, Lifecycle!End
    <2>3. Lifecycle!Work(r, u) \/ Lifecycle!End(r, u)
      BY <1>5, <2>2 DEF Lifecycle!Work, Lifecycle!End
    <2>4. QED BY <2>3 DEF SameOrStep, Lifecycle!Step
  <1>6. QED BY <1>1, <1>2, <1>3, <1>4, <1>5 DEF Ahead, SameOrStep

(* What is done in memory only: missions are planned, work, and end.       *)
Unsaved(s, u) ==
  \/ s = u
  \/ Lifecycle!Plan(s, u) /\ u.life = "awaiting-approval"
  \/ Lifecycle!Work(s, u)
  \/ Lifecycle!End(s, u)

LEMMA StaysAhead ==
  ASSUME NEW r \in Records, NEW s \in Records, NEW u \in Records,
         Ahead(r, s), Unsaved(s, u)
  PROVE  Ahead(r, u)
  <1>1. CASE s = u BY <1>1
  <1>2. CASE Lifecycle!Plan(s, u) /\ u.life = "awaiting-approval"
    <2>1. r = s
      BY <1>2 DEF Ahead, Lifecycle!Plan, Lifecycle!Work, Lifecycle!End
    <2>2. QED BY <1>2, <2>1 DEF Ahead
  <1>3. CASE Lifecycle!Work(s, u) \/ Lifecycle!End(s, u)
    <2>1. r = s \/ Lifecycle!Work(r, s)
      BY <1>3 DEF Ahead, Lifecycle!Work, Lifecycle!End
    <2>2. CASE r = s BY <1>3, <2>2 DEF Ahead
    <2>3. CASE Lifecycle!Work(r, s)
      <3>1. Lifecycle!Progress(r, u)
        BY <1>3, <2>3, ProgressOn DEF Lifecycle!Work, Lifecycle!End
      <3>2. Lifecycle!Work(r, u) \/ Lifecycle!End(r, u)
        BY <1>3, <2>3, <3>1 DEF Lifecycle!Work, Lifecycle!End
      <3>3. QED BY <3>2 DEF Ahead
    <2>4. QED BY <2>1, <2>2, <2>3
  <1>4. QED BY <1>1, <1>2, <1>3 DEF Unsaved

(* No step leads back before the start.                                    *)
LEMMA StaysBegun ==
  ASSUME NEW a \in Mission, NEW b \in Mission, SameOrStep(Record(a), Record(b)),
         a.status \in Begun
  PROVE  b.status \in Begun
  <1>1. Record(a).life \in Begun \cup {"expired"}
    BY RecordType
  <1>2. Record(b).life \in Begun \cup {"expired"}
    <2> DEFINE r == Record(a)
               s == Record(b)
    <2>1. r \in Records /\ s \in Records BY RecordType
    <2>2. r.life \in {"completed", "failed", "cancelled", "running", "expired"}
      BY <1>1 DEF Begun, TerminalMissionStates
    <2>3. SameOrStep(r, s) OBVIOUS
    <2> HIDE DEF r, s
    <2>4. \A from, to : Lifecycle!Turn(r, s, from, to) => r.life = from /\ s.life = to
      BY <2>1, TurnTaken
    <2>5. CASE r = s BY <2>2, <2>5 DEF r, s, Begun, TerminalMissionStates
    <2>6. CASE Lifecycle!Work(r, s) \/ Lifecycle!End(r, s)
      BY <2>6 DEF r, s, Lifecycle!Work, Lifecycle!End, Begun, TerminalMissionStates
    <2>7. CASE Lifecycle!Retry(r, s) \/ Lifecycle!ExpireLate(r, s)
      BY <2>4, <2>7 DEF r, s, Lifecycle!Retry, Lifecycle!ExpireLate, Begun
    <2>8. ~ (\/ Lifecycle!Plan(r, s) \/ Lifecycle!Approve(r, s) \/ Lifecycle!Start(r, s)
             \/ Lifecycle!Withdraw(r, s))
      BY <2>2, <2>4 DEF Lifecycle!Plan, Lifecycle!Approve, Lifecycle!Start, Lifecycle!Withdraw
    <2>9. QED BY <2>3, <2>5, <2>6, <2>7, <2>8 DEF r, s, SameOrStep, Lifecycle!Step
  <1>3. b.status = "failed" \/ Record(b).life = b.status
    BY RecordType
  <1>4. "expired" # b.status BY DEF Mission, TerminalMissionStates
  <1>5. QED BY <1>2, <1>3, <1>4 DEF Begun, TerminalMissionStates

(* A step of mission m that is saved, or that may wait.                    *)
LEMMA LifeKept ==
  ASSUME LifeInv, TypeOK', NEW m \in Missions,
         \A n \in Missions : n # m => missions'[n] = missions[n],
         \/ saved' = missions' /\ SameOrStep(Record(missions[m]), Record(missions'[m]))
         \/ saved' = saved /\ Unsaved(Record(missions[m]), Record(missions'[m])),
         queue' \subseteq queue, pc' # "idle" => queue' # {}
  PROVE  AheadInv' /\ QueueRan' /\ LifeStep
  <1>0. TypeOK BY DEF LifeInv, BooksInv, FinalInv, EvidenceInv, GateInv
  <1>1. \A n \in Missions : /\ saved[n] \in Mission /\ missions[n] \in Mission
                            /\ saved'[n] \in Mission /\ missions'[n] \in Mission
    BY <1>0 DEF TypeOK
  <1>2. \A n \in Missions : /\ Record(saved[n]) \in Records /\ Record(missions[n]) \in Records
                            /\ Record(saved'[n]) \in Records /\ Record(missions'[n]) \in Records
    BY <1>1, RecordType
  <1>3. \A n \in Missions : Ahead(Record(saved[n]), Record(missions[n]))
    BY DEF LifeInv, AheadInv
  <1>4. \A n \in Missions : SameOrStep(Record(missions[n]), Record(missions'[n]))
    BY DEF SameOrStep, Unsaved, Lifecycle!Step
  <1>5. QueueRan'
    <2>1. \A n \in queue : n \in Missions /\ missions[n].status \in Begun
      BY <1>0 DEF LifeInv, QueueRan, TypeOK
    <2>2. QED BY <1>1, <1>4, <2>1, StaysBegun DEF QueueRan
  <1>6. CASE saved' = missions'
    <2>1. AheadInv' BY <1>6 DEF AheadInv, Ahead
    <2>2. LifeStep BY <1>2, <1>3, <1>4, <1>6, StepsJoin DEF LifeStep
    <2>3. QED BY <1>5, <2>1, <2>2
  <1>7. CASE /\ saved' = saved
             /\ Unsaved(Record(missions[m]), Record(missions'[m]))
    <2>1. LifeStep BY <1>7 DEF LifeStep, SameOrStep
    <2>2. \A n \in Missions : Unsaved(Record(missions[n]), Record(missions'[n]))
      BY <1>7 DEF Unsaved
    <2>3. \A n \in Missions : Ahead(Record(saved[n]), Record(missions'[n]))
      BY <1>2, <1>3, <2>2, StaysAhead
    <2>4. AheadInv' BY <1>7, <2>3 DEF AheadInv
    <2>5. QED BY <1>5, <2>1, <2>4
  <1>8. QED BY <1>6, <1>7

(* A step that leaves the missions alone.                                  *)
LEMMA LifeUntouched ==
  ASSUME LifeInv, TypeOK', missions' = missions, saved' = saved \/ saved' = missions,
         queue' \subseteq queue, pc' # "idle" => queue' # {}
  PROVE  AheadInv' /\ QueueRan' /\ LifeStep
  <1>0. TypeOK BY DEF LifeInv, BooksInv, FinalInv, EvidenceInv, GateInv
  <1>1. QueueRan' BY DEF LifeInv, QueueRan
  <1>2. AheadInv' BY DEF LifeInv, AheadInv, Ahead
  <1>3. \A n \in Missions : saved[n] \in Mission /\ missions[n] \in Mission
    BY <1>0 DEF TypeOK
  <1>4. LifeStep
    BY <1>3, RecordType, StepsJoin DEF LifeStep, LifeInv, AheadInv, SameOrStep
  <1>5. QED BY <1>1, <1>2, <1>4

(* The evidence a record shows is that of the completed tasks.             *)
LEMMA DoneCompleted ==
  ASSUME NEW mission \in Mission, NEW m, NEW es, NEW log \in Seq(Artifact),
         MissionBacked(mission, m, es, log)
  PROVE  Lifecycle!Done(Record(mission)) = {t \in Tasks : mission.tasks[t].status = "completed"}
  <1>1. \A a \in DOMAIN log : a # None
    <2>1. log \in Seq(Artifact) OBVIOUS
    <2>2. DOMAIN log = 1 .. Len(log) BY ONLY <2>1
    <2>3. QED BY ONLY <2>2 DEF None
  <1>2. \A t \in Tasks : mission.tasks[t].status = "completed" => mission.tasks[t].artifact # None
    BY <1>1 DEF MissionBacked, Backed
  <1>3. QED BY <1>2, RecordType DEF Lifecycle!Done, Lifecycle!None, None

(* Work was done on a mission: what its tasks had completed stays, and the *)
(* charge does not shrink.                                                 *)
Worked(a, b) ==
  /\ \A t \in Tasks : a.tasks[t].status = "completed" =>
       b.tasks[t].status = "completed" /\ b.tasks[t].artifact = a.tasks[t].artifact
  /\ b.max = a.max
  /\ a.used <= b.used

LEMMA WorkShows ==
  ASSUME LifeInv, BooksInv', NEW m \in Missions, Worked(missions[m], missions'[m])
  PROVE  /\ Lifecycle!Progress(Record(missions[m]), Record(missions'[m]))
         /\ missions'[m].status = "completed" =>
              Lifecycle!Done(Record(missions'[m])) = Tasks
  <1> DEFINE a == missions[m]
             b == missions'[m]
  <1>0. TypeOK /\ TypeOK' BY DEF LifeInv, BooksInv, FinalInv, EvidenceInv, GateInv
  <1>1. a \in Mission /\ b \in Mission BY <1>0 DEF TypeOK
  <1>2. artifacts \in Seq(Artifact) /\ artifacts' \in Seq(Artifact) BY <1>0 DEF TypeOK
  <1>3. MissionBacked(a, m, execs, artifacts) /\ MissionBacked(b, m, execs', artifacts')
    BY DEF LifeInv, BooksInv, FinalInv, EvidenceInv, AllBacked
  <1>4. Orderly(b) /\ Within(b)
    <2>1. AllOrderly' /\ AllWithin' BY DEF BooksInv, FinalInv
    <2>2. QED BY <2>1 DEF AllOrderly, Orderly, AllWithin, Within
  <1>5. Worked(a, b) OBVIOUS
  <1> HIDE DEF a, b
  <1>6. /\ Lifecycle!Done(Record(a)) = {t \in Tasks : a.tasks[t].status = "completed"}
        /\ Lifecycle!Done(Record(b)) = {t \in Tasks : b.tasks[t].status = "completed"}
    BY <1>1, <1>2, <1>3, DoneCompleted
  <1>7. \A t \in Lifecycle!Done(Record(a)) : Record(b).evidence[t] = Record(a).evidence[t]
    BY <1>1, <1>5, <1>6, RecordType DEF Worked
  <1>8. \A t \in Lifecycle!Done(Record(b)) : Dependencies[t] \subseteq Lifecycle!Done(Record(b))
    <2>1. ASSUME NEW t \in Tasks, b.tasks[t].status = "completed", NEW d \in Dependencies[t]
          PROVE  d \in Tasks /\ b.tasks[d].status = "completed"
      <3>1. d \in Tasks /\ d < t BY <2>1, PlanAssumption
      <3>2. QED BY <1>4, <2>1, <3>1 DEF Orderly
    <2>2. QED BY <1>6, <2>1
  <1>9. /\ Record(b).budget = Record(a).budget
        /\ Record(a).charged <= Record(b).charged /\ Record(b).charged <= Record(a).budget
    BY <1>1, <1>4, <1>5, RecordType DEF Worked, Within
  <1>10. Lifecycle!Progress(Record(a), Record(b)) BY <1>7, <1>8, <1>9 DEF Lifecycle!Progress
  <1>11. b.status = "completed" => Lifecycle!Done(Record(b)) = Tasks
    BY <1>3, <1>6 DEF MissionBacked, Reported
  <1>12. QED BY <1>10, <1>11 DEF a, b

(* Nothing was done: the record shows the same work.                       *)
Rested(a, b) ==
  /\ \A t \in Tasks :
       /\ a.tasks[t].status = "completed" <=> b.tasks[t].status = "completed"
       /\ a.tasks[t].status = "completed" => b.tasks[t].artifact = a.tasks[t].artifact
  /\ b.max = a.max
  /\ b.used = a.used

LEMMA RestShows ==
  ASSUME NEW a \in Mission, NEW b \in Mission, Rested(a, b)
  PROVE  /\ Record(b) = [Record(a) EXCEPT !.life = Record(b).life]
         /\ Record(b).life = Record(a).life => Record(b) = Record(a)
         /\ Worked(a, b)
  <1> DEFINE r == Record(a)
             s == Record(b)
  <1>1. r \in Records /\ s \in Records BY RecordType
  <1>2. \A t \in Tasks : s.evidence[t] = r.evidence[t] BY RecordType DEF Rested
  <1>3. s.charged = r.charged /\ s.budget = r.budget BY RecordType DEF Rested
  <1>4. Worked(a, b) BY DEF Rested, Worked, Mission
  <1> HIDE DEF r, s
  <1>5. s.evidence = r.evidence BY <1>1, <1>2 DEF Records
  <1>6. s = [r EXCEPT !.life = s.life] BY <1>1, <1>3, <1>5 DEF Records
  <1>7. s.life = r.life => s = r BY <1>1, <1>3, <1>5 DEF Records
  <1>8. QED BY <1>4, <1>6, <1>7 DEF r, s

(* The running tasks of a mission cancelled: no completed one among them.  *)
LEMMA StopRests ==
  ASSUME TypeOK, NEW m \in Missions, NEW ts, NEW b,
         \A t \in Tasks : t \in ts => missions[m].tasks[t].status # "completed",
         b.tasks = SetTasks(m, ts, "cancelled"),
         b.max = missions[m].max, b.used = missions[m].used
  PROVE  Rested(missions[m], b)
  <1>1. \A t \in Tasks :
          /\ b.tasks[t].status = "completed" <=> missions[m].tasks[t].status = "completed"
          /\ b.tasks[t].artifact = missions[m].tasks[t].artifact
    BY MissionFields DEF SetTasks, Task
  <1>2. QED BY <1>1 DEF Rested


LEMMA LivesOn ==
  ASSUME NEW mission \in Mission, mission.status # "failed"
  PROVE  Record(mission).life = mission.status
  BY RecordType

LEMMA TurnShows ==
  ASSUME NEW a \in Mission, NEW b \in Mission, Rested(a, b)
  PROVE  Lifecycle!Turn(Record(a), Record(b), Record(a).life, Record(b).life)
  BY RestShows DEF Lifecycle!Turn

(* What ends a mission that runs, or lets it work on.                      *)
LEMMA RunShows ==
  ASSUME LifeInv, BooksInv', NEW m \in Missions, Worked(missions[m], missions'[m]),
         missions[m].status = "running",
         missions'[m].status \in TerminalMissionStates \cup {"running"}
  PROVE  \/ Lifecycle!Work(Record(missions[m]), Record(missions'[m]))
         \/ Lifecycle!End(Record(missions[m]), Record(missions'[m]))
  <1>0. TypeOK /\ TypeOK' BY DEF LifeInv, BooksInv, FinalInv, EvidenceInv, GateInv
  <1>1. missions[m] \in Mission /\ missions'[m] \in Mission BY <1>0 DEF TypeOK
  <1>2. Record(missions[m]).life = "running" BY <1>1, LivesOn
  <1>3. /\ Record(missions'[m]).life \in
             {"completed", "failed", "cancelled", "expired", "running"}
        /\ Record(missions'[m]).life = "completed" => missions'[m].status = "completed"
    BY <1>1, RecordType DEF TerminalMissionStates
  <1>4. QED BY <1>2, <1>3, WorkShows DEF Lifecycle!Work, Lifecycle!End

LEMMA RequestsKeepLife ==
  LifeInv /\ BooksInv' /\ Requests => AheadInv' /\ QueueRan' /\ LifeStep
  <1> SUFFICES ASSUME LifeInv, BooksInv', Requests PROVE AheadInv' /\ QueueRan' /\ LifeStep
    OBVIOUS
  <1>0. TypeOK /\ TypeOK' BY DEF LifeInv, BooksInv, FinalInv, EvidenceInv, GateInv
  <1>a. \A m \in Missions : Orderly(missions[m])
    BY DEF LifeInv, BooksInv, FinalInv, AllOrderly
  <1>b. \A m \in Missions : missions[m] \in Mission /\ missions'[m] \in Mission
    BY <1>0 DEF TypeOK
  <1>c. pc # "idle" => queue # {} BY DEF LifeInv, QueueRan
  <1>1. ASSUME NEW m \in Missions, NEW type \in MissionTypes, NEW budget \in AttemptBudgets,
               NEW talks \in Conversations, Create(m, type, budget, talks)
        PROVE  AheadInv' /\ QueueRan' /\ LifeStep
    <2>1. /\ missions'[m] = NewMission(type, budget, talks)
          /\ missions[m].status = "absent"
          /\ \A n \in Missions : n # m => missions'[n] = missions[n]
      BY <1>0, <1>1, MissionFields DEF Create, MissionTable, Smallest
    <2>2. /\ missions'[m].status = "awaiting-approval" /\ missions'[m].used = 0
          /\ \A t \in Tasks : missions'[m].tasks[t].status = "pending"
      BY <2>1 DEF NewMission, NewTask
    <2>3. /\ Record(missions[m]).life = "absent"
          /\ Record(missions'[m]).life = "awaiting-approval"
          /\ Record(missions'[m]).charged = 0
          /\ \A t \in Tasks : Record(missions'[m]).evidence[t] = None
      BY <1>b, <2>1, <2>2, RecordType
    <2>4. Lifecycle!Plan(Record(missions[m]), Record(missions'[m]))
      BY <2>3 DEF Lifecycle!Plan, Lifecycle!Done, Lifecycle!None, None
    <2>5. UNCHANGED <<queue, pc>> /\ (saved' = missions' \/ saved' = saved)
      BY <1>1 DEF Create, Save, stores, pass
    <2>6. /\ SameOrStep(Record(missions[m]), Record(missions'[m]))
          /\ Unsaved(Record(missions[m]), Record(missions'[m]))
      BY <2>3, <2>4 DEF SameOrStep, Unsaved, Lifecycle!Step
    <2>7. QED BY <1>0, <1>c, <2>1, <2>5, <2>6, LifeKept
  <1>2. ASSUME NEW m \in Missions, Approve(m) PROVE AheadInv' /\ QueueRan' /\ LifeStep
    <2>1. /\ missions[m].status = "awaiting-approval" /\ missions'[m].status = "approved"
          /\ \A n \in Missions : n # m => missions'[n] = missions[n]
          /\ Rested(missions[m], missions'[m])
      <3> DEFINE tasks == [t \in Tasks |-> IF t \in Sensitive[missions[m].type]
                              THEN [missions[m].tasks[t] EXCEPT !.approval = "approved"]
                              ELSE missions[m].tasks[t]]
      <3>1. /\ missions[m].status = "awaiting-approval"
            /\ missions'[m] = [missions[m] EXCEPT !.tasks = tasks, !.approved = TRUE,
                                                  !.status = "approved"]
            /\ \A n \in Missions : n # m => missions'[n] = missions[n]
        BY <1>0, <1>2, MissionFields DEF Approve, MissionTable
      <3>2. \A t \in Tasks : /\ tasks[t].status = missions[m].tasks[t].status
                             /\ tasks[t].artifact = missions[m].tasks[t].artifact
        BY <1>0, MissionFields DEF Task
      <3> HIDE DEF tasks
      <3>3. /\ missions'[m].tasks = tasks /\ missions'[m].status = "approved"
            /\ missions'[m].max = missions[m].max /\ missions'[m].used = missions[m].used
        BY <1>0, <3>1, MissionFields DEF Mission
      <3>4. QED BY <3>1, <3>2, <3>3 DEF Rested
    <2>2. Lifecycle!Approve(Record(missions[m]), Record(missions'[m]))
      BY <1>b, <2>1, LivesOn, TurnShows DEF Lifecycle!Approve
    <2>3. UNCHANGED <<queue, pc>> /\ saved' = missions'
      BY <1>2 DEF Approve, Save, stores, pass
    <2>4. SameOrStep(Record(missions[m]), Record(missions'[m]))
      BY <2>2 DEF SameOrStep, Lifecycle!Step
    <2>5. QED BY <1>0, <1>c, <2>1, <2>3, <2>4, LifeKept
  <1>2a. ASSUME NEW m \in Missions, ApproveThrows(m) PROVE AheadInv' /\ QueueRan' /\ LifeStep
    <2>1. /\ missions[m].status = "awaiting-approval"
          /\ missions'[m].status = "awaiting-approval"
          /\ \A n \in Missions : n # m => missions'[n] = missions[n]
          /\ UNCHANGED <<queue, pc, saved>>
          /\ Rested(missions[m], missions'[m])
      BY <1>0, <1>2a, ThrownApproval DEF Rested
    <2>2. Record(missions[m]) = Record(missions'[m])
      BY <1>b, <2>1, LivesOn, RestShows
    <2>3. Unsaved(Record(missions[m]), Record(missions'[m])) BY <2>2 DEF Unsaved
    <2>4. QED BY <1>0, <1>c, <2>1, <2>3, LifeKept
  <1>3. ASSUME NEW m \in Missions, Start(m) PROVE AheadInv' /\ QueueRan' /\ LifeStep
    <2>1. /\ missions[m].status = "approved" /\ missions'[m].status = "running"
          /\ missions'[m].tasks = missions[m].tasks
          /\ missions'[m].max = missions[m].max /\ missions'[m].used = missions[m].used
          /\ \A n \in Missions : n # m => missions'[n] = missions[n]
      BY <1>0, <1>3, MissionFields DEF Start, MissionTable, Mission
    <2>2. Rested(missions[m], missions'[m]) BY <2>1 DEF Rested
    <2>3. Lifecycle!Start(Record(missions[m]), Record(missions'[m]))
      BY <1>b, <2>1, <2>2, LivesOn, TurnShows DEF Lifecycle!Start
    <2>4. UNCHANGED <<queue, pc>> /\ saved' = missions'
      BY <1>3 DEF Start, Save, stores, pass
    <2>5. SameOrStep(Record(missions[m]), Record(missions'[m]))
      BY <2>3 DEF SameOrStep, Lifecycle!Step
    <2>6. QED BY <1>0, <1>c, <2>1, <2>4, <2>5, LifeKept
  <1>4. ASSUME NEW m \in Missions, Cancel(m) PROVE AheadInv' /\ QueueRan' /\ LifeStep
    <2> DEFINE targets == CancelTargets(m)
               tasks == SetTasks(m, targets, "cancelled")
    <2>1. /\ missions'[m] = [missions[m] EXCEPT !.tasks = tasks, !.status = "cancelled"]
          /\ \A n \in Missions : n # m => missions'[n] = missions[n]
      BY <1>0, <1>4, MissionFields DEF Cancel, MissionTable
    <2>2. /\ missions'[m].status = "cancelled" /\ missions'[m].tasks = tasks
          /\ missions'[m].max = missions[m].max /\ missions'[m].used = missions[m].used
      <3> HIDE DEF tasks
      <3>1. QED BY <1>0, <2>1, MissionFields DEF Mission
    <2>3. \A t \in Tasks : t \in targets => missions[m].tasks[t].status # "completed"
      BY DEF CancelTargets, HasTaskIn
    <2>4. Rested(missions[m], missions'[m])
      <3> HIDE DEF targets
      <3>1. QED BY <1>0, <2>2, <2>3, StopRests
    <2>5. missions[m].status \in {"awaiting-approval", "approved", "running"}
      BY <1>4, <1>b DEF Cancel, Cancellable, Mission
    <2>6. UNCHANGED <<queue, pc>> /\ saved' = missions'
      BY <1>4 DEF Cancel, Save, pass
    <2>7. SameOrStep(Record(missions[m]), Record(missions'[m]))
      <3>1. CASE missions[m].status = "running"
        <4>1. Worked(missions[m], missions'[m]) BY <1>b, <2>4, RestShows
        <4>2. QED
          BY <2>2, <3>1, <4>1, RunShows DEF SameOrStep, Lifecycle!Step, TerminalMissionStates
      <3>2. CASE missions[m].status # "running"
        <4>1. Lifecycle!Withdraw(Record(missions[m]), Record(missions'[m]))
          <5>1. /\ Record(missions[m]).life \in {"awaiting-approval", "approved"}
                /\ Record(missions'[m]).life = "cancelled"
            BY <1>b, <2>2, <2>5, <3>2, LivesOn
          <5>2. QED BY <1>b, <2>4, <5>1, TurnShows DEF Lifecycle!Withdraw
        <4>2. QED BY <4>1 DEF SameOrStep, Lifecycle!Step
      <3>3. QED BY <3>1, <3>2
    <2>8. QED
      <3> HIDE DEF tasks
      <3>1. QED BY <1>0, <1>c, <2>1, <2>6, <2>7, LifeKept
  <1>5. ASSUME NEW m \in Missions, NEW t \in Tasks, RetryTask(m, t)
        PROVE  AheadInv' /\ QueueRan' /\ LifeStep
    <2> DEFINE task == [missions[m].tasks[t] EXCEPT !.status = "pending", !.exec = None]
    <2>1. /\ missions'[m].tasks = [missions[m].tasks EXCEPT ![t] = task]
          /\ missions'[m].status = "running"
          /\ missions'[m].max = missions[m].max /\ missions'[m].used = missions[m].used
          /\ \A n \in Missions : n # m => missions'[n] = missions[n]
      BY <1>0, <1>5, MissionFields DEF RetryTask, MissionTable, Mission
    <2>2. /\ missions[m].tasks[t].status = "failed" /\ missions[m].status = "failed"
          /\ missions[m].used < missions[m].max
      BY <1>a, <1>5 DEF RetryTask, Orderly
    <2>3. task.status = "pending" BY <1>0, MissionFields DEF Task
    <2>4. Rested(missions[m], missions'[m])
      <3> HIDE DEF task
      <3>1. QED BY <1>0, <2>1, <2>2, <2>3, MissionFields DEF Rested
    <2>5. /\ Record(missions[m]).life = "failed" /\ Record(missions'[m]).life = "running"
          /\ Record(missions[m]).charged < Record(missions[m]).budget
      BY <1>b, <2>1, <2>2, RecordType
    <2>6. Lifecycle!Retry(Record(missions[m]), Record(missions'[m]))
      BY <1>b, <2>4, <2>5, TurnShows DEF Lifecycle!Retry
    <2>7. UNCHANGED <<queue, pc>> /\ saved' = missions'
      BY <1>5 DEF RetryTask, Save, stores, pass
    <2>8. SameOrStep(Record(missions[m]), Record(missions'[m]))
      BY <2>6 DEF SameOrStep, Lifecycle!Step
    <2>9. QED BY <1>0, <1>c, <2>1, <2>7, <2>8, LifeKept
  <1>6. QED BY <1>1, <1>2, <1>2a, <1>3, <1>4, <1>5 DEF Requests


(* The pass goes on to its next mission, or ends.                          *)
LEMMA PassGoesOn ==
  ASSUME NEW m, NextMission(m) \/ AbortPass
  PROVE  queue' \subseteq queue /\ (pc' # "idle" => queue' # {})
  BY DEF NextMission, AbortPass

LEMMA ReconcileKeepsLife ==
  LifeInv /\ BooksInv' /\ Reconcile => AheadInv' /\ QueueRan' /\ LifeStep
  <1> SUFFICES ASSUME LifeInv, BooksInv', Reconcile PROVE AheadInv' /\ QueueRan' /\ LifeStep
    OBVIOUS
  <1>0. TypeOK /\ TypeOK' BY DEF LifeInv, BooksInv, FinalInv, EvidenceInv, GateInv
  <1>a. \A m \in Missions : Orderly(missions[m])
    BY DEF LifeInv, BooksInv, FinalInv, AllOrderly
  <1>b. \A m \in Missions : missions[m] \in Mission /\ missions'[m] \in Mission
    BY <1>0 DEF TypeOK
  <1>c. \A m \in Missions : Current(m) => queue # {} BY DEF Current, Smallest
  <1>d. ASSUME NEW m \in Missions, NEW t \in Tasks, Settling(m, t)
        PROVE  /\ missions[m].status = "running" /\ missions[m].tasks[t].status = "running"
               /\ queue # {}
    BY <1>a, <1>c, <1>d DEF Settling, Smallest, Due, HasTaskIn, Orderly
  <1>1. ASSUME NEW m \in Missions, TimeOut(m) PROVE AheadInv' /\ QueueRan' /\ LifeStep
    <2> DEFINE targets == {t \in Tasks : HasTaskIn(m, t, {"running"})}
               tasks == SetTasks(m, targets, "cancelled")
    <2>1. /\ missions'[m] = [missions[m] EXCEPT !.tasks = tasks, !.status = "failed"]
          /\ \A n \in Missions : n # m => missions'[n] = missions[n]
      BY <1>0, <1>1, MissionFields DEF TimeOut, MissionTable
    <2>2. /\ missions'[m].tasks = tasks /\ missions'[m].status = "failed"
          /\ missions'[m].max = missions[m].max /\ missions'[m].used = missions[m].used
      <3> HIDE DEF tasks
      <3>1. QED BY <1>0, <2>1, MissionFields DEF Mission
    <2>3. /\ \A t \in Tasks : t \in targets => missions[m].tasks[t].status = "running"
          /\ \A t \in Tasks : tasks[t].status =
               IF t \in targets THEN "cancelled" ELSE missions[m].tasks[t].status
      <3>1. \A t \in Tasks : t \in targets => missions[m].tasks[t].status = "running"
        BY DEF HasTaskIn
      <3> HIDE DEF targets
      <3>2. QED BY <1>0, <3>1, MissionFields DEF SetTasks, Task
    <2> HIDE DEF targets
    <2>4. Rested(missions[m], missions'[m])
      BY <1>0, <2>2, <2>3, StopRests
    <2>5. /\ saved' = missions' /\ NextMission(m) /\ Current(m) /\ pc = "settle"
      BY <1>1 DEF TimeOut, OutOfTime, Save
    <2>6. missions[m].status \in {"running", "failed", "cancelled"}
      <3>1. m \in queue BY <2>5 DEF Current, Smallest
      <3>2. missions[m].status # "completed"
        BY <2>5, <3>1 DEF LifeInv, BooksInv, FinalInv, QueueInv
      <3>3. QED BY <3>1, <3>2 DEF LifeInv, QueueRan, Begun, TerminalMissionStates
    <2>7. SameOrStep(Record(missions[m]), Record(missions'[m]))
      <3>1. CASE missions[m].status = "running"
        <4>1. Worked(missions[m], missions'[m]) BY <1>b, <2>4, RestShows
        <4>2. QED
          BY <2>2, <3>1, <4>1, RunShows DEF SameOrStep, Lifecycle!Step, TerminalMissionStates
      (* A failed mission keeps its failed task, or has none.              *)
      <3>2. CASE missions[m].status = "failed"
        <4>1. Record(missions'[m]).life = Record(missions[m]).life
          <5>1. \A t \in Tasks : missions'[m].tasks[t].status = "failed" <=>
                                   missions[m].tasks[t].status = "failed"
            BY <2>2, <2>3
          <5>2. QED BY <1>b, <2>2, <3>2, <5>1, RecordType
        <4>2. QED BY <1>b, <2>4, <4>1, RestShows DEF SameOrStep
      <3>3. CASE missions[m].status = "cancelled"
        <4>1. \A t \in Tasks : missions'[m].tasks[t].status # "failed"
          <5>1. \A t \in Tasks : missions[m].tasks[t].status # "failed"
            BY <1>a, <3>3 DEF Orderly
          <5>2. QED BY <2>2, <2>3, <5>1
        <4>2. Record(missions[m]).life = "cancelled" /\ Record(missions'[m]).life = "expired"
          BY <1>b, <2>2, <3>3, <4>1, RecordType
        <4>3. Lifecycle!ExpireLate(Record(missions[m]), Record(missions'[m]))
          BY <1>b, <2>4, <4>2, TurnShows DEF Lifecycle!ExpireLate
        <4>4. QED BY <4>3 DEF SameOrStep, Lifecycle!Step
      <3>4. QED BY <2>6, <3>1, <3>2, <3>3
    <2>8. QED
      <3> HIDE DEF tasks
      <3>1. QED BY <1>0, <2>1, <2>5, <2>7, PassGoesOn, LifeKept
  <1>2. ASSUME NEW m \in Missions, NEW t \in Tasks, CompleteTask(m, t)
        PROVE  AheadInv' /\ QueueRan' /\ LifeStep
    <2> DEFINE task == [missions[m].tasks[t] EXCEPT !.status = "completed",
                                                    !.artifact = Len(artifacts')]
    <2>1. /\ missions'[m].tasks = [missions[m].tasks EXCEPT ![t] = task]
          /\ missions'[m].status = missions[m].status
          /\ missions'[m].used = missions[m].used /\ missions'[m].max = missions[m].max
          /\ \A n \in Missions : n # m => missions'[n] = missions[n]
      BY <1>0, <1>2, MissionFields DEF CompleteTask, MissionTable, Mission
    <2>2. Settling(m, t) /\ UNCHANGED <<queue, pc, saved>> BY <1>2 DEF CompleteTask
    <2>3. /\ missions[m].status = "running" /\ missions[m].tasks[t].status = "running"
          /\ queue # {}
      BY <1>d, <2>2
    <2>4. Worked(missions[m], missions'[m])
      <3> HIDE DEF task
      <3>1. QED BY <1>0, <2>1, <2>3, MissionFields DEF Worked
    <2>5. Unsaved(Record(missions[m]), Record(missions'[m]))
      BY <2>1, <2>3, <2>4, RunShows DEF Unsaved
    <2>6. QED
      <3> HIDE DEF task
      <3>1. QED BY <1>0, <2>1, <2>2, <2>3, <2>5, LifeKept
  (* The task to retry had not completed.                                  *)
  <1>3. ASSUME NEW m \in Missions, NEW t \in Tasks, ScheduleRetry(m, t)
        PROVE  AheadInv' /\ QueueRan' /\ LifeStep
    <2> DEFINE task == [missions[m].tasks[t] EXCEPT !.status = "pending", !.exec = None]
    <2>1. /\ missions'[m].tasks = [missions[m].tasks EXCEPT ![t] = task]
          /\ missions'[m].status = missions[m].status
          /\ missions'[m].used = missions[m].used /\ missions'[m].max = missions[m].max
          /\ \A n \in Missions : n # m => missions'[n] = missions[n]
      BY <1>0, <1>3, MissionFields DEF ScheduleRetry, MissionTable, Mission
    <2>2. Settling(m, t) /\ UNCHANGED <<queue, pc, saved>> BY <1>3 DEF ScheduleRetry
    <2>3. /\ missions[m].status = "running" /\ missions[m].tasks[t].status = "running"
          /\ queue # {}
      BY <1>d, <2>2
    <2>4. Worked(missions[m], missions'[m])
      <3> HIDE DEF task
      <3>1. QED BY <1>0, <2>1, <2>3, MissionFields DEF Worked
    <2>5. Unsaved(Record(missions[m]), Record(missions'[m]))
      BY <2>1, <2>3, <2>4, RunShows DEF Unsaved
    <2>6. QED
      <3> HIDE DEF task
      <3>1. QED BY <1>0, <2>1, <2>2, <2>3, <2>5, LifeKept
  <1>4. ASSUME NEW m \in Missions, NEW t \in Tasks, EndTask(m, t)
        PROVE  AheadInv' /\ QueueRan' /\ LifeStep
    <2> DEFINE ended == ExecStatus(m, t)
               task == [missions[m].tasks[t] EXCEPT !.status = ended]
    <2>1. /\ ended \in {"failed", "cancelled"} /\ Settling(m, t)
          /\ UNCHANGED <<queue, pc, saved>>
      BY <1>4 DEF EndTask
    <2>2. /\ missions'[m].tasks = [missions[m].tasks EXCEPT ![t] = task]
          /\ missions'[m].status = ended
          /\ missions'[m].used = missions[m].used /\ missions'[m].max = missions[m].max
          /\ \A n \in Missions : n # m => missions'[n] = missions[n]
      BY <1>0, <1>4, MissionFields DEF EndTask, MissionTable, Mission
    <2> HIDE DEF task, ended
    <2>3. /\ missions[m].status = "running" /\ missions[m].tasks[t].status = "running"
          /\ queue # {}
      BY <1>d, <2>1
    <2>4. Worked(missions[m], missions'[m])
      BY <1>0, <2>2, <2>3, MissionFields DEF Worked
    <2>5. Unsaved(Record(missions[m]), Record(missions'[m]))
      BY <2>1, <2>2, <2>3, <2>4, RunShows DEF Unsaved, TerminalMissionStates
    <2>6. QED BY <1>0, <2>1, <2>2, <2>3, <2>5, LifeKept
  <1>5. ASSUME NEW m \in Missions, NEW t \in Tasks,
               ProposeExecution(m, t) \/ DispatchRefused(m, t)
        PROVE  AheadInv' /\ QueueRan' /\ LifeStep
    <2>1. /\ UNCHANGED <<missions, saved>> /\ Current(m)
          /\ queue' = queue \/ AbortPass
      BY <1>5 DEF ProposeExecution, DispatchRefused, Dispatching, Settled
    <2>2. queue' \subseteq queue /\ (pc' # "idle" => queue' # {})
      BY <1>c, <2>1, PassGoesOn
    <2>3. QED BY <1>0, <2>1, <2>2, LifeUntouched
  (* The task dispatched was pending, and the mission running.             *)
  <1>6. ASSUME NEW m \in Missions, NEW t \in Tasks, ApproveExecution(m, t)
        PROVE  AheadInv' /\ QueueRan' /\ LifeStep
    <2> DEFINE last == Len(execs)
               task == [missions[m].tasks[t] EXCEPT !.status = "running", !.exec = last,
                                                    !.attempts = @ + 1]
    <2>1. /\ pc = "approve" /\ Current(m) /\ t = execs[last].task
          /\ UNCHANGED <<queue, saved>>
      BY <1>6 DEF ApproveExecution
    <2>2. last \in DOMAIN execs /\ Current(execs[last].mission) /\ t \in Ready(execs[last].mission)
      BY <2>1 DEF LifeInv, BooksInv, FinalInv, EvidenceInv, ApprovingLast, ApprovingReady
    <2>3. execs[last].mission \in Missions
      <3>1. execs[last] \in Exec BY <1>0, <2>2 DEF TypeOK
      <3> HIDE DEF last
      <3>2. QED BY <3>1 DEF Exec
    <2>4. t \in Ready(m) BY <1>0, <2>1, <2>2, <2>3, CurrentUnique
    <2>5. missions[m].tasks[t].status = "pending" BY <2>4 DEF Ready
    <2>6. missions[m].status = "running"
      BY <2>1 DEF LifeInv, BooksInv, FinalInv, EvidenceInv, GateInv, ApprovingRunning
    <2>7. /\ missions'[m].tasks = [missions[m].tasks EXCEPT ![t] = task]
          /\ missions'[m].status = missions[m].status
          /\ missions'[m].used = missions[m].used + 1 /\ missions'[m].max = missions[m].max
          /\ \A n \in Missions : n # m => missions'[n] = missions[n]
      <3>1. missions' = [missions EXCEPT
               ![m].tasks[t] = [@ EXCEPT !.status = "running", !.exec = Len(execs),
                                         !.attempts = @ + 1],
               ![m].used = @ + 1]
        BY <1>6 DEF ApproveExecution
      <3>2. missions' = [missions EXCEPT ![m].tasks[t] = task,
                                         ![m].used = missions[m].used + 1]
        BY <1>0, <3>1, MissionFields DEF MissionTable, Mission, Task
      <3> HIDE DEF task
      <3>3. QED BY <1>0, <3>2, MissionFields DEF MissionTable, Mission
    <2> HIDE DEF task
    <2>8. Worked(missions[m], missions'[m])
      BY <1>0, <2>5, <2>7, MissionFields DEF Worked
    <2>9. Unsaved(Record(missions[m]), Record(missions'[m]))
      BY <2>6, <2>7, <2>8, RunShows DEF Unsaved
    <2>10. QED BY <1>0, <1>c, <2>1, <2>7, <2>9, LifeKept
  <1>7. ASSUME NEW m \in Missions, CompleteMission(m)
        PROVE  AheadInv' /\ QueueRan' /\ LifeStep
    <2>1. /\ missions'[m].tasks = missions[m].tasks
          /\ missions'[m].status = "completed"
          /\ missions'[m].used = missions[m].used /\ missions'[m].max = missions[m].max
          /\ \A n \in Missions : n # m => missions'[n] = missions[n]
      BY <1>0, <1>7, MissionFields DEF CompleteMission, MissionTable, Mission
    <2>2. /\ Current(m) /\ missions[m].status = "running" /\ UNCHANGED <<saved, queue>>
      BY <1>7 DEF CompleteMission, Settled
    <2>3. Worked(missions[m], missions'[m]) BY <1>0, <2>1, MissionFields DEF Worked
    <2>4. Unsaved(Record(missions[m]), Record(missions'[m]))
      BY <2>1, <2>2, <2>3, RunShows DEF Unsaved, TerminalMissionStates
    <2>5. QED BY <1>0, <1>c, <2>1, <2>2, <2>4, LifeKept
  <1>1a. ASSUME NEW m \in Missions, ExecutionNotFound(m)
         PROVE  AheadInv' /\ QueueRan' /\ LifeStep
    BY <1>0, <1>1a, PassGoesOn, LifeUntouched DEF ExecutionNotFound
  <1>8. ASSUME NEW m \in Missions, Leave(m) PROVE AheadInv' /\ QueueRan' /\ LifeStep
    <2>1. missions' = missions /\ (saved' = saved \/ saved' = missions) /\ NextMission(m)
      BY <1>8 DEF Leave
    <2>2. QED BY <1>0, <2>1, PassGoesOn, LifeUntouched
  <1>9. QED
    BY <1>1, <1>1a, <1>2, <1>3, <1>4, <1>5, <1>6, <1>7, <1>8 DEF Reconcile

LEMMA VaultKeepsLife ==
  LifeInv /\ BooksInv' /\ Vault => AheadInv' /\ QueueRan' /\ LifeStep
  <1> SUFFICES ASSUME LifeInv, BooksInv', Vault PROVE AheadInv' /\ QueueRan' /\ LifeStep
    OBVIOUS
  <1>0. TypeOK /\ TypeOK' BY DEF LifeInv, BooksInv, FinalInv, EvidenceInv, GateInv
  <1>1. ASSUME NEW m \in Missions, VaultDone(m) PROVE AheadInv' /\ QueueRan' /\ LifeStep
    <2>1. /\ missions'[m].tasks = missions[m].tasks
          /\ missions'[m].status = missions[m].status
          /\ missions'[m].used = missions[m].used /\ missions'[m].max = missions[m].max
          /\ \A n \in Missions : n # m => missions'[n] = missions[n]
      BY <1>0, <1>1, MissionFields DEF VaultDone, MissionTable, Mission
    <2>2. missions[m] \in Mission /\ missions'[m] \in Mission BY <1>0 DEF TypeOK
    <2>3. Record(missions'[m]) = Record(missions[m])
      <3>1. Rested(missions[m], missions'[m]) BY <2>1 DEF Rested
      <3>2. Record(missions'[m]).life = Record(missions[m]).life BY <2>1, <2>2, RecordType
      <3>3. QED BY <2>2, <3>1, <3>2, RestShows
    <2>4. /\ NextMission(m) \/ AbortPass
          /\ saved' = saved \/ saved' = missions'
      BY <1>1 DEF VaultDone, Save
    <2>5. QED BY <1>0, <2>1, <2>3, <2>4, PassGoesOn, LifeKept DEF SameOrStep, Unsaved
  <1>2. ASSUME NEW m \in Missions, VaultFailed(m) PROVE AheadInv' /\ QueueRan' /\ LifeStep
    BY <1>0, <1>2, PassGoesOn, LifeUntouched DEF VaultFailed
  <1>3. QED BY <1>1, <1>2 DEF Vault

(* What was in memory only is lost; the disk is where it was.              *)
LEMMA DeathKeepsLife == LifeInv /\ Death => AheadInv' /\ QueueRan' /\ LifeStep
  <1> SUFFICES ASSUME LifeInv, Death PROVE AheadInv' /\ QueueRan' /\ LifeStep OBVIOUS
  <1>1. missions' = saved /\ saved' = saved /\ queue' = {} /\ pc' = "idle"
    BY DEF Death, Crash, StopInterrupted, CompleteTaskInterrupted, DieWith, AbortPass
  <1>2. QED BY <1>1 DEF AheadInv, Ahead, QueueRan, LifeStep, SameOrStep

LEMMA LifeStepTaken == LifeInv /\ [Next]_vars => LifeInv' /\ LifeStep
  <1> SUFFICES ASSUME LifeInv, [Next]_vars PROVE LifeInv' /\ LifeStep OBVIOUS
  <1>0. BooksInv' BY BooksStep DEF LifeInv
  <1>1. TypeOK' BY <1>0 DEF BooksInv, FinalInv, EvidenceInv, GateInv
  <1>2. CASE \/ UNCHANGED vars
             \/ \E m \in Missions : Expire(m)
             \/ \E i \in DOMAIN execs, to \in Moves : MoveExecution(i, to)
    <2>1. UNCHANGED <<missions, saved, queue, pc>>
      BY <1>2 DEF vars, Expire, MoveExecution, pass
    <2>2. pc' # "idle" => queue' # {} BY <2>1 DEF LifeInv, QueueRan
    <2>3. QED BY <1>0, <1>1, <2>1, <2>2, LifeUntouched DEF LifeInv
  <1>3. CASE BeginPass
    <2>1. /\ UNCHANGED <<missions, saved>>
          /\ queue' = {m \in Missions : missions[m].status = "running"}
          /\ pc' # "idle" => queue' # {}
      BY <1>3 DEF BeginPass
    <2>2. QueueRan' BY <2>1 DEF QueueRan, Begun
    <2>3. AheadInv' /\ LifeStep
      BY <2>1 DEF LifeInv, AheadInv, Ahead, LifeStep, SameOrStep
    <2>4. QED BY <1>0, <2>2, <2>3 DEF LifeInv
  <1>4. QED
    BY <1>0, <1>2, <1>3, RequestsKeepLife, ReconcileKeepsLife, VaultKeepsLife,
       DeathKeepsLife DEF LifeInv, Next

LEMMA LifeInit == Init => LifeInv /\ Lifecycle!Init
  <1> SUFFICES ASSUME Init PROVE LifeInv /\ Lifecycle!Init OBVIOUS
  <1>1. Record(NoMission) = Lifecycle!NoRecord
    BY DEF Record, NoMission, NewTask, Lifecycle!NoRecord, Lifecycle!None, None
  <1>2. \A m \in Missions : saved[m] = NoMission /\ missions[m] = NoMission
    BY DEF Init
  <1>3. Lifecycle!Init BY <1>1, <1>2 DEF Lifecycle!Init
  <1>4. AheadInv /\ QueueRan BY <1>2 DEF Init, AheadInv, Ahead, QueueRan
  <1>5. QED BY <1>3, <1>4, BooksInit DEF LifeInv

(* The missions namespace leads every mission through the abstract life.   *)
THEOREM LifecycleImplemented == Spec => LifecycleSpec
  <1>1. LifeInv /\ [Next]_vars => LifeInv' BY LifeStepTaken
  <1>2. LifeInv /\ [Next]_vars => [Lifecycle!Next]_([m \in Missions |-> Record(saved[m])])
    BY LifeStepTaken DEF LifeStep, SameOrStep, Lifecycle!Next
  <1>3. QED BY <1>1, <1>2, LifeInit, PTL DEF Spec, LifecycleSpec, Lifecycle!Spec

(* Every step of a life but its first keeps the evidence there is.         *)
LEMMA StepKeepsDone ==
  ASSUME NEW r \in Records, NEW s \in Records, SameOrStep(r, s), r.life # "absent"
  PROVE  \A t \in Lifecycle!Done(r) : s.evidence[t] = r.evidence[t]
  <1>1. \A from, to : Lifecycle!Turn(r, s, from, to) => s.evidence = r.evidence
    BY TurnTaken
  <1>2. CASE \/ r = s
             \/ \E from, to : Lifecycle!Turn(r, s, from, to)
    BY <1>1, <1>2
  <1>3. CASE Lifecycle!Progress(r, s) BY <1>3 DEF Lifecycle!Progress
  <1>4. QED
    BY <1>2, <1>3 DEF SameOrStep, Lifecycle!Step, Lifecycle!Plan, Lifecycle!Approve,
       Lifecycle!Start, Lifecycle!Withdraw, Lifecycle!Work, Lifecycle!End, Lifecycle!Retry,
       Lifecycle!ExpireLate

(* So finished work is never done over: a task completed on disk stays so, *)
(* with the same artifact, whatever is retried, timed out, cancelled or    *)
(* lost in a crash (#completeTask, retryTask, reconcile).                  *)
THEOREM CompletedWorkStays ==
  Spec => [][\A m \in Missions, t \in Tasks :
               saved[m].tasks[t].status = "completed" =>
                 /\ saved'[m].tasks[t].status = "completed"
                 /\ saved'[m].tasks[t].artifact = saved[m].tasks[t].artifact]_vars
  <1>1. LifeInv /\ [Next]_vars => LifeInv' BY LifeStepTaken
  <1>2. CopiesInv /\ [Next]_vars => CopiesInv' BY CopiesStep
  <1>3. LifeInv /\ CopiesInv /\ LifeInv' /\ [Next]_vars =>
          [\A m \in Missions, t \in Tasks :
             saved[m].tasks[t].status = "completed" =>
               /\ saved'[m].tasks[t].status = "completed"
               /\ saved'[m].tasks[t].artifact = saved[m].tasks[t].artifact]_vars
    <2> SUFFICES ASSUME LifeInv, CopiesInv, LifeInv', [Next]_vars,
                        NEW m \in Missions, NEW t \in Tasks,
                        saved[m].tasks[t].status = "completed"
                 PROVE  /\ saved'[m].tasks[t].status = "completed"
                        /\ saved'[m].tasks[t].artifact = saved[m].tasks[t].artifact
      OBVIOUS
    <2> DEFINE a == saved[m]
               b == saved'[m]
    <2>1. /\ a \in Mission /\ b \in Mission /\ artifacts \in Seq(Artifact)
          /\ MissionBacked(a, m, execs, artifacts)
      BY DEF LifeInv, BooksInv, FinalInv, EvidenceInv, AllBacked, GateInv, TypeOK
    <2>2. SameOrStep(Record(a), Record(b)) BY LifeStepTaken DEF LifeStep
    <2>3. a.status # "absent" BY DEF CopiesInv, Unborn
    <2> HIDE DEF a, b
    <2>4. t \in Lifecycle!Done(Record(a))
      <3>1. a.tasks[t].status = "completed" BY DEF a
      <3>2. QED BY <2>1, <3>1, DoneCompleted
    <2>5. Record(a).life # "absent" BY <2>1, <2>3, RecordType
    <2>6. Record(a) \in Records /\ Record(b) \in Records BY <2>1, RecordType
    <2>7. Record(b).evidence[t] = Record(a).evidence[t] BY <2>2, <2>4, <2>5, <2>6, StepKeepsDone
    <2>8. Record(a).evidence[t] # None /\ Record(a).evidence[t] = a.tasks[t].artifact
      <3>1. a.tasks[t].status = "completed" BY DEF a
      <3>2. QED BY <2>1, <2>4, <3>1, RecordType DEF Lifecycle!Done, Lifecycle!None, None
    <2>9. b.tasks[t].status = "completed" /\ b.tasks[t].artifact = a.tasks[t].artifact
      BY <2>1, <2>7, <2>8, RecordType
    <2>10. QED BY <2>9 DEF a, b
  <1>4. QED BY <1>1, <1>2, <1>3, LifeInit, CopiesInit, PTL DEF Spec
=============================================================================
