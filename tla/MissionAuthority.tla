-------------------------- MODULE MissionAuthority --------------------------
(***************************************************************************)
(* The mission authority and its coordinator                               *)
(* (packages/mission/src/mission-authority.js), with the three stores it   *)
(* writes: executions, context (artifacts, handoffs) and missions.         *)
(*                                                                         *)
(* Each store keeps its state in memory and writes its whole namespace on  *)
(* every change, one namespace at a time.  The executions and the context  *)
(* are written within the call that changes them, so memory and disk agree *)
(* and one variable stands for both.  The missions are written last, so    *)
(* their memory (missions) runs ahead of their disk (saved) during a       *)
(* handler, while the vault is awaited, and after a handler that throws.   *)
(*                                                                         *)
(* Node runs a handler to its next await; the only await of a reconcile    *)
(* pass that waits for anything is on the vault.  So other handlers run    *)
(* only between passes or during that await (Interruptible), while a crash *)
(* may fall between any two writes.  A handler with one write is one       *)
(* action; the pass is cut at its writes; a handler that writes several    *)
(* times in a row has an Interrupted twin that dies on the way.            *)
(***************************************************************************)
EXTENDS ExecutionStatuses, Integers, FiniteSets, Sequences

CONSTANTS
  MaxMissions,    \* bound: missions ever created
  PlanLength,     \* tasks of a plan
  MissionTypes,   \* plans create() can choose
  Dependencies,   \* for each task, the tasks it waits for
  Runtimes,       \* for each task, the runtime of its persona
  Sensitive,      \* for each mission type, the tasks that need approval
  AttemptBudgets, \* the maxTotalAttempts callers ask for
  Conversations,  \* whether a mission's conversation exists: FALSE, TRUE
  MaxAttempts,    \* maxAttempts of every task (2)
  Moves,          \* statuses that others than the authority give executions
  MaxCrashes,     \* bound: times the process dies
  Rooms           \* how many of the missions' executions a snapshot may hold,
                  \* the rest of its 500 being those of other requests

Missions == 1 .. MaxMissions
Tasks == 1 .. PlanLength
None == 0

ASSUME BoundsAssumption ==
  /\ MaxMissions \in Nat
  /\ PlanLength \in Nat \ {0}
  /\ MaxAttempts \in Nat \ {0}
  /\ MaxCrashes \in Nat

(* Both plans are chains: each task waits at least for the one before it.  *)
ASSUME PlanAssumption ==
  /\ Dependencies \in [Tasks -> SUBSET Tasks]
  /\ \A t \in Tasks : \A d \in Dependencies[t] : d < t
  /\ \A t \in Tasks \ {1} : t - 1 \in Dependencies[t]
  /\ MissionTypes # {}
  /\ Sensitive \in [MissionTypes -> SUBSET Tasks]
  /\ \A type \in MissionTypes : \E t \in Tasks : Sensitive[type] \subseteq {t}

(* create() refuses a budget that does not cover every planned task.       *)
ASSUME BudgetAssumption ==
  AttemptBudgets \subseteq Nat /\ \A b \in AttemptBudgets : b >= PlanLength

ASSUME EnvironmentAssumption ==
  /\ Conversations \subseteq BOOLEAN
  /\ Moves \subseteq Statuses
  /\ Rooms \subseteq Nat

VARIABLES
  missions,  \* the missions in memory
  saved,     \* the missions namespace of the database
  execs,     \* the execution store: what each execution is for, its status
  artifacts, \* the artifacts ever added to the context fabric, in order
  handoffs,  \* the handoffs of the context fabric
  overdue,   \* missions that used up maxRuntimeMs since they started
  queue,     \* missions the current reconcile pass has not finished
  pc,        \* where the pass is: "idle", "settle", "approve" or "vault"
  changed,   \* the pass has changed its current mission
  crashes,   \* how often the process died
  forgotten  \* the executions up to this one are not in the store any more

vars == <<missions, saved, execs, artifacts, handoffs, overdue, queue, pc,
          changed, crashes, forgotten>>

stores == <<execs, artifacts, handoffs>>
pass == <<queue, pc, changed>>

-----------------------------------------------------------------------------
NewTask(sensitive) ==
  [status |-> "pending", approval |-> IF sensitive THEN "pending" ELSE "not-required",
   attempts |-> 0, exec |-> None, artifact |-> None]

NewMission(type, budget, talks) ==
  [status |-> "awaiting-approval", type |-> type, approved |-> FALSE, max |-> budget, used |-> 0,
   tasks |-> [t \in Tasks |-> NewTask(t \in Sensitive[type])],
   report |-> None, projected |-> FALSE, talks |-> talks]

NoMission ==
  [status |-> "absent", type |-> CHOOSE type \in MissionTypes : TRUE,
   approved |-> FALSE, max |-> 0, used |-> 0,
   tasks |-> [t \in Tasks |-> NewTask(FALSE)],
   report |-> None, projected |-> FALSE, talks |-> TRUE]

TerminalMissionStates == {"completed", "failed", "cancelled"}

Interruptible == pc \in {"idle", "vault"}

Smallest(t, ts) == t \in ts /\ \A u \in ts : t <= u

(* The pass works through its missions in the order of their creation.     *)
Current(m) == Smallest(m, queue)

ExecStatus(m, t) == execs[missions[m].tasks[t].exec].status

HasTaskIn(m, t, statuses) ==
  missions[m].tasks[t].exec # None /\ missions[m].tasks[t].status \in statuses

(* The task names an execution that the store does not know any more:      *)
(* executions.get and transition throw.                                    *)
Lost(m, t) == missions[m].tasks[t].exec \in 1 .. forgotten

(* Running tasks that the first loop of reconcileMission does not pass     *)
(* over: their execution has ended or is lost.  The code filters its list  *)
(* once; here a task leaves the set when it is settled, and none joins it, *)
(* because no execution moves during the loop.                             *)
Due(m) ==
  {t \in Tasks : HasTaskIn(m, t, {"running"}) /\ (Lost(m, t) \/ ExecStatus(m, t) \in Finished)}

(* Mutant: a dependency that has started is good enough.                   *)
ReadyEarly(m) ==
  {t \in Tasks :
     /\ missions[m].tasks[t].status = "pending"
     /\ \A d \in Dependencies[t] : missions[m].tasks[d].status # "pending"
     /\ missions[m].tasks[t].approval # "pending"}

Ready(m) ==
  {t \in Tasks :
     /\ missions[m].tasks[t].status = "pending"
     /\ \A d \in Dependencies[t] : missions[m].tasks[d].status = "completed"
     /\ missions[m].tasks[t].approval # "pending"}

AllCompleted(m) == \A t \in Tasks : missions[m].tasks[t].status = "completed"

(* Executions es with those of the tasks ts of mission m cancelled, where  *)
(* they are still live.                                                    *)
StopWork(m, ts) ==
  LET stopped == {missions[m].tasks[t].exec : t \in ts}
  IN  [i \in DOMAIN execs |->
         IF i \in stopped /\ execs[i].status \in Live
           THEN [execs[i] EXCEPT !.status = "cancelled"]
           ELSE execs[i]]

SetTasks(m, ts, status) ==
  [t \in Tasks |-> IF t \in ts THEN [missions[m].tasks[t] EXCEPT !.status = status]
                               ELSE missions[m].tasks[t]]

(* #changed: the missions in memory, all of them, go to disk.              *)
Save == saved' = missions'

-----------------------------------------------------------------------------
Init ==
  /\ missions = [m \in Missions |-> NoMission]
  /\ saved = missions
  /\ execs = <<>>
  /\ artifacts = <<>>
  /\ handoffs = {}
  /\ overdue = {}
  /\ queue = {}
  /\ pc = "idle"
  /\ changed = FALSE
  /\ crashes = 0
  /\ forgotten = 0

(* create: the mission is in memory before appendMessage can refuse its    *)
(* conversation, and is on disk only after.                                *)
Create(m, type, budget, talks) ==
  /\ Interruptible
  /\ Smallest(m, {n \in Missions : missions[n].status = "absent"})
  /\ missions' = [missions EXCEPT ![m] = NewMission(type, budget, talks)]
  /\ IF talks THEN Save ELSE UNCHANGED saved
  /\ UNCHANGED <<stores, overdue, pass, crashes, forgotten>>

(* approve: a plan has at most one sensitive task, so a request for some   *)
(* of them, or for none in particular, is a request for all.               *)
Approve(m) ==
  /\ Interruptible
  /\ missions[m].status = "awaiting-approval"
  /\ missions' = [missions EXCEPT
       ![m].tasks = [t \in Tasks |-> IF t \in Sensitive[missions[m].type]
                                       THEN [@[t] EXCEPT !.approval = "approved"]
                                       ELSE @[t]],
       ![m].approved = TRUE,
       ![m].status = "approved"]
  /\ Save
  /\ UNCHANGED <<stores, overdue, pass, crashes, forgotten>>

(* approve, given a reason that is no string: trim throws when the tasks   *)
(* are approved in memory, and the mission is not.                         *)
ApproveThrows(m) ==
  /\ Interruptible
  /\ missions[m].status = "awaiting-approval"
  /\ missions' = [missions EXCEPT
       ![m].tasks = [t \in Tasks |-> IF t \in Sensitive[missions[m].type]
                                       THEN [@[t] EXCEPT !.approval = "approved"]
                                       ELSE @[t]]]
  /\ UNCHANGED <<saved, stores, overdue, pass, crashes, forgotten>>

(* Mutant: start does not ask for the approval of the plan.                *)
StartUnapproved(m) ==
  /\ Interruptible
  /\ missions[m].status \in {"awaiting-approval", "approved"}
  /\ missions' = [missions EXCEPT ![m].status = "running"]
  /\ Save
  /\ UNCHANGED <<stores, overdue, pass, crashes, forgotten>>

Start(m) ==
  /\ Interruptible
  /\ missions[m].status = "approved"
  /\ missions' = [missions EXCEPT ![m].status = "running"]
  /\ Save
  /\ UNCHANGED <<stores, overdue, pass, crashes, forgotten>>

Cancellable(m) == missions[m].status \notin TerminalMissionStates \cup {"absent"}

(* Mutant: only the tasks that wait are stopped.                           *)
CancelWaitingTargets(m) == {t \in Tasks : HasTaskIn(m, t, {"pending"})}

CancelTargets(m) == {t \in Tasks : HasTaskIn(m, t, {"running", "pending"})}

(* Mutant: a status outside the declared ones.                             *)
CancelMisspelt(m) ==
  /\ Interruptible
  /\ Cancellable(m)
  /\ missions' = [missions EXCEPT ![m].status = "canceled"]
  /\ Save
  /\ UNCHANGED <<stores, overdue, pass, crashes, forgotten>>

(* A plan is a chain, so that there is one task to stop at most; if its    *)
(* execution is lost, nothing is done and the caller gets an exception.    *)
Stoppable(m) == \A t \in CancelTargets(m) : ~Lost(m, t)

Cancel(m) ==
  /\ Interruptible
  /\ Cancellable(m) /\ Stoppable(m)
  /\ execs' = StopWork(m, CancelTargets(m))
  /\ missions' = [missions EXCEPT
       ![m].tasks = SetTasks(m, CancelTargets(m), "cancelled"),
       ![m].status = "cancelled"]
  /\ Save
  /\ UNCHANGED <<artifacts, handoffs, overdue, pass, crashes, forgotten>>

(* Mutant: any task that ended without a result can be retried.            *)
RetryEndedTask(m, t) ==
  /\ Interruptible
  /\ missions[m].tasks[t].status \in {"failed", "cancelled"}
  /\ missions[m].used < missions[m].max
  /\ missions' = [missions EXCEPT
       ![m].tasks[t] = [@ EXCEPT !.status = "pending", !.exec = None],
       ![m].status = "running"]
  /\ Save
  /\ UNCHANGED <<stores, overdue, pass, crashes, forgotten>>

(* retryTask: a failed task, whatever its mission has become.              *)
RetryTask(m, t) ==
  /\ Interruptible
  /\ missions[m].tasks[t].status = "failed"
  /\ missions[m].used < missions[m].max
  /\ missions' = [missions EXCEPT
       ![m].tasks[t] = [@ EXCEPT !.status = "pending", !.exec = None],
       ![m].status = "running"]
  /\ Save
  /\ UNCHANGED <<stores, overdue, pass, crashes, forgotten>>

(* The clock: mission m has run for longer than maxRuntimeMs.              *)
Expire(m) ==
  /\ Interruptible
  /\ missions[m].status \notin {"absent", "awaiting-approval", "approved"}
  /\ overdue' = overdue \cup {m}
  /\ UNCHANGED <<missions, saved, stores, pass, crashes, forgotten>>

(* Everyone else who moves an execution: the dispatcher (to running,       *)
(* completed, failed) and the transitions route (to any status).           *)
MoveExecution(i, to) ==
  /\ Interruptible
  /\ i > forgotten
  /\ to \in Transitions[execs[i].status]
  /\ execs' = [execs EXCEPT ![i].status = to]
  /\ UNCHANGED <<missions, saved, artifacts, handoffs, overdue, pass, crashes, forgotten>>

-----------------------------------------------------------------------------
(* tick and reconcile: one pass at a time, over the missions that run at   *)
(* its start; a mission may have been cancelled when its turn comes.       *)
BeginPass ==
  /\ pc = "idle"
  /\ queue' = {m \in Missions : missions[m].status = "running"}
  /\ pc' = IF queue' = {} THEN "idle" ELSE "settle"
  /\ UNCHANGED <<missions, saved, stores, overdue, changed, crashes, forgotten>>

NextMission(m) ==
  /\ queue' = queue \ {m}
  /\ pc' = IF queue' = {} THEN "idle" ELSE "settle"
  /\ changed' = FALSE


(* An exception leaves reconcile, and nothing saves what it changed.       *)
AbortPass == queue' = {} /\ pc' = "idle" /\ changed' = FALSE

(* The runtime budget comes first, and does not ask whether the mission    *)
(* still runs.                                                             *)
OutOfTime(m) == pc = "settle" /\ Current(m) /\ m \in overdue

TimeOut(m) ==
  /\ OutOfTime(m) /\ Stoppable(m)
  /\ LET targets == {t \in Tasks : HasTaskIn(m, t, {"running"})}
     IN  /\ execs' = StopWork(m, targets)
         /\ missions' = [missions EXCEPT
              ![m].tasks = SetTasks(m, targets, "cancelled"),
              ![m].status = "failed"]
  /\ Save
  /\ NextMission(m)
  /\ UNCHANGED <<artifacts, handoffs, overdue, crashes, forgotten>>

(* The first loop settles the tasks whose execution has ended, in plan     *)
(* order.                                                                  *)
Settling(m, t) ==
  /\ pc = "settle" /\ Current(m) /\ m \notin overdue
  /\ Smallest(t, Due(m)) /\ ~Lost(m, t)

(* EXECUTION_NOT_FOUND, for the time out or for the first loop: the pass   *)
(* ends here, and so does every later one that gets as far.                *)
ExecutionNotFound(m) ==
  /\ pc = "settle" /\ Current(m)
  /\ \/ m \in overdue /\ ~Stoppable(m)
     \/ m \notin overdue /\ \E t \in Tasks : Smallest(t, Due(m)) /\ Lost(m, t)
  /\ AbortPass
  /\ UNCHANGED <<missions, saved, stores, overdue, crashes, forgotten>>

(* Handoffs of a completed task: to each dependent on another runtime.     *)
Receivers(t) == {u \in Tasks : t \in Dependencies[u] /\ Runtimes[u] # Runtimes[t]}

Handoffs(a, us, status) == {[artifact |-> a, to |-> u, status |-> status] : u \in us}

Evidence(m, t) ==
  Append(artifacts, [mission |-> m, task |-> t, exec |-> missions[m].tasks[t].exec])

(* Mutant: the task keeps the artifact that was newest before its own.     *)
CompleteTaskStaleArtifact(m, t) ==
  /\ Settling(m, t)
  /\ ExecStatus(m, t) = "completed"
  /\ artifacts' = Evidence(m, t)
  /\ handoffs' = handoffs \cup Handoffs(Len(artifacts'), Receivers(t), "accepted")
  /\ missions' = [missions EXCEPT
       ![m].tasks[t] = [@ EXCEPT !.status = "completed", !.artifact = Len(artifacts)]]
  /\ changed' = TRUE
  /\ UNCHANGED <<saved, execs, overdue, queue, pc, crashes, forgotten>>

(* Mutant: the handoffs are created and never resolved.                    *)
CompleteTaskUnresolved(m, t) ==
  /\ Settling(m, t)
  /\ ExecStatus(m, t) = "completed"
  /\ artifacts' = Evidence(m, t)
  /\ handoffs' = handoffs \cup Handoffs(Len(artifacts'), Receivers(t), "pending")
  /\ missions' = [missions EXCEPT
       ![m].tasks[t] = [@ EXCEPT !.status = "completed", !.artifact = Len(artifacts')]]
  /\ changed' = TRUE
  /\ UNCHANGED <<saved, execs, overdue, queue, pc, crashes, forgotten>>

(* #completeTask: its evidence, then each handoff created and accepted.    *)
CompleteTask(m, t) ==
  /\ Settling(m, t)
  /\ ExecStatus(m, t) = "completed"
  /\ artifacts' = Evidence(m, t)
  /\ handoffs' = handoffs \cup Handoffs(Len(artifacts'), Receivers(t), "accepted")
  /\ missions' = [missions EXCEPT
       ![m].tasks[t] = [@ EXCEPT !.status = "completed", !.artifact = Len(artifacts')]]
  /\ changed' = TRUE
  /\ UNCHANGED <<saved, execs, overdue, queue, pc, crashes, forgotten>>

(* A failed execution is retried while both budgets last, ...              *)
MayRetry(m, t) ==
  /\ missions[m].tasks[t].attempts < MaxAttempts
  /\ missions[m].used < missions[m].max

ScheduleRetry(m, t) ==
  /\ Settling(m, t)
  /\ ExecStatus(m, t) = "failed"
  /\ MayRetry(m, t)
  /\ missions' = [missions EXCEPT
       ![m].tasks[t] = [@ EXCEPT !.status = "pending", !.exec = None]]
  /\ changed' = TRUE
  /\ UNCHANGED <<saved, stores, overdue, queue, pc, crashes, forgotten>>

(* ... and otherwise the task and its mission end: failed, or cancelled    *)
(* when somebody cancelled the execution.                                  *)
EndTask(m, t) ==
  /\ Settling(m, t)
  /\ \/ ExecStatus(m, t) = "failed" /\ ~MayRetry(m, t)
     \/ ExecStatus(m, t) = "cancelled"
  /\ missions' = [missions EXCEPT
       ![m].tasks[t] = [@ EXCEPT !.status = ExecStatus(m, t)],
       ![m].status = ExecStatus(m, t)]
  /\ changed' = TRUE
  /\ UNCHANGED <<saved, stores, overdue, queue, pc, crashes, forgotten>>

(* The second loop runs only for a mission that still runs.                *)
Settled(m) == pc = "settle" /\ Current(m) /\ m \notin overdue /\ Due(m) = {}

Dispatching(m, t) ==
  /\ Settled(m)
  /\ missions[m].status = "running"
  /\ Smallest(t, Ready(m))

ProposeExecution(m, t) ==
  /\ Dispatching(m, t)
  /\ missions[m].used < missions[m].max
  /\ execs' = Append(execs, [mission |-> m, task |-> t, status |-> "proposed"])
  /\ pc' = "approve"
  /\ UNCHANGED <<missions, saved, artifacts, handoffs, overdue, queue, changed, crashes, forgotten>>

(* Mutant: the dispatch is not charged to the mission.                     *)
ApproveUncharged(m, t) ==
  /\ pc = "approve" /\ Current(m)
  /\ t = execs[Len(execs)].task
  /\ execs' = [execs EXCEPT ![Len(execs)].status = "approved"]
  /\ missions' = [missions EXCEPT
       ![m].tasks[t] = [@ EXCEPT !.status = "running", !.exec = Len(execs), !.attempts = @ + 1]]
  /\ pc' = "settle"
  /\ changed' = TRUE
  /\ UNCHANGED <<saved, artifacts, handoffs, overdue, queue, crashes, forgotten>>

ApproveExecution(m, t) ==
  /\ pc = "approve" /\ Current(m)
  /\ t = execs[Len(execs)].task
  /\ execs' = [execs EXCEPT ![Len(execs)].status = "approved"]
  /\ missions' = [missions EXCEPT
       ![m].tasks[t] = [@ EXCEPT !.status = "running", !.exec = Len(execs), !.attempts = @ + 1],
       ![m].used = @ + 1]
  /\ pc' = "settle"
  /\ changed' = TRUE
  /\ UNCHANGED <<saved, artifacts, handoffs, overdue, queue, crashes, forgotten>>

(* The attempt budget is an invariant of the loop: it throws.              *)
DispatchRefused(m, t) ==
  /\ Dispatching(m, t)
  /\ missions[m].used >= missions[m].max
  /\ AbortPass
  /\ UNCHANGED <<missions, saved, stores, overdue, crashes, forgotten>>

(* #completeMission up to its await: the report is in the context, the     *)
(* mission is completed in memory.                                         *)
CompleteMission(m) ==
  /\ Settled(m)
  /\ missions[m].status = "running"
  /\ AllCompleted(m)
  /\ artifacts' = Append(artifacts, [mission |-> m, task |-> None, exec |-> None])
  /\ missions' = [missions EXCEPT
       ![m].report = Len(artifacts'),
       ![m].status = "completed"]
  /\ pc' = "vault"
  /\ UNCHANGED <<saved, execs, handoffs, overdue, queue, changed, crashes, forgotten>>

(* The vault has written its files; the message to the conversation may    *)
(* still throw.                                                            *)
VaultDone(m) ==
  /\ pc = "vault" /\ Current(m)
  /\ missions' = [missions EXCEPT ![m].projected = TRUE]
  /\ IF missions[m].talks THEN Save /\ NextMission(m)
                          ELSE UNCHANGED saved /\ AbortPass
  /\ UNCHANGED <<stores, overdue, crashes, forgotten>>

VaultFailed(m) ==
  /\ pc = "vault" /\ Current(m)
  /\ AbortPass
  /\ UNCHANGED <<missions, saved, stores, overdue, crashes, forgotten>>

(* The end of reconcileMission: #touch if anything changed.                *)
Leave(m) ==
  /\ Settled(m)
  /\ missions[m].status = "running" => Ready(m) = {} /\ ~AllCompleted(m)
  /\ IF changed THEN saved' = missions ELSE UNCHANGED saved
  /\ NextMission(m)
  /\ UNCHANGED <<missions, stores, overdue, crashes, forgotten>>

-----------------------------------------------------------------------------
(* The process dies; the next one loads the missions last saved and the    *)
(* executions of the last snapshot, the newest 500, and fails those left   *)
(* running (Dispatcher.start).  What executions it does not load were      *)
(* doing plays no part any more.                                           *)
Recovered(es) ==
  [i \in DOMAIN es |-> IF es[i].status = "running" THEN [es[i] EXCEPT !.status = "failed"]
                                                   ELSE es[i]]

Larger(a, b) == IF a > b THEN a ELSE b

DieWith(es, as, hs) ==
  /\ crashes < MaxCrashes
  /\ crashes' = crashes + 1
  /\ missions' = saved
  /\ execs' = Recovered(es)
  /\ artifacts' = as
  /\ handoffs' = hs
  /\ \E room \in Rooms : forgotten' = Larger(forgotten, Len(es) - room)
  /\ AbortPass
  /\ UNCHANGED <<saved, overdue>>

Crash == DieWith(execs, artifacts, handoffs)

(* ... while Cancel or TimeOut has cancelled executions but not saved.     *)
StopInterrupted(m) ==
  /\ (Interruptible /\ Cancellable(m)) \/ OutOfTime(m)
  /\ CancelTargets(m) # {} /\ Stoppable(m)
  /\ \E last \in CancelTargets(m) :
       DieWith(StopWork(m, {t \in CancelTargets(m) : t <= last}), artifacts, handoffs)

(* ... while CompleteTask writes its handoffs: the one to task last was    *)
(* created and not accepted, or nothing after it was created.              *)
CompleteTaskInterrupted(m, t) ==
  /\ Settling(m, t)
  /\ ExecStatus(m, t) = "completed"
  /\ \E last \in Receivers(t) :
       LET a == Len(artifacts) + 1
           earlier == Handoffs(a, {u \in Receivers(t) : u < last}, "accepted")
       IN  \/ DieWith(execs, Evidence(m, t), handoffs \cup earlier)
           \/ DieWith(execs, Evidence(m, t),
                      handoffs \cup earlier \cup Handoffs(a, {last}, "pending"))

-----------------------------------------------------------------------------
Requests ==
  \E m \in Missions :
    \/ \E type \in MissionTypes, budget \in AttemptBudgets, talks \in Conversations :
         Create(m, type, budget, talks)
    \/ Approve(m)
    \/ ApproveThrows(m)
    \/ Start(m)
    \/ Cancel(m)
    \/ \E t \in Tasks : RetryTask(m, t)

(* The steps of a pass that wait for nothing.                              *)
Reconcile ==
  \E m \in Missions :
    \/ TimeOut(m)
    \/ ExecutionNotFound(m)
    \/ \E t \in Tasks : \/ CompleteTask(m, t)
                        \/ ScheduleRetry(m, t)
                        \/ EndTask(m, t)
                        \/ ProposeExecution(m, t)
                        \/ ApproveExecution(m, t)
                        \/ DispatchRefused(m, t)
    \/ CompleteMission(m)
    \/ Leave(m)

Vault == \E m \in Missions : VaultDone(m) \/ VaultFailed(m)

Death ==
  \/ Crash
  \/ \E m \in Missions : StopInterrupted(m)
  \/ \E m \in Missions, t \in Tasks : CompleteTaskInterrupted(m, t)

Next ==
  \/ Requests
  \/ \E m \in Missions : Expire(m)
  \/ \E i \in DOMAIN execs, to \in Moves : MoveExecution(i, to)
  \/ BeginPass
  \/ Reconcile
  \/ Vault
  \/ Death

Spec == Init /\ [][Next]_vars

(* The coordinator's timer keeps firing, a pass runs to its end, the vault *)
(* answers one way or the other, and time passes; strong fairness, because *)
(* Expire waits for the end of a handler while the clock does not.         *)
(* Nothing is assumed of operators, and nothing of the dispatcher: an      *)
(* execution may stay approved or running for ever.                        *)
Fairness ==
  /\ WF_vars(BeginPass)
  /\ WF_vars(Reconcile)
  /\ WF_vars(Vault)
  /\ \A m \in Missions : SF_vars(Expire(m))

FairSpec == Spec /\ Fairness

-----------------------------------------------------------------------------
TaskStates == {"pending", "running", "completed", "failed", "cancelled"}

Task ==
  [status : TaskStates, approval : {"pending", "approved", "not-required"},
   attempts : Nat, exec : Nat, artifact : Nat]

Mission ==
  [status : TerminalMissionStates \cup {"absent", "awaiting-approval", "approved", "running"},
   type : MissionTypes, approved : BOOLEAN, max : Nat, used : Nat, tasks : [Tasks -> Task],
   report : Nat, projected : BOOLEAN, talks : BOOLEAN]

Exec == [mission : Missions, task : Tasks, status : Statuses]

Artifact == [mission : Missions, task : Tasks \cup {None}, exec : Nat]

Handoff == [artifact : Nat, to : Tasks, status : {"pending", "accepted"}]

TypeOK ==
  /\ missions \in [Missions -> Mission]
  /\ saved \in [Missions -> Mission]
  /\ execs \in Seq(Exec)
  /\ artifacts \in Seq(Artifact)
  /\ handoffs \subseteq Handoff
  /\ overdue \subseteq Missions
  /\ queue \subseteq Missions
  /\ pc \in {"idle", "settle", "approve", "vault"}
  /\ changed \in BOOLEAN
  /\ crashes \in 0 .. MaxCrashes
  /\ forgotten \in 0 .. Len(execs)

ExecsOf(m) == {i \in DOMAIN execs : execs[i].mission = m}

BetweenProposalAndRecord(m) == pc = "approve" /\ Current(m)

(* Work reaches the dispatcher only for a mission that is approved on disk *)
(* and past its start there, and for a task whose own approval, if it      *)
(* needs one, is on disk too, whatever was lost in a crash (approve,       *)
(* start, the ready filter; plan section 11: sensitive steps cannot enter  *)
(* the dispatcher without approval).                                       *)
ApprovalGate ==
  \A i \in DOMAIN execs :
    LET m == saved[execs[i].mission]
    IN  /\ m.approved
        /\ m.status \in TerminalMissionStates \cup {"running"}
        /\ m.tasks[execs[i].task].approval # "pending"

(* A task is dispatched only after an execution of each task it depends on *)
(* has completed, across failures, retries and restarts (ready filter).    *)
DependencyOrder ==
  \A i \in DOMAIN execs : \A d \in Dependencies[execs[i].task] :
    \E j \in 1 .. (i - 1) :
      /\ execs[j].mission = execs[i].mission
      /\ execs[j].task = d
      /\ execs[j].status = "completed"

(* The attempt budget bounds the executions of a mission; each crash can   *)
(* add one that was proposed but never recorded in the mission.            *)
BudgetBoundsExecutions ==
  \A m \in Missions :
    /\ missions[m].used <= missions[m].max
    /\ Cardinality(ExecsOf(m)) <=
         missions[m].used + crashes + (IF BetweenProposalAndRecord(m) THEN 1 ELSE 0)

Tracked(i) ==
  LET m == missions[execs[i].mission]
      t == m.tasks[execs[i].task]
  IN  m.status = "running" /\ t.status = "running" /\ t.exec = i

Untracked == {i \in DOMAIN execs : execs[i].status \in Live /\ ~Tracked(i)}

(* When a mission ends (result, cancellation, time out) none of its work   *)
(* stays live: an execution the dispatcher may still run is the current    *)
(* one of a running task, except one orphan for each crash.                *)
NoUntrackedWork == Cardinality(Untracked) <= crashes + (IF pc = "approve" THEN 1 ELSE 0)

(* What the database says is completed has had its evidence written to the *)
(* context, from the execution that completed it: for tasks, and for the   *)
(* report of a mission (#completeTask, #completeMission), after any crash. *)
(* A rollback of the context can take it away again; rollbacks are not     *)
(* part of this module.                                                    *)
EvidenceBacked ==
  \A m \in Missions :
    /\ \A t \in Tasks : saved[m].tasks[t].status = "completed" =>
         /\ saved[m].tasks[t].artifact \in DOMAIN artifacts
         /\ artifacts[saved[m].tasks[t].artifact] =
              [mission |-> m, task |-> t, exec |-> saved[m].tasks[t].exec]
         /\ execs[saved[m].tasks[t].exec] =
              [mission |-> m, task |-> t, status |-> "completed"]
    /\ saved[m].status = "completed" =>
         /\ \A t \in Tasks : saved[m].tasks[t].status = "completed"
         /\ saved[m].report \in DOMAIN artifacts
         /\ artifacts[saved[m].report] = [mission |-> m, task |-> None, exec |-> None]

(* Each task leaves one piece of evidence and each mission one report, and *)
(* every handoff is accepted; a crash can repeat one and leave one handoff *)
(* pending (the context is written before the missions).                   *)
EvidenceRepeatsOnlyByCrash ==
  /\ \A m \in Missions, t \in Tasks \cup {None} :
       Cardinality({a \in DOMAIN artifacts : artifacts[a].mission = m /\ artifacts[a].task = t})
         <= 1 + crashes
  /\ Cardinality({h \in handoffs : h.status = "pending"}) <= crashes

(* What the missions namespace shows of a mission.                         *)
Record(mission) ==
  [life |-> IF /\ mission.status = "failed"
               /\ \A t \in Tasks : mission.tasks[t].status # "failed"
              THEN "expired" ELSE mission.status,
   evidence |-> [t \in Tasks |-> IF mission.tasks[t].status = "completed"
                                   THEN mission.tasks[t].artifact ELSE None],
   charged |-> mission.used,
   budget |-> mission.max]

(* On disk every mission leads the life of MissionLifecycle, whatever      *)
(* passes, requests and crashes come in between: nothing runs that was not *)
(* seen approved, evidence is added in the order of the plan and never     *)
(* replaced, charges stay within the budget, and what has ended stays      *)
(* ended, but for the retry of a failed task (approve to retryTask).       *)
Lifecycle == INSTANCE MissionLifecycle WITH record <- [m \in Missions |-> Record(saved[m])]
LifecycleSpec == Lifecycle!Spec

(* On disk a completed mission stays completed, and a cancelled one never  *)
(* runs again: no stale pass and no retry revives it.                      *)
FinalStatesHold ==
  [][\A m \in Missions :
       /\ saved[m].status = "completed" => saved'[m].status = "completed"
       /\ saved[m].status = "cancelled" => saved'[m].status # "running"]_vars

(* Every pass throws at mission m, or at an earlier one, for an execution  *)
(* that no longer exists.                                                  *)
Stranded(m) ==
  \E n \in 1 .. m, t \in Tasks :
    missions[n].status = "running" /\ HasTaskIn(n, t, {"running"}) /\ Lost(n, t)


(* A cancelled mission is terminal (TERMINAL_MISSION_STATES, cancel).      *)
CancelledStays ==
  [][\A m \in Missions :
       saved[m].status = "cancelled" => saved'[m].status = "cancelled"]_vars
=============================================================================
