----------------------------- MODULE Dispatcher -----------------------------
(***************************************************************************)
(* The execution store, its durable image and the dispatcher that runs     *)
(* approved executions (packages/runtime/src/dispatcher.js), in a process  *)
(* that may die at any point and start again on the same database.         *)
(*                                                                         *)
(* Node runs a handler to its next await without interruption.  The only   *)
(* await of the dispatcher is on the runtime executor, so every other      *)
(* handler finds it either idle or with one execution in flight            *)
(* (Interruptible).  A crash has no such manners: it may fall between any  *)
(* two writes, so an action here makes at most one durable write.          *)
(*                                                                         *)
(* A write may also throw (the database is locked by a checkpoint, or the  *)
(* disk is full).  The store has changed its memory by then, and keeps the *)
(* change; the next write that succeeds takes it along.                    *)
(***************************************************************************)
EXTENDS ExecutionStatuses, Integers, FiniteSets

CONSTANTS
  MaxExecutions, \* bound: executions ever proposed
  BatchLimit,    \* how many approved executions one tick lists (100)
  SnapshotLimit, \* how many executions the store writes to disk (500)
  MaxCrashes,    \* bound: times the process dies
  MaxFailures    \* bound: writes that throw

ASSUME MaxExecutionsAssumption == MaxExecutions \in Nat
ASSUME BatchLimitAssumption    == BatchLimit \in Nat \ {0}
ASSUME SnapshotLimitAssumption == SnapshotLimit \in Nat \ {0}
ASSUME MaxCrashesAssumption    == MaxCrashes \in Nat
ASSUME MaxFailuresAssumption   == MaxFailures \in Nat

(* Executions are numbered in the order propose() created them, which is   *)
(* the order of createdAt; 0 is no execution.                              *)
Executions == 1 .. MaxExecutions
None == 0

VARIABLES
  status,   \* the store's map: status of each execution, "absent" if unknown
  stored,   \* the same, in the executions namespace of the database
  created,  \* how many executions were ever proposed
  phase,    \* "starting" while Dispatcher.start recovers, then "up"
  batch,    \* executions the running tick still has to claim
  inflight, \* the execution whose executor call is awaited, or None
  runs,     \* history: how often the executor was called for each execution
  crashes,  \* how often the process died
  failures  \* how many writes have thrown

vars == <<status, stored, created, phase, batch, inflight, runs, crashes, failures>>

-----------------------------------------------------------------------------
(* ExecutionStore.list: the limit newest members of a set of executions.   *)
Newest(es, limit) == {e \in es : Cardinality({f \in es : f > e}) < limit}

WithStatus(s) == {e \in Executions : status[e] = s}

(* ExecutionStore.snapshot: what a change leaves on disk.                  *)
Image(st) ==
  LET kept == Newest({e \in Executions : st[e] # "absent"}, SnapshotLimit)
  IN  [e \in Executions |-> IF e \in kept THEN st[e] ELSE "absent"]

(* The store changes one status, and then writes its snapshot or throws.   *)
SetStatus(e, to, ok) ==
  /\ ok \/ failures < MaxFailures
  /\ status' = [status EXCEPT ![e] = to]
  /\ stored' = IF ok THEN Image(status') ELSE stored
  /\ failures' = IF ok THEN failures ELSE failures + 1

(* ExecutionStore.transition: refused unless TRANSITIONS allows it.        *)
Move(e, to, ok) ==
  /\ to \in Transitions[status[e]]
  /\ SetStatus(e, to, ok)

(* The dispatcher is between ticks, or waits for the executor.             *)
Interruptible == phase = "up" /\ (batch = {} \/ inflight # None)

-----------------------------------------------------------------------------
Init ==
  /\ status = [e \in Executions |-> "absent"]
  /\ stored = [e \in Executions |-> "absent"]
  /\ created = 0
  /\ phase = "starting"
  /\ batch = {}
  /\ inflight = None
  /\ runs = [e \in Executions |-> 0]
  /\ crashes = 0
  /\ failures = 0

(* Any caller of propose(): the planner route or the mission authority.    *)
Propose(ok) ==
  /\ Interruptible
  /\ created < MaxExecutions
  /\ created' = created + 1
  /\ SetStatus(created + 1, "proposed", ok)
  /\ UNCHANGED <<phase, batch, inflight, runs, crashes>>

(* Any caller of transition() other than the dispatcher: the transitions   *)
(* route, which takes every status, or the mission authority.              *)
OperatorMove(e, to, ok) ==
  /\ Interruptible
  /\ Move(e, to, ok)
  /\ UNCHANGED <<created, phase, batch, inflight, runs, crashes>>

(* tick: not while busy; remembers the approved executions of this moment. *)
Tick ==
  /\ phase = "up"
  /\ batch = {} /\ inflight = None
  /\ batch' = Newest(WithStatus("approved"), BatchLimit)
  /\ UNCHANGED <<status, stored, created, phase, inflight, runs, crashes, failures>>

(* The listing is newest first.                                            *)
NextInBatch(e) == e \in batch /\ \A f \in batch : f <= e

(* #run up to its await: the claim is on disk before the executor starts.  *)
Claim(e) ==
  /\ inflight = None
  /\ NextInBatch(e)
  /\ Move(e, "running", TRUE)
  /\ batch' = batch \ {e}
  /\ inflight' = e
  /\ runs' = [runs EXCEPT ![e] = @ + 1]
  /\ UNCHANGED <<created, phase, crashes>>

(* The write of the claim throws: tick gives up its batch, and the         *)
(* execution is running in memory, on nobody's hands, until an operator or *)
(* a restart moves it.                                                     *)
ClaimFails(e) ==
  /\ inflight = None
  /\ NextInBatch(e)
  /\ Move(e, "running", FALSE)
  /\ batch' = {}
  /\ UNCHANGED <<created, phase, inflight, runs, crashes>>

(* Mutant: without the finally of tick, a refused claim leaves it busy.    *)
ClaimRefusedStuck(e) ==
  /\ inflight = None
  /\ NextInBatch(e)
  /\ "running" \notin Transitions[status[e]]
  /\ UNCHANGED vars

(* The listing was stale: the claim throws and tick gives up its batch.    *)
ClaimRefused(e) ==
  /\ inflight = None
  /\ NextInBatch(e)
  /\ "running" \notin Transitions[status[e]]
  /\ batch' = {}
  /\ UNCHANGED <<status, stored, created, phase, inflight, runs, crashes, failures>>

(* Mutant: the result is written whatever became of the execution.         *)
SettleBlindly(outcome, ok) ==
  /\ inflight # None
  /\ SetStatus(inflight, outcome, ok)
  /\ inflight' = None
  /\ UNCHANGED <<created, phase, batch, runs, crashes>>

(* #run after its await: the result counts only if nobody ended the        *)
(* execution meanwhile.  A write that throws is swallowed for a completed  *)
(* run, which is no longer running when it is caught, and ends the tick    *)
(* for a failed one.                                                       *)
Settle(outcome, ok) ==
  /\ inflight # None
  /\ IF status[inflight] = "running"
       THEN Move(inflight, outcome, ok)
       ELSE ok /\ UNCHANGED <<status, stored, failures>>
  /\ inflight' = None
  /\ batch' = IF ok \/ outcome = "completed" THEN batch ELSE {}
  /\ UNCHANGED <<created, phase, runs, crashes>>

(* The process dies; the next one loads the image the last write left.     *)
Crash ==
  /\ crashes < MaxCrashes
  /\ crashes' = crashes + 1
  /\ status' = stored
  /\ phase' = "starting"
  /\ batch' = {}
  /\ inflight' = None
  /\ UNCHANGED <<stored, created, runs, failures>>

(* Mutant: interrupted executions are queued again.                        *)
RecoverByRequeue(e) ==
  /\ phase = "starting"
  /\ status[e] = "running"
  /\ SetStatus(e, "approved", TRUE)
  /\ UNCHANGED <<created, phase, batch, inflight, runs, crashes>>

(* start: executions a dead process left running fail, one write each (a   *)
(* write that throws here ends the process, which is a crash) ...          *)
Recover(e) ==
  /\ phase = "starting"
  /\ status[e] = "running"
  /\ Move(e, "failed", TRUE)
  /\ UNCHANGED <<created, phase, batch, inflight, runs, crashes>>

(* Mutant: the timer starts without the recovery.                          *)
StartTimerAtOnce ==
  /\ phase = "starting"
  /\ phase' = "up"
  /\ UNCHANGED <<status, stored, created, batch, inflight, runs, crashes, failures>>

(* ... and only then do ticks and requests begin.                          *)
StartTimer ==
  /\ phase = "starting"
  /\ WithStatus("running") = {}
  /\ phase' = "up"
  /\ UNCHANGED <<status, stored, created, batch, inflight, runs, crashes, failures>>

Next ==
  \/ \E ok \in BOOLEAN :
       \/ Propose(ok)
       \/ \E e \in Executions, to \in Statuses : OperatorMove(e, to, ok)
       \/ \E outcome \in {"completed", "failed"} : Settle(outcome, ok)
  \/ Tick
  \/ \E e \in Executions : Claim(e) \/ ClaimFails(e) \/ ClaimRefused(e)
  \/ Crash
  \/ \E e \in Executions : Recover(e)
  \/ StartTimer

Spec == Init /\ [][Next]_vars

(* The timer keeps firing, a started process finishes start(), the loop    *)
(* goes on after an await, and the executor settles its promise.  Nobody   *)
(* owes a proposal, a transition by hand or a crash.                       *)
Fairness ==
  /\ WF_vars(\E e \in Executions : Recover(e))
  /\ WF_vars(StartTimer)
  /\ WF_vars(Tick)
  /\ WF_vars(\E e \in Executions : Claim(e) \/ ClaimFails(e) \/ ClaimRefused(e))
  /\ WF_vars(\E outcome \in {"completed", "failed"}, ok \in BOOLEAN : Settle(outcome, ok))

FairSpec == Spec /\ Fairness

-----------------------------------------------------------------------------
TypeOK ==
  /\ status \in [Executions -> Statuses \cup {"absent"}]
  /\ stored \in [Executions -> Statuses \cup {"absent"}]
  /\ created \in 0 .. MaxExecutions
  /\ phase \in {"starting", "up"}
  /\ batch \subseteq Executions
  /\ inflight \in Executions \cup {None}
  /\ runs \in [Executions -> Nat]
  /\ crashes \in 0 .. MaxCrashes
  /\ failures \in 0 .. MaxFailures

(* No execution is handed to a runtime twice, whatever restarts and        *)
(* operators do between the claim and the result, and whatever writes fail *)
(* (#run claims durably before it executes; start() fails what was         *)
(* running, never re-queues).                                              *)
StartedAtMostOnce == \A e \in Executions : runs[e] <= 1

(* Where a restart would not find what readers see.                        *)
Doubtful == {e \in Executions : stored[e] # status[e]}

(* Seen by its readers the store is the ledger: a crash, a recovery and a  *)
(* late result are invisible, except as legal transitions, and a restart   *)
(* takes back only what a write that threw has left in doubt, and drops    *)
(* only executions with SnapshotLimit newer ones (snapshot).               *)
Ledger == INSTANCE ExecutionLedger WITH doubtful <- Doubtful, Capacity <- SnapshotLimit
LedgerSpec == Ledger!Spec

(* An approved execution does not stay approved for ever: a cancelled      *)
(* member of a stale batch, or a crash, only delays the others (tick).     *)
ApprovedIsServed ==
  \A e \in Executions : (status[e] = "approved") ~> (status[e] # "approved")

(* A restart finds no trace of an execution that the snapshots of its      *)
(* newer ones no longer hold.                                              *)
Forgotten(e) == status[e] = "absent" /\ created >= e + SnapshotLimit

(* An execution the dispatcher has claimed ends, by its result, by hand or *)
(* by the recovery of a later process (#run, start), or is forgotten.      *)
ClaimedEnds ==
  \A e \in Executions : (inflight = e) ~> (status[e] \in Finished \/ Forgotten(e))
=============================================================================
