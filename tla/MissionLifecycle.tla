-------------------------- MODULE MissionLifecycle --------------------------
(***************************************************************************)
(* What the missions namespace of the database promises to whoever reads   *)
(* it between two writes: the life of each mission, with nothing of the    *)
(* executions, the pass, the stores and the crashes that bring it about.   *)
(*                                                                         *)
(* A record shows where the mission is in its life, the evidence of each   *)
(* task that is completed, and how much of the attempt budget is charged.  *)
(* A write stores all missions at once, so any number of them may take a   *)
(* step together.                                                          *)
(***************************************************************************)
EXTENDS Integers

CONSTANTS
  Missions,
  Tasks,
  Dependencies \* for each task, the tasks it waits for

VARIABLE record

None == 0

Done(r) == {t \in Tasks : r.evidence[t] # None}

NoRecord == [life |-> "absent", evidence |-> [t \in Tasks |-> None], charged |-> 0, budget |-> 0]

Init == record = [m \in Missions |-> NoRecord]

-----------------------------------------------------------------------------
(* The steps of a life, as relations between two records.                  *)
Turn(r, s, from, to) == r.life = from /\ s = [r EXCEPT !.life = to]

(* A mission is first seen when it is planned, or only when it is approved *)
(* or cancelled: its creation may have left it unsaved.                    *)
Plan(r, s) ==
  /\ r.life = "absent"
  /\ s.life \in {"awaiting-approval", "approved", "cancelled"}
  /\ Done(s) = {} /\ s.charged = 0

Approve(r, s) == Turn(r, s, "awaiting-approval", "approved")

Start(r, s) == Turn(r, s, "approved", "running")

Withdraw(r, s) ==
  Turn(r, s, "awaiting-approval", "cancelled") \/ Turn(r, s, "approved", "cancelled")

(* Work adds evidence, each piece after those it depends on, and replaces  *)
(* none; it is charged within the budget, and nothing is refunded.         *)
Progress(r, s) ==
  /\ \A t \in Done(r) : s.evidence[t] = r.evidence[t]
  /\ \A t \in Done(s) : Dependencies[t] \subseteq Done(s)
  /\ s.budget = r.budget
  /\ r.charged <= s.charged /\ s.charged <= r.budget

Work(r, s) == r.life = "running" /\ s.life = "running" /\ Progress(r, s)

(* A mission is completed with all its evidence.  It is expired when it    *)
(* fails without a failed task: its time was up.                           *)
End(r, s) ==
  /\ r.life = "running"
  /\ s.life \in {"completed", "failed", "cancelled", "expired"}
  /\ Progress(r, s)
  /\ s.life = "completed" => Done(s) = Tasks

(* The retry of a failed task revives its mission; nothing else does.      *)
Retry(r, s) == Turn(r, s, "failed", "running") /\ r.charged < r.budget

(* A pass that has listed the mission as running finds its time is up      *)
(* after somebody has cancelled it.                                        *)
ExpireLate(r, s) == Turn(r, s, "cancelled", "expired")

Step(r, s) ==
  \/ Plan(r, s) \/ Approve(r, s) \/ Start(r, s) \/ Withdraw(r, s)
  \/ Work(r, s) \/ End(r, s) \/ Retry(r, s) \/ ExpireLate(r, s)

-----------------------------------------------------------------------------
Next ==
  /\ DOMAIN record' = Missions
  /\ \A m \in Missions : record'[m] = record[m] \/ Step(record[m], record'[m])

Spec == Init /\ [][Next]_record
=============================================================================
