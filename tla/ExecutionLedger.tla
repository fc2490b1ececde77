-------------------------- MODULE ExecutionLedger --------------------------
(***************************************************************************)
(* What ExecutionStore promises to everyone who reads it, whoever writes:  *)
(* an execution appears once, as a proposal, and from then on its status   *)
(* moves only along TRANSITIONS.  A change whose write throws is seen by   *)
(* readers and in doubt; so is an execution that Capacity newer ones have  *)
(* displaced.  The next write that succeeds settles all other doubts, and  *)
(* a restart resolves each of them one way or the other; an id that is     *)
(* lost does not come back.  There is no process and no disk here;         *)
(* Dispatcher.tla shows that they do not show through.                     *)
(***************************************************************************)
EXTENDS ExecutionStatuses, Integers, FiniteSets

CONSTANTS
  Executions, \* a set of numbers; a newer execution has a greater one
  Capacity    \* how many executions a restart is sure to find

VARIABLES
  status,   \* what readers see
  doubtful, \* executions a restart may take back, or take back to an earlier status
  created   \* how many executions were ever proposed

Init ==
  /\ status = [e \in Executions |-> "absent"]
  /\ doubtful = {}
  /\ created = 0

(* The executions that are known, and too old to be kept.                  *)
Displaced(st) ==
  {e \in Executions :
     /\ st[e] # "absent"
     /\ Cardinality({f \in Executions : st[f] # "absent" /\ f > e}) >= Capacity}

Change(e, to, ok) ==
  /\ status' = [status EXCEPT ![e] = to]
  /\ doubtful' = IF ok THEN Displaced(status') ELSE doubtful \cup {e}

Propose(e, ok) ==
  /\ e = created + 1
  /\ created' = e
  /\ status[e] = "absent"
  /\ Change(e, "proposed", ok)

Transition(e, to, ok) ==
  /\ to \in Transitions[status[e]]
  /\ Change(e, to, ok)
  /\ UNCHANGED created

(* What is not in doubt stays; the rest falls back to an earlier status.   *)
Restart ==
  /\ status' \in [Executions -> Statuses \cup {"absent"}]
  /\ \A e \in Executions :
       IF e \in doubtful THEN status'[e] \in Earlier[status[e]] ELSE status'[e] = status[e]
  /\ doubtful' = {}
  /\ UNCHANGED created

Next ==
  \/ \E e \in Executions, ok \in BOOLEAN :
       Propose(e, ok) \/ \E to \in Statuses : Transition(e, to, ok)
  \/ Restart

Spec == Init /\ [][Next]_<<status, doubtful, created>>
=============================================================================
