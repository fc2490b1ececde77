--------------------------- MODULE RuntimeProcess ---------------------------
(***************************************************************************)
(* The local runs of the runtime executor (runProcess in                   *)
(* packages/runtime/src/runtime-executor.js): a child process, its output, *)
(* a timer that kills it, and the one promise they race to settle.  The    *)
(* dispatcher awaits that promise before it calls execute again.           *)
(*                                                                         *)
(* A child may heed SIGTERM or ignore it, exit with any code at any time,  *)
(* write for ever, or leave descendants that keep its pipes open.  Only    *)
(* SIGKILL is certain, and it reaches the child alone.                     *)
(***************************************************************************)
EXTENDS Naturals

CONSTANTS
  MaxCalls,    \* bound: calls of execute
  OutputLimit  \* chunks of output a run may write (1 MiB)

ASSUME MaxCallsAssumption    == MaxCalls \in Nat
ASSUME OutputLimitAssumption == OutputLimit \in Nat

Calls == 1 .. MaxCalls

VARIABLES
  child,    \* the process of a call; "doomed" once SIGKILL was sent,
            \* "closed" once Node has emitted close
  code,     \* how it exited: "zero", or "other" for a code or a signal
  heir,     \* whether a descendant holds the child's pipes
  bytes,    \* outputBytes, counted up to the chunk that exceeds the limit
  timer,    \* "armed" for timeoutMs, then "killing" for the second between
            \* the two signals, then "spent"; "off" once close has cleared it
  promise   \* what execute returned: "none", "pending", or how it settled

vars == <<child, code, heir, bytes, timer, promise>>

Errors == {"RUNTIME_OUTPUT_LIMIT", "RUNTIME_START_FAILED", "RUNTIME_TIMEOUT",
           "RUNTIME_FAILED", "REFUSED"}

Pending(c) == promise[c] = "pending"
Settled(c) == promise[c] \notin {"none", "pending"}

(* timedOut is set by the first firing of the timer and never cleared.     *)
TimedOut(c) == timer[c] \in {"killing", "spent"}

(* resolvePromise and reject: only the first of them counts.               *)
SettleAs(c, outcome) ==
  promise' = [promise EXCEPT ![c] = IF Pending(c) THEN outcome ELSE @]

(* The call the dispatcher makes next, with every earlier one settled.     *)
NextCall(c) ==
  /\ promise[c] = "none"
  /\ \A d \in Calls : d < c => Settled(d)

-----------------------------------------------------------------------------
Init ==
  /\ child   = [c \in Calls |-> "none"]
  /\ code    = [c \in Calls |-> "none"]
  /\ heir    = [c \in Calls |-> FALSE]
  /\ bytes   = [c \in Calls |-> 0]
  /\ timer   = [c \in Calls |-> "off"]
  /\ promise = [c \in Calls |-> "none"]

(* execute throws before any process exists: mode, assignment, adapter or  *)
(* directory are refused.                                                  *)
Refuse(c) ==
  /\ NextCall(c)
  /\ promise' = [promise EXCEPT ![c] = "REFUSED"]
  /\ UNCHANGED <<child, code, heir, bytes, timer>>

(* The child starts, its handlers and its timer are installed.             *)
Spawn(c) ==
  /\ NextCall(c)
  /\ child' = [child EXCEPT ![c] = "alive"]
  /\ timer' = [timer EXCEPT ![c] = "armed"]
  /\ promise' = [promise EXCEPT ![c] = "pending"]
  /\ UNCHANGED <<code, heir, bytes>>

(* No child could be started: the error event rejects, close is to follow. *)
SpawnFails(c) ==
  /\ NextCall(c)
  /\ child' = [child EXCEPT ![c] = "exited"]
  /\ code' = [code EXCEPT ![c] = "other"]
  /\ timer' = [timer EXCEPT ![c] = "armed"]
  /\ promise' = [promise EXCEPT ![c] = "RUNTIME_START_FAILED"]
  /\ UNCHANGED <<heir, bytes>>

(* Mutant: the run is rejected and its timer cleared with it.              *)
OutputDisarms(c) ==
  /\ child[c] \in {"alive", "doomed", "exited"}
  /\ bytes[c] <= OutputLimit
  /\ bytes' = [bytes EXCEPT ![c] = @ + 1]
  /\ IF bytes'[c] > OutputLimit
       THEN /\ SettleAs(c, "RUNTIME_OUTPUT_LIMIT")
            /\ timer' = [timer EXCEPT ![c] = "off"]
       ELSE UNCHANGED <<promise, timer>>
  /\ UNCHANGED <<child, code, heir>>

(* collect: a chunk arrives, from the child, from a descendant or from     *)
(* what a dead child left in the pipe.  The one that exceeds the limit     *)
(* rejects; it and the later ones send SIGTERM and are not kept.           *)
Output(c) ==
  /\ child[c] \in {"alive", "doomed", "exited"}
  /\ bytes[c] <= OutputLimit
  /\ bytes' = [bytes EXCEPT ![c] = @ + 1]
  /\ IF bytes'[c] > OutputLimit
       THEN SettleAs(c, "RUNTIME_OUTPUT_LIMIT")
       ELSE UNCHANGED promise
  /\ UNCHANGED <<child, code, heir, timer>>

(* The child leaves a descendant that inherits its pipes ...               *)
Fork(c) ==
  /\ child[c] = "alive"
  /\ heir' = [heir EXCEPT ![c] = TRUE]
  /\ UNCHANGED <<child, code, bytes, timer, promise>>

(* ... which may end some day.                                             *)
Release(c) ==
  /\ heir[c]
  /\ heir' = [heir EXCEPT ![c] = FALSE]
  /\ UNCHANGED <<child, code, bytes, timer, promise>>

(* The child ends of itself or by SIGTERM ...                              *)
Exit(c, how) ==
  /\ child[c] = "alive"
  /\ child' = [child EXCEPT ![c] = "exited"]
  /\ code' = [code EXCEPT ![c] = how]
  /\ UNCHANGED <<heir, bytes, timer, promise>>

(* ... or by SIGKILL.                                                      *)
Die(c) ==
  /\ child[c] = "doomed"
  /\ child' = [child EXCEPT ![c] = "exited"]
  /\ code' = [code EXCEPT ![c] = "other"]
  /\ UNCHANGED <<heir, bytes, timer, promise>>

(* Mutant: close looks at the exit code alone.                             *)
CloseByCode(c) ==
  /\ child[c] = "exited" /\ ~heir[c]
  /\ child' = [child EXCEPT ![c] = "closed"]
  /\ timer' = [timer EXCEPT ![c] = IF @ = "armed" THEN "off" ELSE @]
  /\ SettleAs(c, IF code[c] = "other" THEN "RUNTIME_FAILED" ELSE "resolved")
  /\ UNCHANGED <<code, heir, bytes>>

(* close: the child has ended and nobody holds its pipes.                  *)
Close(c) ==
  /\ child[c] = "exited" /\ ~heir[c]
  /\ child' = [child EXCEPT ![c] = "closed"]
  /\ timer' = [timer EXCEPT ![c] = IF @ = "armed" THEN "off" ELSE @]
  /\ SettleAs(c, IF TimedOut(c) THEN "RUNTIME_TIMEOUT"
                 ELSE IF code[c] = "other" THEN "RUNTIME_FAILED"
                 ELSE "resolved")
  /\ UNCHANGED <<code, heir, bytes>>

(* Mutant: SIGTERM is the only signal a timeout sends.                     *)
TimeOutMildly(c) ==
  /\ timer[c] = "armed"
  /\ timer' = [timer EXCEPT ![c] = "spent"]
  /\ UNCHANGED <<child, code, heir, bytes, promise>>

(* The timer fires: SIGTERM, and SIGKILL a second later.                   *)
TimeOut(c) ==
  /\ timer[c] = "armed"
  /\ timer' = [timer EXCEPT ![c] = "killing"]
  /\ UNCHANGED <<child, code, heir, bytes, promise>>

(* Mutant: no SIGKILL for a run whose promise is settled already.          *)
KillPending(c) ==
  /\ timer[c] = "killing"
  /\ timer' = [timer EXCEPT ![c] = "spent"]
  /\ child' = [child EXCEPT ![c] = IF @ = "alive" /\ Pending(c) THEN "doomed" ELSE @]
  /\ UNCHANGED <<code, heir, bytes, promise>>

(* SIGKILL, whatever became of the promise; nothing to a dead child.       *)
Kill(c) ==
  /\ timer[c] = "killing"
  /\ timer' = [timer EXCEPT ![c] = "spent"]
  /\ child' = [child EXCEPT ![c] = IF @ = "alive" THEN "doomed" ELSE @]
  /\ UNCHANGED <<code, heir, bytes, promise>>

CallStep(c) ==
  \/ Refuse(c)
  \/ Spawn(c)
  \/ SpawnFails(c)
  \/ Output(c)
  \/ Fork(c)
  \/ Release(c)
  \/ \E how \in {"zero", "other"} : Exit(c, how)
  \/ Die(c)
  \/ Close(c)
  \/ TimeOut(c)
  \/ Kill(c)

Next == \E c \in Calls : CallStep(c)

Spec == Init /\ [][Next]_vars

(* The timers fire, a killed process ends, and Node emits close when the   *)
(* process has ended and its pipes are closed.  A child owes nothing: it   *)
(* need not exit, heed SIGTERM, or take its descendants with it.           *)
Fairness ==
  \A c \in Calls :
    /\ WF_vars(TimeOut(c))
    /\ WF_vars(Kill(c))
    /\ WF_vars(Die(c))
    /\ WF_vars(Close(c))

FairSpec == Spec /\ Fairness

-----------------------------------------------------------------------------
TypeOK ==
  /\ child \in [Calls -> {"none", "alive", "doomed", "exited", "closed"}]
  /\ code \in [Calls -> {"none", "zero", "other"}]
  /\ heir \in [Calls -> BOOLEAN]
  /\ bytes \in [Calls -> 0 .. OutputLimit + 1]
  /\ timer \in [Calls -> {"off", "armed", "killing", "spent"}]
  /\ promise \in [Calls -> Errors \cup {"none", "pending", "resolved"}]

(* A run that counts as a success exited with code 0, in time, with its    *)
(* pipes closed and all of its output kept (runProcess: collect, close).   *)
SuccessIsWhole ==
  \A c \in Calls : promise[c] = "resolved" =>
    /\ child[c] = "closed" /\ code[c] = "zero"
    /\ bytes[c] <= OutputLimit
    /\ ~TimedOut(c)

(* A child that lives is on its way to SIGKILL, even when its promise is   *)
(* settled: a run rejected for its output keeps its timer (collect rejects,*)
(* only close clears the timer).                                           *)
LivingIsTimed ==
  \A c \in Calls : child[c] = "alive" => timer[c] \in {"armed", "killing"}

(* Every child ends, whether its promise was settled before or not, and    *)
(* whatever it does with SIGTERM (the timer and its second signal).        *)
ChildEnds ==
  \A c \in Calls : (child[c] = "alive") ~> (child[c] \in {"exited", "closed"})

(* The promise the dispatcher awaits is settled, unless a descendant of    *)
(* the child holds the pipes: then it may wait for ever (close).           *)
PromiseSettles ==
  \A c \in Calls : Pending(c) ~> (Settled(c) \/ heir[c])
=============================================================================
