---------------------------- MODULE MissionPlans ----------------------------
(***************************************************************************)
(* The two fixed plans of packages/mission/src/mission-authority.js.  They *)
(* have the same shape: four tasks, numbered here in plan order            *)
(* (analyze, implement, review, verify; scope, research, challenge,        *)
(* report), and differ only in which task needs an approval of its own.    *)
(***************************************************************************)
EXTENDS Integers

PlanDependencies == <<{}, {1}, {2}, {2, 3}>>

PlanRuntimes == <<"hermes", "codex", "opencode", "hermes">>

PlanSensitive == [repository |-> {2}, research |-> {}]

(* The first n tasks of the plans: every dependency is an earlier task.    *)
DependenciesUpTo(n) == [t \in 1 .. n |-> PlanDependencies[t]]
RuntimesUpTo(n) == [t \in 1 .. n |-> PlanRuntimes[t]]
SensitiveUpTo(n, types) == [type \in types |-> PlanSensitive[type] \cap (1 .. n)]
=============================================================================
