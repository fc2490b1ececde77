----------------------------- MODULE MCMission -----------------------------
(* MissionAuthority with the real plans, or their first PlanLength tasks.  *)
EXTENDS MissionAuthority, MissionPlans

MCDependencies == DependenciesUpTo(PlanLength)
MCRuntimes == RuntimesUpTo(PlanLength)
MCSensitive == SensitiveUpTo(PlanLength, MissionTypes)
=============================================================================
