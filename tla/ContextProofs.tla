--------------------------- MODULE ContextProofs ---------------------------
(***************************************************************************)
(* ContextFabric for every set of workspaces and canonical ids and every   *)
(* bound: its types, the evidence of handoffs, the uniqueness of ids in a  *)
(* workspace and the boundary between workspaces.                          *)
(***************************************************************************)
EXTENDS ContextFabric, TLAPS

(* Case analysis on a step, as every proof below needs it.                 *)
LEMMA Steps ==
  ASSUME [Next]_vars
  PROVE  \/ \E ok \in BOOLEAN, ws \in Workspaces, c \in Givable, version \in 1 .. MaxVersion :
              CreateArtifact(ws, c, version, ok)
         \/ \E ok \in BOOLEAN, ws \in Workspaces, c \in Givable : UpdateArtifact(ws, c, ok)
         \/ \E ok \in BOOLEAN, ws \in Workspaces, evidence \in SUBSET References :
              CreateHandoff(ws, evidence, ok)
         \/ \E ok \in BOOLEAN, h \in handoffs, status \in {"accepted", "rejected"} :
              ResolveHandoff(h, status, ok)
         \/ \E ok \in BOOLEAN, ws \in Workspaces : CreateCheckpoint(ws, ok)
         \/ \E ok \in BOOLEAN, c \in checkpoints : Rollback(c, ok)
         \/ Restart
         \/ UNCHANGED vars
  BY MaximaAssumption DEF Next, Request, ImportMarkdown

(* After a step the disk holds what the memory holds, or what it held.     *)
LEMMA Saving ==
  ASSUME [Next]_vars
  PROVE  \/ disk' = disk
         \/ disk' = [artifacts |-> artifacts', handoffs |-> handoffs', checkpoints |-> checkpoints']
  BY Steps DEF CreateArtifact, UpdateArtifact, CreateHandoff, ResolveHandoff, CreateCheckpoint,
               Rollback, Changed, Restart, vars

-----------------------------------------------------------------------------
(* Every list holds only well-formed items, also after a rollback.         *)
LEMMA TypeInit == Init => TypeOK
  BY MaximaAssumption DEF Init, TypeOK

(* What the lists of the memory hold.                                      *)
Lists == artifacts \subseteq Artifact /\ handoffs \subseteq Handoff /\ checkpoints \subseteq Checkpoint

LEMMA TypeStep == TypeOK /\ [Next]_vars => TypeOK'
  <1> SUFFICES ASSUME TypeOK, [Next]_vars PROVE TypeOK' OBVIOUS
  <1> USE MaximaAssumption
  <1> DEFINE Counts == /\ minted \in 0 .. MaxArtifacts
                       /\ offered \in 0 .. MaxHandoffs
                       /\ failures \in 0 .. MaxFailures
                       /\ acted \subseteq Workspaces
  <1>0. ASSUME NEW ws \in Workspaces, NEW ok \in BOOLEAN, Changed(ws, ok)
        PROVE  failures' \in 0 .. MaxFailures /\ acted' \subseteq Workspaces
    BY <1>0 DEF Changed, TypeOK
  <1>1. ASSUME NEW ok \in BOOLEAN, NEW ws \in Workspaces, NEW c \in Givable,
               NEW version \in 1 .. MaxVersion, CreateArtifact(ws, c, version, ok)
        PROVE  Lists' /\ Counts'
    <2>1. minted + 1 \in 1 .. MaxArtifacts BY <1>1 DEF CreateArtifact, TypeOK
    <2>2. c \in References BY DEF Givable, References, TypeOK
    <2>3. [id |-> minted + 1, canon |-> c, ws |-> ws, version |-> version] \in Artifact
      BY <2>1, <2>2 DEF Artifact
    <2>4. artifacts' \subseteq Artifact BY <1>1, <2>3 DEF CreateArtifact, TypeOK
    <2>5. QED BY <1>0, <1>1, <2>1, <2>4 DEF CreateArtifact, Lists, TypeOK
  <1>2. ASSUME NEW ok \in BOOLEAN, NEW ws \in Workspaces, NEW c \in Givable,
               UpdateArtifact(ws, c, ok)
        PROVE  Lists' /\ Counts'
    <2>1. PICK a \in artifacts :
            /\ a.version < MaxVersion
            /\ artifacts' = NextVersion(a)
            /\ UNCHANGED <<handoffs, checkpoints, minted, offered>>
            /\ Changed(ws, ok)
      BY <1>2 DEF UpdateArtifact
    <2>2. [a EXCEPT !.version = @ + 1] \in Artifact
      BY <2>1 DEF TypeOK, Artifact
    <2>3. QED BY <1>0, <2>1, <2>2 DEF NextVersion, Lists, TypeOK
  <1>3. ASSUME NEW ok \in BOOLEAN, NEW ws \in Workspaces, NEW evidence \in SUBSET References,
               CreateHandoff(ws, evidence, ok)
        PROVE  Lists' /\ Counts'
    <2>1. offered + 1 \in 1 .. MaxHandoffs BY <1>3 DEF CreateHandoff, TypeOK
    <2>2. [id |-> offered + 1, ws |-> ws, evidence |-> evidence, status |-> "pending"] \in Handoff
      BY <2>1 DEF Handoff
    <2>3. handoffs' \subseteq Handoff BY <1>3, <2>2 DEF CreateHandoff, TypeOK
    <2>4. QED BY <1>0, <1>3, <2>1, <2>3 DEF CreateHandoff, Lists, TypeOK
  <1>4. ASSUME NEW ok \in BOOLEAN, NEW h \in handoffs, NEW status \in {"accepted", "rejected"},
               ResolveHandoff(h, status, ok)
        PROVE  Lists' /\ Counts'
    <2>1. [h EXCEPT !.status = status] \in Handoff /\ h.ws \in Workspaces
      BY DEF TypeOK, Handoff
    <2>2. QED BY <1>0, <1>4, <2>1 DEF ResolveHandoff, Lists, TypeOK
  <1>5. ASSUME NEW ok \in BOOLEAN, NEW ws \in Workspaces, CreateCheckpoint(ws, ok)
        PROVE  Lists' /\ Counts'
    <2>1. [ws |-> ws, artifacts |-> Of(ws, artifacts), handoffs |-> Of(ws, handoffs)]
            \in Checkpoint
      BY DEF Checkpoint, Of, TypeOK
    <2>2. QED BY <1>0, <1>5, <2>1 DEF CreateCheckpoint, Lists, TypeOK
  <1>6. ASSUME NEW ok \in BOOLEAN, NEW c \in checkpoints, Rollback(c, ok)
        PROVE  Lists' /\ Counts'
    <2>1. /\ c.ws \in Workspaces
          /\ c.artifacts \subseteq Artifact
          /\ c.handoffs \subseteq Handoff
      BY DEF TypeOK, Checkpoint
    <2>2. QED BY <1>0, <1>6, <2>1 DEF Rollback, Restore, Lists, TypeOK
  <1>7. ASSUME Restart
        PROVE  Lists' /\ Counts'
    BY <1>7 DEF Restart, Lists, TypeOK
  <1>8. ASSUME UNCHANGED vars
        PROVE  Lists' /\ Counts'
    BY <1>8 DEF vars, Lists, TypeOK
  <1>9. Lists' /\ Counts'
    BY <1>1, <1>2, <1>3, <1>4, <1>5, <1>6, <1>7, <1>8, Steps
  <1>10. disk' \in [artifacts : SUBSET Artifact, handoffs : SUBSET Handoff,
                    checkpoints : SUBSET Checkpoint]
    BY <1>9, Saving DEF Lists, TypeOK
  <1>11. QED BY <1>9, <1>10 DEF Lists, TypeOK

THEOREM TypeCorrect == Spec => []TypeOK
  BY TypeInit, TypeStep, PTL DEF Spec

-----------------------------------------------------------------------------
(* A checkpoint holds the items of its own workspace and no others, and    *)
(* with each handoff the evidence it cites.                                *)
Homely(c) == (\A a \in c.artifacts : a.ws = c.ws) /\ (\A h \in c.handoffs : h.ws = c.ws)

Sound(as, hs, cs) ==
  /\ Cited(hs, as)
  /\ \A c \in cs : Homely(c) /\ Cited(c.handoffs, c.artifacts)

(* Handoffs, and those a checkpoint kept, have their evidence, in memory   *)
(* and on disk.                                                            *)
EvidenceInv ==
  /\ TypeOK
  /\ Sound(artifacts, handoffs, checkpoints)
  /\ Sound(disk.artifacts, disk.handoffs, disk.checkpoints)

LEMMA EvidenceInit == Init => EvidenceInv
  BY TypeInit DEF Init, EvidenceInv, Sound, Cited

LEMMA EvidenceStep == EvidenceInv /\ [Next]_vars => EvidenceInv'
  <1> SUFFICES ASSUME EvidenceInv, [Next]_vars PROVE EvidenceInv' OBVIOUS
  <1>0. TypeOK' BY TypeStep DEF EvidenceInv
  <1> DEFINE Memory == Sound(artifacts, handoffs, checkpoints)
  <1>1. ASSUME NEW ok \in BOOLEAN, NEW ws \in Workspaces, NEW c \in Givable,
               NEW version \in 1 .. MaxVersion, CreateArtifact(ws, c, version, ok)
        PROVE  Memory'
    BY <1>1 DEF CreateArtifact, EvidenceInv, Sound, Cited
  <1>2. ASSUME NEW ok \in BOOLEAN, NEW ws \in Workspaces, NEW c \in Givable,
               UpdateArtifact(ws, c, ok)
        PROVE  Memory'
    <2>1. PICK a \in artifacts :
            artifacts' = NextVersion(a) /\ UNCHANGED <<handoffs, checkpoints>>
      BY <1>2 DEF UpdateArtifact
    <2> DEFINE b == [a EXCEPT !.version = @ + 1]
    <2>2. b.id = a.id /\ b.canon = a.canon /\ b.ws = a.ws
      BY DEF EvidenceInv, TypeOK, Artifact
    <2>3. ASSUME NEW h \in handoffs, NEW ref \in h.evidence
          PROVE  \E x \in artifacts' : ref \in Names(x) /\ x.ws = h.ws
      <3>1. PICK x \in artifacts : ref \in Names(x) /\ x.ws = h.ws
        BY <2>3 DEF EvidenceInv, Sound, Cited
      <3>2. CASE x = a
        <4>1. b \in artifacts' BY <2>1 DEF NextVersion
        <4>2. ref \in Names(b) /\ b.ws = h.ws BY <2>2, <3>1, <3>2 DEF Names
        <4>3. QED BY <4>1, <4>2
      <3>3. CASE x # a
        BY <2>1, <3>1, <3>3 DEF NextVersion
      <3>4. QED BY <3>2, <3>3
    <2>4. QED BY <2>1, <2>3 DEF EvidenceInv, Sound, Cited
  <1>3. ASSUME NEW ok \in BOOLEAN, NEW ws \in Workspaces, NEW evidence \in SUBSET References,
               CreateHandoff(ws, evidence, ok)
        PROVE  Memory'
    BY <1>3 DEF CreateHandoff, Available, EvidenceInv, Sound, Cited
  <1>4. ASSUME NEW ok \in BOOLEAN, NEW h \in handoffs, NEW status \in {"accepted", "rejected"},
               ResolveHandoff(h, status, ok)
        PROVE  Memory'
    <2> DEFINE g == [h EXCEPT !.status = status]
    <2>1. g.ws = h.ws /\ g.evidence = h.evidence
      BY DEF EvidenceInv, TypeOK, Handoff
    <2>2. ASSUME NEW x \in handoffs', NEW ref \in x.evidence
          PROVE  \E a \in artifacts : ref \in Names(a) /\ a.ws = x.ws
      <3>1. \E y \in handoffs : y.ws = x.ws /\ ref \in y.evidence
        BY <1>4, <2>1, <2>2 DEF ResolveHandoff
      <3>2. QED BY <3>1 DEF EvidenceInv, Sound, Cited
    <2>3. artifacts' = artifacts /\ checkpoints' = checkpoints BY <1>4 DEF ResolveHandoff
    <2>4. QED BY <2>2, <2>3 DEF EvidenceInv, Sound, Cited
  <1>5. ASSUME NEW ok \in BOOLEAN, NEW ws \in Workspaces, CreateCheckpoint(ws, ok)
        PROVE  Memory'
    <2> DEFINE k == [ws |-> ws, artifacts |-> Of(ws, artifacts), handoffs |-> Of(ws, handoffs)]
    <2>1. Cited(k.handoffs, k.artifacts)
      BY DEF EvidenceInv, Sound, Cited, Of
    <2>2. Homely(k) BY DEF Homely, Of
    <2>3. checkpoints' = checkpoints \cup {k} /\ UNCHANGED <<artifacts, handoffs>>
      BY <1>5 DEF CreateCheckpoint
    <2> HIDE DEF k
    <2>4. QED BY <2>1, <2>2, <2>3 DEF EvidenceInv, Sound
  <1>6. ASSUME NEW ok \in BOOLEAN, NEW c \in checkpoints, Rollback(c, ok)
        PROVE  Memory'
    <2>1. ASSUME NEW h \in handoffs', NEW ref \in h.evidence
          PROVE  \E a \in artifacts' : ref \in Names(a) /\ a.ws = h.ws
      <3>1. CASE h \in c.handoffs
        BY <1>6, <2>1, <3>1 DEF Rollback, Restore, EvidenceInv, Sound, Cited
      <3>2. CASE h \in handoffs /\ h.ws # c.ws
        BY <1>6, <2>1, <3>2 DEF Rollback, Restore, Of, EvidenceInv, Sound, Cited
      <3>3. QED BY <1>6, <3>1, <3>2 DEF Rollback, Restore, Of
    <2>2. checkpoints' = checkpoints BY <1>6 DEF Rollback
    <2>3. QED BY <2>1, <2>2 DEF EvidenceInv, Sound, Cited
  <1>7. ASSUME Restart
        PROVE  Memory'
    BY <1>7 DEF Restart, EvidenceInv
  <1>8. ASSUME UNCHANGED vars
        PROVE  Memory'
    BY <1>8 DEF vars, EvidenceInv
  <1>9. Memory'
    BY <1>1, <1>2, <1>3, <1>4, <1>5, <1>6, <1>7, <1>8, Steps
  <1>10. Sound(disk.artifacts, disk.handoffs, disk.checkpoints)'
    BY <1>9, Saving DEF EvidenceInv
  <1>11. QED BY <1>0, <1>9, <1>10 DEF EvidenceInv

(* No history of requests, failures, rollbacks and restarts leaves a       *)
(* handoff without the artifacts it cites (createHandoff, rollback).       *)
THEOREM EvidenceHolds == Spec => []EvidenceAvailable
  <1>1. EvidenceInv => EvidenceAvailable BY DEF EvidenceInv, Sound, EvidenceAvailable
  <1>2. QED BY <1>1, EvidenceInit, EvidenceStep, PTL DEF Spec

-----------------------------------------------------------------------------
(* Ids are unique in a workspace and in what a checkpoint kept of it,      *)
(* because no id was given out twice and createArtifact knows every        *)
(* canonical id.                                                           *)
Distinct(as, cs) ==
  /\ UniqueIds(as)
  /\ \A a \in as : a.id <= minted
  /\ \A c \in cs : UniqueIds(c.artifacts) /\ \A a \in c.artifacts : a.id <= minted

IdsInv ==
  /\ EvidenceInv
  /\ Distinct(artifacts, checkpoints)
  /\ Distinct(disk.artifacts, disk.checkpoints)

LEMMA IdsInit == Init => IdsInv
  BY EvidenceInit DEF Init, IdsInv, Distinct, UniqueIds

LEMMA IdsStep == IdsInv /\ [Next]_vars => IdsInv'
  <1> SUFFICES ASSUME IdsInv, [Next]_vars PROVE IdsInv' OBVIOUS
  <1>0. EvidenceInv' BY EvidenceStep DEF IdsInv
  <1> DEFINE Memory == Distinct(artifacts, checkpoints)
             Disk == Distinct(disk.artifacts, disk.checkpoints)
  <1>1. ASSUME NEW ok \in BOOLEAN, NEW ws \in Workspaces, NEW c \in Givable,
               NEW version \in 1 .. MaxVersion, CreateArtifact(ws, c, version, ok)
        PROVE  Memory'
    <2> DEFINE new == [id |-> minted + 1, canon |-> c, ws |-> ws, version |-> version]
    <2>1. /\ artifacts' = artifacts \cup {new} /\ minted' = minted + 1
          /\ checkpoints' = checkpoints
          /\ \A a \in artifacts : a.canon # c
      BY <1>1 DEF CreateArtifact
    <2>2. minted \in Nat /\ \A a \in artifacts : a.id \in Nat /\ a.id <= minted
      BY DEF IdsInv, Distinct, EvidenceInv, TypeOK, Artifact
    <2>3. \A a \in artifacts : a.id # new.id /\ a.canon # new.canon
      BY <2>1, <2>2
    <2>4. UniqueIds(artifacts')
      BY <2>1, <2>3 DEF IdsInv, Distinct, UniqueIds
    <2>5. \A a \in artifacts' : a.id <= minted'
      BY <2>1, <2>2
    <2>6. \A k \in checkpoints' : \A a \in k.artifacts : a.id <= minted'
      BY <2>1, <2>2 DEF IdsInv, Distinct, EvidenceInv, TypeOK, Checkpoint, Artifact
    <2>7. QED BY <2>1, <2>4, <2>5, <2>6 DEF IdsInv, Distinct
  <1>2. ASSUME NEW ok \in BOOLEAN, NEW ws \in Workspaces, NEW c \in Givable,
               UpdateArtifact(ws, c, ok)
        PROVE  Memory'
    <2>1. PICK a \in artifacts :
            artifacts' = NextVersion(a) /\ UNCHANGED <<checkpoints, minted>>
      BY <1>2 DEF UpdateArtifact
    <2> DEFINE b == [a EXCEPT !.version = @ + 1]
    <2>2. b.id = a.id /\ b.canon = a.canon /\ b.ws = a.ws
      BY DEF IdsInv, EvidenceInv, TypeOK, Artifact
    <2>3. artifacts' = (artifacts \ {a}) \cup {b} BY <2>1 DEF NextVersion
    <2>4. \A x \in artifacts \ {a} : x.ws = a.ws => x.id # a.id /\ x.canon # a.canon
      BY DEF IdsInv, Distinct, UniqueIds
    <2>5. \A x, y \in artifacts \ {a} : x.ws = y.ws /\ (x.id = y.id \/ x.canon = y.canon) => x = y
      BY DEF IdsInv, Distinct, UniqueIds
    <2>6. UniqueIds(artifacts')
      <3> HIDE DEF b
      <3> QED BY <2>2, <2>3, <2>4, <2>5 DEF UniqueIds
    <2>7. \A x \in artifacts' : x.id <= minted'
      BY <2>1, <2>2, <2>3 DEF IdsInv, Distinct
    <2>8. QED BY <2>1, <2>6, <2>7 DEF IdsInv, Distinct
  <1>3. ASSUME NEW ok \in BOOLEAN, NEW ws \in Workspaces, CreateCheckpoint(ws, ok)
        PROVE  Memory'
    <2>1. UniqueIds(Of(ws, artifacts))
      BY DEF IdsInv, Distinct, UniqueIds, Of
    <2>2. \A a \in Of(ws, artifacts) : a.id <= minted
      BY DEF IdsInv, Distinct, Of
    <2>3. QED BY <1>3, <2>1, <2>2 DEF CreateCheckpoint, IdsInv, Distinct
  <1>4. ASSUME NEW ok \in BOOLEAN, NEW c \in checkpoints, Rollback(c, ok)
        PROVE  Memory'
    <2>1. /\ artifacts' = (artifacts \ Of(c.ws, artifacts)) \cup c.artifacts
          /\ UNCHANGED <<checkpoints, minted>>
      BY <1>4 DEF Rollback, Restore
    <2>2. UniqueIds(artifacts')
      <3>1. \A a \in artifacts \ Of(c.ws, artifacts) : a.ws # c.ws
        BY DEF Of
      <3>2. \A a \in c.artifacts : a.ws = c.ws
        BY DEF IdsInv, EvidenceInv, Sound, Homely
      <3>3. UniqueIds(c.artifacts) /\ UniqueIds(artifacts)
        BY DEF IdsInv, Distinct
      <3>4. QED BY <2>1, <3>1, <3>2, <3>3 DEF UniqueIds
    <2>3. QED BY <2>1, <2>2 DEF IdsInv, Distinct
  <1>5. ASSUME UNCHANGED <<artifacts, checkpoints, minted>>
        PROVE  Memory'
    BY <1>5 DEF IdsInv, Distinct
  <1>6. ASSUME Restart
        PROVE  Memory'
    BY <1>6 DEF Restart, IdsInv, Distinct
  <1>7. ASSUME \E ok \in BOOLEAN, ws \in Workspaces, evidence \in SUBSET References :
               CreateHandoff(ws, evidence, ok)
        PROVE  Memory'
    <2>1. UNCHANGED <<artifacts, checkpoints, minted>> BY <1>7 DEF CreateHandoff
    <2>2. QED BY <1>5, <2>1
  <1>8. ASSUME \E ok \in BOOLEAN, h \in handoffs, status \in {"accepted", "rejected"} :
               ResolveHandoff(h, status, ok)
        PROVE  Memory'
    <2>1. UNCHANGED <<artifacts, checkpoints, minted>> BY <1>8 DEF ResolveHandoff
    <2>2. QED BY <1>5, <2>1
  <1>9. ASSUME UNCHANGED vars
        PROVE  Memory'
    <2>1. UNCHANGED <<artifacts, checkpoints, minted>> BY <1>9 DEF vars
    <2>2. QED BY <1>5, <2>1
  <1>10. Memory'
    BY <1>1, <1>2, <1>3, <1>4, <1>6, <1>7, <1>8, <1>9, Steps
  <1>11. minted \in Nat /\ (minted' = minted \/ minted' = minted + 1)
    BY Steps DEF CreateArtifact, UpdateArtifact, CreateHandoff, ResolveHandoff, CreateCheckpoint,
                 Rollback, Restart, vars, IdsInv, EvidenceInv, TypeOK
  <1>12. ASSUME disk' = disk
         PROVE  Disk'
    <2>1. /\ \A a \in disk.artifacts : a.id <= minted'
          /\ \A k \in disk.checkpoints : \A a \in k.artifacts : a.id <= minted'
      BY <1>11 DEF IdsInv, Distinct, EvidenceInv, TypeOK, Checkpoint, Artifact
    <2>2. QED BY <1>12, <2>1 DEF IdsInv, Distinct
  <1>13. Disk'
    BY <1>10, <1>12, Saving
  <1>14. QED BY <1>0, <1>10, <1>13 DEF IdsInv

(* In a workspace an id, and a canonical id, is always that of one         *)
(* artifact (createArtifact, upsertArtifact, rollback).                    *)
THEOREM IdsUnique == Spec => []IdsUniqueInWorkspace
  <1>1. IdsInv => IdsUniqueInWorkspace BY DEF IdsInv, Distinct, IdsUniqueInWorkspace
  <1>2. QED BY <1>1, IdsInit, IdsStep, PTL DEF Spec

-----------------------------------------------------------------------------
LEMMA BoundaryStep ==
  ASSUME EvidenceInv, [Next]_vars
  PROVE  [\A ws \in Workspaces \ acted' :
            Of(ws, artifacts') = Of(ws, artifacts) /\ Of(ws, handoffs') = Of(ws, handoffs)]_vars
  <1> SUFFICES ASSUME NEW ws \in Workspaces \ acted', vars' # vars
               PROVE  /\ Of(ws, artifacts') = Of(ws, artifacts)
                      /\ Of(ws, handoffs') = Of(ws, handoffs)
    OBVIOUS
  <1> DEFINE Same == Of(ws, artifacts') = Of(ws, artifacts) /\ Of(ws, handoffs') = Of(ws, handoffs)
  <1>1. ASSUME NEW ok \in BOOLEAN, NEW v \in Workspaces, NEW c \in Givable,
               NEW version \in 1 .. MaxVersion, CreateArtifact(v, c, version, ok)
        PROVE  Same
    BY <1>1 DEF CreateArtifact, Changed, Of
  <1>2. ASSUME NEW ok \in BOOLEAN, NEW v \in Workspaces, NEW c \in Givable,
               UpdateArtifact(v, c, ok)
        PROVE  Same
    <2>1. PICK a \in artifacts : a.ws = v /\ artifacts' = NextVersion(a)
      BY <1>2 DEF UpdateArtifact
    <2>2. acted' = {v} /\ handoffs' = handoffs BY <1>2 DEF UpdateArtifact, Changed
    <2>3. [a EXCEPT !.version = @ + 1].ws = v BY <2>1 DEF EvidenceInv, TypeOK, Artifact
    <2>4. QED BY <2>1, <2>2, <2>3 DEF NextVersion, Of
  <1>3. ASSUME NEW ok \in BOOLEAN, NEW v \in Workspaces, NEW evidence \in SUBSET References,
               CreateHandoff(v, evidence, ok)
        PROVE  Same
    BY <1>3 DEF CreateHandoff, Changed, Of
  <1>4. ASSUME NEW ok \in BOOLEAN, NEW h \in handoffs, NEW status \in {"accepted", "rejected"},
               ResolveHandoff(h, status, ok)
        PROVE  Same
    <2>1. [h EXCEPT !.status = status].ws = h.ws BY DEF EvidenceInv, TypeOK, Handoff
    <2>2. QED BY <1>4, <2>1 DEF ResolveHandoff, Changed, Of
  <1>5. ASSUME NEW ok \in BOOLEAN, NEW v \in Workspaces, CreateCheckpoint(v, ok)
        PROVE  Same
    BY <1>5 DEF CreateCheckpoint
  <1>6. ASSUME NEW ok \in BOOLEAN, NEW c \in checkpoints, Rollback(c, ok)
        PROVE  Same
    BY <1>6 DEF Rollback, Changed, Restore, EvidenceInv, Sound, Homely, Of
  <1>7. ASSUME Restart
        PROVE  Same
    BY <1>7 DEF Restart
  <1>8. QED BY <1>1, <1>2, <1>3, <1>4, <1>5, <1>6, <1>7, Steps

(* No request touches a workspace other than the one it was authorised for *)
(* (upsertArtifact, resolveHandoff, rollback).                             *)
THEOREM BoundaryHolds == Spec => WorkspaceBoundary
  BY EvidenceInit, EvidenceStep, BoundaryStep, PTL DEF Spec, WorkspaceBoundary
=============================================================================
