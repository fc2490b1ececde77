--------------------------- MODULE ContextFabric ---------------------------
(***************************************************************************)
(* The context fabric (packages/context/src/context-fabric.js): artifacts, *)
(* the handoffs that cite them as evidence, and checkpoints of a workspace *)
(* that rollback() restores.                                               *)
(*                                                                         *)
(* Every operation is synchronous and writes the whole namespace once,     *)
(* before it returns: a request is one action.  An operation that throws   *)
(* after it changed the memory, in that write or, with a resolution that   *)
(* is no string, before it, leaves the change to the next write or to the  *)
(* restart that forgets it.  What is hard here is the long history:        *)
(* requests of several workspaces in any order, some of them failing, with *)
(* a rollback or a restart at any point between them.                      *)
(*                                                                         *)
(* The lists of the code are sets.  Their order decides one thing: which   *)
(* copy find() meets first when two workspaces hold the same canonical id. *)
(* Here it may meet either, so a request that the code refuses for meeting *)
(* the other workspace's copy may be accepted.                             *)
(***************************************************************************)
EXTENDS Integers, FiniteSets

CONSTANTS
  Workspaces,     \* workspaces that share the fabric
  Canonicals,     \* canonical ids, minted or given, that no artifact has as its id
  MaxArtifacts,   \* bound: artifacts ever created
  MaxHandoffs,    \* bound: handoffs ever created
  MaxCheckpoints, \* bound: different checkpoints
  MaxVersion,     \* bound: versions of an artifact
  MaxFailures     \* bound: operations that throw after a change

ASSUME MaximaAssumption ==
  /\ MaxArtifacts \in Nat
  /\ MaxHandoffs \in Nat
  /\ MaxCheckpoints \in Nat
  /\ MaxVersion \in Nat \ {0}
  /\ MaxFailures \in Nat

VARIABLES
  artifacts,   \* the artifacts of all workspaces
  handoffs,    \* the handoffs of all workspaces
  checkpoints, \* the checkpoints, each with what it kept of its workspace
  disk,        \* these three as last written
  minted,      \* how many artifacts were ever created: their ids, in order
  offered,     \* how many handoffs were ever created
  failures,    \* how many operations have thrown after a change
  acted        \* history: the workspace of the last request, or all at a restart

vars == <<artifacts, handoffs, checkpoints, disk, minted, offered, failures, acted>>

(* A handoff cites an artifact by its id or by its canonical id.           *)
References == (1 .. MaxArtifacts) \cup Canonicals

(* What a caller or a document may give as a canonical id: nobody checks   *)
(* that it is not the id of an artifact.                                   *)
Givable == (1 .. minted) \cup Canonicals

Names(a) == {a.id, a.canon}

Of(ws, items) == {x \in items : x.ws = ws}

-----------------------------------------------------------------------------
Init ==
  /\ artifacts = {}
  /\ handoffs = {}
  /\ checkpoints = {}
  /\ disk = [artifacts |-> {}, handoffs |-> {}, checkpoints |-> {}]
  /\ minted = 0
  /\ offered = 0
  /\ failures = 0
  /\ acted = Workspaces

(* The end of an operation of a workspace: #changed writes everything, or  *)
(* the operation has thrown and the disk stays as it is.                   *)
Changed(ws, ok) ==
  /\ ok \/ failures < MaxFailures
  /\ disk' = IF ok
             THEN [artifacts |-> artifacts', handoffs |-> handoffs', checkpoints |-> checkpoints']
             ELSE disk
  /\ failures' = IF ok THEN failures ELSE failures + 1
  /\ acted' = {ws}

(* createArtifact: refused if the fabric holds the canonical id, in any    *)
(* workspace; a caller may choose the version.                             *)
CreateArtifact(ws, c, version, ok) ==
  /\ minted < MaxArtifacts
  /\ \A a \in artifacts : a.canon # c
  /\ minted' = minted + 1
  /\ artifacts' = artifacts \cup {[id |-> minted + 1, canon |-> c, ws |-> ws, version |-> version]}
  /\ UNCHANGED <<handoffs, checkpoints, offered>>
  /\ Changed(ws, ok)

NextVersion(a) == (artifacts \ {a}) \cup {[a EXCEPT !.version = @ + 1]}

(* Mutant: the workspace of the document is not compared.                  *)
UpdateAnyArtifact(ws, c, ok) ==
  \E a \in artifacts :
    /\ a.canon = c /\ a.version < MaxVersion
    /\ artifacts' = NextVersion(a)
    /\ UNCHANGED <<handoffs, checkpoints, minted, offered>>
    /\ Changed(ws, ok)

(* upsertArtifact of a canonical id it holds: the next version of the same *)
(* artifact, which has to be of the document's workspace.  The version the *)
(* document was projected from is not compared.                            *)
UpdateArtifact(ws, c, ok) ==
  \E a \in artifacts :
    /\ a.canon = c /\ a.ws = ws /\ a.version < MaxVersion
    /\ artifacts' = NextVersion(a)
    /\ UNCHANGED <<handoffs, checkpoints, minted, offered>>
    /\ Changed(ws, ok)

(* importMarkdown of the vault: upsertArtifact of a document whose         *)
(* workspace is the one the request was authorised for.                    *)
ImportMarkdown(ws, c, ok) == UpdateArtifact(ws, c, ok) \/ CreateArtifact(ws, c, 1, ok)

Available(ref, ws) == \E a \in artifacts : ref \in Names(a) /\ a.ws = ws

(* createHandoff: with evidence, all of it in the handoff's workspace.     *)
CreateHandoff(ws, evidence, ok) ==
  /\ offered < MaxHandoffs
  /\ evidence # {}
  /\ \A ref \in evidence : Available(ref, ws)
  /\ offered' = offered + 1
  /\ handoffs' = handoffs \cup
       {[id |-> offered + 1, ws |-> ws, evidence |-> evidence, status |-> "pending"]}
  /\ UNCHANGED <<artifacts, checkpoints, minted>>
  /\ Changed(ws, ok)

(* Mutant: a status HANDOFF_STATES does not know.                          *)
ResolveHandoffMisnamed(h, status, ok) ==
  /\ h.status = "pending"
  /\ handoffs' = (handoffs \ {h}) \cup {[h EXCEPT !.status = "resolved"]}
  /\ UNCHANGED <<artifacts, checkpoints, minted, offered>>
  /\ Changed(h.ws, ok)

(* resolveHandoff: once; the route authorises the handoff's workspace.  It *)
(* throws with the status changed if the resolution cannot be trimmed.     *)
ResolveHandoff(h, status, ok) ==
  /\ h.status = "pending"
  /\ handoffs' = (handoffs \ {h}) \cup {[h EXCEPT !.status = status]}
  /\ UNCHANGED <<artifacts, checkpoints, minted, offered>>
  /\ Changed(h.ws, ok)

(* createCheckpoint: what the workspace holds now.                         *)
CreateCheckpoint(ws, ok) ==
  /\ Cardinality(checkpoints) < MaxCheckpoints
  /\ checkpoints' = checkpoints \cup
       {[ws |-> ws, artifacts |-> Of(ws, artifacts), handoffs |-> Of(ws, handoffs)]}
  /\ UNCHANGED <<artifacts, handoffs, minted, offered>>
  /\ Changed(ws, ok)

(* Mutant: the workspace's own artifacts are not taken out first.          *)
RestoreAdding(c, items, kept) == items \cup kept

(* What rollback() makes of a list: the others' items, and what was kept.  *)
Restore(c, items, kept) == (items \ Of(c.ws, items)) \cup kept

(* Mutant: the handoffs stay when the artifacts go back.                   *)
RollbackArtifacts(c, ok) ==
  /\ artifacts' = Restore(c, artifacts, c.artifacts)
  /\ UNCHANGED <<handoffs, checkpoints, minted, offered>>
  /\ Changed(c.ws, ok)

Rollback(c, ok) ==
  /\ artifacts' = Restore(c, artifacts, c.artifacts)
  /\ handoffs' = Restore(c, handoffs, c.handoffs)
  /\ UNCHANGED <<checkpoints, minted, offered>>
  /\ Changed(c.ws, ok)

(* The server ends and starts again from what was written.                 *)
Restart ==
  /\ artifacts' = disk.artifacts
  /\ handoffs' = disk.handoffs
  /\ checkpoints' = disk.checkpoints
  /\ acted' = Workspaces
  /\ UNCHANGED <<disk, minted, offered, failures>>

Request(ok) ==
  \/ \E ws \in Workspaces, c \in Givable :
       \/ \E version \in 1 .. MaxVersion : CreateArtifact(ws, c, version, ok)
       \/ ImportMarkdown(ws, c, ok)
  \/ \E ws \in Workspaces, evidence \in SUBSET References : CreateHandoff(ws, evidence, ok)
  \/ \E h \in handoffs, status \in {"accepted", "rejected"} : ResolveHandoff(h, status, ok)
  \/ \E ws \in Workspaces : CreateCheckpoint(ws, ok)
  \/ \E c \in checkpoints : Rollback(c, ok)

Next == (\E ok \in BOOLEAN : Request(ok)) \/ Restart

Spec == Init /\ [][Next]_vars

-----------------------------------------------------------------------------
Artifact ==
  [id : 1 .. MaxArtifacts, canon : References, ws : Workspaces, version : 1 .. MaxVersion]

Handoff ==
  [id : 1 .. MaxHandoffs, ws : Workspaces, evidence : SUBSET References,
   status : {"pending", "accepted", "rejected"}]

Checkpoint == [ws : Workspaces, artifacts : SUBSET Artifact, handoffs : SUBSET Handoff]

TypeOK ==
  /\ artifacts \subseteq Artifact
  /\ handoffs \subseteq Handoff
  /\ checkpoints \subseteq Checkpoint
  /\ disk \in [artifacts : SUBSET Artifact, handoffs : SUBSET Handoff,
               checkpoints : SUBSET Checkpoint]
  /\ minted \in 0 .. MaxArtifacts
  /\ offered \in 0 .. MaxHandoffs
  /\ failures \in 0 .. MaxFailures
  /\ acted \subseteq Workspaces

Cited(hs, as) ==
  \A h \in hs : \A ref \in h.evidence : \E a \in as : ref \in Names(a) /\ a.ws = h.ws

(* Every handoff, open or resolved, cites only artifacts that its own      *)
(* workspace holds, in memory and on disk: rollback takes no evidence away *)
(* from a handoff it leaves, brings none back without it, and no restart   *)
(* parts the two (createHandoff, rollback, #changed).                      *)
EvidenceAvailable == Cited(handoffs, artifacts) /\ Cited(disk.handoffs, disk.artifacts)

UniqueIds(as) ==
  \A a, b \in as : a.ws = b.ws /\ (a.id = b.id \/ a.canon = b.canon) => a = b

(* In a workspace an id, and a canonical id, is that of one artifact, in   *)
(* memory and on disk: no import, creation, rollback or restart leaves two *)
(* versions of it side by side.  A reference may still mean two: one       *)
(* artifact's id may have been given to another as its canonical id.       *)
IdsUniqueInWorkspace == UniqueIds(artifacts) /\ UniqueIds(disk.artifacts)

(* No request changes artifacts or handoffs of a workspace other than the  *)
(* one it was authorised for, whether it succeeds or fails                 *)
(* (CANONICAL_WORKSPACE_MISMATCH, rollback).                               *)
WorkspaceBoundary ==
  [][\A ws \in Workspaces \ acted' :
       Of(ws, artifacts') = Of(ws, artifacts) /\ Of(ws, handoffs') = Of(ws, handoffs)]_vars

(* A canonical id names one artifact in the whole fabric, as               *)
(* createArtifact asserts (DUPLICATE_CANONICAL_ID).                        *)
CanonicalIdsUnique == \A a, b \in artifacts : a.canon = b.canon => a = b
=============================================================================
