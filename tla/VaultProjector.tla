--------------------------- MODULE VaultProjector ---------------------------
(***************************************************************************)
(* The vault (packages/vault/src/vault-projector.js): Markdown files of    *)
(* the documents of a workspace.  A projection reads the lists of the      *)
(* workspace when it begins, and then writes one file after the other,     *)
(* each to a temporary file that it renames.  Every write is awaited, so   *)
(* that projections of operators and of missions run beside each other,    *)
(* and nothing makes them wait.                                            *)
(*                                                                         *)
(* What the fabric holds of a workspace is any set of its documents, since *)
(* they come and go by creation and rollback (ContextFabric).  A file is   *)
(* named for its document with most characters replaced, so that two       *)
(* documents, and the folders of two workspaces, may share a name.         *)
(***************************************************************************)
EXTENDS MemoryStore, Naturals

CONSTANTS
  Records,        \* artifacts and handoffs
  Index,          \* the index of each workspace
  Folder,         \* the folder of each workspace
  Name,           \* the file name of each document
  NoDocument,
  MaxProjections, \* bound: projections ever begun
  MaxFailures     \* bound: writes that throw and deaths of the process

Documents == Records \cup Memories \cup {Index[ws] : ws \in Workspaces}

Projections == 1 .. MaxProjections

ASSUME VaultAssumption ==
  /\ MaxProjections \in Nat /\ MaxFailures \in Nat
  /\ Home \in [Documents -> Workspaces]
  /\ DOMAIN Index = Workspaces /\ DOMAIN Folder = Workspaces /\ DOMAIN Name = Documents
  /\ \A ws \in Workspaces : Home[Index[ws]] = ws
  /\ NoDocument \notin Documents
  /\ Memories \cap (Records \cup {Index[ws] : ws \in Workspaces}) = {}
  /\ Workspaces # {} /\ Principals # {}

(* Where a document of a workspace is written: safeName.                   *)
Path(ws, d) == <<Folder[ws], Name[d]>>

Paths == {Path(ws, d) : ws \in Workspaces, d \in Documents}

VARIABLES
  files,       \* what lies under each path: which document, as read by which projection
  temporaries, \* the temporary files
  projections, \* every projection ever begun
  begun,       \* how many there were
  floor,       \* history: for each projection, the oldest it ran beside when it began
  promised,    \* history: for each path, the floor of what ended projections wrote there
  failures

vars == <<memories, files, temporaries, projections, begun, floor, promised, failures>>

(* A file that was never written, or one cut short, is of projection 0.    *)
NoFile == [by |-> 0, document |-> NoDocument, whole |-> TRUE]

NoProjection ==
  [state |-> "unborn", ws |-> CHOOSE ws \in Workspaces : TRUE, principal |-> CHOOSE p \in Principals : TRUE,
   listed |-> {}, pending |-> {}, writing |-> NoDocument]

Running == {n \in Projections : projections[n].state = "running"}

Init ==
  /\ memories = {}
  /\ files = [p \in Paths |-> NoFile]
  /\ temporaries = {}
  /\ projections = [n \in Projections |-> NoProjection]
  /\ begun = 0
  /\ floor = [n \in Projections |-> 0]
  /\ promised = [p \in Paths |-> 0]
  /\ failures = 0

Remember(m) ==
  /\ Append(m)
  /\ UNCHANGED <<files, temporaries, projections, begun, floor, promised, failures>>

(* project, up to its first await: the lists are read.                     *)
Project(ws, principal, held) ==
  /\ begun < MaxProjections
  /\ begun' = begun + 1
  /\ LET listed == held \cup Search(ws, principal) \cup {Index[ws]}
     IN  projections' = [projections EXCEPT ![begun'] =
           [state |-> "running", ws |-> ws, principal |-> principal,
            listed |-> listed, pending |-> listed, writing |-> NoDocument]]
  /\ \E oldest \in Running \cup {begun'} :
       /\ \A n \in Running \cup {begun'} : oldest <= n
       /\ floor' = [floor EXCEPT ![begun'] = oldest]
  /\ UNCHANGED <<memories, files, temporaries, promised, failures>>

(* Mutant: the name of a temporary file is that of the file with a suffix. *)
SharedTemporary(n, d) == [path |-> Path(projections[n].ws, d), token |-> 0]

(* The name of a temporary file is used once.                              *)
Temporary(n, d) == [path |-> Path(projections[n].ws, d), token |-> n]

At(name) == {t \in temporaries : t.name = name}

(* atomicWrite: writeFile opens and empties its file; the index is first.  *)
BeginWrite(n, d) ==
  /\ n \in Running /\ projections[n].writing = NoDocument
  /\ d \in projections[n].pending
  /\ Index[projections[n].ws] \in projections[n].pending => d = Index[projections[n].ws]
  /\ projections' = [projections EXCEPT ![n].writing = d]
  /\ LET name == Temporary(n, d)
     IN  temporaries' = (temporaries \ At(name)) \cup {[name |-> name, by |-> n, document |-> d, whole |-> FALSE]}
  /\ UNCHANGED <<memories, files, begun, floor, promised, failures>>

(* and fills it,                                                           *)
EndWrite(n) ==
  /\ n \in Running
  /\ \E t \in temporaries :
       /\ projections[n].writing # NoDocument
       /\ t.name = Temporary(n, projections[n].writing)
       /\ ~t.whole /\ t.by = n
       /\ temporaries' = (temporaries \ {t}) \cup {[t EXCEPT !.whole = TRUE]}
  /\ UNCHANGED <<memories, files, projections, begun, floor, promised, failures>>

Wrote(n) ==
  projections' = [projections EXCEPT ![n].writing = NoDocument, ![n].pending = @ \ {projections[n].writing}]

(* Mutant: a file that is there is kept.                                   *)
RenameOnce(n, t) ==
  /\ n \in Running /\ projections[n].writing # NoDocument
  /\ t.name = Temporary(n, projections[n].writing)
  /\ t.by = n => t.whole
  /\ files' = IF files[t.name.path] = NoFile
              THEN [files EXCEPT ![t.name.path] = [by |-> t.by, document |-> t.document, whole |-> t.whole]]
              ELSE files
  /\ temporaries' = temporaries \ {t}
  /\ Wrote(n)
  /\ UNCHANGED <<memories, begun, floor, promised, failures>>

(* and renames it over the file.                                           *)
Rename(n, t) ==
  /\ n \in Running /\ projections[n].writing # NoDocument
  /\ t.name = Temporary(n, projections[n].writing)
  /\ t.by = n => t.whole
  /\ files' = [files EXCEPT ![t.name.path] = [by |-> t.by, document |-> t.document, whole |-> t.whole]]
  /\ temporaries' = temporaries \ {t}
  /\ Wrote(n)
  /\ UNCHANGED <<memories, begun, floor, promised, failures>>

(* project returns the names of the files it wrote.                        *)
Finish(n) ==
  /\ n \in Running /\ projections[n].pending = {}
  /\ projections' = [projections EXCEPT ![n].state = "ended", ![n].listed = {}]
  /\ promised' = [p \in Paths |->
       IF \E d \in projections[n].listed : p = Path(projections[n].ws, d) /\ promised[p] < floor[n]
       THEN floor[n] ELSE promised[p]]
  /\ UNCHANGED <<memories, files, temporaries, begun, floor, failures>>

(* What is left of a projection that fails, but for its temporary file,    *)
(* which has a name of its own and is never looked at again.               *)
Failed(projection) ==
  [projection EXCEPT !.state = "failed", !.listed = {}, !.pending = {}, !.writing = NoDocument]

(* A write throws, and project with it.                                    *)
Fail(n) ==
  /\ n \in Running /\ projections[n].writing # NoDocument /\ failures < MaxFailures
  /\ projections' = [projections EXCEPT ![n] = Failed(@)]
  /\ temporaries' = {t \in temporaries : t.by # n}
  /\ failures' = failures + 1
  /\ UNCHANGED <<memories, files, begun, floor, promised>>

(* The process dies in the middle of everything.                           *)
Crash ==
  /\ Running # {} /\ failures < MaxFailures
  /\ projections' = [n \in Projections |->
       IF n \in Running THEN Failed(projections[n]) ELSE projections[n]]
  /\ temporaries' = {}
  /\ failures' = failures + 1
  /\ UNCHANGED <<memories, files, begun, floor, promised>>

Next ==
  \/ \E m \in Memories : Remember(m)
  \/ \E ws \in Workspaces, principal \in Principals :
       \E held \in SUBSET {r \in Records : Home[r] = ws} : Project(ws, principal, held)
  \/ \E n \in Projections :
       \/ \E d \in Documents : BeginWrite(n, d)
       \/ EndWrite(n)
       \/ \E t \in temporaries : Rename(n, t)
       \/ Finish(n)
       \/ Fail(n)
  \/ Crash

Spec == Init /\ [][Next]_vars

-----------------------------------------------------------------------------
File ==
  [by : 0 .. MaxProjections, document : Documents \cup {NoDocument}, whole : BOOLEAN]

TypeOK ==
  /\ memories \subseteq Memories
  /\ files \in [Paths -> File]
  /\ temporaries \subseteq
       [name : [path : Paths, token : 0 .. MaxProjections], by : Projections, document : Documents, whole : BOOLEAN]
  /\ projections \in [Projections ->
       [state : {"unborn", "running", "ended", "failed"}, ws : Workspaces, principal : Principals,
        listed : SUBSET Documents, pending : SUBSET Documents, writing : Documents \cup {NoDocument}]]
  /\ \A n \in Projections : \A d \in projections[n].listed : Home[d] = projections[n].ws
  /\ begun \in 0 .. MaxProjections
  /\ floor \in [Projections -> 0 .. MaxProjections]
  /\ promised \in [Paths -> 0 .. MaxProjections]
  /\ failures \in 0 .. MaxFailures

(* Whatever projections run beside each other, fail or die, a file under   *)
(* its own name is whole (atomicWrite).                                    *)
FilesWhole == \A p \in Paths : files[p].whole

(* Once a projection has ended, the files it reported are on disk for good *)
(* and show nothing older than the lists of the oldest projection that was *)
(* running when it began: an older projection that ends later may put its  *)
(* older lists back, but no further (project).                             *)
VaultRegular == \A p \in Paths : promised[p] <= files[p].by

(* A file in the folder of a workspace is of a document of that workspace, *)
(* or of one whose folder has the same name, and if it is a memory then    *)
(* whoever had it written may see it (search, #isVisible).                 *)
OnDiskVisible ==
  \A p \in Paths : files[p].by # 0 =>
    LET projection == projections[files[p].by]
        d == files[p].document
    IN  /\ p = Path(Home[d], d)
        /\ d \in Memories => Visibility[d] \in {"private", "workspace", "public"}
        /\ d \in Memories /\ Visibility[d] = "private" => Owner[d] = projection.principal
=============================================================================
