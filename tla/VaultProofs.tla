---------------------------- MODULE VaultProofs ----------------------------
(* Theorems about VaultProjector, for every set of documents, every way    *)
(* their names may collide and all bounds.                                 *)
EXTENDS VaultProjector, TLAPS

-----------------------------------------------------------------------------
(* A projection that runs is one of those begun; it writes a document that *)
(* is still to be written, and has a temporary file only of that document. *)
Orderly ==
  /\ \A n \in Running :
       /\ n <= begun
       /\ projections[n].pending \subseteq projections[n].listed
       /\ projections[n].writing # NoDocument => projections[n].writing \in projections[n].pending
  /\ \A t \in temporaries :
       /\ t.name = Temporary(t.by, t.document)
       /\ t.by <= begun
  /\ \A p \in Paths : files[p].by <= begun

TypeInv == TypeOK /\ Orderly

Temporaries ==
  [name : [path : Paths, token : 0 .. MaxProjections], by : Projections, document : Documents, whole : BOOLEAN]

Record ==
  [state : {"unborn", "running", "ended", "failed"}, ws : Workspaces, principal : Principals,
   listed : SUBSET Documents, pending : SUBSET Documents, writing : Documents \cup {NoDocument}]

LEMMA TypeInit == Init => TypeInv
<1> SUFFICES ASSUME Init PROVE TypeInv
  OBVIOUS
<1>1. NoProjection \in Record /\ NoProjection.state # "running" /\ NoProjection.listed = {}
  BY VaultAssumption DEF NoProjection, Record
<1>2. NoFile \in File /\ NoFile.by = 0
  BY VaultAssumption DEF NoFile, File
<1>3. Running = {}
  BY <1>1 DEF Init, Running
<1>4. 0 \in 0 .. MaxProjections /\ 0 \in 0 .. MaxFailures
  BY VaultAssumption
<1>5. TypeOK
  BY <1>1, <1>2, <1>4 DEF Init, TypeOK, Record
<1> QED BY <1>2, <1>3, <1>5 DEF Init, TypeInv, Orderly

(* What one projection does to its own record.                             *)
LEMMA RunningFacts ==
  ASSUME TypeInv, NEW n \in Running
  PROVE  n \in Projections /\ n \in 1 .. begun /\ projections[n] \in Record
BY DEF TypeInv, TypeOK, Orderly, Running, Projections, Record

LEMMA PathFacts ==
  ASSUME NEW n \in Projections, NEW d \in Documents, TypeOK
  PROVE  /\ Path(projections[n].ws, d) \in Paths
         /\ Temporary(n, d) \in [path : Paths, token : 0 .. MaxProjections]
         /\ Temporary(n, d).path = Path(projections[n].ws, d) /\ Temporary(n, d).token = n
BY VaultAssumption DEF TypeOK, Paths, Temporary, Projections

LEMMA ProjectType ==
  ASSUME TypeInv, NEW ws \in Workspaces, NEW principal \in Principals,
         NEW held \in SUBSET {r \in Records : Home[r] = ws}, Project(ws, principal, held)
  PROVE  TypeInv'
<1> DEFINE listed == held \cup Search(ws, principal) \cup {Index[ws]}
           new == [state |-> "running", ws |-> ws, principal |-> principal,
                   listed |-> listed, pending |-> listed, writing |-> NoDocument]
<1>1. begun' = begun + 1 /\ begun' \in Projections /\ begun \in Nat /\ begun' \in 0 .. MaxProjections
  BY VaultAssumption DEF Project, TypeInv, TypeOK, Projections
<1>2. listed \subseteq Documents /\ \A d \in listed : Home[d] = ws
  BY VaultAssumption DEF Documents, Search, TypeInv, TypeOK
<1>3. new \in Record
  BY <1>2 DEF Record
<1>4. projections' = [projections EXCEPT ![begun'] = new]
  BY DEF Project
<1> HIDE DEF listed
<1>5. PICK oldest \in Running \cup {begun'} : floor' = [floor EXCEPT ![begun'] = oldest]
  BY DEF Project
<1>6. oldest \in 0 .. MaxProjections
  BY <1>1, <1>5 DEF Running, Projections
<1>7. /\ projections' \in [Projections -> Record] /\ floor' \in [Projections -> 0 .. MaxProjections]
      /\ projections'[begun'] = new /\ \A n \in Projections \ {begun'} : projections'[n] = projections[n]
  BY <1>1, <1>3, <1>4, <1>5, <1>6 DEF TypeInv, TypeOK, Record
<1>8. \A n \in Projections : \A d \in projections'[n].listed : Home[d] = projections'[n].ws
  BY <1>2, <1>7 DEF TypeInv, TypeOK
<1>9. TypeOK'
  BY <1>1, <1>7, <1>8 DEF Project, TypeInv, TypeOK, Record
<1>10. \A t \in temporaries : t.by # begun' /\ t.by \in Projections
  BY <1>1 DEF TypeInv, TypeOK, Orderly, Projections
<1>11. \A t \in temporaries : t.name = Temporary(t.by, t.document)'
  BY <1>7, <1>10 DEF TypeInv, Orderly, Temporary
<1>12. \A n \in Running' : n = begun' \/ n \in Running
  BY <1>7 DEF Running
<1>13. \A n \in Running' :
         /\ n <= begun'
         /\ projections'[n].pending \subseteq projections'[n].listed
         /\ projections'[n].writing # NoDocument => projections'[n].writing \in projections'[n].pending
  <2> SUFFICES ASSUME NEW n \in Running'
               PROVE  /\ n <= begun'
                      /\ projections'[n].pending \subseteq projections'[n].listed
                      /\ projections'[n].writing # NoDocument => projections'[n].writing \in projections'[n].pending
    OBVIOUS
  <2>1. CASE n = begun'
    BY <1>1, <1>7, <2>1 DEF Projections
  <2>2. CASE n \in Running /\ n # begun'
    BY <1>1, <1>7, <2>2, RunningFacts DEF TypeInv, Orderly
  <2> QED BY <1>12, <2>1, <2>2
<1>14. \A p \in Paths : files[p].by <= begun'
  BY <1>1 DEF TypeInv, TypeOK, Orderly, File
<1>15. Orderly'
  BY <1>1, <1>10, <1>11, <1>13, <1>14 DEF Project, TypeInv, Orderly, Projections
<1> QED BY <1>9, <1>15 DEF TypeInv

(* A step of a running projection in its own record, and what it leaves.   *)
LEMMA RecordType ==
  ASSUME TypeInv, NEW n \in Projections, NEW r \in Record,
         projections' = [projections EXCEPT ![n] = r],
         r.ws = projections[n].ws, \A d \in r.listed : Home[d] = r.ws
  PROVE  /\ projections' \in [Projections -> Record]
         /\ projections'[n] = r /\ \A k \in Projections \ {n} : projections'[k] = projections[k]
         /\ \A k \in Projections : \A d \in projections'[k].listed : Home[d] = projections'[k].ws
         /\ \A k \in Projections, d \in Documents : Temporary(k, d)' = Temporary(k, d)
BY DEF TypeInv, TypeOK, Record, Temporary

LEMMA BeginWriteType ==
  ASSUME TypeInv, NEW n \in Projections, NEW d \in Documents, BeginWrite(n, d)
  PROVE  TypeInv'
<1> DEFINE r == [projections[n] EXCEPT !.writing = d]
           t == [name |-> Temporary(n, d), by |-> n, document |-> d, whole |-> FALSE]
<1>1. n \in Running /\ projections[n] \in Record /\ d \in projections[n].pending
  BY RunningFacts DEF BeginWrite
<1>2. r \in Record /\ r.ws = projections[n].ws /\ r.listed = projections[n].listed
      /\ r.pending = projections[n].pending /\ r.writing = d /\ r.state = projections[n].state
  BY <1>1 DEF Record
<1>3. projections' = [projections EXCEPT ![n] = r]
  BY DEF BeginWrite
<1>4. /\ projections' \in [Projections -> Record]
      /\ projections'[n] = r /\ \A k \in Projections \ {n} : projections'[k] = projections[k]
      /\ \A k \in Projections : \A e \in projections'[k].listed : Home[e] = projections'[k].ws
      /\ \A k \in Projections, e \in Documents : Temporary(k, e)' = Temporary(k, e)
  <2>1. \A e \in r.listed : Home[e] = r.ws
    BY <1>2 DEF TypeInv, TypeOK
  <2> HIDE DEF r
  <2> QED BY <1>2, <1>3, <2>1, RecordType
<1>5. t \in Temporaries
  BY PathFacts DEF TypeInv, Temporaries
<1>6. temporaries' \subseteq temporaries \cup {t}
  BY DEF BeginWrite
<1>7. TypeOK'
  BY <1>4, <1>5, <1>6 DEF BeginWrite, TypeInv, TypeOK, Record, Temporaries
<1>8. Running' = Running
  BY <1>2, <1>4 DEF Running
<1>9. \A x \in temporaries' : x.name = Temporary(x.by, x.document)' /\ x.by <= begun
  <2> SUFFICES ASSUME NEW x \in temporaries' PROVE x.name = Temporary(x.by, x.document)' /\ x.by <= begun
    OBVIOUS
  <2>1. x.name = Temporary(x.by, x.document) /\ x.by <= begun /\ x.by \in Projections /\ x.document \in Documents
    BY <1>1, <1>6 DEF TypeInv, TypeOK, Orderly
  <2> QED BY <1>4, <2>1
<1>10. Orderly'
  BY <1>1, <1>2, <1>4, <1>8, <1>9 DEF BeginWrite, TypeInv, Orderly, Running
<1> QED BY <1>7, <1>10 DEF TypeInv

LEMMA EndWriteType == ASSUME TypeInv, NEW n \in Projections, EndWrite(n) PROVE TypeInv'
<1>1. PICK t \in temporaries : temporaries' = (temporaries \ {t}) \cup {[t EXCEPT !.whole = TRUE]}
  BY DEF EndWrite
<1> DEFINE u == [t EXCEPT !.whole = TRUE]
<1>2. t \in Temporaries
  BY DEF TypeInv, TypeOK, Temporaries
<1>3. u \in Temporaries /\ u.name = t.name /\ u.by = t.by /\ u.document = t.document
  BY <1>2 DEF Temporaries
<1>4. TypeOK'
  BY <1>1, <1>3 DEF EndWrite, TypeInv, TypeOK, Temporaries
<1>5. ASSUME NEW x \in temporaries' PROVE x.name = Temporary(x.by, x.document)' /\ x.by <= begun
  <2>1. \A k, d : Temporary(k, d)' = Temporary(k, d)
    BY DEF EndWrite, Temporary
  <2>2. \A y \in temporaries : y.name = Temporary(y.by, y.document) /\ y.by <= begun
    BY DEF TypeInv, Orderly
  <2>3. x \in temporaries \/ x = u
    BY <1>1
  <2> QED BY <1>3, <2>1, <2>2, <2>3
<1>6. Orderly'
  BY <1>5 DEF EndWrite, TypeInv, Orderly, Running
<1> QED BY <1>4, <1>6 DEF TypeInv

(* The temporary file that is renamed is the projection's own.             *)
LEMMA RenameFacts ==
  ASSUME TypeInv, NEW n \in Projections, NEW t \in temporaries, Rename(n, t)
  PROVE  /\ n \in Running /\ n \in 1 .. begun /\ t \in Temporaries
         /\ t.by = n /\ t.whole = TRUE
         /\ t.name.path = Path(projections[n].ws, t.document)
         /\ t.name.path = Path(projections[n].ws, projections[n].writing)
         /\ projections[n].writing \in projections[n].pending
         /\ files' = [files EXCEPT ![t.name.path] = [by |-> n, document |-> t.document, whole |-> TRUE]]
         /\ t.name.path \in Paths
<1>1. n \in Running /\ n \in 1 .. begun /\ projections[n].writing # NoDocument
  BY RunningFacts DEF Rename
<1>2. t \in Temporaries /\ t.name = Temporary(t.by, t.document) /\ t.name = Temporary(n, projections[n].writing)
  BY DEF Rename, TypeInv, TypeOK, Orderly, Temporaries
<1>3. projections[n].writing \in Documents /\ t.by \in Projections /\ t.document \in Documents
  BY <1>1, <1>2 DEF TypeInv, TypeOK, Temporaries
<1>4. t.by = n
  <2>1. Temporary(t.by, t.document).token = t.by /\ Temporary(n, projections[n].writing).token = n
    BY DEF Temporary
  <2> QED BY <1>2, <2>1
<1>5. t.whole = TRUE
  BY <1>2, <1>4 DEF Rename, Temporaries
<1>6. /\ t.name.path = Path(projections[n].ws, t.document)
      /\ t.name.path = Path(projections[n].ws, projections[n].writing)
  BY <1>2, <1>4 DEF Temporary
<1>7. t.name.path \in Paths /\ projections[n].writing \in projections[n].pending
  BY <1>1, <1>2 DEF Temporaries, TypeInv, Orderly
<1> QED BY <1>1, <1>2, <1>4, <1>5, <1>6, <1>7 DEF Rename

LEMMA RenameType ==
  ASSUME TypeInv, NEW n \in Projections, NEW t \in temporaries, Rename(n, t)
  PROVE  TypeInv'
<1> DEFINE r == [projections[n] EXCEPT !.writing = NoDocument, !.pending = @ \ {projections[n].writing}]
           f == [by |-> n, document |-> t.document, whole |-> TRUE]
<1>1. n \in Running /\ n \in 1 .. begun /\ projections[n] \in Record /\ t \in Temporaries
  BY RenameFacts, RunningFacts
<1>2. r \in Record /\ r.ws = projections[n].ws /\ r.listed = projections[n].listed
      /\ r.pending \subseteq projections[n].pending /\ r.writing = NoDocument /\ r.state = projections[n].state
  BY <1>1 DEF Record
<1>3. projections' = [projections EXCEPT ![n] = r]
  BY DEF Rename, Wrote
<1>4. /\ projections' \in [Projections -> Record]
      /\ projections'[n] = r /\ \A k \in Projections \ {n} : projections'[k] = projections[k]
      /\ \A k \in Projections : \A e \in projections'[k].listed : Home[e] = projections'[k].ws
      /\ \A k \in Projections, e \in Documents : Temporary(k, e)' = Temporary(k, e)
  <2>1. \A e \in r.listed : Home[e] = r.ws
    BY <1>2 DEF TypeInv, TypeOK
  <2> HIDE DEF r
  <2> QED BY <1>2, <1>3, <2>1, RecordType
<1>5. f \in File /\ f.by = n
  BY <1>1 DEF File, Projections, Temporaries
<1>6. files' = [files EXCEPT ![t.name.path] = f] /\ t.name.path \in Paths
  BY RenameFacts
<1> HIDE DEF f
<1>7. files' \in [Paths -> File] /\ \A p \in Paths : files'[p].by = IF p = t.name.path THEN n ELSE files[p].by
  BY <1>5, <1>6 DEF TypeInv, TypeOK
<1>8. temporaries' \subseteq temporaries
  BY DEF Rename
<1>9. TypeOK'
  BY <1>4, <1>7, <1>8 DEF Rename, TypeInv, TypeOK, Record
<1>10. Running' = Running
  BY <1>2, <1>4 DEF Running
<1>11. \A x \in temporaries' : x.name = Temporary(x.by, x.document)' /\ x.by <= begun
  <2> SUFFICES ASSUME NEW x \in temporaries' PROVE x.name = Temporary(x.by, x.document)' /\ x.by <= begun
    OBVIOUS
  <2>1. x.name = Temporary(x.by, x.document) /\ x.by <= begun /\ x.by \in Projections /\ x.document \in Documents
    BY <1>8 DEF TypeInv, TypeOK, Orderly
  <2> QED BY <1>4, <2>1
<1>12. \A p \in Paths : files'[p].by <= begun
  BY <1>1, <1>7 DEF TypeInv, Orderly
<1>13. \A k \in Running' :
         /\ k <= begun /\ projections'[k].pending \subseteq projections'[k].listed
         /\ projections'[k].writing # NoDocument => projections'[k].writing \in projections'[k].pending
  <2> SUFFICES ASSUME NEW k \in Running
               PROVE  /\ k <= begun /\ projections'[k].pending \subseteq projections'[k].listed
                      /\ projections'[k].writing # NoDocument => projections'[k].writing \in projections'[k].pending
    BY <1>10
  <2>1. /\ k <= begun /\ projections[k].pending \subseteq projections[k].listed /\ k \in Projections
        /\ projections[k].writing # NoDocument => projections[k].writing \in projections[k].pending
    BY DEF TypeInv, Orderly, Running
  <2> QED BY <1>2, <1>4, <2>1
<1>14. Orderly'
  BY <1>11, <1>12, <1>13 DEF Rename, TypeInv, Orderly
<1> QED BY <1>9, <1>14 DEF TypeInv

LEMMA FinishType == ASSUME TypeInv, NEW n \in Projections, Finish(n) PROVE TypeInv'
<1> DEFINE r == [projections[n] EXCEPT !.state = "ended", !.listed = {}]
<1>1. n \in Running /\ n \in 1 .. begun /\ projections[n] \in Record
  BY RunningFacts DEF Finish
<1>2. r \in Record /\ r.ws = projections[n].ws /\ r.listed = {} /\ r.state = "ended"
  BY <1>1 DEF Record
<1>3. projections' = [projections EXCEPT ![n] = r]
  BY DEF Finish
<1>4. /\ projections' \in [Projections -> Record]
      /\ projections'[n] = r /\ \A k \in Projections \ {n} : projections'[k] = projections[k]
      /\ \A k \in Projections : \A e \in projections'[k].listed : Home[e] = projections'[k].ws
      /\ \A k \in Projections, e \in Documents : Temporary(k, e)' = Temporary(k, e)
  <2> HIDE DEF r
  <2> QED BY <1>2, <1>3, RecordType
<1>5. floor[n] \in 0 .. MaxProjections
  BY DEF TypeInv, TypeOK
<1>6. promised' \in [Paths -> 0 .. MaxProjections]
  BY <1>5 DEF Finish, TypeInv, TypeOK
<1>7. TypeOK'
  BY <1>4, <1>6 DEF Finish, TypeInv, TypeOK, Record
<1>8. Running' = Running \ {n}
  BY <1>2, <1>4 DEF Running
<1>9. \A x \in temporaries' : x.name = Temporary(x.by, x.document)' /\ x.by <= begun
  <2> SUFFICES ASSUME NEW x \in temporaries PROVE x.name = Temporary(x.by, x.document)' /\ x.by <= begun
    BY DEF Finish
  <2>1. x.name = Temporary(x.by, x.document) /\ x.by <= begun /\ x.by \in Projections /\ x.document \in Documents
    BY DEF TypeInv, TypeOK, Orderly
  <2> QED BY <1>4, <2>1
<1>10. Orderly'
  BY <1>4, <1>8, <1>9 DEF Finish, TypeInv, Orderly, Running
<1> QED BY <1>7, <1>10 DEF TypeInv

(* Projections that fail, alone or all together.                           *)
LEMMA FailedType ==
  ASSUME TypeInv, NEW lost \in SUBSET Running,
         projections' = [k \in Projections |-> IF k \in lost THEN Failed(projections[k]) ELSE projections[k]],
         temporaries' \subseteq temporaries, failures' \in 0 .. MaxFailures,
         UNCHANGED <<memories, files, begun, floor, promised>>
  PROVE  /\ TypeInv'
         /\ Running' = Running \ lost
         /\ \A k \in Projections : projections'[k].ws = projections[k].ws /\ projections'[k].principal = projections[k].principal
         /\ \A k \in Running \ lost : projections'[k] = projections[k]
<1>1. \A k \in Projections : projections[k] \in Record
  BY DEF TypeInv, TypeOK, Record
<1>2. \A k \in lost : /\ Failed(projections[k]) \in Record /\ Failed(projections[k]).state = "failed"
                      /\ Failed(projections[k]).ws = projections[k].ws
                      /\ Failed(projections[k]).principal = projections[k].principal
                      /\ Failed(projections[k]).listed = {}
  BY <1>1 DEF Failed, Record, Running
<1>3. /\ projections' \in [Projections -> Record]
      /\ \A k \in Projections : projections'[k] = IF k \in lost THEN Failed(projections[k]) ELSE projections[k]
      /\ \A k \in Projections : \A e \in projections'[k].listed : Home[e] = projections'[k].ws
      /\ \A k \in Projections : projections'[k].ws = projections[k].ws /\ projections'[k].principal = projections[k].principal
  BY <1>1, <1>2 DEF TypeInv, TypeOK
<1>4. TypeOK'
  BY <1>3 DEF TypeInv, TypeOK, Record
<1>5. Running' = Running \ lost
  BY <1>2, <1>3 DEF Running
<1>6. \A x \in temporaries' : x.name = Temporary(x.by, x.document)' /\ x.by <= begun
  BY <1>3 DEF TypeInv, TypeOK, Orderly, Temporary
<1>7. Orderly'
  BY <1>3, <1>5, <1>6 DEF TypeInv, Orderly, Running
<1> QED BY <1>3, <1>4, <1>5, <1>7 DEF TypeInv, Running

LEMMA FailIsLost ==
  ASSUME TypeInv, NEW n \in Projections, Fail(n)
  PROVE  /\ {n} \in SUBSET Running
         /\ projections' = [k \in Projections |-> IF k \in {n} THEN Failed(projections[k]) ELSE projections[k]]
         /\ temporaries' \subseteq temporaries /\ failures' \in 0 .. MaxFailures
         /\ UNCHANGED <<memories, files, begun, floor, promised>>
<1>1. n \in Running /\ failures \in 0 .. MaxFailures /\ failures' = failures + 1 /\ failures < MaxFailures
  BY DEF Fail, TypeInv, TypeOK
<1>2. failures' \in 0 .. MaxFailures
  BY <1>1, VaultAssumption
<1>3. projections \in [Projections -> Record] /\ projections' = [projections EXCEPT ![n] = Failed(projections[n])]
  BY DEF Fail, TypeInv, TypeOK, Record
<1>4. projections' = [k \in Projections |-> IF k \in {n} THEN Failed(projections[k]) ELSE projections[k]]
  BY <1>3
<1> QED BY <1>1, <1>2, <1>4 DEF Fail

LEMMA CrashIsLost ==
  ASSUME TypeInv, Crash
  PROVE  /\ Running \in SUBSET Running
         /\ projections' = [k \in Projections |-> IF k \in Running THEN Failed(projections[k]) ELSE projections[k]]
         /\ temporaries' \subseteq temporaries /\ failures' \in 0 .. MaxFailures
         /\ UNCHANGED <<memories, files, begun, floor, promised>>
BY VaultAssumption DEF Crash, TypeInv, TypeOK

LEMMA TypeNext == TypeInv /\ [Next]_vars => TypeInv'
<1> SUFFICES ASSUME TypeInv, [Next]_vars PROVE TypeInv'
  OBVIOUS
<1>1. ASSUME NEW m \in Memories, Remember(m) PROVE TypeInv'
  BY <1>1 DEF Remember, Append, TypeInv, TypeOK, Orderly, Running, Temporary
<1>2. ASSUME NEW ws \in Workspaces, NEW principal \in Principals,
             NEW held \in SUBSET {r \in Records : Home[r] = ws}, Project(ws, principal, held)
      PROVE  TypeInv'
  BY <1>2, ProjectType
<1>3. ASSUME NEW n \in Projections, NEW d \in Documents, BeginWrite(n, d) PROVE TypeInv'
  BY <1>3, BeginWriteType
<1>4. ASSUME NEW n \in Projections, EndWrite(n) PROVE TypeInv'
  BY <1>4, EndWriteType
<1>5. ASSUME NEW n \in Projections, NEW t \in temporaries, Rename(n, t) PROVE TypeInv'
  BY <1>5, RenameType
<1>6. ASSUME NEW n \in Projections, Finish(n) PROVE TypeInv'
  BY <1>6, FinishType
<1>7. ASSUME NEW n \in Projections, Fail(n) PROVE TypeInv'
  BY <1>7, FailIsLost, FailedType
<1>8. CASE Crash
  BY <1>8, CrashIsLost, FailedType
<1>9. CASE UNCHANGED vars
  BY <1>9 DEF vars, TypeInv, TypeOK, Orderly, Running, Temporary
<1> QED BY <1>1, <1>2, <1>3, <1>4, <1>5, <1>6, <1>7, <1>8, <1>9 DEF Next

(* The types of files, projections and temporary files hold in every       *)
(* reachable state.                                                        *)
THEOREM TypeCorrect == Spec => []TypeOK
<1>1. TypeInv => TypeOK
  BY DEF TypeInv
<1> QED BY <1>1, TypeInit, TypeNext, PTL DEF Spec

-----------------------------------------------------------------------------
WholeInv == TypeInv /\ FilesWhole

LEMMA WholeNext == WholeInv /\ [Next]_vars => WholeInv'
<1> SUFFICES ASSUME WholeInv, [Next]_vars PROVE WholeInv'
  OBVIOUS
<1>1. TypeInv /\ TypeInv'
  BY TypeNext DEF WholeInv
<1>2. ASSUME NEW n \in Projections, NEW t \in temporaries, Rename(n, t) PROVE FilesWhole'
  <2>1. files' = [files EXCEPT ![t.name.path] = [by |-> n, document |-> t.document, whole |-> TRUE]]
    BY <1>1, <1>2, RenameFacts
  <2>2. \A p \in Paths : files'[p].whole = TRUE \/ files'[p] = files[p]
    BY <1>1, <2>1 DEF TypeInv, TypeOK
  <2> QED BY <2>2 DEF WholeInv, FilesWhole
<1>3. files' = files \/ \E n \in Projections, t \in temporaries : Rename(n, t)
  BY DEF Next, Remember, Project, BeginWrite, EndWrite, Finish, Fail, Crash, vars
<1> QED BY <1>1, <1>2, <1>3 DEF WholeInv, FilesWhole

(* No file under its own name is ever cut short, whatever runs beside the  *)
(* projection that writes it, and whenever the process dies.               *)
THEOREM FilesAreWhole == Spec => []FilesWhole
<1>1. Init => WholeInv
  BY TypeInit DEF Init, WholeInv, FilesWhole, NoFile
<1>2. WholeInv => FilesWhole
  BY DEF WholeInv
<1> QED BY <1>1, <1>2, WholeNext, PTL DEF Spec

-----------------------------------------------------------------------------
(* No projection that runs began before what another one will promise, nor *)
(* before what was promised; and what it has written is at least as new as *)
(* what it will promise.                                                   *)
RegularInv ==
  /\ TypeInv
  /\ VaultRegular
  /\ \A m, n \in Running : floor[m] <= n
  /\ \A n \in Running : \A p \in Paths : promised[p] <= n
  /\ \A n \in Running : \A d \in projections[n].listed \ projections[n].pending :
       floor[n] <= files[Path(projections[n].ws, d)].by

LEMMA RegularInit == Init => RegularInv
<1> SUFFICES ASSUME Init PROVE RegularInv
  OBVIOUS
<1>1. Running = {}
  BY DEF Init, Running, NoProjection
<1> QED BY <1>1, TypeInit DEF Init, RegularInv, VaultRegular, NoFile

LEMMA RegularProject ==
  ASSUME RegularInv, TypeInv', NEW ws \in Workspaces, NEW principal \in Principals,
         NEW held \in SUBSET {r \in Records : Home[r] = ws}, Project(ws, principal, held)
  PROVE  RegularInv'
<1>1. TypeInv /\ begun' = begun + 1 /\ begun' \in Projections /\ begun \in Nat
  BY VaultAssumption DEF RegularInv, Project, TypeInv, TypeOK, Projections
<1>2. PICK oldest \in Running \cup {begun'} :
        /\ \A n \in Running \cup {begun'} : oldest <= n
        /\ floor' = [floor EXCEPT ![begun'] = oldest]
  BY DEF Project
<1>3. /\ projections'[begun'].listed = projections'[begun'].pending
      /\ \A n \in Projections \ {begun'} : projections'[n] = projections[n]
  BY <1>1 DEF Project, TypeInv, TypeOK
<1>4. floor'[begun'] = oldest /\ \A n \in Projections \ {begun'} : floor'[n] = floor[n]
  BY <1>1, <1>2 DEF TypeInv, TypeOK
<1>5. \A n \in Running : n \in Projections /\ n < begun'
  BY <1>1 DEF TypeInv, Orderly, Running, Projections
<1>6. Running' \subseteq Running \cup {begun'}
  BY <1>3 DEF Running
<1>7. \A n \in Running : floor[n] \in Nat /\ floor[n] <= n
  BY <1>5 DEF RegularInv, TypeInv, TypeOK
<1>8. \A m, n \in Running' : floor'[m] <= n
  BY <1>1, <1>2, <1>4, <1>5, <1>6, <1>7 DEF RegularInv, Projections
<1>9. \A p \in Paths : promised[p] \in Nat /\ files[p].by \in Nat /\ promised[p] <= begun
  BY <1>1 DEF RegularInv, VaultRegular, TypeInv, TypeOK, Orderly, File
<1>10. \A n \in Running' : \A p \in Paths : promised[p] <= n
  BY <1>1, <1>6, <1>9 DEF RegularInv
<1>11. \A n \in Running' : \A d \in projections'[n].listed \ projections'[n].pending :
         floor'[n] <= files[Path(projections'[n].ws, d)].by
  BY <1>3, <1>4, <1>5, <1>6 DEF RegularInv
<1> QED BY <1>8, <1>10, <1>11 DEF Project, RegularInv, VaultRegular

LEMMA RegularRename ==
  ASSUME RegularInv, TypeInv', NEW n \in Projections, NEW t \in temporaries, Rename(n, t)
  PROVE  RegularInv'
<1> DEFINE path == t.name.path
<1>1. /\ TypeInv /\ n \in Running /\ path = Path(projections[n].ws, projections[n].writing) /\ path \in Paths
      /\ files' = [files EXCEPT ![path] = [by |-> n, document |-> t.document, whole |-> TRUE]]
  BY RenameFacts DEF RegularInv
<1>2. \A p \in Paths : files'[p].by = IF p = path THEN n ELSE files[p].by
  BY <1>1 DEF TypeInv, TypeOK
<1>3. /\ projections'[n].ws = projections[n].ws /\ projections'[n].listed = projections[n].listed
      /\ projections'[n].pending = projections[n].pending \ {projections[n].writing}
      /\ projections'[n].state = projections[n].state
      /\ \A k \in Projections \ {n} : projections'[k] = projections[k]
  BY DEF Rename, Wrote, RegularInv, TypeInv, TypeOK
<1>4. Running' = Running
  BY <1>3 DEF Running
<1>5. VaultRegular'
  BY <1>1, <1>2 DEF Rename, RegularInv, VaultRegular
<1>6. \A k \in Running' : \A d \in projections'[k].listed \ projections'[k].pending :
        floor[k] <= files'[Path(projections'[k].ws, d)].by
  <2> SUFFICES ASSUME NEW k \in Running, NEW d \in projections'[k].listed \ projections'[k].pending
               PROVE  floor[k] <= files'[Path(projections'[k].ws, d)].by
    BY <1>4
  <2>1. k \in Projections /\ d \in Documents /\ projections'[k].ws = projections[k].ws
    BY <1>3 DEF Running, RegularInv, TypeInv, TypeOK
  <2>2. Path(projections[k].ws, d) \in Paths
    BY <2>1, PathFacts DEF RegularInv, TypeInv
  <2>3. CASE Path(projections[k].ws, d) = path
    BY <1>1, <1>2, <2>1, <2>2, <2>3 DEF RegularInv
  <2>4. CASE Path(projections[k].ws, d) # path
    <3>1. d \in projections[k].listed \ projections[k].pending
      BY <1>1, <1>3, <2>1, <2>4
    <3> QED BY <1>2, <2>1, <2>2, <2>4, <3>1 DEF RegularInv
  <2> QED BY <2>3, <2>4
<1> QED BY <1>4, <1>5, <1>6 DEF Rename, RegularInv

LEMMA RegularFinish ==
  ASSUME RegularInv, TypeInv', NEW n \in Projections, Finish(n)
  PROVE  RegularInv'
<1>1. TypeInv /\ n \in Running /\ projections[n].pending = {}
  BY DEF Finish, RegularInv
<1>2. /\ projections'[n].state = "ended"
      /\ \A k \in Projections \ {n} : projections'[k] = projections[k]
  BY DEF Finish, RegularInv, TypeInv, TypeOK
<1>3. Running' = Running \ {n}
  BY <1>2 DEF Running
<1>4. \A p \in Paths :
        \/ promised'[p] = promised[p]
        \/ promised'[p] = floor[n] /\ \E d \in projections[n].listed : p = Path(projections[n].ws, d)
  BY DEF Finish
<1>5. VaultRegular'
  BY <1>1, <1>4 DEF Finish, RegularInv, VaultRegular
<1>6. \A k \in Running' : \A p \in Paths : promised'[p] <= k
  BY <1>1, <1>3, <1>4 DEF RegularInv
<1>7. \A k \in Running' : k \in Running /\ projections'[k] = projections[k]
  BY <1>2, <1>3 DEF Running
<1> QED BY <1>5, <1>6, <1>7 DEF Finish, RegularInv

LEMMA RegularNext == RegularInv /\ [Next]_vars => RegularInv'
<1> SUFFICES ASSUME RegularInv, [Next]_vars PROVE RegularInv'
  OBVIOUS
<1>0. TypeInv /\ TypeInv'
  BY TypeNext DEF RegularInv
<1>1. ASSUME NEW m \in Memories, Remember(m) PROVE RegularInv'
  BY <1>0, <1>1 DEF Remember, RegularInv, VaultRegular, Running
<1>2. ASSUME NEW ws \in Workspaces, NEW principal \in Principals,
             NEW held \in SUBSET {r \in Records : Home[r] = ws}, Project(ws, principal, held)
      PROVE  RegularInv'
  BY <1>0, <1>2, RegularProject
<1>3. ASSUME NEW n \in Projections, NEW d \in Documents, BeginWrite(n, d) PROVE RegularInv'
  <2>1. \A k \in Projections :
          /\ projections'[k].state = projections[k].state /\ projections'[k].ws = projections[k].ws
          /\ projections'[k].listed = projections[k].listed /\ projections'[k].pending = projections[k].pending
    BY <1>0, <1>3 DEF BeginWrite, TypeInv, TypeOK
  <2>2. Running' = Running
    BY <2>1 DEF Running
  <2> QED BY <1>0, <1>3, <2>1, <2>2 DEF BeginWrite, RegularInv, VaultRegular, Running
<1>4. ASSUME NEW n \in Projections, EndWrite(n) PROVE RegularInv'
  BY <1>0, <1>4 DEF EndWrite, RegularInv, VaultRegular, Running
<1>5. ASSUME NEW n \in Projections, NEW t \in temporaries, Rename(n, t) PROVE RegularInv'
  BY <1>0, <1>5, RegularRename
<1>6. ASSUME NEW n \in Projections, Finish(n) PROVE RegularInv'
  BY <1>0, <1>6, RegularFinish
<1>7. ASSUME NEW n \in Projections, Fail(n) PROVE RegularInv'
  <2>1. Running' = Running \ {n} /\ \A k \in Running \ {n} : projections'[k] = projections[k]
    BY <1>0, <1>7, FailIsLost, FailedType
  <2> QED BY <1>0, <1>7, <2>1 DEF Fail, RegularInv, VaultRegular
<1>8. CASE Crash
  <2>1. Running' = {}
    BY <1>0, <1>8, CrashIsLost, FailedType
  <2> QED BY <1>0, <1>8, <2>1 DEF Crash, RegularInv, VaultRegular
<1>9. CASE UNCHANGED vars
  BY <1>0, <1>9 DEF vars, RegularInv, VaultRegular, Running
<1> QED BY <1>1, <1>2, <1>3, <1>4, <1>5, <1>6, <1>7, <1>8, <1>9 DEF Next

(* What an ended projection wrote is replaced, if by anything older, only  *)
(* by what a projection beside it had read.                                *)
THEOREM RegularHolds == Spec => []VaultRegular
<1>1. RegularInv => VaultRegular
  BY DEF RegularInv
<1> QED BY <1>1, RegularInit, RegularNext, PTL DEF Spec

-----------------------------------------------------------------------------
(* May be written to the folder of the workspace of projection n.          *)
Proper(n, d) ==
  /\ Home[d] = projections[n].ws
  /\ d \in Memories => IsVisible(d, projections[n].principal)

VisibleInv ==
  /\ TypeInv
  /\ \A n \in Running : \A d \in projections[n].listed : Proper(n, d)
  /\ \A t \in temporaries : Proper(t.by, t.document)
  /\ \A p \in Paths : files[p].by # 0 =>
       Proper(files[p].by, files[p].document) /\ p = Path(Home[files[p].document], files[p].document)

LEMMA VisibleInit == Init => VisibleInv
<1> SUFFICES ASSUME Init PROVE VisibleInv
  OBVIOUS
<1>1. Running = {}
  BY DEF Init, Running, NoProjection
<1> QED BY <1>1, TypeInit DEF Init, VisibleInv, NoFile

(* Whose a projection is and of what workspace never changes, and what it  *)
(* lists does not grow: a step that keeps this keeps the invariant, but    *)
(* for the files.                                                          *)
LEMMA ProperKept ==
  ASSUME VisibleInv, NEW n \in Projections, NEW d,
         projections'[n].ws = projections[n].ws, projections'[n].principal = projections[n].principal
  PROVE  Proper(n, d)' <=> Proper(n, d)
BY DEF Proper, IsVisible

LEMMA VisibleKept ==
  ASSUME VisibleInv, TypeInv', files' = files, temporaries' \subseteq temporaries, Running' \subseteq Running,
         \A n \in Projections :
           projections'[n].ws = projections[n].ws /\ projections'[n].principal = projections[n].principal,
         \A n \in Running' : projections'[n].listed \subseteq projections[n].listed
  PROVE  VisibleInv'
<1>1. \A n \in Projections : \A d : Proper(n, d)' <=> Proper(n, d)
  BY ProperKept
<1>2. \A t \in temporaries : t.by \in Projections
  BY DEF VisibleInv, TypeInv, TypeOK
<1>3. \A p \in Paths : files[p].by # 0 => files[p].by \in Projections
  BY VaultAssumption DEF VisibleInv, TypeInv, TypeOK, File, Projections
<1>4. \A n \in Running : n \in Projections
  BY DEF Running
<1> QED BY <1>1, <1>2, <1>3, <1>4 DEF VisibleInv

LEMMA VisibleProject ==
  ASSUME VisibleInv, TypeInv', NEW ws \in Workspaces, NEW principal \in Principals,
         NEW held \in SUBSET {r \in Records : Home[r] = ws}, Project(ws, principal, held)
  PROVE  VisibleInv'
<1>0. TypeInv /\ begun' = begun + 1 /\ begun' \in Projections /\ begun \in Nat
  BY VaultAssumption DEF VisibleInv, Project, TypeInv, TypeOK, Projections
<1>1. PICK new \in Projections : new = begun'
  BY <1>0
<1>2. /\ projections'[new].ws = ws /\ projections'[new].principal = principal
      /\ projections'[new].listed = held \cup Search(ws, principal) \cup {Index[ws]}
      /\ \A n \in Projections \ {new} : projections'[n] = projections[n]
  BY <1>0, <1>1 DEF Project, TypeInv, TypeOK
<1>3. \A d \in projections'[new].listed : Proper(new, d)'
  <2> SUFFICES ASSUME NEW d \in projections'[new].listed PROVE Proper(new, d)'
    OBVIOUS
  <2>1. CASE d \in held \/ d = Index[ws]
    <3>1. Home[d] = ws /\ d \notin Memories
      BY <2>1, VaultAssumption
    <3> QED BY <1>2, <3>1 DEF Proper
  <2>2. CASE d \in Search(ws, principal)
    <3>1. Home[d] = ws /\ IsVisible(d, principal)
      BY <2>2 DEF Search
    <3> QED BY <1>2, <3>1 DEF Proper, IsVisible
  <2> QED BY <1>2, <2>1, <2>2
<1>4. \A n \in Projections \ {new} : \A d : Proper(n, d)' <=> Proper(n, d)
  BY <1>2, ProperKept
<1>5. \A n \in Running' : n = new \/ (n \in Running /\ n \in Projections \ {new})
  BY <1>2 DEF Running
<1>6. \A t \in temporaries : t.by \in Projections \ {new}
  BY <1>0, <1>1 DEF TypeInv, TypeOK, Orderly, Projections
<1>7. \A p \in Paths : files[p].by # 0 => files[p].by \in Projections \ {new}
  <2> SUFFICES ASSUME NEW p \in Paths, files[p].by # 0 PROVE files[p].by \in Projections \ {new}
    OBVIOUS
  <2>1. files[p].by \in 0 .. MaxProjections /\ files[p].by <= begun
    BY <1>0 DEF TypeInv, TypeOK, Orderly, File
  <2> QED BY <1>0, <1>1, <2>1, VaultAssumption DEF Projections
<1>8. \A n \in Running' : \A d \in projections'[n].listed : Proper(n, d)'
  BY <1>2, <1>3, <1>4, <1>5 DEF VisibleInv
<1> QED BY <1>4, <1>6, <1>7, <1>8 DEF Project, VisibleInv

LEMMA VisibleRename ==
  ASSUME VisibleInv, TypeInv', NEW n \in Projections, NEW t \in temporaries, Rename(n, t)
  PROVE  VisibleInv'
<1> DEFINE path == t.name.path
<1>1. /\ TypeInv /\ n \in Running /\ t.by = n /\ path = Path(projections[n].ws, t.document) /\ path \in Paths
      /\ files' = [files EXCEPT ![path] = [by |-> n, document |-> t.document, whole |-> TRUE]]
  <2>1. TypeInv
    BY DEF VisibleInv
  <2> QED BY ONLY <2>1, RenameFacts, Rename(n, t), n \in Projections, t \in temporaries
<1>2. \A k \in Projections :
        /\ projections'[k].ws = projections[k].ws /\ projections'[k].principal = projections[k].principal
        /\ projections'[k].listed = projections[k].listed /\ projections'[k].state = projections[k].state
  <2>1. projections \in [Projections -> Record]
    BY <1>1 DEF TypeInv, TypeOK, Record
  <2>2. projections' = [projections EXCEPT ![n].writing = NoDocument,
                                           ![n].pending = @ \ {projections[n].writing}]
    BY DEF Rename, Wrote
  <2> QED BY <2>1, <2>2 DEF Record
<1>3. \A k \in Projections : \A d : Proper(k, d)' <=> Proper(k, d)
  BY <1>2, ProperKept
<1>4. Running' = Running /\ \A k \in Running : k \in Projections
  BY <1>2 DEF Running
<1>5. \A x \in temporaries : x.by \in Projections
  BY <1>1 DEF TypeInv, TypeOK
<1>6. \A p \in Paths : files[p].by # 0 => files[p].by \in Projections
  <2>1. files \in [Paths -> File]
    BY <1>1 DEF TypeInv, TypeOK
  <2>2. \A p \in Paths : files[p].by \in 0 .. MaxProjections
    BY <2>1 DEF File
  <2>3. MaxProjections \in Nat
    BY VaultAssumption
  <2> QED BY <2>2, <2>3 DEF Projections
<1>7. Proper(n, t.document) /\ Home[t.document] = projections[n].ws
  BY <1>1 DEF VisibleInv, Proper
<1>8. \A p \in Paths :
        (files[p].by # 0 =>
           Proper(files[p].by, files[p].document) /\ p = Path(Home[files[p].document], files[p].document))'
  <2> SUFFICES ASSUME NEW p \in Paths
               PROVE  (files[p].by # 0 =>
                         /\ Proper(files[p].by, files[p].document)
                         /\ p = Path(Home[files[p].document], files[p].document))'
    OBVIOUS
  <2>1. CASE p = path
    <3>1. files'[p].by = n /\ files'[p].document = t.document
      BY <1>1, <2>1 DEF TypeInv, TypeOK
    <3>2. Proper(n, t.document)'
      BY <1>1, <1>3, <1>7 DEF Running
    <3> QED BY <1>1, <1>7, <2>1, <3>1, <3>2 DEF Proper, IsVisible
  <2>2. CASE p # path
    <3>1. files'[p] = files[p]
      BY <1>1, <2>2 DEF TypeInv, TypeOK
    <3>2. files[p].by # 0 => files[p].by \in Projections
      BY <1>6
    <3> QED BY <1>2, <3>1, <3>2 DEF VisibleInv, Proper, IsVisible
  <2> QED BY <2>1, <2>2
<1>9. \A k \in Running' : \A d \in projections'[k].listed : Proper(k, d)'
  BY <1>2, <1>3, <1>4 DEF VisibleInv
<1>10. \A x \in temporaries' : Proper(x.by, x.document)'
  BY <1>3, <1>5 DEF Rename, VisibleInv
<1> QED BY <1>8, <1>9, <1>10 DEF VisibleInv

LEMMA VisibleNext == VisibleInv /\ [Next]_vars => VisibleInv'
<1> SUFFICES ASSUME VisibleInv, [Next]_vars PROVE VisibleInv'
  OBVIOUS
<1>0. TypeInv /\ TypeInv'
  BY TypeNext DEF VisibleInv
<1>1. ASSUME NEW m \in Memories, Remember(m) PROVE VisibleInv'
  BY <1>0, <1>1, VisibleKept DEF Remember, Running
<1>2. ASSUME NEW ws \in Workspaces, NEW principal \in Principals,
             NEW held \in SUBSET {r \in Records : Home[r] = ws}, Project(ws, principal, held)
      PROVE  VisibleInv'
  BY <1>0, <1>2, VisibleProject
<1>3. ASSUME NEW n \in Projections, NEW d \in Documents, BeginWrite(n, d) PROVE VisibleInv'
  <2> DEFINE t == [name |-> Temporary(n, d), by |-> n, document |-> d, whole |-> FALSE]
  <2>1. \A k \in Projections :
          /\ projections'[k].state = projections[k].state /\ projections'[k].ws = projections[k].ws
          /\ projections'[k].listed = projections[k].listed /\ projections'[k].principal = projections[k].principal
    BY <1>0, <1>3 DEF BeginWrite, TypeInv, TypeOK
  <2>2. Running' = Running /\ \A k \in Running : k \in Projections
    BY <2>1 DEF Running
  <2>3. \A k \in Projections : \A e : Proper(k, e)' <=> Proper(k, e)
    BY <2>1, ProperKept
  <2>4. Proper(n, d)
    BY <1>0, <1>3 DEF BeginWrite, VisibleInv, TypeInv, Orderly
  <2>5. temporaries' \subseteq temporaries \cup {t} /\ t.by = n /\ t.document = d
    BY <1>3 DEF BeginWrite
  <2>6. \A x \in temporaries : x.by \in Projections
    BY <1>0 DEF TypeInv, TypeOK
  <2>7. \A x \in temporaries' : Proper(x.by, x.document)'
    BY <2>3, <2>4, <2>5, <2>6 DEF VisibleInv
  <2>8. \A p \in Paths : files[p].by # 0 => files[p].by \in Projections
    BY <1>0, VaultAssumption DEF TypeInv, TypeOK, File, Projections
  <2> QED BY <1>0, <1>3, <2>1, <2>2, <2>3, <2>7, <2>8 DEF BeginWrite, VisibleInv
<1>4. ASSUME NEW n \in Projections, EndWrite(n) PROVE VisibleInv'
  <2>1. PICK t \in temporaries : temporaries' = (temporaries \ {t}) \cup {[t EXCEPT !.whole = TRUE]}
    BY <1>4 DEF EndWrite
  <2>2. t \in Temporaries
    BY <1>0 DEF TypeInv, TypeOK, Temporaries
  <2>3. \A x \in temporaries' : \E y \in temporaries : x.by = y.by /\ x.document = y.document
    BY <2>1, <2>2 DEF Temporaries
  <2> QED BY <1>0, <1>4, <2>3 DEF EndWrite, VisibleInv, Proper, Running, IsVisible
<1>5. ASSUME NEW n \in Projections, NEW t \in temporaries, Rename(n, t) PROVE VisibleInv'
  BY <1>0, <1>5, VisibleRename
<1>6. ASSUME NEW n \in Projections, Finish(n) PROVE VisibleInv'
  <2>1. /\ projections'[n].state = "ended"
        /\ \A k \in Projections \ {n} : projections'[k] = projections[k]
        /\ projections'[n].ws = projections[n].ws /\ projections'[n].principal = projections[n].principal
    BY <1>0, <1>6 DEF Finish, TypeInv, TypeOK
  <2>2. Running' = Running \ {n}
    BY <1>6, <2>1 DEF Finish, Running
  <2> QED BY <1>0, <1>6, <2>1, <2>2, VisibleKept DEF Finish, Running
<1>7. ASSUME NEW n \in Projections, Fail(n) PROVE VisibleInv'
  <2>1. /\ Running' = Running \ {n} /\ \A k \in Running \ {n} : projections'[k] = projections[k]
        /\ \A k \in Projections : projections'[k].ws = projections[k].ws /\ projections'[k].principal = projections[k].principal
    BY <1>0, <1>7, FailIsLost, FailedType
  <2> QED BY <1>0, <1>7, <2>1, VisibleKept DEF Fail
<1>8. CASE Crash
  <2>1. /\ Running' = {}
        /\ \A k \in Projections : projections'[k].ws = projections[k].ws /\ projections'[k].principal = projections[k].principal
    BY <1>0, <1>8, CrashIsLost, FailedType
  <2> QED BY <1>0, <1>8, <2>1, VisibleKept DEF Crash
<1>9. CASE UNCHANGED vars
  BY <1>0, <1>9, VisibleKept DEF vars, Running
<1> QED BY <1>1, <1>2, <1>3, <1>4, <1>5, <1>6, <1>7, <1>8, <1>9 DEF Next

(* What lies in a folder is of a workspace of that folder, and no private  *)
(* memory is written for anybody but its owner.                            *)
THEOREM OnlyVisibleOnDisk == Spec => []OnDiskVisible
<1>1. VisibleInv => OnDiskVisible
  BY DEF VisibleInv, OnDiskVisible, Proper, IsVisible
<1> QED BY <1>1, VisibleInit, VisibleNext, PTL DEF Spec
=============================================================================
