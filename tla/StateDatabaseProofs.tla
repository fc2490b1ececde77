------------------------ MODULE StateDatabaseProofs ------------------------
(* Theorems about StateDatabase, for every set of foreign backups and all  *)
(* bounds.                                                                 *)
EXTENDS StateDatabase, TLAPS

-----------------------------------------------------------------------------
(* The steps of a restore: what it has copied, moved and reported so far.  *)
Copying == {"copy", "copy with force", "verify", "verify with force", "aside"}

Progress ==
  /\ step # "none" => server = "down" /\ snapshot = Missing
  /\ step \in {"verify", "verify with force"} => temporary \in {source, Torn}
  /\ step \in {"aside", "place"} => temporary = source
  /\ step \in {"discard", "logs", "index"} =>
       temporary = Missing /\ db = source /\ expected = source.data
  /\ step \in Copying \cup {"logs", "index"} => previous = Missing
  /\ step = "index" => wal = Missing /\ own
  /\ step \in Copying \cup {"place", "fallback", "discard", "logs", "index"} => outcome = "none"

(* Where the file is that the restore found, and what lies in its place.   *)
Placed ==
  /\ step \in Copying => db = target
  /\ step \in {"place", "fallback"} =>
       \/ db = target /\ previous = Missing
       \/ db = Missing /\ previous = target
  /\ step \in {"clean", "back"} => IF MovedAside THEN previous = target ELSE db \in {target, source}
  /\ step = "end" => db \in {target, source} \/ MovedAside
  /\ step # "none" /\ outcome = "restored" => db = source /\ wal = Missing

(* Where the last committed write is, or what was restored since.          *)
Kept ==
  own =>
    IF db # Missing THEN Under(db, wal).data = expected
    ELSE IF previous # Missing THEN Under(previous, wal).data = expected
    ELSE expected = 0 \/ (left # Missing /\ Under(left, wal).data = expected)

(* A half done restore that has ended is remembered, and the server runs   *)
(* on a file it can use.                                                   *)
Served ==
  /\ step = "none" /\ HalfDone => halfDone
  /\ server # "down" => db # Missing
  /\ server = "migrating" /\ own => Under(db, wal).schema <= CURRENT_SCHEMA_VERSION
  /\ server = "up" /\ own => Under(db, wal).schema = CURRENT_SCHEMA_VERSION

(* What a restore leaves behind, and how many operations must have thrown  *)
(* before it leaves the database moved aside.                              *)
Left ==
  /\ outcome = "restored" => db # Missing /\ own /\ temporary = Missing /\ previous = Missing
  /\ step = "fallback" => failures >= 1
  /\ step \in {"clean", "back"} /\ MovedAside => failures >= 2
  /\ step = "end" /\ MovedAside => failures >= 3
  /\ step = "none" /\ outcome = "failed" /\ MovedAside => failures >= 3

DatabaseInv == TypeOK /\ Progress /\ Placed /\ Kept /\ Served /\ Left

LEMMA Distinct ==
  /\ Missing \notin Contents /\ Torn \notin Contents /\ Garbled \notin Contents
  /\ Missing # Torn /\ Torn # Garbled /\ Garbled # Missing
  /\ MaxWrites \in Nat /\ MaxCrashes \in Nat /\ MaxFailures \in Nat /\ MaxRestores \in Nat
BY DatabaseAssumption

(* A database with its log is whole exactly if the log is its own.         *)
LEMMA CurrentFacts ==
  ASSUME TypeOK
  PROVE  /\ own /\ db # Missing => Current = Under(db, wal) /\ Current \in Contents
         /\ Current \in Contents => own
         /\ own => Current \in Files
BY Distinct DEF TypeOK, Files, Current, Under

LEMMA Bounds ==
  ASSUME TypeOK
  PROVE  /\ writes \in 0 .. MaxWrites /\ crashes \in 0 .. MaxCrashes
         /\ failures \in 0 .. MaxFailures /\ restores \in 0 .. MaxRestores
BY DEF TypeOK

(* A bound that was not reached.                                           *)
LEMMA Within == ASSUME NEW max \in Nat, NEW n \in 0 .. max, n < max PROVE n + 1 \in 0 .. max
OBVIOUS

LEMMA InitInv == Init => DatabaseInv
<1> SUFFICES ASSUME Init PROVE DatabaseInv
  OBVIOUS
<1>1. Empty \in Contents
  BY Distinct DEF Empty, Contents, CURRENT_SCHEMA_VERSION
<1>2. /\ 0 \in 0 .. MaxWrites /\ 0 \in 0 .. MaxCrashes /\ 0 \in 0 .. MaxFailures /\ 0 \in 0 .. MaxRestores
      /\ backup \in Files
  BY Distinct, DatabaseAssumption DEF Init, Files
<1>3. TypeOK
  BY <1>1, <1>2 DEF Init, TypeOK, Files
<1>4. Progress /\ Placed /\ Kept /\ Served /\ Left
  BY DEF Init, Progress, Kept, Served, Left, Placed, Copying, HalfDone, MovedAside
<1> QED BY <1>3, <1>4 DEF DatabaseInv

-----------------------------------------------------------------------------
(* The server.                                                             *)
LEMMA CommitFacts ==
  ASSUME DatabaseInv, NEW contents \in Contents, Commit(contents)
  PROVE  wal' = contents /\ own' = TRUE /\ own /\ db' = db /\ Under(db', wal') = contents /\ contents # Missing
BY CurrentFacts, Distinct DEF Commit, DatabaseInv, Under

LEMMA OpenInv == DatabaseInv /\ Open => DatabaseInv'
<1> SUFFICES ASSUME DatabaseInv, Open PROVE DatabaseInv'
  OBVIOUS
<1> USE Distinct DEF DatabaseInv
<1>1. Empty \in Contents /\ Empty.data = 0 /\ Empty.schema = 0 /\ Empty # Missing
  BY DEF Empty, Contents, CURRENT_SCHEMA_VERSION
<1>2. CASE db = Missing
  <2>1. db' = Empty /\ wal' = Missing /\ own' = TRUE /\ expected' = (IF halfDone THEN 0 ELSE expected)
    BY <1>2 DEF Open
  <2>2. ~halfDone => expected = 0
    BY <1>2 DEF Open, Served, HalfDone, Kept
  <2>3. TypeOK'
    BY <1>1, <2>1 DEF Open, TypeOK, Files, backupVars, restoreVars
  <2>4. Kept'
    BY <1>1, <2>1, <2>2 DEF Kept, Under
  <2>5. Served' /\ Progress' /\ Left' /\ Placed'
    BY <1>1, <2>1 DEF Open, Served, Progress, Left, Placed, Under, HalfDone, MovedAside, Copying, backupVars,
       restoreVars, CURRENT_SCHEMA_VERSION
  <2> QED BY <2>3, <2>4, <2>5
<1>3. CASE db # Missing
  <2>1. UNCHANGED <<db, wal, own, expected>> /\ (Current \in Contents => Current.schema <= CURRENT_SCHEMA_VERSION)
    BY <1>3 DEF Open
  <2>2. TypeOK' /\ Kept' /\ Progress' /\ Left' /\ Placed'
    BY <2>1 DEF Open, TypeOK, Kept, Progress, Left, Placed, Files, Under, MovedAside, Copying, backupVars, restoreVars
  <2>3. Served'
    BY <1>3, <2>1, CurrentFacts DEF Open, Served, Under, HalfDone, backupVars, restoreVars
  <2> QED BY <2>2, <2>3
<1> QED BY <1>2, <1>3

LEMMA MigrateInv == DatabaseInv /\ Migrate => DatabaseInv'
<1> SUFFICES ASSUME DatabaseInv, Migrate PROVE DatabaseInv'
  OBVIOUS
<1> USE Distinct DEF DatabaseInv
<1>0. db # Missing /\ step = "none"
  BY DEF Migrate, Served, Progress
<1>1. CASE Current \in Contents /\ Current.schema < CURRENT_SCHEMA_VERSION
  <2> DEFINE next == [Current EXCEPT !.schema = @ + 1]
  <2>1. /\ next \in Contents /\ next.data = Current.data
        /\ next.schema = Current.schema + 1 /\ next.schema <= CURRENT_SCHEMA_VERSION
    BY <1>1 DEF Contents, CURRENT_SCHEMA_VERSION
  <2>2. Commit(next) /\ server' = "migrating"
    BY <1>1 DEF Migrate
  <2>3. wal' = next /\ own' = TRUE /\ own /\ db' = db /\ Under(db', wal') = next
    BY <2>1, <2>2, CommitFacts
  <2>4. Current = Under(db, wal)
    BY <1>0, <2>3, CurrentFacts
  <2>5. TypeOK'
    BY <2>1, <2>2, <2>3 DEF Migrate, TypeOK, Files, backupVars, restoreVars
  <2>6. Kept'
    BY <1>0, <2>1, <2>3, <2>4 DEF Migrate, Kept
  <2>7. Served' /\ Progress' /\ Left' /\ Placed'
    BY <1>0, <2>1, <2>2, <2>3 DEF Migrate, Served, Progress, Left, Placed, HalfDone, MovedAside, Copying, backupVars,
       restoreVars
  <2> QED BY <2>5, <2>6, <2>7
<1>2. CASE ~(Current \in Contents /\ Current.schema < CURRENT_SCHEMA_VERSION)
  <2>1. server' = "up" /\ UNCHANGED <<db, wal, own>>
    BY <1>2 DEF Migrate
  <2>2. own => Under(db, wal) \in Contents /\ Under(db, wal).schema = CURRENT_SCHEMA_VERSION
    BY <1>0, <1>2, CurrentFacts DEF Migrate, Served, Contents, CURRENT_SCHEMA_VERSION
  <2>3. TypeOK' /\ Kept' /\ Progress' /\ Left' /\ Placed'
    BY <1>0, <2>1 DEF Migrate, TypeOK, Kept, Progress, Left, Placed, Files, Under, MovedAside, Copying, backupVars, restoreVars
  <2>4. Served'
    BY <1>0, <2>1, <2>2 DEF Migrate, Served, Under, HalfDone, backupVars, restoreVars
  <2> QED BY <2>3, <2>4
<1> QED BY <1>1, <1>2

LEMMA WriteInv == DatabaseInv /\ Write => DatabaseInv'
<1> SUFFICES ASSUME DatabaseInv, Write PROVE DatabaseInv'
  OBVIOUS
<1> USE Distinct DEF DatabaseInv
<1> DEFINE next == [Current EXCEPT !.data = writes']
<1>a. writes' \in 0 .. MaxWrites
  BY Bounds, Within DEF Write
<1>0. db # Missing /\ step = "none" /\ server = "up" /\ writes' \in 0 .. MaxWrites
  BY <1>a DEF Write, Served, Progress
<1>1. Current \in Contents
  BY DEF Write, Commit
<1>2. next \in Contents /\ next.data = writes' /\ next.schema = Current.schema
  BY <1>0, <1>1 DEF Contents
<1>3. wal' = next /\ own' = TRUE /\ own /\ db' = db /\ Under(db', wal') = next
  BY <1>2, CommitFacts DEF Write
<1>4. Current = Under(db, wal)
  BY <1>0, <1>3, CurrentFacts
<1>5. TypeOK'
  BY <1>0, <1>2, <1>3 DEF Write, TypeOK, Files, backupVars, restoreVars
<1>6. Kept'
  BY <1>0, <1>2, <1>3 DEF Write, Kept
<1>7. Served' /\ Progress' /\ Left' /\ Placed'
  BY <1>0, <1>2, <1>3, <1>4 DEF Write, Served, Progress, Left, Placed, HalfDone, MovedAside, Copying, backupVars, restoreVars
<1> QED BY <1>5, <1>6, <1>7

(* Moving the log into the database changes neither's meaning.             *)
LEMMA MergeInv ==
  ASSUME DatabaseInv, own, server = "up", server' \in {"up", "down"}, Current \in Contents,
         db' = Current, wal' \in {wal, Missing}, own' = TRUE,
         snapshot' \in {snapshot, Current}, backup' \in Files \cup {Torn},
         UNCHANGED <<restoreVars, writes, crashes, failures, restores, expected, halfDone>>
  PROVE  DatabaseInv'
<1> USE Distinct DEF DatabaseInv
<1>0. db # Missing /\ step = "none"
  BY DEF Served, Progress
<1>1. Current = Under(db, wal) /\ Under(db', wal') = Current /\ db' # Missing
  BY <1>0, CurrentFacts DEF Under
<1>2. TypeOK'
  <2>1. {db', wal', previous', left', target', snapshot'} \subseteq Files
    BY DEF TypeOK, Files, restoreVars
  <2>2. temporary' \in Files \cup {Torn} /\ source' \in Contents
    BY DEF TypeOK, restoreVars
  <2> QED BY <2>1, <2>2 DEF TypeOK, restoreVars
<1>3. Kept'
  BY <1>0, <1>1 DEF Kept
<1>4. Served' /\ Progress' /\ Left' /\ Placed'
  BY <1>0, <1>1 DEF Served, Progress, Left, Placed, HalfDone, MovedAside, Copying, restoreVars
<1> QED BY <1>2, <1>3, <1>4

LEMMA CheckpointInv == DatabaseInv /\ Checkpoint => DatabaseInv'
<1> SUFFICES ASSUME DatabaseInv, Checkpoint PROVE DatabaseInv'
  OBVIOUS
<1>1. own /\ Current = wal /\ Current \in Contents
  BY DEF Checkpoint, DatabaseInv, TypeOK, Files, Current, Under
<1>2. backup \in Files \cup {Torn}
  BY DEF DatabaseInv, TypeOK
<1> QED BY <1>1, <1>2, MergeInv DEF Checkpoint, backupVars, DatabaseInv, TypeOK

LEMMA CloseInv == DatabaseInv /\ Close => DatabaseInv'
<1> SUFFICES ASSUME DatabaseInv, Close PROVE DatabaseInv'
  OBVIOUS
<1>1. own /\ backup \in Files \cup {Torn}
  BY CurrentFacts DEF Close, DatabaseInv, TypeOK
<1> QED BY <1>1, MergeInv DEF Close, backupVars

LEMMA BackupInv == ASSUME DatabaseInv, NEW partial \in {Empty, Torn}, Backup(partial) PROVE DatabaseInv'
<1>1. own /\ Empty \in Contents
  BY CurrentFacts, Distinct DEF Backup, DatabaseInv, Empty, Contents, CURRENT_SCHEMA_VERSION
<1> QED BY <1>1, MergeInv DEF Backup, DatabaseInv, TypeOK, Files

(* Steps that leave the database and the restore alone.                    *)
LEMMA BesideInv ==
  ASSUME DatabaseInv, server' \in {server, "down"}, backup' \in Files \cup {Torn}, snapshot' \in {snapshot, Missing},
         crashes' \in 0 .. MaxCrashes,
         UNCHANGED <<db, wal, own, restoreVars, writes, failures, restores, expected, halfDone>>
  PROVE  DatabaseInv'
<1>1. TypeOK'
  <2>1. TypeOK
    BY DEF DatabaseInv
  <2>2. {db', wal', previous', left', target', snapshot'} \subseteq Files
    BY <2>1 DEF TypeOK, Files, restoreVars
  <2>3. temporary' \in Files \cup {Torn} /\ source' \in Contents
    BY <2>1 DEF TypeOK, restoreVars
  <2>4. UNCHANGED <<own, halfDone, step, outcome, writes, expected, failures, restores>>
    BY DEF restoreVars
  <2>5. server' \in {"down", "migrating", "up"} /\ backup' \in Files \cup {Torn} /\ crashes' \in 0 .. MaxCrashes
    BY <2>1 DEF TypeOK
  <2> QED BY ONLY <2>1, <2>2, <2>3, <2>4, <2>5 DEF TypeOK
<1>2. Progress' /\ Left' /\ Placed'
  <2>1. UNCHANGED <<step, db, wal, own, temporary, previous, source, target, outcome, failures, expected, left>>
    BY DEF restoreVars
  <2>2. Progress'
    <3>1. Progress /\ (step # "none" => server' = "down" /\ snapshot' = Missing)
      BY DEF DatabaseInv, Progress
    <3> QED BY ONLY <2>1, <3>1 DEF Progress
  <2>3. Left'
    BY <2>1 DEF DatabaseInv, Left, MovedAside
  <2>4. Placed'
    BY <2>1 DEF DatabaseInv, Placed, MovedAside, Copying
  <2> QED BY <2>2, <2>3, <2>4
<1>3. Kept'
  BY DEF DatabaseInv, Kept, Under, restoreVars
<1>4. Served'
  BY DEF DatabaseInv, Served, Under, HalfDone, restoreVars
<1> QED BY <1>1, <1>2, <1>3, <1>4 DEF DatabaseInv

LEMMA OthersInv == DatabaseInv /\ (ServerDies \/ BackupEnds \/ BackupDies \/ Discard) => DatabaseInv'
<1> SUFFICES ASSUME DatabaseInv, ServerDies \/ BackupEnds \/ BackupDies \/ Discard PROVE DatabaseInv'
  OBVIOUS
<1>1. backup' \in Files \cup {Torn}
  BY DEF ServerDies, BackupEnds, BackupDies, Discard, DatabaseInv, TypeOK, Files, backupVars
<1>2. crashes \in 0 .. MaxCrashes /\ crashes' \in {crashes, crashes + 1} /\ (crashes' = crashes \/ crashes < MaxCrashes)
  BY DEF ServerDies, BackupEnds, BackupDies, Discard, DatabaseInv, TypeOK
<1>3. crashes' \in 0 .. MaxCrashes
  BY <1>2, Distinct
<1> QED BY <1>1, <1>3, BesideInv DEF ServerDies, BackupEnds, BackupDies, Discard, serverVars, backupVars

-----------------------------------------------------------------------------
(* The restore.                                                            *)
LEMMA RestoreInv == ASSUME DatabaseInv, NEW force \in BOOLEAN, Restore(force) PROVE DatabaseInv'
<1> USE Distinct DEF DatabaseInv
<1>1. backup \in Contents /\ previous' = Missing /\ temporary' = Missing /\ outcome' = "none"
  BY DEF Restore, TypeOK, Files
<1>2. left' = IF previous # Missing THEN previous ELSE left
  BY DEF Restore
<1>a. restores' \in 0 .. MaxRestores
  BY Bounds, Within DEF Restore
<1>b. left' \in Files
  BY <1>2 DEF TypeOK
<1>3. TypeOK'
  BY <1>1, <1>a, <1>b DEF Restore, TypeOK, Files, serverVars, backupVars
<1>4. Kept'
  BY <1>1, <1>2 DEF Restore, Kept, Under, serverVars
<1>5. Progress' /\ Served' /\ Left' /\ Placed'
  BY <1>1 DEF Restore, Progress, Served, Left, Placed, Copying, HalfDone, MovedAside, serverVars, backupVars
<1> QED BY <1>3, <1>4, <1>5

(* What every file operation leaves alone.                                 *)
LEMMA OperationFacts ==
  ASSUME DatabaseInv, NEW at, NEW due \in BOOLEAN, NEW ok \in BOOLEAN, NEW next, NEW recovery,
         at # "none", Operation(at, due, ok, next, recovery)
  PROVE  /\ step = at /\ step' = IF ok THEN next ELSE recovery
         /\ server' = server /\ server = "down" /\ backup' = backup /\ snapshot' = snapshot /\ snapshot = Missing
         /\ UNCHANGED <<left, source, target>> /\ writes' = writes /\ crashes' = crashes /\ restores' = restores
         /\ failures' \in 0 .. MaxFailures /\ failures' >= failures /\ failures \in Nat
         /\ ~ok => due /\ failures' = failures + 1
<1>1. /\ step = at /\ server = "down" /\ snapshot = Missing
  BY DEF Operation, DatabaseInv, Progress
<1>2. failures' \in 0 .. MaxFailures /\ failures' >= failures /\ failures \in Nat
  <2>1. failures \in 0 .. MaxFailures /\ MaxFailures \in Nat
    BY Bounds, Distinct DEF DatabaseInv
  <2>2. failures' = failures \/ (failures' = failures + 1 /\ failures < MaxFailures)
    BY DEF Operation
  <2> QED BY <2>1, <2>2
<1> QED BY <1>1, <1>2 DEF Operation, backupVars

LEMMA CopyInv ==
  ASSUME DatabaseInv, NEW ok \in BOOLEAN, NEW copied \in {source, Torn, Missing}, ok => copied # Missing, Copy(ok, copied)
  PROVE  DatabaseInv'
<1> USE Distinct DEF DatabaseInv
<1>1. PICK at \in {"copy", "copy with force"} :
        Operation(at, TRUE, ok, IF at = "copy" THEN "verify" ELSE "verify with force", "clean")
  BY DEF Copy
<1>2. /\ step = at /\ step' \in {"verify", "verify with force", "clean"} /\ (ok <=> step' # "clean")
      /\ server' = server /\ server = "down" /\ backup' = backup /\ snapshot' = snapshot /\ snapshot = Missing
      /\ UNCHANGED <<left, source, target>> /\ writes' = writes /\ crashes' = crashes /\ restores' = restores
      /\ failures' \in 0 .. MaxFailures /\ failures' >= failures /\ failures \in Nat
  <2> DEFINE next == IF at = "copy" THEN "verify" ELSE "verify with force"
  <2>1. next \in {"verify", "verify with force"} /\ at # "none" /\ TRUE \in BOOLEAN
    OBVIOUS
  <2>2. Operation(at, TRUE, ok, next, "clean")
    BY <1>1
  <2> HIDE DEF next
  <2> QED BY <2>1, <2>2, OperationFacts
<1>3. /\ temporary' = copied /\ copied \in Files \cup {Torn} /\ previous = Missing /\ outcome = "none"
      /\ UNCHANGED <<db, wal, own, previous, outcome, expected, halfDone>>
  BY <1>2 DEF Copy, Progress, Copying, TypeOK, Files
<1>4. TypeOK'
  BY <1>2, <1>3 DEF TypeOK, Files
<1>5. Progress'
  BY <1>2, <1>3 DEF Progress, Copying
<1>6. Kept'
  BY <1>2, <1>3 DEF Kept, Under
<1>7. Served' /\ Left' /\ Placed'
  BY <1>2, <1>3 DEF Served, Left, Placed, Copying, MovedAside
<1> QED BY <1>4, <1>5, <1>6, <1>7

LEMMA VerifyInv == DatabaseInv /\ Verify => DatabaseInv'
<1> SUFFICES ASSUME DatabaseInv, Verify PROVE DatabaseInv'
  OBVIOUS
<1> USE Distinct DEF DatabaseInv
<1>1. /\ step \in {"verify", "verify with force"} /\ step' \in {"place", "aside", "clean"}
      /\ step' = "aside" => step = "verify with force"
      /\ step' # "clean" => temporary # Torn
      /\ server' = server /\ server = "down" /\ backup' = backup /\ snapshot' = snapshot /\ snapshot = Missing
      /\ UNCHANGED <<left, source, target>> /\ writes' = writes /\ crashes' = crashes /\ restores' = restores
      /\ failures' = failures /\ failures \in Nat
  <2>1. failures \in Nat
    BY Bounds
  <2>2. \E at \in {"verify", "verify with force"} :
          Operation(at, TRUE, TRUE,
            IF temporary = Torn THEN "clean" ELSE IF at = "verify" THEN "place" ELSE "aside", "clean")
    BY DEF Verify
  <2> QED BY <2>1, <2>2 DEF Operation, Progress, backupVars
<1>2. /\ previous = Missing /\ outcome = "none" /\ temporary \in {source, Torn}
      /\ UNCHANGED <<db, wal, own, temporary, previous, outcome, expected, halfDone>>
  BY <1>1 DEF Verify, Progress, Copying
<1>3. TypeOK'
  BY <1>1, <1>2 DEF TypeOK, Files
<1>4. Progress'
  BY <1>1, <1>2 DEF Progress, Copying
<1>5. Kept'
  BY <1>1, <1>2 DEF Kept, Under
<1>6. Served' /\ Left' /\ Placed'
  BY <1>1, <1>2 DEF Served, Left, Placed, Copying, MovedAside
<1> QED BY <1>3, <1>4, <1>5, <1>6

LEMMA AsideInv == ASSUME DatabaseInv, NEW ok \in BOOLEAN, Aside(ok) PROVE DatabaseInv'
<1> USE Distinct DEF DatabaseInv
<1>1. (db # Missing) \in BOOLEAN /\ Operation("aside", (db # Missing), ok, "place", "clean")
  BY DEF Aside
<1>2. /\ step = "aside" /\ step' = IF ok THEN "place" ELSE "clean"
      /\ server' = server /\ server = "down" /\ backup' = backup /\ snapshot' = snapshot /\ snapshot = Missing
      /\ UNCHANGED <<left, source, target>> /\ writes' = writes /\ crashes' = crashes /\ restores' = restores
      /\ failures' \in 0 .. MaxFailures /\ failures' >= failures /\ failures \in Nat
      /\ ~ok => (db # Missing) /\ failures' = failures + 1
  <2> DEFINE due == db # Missing
  <2>1. due \in BOOLEAN /\ "aside" # "none"
    OBVIOUS
  <2> HIDE DEF due
  <2>2. (db # Missing) <=> due
    BY DEF due
  <2> QED BY <1>1, <2>1, <2>2, OperationFacts
<1>3. /\ previous = Missing /\ outcome = "none" /\ temporary = source /\ source # Missing
      /\ IF ok /\ db # Missing THEN previous' = db /\ db' = Missing ELSE previous' = previous /\ db' = db
      /\ UNCHANGED <<wal, own, temporary, outcome, expected, halfDone>>
  BY <1>2 DEF Aside, Progress, Copying, TypeOK
<1>4. TypeOK'
  BY <1>2, <1>3 DEF TypeOK, Files
<1>5. Progress'
  BY <1>2, <1>3 DEF Progress, Copying
<1>6. Kept'
  BY <1>2, <1>3 DEF Kept, Under
<1>7. Served' /\ Left' /\ Placed'
  BY <1>2, <1>3 DEF Served, Left, Placed, Copying, MovedAside
<1> QED BY <1>4, <1>5, <1>6, <1>7

LEMMA PlaceInv == ASSUME DatabaseInv, NEW ok \in BOOLEAN, Place(ok) PROVE DatabaseInv'
<1> USE Distinct DEF DatabaseInv
<1>1. TRUE \in BOOLEAN /\ Operation("place", TRUE, ok, "discard", "fallback")
  BY DEF Place
<1>2. /\ step = "place" /\ step' = IF ok THEN "discard" ELSE "fallback"
      /\ server' = server /\ server = "down" /\ backup' = backup /\ snapshot' = snapshot /\ snapshot = Missing
      /\ UNCHANGED <<left, source, target>> /\ writes' = writes /\ crashes' = crashes /\ restores' = restores
      /\ failures' \in 0 .. MaxFailures /\ failures' >= failures /\ failures \in Nat
      /\ ~ok => TRUE /\ failures' = failures + 1
  BY <1>1, OperationFacts
<1>3. /\ outcome = "none" /\ temporary = source /\ source \in Contents /\ source # Missing
      /\ source.data \in 0 .. MaxWrites
      /\ IF ok
         THEN db' = temporary /\ temporary' = Missing /\ own' = (wal = Missing) /\ expected' = source.data
         ELSE UNCHANGED <<db, temporary, own, expected>>
      /\ UNCHANGED <<wal, previous, outcome, halfDone>>
  BY <1>2 DEF Place, Progress, TypeOK, Contents
<1>4. TypeOK'
  <2>1. own' \in BOOLEAN /\ expected' \in 0 .. MaxWrites
    BY <1>3 DEF TypeOK
  <2>2. db' \in Files /\ temporary' \in Files \cup {Torn}
    BY <1>3 DEF TypeOK, Files
  <2>3. step' \in {"discard", "fallback"}
    BY <1>2
  <2> QED BY <1>2, <1>3, <2>1, <2>2, <2>3 DEF TypeOK, Files
<1>5. Progress'
  BY <1>2, <1>3 DEF Progress, Copying
<1>6. Kept'
  BY <1>2, <1>3 DEF Kept, Under
<1>7. Served' /\ Left' /\ Placed'
  BY <1>2, <1>3 DEF Served, Left, Placed, Copying, MovedAside
<1> QED BY <1>4, <1>5, <1>6, <1>7

LEMMA FallbackInv == ASSUME DatabaseInv, NEW ok \in BOOLEAN, Fallback(ok) PROVE DatabaseInv'
<1> USE Distinct DEF DatabaseInv
<1>1. MovedAside \in BOOLEAN /\ Operation("fallback", MovedAside, ok, "clean", "clean")
  BY DEF Fallback, MovedAside
<1>2. /\ step = "fallback" /\ step' = IF ok THEN "clean" ELSE "clean"
      /\ server' = server /\ server = "down" /\ backup' = backup /\ snapshot' = snapshot /\ snapshot = Missing
      /\ UNCHANGED <<left, source, target>> /\ writes' = writes /\ crashes' = crashes /\ restores' = restores
      /\ failures' \in 0 .. MaxFailures /\ failures' >= failures /\ failures \in Nat
      /\ ~ok => MovedAside /\ failures' = failures + 1
  BY <1>1, OperationFacts
<1>3. /\ outcome = "none"
      /\ IF ok /\ previous # Missing /\ db = Missing
         THEN db' = previous /\ previous' = Missing ELSE db' = db /\ previous' = previous
      /\ UNCHANGED <<wal, own, temporary, outcome, expected, halfDone>>
  BY <1>2 DEF Fallback, MoveBack, MovedAside, Progress
<1>4. TypeOK'
  BY <1>2, <1>3 DEF TypeOK, Files
<1>5. Progress'
  BY <1>2, <1>3 DEF Progress, Copying
<1>6. Kept'
  BY <1>2, <1>3 DEF Kept, Under
<1>7. Served' /\ Left' /\ Placed'
  BY <1>2, <1>3 DEF Served, Left, Placed, Copying, MovedAside
<1> QED BY <1>4, <1>5, <1>6, <1>7

LEMMA DiscardPreviousInv == ASSUME DatabaseInv, NEW ok \in BOOLEAN, DiscardPrevious(ok) PROVE DatabaseInv'
<1> USE Distinct DEF DatabaseInv
<1>1. (previous # Missing) \in BOOLEAN /\ Operation("discard", (previous # Missing), ok, "logs", "clean")
  BY DEF DiscardPrevious
<1>2. /\ step = "discard" /\ step' = IF ok THEN "logs" ELSE "clean"
      /\ server' = server /\ server = "down" /\ backup' = backup /\ snapshot' = snapshot /\ snapshot = Missing
      /\ UNCHANGED <<left, source, target>> /\ writes' = writes /\ crashes' = crashes /\ restores' = restores
      /\ failures' \in 0 .. MaxFailures /\ failures' >= failures /\ failures \in Nat
      /\ ~ok => (previous # Missing) /\ failures' = failures + 1
  <2> DEFINE due == previous # Missing
  <2>1. due \in BOOLEAN /\ "discard" # "none"
    OBVIOUS
  <2> HIDE DEF due
  <2>2. (previous # Missing) <=> due
    BY DEF due
  <2> QED BY <1>1, <2>1, <2>2, OperationFacts
<1>3. /\ outcome = "none" /\ temporary = Missing /\ db = source /\ source # Missing /\ expected = source.data
      /\ previous' = (IF ok THEN Missing ELSE previous)
      /\ UNCHANGED <<db, wal, own, temporary, outcome, expected, halfDone>>
  BY <1>2 DEF DiscardPrevious, Progress, TypeOK
<1>4. TypeOK'
  BY <1>2, <1>3 DEF TypeOK, Files
<1>5. Progress'
  BY <1>2, <1>3 DEF Progress, Copying
<1>6. Kept'
  BY <1>2, <1>3 DEF Kept, Under
<1>7. Served' /\ Left' /\ Placed'
  BY <1>2, <1>3 DEF Served, Left, Placed, Copying, MovedAside
<1> QED BY <1>4, <1>5, <1>6, <1>7

LEMMA RemoveLogsInv == ASSUME DatabaseInv, NEW ok \in BOOLEAN, RemoveLogs(ok) PROVE DatabaseInv'
<1> USE Distinct DEF DatabaseInv
<1>1. (wal # Missing) \in BOOLEAN /\ Operation("logs", (wal # Missing), ok, "index", "clean")
  BY DEF RemoveLogs
<1>2. /\ step = "logs" /\ step' = IF ok THEN "index" ELSE "clean"
      /\ server' = server /\ server = "down" /\ backup' = backup /\ snapshot' = snapshot /\ snapshot = Missing
      /\ UNCHANGED <<left, source, target>> /\ writes' = writes /\ crashes' = crashes /\ restores' = restores
      /\ failures' \in 0 .. MaxFailures /\ failures' >= failures /\ failures \in Nat
      /\ ~ok => (wal # Missing) /\ failures' = failures + 1
  <2> DEFINE due == wal # Missing
  <2>1. due \in BOOLEAN /\ "logs" # "none"
    OBVIOUS
  <2> HIDE DEF due
  <2>2. (wal # Missing) <=> due
    BY DEF due
  <2> QED BY <1>1, <2>1, <2>2, OperationFacts
<1>3. /\ outcome = "none" /\ temporary = Missing /\ db = source /\ source # Missing /\ expected = source.data
      /\ previous = Missing
      /\ IF ok THEN wal' = Missing /\ own' = TRUE ELSE wal' = wal /\ own' = own
      /\ UNCHANGED <<db, temporary, previous, outcome, expected, halfDone>>
  BY <1>2 DEF RemoveLogs, Progress, TypeOK
<1>4. TypeOK'
  BY <1>2, <1>3 DEF TypeOK, Files
<1>5. Progress'
  BY <1>2, <1>3 DEF Progress, Copying
<1>6. Kept'
  BY <1>2, <1>3 DEF Kept, Under
<1>7. Served' /\ Left' /\ Placed'
  BY <1>2, <1>3 DEF Served, Left, Placed, Copying, MovedAside
<1> QED BY <1>4, <1>5, <1>6, <1>7

LEMMA RemoveIndexInv == ASSUME DatabaseInv, NEW ok \in BOOLEAN, RemoveIndex(ok) PROVE DatabaseInv'
<1> USE Distinct DEF DatabaseInv
<1>1. TRUE \in BOOLEAN /\ Operation("index", TRUE, ok, "clean", "clean")
  BY DEF RemoveIndex
<1>2. /\ step = "index" /\ step' = IF ok THEN "clean" ELSE "clean"
      /\ server' = server /\ server = "down" /\ backup' = backup /\ snapshot' = snapshot /\ snapshot = Missing
      /\ UNCHANGED <<left, source, target>> /\ writes' = writes /\ crashes' = crashes /\ restores' = restores
      /\ failures' \in 0 .. MaxFailures /\ failures' >= failures /\ failures \in Nat
      /\ ~ok => TRUE /\ failures' = failures + 1
  BY <1>1, OperationFacts
<1>3. /\ outcome = "none" /\ temporary = Missing /\ db = source /\ source # Missing /\ expected = source.data
      /\ previous = Missing /\ wal = Missing /\ own
      /\ outcome' = (IF ok THEN "restored" ELSE outcome)
      /\ UNCHANGED <<db, wal, own, temporary, previous, expected, halfDone>>
  BY <1>2 DEF RemoveIndex, Progress, TypeOK
<1>4. TypeOK'
  BY <1>2, <1>3 DEF TypeOK, Files
<1>5. Progress'
  BY <1>2, <1>3 DEF Progress, Copying
<1>6. Kept'
  BY <1>2, <1>3 DEF Kept, Under
<1>7. Served' /\ Left' /\ Placed'
  BY <1>2, <1>3 DEF Served, Left, Placed, Copying, MovedAside
<1> QED BY <1>4, <1>5, <1>6, <1>7

LEMMA CleanInv == ASSUME DatabaseInv, NEW ok \in BOOLEAN, Clean(ok) PROVE DatabaseInv'
<1> USE Distinct DEF DatabaseInv
<1>1. (temporary # Missing) \in BOOLEAN /\ Operation("clean", (temporary # Missing), ok, "back", "end")
  BY DEF Clean
<1>2. /\ step = "clean" /\ step' = IF ok THEN "back" ELSE "end"
      /\ server' = server /\ server = "down" /\ backup' = backup /\ snapshot' = snapshot /\ snapshot = Missing
      /\ UNCHANGED <<left, source, target>> /\ writes' = writes /\ crashes' = crashes /\ restores' = restores
      /\ failures' \in 0 .. MaxFailures /\ failures' >= failures /\ failures \in Nat
      /\ ~ok => (temporary # Missing) /\ failures' = failures + 1
  <2> DEFINE due == temporary # Missing
  <2>1. due \in BOOLEAN /\ "clean" # "none"
    OBVIOUS
  <2> HIDE DEF due
  <2>2. (temporary # Missing) <=> due
    BY DEF due
  <2> QED BY <1>1, <2>1, <2>2, OperationFacts
<1>3. /\ temporary' = (IF ok THEN Missing ELSE temporary)
      /\ UNCHANGED <<db, wal, own, previous, outcome, expected, halfDone>>
  BY DEF Clean
<1>4. TypeOK'
  BY <1>2, <1>3 DEF TypeOK, Files
<1>5. Progress'
  BY <1>2, <1>3 DEF Progress, Copying
<1>6. Kept'
  BY <1>2, <1>3 DEF Kept, Under
<1>7. Served' /\ Left' /\ Placed'
  BY <1>2, <1>3 DEF Served, Left, Placed, Copying, MovedAside
<1> QED BY <1>4, <1>5, <1>6, <1>7

LEMMA BackInv == ASSUME DatabaseInv, NEW ok \in BOOLEAN, Back(ok) PROVE DatabaseInv'
<1> USE Distinct DEF DatabaseInv
<1>1. MovedAside \in BOOLEAN /\ Operation("back", MovedAside, ok, "end", "end")
  BY DEF Back, MovedAside
<1>2. /\ step = "back" /\ step' = IF ok THEN "end" ELSE "end"
      /\ server' = server /\ server = "down" /\ backup' = backup /\ snapshot' = snapshot /\ snapshot = Missing
      /\ UNCHANGED <<left, source, target>> /\ writes' = writes /\ crashes' = crashes /\ restores' = restores
      /\ failures' \in 0 .. MaxFailures /\ failures' >= failures /\ failures \in Nat
      /\ ~ok => MovedAside /\ failures' = failures + 1
  BY <1>1, OperationFacts
<1>3. /\ IF ok /\ previous # Missing /\ db = Missing
         THEN db' = previous /\ previous' = Missing ELSE db' = db /\ previous' = previous
      /\ UNCHANGED <<wal, own, temporary, outcome, expected, halfDone>>
  BY DEF Back, MoveBack, MovedAside
<1>4. TypeOK'
  BY <1>2, <1>3 DEF TypeOK, Files
<1>5. Progress'
  BY <1>2, <1>3 DEF Progress, Copying
<1>6. Kept'
  BY <1>2, <1>3 DEF Kept, Under
<1>7. Served' /\ Left' /\ Placed'
  BY <1>2, <1>3 DEF Served, Left, Placed, Copying, MovedAside
<1> QED BY <1>4, <1>5, <1>6, <1>7

LEMMA EndedInv == DatabaseInv /\ (RestoreEnds \/ RestoreDies) => DatabaseInv'
<1> SUFFICES ASSUME DatabaseInv, RestoreEnds \/ RestoreDies PROVE DatabaseInv'
  OBVIOUS
<1> USE Distinct DEF DatabaseInv
<1>1. /\ step' = "none" /\ step # "none" /\ server = "down"
      /\ halfDone' = (IF outcome' = "restored" THEN FALSE ELSE halfDone \/ HalfDone)
      /\ UNCHANGED <<serverVars, backupVars, temporary, previous, left, source, writes, failures, restores, expected>>
      /\ target' = Missing
      /\ outcome' = "restored" => outcome = "restored"
      /\ outcome' = "failed" => step = "end"
      /\ outcome' \in {"restored", "failed", "died"}
  BY DEF RestoreEnds, RestoreDies, Ended, Progress
<1>2. crashes' \in 0 .. MaxCrashes
  BY Bounds, Within DEF RestoreEnds, RestoreDies
<1>3. TypeOK'
  BY <1>1, <1>2 DEF TypeOK, serverVars, backupVars, Files
<1>4. Progress'
  BY <1>1 DEF Progress, Copying
<1>5. Kept'
  BY <1>1 DEF Kept, Under, serverVars
<1>6. Served'
  BY <1>1 DEF Served, HalfDone, Left, serverVars
<1>7. Left' /\ Placed'
  BY <1>1 DEF Left, Placed, Copying, MovedAside, serverVars
<1> QED BY <1>3, <1>4, <1>5, <1>6, <1>7

-----------------------------------------------------------------------------
LEMMA NextInv == DatabaseInv /\ [Next]_vars => DatabaseInv'
<1> SUFFICES ASSUME DatabaseInv, [Next]_vars PROVE DatabaseInv'
  OBVIOUS
<1>1. CASE Open \/ Migrate \/ Write \/ Checkpoint \/ Close
  BY <1>1, OpenInv, MigrateInv, WriteInv, CheckpointInv, CloseInv
<1>2. CASE ServerDies \/ BackupEnds \/ BackupDies \/ Discard
  BY <1>2, OthersInv
<1>3. ASSUME NEW partial \in {Empty, Torn}, Backup(partial) PROVE DatabaseInv'
  BY <1>3, BackupInv
<1>4. ASSUME NEW force \in BOOLEAN, Restore(force) PROVE DatabaseInv'
  BY <1>4, RestoreInv
<1>5. CASE Copy(TRUE, source) \/ Copy(TRUE, Torn)
  <2>1. source # Missing /\ Torn # Missing
    BY Distinct DEF DatabaseInv, TypeOK
  <2> QED BY <1>5, <2>1, CopyInv
<1>6. ASSUME NEW copied \in {Missing, Torn}, Copy(FALSE, copied) PROVE DatabaseInv'
  BY <1>6, CopyInv
<1>7. CASE Verify
  BY <1>7, VerifyInv
<1>8. ASSUME NEW ok \in BOOLEAN,
             \/ Aside(ok) \/ Place(ok) \/ Fallback(ok) \/ DiscardPrevious(ok)
             \/ RemoveLogs(ok) \/ RemoveIndex(ok) \/ Clean(ok) \/ Back(ok)
      PROVE  DatabaseInv'
  BY <1>8, AsideInv, PlaceInv, FallbackInv, DiscardPreviousInv, RemoveLogsInv, RemoveIndexInv,
     CleanInv, BackInv
<1>9. CASE RestoreEnds \/ RestoreDies
  BY <1>9, EndedInv
<1>10. CASE UNCHANGED vars
  <2>0. /\ UNCHANGED <<server, db, wal, own, backup, snapshot, step, temporary, previous, left>>
        /\ UNCHANGED <<source, target, outcome, writes, crashes, failures, restores, expected, halfDone>>
    BY <1>10 DEF vars, serverVars, backupVars, restoreVars
  <2>1. TypeOK' /\ Progress'
    <3>1. TypeOK'
      BY <2>0 DEF DatabaseInv, TypeOK
    <3>2. Progress'
      BY <2>0 DEF DatabaseInv, Progress
    <3> QED BY <3>1, <3>2
  <2>2. Kept' /\ Served' /\ Left' /\ Placed'
    BY <1>10 DEF DatabaseInv, Kept, Served, Left, Placed, Copying, Under, HalfDone, MovedAside, vars, serverVars, backupVars, restoreVars
  <2> QED BY <2>1, <2>2 DEF DatabaseInv
<1> QED BY <1>1, <1>2, <1>3, <1>4, <1>5, <1>6, <1>7, <1>8, <1>9, <1>10 DEF Next

LEMMA Invariance == Spec => []DatabaseInv
BY InitInv, NextInv, PTL DEF Spec

(* The types of the files and of the commands beside them hold in every    *)
(* reachable state.                                                        *)
THEOREM TypeCorrect == Spec => []TypeOK
<1>1. DatabaseInv => TypeOK
  BY DEF DatabaseInv
<1> QED BY <1>1, Invariance, PTL

(* Whatever process dies and whatever operation throws, a running server   *)
(* has the last committed write or what was restored since, whole, on the  *)
(* current schema, unless a restore ended half done.                       *)
THEOREM ServedAsExpected == Spec => []ServesExpected
<1>1. DatabaseInv => ServesExpected
  <2> SUFFICES ASSUME DatabaseInv, server = "up", ~halfDone
               PROVE  Current \in Contents /\ Current.data = expected /\ Current.schema = CURRENT_SCHEMA_VERSION
    BY DEF ServesExpected
  <2>1. step = "none" /\ db # Missing /\ own
    BY DEF DatabaseInv, Progress, Served, HalfDone
  <2>2. Current = Under(db, wal) /\ Current \in Contents
    BY <2>1, CurrentFacts DEF DatabaseInv
  <2> QED BY <2>1, <2>2 DEF DatabaseInv, Kept, Served
<1> QED BY <1>1, Invariance, PTL

(* However a restore dies, the database it was to replace is found in the  *)
(* file that was moved aside, or in the one an earlier restore left.       *)
THEOREM NothingIsLost == Spec => []NothingLost
<1>1. DatabaseInv => NothingLost
  BY DEF DatabaseInv, Kept, NothingLost
<1> QED BY <1>1, Invariance, PTL

(* A restore that succeeds has put the backup in place and leaves nothing  *)
(* of its own behind; one that reports an error leaves in that place the   *)
(* file it found or the backup, unless three operations threw.             *)
THEOREM RestoreEndsWhole == Spec => []EndsWhole
<1>1. DatabaseInv => EndsWhole
  <2> SUFFICES ASSUME DatabaseInv PROVE EndsWhole
    OBVIOUS
  <2>1. failures \in Nat
    BY Bounds DEF DatabaseInv
  <2> QED BY <2>1 DEF DatabaseInv, Left, Placed, EndsWhole
<1> QED BY <1>1, Invariance, PTL
=============================================================================
