--------------------------- MODULE StateDatabase ---------------------------
(***************************************************************************)
(* The database file (packages/core/src/state-database.js): a server that  *)
(* opens, migrates, writes and closes it, `npm run backup` beside it, and  *)
(* `npm run restore`, one file operation at a time, on a stopped one.      *)
(* Processes die between any two steps, and a file operation may throw.    *)
(*                                                                         *)
(* The data of a database are the number of the last write they contain.   *)
(* Commits go to the write-ahead log, whose file outlives a process that   *)
(* dies, and is removed by a clean close.  SQLite applies the log it finds *)
(* beside a database without knowing whose it is; a log beside a file it   *)
(* was not written for spoils that file.                                   *)
(***************************************************************************)
EXTENDS Naturals

CONSTANTS
  Missing,     \* there is no such file
  Torn,        \* a file that quick_check rejects
  Garbled,     \* a database spoiled by the log of another
  Foreign,     \* backups that other releases made
  MaxWrites,   \* bound: writes ever committed
  MaxCrashes,  \* bound: deaths of a process
  MaxFailures, \* bound: file operations that throw
  MaxRestores  \* bound: restores ever begun

CURRENT_SCHEMA_VERSION == 2

Contents == [data : 0 .. MaxWrites, schema : 0 .. CURRENT_SCHEMA_VERSION + 1]

ASSUME DatabaseAssumption ==
  /\ {MaxWrites, MaxCrashes, MaxFailures, MaxRestores} \subseteq Nat
  /\ Foreign \subseteq Contents
  /\ {Missing, Torn, Garbled} \cap Contents = {}
  /\ Missing # Torn /\ Torn # Garbled /\ Garbled # Missing

VARIABLES
  server,    \* what the server is doing with the database
  db,        \* the database file
  wal,       \* its log: the contents with what the log adds
  own,       \* whether the log was written for the file it lies beside
  backup,    \* the backup file
  snapshot,  \* what the backup command is copying, or Missing
  step,      \* where the restore command is
  temporary, \* its copy of the backup
  previous,  \* the file it moved aside
  left,      \* a file that an earlier restore moved aside and left
  source,    \* what it restores
  target,    \* the file it found in the place of the database, or Missing
  outcome,   \* how the last restore ended
  writes, crashes, failures, restores,
  expected,  \* history: the last write, or what was restored since
  halfDone   \* history: a restore ended half done and none was completed since

serverVars == <<server, db, wal, own>>

backupVars == <<backup, snapshot>>

restoreVars == <<step, temporary, previous, left, source, target, outcome>>

vars == <<serverVars, backupVars, restoreVars, writes, crashes, failures, restores, expected, halfDone>>

Empty == [data |-> 0, schema |-> 0]

Init ==
  /\ server = "down"
  /\ db = Missing
  /\ wal = Missing
  /\ own = TRUE
  /\ backup \in Foreign \cup {Missing}
  /\ snapshot = Missing
  /\ step = "none"
  /\ temporary = Missing
  /\ previous = Missing
  /\ left = Missing
  /\ source = Empty
  /\ target = Missing
  /\ outcome = "none"
  /\ writes = 0 /\ crashes = 0 /\ failures = 0 /\ restores = 0
  /\ expected = 0
  /\ halfDone = FALSE

(* What SQLite makes of a file and the log beside it.                      *)
Under(file, log) == IF log = Missing THEN file ELSE log

Current == IF own THEN Under(db, wal) ELSE Garbled

(* A restore left the database moved aside, or beside the log of another.  *)
HalfDone == (db = Missing /\ {previous, left} # {Missing}) \/ ~own

-----------------------------------------------------------------------------
(* A transaction is in the log when it is committed.                       *)
Commit(contents) ==
  /\ Current \in Contents
  /\ wal' = contents
  /\ own' = TRUE
  /\ UNCHANGED db

(* The constructor, up to #migrate: a missing file is created, and SQLite  *)
(* discards a log beside an empty file.  A schema that is too new ends the *)
(* process, and the files stay.                                            *)
Open ==
  /\ server = "down" /\ step = "none"
  /\ IF db = Missing
     THEN db' = Empty /\ wal' = Missing /\ own' = TRUE
     ELSE /\ Current \in Contents => Current.schema <= CURRENT_SCHEMA_VERSION
          /\ UNCHANGED <<db, wal, own>>
  /\ server' = "migrating"
  /\ expected' = IF db = Missing /\ halfDone THEN 0 ELSE expected
  /\ UNCHANGED <<backupVars, restoreVars, writes, crashes, failures, restores, halfDone>>

(* #migrate: one transaction for each version; then the server runs.  What *)
(* it does on a garbled file is not told apart.                            *)
Migrate ==
  /\ server = "migrating"
  /\ IF Current \in Contents /\ Current.schema < CURRENT_SCHEMA_VERSION
     THEN Commit([Current EXCEPT !.schema = @ + 1]) /\ UNCHANGED server
     ELSE server' = "up" /\ UNCHANGED <<db, wal, own>>
  /\ UNCHANGED <<backupVars, restoreVars, writes, crashes, failures, restores, expected, halfDone>>

(* write, of any namespace.                                                *)
Write ==
  /\ server = "up" /\ writes < MaxWrites
  /\ writes' = writes + 1
  /\ Commit([Current EXCEPT !.data = writes'])
  /\ expected' = writes'
  /\ UNCHANGED <<server, backupVars, restoreVars, crashes, failures, restores, halfDone>>

(* SQLite moves the log into the file, and keeps the log for reuse.        *)
Checkpoint ==
  /\ server = "up" /\ wal # Missing /\ own
  /\ db' = wal
  /\ UNCHANGED <<server, wal, own, backupVars, restoreVars, writes, crashes, failures, restores,
                 expected, halfDone>>

(* shutdown, close: the log is moved into the file and removed.            *)
Close ==
  /\ server = "up" /\ Current \in Contents
  /\ server' = "down"
  /\ db' = Current
  /\ wal' = Missing
  /\ own' = TRUE
  /\ UNCHANGED <<backupVars, restoreVars, writes, crashes, failures, restores, expected, halfDone>>

ServerDies ==
  /\ server # "down" /\ crashes < MaxCrashes
  /\ server' = "down"
  /\ crashes' = crashes + 1
  /\ UNCHANGED <<db, wal, own, backupVars, restoreVars, writes, failures, restores, expected, halfDone>>

-----------------------------------------------------------------------------
(* backup: it refuses a file that exists, moves the log into the database  *)
(* and lets VACUUM INTO copy what is committed at that moment.  Until it   *)
(* is done the file is empty, which is a valid database, or torn.          *)
Backup(partial) ==
  /\ server = "up" /\ Current \in Contents
  /\ backup = Missing
  /\ db' = Current
  /\ snapshot' = Current
  /\ backup' = partial
  /\ UNCHANGED <<server, wal, own, restoreVars, writes, crashes, failures, restores, expected, halfDone>>

BackupEnds ==
  /\ snapshot # Missing
  /\ backup' = snapshot
  /\ snapshot' = Missing
  /\ UNCHANGED <<serverVars, restoreVars, writes, crashes, failures, restores, expected, halfDone>>

BackupDies ==
  /\ snapshot # Missing /\ crashes < MaxCrashes
  /\ snapshot' = Missing
  /\ crashes' = crashes + 1
  /\ UNCHANGED <<serverVars, backup, restoreVars, writes, failures, restores, expected, halfDone>>

(* The operator throws a backup away.                                      *)
Discard ==
  /\ snapshot = Missing /\ step = "none" /\ backup # Missing
  /\ backup' = Missing
  /\ UNCHANGED <<serverVars, snapshot, restoreVars, writes, crashes, failures, restores, expected, halfDone>>

-----------------------------------------------------------------------------
(* restore, of a stopped server.  The files it makes have names of their   *)
(* own, so that those of an earlier restore lie beside them for good.      *)
Restore(force) ==
  /\ server = "down" /\ step = "none" /\ snapshot = Missing
  /\ restores < MaxRestores
  /\ backup \notin {Missing, Torn}
  /\ force \/ db = Missing
  /\ restores' = restores + 1
  /\ step' = IF force THEN "copy with force" ELSE "copy"
  /\ source' = backup
  /\ target' = db
  /\ temporary' = Missing
  /\ left' = IF previous # Missing THEN previous ELSE left
  /\ previous' = Missing
  /\ outcome' = "none"
  /\ UNCHANGED <<serverVars, backupVars, writes, crashes, failures, expected, halfDone>>

(* One file operation of the restore: it succeeds and the next step is     *)
(* next, or it throws and the next step is recovery.  One that is not due  *)
(* is skipped and cannot throw.                                            *)
Operation(at, due, ok, next, recovery) ==
  /\ step = at
  /\ due \/ ok
  /\ step' = IF ok THEN next ELSE recovery
  /\ ok \/ failures < MaxFailures
  /\ failures' = IF ok THEN failures ELSE failures + 1
  /\ UNCHANGED <<server, backupVars, left, source, target, writes, crashes, restores>>

(* copyFileSync; what it leaves may be torn even if it says nothing.       *)
Copy(ok, copied) ==
  /\ \/ Operation("copy", TRUE, ok, "verify", "clean")
     \/ Operation("copy with force", TRUE, ok, "verify with force", "clean")
  /\ temporary' = copied
  /\ UNCHANGED <<db, wal, own, previous, outcome, expected, halfDone>>

(* verify(temporary); what it refuses is no failure of an operation.       *)
Verify ==
  /\ \/ Operation("verify", TRUE, TRUE, IF temporary = Torn THEN "clean" ELSE "place", "clean")
     \/ Operation("verify with force", TRUE, TRUE, IF temporary = Torn THEN "clean" ELSE "aside", "clean")
  /\ UNCHANGED <<db, wal, own, temporary, previous, outcome, expected, halfDone>>

(* Mutant: the target is removed, for the copy to take its place.          *)
AsideByRemoval(ok) ==
  /\ Operation("aside", db # Missing, ok, "place", "clean")
  /\ db' = IF ok THEN Missing ELSE db
  /\ UNCHANGED <<wal, own, temporary, previous, outcome, expected, halfDone>>

(* renameSync(target, previous), if there is a target.                     *)
Aside(ok) ==
  /\ Operation("aside", db # Missing, ok, "place", "clean")
  /\ IF ok /\ db # Missing THEN previous' = db /\ db' = Missing ELSE UNCHANGED <<previous, db>>
  /\ UNCHANGED <<wal, own, temporary, outcome, expected, halfDone>>

(* renameSync(temporary, target).                                          *)
Place(ok) ==
  /\ Operation("place", TRUE, ok, "discard", "fallback")
  /\ IF ok
     THEN db' = temporary /\ temporary' = Missing /\ own' = (wal = Missing) /\ expected' = source.data
     ELSE UNCHANGED <<db, temporary, own, expected>>
  /\ UNCHANGED <<wal, previous, outcome, halfDone>>

MovedAside == previous # Missing /\ db = Missing

MoveBack(ok) ==
  IF ok /\ MovedAside
  THEN db' = previous /\ previous' = Missing
  ELSE UNCHANGED <<db, previous>>

(* The catch of the second rename.                                         *)
Fallback(ok) ==
  /\ Operation("fallback", MovedAside, ok, "clean", "clean")
  /\ MoveBack(ok)
  /\ UNCHANGED <<wal, own, temporary, outcome, expected, halfDone>>

(* unlinkSync(previous), if there is one.                                  *)
DiscardPrevious(ok) ==
  /\ Operation("discard", previous # Missing, ok, "logs", "clean")
  /\ previous' = IF ok THEN Missing ELSE previous
  /\ UNCHANGED <<db, wal, own, temporary, outcome, expected, halfDone>>

(* Mutant: the log is left.                                                *)
RemoveNoLogs(ok) ==
  /\ Operation("logs", wal # Missing, ok, "index", "clean")
  /\ UNCHANGED <<db, wal, own, temporary, previous, outcome, expected, halfDone>>

(* The log of the database that was replaced is removed.                   *)
RemoveLogs(ok) ==
  /\ Operation("logs", wal # Missing, ok, "index", "clean")
  /\ IF ok THEN wal' = Missing /\ own' = TRUE ELSE UNCHANGED <<wal, own>>
  /\ UNCHANGED <<db, temporary, previous, outcome, expected, halfDone>>

(* Then its index, the -shm file, which may be there or not and which      *)
(* SQLite makes anew; the restore has succeeded.                           *)
RemoveIndex(ok) ==
  /\ Operation("index", TRUE, ok, "clean", "clean")
  /\ outcome' = IF ok THEN "restored" ELSE outcome
  /\ UNCHANGED <<db, wal, own, temporary, previous, expected, halfDone>>

(* The finally clause: first the copy is removed, and if that throws, the  *)
(* rest of the clause is skipped.                                          *)
Clean(ok) ==
  /\ Operation("clean", temporary # Missing, ok, "back", "end")
  /\ temporary' = IF ok THEN Missing ELSE temporary
  /\ UNCHANGED <<db, wal, own, previous, outcome, expected, halfDone>>

(* Mutant: the finally clause does not look for the target.                *)
BackNot(ok) ==
  /\ Operation("back", FALSE, ok, "end", "end")
  /\ UNCHANGED <<db, previous, wal, own, temporary, outcome, expected, halfDone>>

Back(ok) ==
  /\ Operation("back", MovedAside, ok, "end", "end")
  /\ MoveBack(ok)
  /\ UNCHANGED <<wal, own, temporary, outcome, expected, halfDone>>

Ended ==
  /\ step' = "none"
  /\ halfDone' = IF outcome' = "restored" THEN FALSE ELSE halfDone \/ HalfDone
  /\ target' = Missing
  /\ UNCHANGED <<serverVars, backupVars, temporary, previous, left, source, writes, failures,
                 restores, expected>>

RestoreEnds ==
  /\ step = "end"
  /\ outcome' = IF outcome = "restored" THEN "restored" ELSE "failed"
  /\ Ended
  /\ UNCHANGED crashes

RestoreDies ==
  /\ step \notin {"none", "end"} /\ crashes < MaxCrashes
  /\ crashes' = crashes + 1
  /\ outcome' = "died"
  /\ Ended

Next ==
  \/ Open \/ Migrate \/ Write \/ Checkpoint \/ Close \/ ServerDies
  \/ \E partial \in {Empty, Torn} : Backup(partial)
  \/ BackupEnds \/ BackupDies \/ Discard
  \/ \E force \in BOOLEAN : Restore(force)
  \/ Copy(TRUE, source) \/ Copy(TRUE, Torn)
  \/ \E copied \in {Missing, Torn} : Copy(FALSE, copied)
  \/ Verify
  \/ \E ok \in BOOLEAN :
       \/ Aside(ok) \/ Place(ok) \/ Fallback(ok) \/ DiscardPrevious(ok)
       \/ RemoveLogs(ok) \/ RemoveIndex(ok) \/ Clean(ok) \/ Back(ok)
  \/ RestoreEnds \/ RestoreDies

Spec == Init /\ [][Next]_vars

-----------------------------------------------------------------------------
Files == Contents \cup {Missing}

TypeOK ==
  /\ server \in {"down", "migrating", "up"}
  /\ {db, wal, previous, left, target, snapshot} \subseteq Files
  /\ {backup, temporary} \subseteq Files \cup {Torn}
  /\ source \in Contents
  /\ own \in BOOLEAN /\ halfDone \in BOOLEAN
  /\ step \in {"none", "copy", "copy with force", "verify", "verify with force", "aside", "place",
              "fallback", "discard", "logs", "index", "clean", "back", "end"}
  /\ outcome \in {"none", "restored", "failed", "died"}
  /\ writes \in 0 .. MaxWrites /\ expected \in 0 .. MaxWrites
  /\ crashes \in 0 .. MaxCrashes
  /\ failures \in 0 .. MaxFailures
  /\ restores \in 0 .. MaxRestores

(* What a running server has is its last committed write, or what was      *)
(* restored since, whole and on the current schema: through deaths in the  *)
(* middle of writes, migrations and backups, and through restores that are *)
(* refused, fail or die -- unless a restore ended half done (restore,      *)
(* #migrate).                                                              *)
ServesExpected ==
  server = "up" /\ ~halfDone =>
    /\ Current \in Contents
    /\ Current.data = expected
    /\ Current.schema = CURRENT_SCHEMA_VERSION

(* However a restore dies, what it was to replace is not lost: where the   *)
(* database is missing, the file that was moved aside holds it, together   *)
(* with the log -- until a server starts, makes an empty database and      *)
(* discards the log.                                                       *)
NothingLost ==
  db = Missing /\ expected # 0 /\ own =>
    \E file \in {previous, left} \ {Missing} : Under(file, wal).data = expected

(* A restore that is going to report success has put the backup in place   *)
(* and leaves no file of its own and no log of the database it replaced.   *)
(* One that is going to report an error leaves no other file in that place *)
(* than the one it found or the backup, unless three file operations threw *)
(* -- not necessarily the one it found: the database has been replaced all *)
(* the same, perhaps beside the old log, if what threw was the removal of  *)
(* the file moved aside or of the logs (the catch and the finally of       *)
(* restore).                                                               *)
EndsWhole ==
  step = "end" =>
    /\ outcome = "restored" =>
         db = source /\ wal = Missing /\ own /\ temporary = Missing /\ previous = Missing
    /\ outcome # "restored" /\ failures < 3 => db \in {target, source}
=============================================================================
