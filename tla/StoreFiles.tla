------------------------------ MODULE StoreFiles ------------------------------
(***************************************************************************)
(* The files of the encrypted store and the commands that move them:       *)
(* sieve backup create / restore (src/sieve/backup.py), sieve key rotate / *)
(* import (src/sieve/cli_keys.py), sieve store migrate, beside a proxy     *)
(* process that has the store open (src/sieve/store.py).                   *)
(*                                                                         *)
(* The database is in WAL mode: what is committed is in memory.db plus     *)
(* memory.db-wal, and only a process that closes the last connection       *)
(* leaves a complete memory.db and no WAL.  The commands work on the files *)
(* one at a time; each can raise, and the process can be killed, between   *)
(* any two of them.                                                        *)
(*                                                                         *)
(* Restore, rotate and import are run with the proxy stopped (the code     *)
(* does not check it); backup and migrate may be run while it serves.      *)
(***************************************************************************)
EXTENDS Integers, FiniteSets

CONSTANTS
    MaxKeys,     \* encryption keys, numbered in order of use (a bound)
    MaxCommits,  \* transactions of the proxy (a bound)
    MaxErrors,   \* exceptions in a command (a bound)
    MaxCrashes,  \* commands killed (a bound)
    HotCopies    \* are backup and migrate also run while the proxy serves

ASSUME StoreAssumption ==
    /\ MaxKeys \in Nat \ {0} /\ MaxCommits \in Nat
    /\ MaxErrors \in Nat /\ MaxCrashes \in Nat /\ HotCopies \in BOOLEAN

Key    == 1..MaxKeys
Commit == 1..MaxCommits
NoKey  == 0        \* no such file
Torn   == -1       \* a file cut off while it was being written

KeyFile  == Key \cup {NoKey, Torn}
Database == [key : Key \cup {Torn}, rows : SUBSET Commit]
NoWal    == [key |-> NoKey]
Wal      == [key : Key, base : SUBSET Commit, rows : SUBSET Commit]

VARIABLES
    main, wal,          \* memory.db and memory.db-wal
    keyfile, bak, tmp,  \* .sieve_key, .sieve_key.bak, .sieve_key.tmp
    exported,           \* the key the user has a copy of
    proxy,              \* is the store open in a proxy: "up", "down"
    commits,            \* transactions so far
    backup,             \* the backup taken, or NoCopy
    undo,               \* pre_restore_*.db.bak, or NoCopy
    moved,              \* the store at the migration's destination, or NoCopy
    cli,                \* the command running and the file it is at, or Idle
    keys,               \* keys generated so far
    lockedOut,          \* a rotation failed in a window LockoutWindow names
    errors, crashes

vars == <<main, wal, keyfile, bak, tmp, exported, proxy, commits, backup, undo, moved,
          cli, keys, lockedOut, errors, crashes>>
keyring == <<keyfile, bak, tmp, exported>>
copies  == <<backup, undo, moved>>
faults  == <<lockedOut, errors, crashes>>

NoCopy == [whole |-> FALSE, main |-> [key |-> NoKey]]
\* A copy: its files, what the source held when it was begun, and whether it
\* was completed (for a backup, whether it has a checksum).
Copy == [whole : BOOLEAN, main : Database, wal : Wal \cup {NoWal},
         expect : SUBSET Commit]

Idle == [op |-> "none", step |-> "none"]
Steps == [backup |-> {"wal", "sum"},
          restore |-> {"clear", "main", "wal"},
          rotate |-> {"save", "rekey", "tmp", "swap", "rollback", "clean"},
          migrate |-> {"check"},
          import |-> {"write"}]
Command == UNION {{[op |-> o, step |-> s] : s \in Steps[o]} : o \in DOMAIN Steps}

\* What the commands find in a database and its WAL: opening replays the WAL,
\* whose frames only make sense over the database they were written against.
Corrupt == {0}
Content(db, log) ==
    IF db.key = Torn THEN Corrupt
    ELSE IF log = NoWal THEN db.rows
    ELSE IF log.key = db.key /\ log.base \subseteq db.rows /\ db.rows \subseteq log.rows
         THEN log.rows
    ELSE Corrupt

Stored == Content(main, wal)
Opens(key) == key = main.key /\ Stored # Corrupt

Init ==
    /\ main = [key |-> 1, rows |-> {}] /\ wal = NoWal
    /\ keyfile = 1 /\ bak = NoKey /\ tmp = NoKey /\ exported = NoKey
    /\ proxy = "down" /\ commits = 0
    /\ backup = NoCopy /\ undo = NoCopy /\ moved = NoCopy
    /\ cli = Idle /\ keys = 1
    /\ lockedOut = FALSE /\ errors = 0 /\ crashes = 0

-----------------------------------------------------------------------------
(***************************************************************************)
(* The proxy: SQLite in WAL mode.                                          *)
(***************************************************************************)
ColdOnly == cli.op \in {"restore", "rotate", "import"}
             \/ (cli.op # "none" /\ ~HotCopies)

Open ==
    /\ proxy = "down" /\ ~ColdOnly
    /\ Opens(keyfile)
    /\ proxy' = "up"
    /\ wal' = IF wal # NoWal THEN wal
              ELSE [key |-> main.key, base |-> main.rows, rows |-> main.rows]
    /\ UNCHANGED <<main, keyring, commits, copies, cli, keys, faults>>

\* A commit appends to the WAL, or starts it anew when all of it is in the
\* database already.
Write ==
    /\ proxy = "up" /\ commits < MaxCommits
    /\ commits' = commits + 1
    /\ wal' = [key |-> main.key,
               base |-> IF wal.rows = main.rows THEN main.rows ELSE wal.base,
               rows |-> wal.rows \cup {commits'}]
    /\ UNCHANGED <<main, keyring, proxy, copies, cli, keys, faults>>

Checkpoint ==
    /\ proxy = "up"
    /\ main' = [main EXCEPT !.rows = wal.rows]
    /\ UNCHANGED <<wal, keyring, proxy, commits, copies, cli, keys, faults>>

Close ==
    /\ proxy = "up"
    /\ proxy' = "down"
    /\ main' = [main EXCEPT !.rows = wal.rows]
    /\ wal' = NoWal
    /\ UNCHANGED <<keyring, commits, copies, cli, keys, faults>>

Kill ==
    /\ proxy = "up"
    /\ proxy' = "down"
    /\ UNCHANGED <<main, wal, keyring, commits, copies, cli, keys, faults>>

-----------------------------------------------------------------------------
(***************************************************************************)
(* The commands.                                                           *)
(***************************************************************************)
Begin(op, step) ==
    /\ cli = Idle
    /\ proxy = "down" \/ (HotCopies /\ op \in {"backup", "migrate"})
    /\ cli' = [op |-> op, step |-> step]

At(op, step) == cli = [op |-> op, step |-> step]
Goto(step)   == cli' = [cli EXCEPT !.step = step]
Return       == cli' = Idle

Snapshot(log) == [whole |-> FALSE, main |-> main, wal |-> log,
                  expect |-> IF Stored = Corrupt THEN {} ELSE Stored]

\* create_backup copies the database, then its WAL, then writes the checksum.
BackupMain ==
    /\ Begin("backup", "wal")
    /\ backup = NoCopy /\ Stored # Corrupt
    /\ backup' = Snapshot(NoWal)
    /\ UNCHANGED <<main, wal, keyring, proxy, commits, undo, moved, keys, faults>>

\* Mutant: only the database is copied.
BackupWalSkipped ==
    /\ At("backup", "wal") /\ Goto("sum")
    /\ UNCHANGED <<main, wal, keyring, proxy, commits, copies, keys, faults>>

BackupWal ==
    /\ At("backup", "wal") /\ Goto("sum")
    /\ backup' = [backup EXCEPT !.wal = wal]
    /\ UNCHANGED <<main, wal, keyring, proxy, commits, undo, moved, keys, faults>>

BackupSum ==
    /\ At("backup", "sum") /\ Return
    /\ backup' = [backup EXCEPT !.whole = TRUE]
    /\ UNCHANGED <<main, wal, keyring, proxy, commits, undo, moved, keys, faults>>

\* restore_backup: without a checksum nothing happens; else the database is
\* set aside, its WAL and index removed, and the backup's files copied.
RestoreBegin ==
    /\ backup.whole
    /\ Begin("restore", "clear")
    /\ undo' = Snapshot(NoWal)
    /\ UNCHANGED <<main, wal, keyring, proxy, commits, backup, moved, keys, faults>>

\* Mutant: the WAL of the database that is replaced stays.
RestoreClearNothing ==
    /\ At("restore", "clear") /\ Goto("main")
    /\ UNCHANGED <<main, wal, keyring, proxy, commits, copies, keys, faults>>

RestoreClear ==
    /\ At("restore", "clear") /\ Goto("main")
    /\ wal' = NoWal
    /\ UNCHANGED <<main, keyring, proxy, commits, copies, keys, faults>>

RestoreMain ==
    /\ At("restore", "main") /\ Goto("wal")
    /\ main' = backup.main
    /\ UNCHANGED <<wal, keyring, proxy, commits, copies, keys, faults>>

RestoreWal ==
    /\ At("restore", "wal") /\ Return
    /\ wal' = IF backup.wal # NoWal THEN backup.wal ELSE wal
    /\ UNCHANGED <<main, keyring, proxy, commits, copies, keys, faults>>

\* rotate_key first opens the store with the key of the keyfile (and by closing
\* it again brings the WAL into the database).
RotateVerify ==
    /\ keys < MaxKeys
    /\ Opens(keyfile)
    /\ Begin("rotate", "save")
    /\ keys' = keys + 1
    /\ main' = [main EXCEPT !.rows = Stored]
    /\ wal' = NoWal
    /\ UNCHANGED <<keyring, proxy, commits, copies, faults>>

RotateSave ==
    /\ At("rotate", "save") /\ Goto("rekey")
    /\ bak' = keyfile
    /\ UNCHANGED <<main, wal, keyfile, tmp, exported, proxy, commits, copies, keys, faults>>

\* PRAGMA rekey rewrites every page in one transaction.
RotateRekey ==
    /\ At("rotate", "rekey") /\ Goto("tmp")
    /\ main' = [main EXCEPT !.key = keys]
    /\ UNCHANGED <<wal, keyring, proxy, commits, copies, keys, faults>>

RotateTmp ==
    /\ At("rotate", "tmp") /\ Goto("swap")
    /\ tmp' = keys
    /\ UNCHANGED <<main, wal, keyfile, bak, exported, proxy, commits, copies, keys, faults>>

\* Mutant: the new key is moved over the backup of the old one.
RotateSwapBak ==
    /\ At("rotate", "swap") /\ Goto("clean")
    /\ bak' = tmp /\ tmp' = NoKey
    /\ UNCHANGED <<main, wal, keyfile, exported, proxy, commits, copies, keys, faults>>

RotateSwap ==
    /\ At("rotate", "swap") /\ Goto("clean")
    /\ keyfile' = tmp /\ tmp' = NoKey
    /\ UNCHANGED <<main, wal, bak, exported, proxy, commits, copies, keys, faults>>

\* except: the old keyfile is put back, whatever key the database has by now.
RotateRollback ==
    /\ At("rotate", "rollback") /\ Goto("clean")
    /\ keyfile' = bak
    /\ UNCHANGED <<main, wal, bak, tmp, exported, proxy, commits, copies, keys, faults>>

\* finally: the copy of the old key is deleted.
RotateClean ==
    /\ At("rotate", "clean") /\ Return
    /\ bak' = NoKey
    /\ UNCHANGED <<main, wal, keyfile, tmp, exported, proxy, commits, copies, keys, faults>>

\* The key is shown to the user, who keeps it elsewhere.
Export ==
    /\ cli = Idle /\ keyfile \in Key
    /\ exported' = keyfile
    /\ UNCHANGED <<main, wal, keyfile, bak, tmp, proxy, commits, copies, cli, keys, faults>>

\* import_key: the key kept elsewhere becomes the keyfile, if it opens the store.
ImportBegin ==
    /\ Opens(exported)
    /\ Begin("import", "write")
    /\ main' = [main EXCEPT !.rows = Stored]
    /\ wal' = NoWal
    /\ UNCHANGED <<keyring, proxy, commits, copies, keys, faults>>

ImportWrite ==
    /\ At("import", "write") /\ Return
    /\ keyfile' = exported
    /\ UNCHANGED <<main, wal, bak, tmp, exported, proxy, commits, copies, keys, faults>>

\* migrate_store copies the database and the key, opens the copy and counts
\* the facts in it; when that fails the copy is removed.
MigrateMain ==
    /\ Begin("migrate", "check")
    /\ moved = NoCopy /\ Stored # Corrupt
    /\ moved' = Snapshot(NoWal)
    /\ UNCHANGED <<main, wal, keyring, proxy, commits, backup, undo, keys, faults>>

MigrateCheck ==
    /\ At("migrate", "check") /\ Return
    /\ moved' = IF keyfile = moved.main.key THEN [moved EXCEPT !.whole = TRUE]
                ELSE NoCopy
    /\ UNCHANGED <<main, wal, keyring, proxy, commits, backup, undo, keys, faults>>

-----------------------------------------------------------------------------
InWindow == At("rotate", "tmp")

\* The file a step overwrites in place, cut off.
Tear ==
    \/ /\ At("restore", "main")
       /\ main' = [main EXCEPT !.key = Torn]
       /\ UNCHANGED keyring
    \/ /\ At("rotate", "save")
       /\ bak' = Torn
       /\ UNCHANGED <<main, keyfile, tmp, exported>>
    \/ /\ At("rotate", "tmp")
       /\ tmp' = Torn
       /\ UNCHANGED <<main, keyfile, bak, exported>>
    \/ /\ At("rotate", "rollback") \/ At("import", "write")
       /\ keyfile' = Torn
       /\ UNCHANGED <<main, bak, tmp, exported>>

\* A step of a command raises, before it does anything or with its file half
\* written.  Only rotate_key has handlers: from the rekey to the swap the
\* keyfile is rolled back, and whatever the rollback does its finally deletes
\* the copy of the old key.
Raise ==
    /\ cli # Idle /\ errors < MaxErrors
    /\ errors' = errors + 1
    /\ IF cli.op = "rotate" /\ cli.step \in {"rekey", "tmp", "swap"} THEN Goto("rollback")
       ELSE IF At("rotate", "rollback") THEN Goto("clean")
       ELSE Return
    /\ Tear \/ UNCHANGED <<main, keyring>>
    /\ lockedOut' = (lockedOut \/ InWindow
                      \/ (At("rotate", "rollback") /\ keyfile' = Torn))
    /\ UNCHANGED <<wal, proxy, commits, copies, keys, crashes>>

\* The command is killed before a step, or while it overwrites a file in place.
Crash ==
    /\ cli # Idle /\ crashes < MaxCrashes
    /\ crashes' = crashes + 1
    /\ Return
    /\ lockedOut' = (lockedOut \/ InWindow)
    /\ Tear \/ UNCHANGED <<main, keyring>>
    /\ UNCHANGED <<wal, proxy, commits, copies, keys, errors>>

Proxy   == Open \/ Write \/ Checkpoint \/ Close \/ Kill
Backup  == BackupMain \/ BackupWal \/ BackupSum
Restore == RestoreBegin \/ RestoreClear \/ RestoreMain \/ RestoreWal
Rotate  == RotateVerify \/ RotateSave \/ RotateRekey \/ RotateTmp \/ RotateSwap
            \/ RotateRollback \/ RotateClean
Import  == Export \/ ImportBegin \/ ImportWrite
Migrate == MigrateMain \/ MigrateCheck

Next == Proxy \/ Backup \/ Restore \/ Rotate \/ Import \/ Migrate \/ Raise \/ Crash

Spec == Init /\ [][Next]_vars

-----------------------------------------------------------------------------
TypeOK ==
    /\ main \in Database /\ wal \in Wal \cup {NoWal}
    /\ {keyfile, bak, tmp, exported} \subseteq KeyFile
    /\ proxy \in {"up", "down"} /\ commits \in 0..MaxCommits
    /\ {backup, undo, moved} \subseteq Copy \cup {NoCopy}
    /\ cli \in Command \cup {Idle}
    /\ keys \in Key /\ lockedOut \in BOOLEAN
    /\ errors \in 0..MaxErrors /\ crashes \in 0..MaxCrashes

\* A backup with a checksum opens and holds everything that was committed when
\* it was begun (the reason create_backup gives for copying the WAL).
BackupFaithful ==
    backup.whole =>
        LET held == Content(backup.main, backup.wal)
        IN  held # Corrupt /\ backup.expect \subseteq held

\* A restore that is not cut off leaves exactly what the backup holds, whatever
\* WAL a killed proxy left beside the database it replaces.
RestoreExact ==
    [][At("restore", "wal") /\ cli' = Idle /\ errors' = errors /\ crashes' = crashes
        => Content(main', wal') = Content(backup.main, backup.wal)]_vars

\* A rotation can lock the store out in two windows: between the rekey and the
\* writing of the temporary keyfile, when the new key is nowhere but in memory,
\* and when the rollback of a failed rotation fails in its turn, for it has
\* truncated the keyfile and the copy of the old key is deleted all the same.
\* Those are the only ones: at any other time, whatever failed or was killed
\* before and wherever, one of the three key files or the key the user keeps
\* opens the store (or it is a restored backup older than the last rotation, or
\* the restore was cut off).
LockoutWindow ==
    \/ main.key \in {keyfile, bak, tmp, exported}
    \/ InWindow \/ lockedOut
    \/ main.key = backup.main.key
    \/ main.key = Torn
=============================================================================
