----------------------------- MODULE StoreProofs ------------------------------
(***************************************************************************)
(* The store, its files and the graph in its tables.                       *)
(*                                                                         *)
(* Files (StoreFiles): no command loses the key of the store outside the   *)
(* one window, a cold backup is faithful and a restore puts it back, for   *)
(* any number of keys, transactions, exceptions and kills.                 *)
(*                                                                         *)
(* Graph (KnowledgeGraph): a person keeps the role that is best supported  *)
(* and only that one, and the sweep looks at the user, for any number of   *)
(* turns, people and statements.                                           *)
(***************************************************************************)
EXTENDS StoreFiles, KnowledgeGraph, FiniteSetTheorems, SequenceTheorems, TLAPS

\* A command that is past its first step works on copies that exist.
CopiesExist ==
    /\ cli.op = "restore" => backup.whole
    /\ cli.op = "backup" => backup # NoCopy
    /\ cli.op = "migrate" => moved # NoCopy

\* Where the key of the store is, step by step of a rotation and an import.
KeyWhileRunning ==
    /\ At("rotate", "save") => main.key = keyfile
    /\ At("rotate", "rekey") => main.key = bak /\ keyfile = bak
    /\ At("rotate", "tmp") => main.key = keys /\ keyfile = bak
    /\ At("rotate", "swap") => main.key = keys /\ tmp = keys /\ keyfile = bak
    /\ At("rotate", "rollback") => (main.key \in {bak, tmp} \/ lockedOut) /\ keyfile = bak
    /\ At("rotate", "clean") => main.key \in {keyfile, tmp} \/ lockedOut
    /\ At("import", "write") => main.key = exported

\* The user's copy is the only one left when an import tore the keyfile, and
\* then nothing can be exported over it.
KeyAtRest ==
    \/ main.key \in {keyfile, bak, tmp}
    \/ keyfile = Torn /\ main.key = exported
    \/ InWindow \/ lockedOut
    \/ main.key = backup.main.key
    \/ main.key = Torn

\* The proxy has the store open with its key and a WAL, and never beside a
\* command that needs it stopped.
ProxyApart ==
    proxy = "up" =>
        /\ main.key \in Key /\ wal \in Wal
        /\ cli.op \notin {"restore", "rotate", "import"}

IInv == TypeOK /\ CopiesExist /\ ProxyApart /\ KeyWhileRunning /\ KeyAtRest

-----------------------------------------------------------------------------
\* A command is one of these.
LEMMA Commands ==
    \A c : c \in Command <=>
        \/ c \in {[op |-> "backup", step |-> "wal"], [op |-> "backup", step |-> "sum"]}
        \/ c \in {[op |-> "restore", step |-> "clear"],
                  [op |-> "restore", step |-> "main"], [op |-> "restore", step |-> "wal"]}
        \/ c \in {[op |-> "rotate", step |-> s] :
                  s \in {"save", "rekey", "tmp", "swap", "rollback", "clean"}}
        \/ c = [op |-> "migrate", step |-> "check"]
        \/ c = [op |-> "import", step |-> "write"]
  BY DEF Command, Steps

\* What can be read from the files is a set of transactions.
LEMMA ContentTyped ==
    ASSUME TypeOK, Stored # Corrupt
    PROVE  Stored \in SUBSET Commit /\ main.key \in Key
  BY DEF TypeOK, Stored, Content, Corrupt, Database, Wal, NoWal

LEMMA InitIInv == Init => IInv
  <1> SUFFICES ASSUME Init PROVE IInv OBVIOUS
  <1> USE DEF Init
  <1>1. main \in Database /\ keys \in Key
    BY StoreAssumption DEF Database, Key
  <1>2. {keyfile, bak, tmp, exported} \subseteq KeyFile
    BY StoreAssumption DEF KeyFile, Key, NoKey
  <1>3. commits \in 0..MaxCommits /\ errors \in 0..MaxErrors /\ crashes \in 0..MaxCrashes
    BY StoreAssumption
  <1>4. TypeOK
    BY <1>1, <1>2, <1>3 DEF TypeOK
  <1>5. CopiesExist /\ ProxyApart /\ KeyWhileRunning /\ KeyAtRest
    BY DEF CopiesExist, ProxyApart, KeyWhileRunning, KeyAtRest, At, Idle
  <1>6. QED BY <1>4, <1>5 DEF IInv

LEMMA ProxyStep == IInv /\ Proxy => IInv'
  <1> SUFFICES ASSUME IInv, Proxy PROVE IInv' OBVIOUS
  <1> USE Commands, ContentTyped
      DEF IInv, TypeOK, CopiesExist, ProxyApart, KeyWhileRunning, KeyAtRest, InWindow,
        At, Goto, Return, Begin, Idle, Opens, Snapshot, KeyFile, Key, Database,
        NoCopy, Copy, NoKey, NoWal, Wal, Torn, keyring, copies, faults, ColdOnly
  <1>1. CASE Open
    BY <1>1 DEF Open
  <1>2. CASE Write
    <2>1. wal' \in Wal /\ commits' \in 0..MaxCommits
      <3>1. commits' \in Commit /\ wal \in Wal /\ main.key \in Key /\ main.rows \subseteq Commit
        BY <1>2, StoreAssumption DEF Write, ProxyApart, TypeOK, Commit, Database
      <3>2. wal.base \subseteq Commit /\ wal.rows \cup {commits'} \subseteq Commit
        BY <3>1 DEF Wal
      <3>3. QED BY <1>2, <3>1, <3>2, StoreAssumption DEF Write, Wal, Commit
    <2>2. UNCHANGED <<main, keyring, proxy, copies, cli, keys, faults>>
      BY <1>2 DEF Write
    <2>3. QED BY <2>1, <2>2
  <1>3. CASE Checkpoint
    BY <1>3 DEF Checkpoint
  <1>4. CASE Close
    BY <1>4 DEF Close
  <1>5. CASE Kill
    BY <1>5 DEF Kill
  <1>q. QED BY <1>1, <1>2, <1>3, <1>4, <1>5 DEF Proxy

LEMMA BackupStep == IInv /\ Backup => IInv'
  <1> SUFFICES ASSUME IInv, Backup PROVE IInv' OBVIOUS
  <1> USE Commands, ContentTyped
      DEF IInv, TypeOK, CopiesExist, ProxyApart, KeyWhileRunning, KeyAtRest, InWindow,
        At, Goto, Return, Begin, Idle, Opens, Snapshot, KeyFile, Key, Database,
        NoCopy, Copy, NoKey, NoWal, Wal, Torn, keyring, copies, faults, ColdOnly
  <1>1. CASE BackupMain
    BY <1>1 DEF BackupMain
  <1>2. CASE BackupWal
    BY <1>2 DEF BackupWal
  <1>3. CASE BackupSum
    BY <1>3 DEF BackupSum
  <1>q. QED BY <1>1, <1>2, <1>3 DEF Backup

LEMMA RestoreStep == IInv /\ Restore => IInv'
  <1> SUFFICES ASSUME IInv, Restore PROVE IInv' OBVIOUS
  <1> USE Commands, ContentTyped
      DEF IInv, TypeOK, CopiesExist, ProxyApart, KeyWhileRunning, KeyAtRest, InWindow,
        At, Goto, Return, Begin, Idle, Opens, Snapshot, KeyFile, Key, Database,
        NoCopy, Copy, NoKey, NoWal, Wal, Torn, keyring, copies, faults, ColdOnly
  <1>1. CASE RestoreBegin
    BY <1>1 DEF RestoreBegin
  <1>2. CASE RestoreClear
    BY <1>2 DEF RestoreClear
  <1>3. CASE RestoreMain
    BY <1>3 DEF RestoreMain
  <1>4. CASE RestoreWal
    BY <1>4 DEF RestoreWal
  <1>q. QED BY <1>1, <1>2, <1>3, <1>4 DEF Restore

LEMMA RotateStep == IInv /\ Rotate => IInv'
  <1> SUFFICES ASSUME IInv, Rotate PROVE IInv' OBVIOUS
  <1> USE Commands, ContentTyped
      DEF IInv, TypeOK, CopiesExist, ProxyApart, KeyWhileRunning, KeyAtRest, InWindow,
        At, Goto, Return, Begin, Idle, Opens, Snapshot, KeyFile, Key, Database,
        NoCopy, Copy, NoKey, NoWal, Wal, Torn, keyring, copies, faults, ColdOnly
  <1>1. CASE RotateVerify
    <2>1. main' \in Database /\ main'.key = main.key
      BY <1>1 DEF RotateVerify, Opens, TypeOK, Database
    <2>2. keys' \in Key
      BY <1>1, StoreAssumption DEF RotateVerify, TypeOK, Key
    <2>3. cli' = [op |-> "rotate", step |-> "save"] /\ main.key = keyfile /\ proxy = "down"
      BY <1>1 DEF RotateVerify, Begin, Opens
    <2>4. wal' = NoWal /\ UNCHANGED <<keyring, proxy, commits, copies, faults>>
      BY <1>1 DEF RotateVerify
    <2>5. QED BY <2>1, <2>2, <2>3, <2>4
  <1>2. CASE RotateSave
    BY <1>2 DEF RotateSave
  <1>3. CASE RotateRekey
    BY <1>3 DEF RotateRekey
  <1>4. CASE RotateTmp
    BY <1>4 DEF RotateTmp
  <1>5. CASE RotateSwap
    BY <1>5 DEF RotateSwap
  <1>6. CASE RotateRollback
    BY <1>6 DEF RotateRollback
  <1>7. CASE RotateClean
    BY <1>7 DEF RotateClean
  <1>q. QED BY <1>1, <1>2, <1>3, <1>4, <1>5, <1>6, <1>7 DEF Rotate

LEMMA ImportStep == IInv /\ Import => IInv'
  <1> SUFFICES ASSUME IInv, Import PROVE IInv' OBVIOUS
  <1> USE Commands, ContentTyped
      DEF IInv, TypeOK, CopiesExist, ProxyApart, KeyWhileRunning, KeyAtRest, InWindow,
        At, Goto, Return, Begin, Idle, Opens, Snapshot, KeyFile, Key, Database,
        NoCopy, Copy, NoKey, NoWal, Wal, Torn, keyring, copies, faults, ColdOnly
  <1>1. CASE Export
    BY <1>1 DEF Export
  <1>2. CASE ImportBegin
    BY <1>2 DEF ImportBegin
  <1>3. CASE ImportWrite
    BY <1>3 DEF ImportWrite
  <1>q. QED BY <1>1, <1>2, <1>3 DEF Import

LEMMA MigrateStep == IInv /\ Migrate => IInv'
  <1> SUFFICES ASSUME IInv, Migrate PROVE IInv' OBVIOUS
  <1> USE Commands, ContentTyped
      DEF IInv, TypeOK, CopiesExist, ProxyApart, KeyWhileRunning, KeyAtRest, InWindow,
        At, Goto, Return, Begin, Idle, Opens, Snapshot, KeyFile, Key, Database,
        NoCopy, Copy, NoKey, NoWal, Wal, Torn, keyring, copies, faults, ColdOnly
  <1>1. CASE MigrateMain
    BY <1>1 DEF MigrateMain
  <1>2. CASE MigrateCheck
    <2>1. moved \in Copy
      BY <1>2 DEF MigrateCheck, At, CopiesExist, TypeOK
    <2>2. moved' \in Copy \cup {NoCopy}
      BY <1>2, <2>1 DEF MigrateCheck, Copy
    <2>3. QED BY <1>2, <2>2 DEF MigrateCheck
  <1>q. QED BY <1>1, <1>2 DEF Migrate

\* What is torn is a file of the step that was cut off.
LEMMA TearOnly ==
    ASSUME Tear \/ UNCHANGED <<main, keyring>>, TypeOK
    PROVE  /\ main' \in Database /\ {keyfile', bak', tmp', exported'} \subseteq KeyFile
           /\ UNCHANGED exported
           /\ main' = main \/ (At("restore", "main") /\ main' = [main EXCEPT !.key = Torn])
           /\ ~At("restore", "main") => UNCHANGED main
           /\ keyfile' = keyfile
              \/ (keyfile' = Torn /\ (At("rotate", "rollback") \/ At("import", "write")))
           /\ ~At("rotate", "save") => UNCHANGED bak
           /\ ~At("rotate", "tmp") => UNCHANGED tmp
  BY DEF Tear, TypeOK, Database, KeyFile, keyring, At

LEMMA RaiseStep == IInv /\ Raise => IInv'
  <1> SUFFICES ASSUME IInv, Raise PROVE IInv' OBVIOUS
  <1>1. /\ errors' \in 0..MaxErrors /\ lockedOut' \in BOOLEAN
        /\ lockedOut \/ InWindow => lockedOut'
        /\ At("rotate", "rollback") /\ keyfile' = Torn => lockedOut'
    <2>1. errors < MaxErrors /\ errors' = errors + 1 /\ errors \in 0..MaxErrors
      BY DEF IInv, Raise, TypeOK
    <2>2. errors' \in 0..MaxErrors
      BY <2>1, StoreAssumption
    <2> QED BY <2>2 DEF IInv, Raise, TypeOK
  <1>2. /\ UNCHANGED <<wal, proxy, commits, copies, keys, crashes>>
        /\ Tear \/ UNCHANGED <<main, keyring>>
    BY DEF Raise
  <1>t. /\ main' \in Database /\ {keyfile', bak', tmp', exported'} \subseteq KeyFile
        /\ UNCHANGED exported
        /\ main' = main \/ (At("restore", "main") /\ main' = [main EXCEPT !.key = Torn])
        /\ ~At("restore", "main") => UNCHANGED main
        /\ keyfile' = keyfile
           \/ (keyfile' = Torn /\ (At("rotate", "rollback") \/ At("import", "write")))
        /\ ~At("rotate", "save") => UNCHANGED bak
        /\ ~At("rotate", "tmp") => UNCHANGED tmp
    BY <1>2, TearOnly DEF IInv
  <1>p. proxy = "up" => UNCHANGED main
    BY <1>t DEF IInv, ProxyApart, At
  <1>3. CASE cli.op = "rotate" /\ cli.step \in {"rekey", "tmp", "swap", "rollback"}
    <2>1. /\ cli' = [op |-> "rotate", step |-> IF At("rotate", "rollback") THEN "clean"
                                                ELSE "rollback"]
          /\ cli = [op |-> "rotate", step |-> cli.step]
      BY <1>3, Commands DEF IInv, TypeOK, Raise, Goto, Idle, At
    <2>2. UNCHANGED <<main, bak>>
      BY <1>t, <2>1, <1>3 DEF At
    <2>3. CASE At("rotate", "rollback")
      <3>1. main'.key \in {keyfile', tmp'} \/ lockedOut'
        BY <1>1, <1>t, <2>2, <2>3 DEF IInv, KeyWhileRunning, At
      <3>2. proxy' = "down"
        BY <1>2, <2>3 DEF IInv, TypeOK, ProxyApart, At
      <3>3. TypeOK'
        BY <1>1, <1>2, <1>t, <2>1, <2>3, Commands DEF IInv, TypeOK, copies
      <3>4. CopiesExist' /\ ProxyApart' /\ KeyWhileRunning' /\ KeyAtRest'
        BY <1>2, <2>1, <2>3, <3>1, <3>2 DEF CopiesExist, ProxyApart, KeyWhileRunning,
           KeyAtRest, At
      <3> QED BY <3>3, <3>4 DEF IInv
    <2>4. CASE ~At("rotate", "rollback")
      <3>0. UNCHANGED keyfile
        BY <1>t, <2>4, <1>3 DEF At
      <3>1. (main'.key \in {bak', tmp'} \/ lockedOut') /\ keyfile' = bak'
        BY <1>1, <1>t, <1>3, <2>1, <2>2, <2>4, <3>0 DEF IInv, KeyWhileRunning, At, InWindow
      <3>2. proxy' = "down"
        BY <1>2, <1>3 DEF IInv, TypeOK, ProxyApart
      <3>3. TypeOK'
        BY <1>1, <1>2, <1>t, <2>1, <2>4, Commands DEF IInv, TypeOK, copies
      <3>4. CopiesExist' /\ ProxyApart' /\ KeyWhileRunning' /\ KeyAtRest'
        BY <1>2, <2>1, <2>4, <3>1, <3>2 DEF CopiesExist, ProxyApart, KeyWhileRunning,
           KeyAtRest, At
      <3> QED BY <3>3, <3>4 DEF IInv
    <2> QED BY <2>3, <2>4
  <1>4. CASE ~(cli.op = "rotate" /\ cli.step \in {"rekey", "tmp", "swap", "rollback"})
    <2>1. cli' = Idle
      BY <1>4 DEF Raise, Return, At
    <2>2. TypeOK' /\ CopiesExist' /\ ProxyApart' /\ KeyWhileRunning'
      BY <1>1, <1>2, <1>t, <1>p, <2>1 DEF IInv, TypeOK, CopiesExist, ProxyApart,
         KeyWhileRunning, At, Idle, copies
    <2>3. KeyAtRest'
      <3>1. UNCHANGED tmp /\ ~InWindow
        BY <1>t, <1>4 DEF At, InWindow
      <3>2. CASE main' # main
        BY <1>t, <3>2 DEF IInv, TypeOK, Database, KeyAtRest
      <3>3. CASE keyfile' # keyfile
        <4>1. At("import", "write") /\ keyfile' = Torn
          BY <1>t, <1>4, <3>3 DEF At
        <4> QED BY <1>t, <4>1 DEF IInv, KeyWhileRunning, KeyAtRest, At
      <3>4. CASE bak' # bak
        <4>1. At("rotate", "save") /\ UNCHANGED <<main, keyfile>>
          BY <1>t, <3>4 DEF At
        <4> QED BY <4>1 DEF IInv, KeyWhileRunning, KeyAtRest
      <3>5. CASE UNCHANGED <<main, keyfile, bak>>
        BY <1>1, <1>2, <1>t, <1>4, <3>1, <3>5, Commands DEF IInv, TypeOK, KeyAtRest,
           KeyWhileRunning, At, Idle, copies
      <3> QED BY <3>2, <3>3, <3>4, <3>5
    <2> QED BY <2>2, <2>3 DEF IInv
  <1>5. QED BY <1>3, <1>4

LEMMA CrashStep == IInv /\ Crash => IInv'
  <1> SUFFICES ASSUME IInv, Crash PROVE IInv' OBVIOUS
  <1>1. crashes' \in 0..MaxCrashes /\ lockedOut' \in BOOLEAN /\ (lockedOut \/ InWindow => lockedOut')
    <2>1. crashes < MaxCrashes /\ crashes' = crashes + 1 /\ crashes \in 0..MaxCrashes
      BY DEF IInv, Crash, TypeOK
    <2>2. crashes' \in 0..MaxCrashes
      BY <2>1, StoreAssumption
    <2> QED BY <2>2 DEF IInv, Crash, TypeOK
  <1>2. /\ cli' = Idle
        /\ UNCHANGED <<wal, proxy, commits, copies, keys, errors>>
        /\ Tear \/ UNCHANGED <<main, keyring>>
    BY DEF Crash, Return
  <1>3. /\ main' \in Database /\ {keyfile', bak', tmp', exported'} \subseteq KeyFile
        /\ UNCHANGED exported
        /\ main' = main \/ (At("restore", "main") /\ main' = [main EXCEPT !.key = Torn])
        /\ ~At("restore", "main") => UNCHANGED main
        /\ keyfile' = keyfile
           \/ (keyfile' = Torn /\ (At("rotate", "rollback") \/ At("import", "write")))
        /\ ~At("rotate", "save") => UNCHANGED bak
        /\ ~At("rotate", "tmp") => UNCHANGED tmp
    BY <1>2, TearOnly DEF IInv
  <1>4. proxy = "up" => UNCHANGED main
    BY <1>3 DEF IInv, ProxyApart, At
  <1>5. TypeOK' /\ CopiesExist' /\ ProxyApart' /\ KeyWhileRunning'
    BY <1>1, <1>2, <1>3, <1>4 DEF IInv, TypeOK, CopiesExist, ProxyApart,
       KeyWhileRunning, At, Idle, copies
  <1>6. KeyAtRest'
    <2>1. CASE InWindow
      BY <1>1, <2>1 DEF KeyAtRest
    <2>2. CASE main' # main
      BY <1>3, <2>2 DEF IInv, TypeOK, Database, KeyAtRest
    <2>3. CASE keyfile' # keyfile
      <3>1. /\ keyfile' = Torn /\ UNCHANGED <<main, bak, tmp>>
            /\ At("rotate", "rollback") \/ At("import", "write")
        BY <1>3, <2>3 DEF At
      <3> QED BY <1>1, <1>3, <3>1 DEF IInv, KeyAtRest, KeyWhileRunning
    <2>4. CASE bak' # bak
      <3>1. At("rotate", "save") /\ UNCHANGED <<main, keyfile>>
        BY <1>3, <2>4 DEF At
      <3> QED BY <3>1 DEF IInv, KeyWhileRunning, KeyAtRest
    <2>5. CASE UNCHANGED <<main, keyfile, bak>> /\ ~InWindow
      <3>1. UNCHANGED tmp
        BY <1>3, <2>5 DEF InWindow
      <3> QED BY <1>1, <1>2, <1>3, <2>5, <3>1 DEF IInv, KeyAtRest, copies
    <2> QED BY <2>1, <2>2, <2>3, <2>4, <2>5
  <1>7. QED BY <1>5, <1>6 DEF IInv

LEMMA NextIInv == IInv /\ [Next]_vars => IInv'
  <1> SUFFICES ASSUME IInv, [Next]_vars PROVE IInv' OBVIOUS
  <1>1. CASE UNCHANGED vars
    BY <1>1 DEF IInv, vars,
       TypeOK, CopiesExist, ProxyApart, KeyWhileRunning, KeyAtRest, InWindow,
       At, Goto, Return, Begin, Idle, Opens, Snapshot, KeyFile, Key, Database,
       NoCopy, Copy, NoKey, NoWal, Wal, Torn, keyring, copies, faults, ColdOnly
  <1>2. CASE Next
    BY <1>2, ProxyStep, BackupStep, RestoreStep, RotateStep, ImportStep, MigrateStep,
       RaiseStep, CrashStep DEF Next
  <1>3. QED BY <1>1, <1>2

-----------------------------------------------------------------------------
THEOREM Invariance == Spec => []IInv
  BY InitIInv, NextIInv, PTL DEF Spec

\* Type correctness of the files and commands.
THEOREM StoreTypeCorrect == Spec => []TypeOK
  BY Invariance, PTL DEF IInv

\* rotate_key, import_key and restore_backup: whatever fails or is killed, and
\* however often, the store is only ever locked out by a failure between the
\* rekey and the writing of the temporary keyfile, or by a rollback that fails
\* while it writes the keyfile.
THEOREM LockoutOnlyInWindow == Spec => []LockoutWindow
  <1>1. IInv => LockoutWindow
    BY DEF IInv, KeyAtRest, LockoutWindow
  <1>2. QED BY <1>1, Invariance, PTL

-----------------------------------------------------------------------------
(***************************************************************************)
(* A backup that is only ever made with the proxy stopped.                 *)
(***************************************************************************)
Holds == Content(backup.main, backup.wal) = backup.expect /\ backup.expect # Corrupt

\* Nothing moves the files between the two copies.
ColdBackup ==
    /\ cli.op = "backup" => proxy = "down"
    /\ At("backup", "wal") =>
        backup.main = main /\ backup.expect = Stored /\ Stored # Corrupt
    /\ At("backup", "sum") \/ backup.whole => Holds

LEMMA ColdBackupStep ==
    ASSUME ~HotCopies, IInv, ColdBackup, [Next]_vars
    PROVE  ColdBackup'
  <1> USE DEF IInv, TypeOK, ColdBackup, Holds, At, Idle, Goto, Return, copies, keyring
  <1>1. CASE Proxy
    <2>1. cli.op # "backup" \/ proxy = "down"
      OBVIOUS
    <2>2. cli.op # "backup" \/ UNCHANGED <<main, wal, backup, proxy, cli>>
      BY <1>1, <2>1 DEF Proxy, Open, Write, Checkpoint, Close, Kill, ColdOnly
    <2>3. UNCHANGED <<backup, cli>>
      BY <1>1 DEF Proxy, Open, Write, Checkpoint, Close, Kill
    <2>4. QED BY <2>2, <2>3 DEF Stored
  <1>2. CASE BackupMain
    BY <1>2 DEF BackupMain, Begin, Snapshot, Stored
  <1>3. CASE BackupWal
    <2>1. backup \in Copy
      BY <1>3 DEF BackupWal, CopiesExist
    <2>2. /\ backup'.main = backup.main /\ backup'.expect = backup.expect
          /\ backup'.wal = wal /\ backup'.whole = backup.whole
      BY <1>3, <2>1 DEF BackupWal, Copy
    <2>3. QED BY <1>3, <2>2 DEF BackupWal, Stored
  <1>4. CASE BackupSum
    <2>1. backup \in Copy
      BY <1>4 DEF BackupSum, CopiesExist
    <2>2. /\ backup'.main = backup.main /\ backup'.expect = backup.expect
          /\ backup'.wal = backup.wal
      BY <1>4, <2>1 DEF BackupSum, Copy
    <2>3. QED BY <1>4, <2>2 DEF BackupSum
  <1>5. CASE Restore \/ Rotate \/ Import \/ Migrate
    <2>1. UNCHANGED backup /\ cli'.op # "backup"
      BY <1>5 DEF Restore, RestoreBegin, RestoreClear, RestoreMain, RestoreWal,
         Rotate, RotateVerify, RotateSave, RotateRekey, RotateTmp, RotateSwap,
         RotateRollback, RotateClean, Import, Export, ImportBegin, ImportWrite,
         Migrate, MigrateMain, MigrateCheck, Begin
    <2>2. QED BY <2>1
  <1>6. CASE Raise \/ Crash
    <2>1. UNCHANGED backup /\ cli'.op # "backup"
      BY <1>6, Commands DEF Raise, Crash
    <2>2. QED BY <2>1
  <1>7. CASE UNCHANGED vars
    BY <1>7 DEF vars, Stored
  <1>8. QED BY <1>1, <1>2, <1>3, <1>4, <1>5, <1>6, <1>7 DEF Next, Backup

\* create_backup: a backup made while no proxy has the store open is readable
\* and holds every transaction committed before it, also those a killed proxy
\* left in the WAL.  (It is false of a store in use.)
THEOREM ColdBackupFaithful ==
    ASSUME ~HotCopies
    PROVE  Spec => []BackupFaithful
  <1>1. Init => ColdBackup
    BY DEF Init, ColdBackup, At, Idle, NoCopy
  <1>2. IInv /\ ColdBackup /\ [Next]_vars => ColdBackup'
    BY ColdBackupStep
  <1>3. ColdBackup => BackupFaithful
    BY DEF ColdBackup, Holds, BackupFaithful
  <1>4. QED BY <1>1, <1>2, <1>3, Invariance, PTL DEF Spec
-----------------------------------------------------------------------------
(***************************************************************************)
(* A restore that comes to its end.                                        *)
(***************************************************************************)

\* Once the WAL is removed nothing brings one back until the restore copies
\* the backup's, and the database stays the backup's.
Restoring ==
    /\ At("restore", "main") => wal = NoWal
    /\ At("restore", "wal") => wal = NoWal /\ main = backup.main

LEMMA RestoringStep ==
    ASSUME IInv, Restoring, [Next]_vars
    PROVE  Restoring'
  <1> USE DEF Restoring, At
  <1>1. CASE Proxy
    <2>1. cli.op # "restore"
      BY <1>1 DEF Proxy, IInv, ProxyApart, ColdOnly, Open, Write, Checkpoint, Close, Kill
    <2>2. UNCHANGED cli
      BY <1>1 DEF Proxy, Open, Write, Checkpoint, Close, Kill
    <2> QED BY <2>1, <2>2
  <1>2. CASE Restore
    BY <1>2, Commands DEF Restore, RestoreBegin, RestoreClear, RestoreMain, RestoreWal,
       Begin, Goto, Return, Idle, copies
  <1>3. CASE Backup \/ Rotate \/ ImportBegin \/ ImportWrite \/ Migrate
    <2>1. cli'.op # "restore"
      BY <1>3 DEF Backup, BackupMain, BackupWal, BackupSum,
         Rotate, RotateVerify, RotateSave, RotateRekey, RotateTmp, RotateSwap,
         RotateRollback, RotateClean, ImportBegin, ImportWrite,
         Migrate, MigrateMain, MigrateCheck, Begin, Goto, Return, Idle, At
    <2> QED BY <2>1
  <1>4. CASE Raise \/ Crash
    <2>1. cli'.op # "restore"
      BY <1>4, Commands DEF Raise, Crash, IInv, TypeOK, Goto, Return, Idle
    <2> QED BY <2>1
  <1>5. CASE Export \/ UNCHANGED vars
    BY <1>5 DEF Export, vars, copies
  <1> QED BY <1>1, <1>2, <1>3, <1>4, <1>5 DEF Next, Import

\* restore_backup: for any number of keys, kills and exceptions before it, and
\* whatever WAL a killed proxy left, a restore that is not cut off leaves what
\* the backup holds; also when the backup was taken beside a running proxy.
THEOREM RestoreExactAlways == Spec => RestoreExact
  <1> DEFINE Exact == At("restore", "wal") /\ cli' = Idle /\ errors' = errors /\ crashes' = crashes
                      => Content(main', wal') = Content(backup.main, backup.wal)
  <1>1. Init => Restoring
    BY DEF Init, Restoring, At, Idle
  <1>2. IInv /\ Restoring /\ [Next]_vars => Restoring'
    BY RestoringStep
  <1>3. ASSUME IInv, Restoring, Next, At("restore", "wal"), cli' = Idle,
               errors' = errors, crashes' = crashes
        PROVE  Content(main', wal') = Content(backup.main, backup.wal)
    <2>1. ~Raise /\ ~Crash
      BY <1>3 DEF Raise, Crash, IInv, TypeOK
    <2>2. ~Proxy
      BY <1>3 DEF Proxy, IInv, ProxyApart, ColdOnly, Open, Write, Checkpoint, Close, Kill, At
    <2>3. ~Backup /\ ~Rotate /\ ~Import /\ ~Migrate
      BY <1>3 DEF Backup, BackupMain, BackupWal, BackupSum,
         Rotate, RotateVerify, RotateSave, RotateRekey, RotateTmp, RotateSwap,
         RotateRollback, RotateClean, Import, Export, ImportBegin, ImportWrite,
         Migrate, MigrateMain, MigrateCheck, Begin, At, Idle
    <2>4. RestoreWal
      BY <1>3, <2>1, <2>2, <2>3 DEF Next, Restore, RestoreBegin, RestoreClear, RestoreMain,
         Begin, At, Idle
    <2>5. main' = backup.main /\ wal' = backup.wal
      BY <1>3, <2>4 DEF RestoreWal, Restoring
    <2> QED BY <2>5
  <1>4. IInv /\ Restoring /\ [Next]_vars => [Exact]_vars
    BY <1>3
  <1> QED BY <1>1, <1>2, <1>4, Invariance, PTL DEF Spec, RestoreExact

-----------------------------------------------------------------------------
(***************************************************************************)
(* The knowledge graph in the store's tables: what a sweep supersedes,     *)
(* what it leaves, and that it looks at the user.                          *)
(***************************************************************************)

\* A turn speaks of one of its statements while it names and embeds.
GraphTyped ==
    /\ GraphTypeOK
    /\ \A t \in Turn :
          /\ pc[t] \in {"unsent", "extract"} => next[t] = 1
          /\ pc[t] \in {"name", "embed"} => next[t] <= Len(said[t])

LEMMA StatementParts ==
    ASSUME NEW s \in Statement
    PROVE  /\ s.names \in Seq(Person \cup {Owner}) /\ s.person \in Person
           /\ s.relation \in Role \cup Other /\ s.confidence \in 1..MaxRank
  BY GraphStatements DEF Rank

LEMMA StatementsAreLists ==
    ASSUME NEW l \in Statements
    PROVE  l \in Seq(Statement) /\ Len(l) \in Nat
  <1>1. PICK n \in 0..MaxStatements : l \in [1..n -> Statement]
    BY DEF Statements
  <1>2. n \in Nat
    OBVIOUS
  <1> QED BY <1>1, <1>2

LEMMA SayingOne ==
    ASSUME GraphTyped, NEW t \in Turn, pc[t] \in {"name", "embed"}
    PROVE  Saying(t) \in Statement
  <1>1. said[t] \in Statements /\ next[t] \in Nat \ {0} /\ next[t] <= Len(said[t])
    BY DEF GraphTyped, GraphTypeOK
  <1>2. said[t] \in Seq(Statement) /\ Len(said[t]) \in Nat
    BY <1>1, StatementsAreLists
  <1>3. next[t] \in 1..Len(said[t])
    BY <1>1, <1>2
  <1> QED BY <1>2, <1>3, ElementOfSeq DEF Saying

\* The user is resolved last.
LEMMA MentionedNames ==
    ASSUME NEW s \in Statement
    PROVE  /\ Mentioned(s) \in Seq(Name)
           /\ \E k \in DOMAIN Mentioned(s) : Mentioned(s)[k] = User
  <1> DEFINE tail == <<s.person, User>>
             all == s.names \o tail
  <1>1. s.names \in Seq(Name) /\ tail \in Seq(Name)
    <2>1. s.names \in Seq(Person \cup {Owner}) /\ s.person \in Person
      BY StatementParts
    <2>2. Person \cup {Owner} \subseteq Name
      BY DEF Name
    <2>3. s.names \in Seq(Name)
      BY <2>1, <2>2, SeqMonotonic
    <2>4. s.person \in Name /\ User \in Name
      BY <2>1 DEF Name
    <2> QED BY <2>3, <2>4
  <1>2. Len(tail) = 2 /\ tail[2] = User
    OBVIOUS
  <1> HIDE DEF tail
  <1>3. /\ all \in Seq(Name) /\ Len(all) = Len(s.names) + Len(tail)
        /\ \A i \in 1..Len(s.names) + Len(tail) :
              all[i] = IF i <= Len(s.names) THEN s.names[i] ELSE tail[i - Len(s.names)]
    BY <1>1, ConcatProperties
  <1> HIDE DEF all
  <1>4. Len(s.names) \in Nat
    BY <1>1
  <1>5. Len(s.names) + 2 \in 1..Len(all) /\ all[Len(s.names) + 2] = User
    BY <1>2, <1>3, <1>4
  <1>6. DOMAIN all = 1..Len(all)
    BY <1>3
  <1> QED BY <1>3, <1>5, <1>6 DEF all, tail, Mentioned

-----------------------------------------------------------------------------
(***************************************************************************)
(* Rows change in two ways: an edge is added or strengthened, or losers    *)
(* are superseded.                                                         *)
(***************************************************************************)

\* What insert_relationship does to the rows: the superseded ones stay as they
\* are, the current ones never weaken.
Grown(old, new) ==
    /\ new \in Seq(Edge) /\ Len(old) <= Len(new)
    /\ \A j \in 1..Len(new) :
          \/ j > Len(old) /\ new[j].status = "current"
          \/ /\ j <= Len(old)
             /\ new[j].target = old[j].target /\ new[j].relation = old[j].relation
             /\ new[j].status = old[j].status
             /\ new[j].confidence >= old[j].confidence
             /\ new[j].status = "superseded" => new[j] = old[j]

LEMMA EdgeParts ==
    ASSUME NEW rows \in Seq(Edge), NEW i \in 1..Len(rows)
    PROVE  /\ rows[i] \in Edge
           /\ rows[i].confidence \in 1..MaxRank /\ rows[i].confidence \in Int
           /\ rows[i].status \in {"current", "superseded"}
           /\ rows[i].target \in Person /\ rows[i].relation \in Role \cup Other
  <1>1. rows[i] \in Edge
    BY ElementOfSeq
  <1> QED BY <1>1 DEF Edge, Rank

LEMMA RowsSame ==
    ASSUME NEW rows \in Seq(Edge)
    PROVE  Grown(rows, rows)
  <1>1. Len(rows) \in Nat
    OBVIOUS
  <1>2. \A j \in 1..Len(rows) : rows[j].confidence \in Int /\ j <= Len(rows)
    BY <1>1, EdgeParts
  <1> QED BY <1>1, <1>2 DEF Grown

LEMMA AddEdgeGrows ==
    ASSUME edges \in Seq(Edge), NEW s \in Statement
    PROVE  Grown(edges, AddEdge(s))
  <1>0. Len(edges) \in Nat /\ DOMAIN edges = 1..Len(edges)
    OBVIOUS
  <1>s. /\ s.person \in Person /\ s.relation \in Role \cup Other
        /\ s.confidence \in 1..MaxRank
    BY StatementParts
  <1>1. CASE Same(s) = {}
    <2> DEFINE e == NewEdge(s)
    <2>1. e \in Edge /\ e.status = "current"
      BY <1>s DEF NewEdge, Edge, Rank
    <2>2. AddEdge(s) = Append(edges, e)
      BY <1>1 DEF AddEdge
    <2> HIDE DEF e
    <2> DEFINE new == Append(edges, e)
    <2>3. /\ new \in Seq(Edge) /\ Len(new) = Len(edges) + 1
          /\ \A j \in 1..Len(edges) : new[j] = edges[j]
          /\ new[Len(edges) + 1] = e
      BY <2>1
    <2> HIDE DEF new
    <2>4. ASSUME NEW j \in 1..Len(new)
          PROVE  \/ j > Len(edges) /\ new[j].status = "current"
                 \/ j <= Len(edges) /\ new[j] = edges[j] /\ edges[j].confidence \in Int
      <3>1. j = Len(edges) + 1 \/ j \in 1..Len(edges)
        BY <1>0, <2>3
      <3> QED BY <1>0, <2>1, <2>3, <3>1, EdgeParts
    <2>5. Grown(edges, new)
      BY <1>0, <2>3, <2>4 DEF Grown
    <2> QED BY <2>2, <2>5 DEF new
  <1>2. CASE Same(s) # {}
    <2> DEFINE i == CHOOSE i \in Same(s) : TRUE
               best == Merged(edges[i].confidence, s)
               e == [edges[i] EXCEPT !.confidence = best]
    <2>1. i \in 1..Len(edges) /\ edges[i].status = "current"
      <3>1. i \in Same(s)
        BY <1>2
      <3> QED BY <1>0, <3>1 DEF Same, Current
    <2>2. AddEdge(s) = [edges EXCEPT ![i] = e]
      BY <1>2, Zenon DEF AddEdge
    <2> HIDE DEF i
    <2>3. edges[i] \in Edge /\ edges[i].confidence \in 1..MaxRank
      BY <2>1, EdgeParts
    <2>4. best \in 1..MaxRank /\ best >= edges[i].confidence
      BY <1>s, <2>3 DEF Merged
    <2> HIDE DEF best
    <2>5. /\ e \in Edge /\ e.target = edges[i].target /\ e.relation = edges[i].relation
          /\ e.status = "current" /\ e.confidence >= edges[i].confidence
      BY <2>1, <2>3, <2>4 DEF Edge, Rank
    <2> HIDE DEF e
    <2> DEFINE new == [edges EXCEPT ![i] = e]
    <2>6. /\ new \in Seq(Edge) /\ Len(new) = Len(edges)
          /\ \A j \in 1..Len(edges) : new[j] = IF j = i THEN e ELSE edges[j]
      BY <2>1, <2>5, ExceptSeq
    <2> HIDE DEF new
    <2>7. ASSUME NEW j \in 1..Len(new)
          PROVE  /\ j <= Len(edges)
                 /\ new[j].target = edges[j].target /\ new[j].relation = edges[j].relation
                 /\ new[j].status = edges[j].status
                 /\ new[j].confidence >= edges[j].confidence
                 /\ new[j].status = "superseded" => new[j] = edges[j]
      <3>1. j \in 1..Len(edges) /\ edges[j].confidence \in Int
        BY <2>6, EdgeParts
      <3>2. CASE j = i
        BY <2>1, <2>5, <2>6, <3>1, <3>2
      <3>3. CASE j # i
        BY <1>0, <2>6, <3>1, <3>3
      <3> QED BY <3>2, <3>3
    <2>8. Grown(edges, new)
      BY <1>0, <2>6, <2>7 DEF Grown
    <2> QED BY <2>2, <2>8 DEF new
  <1> QED BY <1>1, <1>2

LEMMA RelatedGrows ==
    ASSUME edges \in Seq(Edge), NEW s \in Statement
    PROVE  Grown(edges, Related(s))
  BY AddEdgeGrows, RowsSame DEF Related

LEMMA WithoutRows ==
    ASSUME edges \in Seq(Edge), NEW lost
    PROVE  /\ Without(lost) \in Seq(Edge)
           /\ Len(Without(lost)) = Len(edges)
           /\ \A j \in 1..Len(edges) :
                 /\ Without(lost)[j].target = edges[j].target
                 /\ Without(lost)[j].relation = edges[j].relation
                 /\ Without(lost)[j].confidence = edges[j].confidence
                 /\ Without(lost)[j].status =
                       IF j \in lost THEN "superseded" ELSE edges[j].status
  <1> DEFINE row(j) == IF j \in lost THEN [edges[j] EXCEPT !.status = "superseded"] ELSE edges[j]
             new == [j \in 1..Len(edges) |-> row(j)]
  <1>1. Without(lost) = new
    BY DEF Without
  <1>2. ASSUME NEW j \in 1..Len(edges)
        PROVE  /\ row(j) \in Edge /\ row(j).target = edges[j].target
               /\ row(j).relation = edges[j].relation /\ row(j).confidence = edges[j].confidence
               /\ row(j).status = IF j \in lost THEN "superseded" ELSE edges[j].status
    <2>1. edges[j] \in Edge
      BY EdgeParts
    <2> QED BY <2>1 DEF Edge
  <1> HIDE DEF row
  <1>3. Len(edges) \in Nat
    OBVIOUS
  <1>4. new \in Seq(Edge)
    BY <1>2, <1>3, IsASeq
  <1>5. new \in [1..Len(edges) -> Edge]
    BY <1>2
  <1>6. Len(new) = Len(edges)
    BY <1>3, <1>4, <1>5
  <1>7. \A j \in 1..Len(edges) : new[j] = row(j)
    OBVIOUS
  <1> HIDE DEF new
  <1> QED BY <1>1, <1>2, <1>4, <1>6, <1>7

-----------------------------------------------------------------------------
(***************************************************************************)
(* The best of a person's exclusive roles is not a loser.                  *)
(***************************************************************************)
LEMMA Highest ==
    ASSUME NEW L \in Nat, NEW T \in SUBSET (1..L), T # {}
    PROVE  \E m \in T : \A x \in T : x <= m
  <1> DEFINE D == {n \in 1..L : \E x \in T : n <= x}
             c == Cardinality(D)
  <1>1. IsFiniteSet(1..L) /\ Cardinality(1..L) = L
    BY FS_Interval
  <1>2. IsFiniteSet(D) /\ c \in Nat
    <2>1. D \in SUBSET (1..L)
      OBVIOUS
    <2> HIDE DEF D
    <2> QED BY <1>1, <2>1, FS_Subset, FS_CardinalityType
  <1>3. ASSUME NEW x \in T PROVE x <= c
    <2>1. 1..x \in SUBSET D /\ Cardinality(1..x) = x /\ x \in Nat
      BY FS_Interval
    <2> HIDE DEF D
    <2>2. Cardinality(1..x) <= Cardinality(D)
      BY <1>2, <2>1, FS_Subset
    <2> QED BY <1>2, <2>1, <2>2
  <1>4. D \in SUBSET (1..c)
    <2> SUFFICES ASSUME NEW n \in D PROVE n \in 1..c
      OBVIOUS
    <2>1. PICK x \in T : n <= x
      OBVIOUS
    <2>2. x <= c /\ n \in 1..L
      BY <1>3
    <2> HIDE DEF D, c
    <2> QED BY <1>2, <2>1, <2>2
  <1>5. IsFiniteSet(1..c) /\ Cardinality(1..c) = c
    <2> HIDE DEF c
    <2> QED BY <1>2, FS_Interval
  <1>6. D = 1..c
    <2> HIDE DEF D
    <2> QED BY <1>4, <1>5, FS_Subset
  <1>7. c \in D
    <2>1. PICK x \in T : TRUE
      OBVIOUS
    <2>2. x <= c /\ x \in 1..L
      BY <1>3
    <2>3. c \in 1..c
      <3> HIDE DEF c
      <3> QED BY <1>2, <2>2
    <2> QED BY <1>6, <2>3
  <1>8. PICK m \in T : c <= m
    BY <1>7
  <1>9. \A x \in T : x <= m
    <2> HIDE DEF c
    <2> QED BY <1>2, <1>3, <1>8
  <1> QED BY <1>9

LEMMA Lowest ==
    ASSUME NEW L \in Nat, NEW T \in SUBSET (1..L), T # {}
    PROVE  \E m \in T : \A x \in T : m <= x
  <1> DEFINE U == {n \in 1..L : L + 1 - n \in T}
  <1>1. U # {}
    <2>1. PICK x \in T : TRUE
      OBVIOUS
    <2>2. L + 1 - x \in 1..L /\ L + 1 - (L + 1 - x) = x
      OBVIOUS
    <2> QED BY <2>1, <2>2
  <1>2. U \in SUBSET (1..L)
    OBVIOUS
  <1>3. PICK m \in U : \A n \in U : n <= m
    <2> HIDE DEF U
    <2> QED BY <1>1, <1>2, Highest
  <1>4. L + 1 - m \in T
    OBVIOUS
  <1>5. ASSUME NEW x \in T PROVE L + 1 - m <= x
    <2>1. L + 1 - x \in 1..L /\ L + 1 - (L + 1 - x) = x
      OBVIOUS
    <2>2. L + 1 - x <= m
      BY <1>3, <2>1
    <2> QED BY <2>1, <2>2
  <1> QED BY <1>4, <1>5

LEMMA BestStays ==
    ASSUME edges \in Seq(Edge), NEW j \in 1..Len(edges),
           edges[j].status = "current", edges[j].relation \in Role
    PROVE  \E i \in 1..Len(edges) :
              /\ i \notin Losers /\ edges[i].status = "current"
              /\ edges[i].target = edges[j].target /\ edges[i].relation \in Role
              /\ edges[i].confidence >= edges[j].confidence
  <1> DEFINE R == {i \in 1..Len(edges) :
                     /\ edges[i].status = "current" /\ edges[i].relation \in Role
                     /\ edges[i].target = edges[j].target}
             ranks == {edges[i].confidence : i \in R}
  <1>0. Len(edges) \in Nat /\ DOMAIN edges = 1..Len(edges) /\ MaxRank \in Nat
    BY GraphBounds
  <1>1. j \in R /\ R \in SUBSET (1..Len(edges))
    OBVIOUS
  <1>2. ranks \in SUBSET (1..MaxRank) /\ ranks # {}
    <2>1. \A i \in R : edges[i].confidence \in 1..MaxRank
      BY EdgeParts
    <2>2. edges[j].confidence \in ranks
      BY <1>1
    <2> HIDE DEF R
    <2> QED BY <2>1, <2>2
  <1>3. PICK m \in ranks : \A x \in ranks : x <= m
    <2> HIDE DEF ranks
    <2> QED BY <1>0, <1>2, Highest
  <1> DEFINE B == {i \in R : edges[i].confidence = m}
  <1>4. B # {} /\ B \in SUBSET (1..Len(edges))
    OBVIOUS
  <1>5. PICK b \in B : \A i \in B : b <= i
    <2> HIDE DEF B
    <2> QED BY <1>0, <1>4, Lowest
  <1>6. b \in R /\ b \in 1..Len(edges) /\ edges[b].confidence = m
    OBVIOUS
  <1>7. m >= edges[j].confidence
    <2>1. edges[j].confidence \in ranks
      BY <1>1
    <2>2. edges[j].confidence \in Int /\ m \in Int
      BY <1>2, EdgeParts
    <2> HIDE DEF ranks
    <2> QED BY <1>3, <2>1, <2>2
  <1>8. b \notin Losers
    <2> SUFFICES ASSUME NEW i \in 1..Len(edges), Rival(i, b), Better(i, b)
                 PROVE  FALSE
      BY <1>0 DEF Losers
    <2>1. i \in R
      BY <1>6 DEF Rival, Current
    <2>2. edges[i].confidence <= m /\ edges[i].confidence \in Int /\ m \in Int
      <3>1. edges[i].confidence \in ranks
        BY <2>1
      <3>2. edges[i].confidence <= m
        <4> HIDE DEF ranks
        <4> QED BY <1>3, <3>1
      <3> QED BY <1>2, <3>2, EdgeParts
    <2>3. edges[i].confidence = m /\ i < b
      <3> HIDE DEF R, B, ranks
      <3> QED BY <1>6, <2>2 DEF Better
    <2>4. i \in B
      BY <2>1, <2>3
    <2>5. b <= i
      <3> HIDE DEF B
      <3> QED BY <1>5, <2>4
    <2>6. i \in Int /\ b \in Int
      BY <1>0, <1>6
    <2> QED BY <2>3, <2>5, <2>6
  <1> QED BY <1>6, <1>7, <1>8

-----------------------------------------------------------------------------
\* StrongestKept of any rows.
Strongest(rows) ==
    \A j \in 1..Len(rows) :
        rows[j].status = "superseded" =>
            \E i \in 1..Len(rows) :
                /\ rows[i].status = "current" /\ rows[i].target = rows[j].target
                /\ rows[i].relation \in Role
                /\ rows[i].confidence >= rows[j].confidence

LEMMA GrownStrongest ==
    ASSUME NEW old \in Seq(Edge), NEW new \in Seq(Edge),
           Grown(old, new), Strongest(old)
    PROVE  Strongest(new)
  <1>0. Len(old) \in Nat /\ Len(new) \in Nat /\ Len(old) <= Len(new)
    BY DEF Grown
  <1> SUFFICES ASSUME NEW j \in 1..Len(new), new[j].status = "superseded"
               PROVE  \E i \in 1..Len(new) :
                        /\ new[i].status = "current" /\ new[i].target = new[j].target
                        /\ new[i].relation \in Role
                        /\ new[i].confidence >= new[j].confidence
    BY DEF Strongest
  <1>1. j \in 1..Len(old) /\ new[j] = old[j]
    BY <1>0 DEF Grown
  <1>2. PICK i \in 1..Len(old) :
          /\ old[i].status = "current" /\ old[i].target = old[j].target
          /\ old[i].relation \in Role /\ old[i].confidence >= old[j].confidence
    BY <1>1 DEF Strongest
  <1>3. /\ i \in 1..Len(new)
        /\ new[i].target = old[i].target /\ new[i].relation = old[i].relation
        /\ new[i].status = old[i].status /\ new[i].confidence >= old[i].confidence
    BY <1>0 DEF Grown
  <1>4. old[i].confidence \in Int /\ old[j].confidence \in Int /\ new[i].confidence \in Int
    BY <1>1, <1>3, EdgeParts
  <1>5. new[i].confidence >= new[j].confidence
    BY <1>1, <1>2, <1>3, <1>4
  <1> QED BY <1>1, <1>2, <1>3, <1>5

\* However many of the losers a sweep has come to supersede.
LEMMA SweptStrongest ==
    ASSUME edges \in Seq(Edge), Strongest(edges),
           NEW lost \in SUBSET Losers
    PROVE  Strongest(Without(lost))
  <1> DEFINE new == Without(lost)
  <1>1. /\ new \in Seq(Edge) /\ Len(new) = Len(edges)
        /\ \A j \in 1..Len(edges) :
              /\ new[j].target = edges[j].target /\ new[j].relation = edges[j].relation
              /\ new[j].confidence = edges[j].confidence
              /\ new[j].status = IF j \in lost THEN "superseded" ELSE edges[j].status
    BY WithoutRows
  <1> HIDE DEF new
  <1> SUFFICES ASSUME NEW j \in 1..Len(new), new[j].status = "superseded"
               PROVE  \E i \in 1..Len(new) :
                        /\ new[i].status = "current" /\ new[i].target = new[j].target
                        /\ new[i].relation \in Role
                        /\ new[i].confidence >= new[j].confidence
    BY DEF Strongest, new
  <1>2. PICK k \in 1..Len(edges) :
          /\ edges[k].status = "current" /\ edges[k].target = edges[j].target
          /\ edges[k].relation \in Role /\ edges[k].confidence >= edges[j].confidence
    <2>1. CASE j \in lost
      <3>1. j \in Losers
        BY <2>1
      <3>2. edges[j].status = "current" /\ edges[j].relation \in Role
        BY <3>1 DEF Losers, Rival, Current
      <3>3. edges[j].confidence >= edges[j].confidence
        BY <1>1, EdgeParts
      <3> QED BY <1>1, <3>2, <3>3
    <2>2. CASE j \notin lost
      BY <1>1, <2>2 DEF Strongest
    <2> QED BY <2>1, <2>2
  <1>3. PICK i \in 1..Len(edges) :
          /\ i \notin Losers /\ edges[i].status = "current"
          /\ edges[i].target = edges[k].target /\ edges[i].relation \in Role
          /\ edges[i].confidence >= edges[k].confidence
    BY <1>2, BestStays
  <1>4. i \notin lost
    BY <1>3
  <1>5. edges[i].confidence >= edges[j].confidence
    <2>1. edges[i].confidence \in Int /\ edges[j].confidence \in Int /\ edges[k].confidence \in Int
      BY <1>1, EdgeParts
    <2> QED BY <1>2, <1>3, <2>1
  <1> QED BY <1>1, <1>2, <1>3, <1>4, <1>5

\* After a whole sweep of the user's edges no two of them are rivals.
Apart(rows) ==
    \A i, j \in 1..Len(rows) :
        i # j => ~(/\ rows[i].status = "current" /\ rows[j].status = "current"
                   /\ rows[i].target = rows[j].target
                   /\ {rows[i].relation, rows[j].relation} \subseteq Role)

LEMMA SweptApart ==
    ASSUME edges \in Seq(Edge), Anchor = User
    PROVE  Apart(Without(Losers))
  <1> DEFINE new == Without(Losers)
  <1>0. Len(edges) \in Nat /\ DOMAIN edges = 1..Len(edges)
    OBVIOUS
  <1>1. /\ Len(new) = Len(edges)
        /\ \A j \in 1..Len(edges) :
              /\ new[j].target = edges[j].target /\ new[j].relation = edges[j].relation
              /\ new[j].status = IF j \in Losers THEN "superseded" ELSE edges[j].status
    BY WithoutRows
  <1> HIDE DEF new
  <1> SUFFICES ASSUME NEW i \in 1..Len(edges), NEW j \in 1..Len(edges), i # j,
                      new[i].status = "current", new[j].status = "current",
                      new[i].target = new[j].target,
                      {new[i].relation, new[j].relation} \subseteq Role
               PROVE  FALSE
    BY <1>1 DEF Apart, new
  <1>2. i \notin Losers /\ j \notin Losers
    BY <1>1
  <1>3. Rival(i, j) /\ Rival(j, i)
    BY <1>1, <1>2 DEF Rival, Current
  <1>4. ~Better(i, j) /\ ~Better(j, i)
    BY <1>0, <1>2, <1>3 DEF Losers
  <1>5. edges[i].confidence \in Int /\ edges[j].confidence \in Int
    BY EdgeParts
  <1> QED BY <1>0, <1>4, <1>5 DEF Better

-----------------------------------------------------------------------------
(***************************************************************************)
(* The steps of the writer and of the startup.                             *)
(***************************************************************************)
Unmoved == UNCHANGED <<entities, edges, disk, said, next>>

LEMMA Typing ==
    ASSUME GraphTyped, [GraphNext]_graphVars
    PROVE  GraphTyped'
  <1> USE DEF GraphTyped, GraphTypeOK
  <1>f. ASSUME Fail PROVE failures' \in 0..MaxFailures
    BY <1>f, GraphBounds DEF Fail
  <1>n. User \in Name /\ Owner \in Name
    BY DEF Name
  <1>1. CASE BootCheck
    BY <1>1 DEF BootCheck, graph
  <1>2. CASE BootSeed
    <2>1. entities' = entities \/ \E n \in Name : entities' = Append(entities, n)
      BY <1>2, <1>n DEF BootSeed, SeedEntity
    <2>2. entities' \in Seq(Name)
      <3>1. \A n \in Name : Append(entities, n) \in Seq(Name)
        OBVIOUS
      <3> QED BY <2>1, <3>1, Zenon
    <2> QED BY <1>2, <2>2 DEF BootSeed, SeedEntity
  <1>3. CASE BootFails
    BY <1>3, <1>f DEF BootFails, graph
  <1>4. CASE CrashProxy
    <2>1. failures' \in 0..MaxFailures
      BY <1>4, <1>f DEF CrashProxy
    <2>2. pc' \in [Turn -> {"unsent", "extract", "name", "embed", "sweep", "done", "lost"}]
          /\ \A t \in Turn : pc'[t] = pc[t] \/ pc'[t] = "lost"
      BY <1>4 DEF CrashProxy
    <2> QED BY <1>4, <2>1, <2>2 DEF CrashProxy
  <1>5. ASSUME NEW t \in Turn, Send(t) PROVE GraphTyped'
    BY <1>5 DEF Send, graph
  <1>6. ASSUME NEW t \in Turn, Extract(t) PROVE GraphTyped'
    <2>1. PICK l \in Statements :
            /\ said' = [said EXCEPT ![t] = l]
            /\ pc' = [pc EXCEPT ![t] = IF l = <<>> THEN "done" ELSE "name"]
            /\ pc[t] = "extract" /\ UNCHANGED <<entities, edges, disk, pinned, pin, server, next, failures>>
      BY <1>6 DEF Extract, graph
    <2>2. l # <<>> => 1 <= Len(l)
      BY StatementsAreLists
    <2> QED BY <2>1, <2>2
  <1>7. ASSUME NEW t \in Turn, NameEntity(t) PROVE GraphTyped'
    <2>1. pc[t] = "name" /\ Saying(t) \in Statement
          /\ UNCHANGED <<edges, pinned, pin, server, said, next, failures>>
      BY <1>7, SayingOne DEF NameEntity
    <2>2. pc' = pc \/ pc' = [pc EXCEPT ![t] = "embed"]
      BY <1>7 DEF NameEntity
    <2>3. entities' \in Seq(Name) /\ disk' \in {disk, edges}
      <3> DEFINE m == Mentioned(Saying(t))
      <3>1. m \in Seq(Name)
        BY <2>1, MentionedNames
      <3>2. \A k \in DOMAIN m : m[k] \in Name
        BY <3>1
      <3>3. \/ UNCHANGED <<entities, disk>>
            \/ \E k \in DOMAIN m : entities' = Append(entities, m[k]) /\ disk' = edges
        BY <1>7 DEF NameEntity
      <3> HIDE DEF m
      <3>4. CASE UNCHANGED <<entities, disk>>
        BY <3>4
      <3>5. CASE \E k \in DOMAIN m : entities' = Append(entities, m[k]) /\ disk' = edges
        <4>1. PICK k \in DOMAIN m : entities' = Append(entities, m[k]) /\ disk' = edges
          BY <3>5
        <4>2. entities \in Seq(Name) /\ m[k] \in Name
          BY <3>2
        <4>3. Append(entities, m[k]) \in Seq(Name)
          BY <4>2
        <4> QED BY <4>1, <4>3
      <3> QED BY <3>3, <3>4, <3>5
    <2> QED BY <2>1, <2>2, <2>3
  <1>8. ASSUME NEW t \in Turn, Relate(t) PROVE GraphTyped'
    <2>1. pc[t] = "embed" /\ Saying(t) \in Statement
          /\ UNCHANGED <<entities, pinned, pin, server, said>>
      BY <1>8, SayingOne DEF Relate
    <2>2. Related(Saying(t)) \in Seq(Edge)
      BY <2>1, RelatedGrows DEF Grown
    <2>3. edges' \in Seq(Edge) /\ disk' \in Seq(Edge) /\ failures' \in 0..MaxFailures
      BY <1>8, <1>f, <2>2 DEF Relate, Save
    <2>4. GoOn(t, TRUE) \/ GoOn(t, FALSE)
      BY <1>8 DEF Relate
    <2>5. /\ next' = [next EXCEPT ![t] = next[t] + 1]
          /\ pc' = [pc EXCEPT ![t] = IF next[t] < Len(said[t]) THEN "name" ELSE "sweep"]
      BY <2>4 DEF GoOn
    <2>6. next[t] \in Nat \ {0} /\ Len(said[t]) \in Nat
      BY StatementsAreLists
    <2>7. next[t] + 1 \in Nat \ {0} /\ (next[t] < Len(said[t]) => next[t] + 1 <= Len(said[t]))
      BY <2>6
    <2> QED BY <2>1, <2>3, <2>5, <2>7
  <1>9. ASSUME NEW t \in Turn, Sweep(t) \/ SweepFails(t) PROVE GraphTyped'
    <2>1. edges' \in Seq(Edge) /\ disk' \in Seq(Edge)
      BY <1>9, WithoutRows DEF Sweep, SweepFails, Save
    <2>2. /\ pc' = [pc EXCEPT ![t] = "done"] /\ failures' \in 0..MaxFailures
          /\ UNCHANGED <<entities, pinned, pin, server, said, next>>
      BY <1>9, <1>f DEF Sweep, SweepFails
    <2> QED BY <2>1, <2>2
  <1>10. ASSUME NEW t \in Turn, RaiseTurn(t) PROVE GraphTyped'
    BY <1>10, <1>f DEF RaiseTurn, graph
  <1>11. CASE UNCHANGED graphVars
    BY <1>11 DEF graphVars
  <1> QED
    BY <1>1, <1>2, <1>3, <1>4, <1>5, <1>6, <1>7, <1>8, <1>9, <1>10, <1>11 DEF GraphNext

LEMMA TypingInit == GraphInit => GraphTyped
  <1> SUFFICES ASSUME GraphInit PROVE GraphTyped OBVIOUS
  <1>1. <<>> \in Statements
    <2>1. <<>> \in [1..0 -> Statement] /\ 0 \in 0..MaxStatements
      BY GraphBounds
    <2> QED BY <2>1 DEF Statements
  <1>2. <<>> \in Seq(Name) /\ <<>> \in Seq(Edge)
    OBVIOUS
  <1>3. failures \in 0..MaxFailures
    BY GraphBounds DEF GraphInit
  <1>4. /\ pc \in [Turn -> {"unsent", "extract", "name", "embed", "sweep", "done", "lost"}]
        /\ said \in [Turn -> Statements]
        /\ next \in [Turn -> Nat \ {0}]
    BY <1>1 DEF GraphInit
  <1>5. /\ entities \in Seq(Name) /\ edges \in Seq(Edge) /\ disk \in Seq(Edge)
        /\ pinned \in BOOLEAN /\ pin \in BOOLEAN /\ server = "check"
    BY <1>2 DEF GraphInit
  <1>6. \A t \in Turn : pc[t] = "unsent" /\ next[t] = 1
    BY DEF GraphInit
  <1> QED BY <1>3, <1>4, <1>5, <1>6 DEF GraphTyped, GraphTypeOK

-----------------------------------------------------------------------------
\* The edges in memory and those on disk both keep the strongest role.
KeptRoles == Strongest(edges) /\ Strongest(disk)

LEMMA KeptRolesStep ==
    ASSUME GraphTyped, KeptRoles,
           [GraphNext]_graphVars
    PROVE  KeptRoles'
  <1>0. edges \in Seq(Edge) /\ disk \in Seq(Edge)
    BY DEF GraphTyped, GraphTypeOK
  <1>1. edges' \in {edges, disk} /\ disk' \in {edges, disk} => KeptRoles'
    BY DEF KeptRoles
  <1>2. CASE BootCheck \/ BootSeed \/ BootFails \/ CrashProxy
             \/ UNCHANGED graphVars
    <2>1. edges' \in {edges, disk} /\ disk' \in {edges, disk}
      BY <1>2 DEF BootCheck, BootSeed, SeedEntity, BootFails, CrashProxy, graph,
         graphVars
    <2> QED BY <1>1, <2>1
  <1>3. ASSUME NEW t \in Turn,
               Send(t) \/ Extract(t) \/ NameEntity(t) \/ RaiseTurn(t)
        PROVE  KeptRoles'
    <2>1. edges' \in {edges, disk} /\ disk' \in {edges, disk}
      BY <1>3 DEF Send, Extract, NameEntity, RaiseTurn, graph
    <2> QED BY <1>1, <2>1
  <1>4. ASSUME NEW t \in Turn, Relate(t) PROVE KeptRoles'
    <2> DEFINE new == Related(Saying(t))
    <2>1. Saying(t) \in Statement
      BY <1>4, SayingOne DEF Relate
    <2>2. Grown(edges, new) /\ new \in Seq(Edge)
      BY <1>0, <2>1, RelatedGrows DEF Grown
    <2>3. {edges', disk'} \subseteq {edges, disk, new}
      BY <1>4 DEF Relate, Save
    <2> HIDE DEF new
    <2>4. Strongest(new)
      BY <1>0, <2>2, GrownStrongest DEF KeptRoles
    <2> QED BY <2>3, <2>4 DEF KeptRoles
  <1>5. ASSUME NEW t \in Turn, Sweep(t) \/ SweepFails(t) PROVE KeptRoles'
    <2>1. PICK lost \in SUBSET Losers :
            edges' = Without(lost) /\ disk' \in {disk, Without(lost)}
      BY <1>5 DEF Sweep, SweepFails, Save
    <2>2. Strongest(Without(lost))
      BY <1>0, SweptStrongest DEF KeptRoles
    <2> QED BY <2>1, <2>2 DEF KeptRoles
  <1> QED BY <1>2, <1>3, <1>4, <1>5 DEF GraphNext

\* An edge is only superseded in favour of one that still holds and is as
\* strong: for any number of turns at once, any statements about any people,
\* and any failure of a write, a sweep or the proxy.
THEOREM StrongestKeptAlways ==
    GraphSpec => []StrongestKept
  <1>1. GraphInit => GraphTyped /\ KeptRoles
    <2>1. GraphInit => edges = <<>> /\ disk = <<>>
      BY DEF GraphInit
    <2> QED BY <2>1, TypingInit DEF KeptRoles, Strongest
  <1>2. GraphTyped /\ KeptRoles /\ [GraphNext]_graphVars => GraphTyped' /\ KeptRoles'
    BY Typing, KeptRolesStep
  <1>3. GraphTyped /\ KeptRoles => StrongestKept
    <2> SUFFICES ASSUME GraphTyped, Strongest(edges) PROVE StrongestKept
      BY DEF KeptRoles
    <2>1. DOMAIN edges = 1..Len(edges)
      BY DEF GraphTyped, GraphTypeOK
    <2> QED BY <2>1 DEF Strongest, StrongestKept, Current
  <1> QED BY <1>1, <1>2, <1>3, PTL DEF GraphSpec

-----------------------------------------------------------------------------
(***************************************************************************)
(* Whose edges the sweep looks at.                                         *)
(***************************************************************************)
OwnersPlaces(names) == {i \in DOMAIN names : names[i] \in Alias}

FirstOwner(names) ==
    IF OwnersPlaces(names) = {} THEN "none"
    ELSE names[CHOOSE i \in OwnersPlaces(names) : \A j \in OwnersPlaces(names) : i <= j]

LEMMA AnchorIsFirst ==
    Anchor = FirstOwner(entities) /\ Anchor' = FirstOwner(entities')
  BY DEF Anchor, FirstOwner, OwnersPlaces

LEMMA FirstOwnerAt ==
    ASSUME NEW names \in Seq(Name), NEW m \in OwnersPlaces(names),
           \A j \in OwnersPlaces(names) : m <= j
    PROVE  FirstOwner(names) = names[m]
  <1> DEFINE c == CHOOSE i \in OwnersPlaces(names) : \A j \in OwnersPlaces(names) : i <= j
  <1>1. c \in OwnersPlaces(names) /\ \A j \in OwnersPlaces(names) : c <= j
    BY Zenon
  <1>2. FirstOwner(names) = names[c]
    BY <1>1, Zenon DEF FirstOwner
  <1> HIDE DEF c
  <1>3. c <= m /\ m <= c /\ c \in Nat /\ m \in Nat
    BY <1>1 DEF OwnersPlaces
  <1>4. c = m
    BY <1>3
  <1> QED BY <1>2, <1>4

\* Once the owner has a name, names that come later do not change the anchor.
LEMMA FirstOwnerStays ==
    ASSUME NEW names \in Seq(Name), NEW n \in Name,
           OwnersPlaces(names) # {}
    PROVE  FirstOwner(Append(names, n)) = FirstOwner(names)
  <1> DEFINE more == Append(names, n)
  <1>1. /\ Len(names) \in Nat /\ DOMAIN names = 1..Len(names)
        /\ more \in Seq(Name) /\ DOMAIN more = 1..(Len(names) + 1)
        /\ \A i \in 1..Len(names) : more[i] = names[i]
    OBVIOUS
  <1> HIDE DEF more
  <1>2. OwnersPlaces(names) \in SUBSET (1..Len(names))
    BY <1>1 DEF OwnersPlaces
  <1>3. PICK m \in OwnersPlaces(names) : \A j \in OwnersPlaces(names) : m <= j
    BY <1>1, <1>2, Lowest
  <1>4. m \in 1..Len(names) /\ m \in OwnersPlaces(more) /\ more[m] = names[m]
    BY <1>1, <1>3 DEF OwnersPlaces
  <1>5. ASSUME NEW j \in OwnersPlaces(more) PROVE m <= j
    <2>1. j \in 1..Len(names) \/ j = Len(names) + 1
      BY <1>1 DEF OwnersPlaces
    <2>2. j \in 1..Len(names) => j \in OwnersPlaces(names)
      BY <1>1 DEF OwnersPlaces
    <2> QED BY <1>1, <1>3, <1>4, <2>1, <2>2
  <1> QED BY <1>1, <1>3, <1>4, <1>5, FirstOwnerAt DEF more

-----------------------------------------------------------------------------
\* No edge is added before the user is an entity.
UserNamed ==
    /\ edges # <<>> \/ disk # <<>> => User \in Known
    /\ \A t \in Turn : pc[t] = "embed" => User \in Known

\* Rivals are the work of a turn whose sweep is still to come.
Unswept ==
    failures = 0 /\ Anchor = User /\ ~Apart(edges) =>
        \E t \in Turn : pc[t] \in {"name", "embed", "sweep"}

LEMMA KnownGrows ==
    ASSUME entities \in Seq(Name), NEW n \in Name,
           entities' = Append(entities, n), User \in Known
    PROVE  User \in Known' /\ Anchor' = Anchor
  <1>1. /\ Len(entities) \in Nat /\ DOMAIN entities = 1..Len(entities)
        /\ DOMAIN entities' = 1..(Len(entities) + 1)
        /\ \A i \in 1..Len(entities) : entities'[i] = entities[i]
    OBVIOUS
  <1>2. PICK u \in DOMAIN entities : entities[u] = User
    BY DEF Known
  <1>3. u \in DOMAIN entities' /\ entities'[u] = User
    BY <1>1, <1>2
  <1>4. OwnersPlaces(entities) # {}
    BY <1>2 DEF OwnersPlaces, Alias
  <1>5. User \in Known'
    BY <1>3 DEF Known
  <1> QED BY <1>4, <1>5, AnchorIsFirst, FirstOwnerStays

\* The two ways a step can leave or extend the entities.
LEMMA EntitiesStep ==
    ASSUME GraphTyped, [GraphNext]_graphVars
    PROVE  entities' = entities \/ \E n \in Name : entities' = Append(entities, n)
  <1>1. CASE BootSeed
    <2>1. User \in Name /\ Owner \in Name
      BY DEF Name
    <2> QED BY <1>1, <2>1 DEF BootSeed, SeedEntity
  <1>2. ASSUME NEW t \in Turn, NameEntity(t)
        PROVE  entities' = entities \/ \E n \in Name : entities' = Append(entities, n)
    <2> DEFINE m == Mentioned(Saying(t))
    <2>1. m \in Seq(Name)
      BY <1>2, SayingOne, MentionedNames DEF NameEntity
    <2>2. \A k \in DOMAIN m : m[k] \in Name
      BY <2>1
    <2>3. entities' = entities \/ \E k \in DOMAIN m : entities' = Append(entities, m[k])
      BY <1>2 DEF NameEntity
    <2> HIDE DEF m
    <2> QED BY <2>2, <2>3
  <1>3. CASE ~BootSeed /\ ~(\E t \in Turn : NameEntity(t))
    BY <1>3 DEF GraphNext, graphVars, graph, BootCheck, BootFails,
       CrashProxy, Send, Extract, Relate, Sweep, SweepFails,
       RaiseTurn
  <1> QED BY <1>1, <1>2, <1>3

LEMMA KnownStays ==
    ASSUME GraphTyped, [GraphNext]_graphVars,
           User \in Known
    PROVE  User \in Known' /\ Anchor' = Anchor
  <1>1. CASE entities' = entities
    BY <1>1 DEF Known, Anchor
  <1>2. CASE \E n \in Name : entities' = Append(entities, n)
    BY <1>2, KnownGrows DEF GraphTyped, GraphTypeOK
  <1> QED BY <1>1, <1>2, EntitiesStep

LEMMA UserNamedStep ==
    ASSUME GraphTyped, UserNamed, [GraphNext]_graphVars
    PROVE  UserNamed'
  <1>1. CASE User \in Known
    BY <1>1, KnownStays DEF UserNamed
  <1>2. CASE User \notin Known
    <2>1. edges = <<>> /\ disk = <<>> /\ \A t \in Turn : pc[t] # "embed"
      BY <1>2 DEF UserNamed
    <2>2. pc \in [Turn -> {"unsent", "extract", "name", "embed", "sweep", "done", "lost"}]
      BY DEF GraphTyped, GraphTypeOK
    <2>3. CASE BootCheck \/ BootSeed \/ BootFails \/ CrashProxy
               \/ UNCHANGED graphVars
      <3>1. /\ edges' = <<>> /\ disk' = <<>>
            /\ \A t \in Turn : pc'[t] = pc[t] \/ pc'[t] = "lost"
        BY <2>1, <2>3 DEF BootCheck, BootSeed, SeedEntity, BootFails, CrashProxy,
           graph, graphVars
      <3> QED BY <2>1, <3>1 DEF UserNamed
    <2>4. ASSUME NEW t \in Turn, NameEntity(t) PROVE UserNamed'
      <3>1. edges' = <<>> /\ disk' = <<>> /\ pc[t] = "name"
        BY <2>1, <2>4 DEF NameEntity
      <3>2. pc' = pc
        <4>1. PICK k \in DOMAIN Mentioned(Saying(t)) :
                Mentioned(Saying(t))[k] = User
          BY <3>1, SayingOne, MentionedNames
        <4>2. Mentioned(Saying(t))[k] \notin Known
          BY <1>2, <4>1
        <4> QED BY <2>4, <4>2 DEF NameEntity
      <3> QED BY <2>1, <3>1, <3>2 DEF UserNamed
    <2>5. ASSUME NEW t \in Turn, Sweep(t) \/ SweepFails(t) PROVE UserNamed'
      <3>1. PICK lost \in SUBSET Losers :
              edges' = Without(lost) /\ disk' \in {disk, Without(lost)}
        BY <2>5 DEF Sweep, SweepFails, Save
      <3>2. Without(lost) = <<>>
        <4>1. /\ Without(lost) \in Seq(Edge)
              /\ Len(Without(lost)) = Len(edges)
          BY WithoutRows DEF GraphTyped, GraphTypeOK
        <4>2. Len(edges) = 0
          BY <2>1
        <4> QED BY <4>1, <4>2
      <3>3. pc' = [pc EXCEPT ![t] = "done"]
        BY <2>5 DEF Sweep, SweepFails
      <3> QED BY <2>1, <2>2, <3>1, <3>2, <3>3 DEF UserNamed
    <2>6. ASSUME NEW t \in Turn,
                 Send(t) \/ Extract(t) \/ RaiseTurn(t)
          PROVE  UserNamed'
      <3>1. /\ edges' = <<>> /\ disk' = <<>>
            /\ \E v \in {"extract", "done", "name", "lost"} : pc' = [pc EXCEPT ![t] = v]
        BY <2>1, <2>6 DEF Send, Extract, RaiseTurn, graph
      <3> QED BY <2>1, <2>2, <3>1 DEF UserNamed
    <2>7. ASSUME NEW t \in Turn, Relate(t) PROVE UserNamed'
      BY <2>1, <2>7 DEF Relate
    <2> QED BY <2>3, <2>4, <2>5, <2>6, <2>7 DEF GraphNext
  <1> QED BY <1>1, <1>2

LEMMA UnsweptStep ==
    ASSUME GraphTyped, UserNamed, Unswept, [GraphNext]_graphVars
    PROVE  Unswept'
  <1>0. /\ pc \in [Turn -> {"unsent", "extract", "name", "embed", "sweep", "done", "lost"}]
        /\ edges \in Seq(Edge) /\ failures \in Nat
    BY DEF GraphTyped, GraphTypeOK
  <1>f. ASSUME Fail PROVE Unswept'
    <2>1. failures' # 0
      BY <1>0, <1>f DEF Fail
    <2> QED BY <2>1 DEF Unswept
  \* A step that leaves the edges alone.
  <1>a. ASSUME edges' = edges, Anchor' = Anchor \/ edges = <<>>, failures' = failures,
               \A t \in Turn : pc[t] \in {"name", "embed", "sweep"} =>
                                         pc'[t] \in {"name", "embed", "sweep"}
        PROVE  Unswept'
    <2>1. CASE edges = <<>>
      <3>1. Apart(edges)
        BY <2>1 DEF Apart
      <3>2. Apart(edges')
        BY <1>a, <3>1
      <3> QED BY <3>2 DEF Unswept
    <2>2. CASE Anchor' = Anchor
      <3>1. Apart(edges') <=> Apart(edges)
        BY <1>a
      <3> QED BY <1>a, <2>2, <3>1 DEF Unswept
    <2> QED BY <1>a, <2>1, <2>2
  <1>b. Anchor' = Anchor \/ edges = <<>>
    BY KnownStays DEF UserNamed
  <1>1. CASE BootCheck \/ BootSeed \/ UNCHANGED graphVars
    <2>1. edges' = edges /\ failures' = failures /\ pc' = pc
      BY <1>1 DEF BootCheck, BootSeed, SeedEntity, graph, graphVars
    <2> QED BY <1>a, <1>b, <2>1
  <1>2. CASE BootFails \/ CrashProxy
    BY <1>2, <1>f DEF BootFails, CrashProxy
  <1>3. ASSUME NEW t \in Turn, Send(t) \/ Extract(t) PROVE Unswept'
    <2>1. /\ edges' = edges /\ failures' = failures /\ pc[t] \in {"unsent", "extract"}
          /\ \E v \in {"extract", "done", "name"} : pc' = [pc EXCEPT ![t] = v]
      BY <1>3 DEF Send, Extract, graph
    <2>2. \A u \in Turn : pc[u] \in {"name", "embed", "sweep"} => pc'[u] = pc[u]
      BY <1>0, <2>1
    <2> QED BY <1>a, <1>b, <2>1, <2>2
  <1>4. ASSUME NEW t \in Turn, NameEntity(t) \/ Relate(t) PROVE Unswept'
    <2>1. CASE \E v \in {"name", "embed", "sweep"} : pc' = [pc EXCEPT ![t] = v]
      <3>1. pc'[t] \in {"name", "embed", "sweep"}
        BY <1>0, <2>1
      <3> QED BY <3>1 DEF Unswept
    <2>2. CASE pc' = pc /\ pc[t] = "name"
      BY <2>2 DEF Unswept
    <2>3. \/ \E v \in {"name", "embed", "sweep"} : pc' = [pc EXCEPT ![t] = v]
          \/ pc' = pc /\ pc[t] = "name"
      BY <1>4 DEF NameEntity, Relate, GoOn
    <2> QED BY <2>1, <2>2, <2>3
  <1>5. ASSUME NEW t \in Turn, Sweep(t) PROVE Unswept'
    <2>1. edges' = Without(Losers) /\ Anchor' = Anchor
      BY <1>5 DEF Sweep, Save, Anchor
    <2>2. Anchor = User => Apart(edges')
      BY <1>0, <2>1, SweptApart
    <2> QED BY <2>1, <2>2 DEF Unswept
  <1>6. ASSUME NEW t \in Turn, SweepFails(t) \/ RaiseTurn(t) PROVE Unswept'
    BY <1>6, <1>f DEF SweepFails, RaiseTurn
  <1> QED BY <1>1, <1>2, <1>3, <1>4, <1>5, <1>6 DEF GraphNext

\* What the startup has seeded, as long as nothing failed.
Seeding ==
    pin /\ failures = 0 =>
        /\ server # "serving" => edges = <<>> /\ \A t \in Turn : pc[t] = "unsent"
        /\ server \in {"check", "user"} => entities = <<>>
        /\ server \in {"owner", "pin", "serving"} =>
              Len(entities) > 0 /\ entities[1] = User

LEMMA SeedingStep ==
    ASSUME GraphTyped, Seeding, [GraphNext]_graphVars
    PROVE  Seeding'
  <1>0. /\ entities \in Seq(Name) /\ Len(entities) \in Nat /\ failures \in Nat
        /\ server \in {"check", "user", "owner", "pin", "serving"}
    BY DEF GraphTyped, GraphTypeOK
  <1>f. ASSUME Fail PROVE Seeding'
    <2>1. failures' # 0
      BY <1>0, <1>f DEF Fail
    <2> QED BY <2>1 DEF Seeding
  \* What was the first entity stays the first.
  <1>a. ASSUME Len(entities) > 0 PROVE Len(entities') > 0 /\ entities'[1] = entities[1]
    <2>1. CASE entities' = entities
      BY <1>a, <2>1
    <2>2. CASE \E n \in Name : entities' = Append(entities, n)
      BY <1>0, <1>a, <2>2
    <2> QED BY <2>1, <2>2, EntitiesStep
  <1>1. CASE BootCheck
    <2>1. /\ server = "check" /\ UNCHANGED <<entities, edges, pin, pc, failures>>
          /\ server' = IF pin /\ entities = <<>> THEN "user" ELSE "serving"
      BY <1>1 DEF BootCheck, graph
    <2> QED BY <2>1 DEF Seeding
  <1>2. CASE BootSeed
    <2> SUFFICES ASSUME pin, failures = 0 PROVE Seeding'
      BY <1>2 DEF BootSeed, Seeding
    <2>1. UNCHANGED <<edges, pin, pc, failures>> /\ server # "serving"
      BY <1>2 DEF BootSeed, SeedEntity
    <2>2. edges = <<>> /\ \A t \in Turn : pc[t] = "unsent"
      BY <2>1 DEF Seeding
    <2>3. CASE SeedEntity("user", User, "owner")
      <3>1. /\ server' = "owner" /\ entities = <<>>
            /\ entities' = Append(entities, User)
        BY <2>3 DEF Seeding, SeedEntity
      <3>2. Len(entities') > 0 /\ entities'[1] = User
        BY <3>1
      <3> QED BY <2>1, <2>2, <3>1, <3>2 DEF Seeding
    <2>4. CASE ~SeedEntity("user", User, "owner")
      <3>1. server \in {"owner", "pin"} /\ server' \in {"pin", "serving"}
        BY <1>2, <2>4 DEF BootSeed, SeedEntity
      <3>2. Len(entities) > 0 /\ entities[1] = User
        BY <3>1 DEF Seeding
      <3> QED BY <1>a, <2>1, <2>2, <3>1, <3>2 DEF Seeding
    <2> QED BY <2>3, <2>4
  <1>3. CASE BootFails \/ CrashProxy
    BY <1>3, <1>f DEF BootFails, CrashProxy
  \* A turn runs only while the proxy serves.
  <1>4. ASSUME NEW t \in Turn, server = "serving" \/ pc[t] # "unsent",
               UNCHANGED <<pin, server, failures>>
        PROVE  Seeding'
    <2> SUFFICES ASSUME pin, failures = 0 PROVE Seeding'
      BY <1>4 DEF Seeding
    <2>1. server = "serving" /\ Len(entities) > 0 /\ entities[1] = User
      BY <1>0, <1>4 DEF Seeding
    <2> QED BY <1>4, <1>a, <2>1 DEF Seeding
  <1>5. ASSUME NEW t \in Turn,
               Send(t) \/ Extract(t) \/ NameEntity(t) \/ Sweep(t)
        PROVE  Seeding'
    <2>1. /\ server = "serving" \/ pc[t] # "unsent"
          /\ UNCHANGED <<pin, server, failures>>
      BY <1>5 DEF Send, Extract, NameEntity, Sweep, graph
    <2> QED BY <1>4, <2>1
  <1>6. ASSUME NEW t \in Turn, Relate(t) PROVE Seeding'
    <2>1. pc[t] # "unsent" /\ UNCHANGED <<pin, server>>
          /\ (failures' = failures \/ Fail)
      BY <1>6 DEF Relate
    <2> QED BY <1>4, <1>f, <2>1
  <1>7. ASSUME NEW t \in Turn, SweepFails(t) \/ RaiseTurn(t) PROVE Seeding'
    BY <1>7, <1>f DEF SweepFails, RaiseTurn
  <1>8. CASE UNCHANGED graphVars
    <2>1. UNCHANGED <<entities, edges, pin, server, pc, failures>>
      BY <1>8 DEF graphVars
    <2> QED BY <2>1 DEF Seeding
  <1> QED BY <1>1, <1>2, <1>3, <1>5, <1>6, <1>7, <1>8 DEF GraphNext

\* When every turn has ended and nothing has failed, the user has one exclusive
\* role with each person, provided the startup seeded the owner or the sweep
\* looks at the user's edges: for any number of turns whose writers are
\* interleaved at their awaits, whatever the turns go on to name.
THEOREM OneRoleAlways ==
    GraphSpec => []OneRole
  <1>1. GraphInit => GraphTyped /\ UserNamed /\ Unswept /\ Seeding
    <2> SUFFICES ASSUME GraphInit
                 PROVE  GraphTyped /\ UserNamed /\ Unswept /\ Seeding
      OBVIOUS
    <2>1. /\ edges = <<>> /\ disk = <<>> /\ \A t \in Turn : pc[t] = "unsent"
          /\ entities = <<>> /\ server = "check"
      BY DEF GraphInit
    <2>2. Apart(edges)
      BY <2>1 DEF Apart
    <2> QED BY <2>1, <2>2, TypingInit DEF UserNamed, Unswept, Seeding
  <1>2. GraphTyped /\ UserNamed /\ Unswept /\ Seeding /\ [GraphNext]_graphVars =>
          GraphTyped' /\ UserNamed' /\ Unswept' /\ Seeding'
    BY Typing, UserNamedStep, UnsweptStep, SeedingStep
  <1>3. GraphTyped /\ Unswept /\ Seeding => OneRole
    <2> SUFFICES ASSUME GraphTyped, Unswept, Seeding, failures = 0, Active = {},
                        pin \/ Anchor = User
                 PROVE  NoRivals
      BY DEF OneRole
    <2>1. Anchor = User \/ edges = <<>>
      <3>1. CASE pin /\ server = "serving"
        <4>1. Len(entities) > 0 /\ entities[1] = User
          BY <3>1 DEF Seeding
        <4>2. entities \in Seq(Name) /\ Len(entities) \in Nat
              /\ DOMAIN entities = 1..Len(entities)
          BY DEF GraphTyped, GraphTypeOK
        <4>3. 1 \in OwnersPlaces(entities) /\ \A j \in OwnersPlaces(entities) : 1 <= j
          BY <4>1, <4>2 DEF OwnersPlaces, Alias
        <4>4. FirstOwner(entities) = entities[1]
          BY <4>2, <4>3, FirstOwnerAt
        <4> QED BY <4>1, <4>4, AnchorIsFirst
      <3> QED BY <3>1 DEF Seeding
    <2>2. Apart(edges)
      <3>1. CASE edges = <<>>
        BY <3>1 DEF Apart
      <3>2. CASE Anchor = User
        BY <3>2 DEF Unswept, Active
      <3> QED BY <2>1, <3>1, <3>2
    <2>3. DOMAIN edges = 1..Len(edges)
      BY DEF GraphTyped, GraphTypeOK
    <2> QED BY <2>2, <2>3 DEF Apart, NoRivals, Rival, Current
  <1> QED BY <1>1, <1>2, <1>3, PTL DEF GraphSpec

-----------------------------------------------------------------------------
(***************************************************************************)
(* Nobody is seeded twice.                                                 *)
(***************************************************************************)
Different(names) ==
    \A i, j \in 1..Len(names) : names[i] = names[j] => i = j

\* No turn is at work while the startup seeds, and what it has seeded is all
\* there is.
SeededOnce ==
    /\ Different(entities)
    /\ server # "serving" => \A t \in Turn : pc[t] \notin {"extract", "name", "embed", "sweep"}
    /\ server = "user" => entities = <<>>
    /\ server = "owner" => entities = <<User>>

LEMMA NewNameDiffers ==
    ASSUME NEW names \in Seq(Name), NEW n \in Name, Different(names),
           \A i \in 1..Len(names) : names[i] # n
    PROVE  Different(Append(names, n))
  <1> DEFINE more == Append(names, n)
  <1>1. /\ Len(names) \in Nat /\ Len(more) = Len(names) + 1
        /\ \A i \in 1..Len(names) : more[i] = names[i]
        /\ more[Len(names) + 1] = n
    OBVIOUS
  <1> HIDE DEF more
  <1>2. ASSUME NEW i \in 1..Len(more), NEW j \in 1..Len(more), more[i] = more[j]
        PROVE  i = j
    <2>1. /\ i \in 1..Len(names) \/ i = Len(names) + 1
          /\ j \in 1..Len(names) \/ j = Len(names) + 1
      BY <1>1
    <2> QED BY <1>1, <1>2, <2>1 DEF Different
  <1>3. Different(more)
    BY <1>2 DEF Different
  <1> QED BY <1>3 DEF more

LEMMA SeededOnceStep ==
    ASSUME GraphTyped, SeededOnce, [GraphNext]_graphVars
    PROVE  SeededOnce'
  <1>0. /\ entities \in Seq(Name)
        /\ server \in {"check", "user", "owner", "pin", "serving"}
        /\ pc \in [Turn -> {"unsent", "extract", "name", "embed", "sweep", "done", "lost"}]
    BY DEF GraphTyped, GraphTypeOK
  <1>n. User \in Name /\ Owner \in Name /\ User # Owner
    BY DEF Name, User, Owner
  <1>1. CASE BootCheck
    <2>1. /\ server = "check" /\ UNCHANGED <<entities, pc>>
          /\ server' = IF pin /\ entities = <<>> THEN "user" ELSE "serving"
      BY <1>1 DEF BootCheck, graph
    <2> QED BY <2>1 DEF SeededOnce
  <1>2. CASE BootSeed
    <2>1. pc' = pc /\ \A t \in Turn : pc[t] \notin {"extract", "name", "embed", "sweep"}
      BY <1>2 DEF BootSeed, SeedEntity, SeededOnce
    <2>2. CASE SeedEntity("user", User, "owner")
      <3>1. /\ server' = "owner" /\ entities = <<>>
            /\ entities' = Append(entities, User)
        BY <2>2 DEF SeedEntity, SeededOnce
      <3>2. entities' = <<User>> /\ Different(entities')
        BY <3>1 DEF Different
      <3> QED BY <2>1, <3>1, <3>2 DEF SeededOnce
    <2>3. CASE SeedEntity("owner", Owner, "pin")
      <3>1. /\ server' = "pin" /\ entities = <<User>>
            /\ entities' = Append(entities, Owner)
        BY <2>3 DEF SeedEntity, SeededOnce
      <3>2. \A i \in 1..Len(entities) : entities[i] # Owner
        BY <1>n, <3>1
      <3>3. Different(entities')
        BY <1>0, <1>n, <3>1, <3>2, NewNameDiffers DEF SeededOnce
      <3> QED BY <2>1, <3>1, <3>3 DEF SeededOnce
    <2>4. CASE server' = "serving" /\ entities' = entities
      BY <2>1, <2>4 DEF SeededOnce
    <2> QED BY <1>2, <2>2, <2>3, <2>4 DEF BootSeed
  <1>3. CASE BootFails
    <2>1. server' = "serving" /\ UNCHANGED <<entities, pc>>
      BY <1>3 DEF BootFails, graph
    <2> QED BY <2>1 DEF SeededOnce
  <1>4. CASE CrashProxy
    <2>1. /\ server' = "check" /\ entities' = entities
          /\ pc' = [t \in Turn |-> IF t \in Active THEN "lost" ELSE pc[t]]
      BY <1>4 DEF CrashProxy
    <2>2. \A t \in Turn : pc'[t] \notin {"extract", "name", "embed", "sweep"}
      BY <1>0, <2>1 DEF Active
    <2> QED BY <2>1, <2>2 DEF SeededOnce
  <1>5. ASSUME NEW t \in Turn, NameEntity(t) PROVE SeededOnce'
    <2>1. server = "serving" /\ server' = server
      BY <1>5 DEF NameEntity, SeededOnce
    <2>2. Different(entities')
      <3> DEFINE m == Mentioned(Saying(t))
      <3>1. m \in Seq(Name)
        BY <1>5, SayingOne, MentionedNames DEF NameEntity
      <3>2. \/ entities' = entities
            \/ \E k \in DOMAIN m : m[k] \notin Known /\ entities' = Append(entities, m[k])
        BY <1>5 DEF NameEntity
      <3>3. \A k \in DOMAIN m : m[k] \in Name
        BY <3>1
      <3> HIDE DEF m
      <3>4. ASSUME NEW n \in Name, n \notin Known, entities' = Append(entities, n)
            PROVE  Different(entities')
        <4>1. \A i \in 1..Len(entities) : entities[i] # n
          BY <1>0, <3>4 DEF Known
        <4> QED BY <1>0, <3>4, <4>1, NewNameDiffers DEF SeededOnce
      <3> QED BY <3>2, <3>3, <3>4 DEF SeededOnce
    <2> QED BY <2>1, <2>2 DEF SeededOnce
  <1>6. ASSUME NEW t \in Turn,
               \/ Send(t) \/ Extract(t) \/ Relate(t)
               \/ Sweep(t) \/ SweepFails(t) \/ RaiseTurn(t)
        PROVE  SeededOnce'
    <2>1. /\ UNCHANGED <<entities, server>>
          /\ server = "serving" \/ pc[t] \in {"extract", "name", "embed", "sweep"}
      BY <1>6 DEF Send, Extract, Relate, Sweep, SweepFails, RaiseTurn, graph
    <2>2. server = "serving"
      BY <2>1 DEF SeededOnce
    <2> QED BY <2>1, <2>2 DEF SeededOnce
  <1>7. CASE UNCHANGED graphVars
    <2>1. UNCHANGED <<entities, server, pc>>
      BY <1>7 DEF graphVars
    <2> QED BY <2>1 DEF SeededOnce
  <1> QED BY <1>1, <1>2, <1>3, <1>4, <1>5, <1>6, <1>7 DEF GraphNext

\* Nobody gets a second entity, so the user's edges start at one: wherever the
\* seed is cut by a failure or a crash, and however the proxy is started again
\* between any number of interleaved turns.
THEOREM OneEntityEachAlways ==
    GraphSpec => []OneEntityEach
  <1>1. GraphInit => GraphTyped /\ SeededOnce
    <2>1. GraphInit => /\ entities = <<>> /\ server = "check"
                        /\ \A t \in Turn : pc[t] = "unsent"
      BY DEF GraphInit
    <2> QED BY <2>1, TypingInit DEF SeededOnce, Different
  <1>2. GraphTyped /\ SeededOnce /\ [GraphNext]_graphVars => GraphTyped' /\ SeededOnce'
    BY Typing, SeededOnceStep
  <1>3. GraphTyped /\ SeededOnce => OneEntityEach
    <2> SUFFICES ASSUME GraphTyped, SeededOnce PROVE OneEntityEach
      OBVIOUS
    <2>1. DOMAIN entities = 1..Len(entities)
      BY DEF GraphTyped, GraphTypeOK
    <2> QED BY <2>1 DEF SeededOnce, Different, OneEntityEach
  <1> QED BY <1>1, <1>2, <1>3, PTL DEF GraphSpec
=============================================================================
