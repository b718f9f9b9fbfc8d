------------------------------ MODULE StoreLock ------------------------------
(***************************************************************************)
(* The store lock (infrastructure/index_lock.py): a separate SQLite        *)
(* database with one guard row.  `ingest` holds it through BEGIN EXCLUSIVE *)
(* and `query` through BEGIN and a SELECT of the row.  A command that      *)
(* finds no lock file creates it first, in three statements that another   *)
(* command can interleave with.  A busy database is an error, never a      *)
(* wait, and a killed process loses its SQLite lock and nothing else.      *)
(***************************************************************************)
EXTENDS FiniteSets

CONSTANTS Procs,       \* the concurrent commands, one process each
          MayCrash     \* whether a process may be killed

ASSUME MayCrashAssumption == MayCrash \in BOOLEAN

VARIABLES
  file,   \* what the lock file holds
  pc,     \* the statement of store_lock the process is about to run
  mode,   \* the block the process asked for
  held    \* the SQLite lock the process has on the lock file

lockVars == <<file, pc, mode, held>>

Modes == {"shared", "exclusive"}

FileStates == {"absent", "empty", "table", "guarded"}

Bootstrapping == {"create", "schema", "row"}

Labels == {"idle", "open", "begin", "select", "inside"} \union Bootstrapping

\* The values the variables take.
TypeOK ==
  /\ file \in FileStates
  /\ pc \in [Procs -> Labels]
  /\ mode \in [Procs -> Modes]
  /\ held \in [Procs -> Modes \union {"none"}]

\* The SQLite lock each statement holds: none before the transaction, the
\* exclusive lock from BEGIN EXCLUSIVE on, the asked one inside the block.  A
\* command that failed or ended has left nothing locked behind it.
LockHeld ==
  \A p \in Procs :
    held[p] = IF pc[p] = "inside" \/ (pc[p] = "select" /\ mode[p] = "exclusive")
                THEN mode[p] ELSE "none"

Init ==
  /\ file = "absent"
  /\ pc = [p \in Procs |-> "idle"]
  /\ mode \in [Procs -> Modes]
  /\ held = [p \in Procs |-> "none"]

-----------------------------------------------------------------------------
\* SQLite's file lock: a reader needs that nobody writes, a writer that
\* nobody else is there.
MayRead(p) == \A q \in Procs \ {p} : held[q] # "exclusive"

MayWrite(p) == \A q \in Procs \ {p} : held[q] = "none"

Goto(p, label) == pc' = [pc EXCEPT ![p] = label]

\* Mutant: a failed bootstrap that removes the file it was making.
FailAndUnlink(p) ==
  /\ Goto(p, "idle")
  /\ held' = [held EXCEPT ![p] = "none"]
  /\ file' = IF pc[p] \in Bootstrapping THEN "absent" ELSE file
  /\ UNCHANGED mode

\* LockError: the connection goes, and its lock with it.
Fail(p) ==
  /\ Goto(p, "idle")
  /\ held' = [held EXCEPT ![p] = "none"]
  /\ UNCHANGED <<file, mode>>

Start(p, m) ==
  /\ pc[p] = "idle"
  /\ mode' = [mode EXCEPT ![p] = m]
  /\ Goto(p, IF file = "absent" THEN "create" ELSE "open")
  /\ UNCHANGED <<file, held>>

\* Mutant: a busy database that is waited for instead of refused.
OpenDatabaseWaiting(p) ==
  /\ pc[p] \in {"create", "open"}
  /\ MayRead(p)
  /\ file' = IF file = "absent" THEN "empty" ELSE file
  /\ Goto(p, IF pc[p] = "create" THEN "schema" ELSE "begin")
  /\ UNCHANGED <<mode, held>>

\* open_lock_database: its pragmas read the file, and create it when missing.
\* It opens the file to bootstrap it, then opens it again to lock it.  The first
\* pragma may wait a few seconds: then this step is taken that much later.
OpenDatabase(p) ==
  /\ pc[p] \in {"create", "open"}
  /\ IF MayRead(p)
       THEN /\ file' = IF file = "absent" THEN "empty" ELSE file
            /\ Goto(p, IF pc[p] = "create" THEN "schema" ELSE "begin")
            /\ UNCHANGED <<mode, held>>
       ELSE Fail(p)

\* CREATE TABLE IF NOT EXISTS writes only when the table is missing.
CreateTable(p) ==
  /\ pc[p] = "schema"
  /\ IF (IF file = "empty" THEN MayWrite(p) ELSE MayRead(p))
       THEN /\ file' = IF file = "empty" THEN "table" ELSE file
            /\ Goto(p, "row")
            /\ UNCHANGED <<mode, held>>
       ELSE Fail(p)

\* Mutant: a bootstrap that records the schema version where the file state belongs.
InsertGuardRowVersion(p) ==
  /\ pc[p] = "row"
  /\ file' = IF MayWrite(p) THEN "version 1" ELSE file
  /\ Goto(p, "open")
  /\ UNCHANGED <<mode, held>>

\* INSERT OR IGNORE and its commit.
InsertGuardRow(p) ==
  /\ pc[p] = "row"
  /\ IF MayWrite(p)
       THEN /\ file' = "guarded"
            /\ Goto(p, "open")
            /\ UNCHANGED <<mode, held>>
       ELSE Fail(p)

\* Mutant: BEGIN IMMEDIATE instead of BEGIN EXCLUSIVE: readers are not excluded.
BeginTransactionImmediate(p) ==
  /\ pc[p] = "begin"
  /\ held' = [held EXCEPT ![p] = IF mode[p] = "exclusive" THEN "shared" ELSE @]
  /\ Goto(p, "select")
  /\ UNCHANGED <<file, mode>>

\* BEGIN EXCLUSIVE takes the lock at once, BEGIN takes none.
BeginTransaction(p) ==
  /\ pc[p] = "begin"
  /\ IF mode[p] = "shared" \/ MayWrite(p)
       THEN /\ held' = [held EXCEPT ![p] = IF mode[p] = "exclusive"
                                             THEN "exclusive" ELSE @]
            /\ Goto(p, "select")
            /\ UNCHANGED <<file, mode>>
       ELSE Fail(p)

\* Mutant: holding the lock by file existence alone: the guard row is not required.
SelectGuardRowUnchecked(p) ==
  /\ pc[p] = "select"
  /\ IF MayRead(p)
       THEN /\ held' = [held EXCEPT ![p] = mode[p]]
            /\ Goto(p, "inside")
            /\ UNCHANGED <<file, mode>>
       ELSE Fail(p)

\* The SELECT of the guard row takes the shared lock; no table or no row is
\* an error as well.
SelectGuardRow(p) ==
  /\ pc[p] = "select"
  /\ IF MayRead(p) /\ file = "guarded"
       THEN /\ held' = [held EXCEPT ![p] = mode[p]]
            /\ Goto(p, "inside")
            /\ UNCHANGED <<file, mode>>
       ELSE Fail(p)

\* COMMIT at the end of the block.
Leave(p) == pc[p] = "inside" /\ Fail(p)

\* The operating system drops a killed process's lock, wherever it was.
Crash(p) == MayCrash /\ pc[p] # "idle" /\ Fail(p)

Step(p) ==
  \/ OpenDatabase(p)
  \/ CreateTable(p)
  \/ InsertGuardRow(p)
  \/ BeginTransaction(p)
  \/ SelectGuardRow(p)
  \/ Leave(p)

Next ==
  \E p \in Procs :
    \/ \E m \in Modes : Start(p, m)
    \/ Step(p)
    \/ Crash(p)

Spec == Init /\ [][Next]_lockVars

\* A live process keeps executing: nothing in store_lock waits.
FairSpec == Spec /\ \A p \in Procs : WF_lockVars(Step(p))

-----------------------------------------------------------------------------
Inside(m) == {p \in Procs : pc[p] = "inside" /\ mode[p] = m}

\* The lock is the readers-writer lock of RWLock: whatever the interleaving of
\* the bootstrap, the pragmas and the two statements that take the lock, an
\* ingest is alone in the store and a query shares it with queries only.
Promise == INSTANCE RWLock WITH readers <- Inside("shared"),
                                writers <- Inside("exclusive")

ImplementsRWLock == Promise!Spec

\* A command inside its block read the guard row, so the file it locked is the
\* one every other command locks: no block is ever entered on a half-made file.
InsideMeansGuarded ==
  \A p \in Procs : pc[p] = "inside" => file = "guarded"

\* No step of any command, not even its own death, takes the lock file back:
\* a table stays a table and a guard row stays ("never rebuilt").
NeverReset ==
  [][/\ file = "guarded" => file' = "guarded"
     /\ file = "table"   => file' \in {"table", "guarded"}
     /\ file # "absent"  => file' # "absent"]_lockVars

\* Nobody waits on anybody for ever: every command that starts ends up inside
\* or refused, whatever the others hold, for a busy database is an error.
AttemptEnds ==
  \A p \in Procs : pc[p] # "idle" ~> pc[p] \in {"idle", "inside"}

\* What index_lock.py says of first use: once no command is busy making the
\* lock file, the file that exists has its guard row and can be locked.
BootstrapCompletes ==
  /\ file # "absent"
  /\ \A p \in Procs : pc[p] \notin Bootstrapping
  => file = "guarded"
=============================================================================
