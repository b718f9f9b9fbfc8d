--------------------------- MODULE StoreLockProofs ---------------------------
(***************************************************************************)
(* The lock protocol of StoreLock gives mutual exclusion and implements    *)
(* RWLock, for every set of processes and with or without crashes.         *)
(***************************************************************************)
EXTENDS StoreLock, TLAPS

\* SQLite's rule: beside an exclusive holder nobody holds anything.
Exclusion ==
  \A p, q \in Procs : p # q /\ held[p] = "exclusive" => held[q] = "none"

IInv == TypeOK /\ LockHeld /\ Exclusion /\ InsideMeansGuarded

USE DEF Modes, FileStates, Bootstrapping, Labels

LEMMA InitIInv == Init => IInv
  BY DEF Init, IInv, TypeOK, LockHeld, Exclusion, InsideMeansGuarded

\* Leaving the protocol, by error, by COMMIT or by death, keeps the invariant.
LEMMA FailIInv ==
  ASSUME IInv, NEW p \in Procs, Fail(p)
  PROVE  IInv'
  BY DEF IInv, TypeOK, LockHeld, Exclusion, InsideMeansGuarded, Fail, Goto

LEMMA StepIInv == IInv /\ [Next]_lockVars => IInv'
<1> SUFFICES ASSUME IInv, [Next]_lockVars PROVE IInv'
    OBVIOUS
<1> USE DEF IInv, TypeOK, LockHeld, Exclusion, InsideMeansGuarded, Goto
<1>1. ASSUME NEW p \in Procs, NEW m \in Modes, Start(p, m) PROVE IInv'
  BY <1>1 DEF Start
<1>2. ASSUME NEW p \in Procs, OpenDatabase(p) PROVE IInv'
  BY <1>2, FailIInv DEF OpenDatabase
<1>3. ASSUME NEW p \in Procs, CreateTable(p) PROVE IInv'
  BY <1>3, FailIInv DEF CreateTable
<1>4. ASSUME NEW p \in Procs, InsertGuardRow(p) PROVE IInv'
  BY <1>4, FailIInv DEF InsertGuardRow
<1>5. ASSUME NEW p \in Procs, BeginTransaction(p) PROVE IInv'
  BY <1>5, FailIInv DEF BeginTransaction, MayWrite
<1>6. ASSUME NEW p \in Procs, SelectGuardRow(p) PROVE IInv'
  <2>1. CASE MayRead(p) /\ file = "guarded"
    BY <1>6, <2>1 DEF SelectGuardRow, MayRead
  <2>2. CASE ~(MayRead(p) /\ file = "guarded")
    BY <1>6, <2>2, FailIInv DEF SelectGuardRow
  <2>3. QED BY <2>1, <2>2
<1>7. ASSUME NEW p \in Procs, Leave(p) PROVE IInv'
  BY <1>7, FailIInv DEF Leave
<1>8. ASSUME NEW p \in Procs, Crash(p) PROVE IInv'
  BY <1>8, FailIInv DEF Crash
<1>9. CASE UNCHANGED lockVars
  BY <1>9 DEF lockVars
<1>10. QED
  BY <1>1, <1>2, <1>3, <1>4, <1>5, <1>6, <1>7, <1>8, <1>9 DEF Next, Step

\* The invariant holds in every reachable state of the lock protocol.
THEOREM LockInvariant == Spec => []IInv
  BY InitIInv, StepIInv, PTL DEF Spec

\* Every variable keeps its type.
THEOREM LockTypes == Spec => []TypeOK
<1>1. IInv => TypeOK BY DEF IInv
<1>2. QED BY <1>1, LockInvariant, PTL

\* store_lock holds the SQLite lock each of its statements is supposed to hold,
\* and a command that failed or was killed holds none.
THEOREM LocksMatchStatements == Spec => []LockHeld
<1>1. IInv => LockHeld
  BY DEF IInv
<1>2. QED BY <1>1, LockInvariant, PTL

\* "Never rebuilt": no statement or death takes the table or the guard row of
\* the lock file away again.
THEOREM FileIsNeverReset == Spec => NeverReset
<1>1. ASSUME [Next]_lockVars
      PROVE  /\ file = "guarded" => file' = "guarded"
             /\ file = "table"   => file' \in {"table", "guarded"}
             /\ file # "absent"  => file' # "absent"
  BY <1>1 DEF Next, Step, Start, Crash, Leave, Fail, OpenDatabase, CreateTable, InsertGuardRow,
       BeginTransaction, SelectGuardRow, lockVars
<1>2. [Next]_lockVars
        => [/\ file = "guarded" => file' = "guarded"
            /\ file = "table"   => file' \in {"table", "guarded"}
            /\ file # "absent"  => file' # "absent"]_lockVars
  BY <1>1
<1>3. QED BY <1>2, PTL DEF Spec, NeverReset

\* No block is entered on a lock file without its guard row.
THEOREM GuardedBlocks == Spec => []InsideMeansGuarded
<1>1. IInv => InsideMeansGuarded BY DEF IInv
<1>2. QED BY <1>1, LockInvariant, PTL

-----------------------------------------------------------------------------
LEMMA PromiseInit == Init => Promise!Init
  BY DEF Init, Promise!Init, Inside

\* Whoever leaves a block is a Release, whoever was in none is a stutter.
LEMMA FailRefines ==
  ASSUME IInv, NEW p \in Procs, Fail(p)
  PROVE  Promise!Release(p) \/ UNCHANGED Promise!rwVars
<1> USE DEF IInv, TypeOK, Fail, Goto, Inside
<1>1. CASE pc[p] = "inside"
  BY <1>1 DEF Promise!Release
<1>2. CASE pc[p] # "inside"
  BY <1>2 DEF Promise!rwVars
<1>3. QED BY <1>1, <1>2

LEMMA PromiseStep == IInv /\ [Next]_lockVars => [Promise!Next]_(Promise!rwVars)
<1> SUFFICES ASSUME IInv, [Next]_lockVars
             PROVE  Promise!Next \/ UNCHANGED Promise!rwVars
    OBVIOUS
<1>0. ASSUME NEW p \in Procs, Fail(p)
      PROVE  Promise!Next \/ UNCHANGED Promise!rwVars
  BY <1>0, FailRefines DEF Promise!Next
<1>1. ASSUME NEW p \in Procs, NEW m \in Modes, Start(p, m)
      PROVE  UNCHANGED Promise!rwVars
  BY <1>1 DEF Start, Goto, Inside, Promise!rwVars, IInv, TypeOK
<1>2. ASSUME NEW p \in Procs,
             OpenDatabase(p) \/ CreateTable(p) \/ InsertGuardRow(p)
               \/ BeginTransaction(p),
             ~Fail(p)
      PROVE  UNCHANGED Promise!rwVars
  BY <1>2 DEF OpenDatabase, CreateTable, InsertGuardRow, BeginTransaction, Goto,
              Inside, Promise!rwVars, IInv, TypeOK
<1>3. ASSUME NEW p \in Procs, SelectGuardRow(p), ~Fail(p)
      PROVE  Promise!Next
  <2>1. MayRead(p) /\ pc[p] = "select" /\ pc' = [pc EXCEPT ![p] = "inside"]
          /\ mode' = mode
    BY <1>3 DEF SelectGuardRow, Goto
  <2>2. p \notin Inside("shared") /\ p \notin Inside("exclusive")
    BY <2>1 DEF Inside
  <2>3. Inside("exclusive") = {}
    BY <2>1 DEF MayRead, Inside, IInv, LockHeld, TypeOK
  <2>4. CASE mode[p] = "shared"
    <3>1. /\ Inside("shared")' = Inside("shared") \union {p}
          /\ Inside("exclusive")' = Inside("exclusive")
      BY <2>1, <2>4 DEF Inside, IInv, TypeOK
    <3>2. QED
      BY <3>1, <2>2, <2>3 DEF Promise!Next, Promise!AcquireShared
  <2>5. CASE mode[p] = "exclusive"
    <3>1. held[p] = "exclusive"
      BY <2>1, <2>5 DEF IInv, LockHeld
    <3>2. Inside("shared") = {}
      BY <3>1, <2>1 DEF IInv, Exclusion, LockHeld, Inside, TypeOK
    <3>3. /\ Inside("shared")' = Inside("shared")
          /\ Inside("exclusive")' = {p}
      BY <2>1, <2>3, <2>5 DEF Inside, IInv, TypeOK
    <3>4. QED
      BY <3>2, <3>3, <2>3 DEF Promise!Next, Promise!AcquireExclusive
  <2>6. QED BY <2>4, <2>5 DEF IInv, TypeOK
<1>4. ASSUME NEW p \in Procs, Leave(p) \/ Crash(p)
      PROVE  Promise!Next \/ UNCHANGED Promise!rwVars
  BY <1>4, <1>0 DEF Leave, Crash
<1>5. CASE UNCHANGED lockVars
  BY <1>5 DEF lockVars, Inside, Promise!rwVars
<1>6. QED
  BY <1>0, <1>1, <1>2, <1>3, <1>4, <1>5 DEF Next, Step

\* The protocol of index_lock.py is a readers-writer lock: ingest alone, or
\* queries together, whatever the bootstrap, the conflicts and the crashes.
THEOREM LockImplementsRWLock == Spec => ImplementsRWLock
  BY PromiseInit, PromiseStep, LockInvariant, PTL DEF Spec, ImplementsRWLock, Promise!Spec
=============================================================================
