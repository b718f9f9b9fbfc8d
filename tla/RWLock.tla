------------------------------- MODULE RWLock -------------------------------
(***************************************************************************)
(* What the store lock promises to the commands that take it: one ingest   *)
(* alone, or any number of queries together.  A command that cannot have   *)
(* the lock at once is refused, so there is no waiting to specify.         *)
(***************************************************************************)
CONSTANT Procs

VARIABLES readers,   \* the commands inside a shared block
          writers    \* the commands inside an exclusive block

rwVars == <<readers, writers>>

Init == readers = {} /\ writers = {}

AcquireShared(p) ==
  /\ p \notin readers
  /\ writers = {}
  /\ readers' = readers \union {p}
  /\ UNCHANGED writers

AcquireExclusive(p) ==
  /\ readers = {} /\ writers = {}
  /\ writers' = {p}
  /\ UNCHANGED readers

\* A command leaves its block by finishing or by dying.
Release(p) ==
  /\ p \in readers \union writers
  /\ readers' = readers \ {p}
  /\ writers' = writers \ {p}

Next == \E p \in Procs : AcquireShared(p) \/ AcquireExclusive(p) \/ Release(p)

Spec == Init /\ [][Next]_rwVars
=============================================================================
