------------------------- MODULE EvaluationRunProofs -------------------------
(***************************************************************************)
(* The report and the traces of EvaluationRun, for any batteries, results, *)
(* oracles and numbers of runs and invocations.                            *)
(*                                                                         *)
(* The report follows from what the loop has counted so far: its position, *)
(* the length of the history and the counters determine each other at      *)
(* every point.  The traces follow from the order of the loop: a run that  *)
(* was counted lies before the position, and so its file before the next   *)
(* one.                                                                    *)
(***************************************************************************)
EXTENDS EvaluationRun, TLAPS

Preparing == {"adapt", "ingest", "check", "list"}

Copying == {"copied", "adapted", "ingested", "edited", "readapted", "reingested"}

Rows == [status : BOOLEAN, runs : Nat, detail : Whys \union {None}]

LoopTypes ==
  /\ battery \in Batteries /\ runs \in Nat \ {0}
  /\ at \in Nat \ {0} /\ at <= Len(battery.fixtures) + 1
  /\ run \in Nat \ {0} /\ run <= runs + 1
  /\ met \in Nat /\ failed \in Nat
  /\ first \in Whys \union {None} /\ single \in Whys \union {None}
  /\ checks \in Seq(Rows) /\ Len(checks) = at - 1
  /\ log \in Seq(Seq(Whys))
  /\ Len(log) = (IF run = 1 THEN at - 1 ELSE at)
  /\ run > 1 => Len(log[at]) = run - 1

\* The counters tell what the runs of the fixture have been so far.
Counted ==
  /\ run = 1 => met = 0 /\ first = None
  /\ run > 1 =>
       /\ single = log[at][run - 1]
       /\ met <= run - 1
       /\ met = run - 1 <=> \A n \in 1..(run - 1) : log[at][n] = "met"
       /\ first = None <=> \A n \in 1..(run - 1) : log[at][n] = "met"
       /\ first # None =>
            \E n \in 1..(run - 1) : /\ log[at][n] = first /\ first # "met"
                                    /\ \A m \in 1..(run - 1) : m < n => log[at][m] = "met"

RowsTrue ==
  /\ \A k \in DOMAIN checks : RowIsTrue(k)
  /\ failed = 0 <=> \A k \in DOMAIN checks : checks[k].status

LoopInv == LoopTypes /\ Counted /\ RowsTrue

\* Where the command is, and how it ended.
PlaceInv ==
  /\ pc \in {"idle", "fixture", "deviates"} \union Preparing \union Copying
  /\ session \in Nat
  /\ pc # "idle" => exit = None /\ session # 0
  /\ pc \in Preparing => at = 1 /\ run = 1
  /\ pc = "deviates" => at <= Len(battery.fixtures) /\ run <= runs /\ Fixture.kind = "query"
  /\ pc = "fixture" /\ at <= Len(battery.fixtures) /\ Fixture.kind = "reingest" => run = 1
  /\ pc \in Copying => at <= Len(battery.fixtures) /\ run = 1
  /\ exit = 0 => Len(checks) = Len(battery.fixtures) /\ failed = 0
  /\ exit \in Nat \ {0} /\ Len(checks) = Len(battery.fixtures) => failed # 0

\* What the copy of the re-ingest fixture holds after each step.
CopyInv ==
  LET old == Derived(copy.original)
      new == Derived(Edited(copy.original))
  IN /\ pc \in Copying => copy = [original |-> copy.original, spec |-> copy.spec,
                                  record |-> copy.record, index |-> copy.index,
                                  before |-> copy.before]
     /\ pc \in {"copied", "adapted", "ingested"} => copy.spec = copy.original
     /\ pc \in {"edited", "readapted"} => copy.spec = Edited(copy.original)
     /\ pc = "adapted" => copy.record = old
     /\ pc = "readapted" => copy.record = new
     /\ pc = "ingested" => copy.index = {old} \ {None}
     /\ pc \in {"edited", "readapted"} => copy.index = {old} \ {None} /\ copy.before = copy.index
     /\ pc = "reingested" =>
          /\ copy.before = {old} \ {None}
          /\ copy.index = IF new = None THEN {} ELSE copy.before \union {new}

\* A counted deviation lies before the position, under the name of its fixture.
Before(d) ==
  /\ d.file.dir = dir
  /\ d.at \in DOMAIN battery.fixtures /\ d.file.name = SafeId(battery.fixtures[d.at].id)
  /\ d.file.run \in Nat
  /\ d.at < at \/ (d.at = at /\ d.file.run < run)

DeviationInv ==
  /\ session \in Nat /\ dir \in {0, session}
  /\ \A d \in deviated :
       /\ d.session \in Nat \ {0} /\ d.session <= session /\ d.file.dir \in {0, d.session}
       /\ d.session = session => Before(d)

EvaluationInv == LoopInv /\ PlaceInv /\ CopyInv /\ DeviationInv /\ DeviationsKept

-----------------------------------------------------------------------------
LEMMA BatteryFacts ==
  ASSUME NEW b \in Batteries
  PROVE /\ Len(b.fixtures) \in Nat /\ Len(b.fixtures) > 0
        /\ DOMAIN b.fixtures = 1..Len(b.fixtures)
<1>1. b.fixtures \in Seq(Fixtures) /\ b.fixtures # <<>>
  BY EvaluationAssumption
<1>2. QED
  BY <1>1

\* The rows of the report are about earlier positions.
LEMMA RowsStay ==
  ASSUME LoopTypes, RowsTrue, NEW k \in DOMAIN checks,
         checks'[k] = checks[k], log'[k] = log[k]
  PROVE RowIsTrue(k)'
BY DEF RowsTrue, RowIsTrue

\* A counted run keeps the loop in order.
LEMMA CountKeeps ==
  ASSUME LoopInv, NEW why \in Whys, Count(why), run <= runs, at <= Len(battery.fixtures),
         battery' = battery, runs' = runs
  PROVE LoopInv'
<1>0. /\ None \notin Whys /\ Len(battery.fixtures) \in Nat /\ Len(checks) = at - 1 /\ at \in Nat /\ run \in Nat
      /\ at' = at /\ checks' = checks /\ failed' = failed /\ run' = run + 1 /\ single' = why
      /\ Len(log) = (IF run = 1 THEN at - 1 ELSE at) /\ log \in Seq(Seq(Whys))
  <2>1. None \notin Whys
    BY EvaluationAssumption
  <2>2. Len(battery.fixtures) \in Nat
    BY BatteryFacts DEF LoopInv, LoopTypes
  <2>3. QED
    BY <2>1, <2>2 DEF LoopInv, LoopTypes, Count
<1>1. /\ log' \in Seq(Seq(Whys)) /\ Len(log') = at
      /\ Len(log'[at]) = run /\ log'[at][run] = why
      /\ \A n \in 1..(run - 1) : log'[at][n] = log[at][n]
      /\ \A k \in 1..(at - 1) : log'[k] = log[k]
  <2>1. CASE run = 1
    <3>1. log' = Append(log, <<why>>) /\ Len(log) = at - 1
      BY <2>1, <1>0 DEF Count
    <3>2. <<why>> \in Seq(Whys) /\ Len(<<why>>) = 1 /\ <<why>>[1] = why
      OBVIOUS
    <3>3. QED
      BY <2>1, <1>0, <3>1, <3>2
  <2>2. CASE run # 1
    <3>1. log' = [log EXCEPT ![at] = Append(log[at], why)] /\ Len(log) = at /\ at \in 1..Len(log)
      BY <2>2, <1>0 DEF Count, LoopInv, LoopTypes
    <3>2. log[at] \in Seq(Whys) /\ Len(log[at]) = run - 1
      BY <2>2, <1>0, <3>1 DEF LoopInv, LoopTypes
    <3>3. Append(log[at], why) \in Seq(Whys) /\ Len(Append(log[at], why)) = run
          /\ Append(log[at], why)[run] = why
          /\ \A n \in 1..(run - 1) : Append(log[at], why)[n] = log[at][n]
      BY <3>2, <1>0
    <3>4. log'[at] = Append(log[at], why) /\ \A k \in 1..(at - 1) : log'[k] = log[k]
      BY <3>1, <1>0
    <3>5. log' \in Seq(Seq(Whys)) /\ Len(log') = at
      BY <3>1, <3>3, <1>0
    <3>6. QED
      BY <3>3, <3>4, <3>5
  <2>3. QED
    BY <2>1, <2>2
<1>2. LoopTypes'
  <2>1. met' \in Nat /\ first' \in Whys \union {None}
    BY DEF Count, LoopInv, LoopTypes
  <2>2. QED
    BY <1>0, <1>1, <2>1 DEF LoopInv, LoopTypes
<1>3. Counted'
  <2>1. log'[at'][run' - 1] = why /\ run' > 1 /\ run' # 1 /\ run' - 1 = run
    BY <1>0, <1>1 DEF LoopInv, LoopTypes
  <2>2. (\A n \in 1..run : log'[at][n] = "met") <=> /\ why = "met"
                                                   /\ \A n \in 1..(run - 1) : log[at][n] = "met"
    <3>1. run \in 1..run /\ 1..(run - 1) \subseteq 1..run /\ \A n \in 1..run : n = run \/ n \in 1..(run - 1)
      BY <1>0 DEF LoopInv, LoopTypes
    <3>2. QED
      BY <1>1, <3>1
  <2>3. met <= run - 1 /\ (met = run - 1 <=> \A n \in 1..(run - 1) : log[at][n] = "met")
    BY <1>0 DEF LoopInv, LoopTypes, Counted
  <2>4. first = None <=> \A n \in 1..(run - 1) : log[at][n] = "met"
    BY <1>0 DEF LoopInv, LoopTypes, Counted
  <2>5. met' <= run /\ (met' = run <=> \A n \in 1..run : log'[at][n] = "met")
    <3>1. CASE why = "met"
      BY <3>1, <1>0, <2>2, <2>3 DEF Count, LoopInv, LoopTypes
    <3>2. CASE why # "met"
      BY <3>2, <1>0, <2>2, <2>3 DEF Count, LoopInv, LoopTypes
    <3>3. QED
      BY <3>1, <3>2
  <2>6. first' = None <=> \A n \in 1..run : log'[at][n] = "met"
    BY <1>0, <2>2, <2>4 DEF Count
  <2>7. ASSUME first' # None
        PROVE \E n \in 1..run : /\ log'[at][n] = first' /\ first' # "met"
                                /\ \A m \in 1..run : m < n => log'[at][m] = "met"
    <3>1. CASE first = None
      <4>1. first' = why /\ why # "met"
        BY <3>1, <2>7 DEF Count
      <4>2. \A m \in 1..(run - 1) : log'[at][m] = "met"
        BY <3>1, <2>4, <1>1
      <4>3. run \in 1..run /\ \A m \in 1..run : m < run => m \in 1..(run - 1)
        BY <1>0 DEF LoopInv, LoopTypes
      <4>4. QED
        BY <4>1, <4>2, <4>3, <1>1
    <3>2. CASE first # None
      <4>1. first' = first
        BY <3>2 DEF Count
      <4>2. PICK n \in 1..(run - 1) : /\ log[at][n] = first /\ first # "met"
                                      /\ \A m \in 1..(run - 1) : m < n => log[at][m] = "met"
        BY <3>2, <1>0 DEF LoopInv, LoopTypes, Counted
      <4>3. n \in 1..run /\ \A m \in 1..run : m < n => m \in 1..(run - 1)
        BY <4>2, <1>0
      <4>4. log'[at][n] = first' /\ \A m \in 1..run : m < n => log'[at][m] = "met"
        BY <4>1, <4>2, <4>3, <1>1
      <4>5. QED
        BY <4>1, <4>2, <4>3, <4>4
    <3>3. QED
      BY <3>1, <3>2
  <2>8. QED
    BY <1>0, <2>1, <2>5, <2>6, <2>7 DEF Counted
<1>4. RowsTrue'
  <2>1. ASSUME NEW k \in DOMAIN checks' PROVE RowIsTrue(k)'
    <3>1. k \in DOMAIN checks /\ k \in 1..(at - 1)
      BY <2>1, <1>0 DEF LoopInv, LoopTypes
    <3>2. QED
      BY <3>1, <1>0, <1>1, RowsStay DEF LoopInv
  <2>2. QED
    BY <2>1, <1>0 DEF LoopInv, RowsTrue
<1>5. QED
  BY <1>2, <1>3, <1>4 DEF LoopInv

\* A row that is true of the history of its position joins the report.
LEMMA AddCheckKeeps ==
  ASSUME LoopInv, NEW row \in Rows, AddCheck(row), at <= Len(battery.fixtures),
         battery' = battery, runs' = runs,
         log' \in Seq(Seq(Whys)), Len(log') = at,
         \A k \in 1..(at - 1) : log'[k] = log[k],
         Len(log'[at]) = row.runs,
         row.status <=> \A n \in 1..row.runs : log'[at][n] = "met",
         ~row.status => \E n \in 1..row.runs :
                          /\ row.detail = log'[at][n] /\ log'[at][n] # "met"
                          /\ \A m \in 1..row.runs : m < n => log'[at][m] = "met"
  PROVE LoopInv'
<1>0. /\ at \in Nat \ {0} /\ Len(checks) = at - 1 /\ checks \in Seq(Rows) /\ Len(battery.fixtures) \in Nat
      /\ checks' = Append(checks, row) /\ at' = at + 1 /\ run' = 1 /\ met' = 0 /\ first' = None
      /\ single' = None /\ failed \in Nat
      /\ failed' = IF row.status THEN failed ELSE failed + 1
  BY BatteryFacts DEF LoopInv, LoopTypes, AddCheck
<1>1. /\ checks' \in Seq(Rows) /\ Len(checks') = at /\ DOMAIN checks' = 1..at
      /\ checks'[at] = row /\ \A k \in 1..(at - 1) : checks'[k] = checks[k]
      /\ DOMAIN checks = 1..(at - 1)
  BY <1>0
<1>2. LoopTypes'
  BY <1>0, <1>1 DEF LoopInv, LoopTypes
<1>3. Counted'
  BY <1>0 DEF Counted
<1>4. ASSUME NEW k \in DOMAIN checks' PROVE RowIsTrue(k)'
  <2>1. CASE k = at
    <3>1. DOMAIN log'[at] = 1..row.runs
      BY <1>0
    <3>2. row.runs \in Nat
      BY DEF Rows
    <3>3. QED
      <4>1. ASSUME ~row.status
            PROVE \E n \in {x \in 1..row.runs : log'[at][x] # "met"} :
                    row.detail = log'[at][n]
                      /\ \A m \in {x \in 1..row.runs : log'[at][x] # "met"} : n <= m
        <5>1. PICK n \in 1..row.runs : /\ row.detail = log'[at][n] /\ log'[at][n] # "met"
                                       /\ \A m \in 1..row.runs : m < n => log'[at][m] = "met"
          BY <4>1
        <5>2. \A m \in {x \in 1..row.runs : log'[at][x] # "met"} : n <= m
          BY <5>1, <3>2
        <5>3. QED
          BY <5>1, <5>2
      <4>2. row.status <=> {x \in 1..row.runs : log'[at][x] # "met"} = {}
        OBVIOUS
      <4>3. QED
        BY <2>1, <1>1, <3>1, <4>1, <4>2 DEF RowIsTrue
  <2>2. CASE k # at
    <3>1. k \in DOMAIN checks /\ k \in 1..(at - 1)
      BY <2>2, <1>0, <1>1
    <3>2. QED
      BY <3>1, <1>1, RowsStay DEF LoopInv
  <2>3. QED
    BY <2>1, <2>2
<1>5. failed' = 0 <=> \A k \in DOMAIN checks' : checks'[k].status
  <2>1. failed = 0 <=> \A k \in 1..(at - 1) : checks[k].status
    BY <1>1 DEF LoopInv, RowsTrue
  <2>2. (\A k \in DOMAIN checks' : checks'[k].status) <=>
          row.status /\ \A k \in 1..(at - 1) : checks[k].status
    BY <1>0, <1>1
  <2>3. QED
    BY <1>0, <2>1, <2>2
<1>6. QED
  BY <1>2, <1>3, <1>4, <1>5 DEF LoopInv, RowsTrue

LEMMA LoopUnchanged ==
  ASSUME LoopInv, UNCHANGED <<commandVars, at, run, met, single, first, reportVars>>
  PROVE LoopInv'
<1>1. LoopTypes' /\ Counted'
  BY DEF LoopInv, LoopTypes, Counted, commandVars, reportVars
<1>2. ASSUME NEW k \in DOMAIN checks' PROVE RowIsTrue(k)'
  BY <1>2, RowsStay DEF LoopInv, reportVars
<1>3. RowsTrue'
  BY <1>2 DEF LoopInv, RowsTrue, reportVars
<1>4. QED
  BY <1>1, <1>3 DEF LoopInv

-----------------------------------------------------------------------------
\* The evidence of the copy says what the edit did.
LEMMA EvidenceIsTrue ==
  ASSUME CopyInv, pc = "reingested"
  PROVE ChunksChanged(copy.before, copy.index) <=> Effect = "met"
BY DEF CopyInv, ChunksChanged, Effect

\* A re-ingest that ends leaves a true row, if its evidence is what happened.
LEMMA EvidenceKeeps ==
  ASSUME LoopInv, NEW changed \in BOOLEAN, NEW effect \in {"met", "missed"}, changed <=> effect = "met",
         Evidence(changed, effect), at <= Len(battery.fixtures), run = 1,
         battery' = battery, runs' = runs
  PROVE LoopInv'
<1> DEFINE row == [status |-> changed, runs |-> 1, detail |-> IF changed THEN "met" ELSE "missed"]
<1>1. row \in Rows /\ AddCheck(row) /\ row.runs = 1 /\ row.status = changed
      /\ row.detail = effect
  BY DEF Rows, Whys, Evidence
<1>2. log \in Seq(Seq(Whys)) /\ Len(log) = at - 1 /\ at \in Nat \ {0} /\ <<effect>> \in Seq(Whys)
      /\ log' = Append(log, <<effect>>)
  BY DEF LoopInv, LoopTypes, Evidence, Whys
<1>3. /\ log' \in Seq(Seq(Whys)) /\ Len(log') = at /\ \A k \in 1..(at - 1) : log'[k] = log[k]
      /\ log'[at] = <<effect>>
  BY <1>2
<1>4. Len(log'[at]) = 1 /\ log'[at][1] = effect
  BY <1>3
<1> HIDE DEF row
<1>5. /\ Len(log'[at]) = row.runs
      /\ row.status <=> \A n \in 1..row.runs : log'[at][n] = "met"
      /\ ~row.status => \E n \in 1..row.runs :
                          /\ row.detail = log'[at][n] /\ log'[at][n] # "met"
                          /\ \A m \in 1..row.runs : m < n => log'[at][m] = "met"
  <2>1. 1..row.runs = {1}
    BY <1>1
  <2>2. QED
    BY <2>1, <1>1, <1>4
<1>6. QED
  BY <1>1, <1>3, <1>5, AddCheckKeeps

\* The row of a query fixture is what its runs were.
LEMMA CloseFixtureKeeps ==
  ASSUME LoopInv, CloseFixture PROVE LoopInv'
<1> DEFINE row == [status |-> met = runs, runs |-> runs,
                   detail |-> IF runs = 1 THEN single ELSE IF first = None THEN "met" ELSE first]
<1>1. AddCheck(row) /\ at <= Len(battery.fixtures) /\ battery' = battery /\ runs' = runs /\ log' = log
  BY DEF CloseFixture, Querying, commandVars
<1>2. /\ run = runs + 1 /\ run > 1 /\ run # 1 /\ run - 1 = runs /\ at \in Nat \ {0} /\ runs \in Nat \ {0}
      /\ log \in Seq(Seq(Whys)) /\ Len(log) = at /\ Len(log[at]) = runs
  BY DEF CloseFixture, Querying, LoopInv, LoopTypes
<1>3. row \in Rows /\ row.runs = runs /\ row.status = (met = runs)
      /\ row.detail = IF runs = 1 THEN single ELSE IF first = None THEN "met" ELSE first
  <2>1. single \in Whys \union {None} /\ first \in Whys \union {None}
    BY DEF LoopInv, LoopTypes
  <2>2. QED
    BY <1>2, <2>1 DEF Rows, Whys
<1>4. /\ single = log[at][runs]
      /\ met = runs <=> \A n \in 1..runs : log[at][n] = "met"
      /\ first = None <=> \A n \in 1..runs : log[at][n] = "met"
      /\ first # None =>
           \E n \in 1..runs : /\ log[at][n] = first /\ first # "met"
                              /\ \A m \in 1..runs : m < n => log[at][m] = "met"
  BY <1>2 DEF LoopInv, Counted
<1> HIDE DEF row
<1>5. ASSUME ~row.status
      PROVE \E n \in 1..row.runs : /\ row.detail = log'[at][n] /\ log'[at][n] # "met"
                                   /\ \A m \in 1..row.runs : m < n => log'[at][m] = "met"
  <2>1. first # None
    BY <1>3, <1>4, <1>5
  <2>2. PICK n \in 1..runs : /\ log[at][n] = first /\ first # "met"
                             /\ \A m \in 1..runs : m < n => log[at][m] = "met"
    BY <1>4, <2>1
  <2>3. row.detail = first
    <3>1. CASE runs = 1
      BY <3>1, <1>3, <1>4, <2>2
    <3>2. CASE runs # 1
      BY <3>2, <1>3, <2>1
    <3>3. QED
      BY <3>1, <3>2
  <2>4. QED
    BY <1>1, <1>3, <2>2, <2>3
<1>6. /\ Len(log'[at]) = row.runs
      /\ row.status <=> \A n \in 1..row.runs : log'[at][n] = "met"
      /\ log' \in Seq(Seq(Whys)) /\ Len(log') = at /\ \A k \in 1..(at - 1) : log'[k] = log[k]
  BY <1>1, <1>2, <1>3, <1>4
<1>7. QED
  BY <1>1, <1>3, <1>5, <1>6, AddCheckKeeps

\* A new invocation starts with an empty report.
LEMMA EvaluateKeeps ==
  ASSUME Evaluate PROVE LoopInv'
<1>1. Len(battery'.fixtures) \in Nat /\ Len(battery'.fixtures) > 0
  BY BatteryFacts DEF Evaluate
<1>2. runs' \in Nat \ {0}
  BY EvaluationAssumption DEF Evaluate
<1>3. LoopTypes'
  <2>1. battery' \in Batteries /\ at' = 1 /\ run' = 1 /\ met' = 0 /\ failed' = 0
        /\ first' = None /\ single' = None /\ checks' = <<>> /\ log' = <<>>
    BY DEF Evaluate
  <2>2. <<>> \in Seq(Rows) /\ <<>> \in Seq(Seq(Whys))
    OBVIOUS
  <2>3. 1 <= Len(battery'.fixtures) + 1 /\ 1 <= runs' + 1
    <3>1. \A n \in Nat : 1 <= n + 1
      OBVIOUS
    <3>2. QED
      BY <1>1, <1>2, <3>1
  <2>4. checks' \in Seq(Rows) /\ log' \in Seq(Seq(Whys)) /\ Len(checks') = 0 /\ Len(log') = 0
    BY <2>1, <2>2
  <2>5. /\ Len(checks') = at' - 1 /\ Len(log') = (IF run' = 1 THEN at' - 1 ELSE at')
        /\ run' > 1 => Len(log'[at']) = run' - 1
    BY <2>1, <2>4
  <2>6. /\ at' \in Nat \ {0} /\ at' <= Len(battery'.fixtures) + 1
        /\ run' \in Nat \ {0} /\ run' <= runs' + 1 /\ met' \in Nat /\ failed' \in Nat
    BY <2>1, <2>3
  <2>7. QED
    BY <1>2, <2>1, <2>4, <2>5, <2>6 DEF LoopTypes
<1>4. QED
  BY <1>3 DEF Evaluate, LoopInv, Counted, RowsTrue, RowIsTrue

LEMMA StageIsWhy ==
  ASSUME NEW result PROVE Missed(result) \in Whys
BY DEF Missed, Stage, Whys

\* Every step keeps the counters and the rows true.
LEMMA LoopStep ==
  ASSUME LoopInv, PlaceInv, CopyInv, [Next]_evaluationVars PROVE LoopInv'
<1>1. CASE Evaluate
  BY <1>1, EvaluateKeeps
<1>2. CASE PrepareStep \/ StoreLocked \/ Report \/ Kill
  <2>1. UNCHANGED <<commandVars, at, run, met, single, first, reportVars>>
    BY <1>2 DEF PrepareStep, AdaptCorpus, IngestCorpus, PreparationFails, CheckOracles, ListProposed,
                StoreLocked, Report, Kill, loopVars
  <2>2. QED
    BY <2>1, LoopUnchanged
<1>3. CASE RunQuery
  <2>1. PICK result \in Results :
          IF Satisfies(Fixture, result, proposed)
            THEN Count("met") /\ UNCHANGED <<pc, pending>>
            ELSE UNCHANGED <<at, run, met, single, first, reportVars>>
    BY <1>3 DEF RunQuery
  <2>2. run <= runs /\ at <= Len(battery.fixtures) /\ UNCHANGED commandVars
    BY <1>3 DEF RunQuery, Querying
  <2>3. CASE Count("met")
    BY <2>2, <2>3, CountKeeps DEF commandVars, Whys
  <2>4. CASE UNCHANGED <<at, run, met, single, first, reportVars>>
    BY <2>2, <2>4, LoopUnchanged
  <2>5. QED
    BY <2>1, <2>3, <2>4
<1>4. CASE RecordDeviation
  <2>1. Count(Missed(pending)) /\ battery' = battery /\ runs' = runs
    BY <1>4 DEF RecordDeviation, commandVars
  <2>2. run <= runs /\ at <= Len(battery.fixtures)
    BY <1>4 DEF RecordDeviation, PlaceInv
  <2>3. QED
    BY <2>1, <2>2, CountKeeps, StageIsWhy
<1>5. CASE RetrievalFails
  BY <1>5, CountKeeps DEF RetrievalFails, Querying, commandVars, Whys
<1>6. CASE CloseFixture
  BY <1>6, CloseFixtureKeeps
<1>7. CASE NoSuchFile
  <2>1. run = 1
    BY <1>7 DEF NoSuchFile, Reingesting, PlaceInv
  <2>2. QED
    BY <1>7, <2>1, EvidenceKeeps DEF NoSuchFile, Reingesting, commandVars
<1>8. CASE CopySpec \/ AdaptCopy \/ IngestCopy \/ EditCopy \/ ReingestCopy
  <2>1. UNCHANGED <<commandVars, at, run, met, single, first, reportVars>>
    BY <1>8 DEF CopySpec, AdaptCopy, IngestCopy, EditCopy, ReingestCopy, Advance, Reingesting, loopVars
  <2>2. QED
    BY <2>1, LoopUnchanged
<1>9. CASE CopyFails
  <2>1. at <= Len(battery.fixtures) /\ run = 1
    BY <1>9 DEF CopyFails, Reingesting, PlaceInv, Copying
  <2>2. QED
    BY <1>9, <2>1, EvidenceKeeps DEF CopyFails, Reingesting, commandVars
<1>10. CASE CompareChunks
  <2>1. at <= Len(battery.fixtures) /\ run = 1 /\ battery' = battery /\ runs' = runs
    BY <1>10 DEF CompareChunks, Reingesting, PlaceInv, Copying, commandVars
  <2>2. Effect \in {"met", "missed"} /\ ChunksChanged(copy.before, copy.index) \in BOOLEAN
    BY DEF Effect, ChunksChanged
  <2>3. ChunksChanged(copy.before, copy.index) <=> Effect = "met"
    BY <1>10, EvidenceIsTrue DEF CompareChunks, Reingesting
  <2>4. Evidence(ChunksChanged(copy.before, copy.index), Effect)
    BY <1>10 DEF CompareChunks
  <2>5. QED
    BY <2>1, <2>2, <2>3, <2>4, EvidenceKeeps
<1>11. CASE UNCHANGED evaluationVars
  BY <1>11, LoopUnchanged DEF evaluationVars, commandVars, loopVars, reportVars
<1>12. QED
  BY <1>1, <1>2, <1>3, <1>4, <1>5, <1>6, <1>7, <1>8, <1>9, <1>10, <1>11
     DEF Next, EvaluationStep, QueryFixtureStep, ReingestStep

\* Where each step leads.
LEMMA PlaceStep ==
  ASSUME LoopInv, PlaceInv, [Next]_evaluationVars PROVE PlaceInv'
<1>0. Len(battery.fixtures) \in Nat /\ Len(battery.fixtures) > 0 /\ None \notin Nat
      /\ at \in Nat \ {0} /\ Len(checks) = at - 1 /\ run \in Nat \ {0}
  BY BatteryFacts, EvaluationAssumption DEF LoopInv, LoopTypes
<1> USE DEF PlaceInv, Preparing, Copying
<1>1. CASE Evaluate
  BY <1>0, <1>1 DEF Evaluate
<1>2. CASE AdaptCorpus \/ IngestCorpus \/ ListProposed
  <2>1. UNCHANGED <<session, battery, at, run, runs, checks, failed, exit>>
    BY <1>2 DEF AdaptCorpus, IngestCorpus, ListProposed, commandVars, loopVars, reportVars
  <2>2. pc \in Preparing /\ pc' \in {"ingest", "check", "fixture"}
    BY <1>2 DEF AdaptCorpus, IngestCorpus, ListProposed
  <2>3. run = 1
    BY <2>2
  <2>4. QED
    BY <1>0, <2>1, <2>2, <2>3 DEF Fixture
<1>3. CASE PreparationFails \/ CheckOracles
  <2>1. UNCHANGED <<session, battery, at, run, runs, checks, failed>> /\ pc \in Preparing
    BY <1>3 DEF PreparationFails, CheckOracles, commandVars, loopVars, reportVars
  <2>2. (pc' = "idle" /\ exit' \in {1, 2, 3}) \/ (pc' = "list" /\ exit' = exit)
    BY <1>3 DEF PreparationFails, CheckOracles, End
  <2>3. QED
    BY <1>0, <2>1, <2>2 DEF Fixture
<1>4. CASE StoreLocked
  BY <1>0, <1>4 DEF StoreLocked, Querying, End, commandVars, loopVars, reportVars, Fixture
<1>5. CASE Kill
  BY <1>0, <1>5 DEF Kill, End, commandVars, loopVars, reportVars, Fixture
<1>6. CASE Report
  <2>1. at = Len(battery.fixtures) + 1 /\ failed \in Nat
    BY <1>0, <1>6 DEF Report, LoopInv, LoopTypes
  <2>2. QED
    BY <1>0, <1>6, <2>1 DEF Report, End, commandVars, loopVars, reportVars, Fixture
<1>7. CASE RunQuery
  BY <1>0, <1>7 DEF RunQuery, Querying, Count, commandVars, reportVars, Fixture
<1>8. CASE RecordDeviation
  BY <1>0, <1>8 DEF RecordDeviation, Count, commandVars, Fixture
<1>9. CASE RetrievalFails
  BY <1>0, <1>9 DEF RetrievalFails, Querying, Count, commandVars, Fixture
<1>10. CASE CloseFixture
  BY <1>0, <1>10 DEF CloseFixture, Querying, AddCheck, commandVars, Fixture
<1>11. CASE NoSuchFile \/ CopyFails \/ CompareChunks
  <2>1. UNCHANGED <<session, battery, runs, exit>> /\ run' = 1 /\ pc' = "fixture" /\ pc # "idle"
    BY <1>11 DEF NoSuchFile, CopyFails, CompareChunks, Reingesting, Evidence, AddCheck, commandVars
  <2>2. QED
    BY <1>0, <2>1
<1>12. CASE CopySpec \/ AdaptCopy \/ IngestCopy \/ EditCopy \/ ReingestCopy
  <2>1. UNCHANGED <<session, battery, at, run, runs, checks, failed, exit>> /\ pc # "idle" /\ pc' \in Copying
    BY <1>12 DEF CopySpec, AdaptCopy, IngestCopy, EditCopy, ReingestCopy, Advance, Reingesting,
                 commandVars, loopVars, reportVars
  <2>2. at <= Len(battery.fixtures) /\ run = 1
    BY <1>12 DEF CopySpec, AdaptCopy, IngestCopy, EditCopy, ReingestCopy, Reingesting
  <2>3. QED
    BY <1>0, <2>1, <2>2
<1>13. CASE UNCHANGED evaluationVars
  BY <1>13 DEF evaluationVars, commandVars, loopVars, reportVars, Fixture
<1>14. QED
  BY <1>1, <1>2, <1>3, <1>4, <1>5, <1>6, <1>7, <1>8, <1>9, <1>10, <1>11, <1>12, <1>13
     DEF Next, EvaluationStep, PrepareStep, QueryFixtureStep, ReingestStep

\* The copy holds what its last step made of it.
LEMMA CopyStep ==
  ASSUME PlaceInv, CopyInv, [Next]_evaluationVars PROVE CopyInv'
<1> USE DEF Copying
<1>1. CASE Evaluate \/ PrepareStep \/ StoreLocked \/ Report \/ Kill
  <2>1. pc' \notin Copying
    BY <1>1 DEF Evaluate, PrepareStep, AdaptCorpus, IngestCorpus, PreparationFails, CheckOracles,
                ListProposed, StoreLocked, Report, Kill, End
  <2>2. QED
    BY <2>1 DEF CopyInv
<1>2. CASE RunQuery \/ RecordDeviation \/ RetrievalFails \/ CloseFixture
  <2>1. pc' \notin Copying
    BY <1>2 DEF RunQuery, RecordDeviation, RetrievalFails, CloseFixture, Querying
  <2>2. QED
    BY <2>1 DEF CopyInv
<1>3. CASE NoSuchFile \/ CopyFails \/ CompareChunks
  <2>1. pc' \notin Copying
    BY <1>3 DEF NoSuchFile, CopyFails, CompareChunks, Evidence
  <2>2. QED
    BY <2>1 DEF CopyInv
<1>4. CASE CopySpec
  BY <1>4 DEF CopySpec, Advance, NoCopy, CopyInv
<1>5. CASE AdaptCopy
  BY <1>5 DEF AdaptCopy, Advance, Reingesting, CopyInv
<1>6. CASE IngestCopy
  BY <1>6 DEF IngestCopy, Advance, Reingesting, CopyInv
<1>7. CASE EditCopy
  BY <1>7 DEF EditCopy, Advance, Reingesting, CopyInv
<1>8. CASE ReingestCopy
  BY <1>8 DEF ReingestCopy, Advance, Reingesting, CopyInv
<1>9. CASE UNCHANGED evaluationVars
  BY <1>9 DEF evaluationVars, CopyInv
<1>10. QED
  BY <1>1, <1>2, <1>3, <1>4, <1>5, <1>6, <1>7, <1>8, <1>9
     DEF Next, EvaluationStep, QueryFixtureStep, ReingestStep

\* A step that touches neither the traces nor the position.
LEMMA TracesUnchanged ==
  ASSUME DeviationInv, DeviationsKept, LoopInv,
         UNCHANGED <<session, battery, dir, traces, deviated>>,
         (at' = at /\ run' >= run) \/ at' = at + 1, run' \in Nat
  PROVE DeviationInv' /\ DeviationsKept'
<1>1. at \in Nat /\ run \in Nat
  BY DEF LoopInv, LoopTypes
<1>2. \A d \in deviated : Before(d) => Before(d)'
  <2>1. ASSUME NEW d \in deviated, Before(d) PROVE Before(d)'
    <3>1. d.at \in Nat /\ d.file.run \in Nat
      BY <2>1, BatteryFacts DEF Before, LoopInv, LoopTypes
    <3>2. d.at < at' \/ (d.at = at' /\ d.file.run < run')
      BY <1>1, <2>1, <3>1 DEF Before
    <3>3. QED
      BY <2>1, <3>2 DEF Before
  <2>2. QED
    BY <2>1
<1>3. DeviationInv'
  BY <1>2 DEF DeviationInv
<1>4. QED
  BY <1>3 DEF DeviationsKept

\* The file of a deviating run replaces none that is owed to an earlier one.
LEMMA RecordKeeps ==
  ASSUME DeviationInv, DeviationsKept, LoopInv, PlaceInv, RecordDeviation
  PROVE DeviationInv' /\ DeviationsKept'
<1> DEFINE name == SafeId(Fixture.id)
           file == [dir |-> dir, name |-> name, run |-> run, result |-> pending]
           here == [session |-> session, at |-> at, file |-> file]
<1>1. /\ traces' = {t \in traces : ~(t.dir = dir /\ t.name = name /\ t.run = run)} \union {file}
      /\ deviated' = deviated \union {here}
      /\ UNCHANGED <<session, battery, dir>> /\ at' = at /\ run' = run + 1
  BY DEF RecordDeviation, commandVars, Count
<1>2. /\ at \in Nat \ {0} /\ run \in Nat \ {0} /\ at \in DOMAIN battery.fixtures
      /\ Len(battery.fixtures) \in Nat /\ DOMAIN battery.fixtures = 1..Len(battery.fixtures)
      /\ battery \in Batteries
  BY BatteryFacts DEF LoopInv, LoopTypes, PlaceInv, RecordDeviation
<1>3. file.dir = dir /\ file.name = name /\ file.run = run /\ here.session = session /\ here.at = at
      /\ here.file = file /\ Fixture = battery.fixtures[at]
  BY DEF Fixture
<1> HIDE DEF here, file
<1>4. ASSUME NEW d \in deviated, d.file.dir # 0 \/ d.session = session
      PROVE ~(d.file.dir = dir /\ d.file.name = name /\ d.file.run = run)
  <2>1. CASE d.session = session
    <3>1. Before(d)
      BY <2>1 DEF DeviationInv
    <3>2. d.at \in Nat /\ d.file.run \in Nat
      BY <1>2, <3>1 DEF Before
    <3>3. CASE d.at = at
      BY <1>2, <3>1, <3>2, <3>3 DEF Before
    <3>4. CASE d.at # at
      BY <1>2, <1>3, <3>1, <3>4, SafeIdsDiffer DEF Before
    <3>5. QED
      BY <3>3, <3>4
  <2>2. CASE d.session # session
    BY <2>2, <1>4 DEF DeviationInv
  <2>3. QED
    BY <2>1, <2>2
<1>5. DeviationInv'
  <2>1. ASSUME NEW d \in deviated, Before(d) PROVE Before(d)'
    <3>1. d.at \in Nat /\ d.file.run \in Nat
      BY <1>2, <2>1 DEF Before
    <3>2. QED
      BY <1>1, <1>2, <2>1, <3>1 DEF Before
  <2>2. ASSUME NEW d, d = here PROVE Before(d)'
    BY <2>2, <1>1, <1>2, <1>3 DEF Before
  <2>3. session \in Nat \ {0}
    BY DEF PlaceInv, RecordDeviation
  <2>4. QED
    BY <1>1, <1>3, <2>1, <2>2, <2>3 DEF DeviationInv
<1>6. ASSUME NEW d \in deviated', d.file.dir # 0 \/ d.session = session PROVE d.file \in traces'
  <2>1. CASE d = here
    BY <2>1, <1>1, <1>3
  <2>2. CASE d # here
    BY <2>2, <1>1, <1>4, <1>6 DEF DeviationsKept
  <2>3. QED
    BY <2>1, <2>2
<1>7. ASSUME NEW t \in traces' PROVE \E d \in deviated' : d.file = t
  BY <1>1, <1>3 DEF DeviationsKept
<1>8. ASSUME NEW t \in traces', NEW u \in traces', t.dir = u.dir, t.name = u.name, t.run = u.run
      PROVE t = u
  BY <1>1, <1>3, <1>8 DEF DeviationsKept
<1>9. QED
  BY <1>1, <1>5, <1>6, <1>7, <1>8 DEF DeviationsKept

\* Every step keeps the traces.
LEMMA TraceStep ==
  ASSUME DeviationInv, DeviationsKept, LoopInv, PlaceInv, LoopInv', [Next]_evaluationVars
  PROVE DeviationInv' /\ DeviationsKept'
<1>0. run \in Nat /\ run' \in Nat
  BY DEF LoopInv, LoopTypes
<1>1. CASE Evaluate
  <2>1. /\ session' = session + 1 /\ dir' \in {0, session'} /\ session \in Nat
        /\ UNCHANGED <<traces, deviated>>
    BY <1>1 DEF Evaluate, DeviationInv
  <2>2. \A d \in deviated : d.session \in Nat \ {0} /\ d.session <= session /\ d.session # session'
                            /\ d.file.dir \in {0, d.session}
    BY <2>1 DEF DeviationInv
  <2>3. DeviationInv'
    BY <2>1, <2>2 DEF DeviationInv
  <2>4. QED
    BY <2>1, <2>2, <2>3 DEF DeviationsKept
<1>2. CASE RecordDeviation
  BY <1>2, RecordKeeps
<1>3. CASE PrepareStep \/ StoreLocked \/ Report \/ Kill \/ CopySpec \/ AdaptCopy \/ IngestCopy \/ EditCopy
           \/ ReingestCopy \/ UNCHANGED evaluationVars
  <2>1. UNCHANGED <<session, battery, dir, traces, deviated, at, run>>
    BY <1>3 DEF PrepareStep, AdaptCorpus, IngestCorpus, PreparationFails, CheckOracles, ListProposed,
                StoreLocked, Report, Kill, CopySpec, AdaptCopy, IngestCopy, EditCopy, ReingestCopy,
                Advance, Reingesting, commandVars, loopVars, evaluationVars
  <2>2. QED
    BY <1>0, <2>1, TracesUnchanged
<1>4. CASE RunQuery \/ RetrievalFails
  <2>1. UNCHANGED <<session, battery, dir, traces, deviated>> /\ at' = at /\ run' \in {run, run + 1}
    BY <1>4 DEF RunQuery, RetrievalFails, Count, commandVars
  <2>2. QED
    BY <1>0, <2>1, TracesUnchanged
<1>5. CASE CloseFixture \/ NoSuchFile \/ CopyFails \/ CompareChunks
  <2>1. UNCHANGED <<session, battery, dir, traces, deviated>> /\ at' = at + 1
    BY <1>5 DEF CloseFixture, NoSuchFile, CopyFails, CompareChunks, Evidence, AddCheck, Reingesting, commandVars
  <2>2. QED
    BY <1>0, <2>1, TracesUnchanged
<1>6. QED
  BY <1>1, <1>2, <1>3, <1>4, <1>5 DEF Next, EvaluationStep, QueryFixtureStep, ReingestStep

-----------------------------------------------------------------------------
LEMMA EvaluationInit ==
  ASSUME Init PROVE EvaluationInv
<1>1. Len(battery.fixtures) \in Nat /\ Len(battery.fixtures) > 0 /\ None \notin Nat
  BY BatteryFacts, EvaluationAssumption DEF Init
<1>2. LoopTypes
  <2>1. <<>> \in Seq(Rows) /\ <<>> \in Seq(Seq(Whys)) /\ Len(checks) = 0 /\ Len(log) = 0
    BY DEF Init
  <2>2. /\ Len(checks) = at - 1 /\ Len(log) = (IF run = 1 THEN at - 1 ELSE at)
        /\ run > 1 => Len(log[at]) = run - 1
    BY <2>1 DEF Init
  <2>3. 1 <= Len(battery.fixtures) + 1
    BY <1>1
  <2>4. QED
    BY <2>1, <2>2, <2>3 DEF Init, LoopTypes
<1>3. LoopInv
  BY <1>2 DEF Init, LoopInv, Counted, RowsTrue, RowIsTrue
<1>4. PlaceInv /\ CopyInv /\ DeviationInv /\ DeviationsKept
  BY <1>1 DEF Init, PlaceInv, CopyInv, DeviationInv, DeviationsKept, Preparing, Copying
<1>5. QED
  BY <1>3, <1>4 DEF EvaluationInv

\* What the loop has counted, where the command is, what the copy holds and
\* where the traces are, is an invariant of any number of invocations with kills.
THEOREM EvaluationInvariant == Spec => []EvaluationInv
<1>1. EvaluationInv /\ [Next]_evaluationVars => EvaluationInv'
  BY LoopStep, PlaceStep, CopyStep, TraceStep DEF EvaluationInv
<1>2. QED
  BY <1>1, EvaluationInit, PTL DEF Spec

\* The report and the exit code tell the truth, for every battery, number of
\* runs and oracle.
THEOREM ReportsAreTrue == Spec => []ReportIsTrue
<1>1. EvaluationInv => ReportIsTrue
  BY DEF EvaluationInv, LoopInv, RowsTrue, PlaceInv, ReportIsTrue
<1>2. QED
  BY <1>1, EvaluationInvariant, PTL

\* No later run, fixture, invocation or kill takes away the trace of a
\* deviating run, as long as file names tell the fixtures apart.
THEOREM DeviationsAreKept == Spec => []DeviationsKept
<1>1. EvaluationInv => DeviationsKept
  BY DEF EvaluationInv
<1>2. QED
  BY <1>1, EvaluationInvariant, PTL
=============================================================================
