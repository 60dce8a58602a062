--------------------------- MODULE RunIndexProofs ---------------------------
(***************************************************************************)
(* What run_repository.py keeps for any number of runs, of readers and of  *)
(* rebuilds at a time, whatever is killed: types, get_run finds what was   *)
(* there all the time, a query that meets no other rebuild does not raise, *)
(* and the index is broken only where two rebuilds overlap.                *)
(***************************************************************************)
EXTENDS RunIndex, TLAPS

Others(p) == \A q \in Procs \ {p} : pc'[q] = pc[q]

\* The steps of a process that open, close or move the temporary file or the
\* index; every other step leaves both alone.
Touches(p) ==
    UnlinkTmp(p) \/ OpenTmp(p) \/ CloseTmp(p) \/ FillFails(p) \/ Replace(p) \/ Kill(p)

LEMMA GotoType ==
  ASSUME TypeOK, NEW p \in Procs, NEW step \in Steps, Goto(p, step)
  PROVE  pc' \in [Procs -> Steps] /\ pc'[p] = step /\ Others(p)
  BY DEF TypeOK, Goto, Others

LEMMA StepsType ==
  /\ {"idle", "asking", "falling", "done", "raised"} \subseteq Steps
  /\ {"checking", "unlinking", "scanning", "opening", "filling", "replacing"} \subseteq Steps
  /\ Rebuilding \subseteq Steps
  BY DEF Steps, Rebuilding

LEMMA FileType ==
  ASSUME NEW file \in Files, NEW p
  PROVE  /\ Left(p, file) \in Files
         /\ Left(p, file).is = file.is /\ Left(p, file).rows = file.rows
         /\ Left(p, file).open = file.open \ {p}
  BY DEF Files, Left

LEMMA FilledType ==
  ASSUME NEW file \in Files, NEW p, NEW rows \in SUBSET Runs
  PROVE  /\ Filled(p, file, rows) \in Files
         /\ Filled(p, file, rows).is = "index" /\ Filled(p, file, rows).open = file.open \ {p}
<1>1. Left(p, file) \in Files /\ Left(p, file).open = file.open \ {p}
  BY FileType
<1> QED
  BY <1>1 DEF Files, Filled

LEMMA OutcomesType ==
  ASSUME TypeOK, NEW p \in Procs, NEW file \in Files, NEW after \in Outcomes(p, file)
  PROVE  /\ after \in Files /\ after.open = file.open \ {p}
         /\ p \notin crossed => after.is = "index"
<1>1. \A q \in Procs : found[q] \in SUBSET Runs
  BY DEF TypeOK
<1> DEFINE spoilt == [Left(p, file) EXCEPT !.is = "broken", !.rows = {}]
<1>2. Left(p, file) \in Files /\ Left(p, file).open = file.open \ {p}
  BY FileType
<1>3. spoilt \in Files /\ spoilt.open = file.open \ {p}
  BY <1>2 DEF Files
<1>4. \A q \in Procs : /\ Filled(p, file, found[q]) \in Files
                       /\ Filled(p, file, found[q]).is = "index"
                       /\ Filled(p, file, found[q]).open = file.open \ {p}
  BY <1>1, FilledType
<1>5. CASE p \in crossed
  <2>1. \/ after = Left(p, file) \/ after = spoilt
        \/ \E q \in Procs : after = Filled(p, file, found[q])
    BY <1>5 DEF Outcomes
  <2> HIDE DEF spoilt
  <2> QED
    BY <1>2, <1>3, <1>4, <1>5, <2>1
<1>6. CASE p \notin crossed
  BY <1>4, <1>6 DEF Outcomes
<1> QED
  BY <1>5, <1>6

LEMMA EnterType ==
  ASSUME TypeOK, NEW p \in Procs, EnterRebuild(p)
  PROVE  alone' \subseteq Procs /\ alone' \subseteq alone
  BY DEF TypeOK, EnterRebuild

LEMMA RaisesType ==
  ASSUME TypeOK, NEW p \in Procs, Raises(p)
  PROVE  /\ call' \in [Procs -> Calls] /\ pc' \in [Procs -> Steps]
         /\ alone' \subseteq Procs /\ alone' \subseteq alone
         /\ Others(p) /\ pc'[p] \in {"checking", "raised"}
         /\ pc'[p] = "raised" => alone' = alone
         /\ pc'[p] = "checking" => EnterRebuild(p)
         /\ \A q \in Procs : call'[q].op = call[q].op /\ call'[q].run = call[q].run
<1>1. CASE ~call[p].again
  <2>1. call[p] \in Calls /\ [call[p] EXCEPT !.again = TRUE] \in Calls
    BY DEF TypeOK, Calls
  <2>2. Goto(p, "checking") /\ call' = [call EXCEPT ![p].again = TRUE] /\ EnterRebuild(p)
    BY <1>1 DEF Raises
  <2>3. /\ call' \in [Procs -> Calls]
        /\ \A q \in Procs : call'[q].op = call[q].op /\ call'[q].run = call[q].run
    BY <2>1, <2>2 DEF TypeOK, Calls
  <2> QED
    BY <2>2, <2>3, GotoType, StepsType, EnterType
<1>2. CASE call[p].again
  BY <1>2, GotoType, StepsType DEF Raises, TypeOK
<1> QED
  BY <1>1, <1>2

LEMMA OpenTypes ==
  ASSUME TypeOK, NEW p \in Procs, OpenTmp(p)
  PROVE  /\ tmp' \in Files /\ db' = db /\ crossed' \subseteq Procs
         /\ tmp'.open = tmp.open \cup {p} \/ tmp'.open = {p}
         /\ p \in tmp'.open /\ tmp'.is # "missing"
         /\ (\A q \in Procs \ {p} : pc[q] # "filling") => p \notin crossed'
<1>1. tmp' \in Files /\ p \in tmp'.open /\ tmp'.is # "missing"
      /\ (tmp'.open = tmp.open \cup {p} \/ tmp'.open = {p})
  <2>1. CASE tmp.is = "missing"
    BY <2>1 DEF OpenTmp, Files
  <2>2. CASE tmp.is # "missing"
    BY <2>2 DEF OpenTmp, Files, TypeOK
  <2> QED
    BY <2>1, <2>2
<1> QED
  BY <1>1 DEF OpenTmp, TypeOK

-----------------------------------------------------------------------------
LEMMA InitTypes == ASSUME Init PROVE TypeOK
<1>1. AnyRun \in Runs
  BY IndexAssumption DEF AnyRun
<1>2. NoFile \in Files
  BY DEF NoFile, Files
<1> QED
  BY <1>1, <1>2, StepsType DEF Init, TypeOK, Calls, Steps

LEMMA QueryTypes ==
  ASSUME TypeOK, NEW p \in Procs, NEW op \in {"list", "get"}, NEW r \in Runs, Query(p, op, r)
  PROVE  /\ TypeOK' /\ pc'[p] = "asking" /\ Others(p)
         /\ \A q \in Procs \ {p} : call'[q] = call[q]
<1> DEFINE c == [op |-> op, run |-> r, again |-> FALSE]
<1>1. c \in Calls
  BY DEF Calls
<1>2. call' = [call EXCEPT ![p] = c]
  BY DEF Query
<1> HIDE DEF c
<1>3. pc' \in [Procs -> Steps] /\ pc'[p] = "asking" /\ Others(p)
  BY GotoType, StepsType DEF Query
<1>4. steady' \in [Procs -> SUBSET Runs] /\ alone' \subseteq Procs
  BY DEF Query, TypeOK, Whole
<1>5. call' \in [Procs -> Calls] /\ \A q \in Procs \ {p} : call'[q] = call[q]
  BY <1>1, <1>2 DEF TypeOK
<1>6. UNCHANGED <<dirs, tmp, db, crossed, found, result>>
  BY DEF Query, files
<1>7. TypeOK'
  BY <1>3, <1>4, <1>5, <1>6 DEF TypeOK
<1> QED
  BY <1>3, <1>5, <1>7

LEMMA TypeStep == TypeOK /\ [Next]_vars => TypeOK'
<1> SUFFICES ASSUME TypeOK, [Next]_vars PROVE TypeOK'
  OBVIOUS
<1>1. CASE UNCHANGED vars
  BY <1>1 DEF vars, files, TypeOK
<1>2. ASSUME NEW r \in Runs, BeginIndex(r) \/ \E how \in {"whole", "torn"} : EndIndex(r, how)
      PROVE  TypeOK'
  BY <1>2 DEF BeginIndex, EndIndex, TypeOK, files
<1>3. ASSUME NEW p \in Readers, List(p) \/ \E r \in Runs : Get(p, r) PROVE TypeOK'
  <2>1. AnyRun \in Runs /\ p \in Procs
    BY IndexAssumption DEF AnyRun, Procs
  <2> QED
    BY <1>3, <2>1, QueryTypes DEF List, Get
<1>4. ASSUME NEW p \in Rebuilders, RunRebuild(p) PROVE TypeOK'
  BY <1>4, GotoType, StepsType DEF RunRebuild, TypeOK, Procs, Whole, files
<1>5. ASSUME NEW p \in Procs, Missing(p) PROVE TypeOK'
  BY <1>5, GotoType, StepsType, EnterType DEF Missing, TypeOK, files
<1>6. ASSUME NEW p \in Procs, Select(p) PROVE TypeOK'
  <2>1. db.rows \subseteq Runs /\ Answer(call[p], db.rows) \subseteq Runs
    BY DEF TypeOK, Files, Answer
  <2>2. result' \in [Procs -> SUBSET Runs] /\ pc' \in [Procs -> Steps]
    BY <1>6, <2>1, GotoType, StepsType DEF Select, TypeOK
  <2> QED
    BY <1>6, <2>2 DEF Select, TypeOK, files
<1>7. ASSUME NEW p \in Procs, SelectFails(p) PROVE TypeOK'
  <2>1. call[p] \in Calls /\ [call[p] EXCEPT !.again = TRUE] \in Calls
    BY DEF TypeOK, Calls
  <2>2. pc' \in [Procs -> Steps] /\ alone' \subseteq Procs
    BY <1>7, GotoType, StepsType, EnterType DEF SelectFails, TypeOK
  <2>3. call' \in [Procs -> Calls]
    BY <1>7, <2>1 DEF SelectFails, TypeOK
  <2> QED
    BY <1>7, <2>2, <2>3 DEF SelectFails, TypeOK, files
<1>8. ASSUME NEW p \in Procs, ScanInstead(p) PROVE TypeOK'
  <2>1. Answer(call[p], Whole) \subseteq Runs
    BY DEF Answer, Whole
  <2> QED
    BY <1>8, <2>1, GotoType, StepsType DEF ScanInstead, TypeOK, files
<1>9. ASSUME NEW p \in Procs, CheckTmp(p) PROVE TypeOK'
  BY <1>9, GotoType, StepsType DEF CheckTmp, TypeOK, files
<1>10. ASSUME NEW p \in Procs, UnlinkFails(p) \/ ReplaceFails(p) PROVE TypeOK'
  BY <1>10, RaisesType DEF UnlinkFails, ReplaceFails, TypeOK, files
<1>11. ASSUME NEW p \in Procs, Scan(p) PROVE TypeOK'
  BY <1>11, GotoType, StepsType DEF Scan, TypeOK, Whole, files
<1>12. ASSUME NEW p \in Procs, UnlinkTmp(p) PROVE TypeOK'
  <2>1. NoFile \in Files /\ tmp.open \subseteq Procs
    BY DEF NoFile, Files, TypeOK
  <2> QED
    BY <1>12, <2>1, GotoType, StepsType DEF UnlinkTmp, TypeOK
<1>13. ASSUME NEW p \in Procs, OpenTmp(p) PROVE TypeOK'
  <2>1. pc' \in [Procs -> Steps]
    BY <1>13, GotoType, StepsType DEF OpenTmp
  <2> QED
    BY <1>13, <2>1, OpenTypes DEF OpenTmp, TypeOK
<1>14. ASSUME NEW p \in Procs, CloseTmp(p) PROVE TypeOK'
  <2>1. tmp' \in Files /\ db' \in Files
    BY <1>14, OutcomesType DEF CloseTmp, TypeOK
  <2> QED
    BY <1>14, <2>1, GotoType, StepsType DEF CloseTmp, TypeOK
<1>15. ASSUME NEW p \in Procs, FillFails(p) PROVE TypeOK'
  <2>1. tmp' \in Files /\ db' \in Files
    BY <1>15, FileType DEF FillFails, TypeOK
  <2> QED
    BY <1>15, <2>1, RaisesType DEF FillFails, TypeOK
<1>16. ASSUME NEW p \in Procs, Kill(p) PROVE TypeOK'
  <2>1. tmp' \in Files /\ db' \in Files
    BY <1>16, FileType DEF Kill, TypeOK
  <2> QED
    BY <1>16, <2>1, GotoType, StepsType DEF Kill, TypeOK
<1>17. ASSUME NEW p \in Procs, Replace(p) PROVE TypeOK'
  <2>1. NoFile \in Files /\ tmp.open \subseteq Procs
    BY DEF NoFile, Files, TypeOK
  <2> QED
    BY <1>17, <2>1, GotoType, StepsType DEF Replace, TypeOK
<1> QED
  BY <1>1, <1>2, <1>3, <1>4, <1>5, <1>6, <1>7, <1>8, <1>9, <1>10, <1>11, <1>12, <1>13, <1>14,
     <1>15, <1>16, <1>17 DEF Next, QueryStep, RebuildStep

\* Every variable of the index and of its callers stays in its type.
THEOREM TypeCorrect == Spec => []TypeOK
  BY InitTypes, TypeStep, PTL DEF Spec

-----------------------------------------------------------------------------
\* A run that was whole since a call began is whole.
Steady == \A p \in Procs : steady[p] \subseteq Whole

\* No step of a process but a daily run's changes the directories, and a call
\* that begins sees those that are whole.
LEMMA SteadyStays == ASSUME TypeOK, Steady, [Next]_vars PROVE Steady'
<1>1. ASSUME NEW r \in Runs, BeginIndex(r) PROVE Steady'
  BY <1>1 DEF BeginIndex, Steady, Whole, TypeOK
<1>2. ASSUME NEW r \in Runs, NEW how, EndIndex(r, how) PROVE Steady'
  BY <1>2 DEF EndIndex, Steady, Whole, TypeOK
<1>3. ASSUME UNCHANGED <<dirs, steady>> PROVE Steady'
  BY <1>3 DEF Steady, Whole
<1>4. ASSUME NEW p \in Procs, NEW op, NEW r, Query(p, op, r) PROVE Steady'
  BY <1>4 DEF Query, Steady, Whole, TypeOK
<1>5. ASSUME NEW p \in Procs, RunRebuild(p) PROVE Steady'
  BY <1>5 DEF RunRebuild, Steady, Whole, TypeOK
<1>6. ASSUME NEW p \in Procs, QueryStep(p) \/ RebuildStep(p) \/ Kill(p) PROVE UNCHANGED <<dirs, steady>>
  BY <1>6 DEF QueryStep, RebuildStep, Missing, Select, SelectFails, ScanInstead, CheckTmp,
     UnlinkTmp, UnlinkFails, Scan, OpenTmp, CloseTmp, FillFails, Replace, ReplaceFails, Kill
<1> QED
  BY <1>1, <1>2, <1>3, <1>4, <1>5, <1>6 DEF Next, vars, List, Get, Procs

-----------------------------------------------------------------------------
\* A step of a process outside a rebuild: it leaves the files alone, and when
\* it begins to rebuild, whoever is rebuilding is not alone any more.
Outside(p) ==
    /\ pc[p] \notin Rebuilding /\ pc'[p] \in {"asking", "falling", "done", "checking"}
    /\ Others(p) /\ UNCHANGED files
    /\ alone' \ {p} \subseteq alone
    /\ pc'[p] = "checking" =>
          /\ \A a \in alone' \ {p} : pc[a] \notin Rebuilding
          /\ p \in alone' => \A q \in Procs \ {p} : pc[q] \notin Rebuilding

\* A step of a process within a rebuild.
Within(p) == pc[p] \in Rebuilding /\ Others(p) /\ alone' \subseteq alone

LEMMA EnterShape ==
  ASSUME TypeOK, NEW p \in Procs, EnterRebuild(p)
  PROVE  /\ alone' \subseteq alone
         /\ \A a \in alone' \ {p} : pc[a] \notin Rebuilding
         /\ p \in alone' => \A q \in Procs \ {p} : pc[q] \notin Rebuilding
<1> DEFINE others == {q \in Procs \ {p} : pc[q] \in Rebuilding}
<1>1. alone' = IF others = {} THEN alone ELSE alone \ (others \cup {p})
  BY DEF EnterRebuild
<1>2. alone \subseteq Procs
  BY DEF TypeOK
<1> QED
  BY <1>1, <1>2

LEMMA QueryShape ==
  ASSUME TypeOK, NEW p \in Procs, QueryStep(p)
  PROVE  Outside(p) /\ UNCHANGED <<dirs, steady>>
<1>1. CASE Missing(p)
  BY <1>1, GotoType, StepsType, EnterShape DEF Missing, Outside, Rebuilding
<1>2. CASE Select(p)
  BY <1>2, GotoType, StepsType DEF Select, Outside, Rebuilding
<1>3. CASE SelectFails(p)
  BY <1>3, GotoType, StepsType, EnterShape DEF SelectFails, Outside, Rebuilding
<1>4. CASE ScanInstead(p)
  BY <1>4, GotoType, StepsType DEF ScanInstead, Outside, Rebuilding
<1> QED
  BY <1>1, <1>2, <1>3, <1>4 DEF QueryStep

LEMMA CallShape ==
  ASSUME TypeOK, NEW p \in Procs,
         RunRebuild(p) \/ \E op \in {"list", "get"}, r \in Runs : Query(p, op, r)
  PROVE  Outside(p)
<1>1. CASE RunRebuild(p)
  <2> DEFINE others == {q \in Procs \ {p} : pc[q] \in Rebuilding}
  <2>1. /\ alone' = IF others = {} THEN alone \cup {p} ELSE alone \ (others \cup {p})
        /\ pc[p] \in {"idle", "done", "raised"} /\ UNCHANGED files
    BY <1>1 DEF RunRebuild
  <2>2. pc'[p] = "checking" /\ Others(p)
    BY <1>1, GotoType, StepsType DEF RunRebuild
  <2>3. alone \subseteq Procs
    BY DEF TypeOK
  <2> QED
    BY <2>1, <2>2, <2>3 DEF Outside, Rebuilding
<1>2. ASSUME NEW op \in {"list", "get"}, NEW r \in Runs, Query(p, op, r) PROVE Outside(p)
  BY <1>2, QueryTypes DEF Query, Outside, Rebuilding
<1> QED
  BY <1>1, <1>2

LEMMA RebuildShape ==
  ASSUME TypeOK, NEW p \in Procs, RebuildStep(p) \/ Kill(p)
  PROVE  Within(p)
<1>1. CASE CheckTmp(p) \/ UnlinkTmp(p) \/ Scan(p) \/ OpenTmp(p) \/ CloseTmp(p) \/ Replace(p) \/ Kill(p)
  <2>1. pc[p] \in Rebuilding /\ alone' = alone
    BY <1>1 DEF CheckTmp, UnlinkTmp, Scan, OpenTmp, CloseTmp, Replace, Kill, Rebuilding
  <2>2. \E step \in Steps : Goto(p, step)
    BY <1>1, StepsType DEF CheckTmp, UnlinkTmp, Scan, OpenTmp, CloseTmp, Replace, Kill
  <2> QED
    BY <2>1, <2>2, GotoType DEF Within
<1>2. CASE UnlinkFails(p) \/ FillFails(p) \/ ReplaceFails(p)
  BY <1>2, RaisesType DEF UnlinkFails, FillFails, ReplaceFails, Within, Rebuilding
<1> QED
  BY <1>1, <1>2 DEF RebuildStep

\* What a step of the specification is.
LEMMA Shapes ==
  ASSUME TypeOK, [Next]_vars
  PROVE  \/ UNCHANGED <<files, pc, alone>>
         \/ \E p \in Procs : Outside(p)
         \/ \E p \in Procs : Within(p) /\ (RebuildStep(p) \/ Kill(p))
<1>1. AnyRun \in Runs
  BY IndexAssumption DEF AnyRun
<1>2. ASSUME NEW r \in Runs, BeginIndex(r) \/ \E how \in {"whole", "torn"} : EndIndex(r, how)
      PROVE  UNCHANGED <<files, pc, alone>>
  BY <1>2 DEF BeginIndex, EndIndex
<1>3. ASSUME NEW p \in Readers, List(p) \/ \E r \in Runs : Get(p, r) PROVE Outside(p) /\ p \in Procs
  BY <1>1, <1>3, CallShape DEF List, Get, Procs
<1>4. ASSUME NEW p \in Rebuilders, RunRebuild(p) PROVE Outside(p) /\ p \in Procs
  BY <1>4, CallShape DEF Procs
<1> QED
  BY <1>2, <1>3, <1>4, QueryShape, RebuildShape DEF Next, vars

\* At most one process rebuilds while one that is alone does.
Solitude ==
    \A p \in alone, q \in Procs : pc[p] \in Rebuilding /\ pc[q] \in Rebuilding => q = p

LEMMA SolitudeStays == ASSUME TypeOK, Solitude, [Next]_vars PROVE Solitude'
<1>1. alone \subseteq Procs /\ alone' \subseteq Procs
  BY TypeStep DEF TypeOK
<1>2. ASSUME NEW p \in Procs, Outside(p) PROVE Solitude'
  <2> SUFFICES ASSUME NEW a \in alone', NEW q \in Procs,
                      pc'[a] \in Rebuilding, pc'[q] \in Rebuilding
               PROVE  q = a
    BY DEF Solitude
  <2>1. pc'[p] \in Rebuilding => pc'[p] = "checking"
    BY <1>2 DEF Outside, Rebuilding
  <2> QED
    BY <1>1, <1>2, <2>1 DEF Outside, Others, Solitude
<1>3. ASSUME NEW p \in Procs, Within(p) PROVE Solitude'
  BY <1>1, <1>3 DEF Within, Others, Solitude
<1> QED
  BY <1>2, <1>3, Shapes DEF Solitude

\* Only who is filling has a file open, and no process has both open.
OpenWhileFilling ==
    /\ \A p \in tmp.open \cup db.open : pc[p] = "filling"
    /\ tmp.open \cap db.open = {}

LEMMA OpenStays == ASSUME TypeOK, OpenWhileFilling, [Next]_vars PROVE OpenWhileFilling'
<1>1. tmp \in Files /\ db \in Files /\ tmp.open \subseteq Procs /\ db.open \subseteq Procs
  BY DEF TypeOK, Files
<1>2. ASSUME NEW p \in Procs, Others(p), UNCHANGED <<tmp, db>>, pc[p] # "filling"
      PROVE  OpenWhileFilling'
  BY <1>1, <1>2 DEF OpenWhileFilling, Others
<1>3. ASSUME NEW p \in Procs, Others(p), tmp'.open \subseteq tmp.open \ {p},
             db'.open \subseteq db.open \ {p}
      PROVE  OpenWhileFilling'
  BY <1>1, <1>3 DEF OpenWhileFilling, Others
<1>4. ASSUME NEW p \in Procs, Within(p), RebuildStep(p) \/ Kill(p) PROVE OpenWhileFilling'
  <2>1. CASE CheckTmp(p) \/ UnlinkFails(p) \/ Scan(p) \/ ReplaceFails(p)
    BY <1>2, <1>4, <2>1 DEF CheckTmp, UnlinkFails, Scan, ReplaceFails, Within, files
  <2>2. CASE UnlinkTmp(p)
    <3>1. tmp'.open = {} /\ db' = db /\ pc[p] = "unlinking"
      BY <2>2 DEF UnlinkTmp, NoFile
    <3> QED
      BY <1>1, <1>4, <3>1 DEF OpenWhileFilling, Within, Others
  <2>3. CASE OpenTmp(p)
    <3>1. pc[p] = "opening" /\ db' = db /\ Goto(p, "filling")
      BY <2>3 DEF OpenTmp
    <3>2. pc'[p] = "filling" /\ Others(p)
      BY <3>1, GotoType, StepsType
    <3>3. tmp'.open \subseteq tmp.open \cup {p}
      BY <2>3, OpenTypes
    <3> QED
      BY <1>1, <3>1, <3>2, <3>3 DEF OpenWhileFilling, Others
  <2>4. CASE CloseTmp(p)
    <3>1. /\ tmp'.open = tmp.open \ {p} \/ tmp' = tmp
          /\ db'.open = db.open \ {p} \/ db' = db
          /\ p \in tmp.open => tmp'.open = tmp.open \ {p} \/ p \in db.open
          /\ p \in db.open => db'.open = db.open \ {p} \/ p \in tmp.open
      BY <1>1, <2>4, OutcomesType DEF CloseTmp
    <3>2. tmp'.open = tmp.open \ {p} /\ db'.open = db.open \ {p}
      BY <3>1 DEF OpenWhileFilling
    <3> QED
      BY <1>3, <1>4, <3>2 DEF Within
  <2>5. CASE FillFails(p) \/ Kill(p)
    <3>1. tmp' = Left(p, tmp) /\ db' = Left(p, db)
      BY <2>5 DEF FillFails, Kill
    <3> QED
      BY <1>1, <1>3, <1>4, <3>1, FileType DEF Within
  <2>6. CASE Replace(p)
    <3>1. tmp'.open = {} /\ db' = tmp /\ pc[p] = "replacing"
      BY <2>6 DEF Replace, NoFile
    <3> QED
      BY <1>1, <1>4, <3>1 DEF OpenWhileFilling, Within, Others
  <2> QED
    BY <1>4, <2>1, <2>2, <2>3, <2>4, <2>5, <2>6 DEF RebuildStep
<1>5. ASSUME NEW p \in Procs, Outside(p) PROVE OpenWhileFilling'
  BY <1>2, <1>5 DEF Outside, files, Rebuilding
<1> QED
  BY <1>4, <1>5, Shapes DEF OpenWhileFilling, files

\* A rebuild that is alone finds what it left: the leftover it saw, the file it
\* opened, its own transaction in it.
Undisturbed ==
    \A p \in alone :
        /\ pc[p] = "unlinking" => tmp.is # "missing"
        /\ pc[p] = "filling" => p \in tmp.open /\ p \notin crossed /\ tmp.is # "missing"
        /\ pc[p] = "replacing" => tmp.is = "index"

LEMMA UndisturbedStays ==
  ASSUME TypeOK, Solitude, OpenWhileFilling, Undisturbed, [Next]_vars PROVE Undisturbed'
<1>1. alone \subseteq Procs /\ alone' \subseteq Procs /\ tmp \in Files /\ db \in Files
  BY TypeStep DEF TypeOK
<1>2. ASSUME NEW p \in Procs, Outside(p) PROVE Undisturbed'
  BY <1>1, <1>2 DEF Outside, Others, files, Undisturbed
<1>3. ASSUME NEW p \in Procs, Within(p), RebuildStep(p) \/ Kill(p) PROVE Undisturbed'
  <2>1. ASSUME NEW a \in alone' \ {p} PROVE pc'[a] \notin Rebuilding
    BY <1>1, <1>3, <2>1 DEF Within, Others, Solitude
  <2>2. ASSUME p \in alone', pc'[p] = "unlinking" PROVE tmp'.is # "missing"
    <3>1. CheckTmp(p)
      BY <1>3, <2>2, RaisesType, GotoType, StepsType DEF RebuildStep, UnlinkTmp, UnlinkFails, Scan,
         OpenTmp, CloseTmp, FillFails, Replace, ReplaceFails, Kill
    <3> QED
      BY <2>2, <3>1, GotoType, StepsType DEF CheckTmp, files
  <2>3. ASSUME p \in alone', pc'[p] = "filling"
        PROVE  p \in tmp'.open /\ p \notin crossed' /\ tmp'.is # "missing"
    <3>1. OpenTmp(p)
      BY <1>3, <2>3, RaisesType, GotoType, StepsType DEF RebuildStep, UnlinkTmp, UnlinkFails, Scan,
         CheckTmp, CloseTmp, FillFails, Replace, ReplaceFails, Kill
    <3>2. \A q \in Procs \ {p} : pc[q] # "filling"
      BY <1>1, <1>3, <2>3 DEF Within, Solitude, Rebuilding
    <3> QED
      BY <3>1, <3>2, OpenTypes
  <2>4. ASSUME p \in alone', pc'[p] = "replacing" PROVE tmp'.is = "index"
    <3>1. CloseTmp(p)
      BY <1>3, <2>4, RaisesType, GotoType, StepsType DEF RebuildStep, UnlinkTmp, UnlinkFails, Scan,
         CheckTmp, OpenTmp, FillFails, Replace, ReplaceFails, Kill
    <3>2. p \in tmp.open /\ p \notin crossed /\ p \notin db.open
      BY <1>3, <2>4, <3>1 DEF Within, Undisturbed, CloseTmp, OpenWhileFilling
    <3> QED
      BY <1>1, <3>1, <3>2, OutcomesType DEF CloseTmp
  <2> QED
    BY <2>1, <2>2, <2>3, <2>4 DEF Undisturbed, Rebuilding
<1> QED
  BY <1>2, <1>3, Shapes DEF Undisturbed, files

-----------------------------------------------------------------------------
\* What a call keeps of process q while others, or daily runs, go on.
Keeps(q) ==
    /\ pc'[q] = pc[q] /\ result'[q] = result[q]
    /\ call'[q].op = call[q].op /\ call'[q].run = call[q].run
    /\ steady'[q] \subseteq steady[q]

\* The call of p itself is on its way to an answer, or has the right one.
Answers(p) ==
    pc'[p] = "done" /\ call'[p].op = "get" /\ call'[p].run \in steady'[p]
        => result'[p] = {call'[p].run}

LEMMA AgainType ==
  ASSUME TypeOK, NEW p \in Procs, call' = [call EXCEPT ![p].again = TRUE]
  PROVE  \A q \in Procs : call'[q].op = call[q].op /\ call'[q].run = call[q].run
<1>1. call[p] \in Calls
  BY DEF TypeOK
<1> QED
  BY <1>1 DEF TypeOK, Calls

LEMMA QueryAnswers ==
  ASSUME TypeOK, Steady, NEW p \in Procs, QueryStep(p)
  PROVE  Answers(p) /\ \A q \in Procs \ {p} : Keeps(q)
<1>1. Others(p) /\ UNCHANGED <<dirs, steady>>
  BY QueryShape DEF Outside
<1>2. CASE Missing(p)
  BY <1>1, <1>2, GotoType, StepsType DEF Missing, Answers, Keeps, Others
<1>3. CASE Select(p)
  <2>1. CASE FallsBack(call[p], db.rows)
    BY <1>1, <1>3, <2>1, GotoType, StepsType DEF Select, Answers, Keeps, Others
  <2>2. CASE ~FallsBack(call[p], db.rows)
    <3>1. /\ result' = [result EXCEPT ![p] = Answer(call[p], db.rows)] /\ call' = call
      BY <1>3, <2>2 DEF Select
    <3>2. call[p].op = "get" => Answer(call[p], db.rows) = {call[p].run}
      BY <2>2 DEF FallsBack, Answer
    <3> QED
      BY <1>1, <3>1, <3>2 DEF Answers, Keeps, Others, TypeOK
  <2> QED
    BY <2>1, <2>2
<1>4. CASE SelectFails(p)
  <2>1. /\ \A q \in Procs : call'[q].op = call[q].op /\ call'[q].run = call[q].run
        /\ pc'[p] \in {"falling", "checking"} /\ result' = result
    BY <1>4, AgainType, GotoType, StepsType DEF SelectFails
  <2> QED
    BY <1>1, <2>1 DEF Answers, Keeps, Others
<1>5. CASE ScanInstead(p)
  <2>1. /\ result' = [result EXCEPT ![p] = Answer(call[p], Whole)] /\ call' = call
    BY <1>5 DEF ScanInstead
  <2>2. call[p].op = "get" /\ call[p].run \in steady[p] => Answer(call[p], Whole) = {call[p].run}
    BY DEF Steady, Answer
  <2> QED
    BY <1>1, <2>1, <2>2 DEF Answers, Keeps, Others, TypeOK
<1> QED
  BY <1>2, <1>3, <1>4, <1>5 DEF QueryStep

LEMMA RebuildAnswers ==
  ASSUME TypeOK, NEW p \in Procs, RebuildStep(p) \/ Kill(p)
  PROVE  Answers(p) /\ \A q \in Procs \ {p} : Keeps(q)
<1>1. Others(p) /\ UNCHANGED <<result, steady>>
  <2>1. UNCHANGED <<result, steady>>
    BY DEF RebuildStep, CheckTmp, UnlinkTmp, UnlinkFails, Scan, OpenTmp, CloseTmp, FillFails,
       Replace, ReplaceFails, Kill
  <2> QED
    BY <2>1, RebuildShape DEF Within
<1>2. CASE CheckTmp(p) \/ UnlinkTmp(p) \/ Scan(p) \/ OpenTmp(p) \/ CloseTmp(p) \/ Kill(p)
  BY <1>1, <1>2, GotoType, StepsType
     DEF CheckTmp, UnlinkTmp, Scan, OpenTmp, CloseTmp, Kill, Answers, Keeps, Others
<1>3. CASE UnlinkFails(p) \/ FillFails(p) \/ ReplaceFails(p)
  BY <1>1, <1>3, RaisesType
     DEF UnlinkFails, FillFails, ReplaceFails, Answers, Keeps, Others
<1>4. CASE Replace(p)
  BY <1>1, <1>4, GotoType, StepsType DEF Replace, Answers, Keeps, Others
<1> QED
  BY <1>2, <1>3, <1>4 DEF RebuildStep

LEMMA GetStaysRight ==
  ASSUME TypeOK, Steady, GetFindsWhole, [Next]_vars PROVE GetFindsWhole'
<1>1. Readers \subseteq Procs /\ Rebuilders \subseteq Procs /\ AnyRun \in Runs
  BY IndexAssumption DEF Procs, AnyRun
<1>2. ASSUME NEW p \in Procs, Answers(p), \A q \in Procs \ {p} : Keeps(q) PROVE GetFindsWhole'
  <2> SUFFICES ASSUME NEW q \in Readers, pc'[q] = "done", call'[q].op = "get",
                      call'[q].run \in steady'[q]
               PROVE  result'[q] = {call'[q].run}
    BY DEF GetFindsWhole
  <2> QED
    BY <1>1, <1>2 DEF Answers, Keeps, GetFindsWhole
<1>3. CASE \A q \in Procs : Keeps(q)
  BY <1>1, <1>3 DEF Keeps, GetFindsWhole
<1>4. ASSUME NEW r \in Runs, BeginIndex(r) \/ \E how \in {"whole", "torn"} : EndIndex(r, how)
      PROVE  \A q \in Procs : Keeps(q)
  BY <1>4 DEF BeginIndex, EndIndex, Keeps, TypeOK
<1>5. ASSUME NEW p \in Procs, NEW op \in {"list", "get"}, NEW r \in Runs, Query(p, op, r)
      PROVE  Answers(p) /\ \A q \in Procs \ {p} : Keeps(q)
  BY <1>5, QueryTypes DEF Query, Answers, Keeps, Others, TypeOK
<1>6. ASSUME NEW p \in Procs, RunRebuild(p)
      PROVE  Answers(p) /\ \A q \in Procs \ {p} : Keeps(q)
  BY <1>6, GotoType, StepsType DEF RunRebuild, Answers, Keeps, Others, TypeOK
<1>7. CASE UNCHANGED vars
  BY <1>3, <1>7 DEF vars, Keeps
<1> QED
  BY <1>1, <1>2, <1>3, <1>4, <1>5, <1>6, <1>7, QueryAnswers, RebuildAnswers
     DEF Next, List, Get

LEMMA AvailabilityStays ==
  ASSUME TypeOK, Undisturbed, AvailableWhenAlone, [Next]_vars PROVE AvailableWhenAlone'
<1>1. ASSUME NEW p \in Procs, Outside(p) PROVE AvailableWhenAlone'
  BY <1>1 DEF Outside, Others, AvailableWhenAlone
<1>2. ASSUME NEW p \in Procs, Within(p), RebuildStep(p) \/ Kill(p) PROVE AvailableWhenAlone'
  <2>1. ASSUME pc'[p] = "raised" PROVE p \notin alone
    <3>1. UnlinkFails(p) \/ FillFails(p) \/ ReplaceFails(p)
      BY <1>2, <2>1, GotoType, StepsType DEF RebuildStep, CheckTmp, UnlinkTmp, Scan,
         OpenTmp, CloseTmp, Replace, Kill
    <3> QED
      BY <3>1 DEF UnlinkFails, FillFails, ReplaceFails, Undisturbed
  <2> QED
    BY <1>2, <2>1 DEF Within, Others, AvailableWhenAlone
<1> QED
  BY <1>1, <1>2, Shapes DEF AvailableWhenAlone

LEMMA OverlapNeeded ==
  ASSUME TypeOK, OpenWhileFilling, Undisturbed, [Next]_vars, db'.is = "broken", db.is # "broken"
  PROVE  \E p \in Procs : pc[p] \in {"filling", "replacing"} /\ p \notin alone
<1>1. tmp \in Files /\ db \in Files
  BY DEF TypeOK
<1>2. ASSUME NEW p \in Procs, RebuildStep(p) \/ Kill(p)
      PROVE  pc[p] \in {"filling", "replacing"} /\ p \notin alone
  <2>1. CASE CheckTmp(p) \/ UnlinkTmp(p) \/ UnlinkFails(p) \/ Scan(p) \/ OpenTmp(p) \/ ReplaceFails(p)
    BY <2>1 DEF CheckTmp, UnlinkTmp, UnlinkFails, Scan, OpenTmp, ReplaceFails, files
  <2>2. CASE FillFails(p) \/ Kill(p)
    BY <1>1, <2>2, FileType DEF FillFails, Kill
  <2>3. CASE CloseTmp(p)
    <3>1. pc[p] = "filling" /\ db' # db
      BY <2>3 DEF CloseTmp
    <3>2. db' \in Outcomes(p, db) /\ p \in db.open
      BY <2>3, <3>1 DEF CloseTmp
    <3> QED
      BY <3>1, <3>2 DEF OpenWhileFilling, Undisturbed
  <2>4. CASE Replace(p)
    BY <2>4 DEF Replace, Undisturbed
  <2> QED
    BY <1>2, <2>1, <2>2, <2>3, <2>4 DEF RebuildStep
<1>3. ASSUME NEW p \in Procs, Outside(p) PROVE FALSE
  BY <1>3 DEF Outside, files
<1> QED
  BY <1>2, <1>3, Shapes DEF files

IndexInv ==
    /\ TypeOK /\ Steady /\ GetFindsWhole
    /\ Solitude /\ OpenWhileFilling /\ Undisturbed /\ AvailableWhenAlone

\* What was there since a call began, who rebuilds alone, and what such a rebuild
\* finds of its own: the invariant from which the other theorems follow.
THEOREM IndexAlways == Spec => []IndexInv
<1>1. Init => IndexInv
  <2> SUFFICES ASSUME Init PROVE IndexInv
    OBVIOUS
  <2>1. TypeOK
    BY InitTypes
  <2>2. Solitude /\ Undisturbed /\ AvailableWhenAlone
    BY DEF Init, Solitude, Undisturbed, AvailableWhenAlone, Rebuilding
  <2>3. Steady /\ GetFindsWhole /\ OpenWhileFilling
    BY DEF Init, Steady, GetFindsWhole, OpenWhileFilling, NoFile, Procs
  <2> QED
    BY <2>1, <2>2, <2>3 DEF IndexInv
<1>2. IndexInv /\ [Next]_vars => IndexInv'
  BY TypeStep, SteadyStays, GetStaysRight, SolitudeStays, OpenStays, UndisturbedStays,
     AvailabilityStays DEF IndexInv
<1> QED
  BY <1>1, <1>2, PTL DEF Spec

\* However old the index is, and whatever rebuilds are killed or overlap:
\* get_run finds a run that was there from the beginning of the call.
THEOREM GetFinds == Spec => []GetFindsWhole
  BY IndexAlways, PTL DEF IndexInv

\* A query raises only if its rebuild met another one.
THEOREM AvailableAlone == Spec => []AvailableWhenAlone
  BY IndexAlways, PTL DEF IndexInv

\* The index that readers see turns into one without its table only while two
\* rebuilds overlap.
THEOREM BrokenOnlyByOverlap == Spec => PartialNeedsOverlap
<1>1. IndexInv /\ [Next]_vars
      => [db'.is = "broken" /\ db.is # "broken" =>
             \E p \in Procs : pc[p] \in {"filling", "replacing"} /\ p \notin alone]_vars
  BY OverlapNeeded DEF IndexInv
<1> QED
  BY <1>1, IndexAlways, PTL DEF Spec, PartialNeedsOverlap
=============================================================================
