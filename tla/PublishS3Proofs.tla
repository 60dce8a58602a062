-------------------------- MODULE PublishS3Proofs --------------------------
(***************************************************************************)
(* What publish_s3.py keeps for any number of keys, artifacts, runs and    *)
(* operators, whatever fails: types, pointers that name whole runs, and    *)
(* the promise of Catalog.                                                 *)
(***************************************************************************)
EXTENDS PublishS3, TLAPS

\* Where a publisher is, as far as its local variables tell.
AtLine(p) ==
    /\ pc[p] = "score" => p = Daily
    /\ pc[p] \notin {"idle", "score"} => report[job[p].run] # None
    /\ pc[p] \in {"pointer", "legacy"} => job[p].target \in Pointers

\* Reports are written in order, each once its run has been scored.
InOrder ==
    /\ pc[Daily] # "idle" => run \in Runs /\ job[Daily].run = run
    /\ pc[Daily] = "score" => report[run] = None
    /\ \A r \in Runs : report[r] # None => r <= run

Control == InOrder /\ \A p \in Publishers : AtLine(p)

TypeInv == TypeOK /\ Control

LEMMA JobFields ==
  ASSUME TypeInv, NEW p \in Publishers, pc[p] # "idle"
  PROVE  job[p] \in Job
  BY DEF TypeInv, TypeOK

LEMMA NewJobType ==
  ASSUME NEW r \in Runs, NEW keys \in SUBSET Keys, NEW todo \in SUBSET Artifacts,
         NEW b \in BOOLEAN
  PROVE  NewJob(r, keys, todo, b) \in Job
  BY DEF NewJob, Job, Results

LEMMA FilesType ==
  ASSUME TypeInv, NEW r \in Runs, report[r] # None
  PROVE  /\ report[r] \in Report
         /\ report[r].files \in SUBSET Artifacts
  BY DEF TypeInv, TypeOK, Report

LEMMA InitTypes == ASSUME Init PROVE TypeInv
<1> USE PublishAssumption, NoneAssumption DEF PublishAssumption, Init
<1>1. /\ disk \in [Artifacts -> 0 .. MaxRun] /\ run \in 0 .. MaxRun /\ byHand \in 0 .. MaxByHand
      /\ objects \in [Runs -> [Names -> 0 .. MaxRun]] /\ latest \in [Artifacts -> 0 .. MaxRun]
      /\ pointer \in [Pointers -> 0 .. MaxRun] /\ legacy \in [Pointers -> 0 .. MaxRun]
  BY DEF Runs
<1>2. /\ report \in [Runs -> {None} \cup Report] /\ job \in [Publishers -> {None} \cup Job]
      /\ pc \in [Publishers -> Lines] /\ \A p \in Publishers : pc[p] = "idle" <=> job[p] = None
  BY DEF Lines
<1>3. Daily \in Publishers
  BY DEF Publishers
<1> QED
  BY <1>1, <1>2, <1>3 DEF TypeInv, TypeOK, Control, InOrder, AtLine

\* A publisher that leaves line by line with a job of the right type.
LEMMA JobStep ==
  ASSUME TypeInv, NEW p \in Publishers, NEW j \in Job, NEW line \in Lines \ {"idle"},
         job' = [job EXCEPT ![p] = j], Goto(p, line)
  PROVE  /\ pc' \in [Publishers -> Lines]
         /\ job' \in [Publishers -> {None} \cup Job]
         /\ \A q \in Publishers : pc'[q] = "idle" <=> job'[q] = None
         /\ pc'[p] = line /\ job'[p] = j
         /\ \A q \in Publishers \ {p} : pc'[q] = pc[q] /\ job'[q] = job[q]
  BY NoneAssumption DEF TypeInv, TypeOK, Goto

LEMMA ExitStep ==
  ASSUME TypeInv, NEW p \in Publishers, Exits(p)
  PROVE  /\ pc' \in [Publishers -> Lines]
         /\ job' \in [Publishers -> {None} \cup Job]
         /\ \A q \in Publishers : pc'[q] = "idle" <=> job'[q] = None
         /\ pc'[p] = "idle"
         /\ \A q \in Publishers \ {p} : pc'[q] = pc[q] /\ job'[q] = job[q]
  BY DEF TypeInv, TypeOK, Exits, Goto, Lines

\* The others stay where they are.
LEMMA OthersAtLine ==
  ASSUME TypeInv, NEW p \in Publishers,
         \A q \in Publishers \ {p} : pc'[q] = pc[q] /\ job'[q] = job[q],
         \A r \in Runs : report[r] # None => report'[r] # None
  PROVE  \A q \in Publishers \ {p} : AtLine(q)'
<1> SUFFICES ASSUME NEW q \in Publishers \ {p} PROVE AtLine(q)'
  OBVIOUS
<1>1. AtLine(q) /\ pc'[q] = pc[q] /\ job'[q] = job[q]
  BY DEF TypeInv, Control
<1>2. CASE pc[q] \in {"idle", "score"}
  BY <1>1, <1>2 DEF AtLine
<1>3. CASE pc[q] \notin {"idle", "score"}
  <2>1. job[q] \in Job
    BY <1>3, JobFields
  <2>2. job[q].run \in Runs
    BY <2>1 DEF Job
  <2> QED
    BY <1>1, <1>3, <2>2 DEF AtLine
<1> QED
  BY <1>2, <1>3

\* The rest of the state is typed one group of actions at a time.
LEMMA DailyTypes == ASSUME TypeInv, DailySteps PROVE TypeInv'
<1> USE PublishAssumption DEF PublishAssumption
<1>0. Daily \in Publishers
  BY DEF Publishers
<1>1. CASE StartRun
  <2>1. PICK keys \in SUBSET Keys \ {{}} :
            job' = [job EXCEPT ![Daily] = NewJob(run + 1, keys, ArtifactsOf(keys), FALSE)]
    BY <1>1 DEF StartRun
  <2>2. run + 1 \in Runs /\ ArtifactsOf(keys) \in SUBSET Artifacts
    BY <1>1 DEF StartRun, TypeInv, TypeOK, Runs, ArtifactsOf
  <2>3. NewJob(run + 1, keys, ArtifactsOf(keys), FALSE) \in Job
    BY <2>2, NewJobType
  <2>4. NewJob(run + 1, keys, ArtifactsOf(keys), FALSE).run = run + 1
    BY DEF NewJob
  <2>5. report[run + 1] = None
    BY <2>2 DEF TypeInv, TypeOK, Control, InOrder, Runs
  <2>6. "score" \in Lines \ {"idle"}
    BY DEF Lines
  <2> DEFINE j == NewJob(run + 1, keys, ArtifactsOf(keys), FALSE)
  <2>7. /\ pc' \in [Publishers -> Lines] /\ job' \in [Publishers -> {None} \cup Job]
        /\ \A q \in Publishers : pc'[q] = "idle" <=> job'[q] = None
        /\ pc'[Daily] = "score" /\ job'[Daily] = j
        /\ \A q \in Publishers \ {Daily} : pc'[q] = pc[q] /\ job'[q] = job[q]
    BY ZenonT(60), <1>0, <1>1, <2>1, <2>3, <2>6, JobStep DEF StartRun
  <2> HIDE DEF j
  <2>8. run' = run + 1 /\ exit' = None /\ UNCHANGED <<disk, report, byHand, objects, latest, pointer, legacy>>
    BY <1>1 DEF StartRun, bucket
  <2>9. TypeOK'
    BY <2>2, <2>7, <2>8 DEF TypeInv, TypeOK, Runs
  <2>10. j.run = run + 1
    BY <2>4 DEF j
  <2>11. InOrder'
    BY <2>2, <2>5, <2>7, <2>8, <2>10 DEF TypeInv, TypeOK, Control, InOrder, Runs
  <2>12. AtLine(Daily)'
    BY <2>7 DEF AtLine
  <2>13. \A q \in Publishers \ {Daily} : AtLine(q)'
    BY <1>0, <2>7, <2>8, OthersAtLine
  <2> QED
    BY <2>9, <2>11, <2>12, <2>13 DEF TypeInv, Control
<1>2. CASE WriteOutput
  <2>1. PICK a \in job[Daily].todo : /\ disk' = [disk EXCEPT ![a] = run]
                                     /\ job' = [job EXCEPT ![Daily].todo = @ \ {a}]
    BY <1>2 DEF WriteOutput
  <2>2. job[Daily] \in Job /\ pc[Daily] = "score"
    BY <1>0, <1>2, JobFields DEF WriteOutput
  <2> DEFINE j == [job[Daily] EXCEPT !.todo = @ \ {a}]
  <2>3. j \in Job
    BY <2>2 DEF Job
  <2>10. j.run = job[Daily].run
    BY <2>2 DEF Job
  <2>4. job' = [job EXCEPT ![Daily] = j]
    BY <2>1
  <2>8. Goto(Daily, "score")
    BY <1>0, <1>2, <2>2 DEF WriteOutput, Goto, TypeInv, TypeOK
  <2>12. "score" \in Lines \ {"idle"}
    BY DEF Lines
  <2> HIDE DEF j
  <2>5. /\ pc' \in [Publishers -> Lines] /\ job' \in [Publishers -> {None} \cup Job]
        /\ \A q \in Publishers : pc'[q] = "idle" <=> job'[q] = None
        /\ pc'[Daily] = "score" /\ job'[Daily] = j
        /\ \A q \in Publishers \ {Daily} : pc'[q] = pc[q] /\ job'[q] = job[q]
    BY <1>0, <2>3, <2>4, <2>8, <2>12, JobStep, ZenonT(60)
  <2>9. UNCHANGED <<report, run, byHand, objects, latest, pointer, legacy, exit>>
    BY <1>2 DEF WriteOutput, bucket
  <2>6. TypeOK'
    BY <2>1, <2>5, <2>9 DEF TypeInv, TypeOK
  <2>7. InOrder' /\ AtLine(Daily)'
    BY <2>2, <2>5, <2>9, <2>10 DEF TypeInv, Control, InOrder, AtLine
  <2>11. \A q \in Publishers \ {Daily} : AtLine(q)'
    BY <1>0, <2>5, <2>9, OthersAtLine
  <2> QED
    BY <2>6, <2>7, <2>11 DEF TypeInv, Control
<1>3. CASE Finalize \/ FinalizeError \/ ShortCircuit
  <2>1. \E status : WriteReport(status)
    <3>1. CASE Finalize
      BY <3>1, ZenonT(60) DEF Finalize
    <3>2. CASE FinalizeError
      BY <3>2, ZenonT(60) DEF FinalizeError
    <3>3. CASE ShortCircuit
      BY <3>3, ZenonT(60) DEF ShortCircuit
    <3> QED
      BY <1>3, <3>1, <3>2, <3>3
  <2>10. PICK status : WriteReport(status)
    BY <2>1
  <2>2. job[Daily] \in Job /\ pc[Daily] = "score" /\ job[Daily].run = run /\ run \in Runs
    BY <1>0, <1>3, JobFields DEF Finalize, FinalizeError, ShortCircuit, TypeInv, Control, InOrder
  <2> DEFINE written == [files |-> {a \in ArtifactsOf(job[Daily].keys) : disk[a] # 0},
                         sha |-> disk, success |-> status \in {"success", "short_circuit"}]
  <2>3. written \in Report
    BY DEF ArtifactsOf, Report, TypeInv, TypeOK
  <2>4. report' = [report EXCEPT ![run] = written]
    BY <2>10 DEF WriteReport
  <2>11. UNCHANGED <<disk, run, byHand, objects, latest, pointer, legacy>>
    BY <2>10 DEF WriteReport, bucket
  <2> HIDE DEF written
  <2>5. /\ report' \in [Runs -> {None} \cup Report]
        /\ report'[run] # None
        /\ \A r \in Runs : report[r] # None => report'[r] # None
        /\ \A r \in Runs : report'[r] # None => r <= run
    BY <2>2, <2>3, <2>4, NoneAssumption DEF TypeInv, TypeOK, Control, InOrder, Runs
  <2>6. CASE Finalize
    <3>1. PICK b \in BOOLEAN : job' = [job EXCEPT ![Daily].write_last_success = b]
      BY <2>6, ZenonT(60) DEF Finalize
    <3> DEFINE j == [job[Daily] EXCEPT !.write_last_success = b]
    <3>2. j \in Job
      BY <2>2 DEF Job
    <3>8. j.run = run
      BY <2>2 DEF Job
    <3>3. job' = [job EXCEPT ![Daily] = j]
      BY <3>1
    <3>7. Goto(Daily, "begin") /\ exit' = exit
      BY <2>6 DEF Finalize
    <3>10. "begin" \in Lines \ {"idle"}
      BY DEF Lines
    <3> HIDE DEF j
    <3>4. /\ pc' \in [Publishers -> Lines] /\ job' \in [Publishers -> {None} \cup Job]
          /\ \A q \in Publishers : pc'[q] = "idle" <=> job'[q] = None
          /\ pc'[Daily] = "begin" /\ job'[Daily] = j
          /\ \A q \in Publishers \ {Daily} : pc'[q] = pc[q] /\ job'[q] = job[q]
      BY <1>0, <3>2, <3>3, <3>7, <3>10, JobStep, ZenonT(60)
    <3>5. TypeOK'
      BY <2>5, <2>11, <3>4, <3>7 DEF TypeInv, TypeOK
    <3>6. run' = run /\ job'[Daily].run = run
      BY <2>11, <3>4, <3>8
    <3>11. InOrder'
      BY <2>2, <2>5, <3>4, <3>6, ZenonT(60) DEF InOrder
    <3>12. AtLine(Daily)'
      BY <2>5, <3>4, <3>6 DEF AtLine
    <3>9. \A q \in Publishers \ {Daily} : AtLine(q)'
      BY <1>0, <2>5, <3>4, OthersAtLine
    <3> QED
      BY <3>5, <3>9, <3>11, <3>12 DEF TypeInv, Control
  <2>7. CASE FinalizeError \/ ShortCircuit
    <3>1. Exits(Daily) /\ exit' \in {None, "zero", "nonzero"}
      BY <2>7 DEF FinalizeError, ShortCircuit
    <3>2. /\ pc' \in [Publishers -> Lines] /\ job' \in [Publishers -> {None} \cup Job]
          /\ \A q \in Publishers : pc'[q] = "idle" <=> job'[q] = None
          /\ pc'[Daily] = "idle"
          /\ \A q \in Publishers \ {Daily} : pc'[q] = pc[q] /\ job'[q] = job[q]
      BY <1>0, <3>1, ExitStep
    <3>3. TypeOK'
      BY <2>5, <2>11, <3>1, <3>2 DEF TypeInv, TypeOK
    <3>4. run' = run
      BY <2>11
    <3>6. InOrder'
      BY <2>5, <3>2, <3>4, ZenonT(60) DEF InOrder
    <3>7. AtLine(Daily)'
      BY <3>2 DEF AtLine
    <3>5. \A q \in Publishers \ {Daily} : AtLine(q)'
      BY <1>0, <2>5, <3>2, OthersAtLine
    <3> QED
      BY <3>3, <3>5, <3>6, <3>7 DEF TypeInv, Control
  <2> QED
    BY <1>3, <2>6, <2>7
<1>4. CASE EndDaily
  <2>1. Exits(Daily) /\ pc[Daily] = "end"
    BY <1>4 DEF EndDaily
  <2>2. job[Daily].run = run /\ run \in Runs /\ report[run] # None
    BY <1>0, <2>1 DEF TypeInv, Control, InOrder, AtLine
  <2>3. report[run] \in Report
    BY <2>2, FilesType
  <2> DEFINE refused == [report[run] EXCEPT !.success = FALSE]
  <2>4. refused \in Report
    BY <2>3 DEF Report
  <2>5. report' = report \/ report' = [report EXCEPT ![run] = refused]
    BY <1>4 DEF EndDaily
  <2> HIDE DEF refused
  <2>6. report' \in [Runs -> {None} \cup Report]
        /\ \A r \in Runs : report'[r] = None <=> report[r] = None
    BY <2>2, <2>4, <2>5, NoneAssumption DEF TypeInv, TypeOK
  <2>7. /\ pc' \in [Publishers -> Lines] /\ job' \in [Publishers -> {None} \cup Job]
        /\ \A q \in Publishers : pc'[q] = "idle" <=> job'[q] = None
        /\ pc'[Daily] = "idle"
        /\ \A q \in Publishers \ {Daily} : pc'[q] = pc[q] /\ job'[q] = job[q]
    BY <1>0, <2>1, ExitStep
  <2>8. TypeOK'
    BY <1>4, <2>6, <2>7 DEF EndDaily, TypeInv, TypeOK, bucket
  <2>9. InOrder' /\ AtLine(Daily)'
    BY <1>4, <2>6, <2>7 DEF EndDaily, TypeInv, Control, InOrder, AtLine
  <2>10. \A q \in Publishers \ {Daily} : AtLine(q)'
    BY <1>0, <2>6, <2>7, OthersAtLine
  <2> QED
    BY <2>8, <2>9, <2>10 DEF TypeInv, Control
<1> QED
  BY <1>1, <1>2, <1>3, <1>4 DEF DailySteps

\* One line of publish_run: the job stays that of the same run.
LEMMA LineTypes ==
  ASSUME TypeInv, NEW p \in Publishers, NEW j \in Job, NEW line \in Lines \ {"idle", "score"},
         pc[p] \notin {"idle", "score"},
         job' = [job EXCEPT ![p] = j], j.run = job[p].run, Goto(p, line),
         line \in {"pointer", "legacy"} => j.target \in Pointers,
         UNCHANGED <<disk, report, run, byHand, exit>>,
         objects' \in [Runs -> [Names -> 0 .. MaxRun]], latest' \in [Artifacts -> 0 .. MaxRun],
         pointer' \in [Pointers -> 0 .. MaxRun], legacy' \in [Pointers -> 0 .. MaxRun]
  PROVE  TypeInv'
<1>1. line \in Lines \ {"idle"}
  OBVIOUS
<1>2. /\ pc' \in [Publishers -> Lines] /\ job' \in [Publishers -> {None} \cup Job]
      /\ \A q \in Publishers : pc'[q] = "idle" <=> job'[q] = None
      /\ pc'[p] = line /\ job'[p] = j
      /\ \A q \in Publishers \ {p} : pc'[q] = pc[q] /\ job'[q] = job[q]
  BY <1>1, JobStep, ZenonT(60)
<1>3. TypeOK'
  BY <1>2 DEF TypeInv, TypeOK
<1>4. AtLine(p)
  BY DEF TypeInv, Control
<1>5. AtLine(p)'
  BY <1>2, <1>4 DEF AtLine
<1>6. \A q \in Publishers \ {p} : AtLine(q)'
  BY <1>2, OthersAtLine
<1>8. Daily \in Publishers
  BY DEF Publishers
<1>9. pc'[Daily] # "idle" => pc[Daily] # "idle" /\ job'[Daily].run = job[Daily].run
  BY <1>2, <1>8
<1>10. pc'[Daily] = "score" => pc[Daily] = "score"
  BY <1>2, <1>8
<1>7. InOrder'
  BY <1>9, <1>10 DEF InOrder, TypeInv, Control
<1> QED
  BY <1>3, <1>5, <1>6, <1>7 DEF TypeInv, Control

\* A publisher that exits or dies: only its own line and job change.
LEMMA ExitTypes ==
  ASSUME TypeInv, NEW p \in Publishers, Exits(p),
         UNCHANGED <<disk, report, run, byHand, bucket, exit>>
  PROVE  TypeInv'
<1>1. /\ pc' \in [Publishers -> Lines] /\ job' \in [Publishers -> {None} \cup Job]
      /\ \A q \in Publishers : pc'[q] = "idle" <=> job'[q] = None
      /\ pc'[p] = "idle"
      /\ \A q \in Publishers \ {p} : pc'[q] = pc[q] /\ job'[q] = job[q]
  BY ExitStep
<1>2. TypeOK'
  BY <1>1 DEF TypeInv, TypeOK, bucket
<1>3. AtLine(p)'
  BY <1>1 DEF AtLine
<1>4. \A q \in Publishers \ {p} : AtLine(q)'
  BY <1>1, OthersAtLine
<1>6. Daily \in Publishers
  BY DEF Publishers
<1>7. pc'[Daily] # "idle" => pc'[Daily] = pc[Daily] /\ job'[Daily] = job[Daily]
  BY <1>1, <1>6
<1>5. InOrder'
  BY <1>7 DEF InOrder, TypeInv, Control
<1> QED
  BY <1>2, <1>3, <1>4, <1>5 DEF TypeInv, Control

LEMMA PublishTypes == ASSUME TypeInv, NEW p \in Publishers, Publish(p) PROVE TypeInv'
<1>1. CASE Crash(p)
  BY <1>1, ExitTypes DEF Crash
<1> SUFFICES ASSUME ~Crash(p) PROVE TypeInv'
  BY <1>1
<1>2. pc[p] \in {"begin", "runs", "latest", "pointer", "legacy"}
  BY DEF Publish, Begin, UploadRun, TurnToLatest, UploadLatest, UploadFails, TurnToPointers,
         PutPointer, PutLegacy, PutRefused, PutRaises
<1>3. job[p] \in Job
  BY <1>2, JobFields
<1>4. report[job[p].run] # None /\ Files(p) \in SUBSET Artifacts /\ job[p].run \in Runs
  <2>1. job[p].run \in Runs
    BY <1>3 DEF Job
  <2>2. report[job[p].run] # None
    BY <1>2 DEF TypeInv, Control, AtLine
  <2> QED
    BY <2>1, <2>2, FilesType DEF Files
<1>5. /\ objects \in [Runs -> [Names -> 0 .. MaxRun]] /\ latest \in [Artifacts -> 0 .. MaxRun]
      /\ pointer \in [Pointers -> 0 .. MaxRun] /\ legacy \in [Pointers -> 0 .. MaxRun]
      /\ job \in [Publishers -> {None} \cup Job]
  BY DEF TypeInv, TypeOK
<1>6. \A line \in {"begin", "runs", "latest", "pointer", "legacy", "end"} :
         line \in Lines \ {"idle", "score"}
  BY DEF Lines
<1>7. ASSUME NEW todo \in SUBSET Artifacts PROVE [job[p] EXCEPT !.todo = todo] \in Job
  BY <1>3 DEF Job
<1>8. CASE \E fails \in BOOLEAN : Begin(p, fails)
  <2>1. CASE Goto(p, "end") /\ UNCHANGED job
    <3>1. job' = [job EXCEPT ![p] = job[p]]
      BY <1>5, <2>1
    <3> QED
      BY <1>2, <1>3, <1>5, <1>6, <1>8, <2>1, <3>1, LineTypes DEF Begin, bucket
  <2>2. CASE Goto(p, "runs") /\ job' = [job EXCEPT ![p].todo = Files(p)]
    <3> DEFINE j == [job[p] EXCEPT !.todo = Files(p)]
    <3>1. j \in Job
      BY <1>4, <1>7
    <3>2. j.run = job[p].run /\ job' = [job EXCEPT ![p] = j]
      BY <1>3, <2>2 DEF Job
    <3> HIDE DEF j
    <3> QED
      BY <1>2, <1>5, <1>6, <1>8, <2>2, <3>1, <3>2, LineTypes DEF Begin, bucket
  <2> QED
    BY <1>8, <2>1, <2>2 DEF Begin
<1>9. CASE UploadRun(p)
  <2>1. PICK a \in job[p].todo : /\ objects' = [objects EXCEPT ![job[p].run][a] = disk[a]]
                                 /\ job' = [job EXCEPT ![p].todo = @ \ {a}]
    BY <1>9 DEF UploadRun
  <2> DEFINE todo == job[p].todo \ {a}  j == [job[p] EXCEPT !.todo = todo]
  <2>2. a \in Artifacts /\ todo \in SUBSET Artifacts
    BY <1>3 DEF Job
  <2>3. j \in Job
    BY <1>7, <2>2
  <2>4. j.run = job[p].run /\ job' = [job EXCEPT ![p] = j]
    BY <1>3, <2>1 DEF Job
  <2>5. objects' \in [Runs -> [Names -> 0 .. MaxRun]]
    BY <1>4, <1>5, <2>1, <2>2 DEF Names, TypeInv, TypeOK
  <2> HIDE DEF j
  <2>6. Goto(p, "runs")
    BY <1>9 DEF UploadRun, Goto, TypeInv, TypeOK
  <2>7. UNCHANGED <<disk, report, run, byHand, latest, pointer, legacy, exit>> /\ pc[p] = "runs"
    BY <1>9 DEF UploadRun
  <2> QED
    BY <1>2, <1>5, <1>6, <2>3, <2>4, <2>5, <2>6, <2>7, LineTypes
<1>10. CASE TurnToLatest(p)
  <2> DEFINE j == [job[p] EXCEPT !.todo = Files(p) \cap ArtifactsOf(job[p].keys)]
  <2>1. j \in Job
    BY <1>4, <1>7
  <2>2. j.run = job[p].run /\ job' = [job EXCEPT ![p] = j]
    BY <1>3, <1>10 DEF Job, TurnToLatest
  <2> HIDE DEF j
  <2> QED
    BY <1>2, <1>5, <1>6, <1>10, <2>1, <2>2, LineTypes DEF TurnToLatest, bucket
<1>11. CASE UploadLatest(p)
  <2>1. PICK a \in job[p].todo : /\ latest' = [latest EXCEPT ![a] = job[p].run]
                                 /\ job' = [job EXCEPT ![p].todo = @ \ {a}]
    BY <1>11 DEF UploadLatest
  <2> DEFINE todo == job[p].todo \ {a}  j == [job[p] EXCEPT !.todo = todo]
  <2>2. a \in Artifacts /\ todo \in SUBSET Artifacts
    BY <1>3 DEF Job
  <2>3. j \in Job
    BY <1>7, <2>2
  <2>4. j.run = job[p].run /\ job' = [job EXCEPT ![p] = j]
    BY <1>3, <2>1 DEF Job
  <2>8. job[p].run \in 0 .. MaxRun
    BY <1>4, PublishAssumption DEF PublishAssumption, Runs
  <2>5. latest' \in [Artifacts -> 0 .. MaxRun]
    BY <1>5, <2>1, <2>8
  <2> HIDE DEF j
  <2>6. Goto(p, "latest")
    BY <1>11 DEF UploadLatest, Goto, TypeInv, TypeOK
  <2>7. UNCHANGED <<disk, report, run, byHand, objects, pointer, legacy, exit>> /\ pc[p] = "latest"
    BY <1>11 DEF UploadLatest
  <2> QED
    BY <1>2, <1>5, <1>6, <2>3, <2>4, <2>5, <2>6, <2>7, LineTypes
<1>12. CASE UploadFails(p) \/ PutRaises(p)
  <2>1. job' = [job EXCEPT ![p] = job[p]] /\ Goto(p, "end")
        /\ UNCHANGED <<disk, report, run, byHand, bucket, exit>>
    BY <1>5, <1>12 DEF UploadFails, PutRaises
  <2> QED
    BY <1>2, <1>3, <1>5, <1>6, <2>1, LineTypes DEF bucket
<1>13. CASE TurnToPointers(p)
  <2>1. UNCHANGED <<disk, report, run, byHand, bucket, exit>> /\ pc[p] = "latest"
    BY <1>13 DEF TurnToPointers
  <2>2. CASE job[p].write_last_success
    <3> DEFINE left == {key \in job[p].keys : \E a \in Files(p) : KeyOf[a] = key}
               j == [job[p] EXCEPT !.target = Global, !.keys_left = left]
    <3>1. left \in SUBSET Keys
      BY <1>3 DEF Job
    <3> HIDE DEF left
    <3>2. j \in Job
      BY <1>3, <3>1 DEF Job, Pointers
    <3>3. j.run = job[p].run /\ j.target = Global
      BY <1>3 DEF Job
    <3>4. job' = [job EXCEPT ![p] = j]
      BY <1>13, <2>2 DEF TurnToPointers, left
    <3> HIDE DEF j
    <3>5. Goto(p, "pointer") /\ Global \in Pointers
      BY <1>13, <2>2 DEF TurnToPointers, Pointers
    <3> QED
      BY <1>2, <1>5, <1>6, <2>1, <3>2, <3>3, <3>4, <3>5, LineTypes DEF bucket
  <2>3. CASE ~job[p].write_last_success
    <3> DEFINE j == [job[p] EXCEPT !.returned = TRUE]
    <3>1. j \in Job
      BY <1>3 DEF Job
    <3>2. j.run = job[p].run
      BY <1>3 DEF Job
    <3>3. job' = [job EXCEPT ![p] = j] /\ Goto(p, "end")
      BY <1>13, <2>3 DEF TurnToPointers
    <3> HIDE DEF j
    <3> QED
      BY <1>2, <1>5, <1>6, <2>1, <3>1, <3>2, <3>3, LineTypes DEF bucket
  <2> QED
    BY <2>2, <2>3
<1>14. CASE PutPointer(p)
  <2>1. job[p].target \in Pointers
    BY <1>14 DEF PutPointer, TypeInv, Control, AtLine
  <2>2. pointer' \in [Pointers -> 0 .. MaxRun]
    BY <1>4, <1>5, <1>14, <2>1, PublishAssumption DEF PublishAssumption, PutPointer, Runs
  <2>3. job' = [job EXCEPT ![p] = job[p]] /\ Goto(p, "legacy")
        /\ UNCHANGED <<disk, report, run, byHand, objects, latest, legacy, exit>>
    BY <1>5, <1>14 DEF PutPointer
  <2> QED
    BY <1>2, <1>3, <1>5, <1>6, <2>1, <2>2, <2>3, LineTypes
<1>15. CASE \E result \in {"ok", "error"} :
              /\ PointerDone(p, result)
              /\ pc[p] \in {"pointer", "legacy"}
              /\ UNCHANGED <<disk, report, run, byHand, objects, latest, pointer, exit>>
              /\ legacy' \in [Pointers -> 0 .. MaxRun]
  <2>1. PICK result \in {"ok", "error"} : PointerDone(p, result)
    BY <1>15
  <2>2. UNCHANGED <<disk, report, run, byHand, objects, latest, pointer, exit>>
        /\ legacy' \in [Pointers -> 0 .. MaxRun]
    BY <1>15
  <2> DEFINE done == [job[p] EXCEPT !.pointer_write[job[p].target] = result]
  <2>3. done \in Job
    BY <1>3 DEF Job, Results
  <2>4. done.run = job[p].run /\ done.keys_left = job[p].keys_left
    BY <1>3 DEF Job
  <2>5. \/ job' = [job EXCEPT ![p] = [done EXCEPT !.returned = TRUE]] /\ Goto(p, "end")
        \/ /\ \E key \in job[p].keys_left :
                 job' = [job EXCEPT ![p] = [done EXCEPT !.target = key, !.keys_left = @ \ {key}]]
           /\ Goto(p, "pointer")
    BY <2>1, ZenonT(60) DEF PointerDone
  <2> HIDE DEF done
  <2>6. CASE job' = [job EXCEPT ![p] = [done EXCEPT !.returned = TRUE]] /\ Goto(p, "end")
    <3> DEFINE j == [done EXCEPT !.returned = TRUE]
    <3>1. j \in Job /\ j.run = job[p].run
      BY <2>3, <2>4 DEF Job
    <3>2. job' = [job EXCEPT ![p] = j]
      BY <2>6
    <3> HIDE DEF j
    <3> QED
      BY <1>2, <1>5, <1>6, <2>2, <2>6, <3>1, <3>2, LineTypes
  <2>7. CASE /\ \E key \in job[p].keys_left :
                   job' = [job EXCEPT ![p] = [done EXCEPT !.target = key, !.keys_left = @ \ {key}]]
             /\ Goto(p, "pointer")
    <3>1. PICK key \in job[p].keys_left :
             job' = [job EXCEPT ![p] = [done EXCEPT !.target = key, !.keys_left = @ \ {key}]]
      BY <2>7
    <3> DEFINE j == [done EXCEPT !.target = key, !.keys_left = @ \ {key}]
    <3>2. key \in Pointers
      BY <1>3 DEF Job, Pointers
    <3>3. j \in Job /\ j.run = job[p].run /\ j.target = key
      BY <2>3, <2>4, <3>2 DEF Job
    <3>4. job' = [job EXCEPT ![p] = j]
      BY <3>1
    <3> HIDE DEF j
    <3> QED
      BY <1>2, <1>5, <1>6, <2>2, <2>7, <3>2, <3>3, <3>4, LineTypes
  <2> QED
    BY <2>5, <2>6, <2>7
<1>16. CASE PutLegacy(p)
  <2>1. job[p].target \in Pointers
    BY <1>16 DEF PutLegacy, TypeInv, Control, AtLine
  <2>2. legacy' \in [Pointers -> 0 .. MaxRun]
    BY <1>4, <1>5, <1>16, <2>1, PublishAssumption DEF PublishAssumption, PutLegacy, Runs
  <2> QED
    BY <1>15, <1>16, <2>2 DEF PutLegacy
<1>17. CASE PutRefused(p)
  BY <1>5, <1>15, <1>17 DEF PutRefused, bucket
<1> QED
  BY <1>8, <1>9, <1>10, <1>11, <1>12, <1>13, <1>14, <1>16, <1>17 DEF Publish

LEMMA ByHandTypes == ASSUME TypeInv, NEW p \in Operators, PublishByHand(p) PROVE TypeInv'
<1>1. p \in Publishers /\ Daily \in Publishers /\ p # Daily
  BY PublishAssumption DEF PublishAssumption, Publishers
<1>2. PICK r \in {s \in Runs : report[s] # None}, keys \in SUBSET Keys \ {{}} :
         job' = [job EXCEPT ![p] = NewJob(r, keys, {}, TRUE)]
  BY DEF PublishByHand
<1> DEFINE j == NewJob(r, keys, {}, TRUE)
<1>3. j \in Job /\ j.run = r
  BY NewJobType DEF NewJob
<1>4. job' = [job EXCEPT ![p] = j]
  BY <1>2
<1> HIDE DEF j
<1>5. Goto(p, "begin") /\ UNCHANGED <<disk, report, run, bucket, exit>>
  BY DEF PublishByHand
<1>6. "begin" \in Lines \ {"idle"}
  BY DEF Lines
<1>7. /\ pc' \in [Publishers -> Lines] /\ job' \in [Publishers -> {None} \cup Job]
      /\ \A q \in Publishers : pc'[q] = "idle" <=> job'[q] = None
      /\ pc'[p] = "begin" /\ job'[p] = j
      /\ \A q \in Publishers \ {p} : pc'[q] = pc[q] /\ job'[q] = job[q]
  BY <1>1, <1>3, <1>4, <1>5, <1>6, JobStep, ZenonT(60)
<1>8. byHand' \in 0 .. MaxByHand
  BY PublishAssumption DEF PublishAssumption, PublishByHand, TypeInv, TypeOK
<1>9. TypeOK'
  BY <1>5, <1>7, <1>8 DEF TypeInv, TypeOK, bucket
<1>10. AtLine(p)'
  BY <1>3, <1>5, <1>7 DEF AtLine
<1>11. \A q \in Publishers \ {p} : AtLine(q)'
  BY <1>1, <1>5, <1>7, OthersAtLine
<1>12. InOrder'
  BY <1>1, <1>5, <1>7 DEF InOrder, TypeInv, Control
<1> QED
  BY <1>9, <1>10, <1>11, <1>12 DEF TypeInv, Control

LEMMA TypeStep == TypeInv /\ [Next]_vars => TypeInv'
<1> SUFFICES ASSUME TypeInv, [Next]_vars PROVE TypeInv'
  OBVIOUS
<1>1. CASE UNCHANGED vars
  BY <1>1 DEF vars, bucket, TypeInv, TypeOK, Control, InOrder, AtLine
<1>2. ASSUME NEW p \in Operators, EndByHand(p) PROVE TypeInv'
  BY <1>2, ExitTypes DEF EndByHand, Publishers
<1> QED
  BY <1>1, <1>2, DailyTypes, PublishTypes, ByHandTypes DEF Next

\* Every variable of publish_s3.py and of its callers stays in its type.
THEOREM TypeCorrect == Spec => []TypeOK
<1>1. Spec => []TypeInv
  BY InitTypes, TypeStep, PTL DEF Spec
<1> QED
  BY <1>1, PTL DEF TypeInv

-----------------------------------------------------------------------------
\* What a publisher has already put in the bucket when it reaches a line.
Progress(p) ==
    /\ pc[p] = "runs" =>
          /\ Files(p) # {} /\ job[p].todo \subseteq Files(p)
          /\ \A a \in Files(p) \ job[p].todo : objects[job[p].run][a] # 0
    /\ pc[p] = "latest" => Uploaded(job[p].run) /\ job[p].todo \subseteq Files(p)
    /\ pc[p] \in {"pointer", "legacy"} => Uploaded(job[p].run)

\* A report names files that are there, so what is uploaded has a content.
FilesOnDisk ==
    \A r \in Runs : report[r] # None => \A a \in report[r].files : disk[a] # 0

Inv ==
    /\ TypeInv
    /\ FilesOnDisk
    /\ \A p \in Publishers : Progress(p)
    /\ PointersNameCompleteRuns
    /\ LatestIsBacked

\* No step empties a file, takes an object away or changes the files or the
\* hashes of a report.
Kept ==
    /\ \A a \in Artifacts : disk[a] # 0 => disk'[a] # 0
    /\ \A r \in Runs, a \in Artifacts : objects[r][a] # 0 => objects'[r][a] # 0
    /\ \A r \in Runs : report[r] # None =>
          /\ report'[r] # None
          /\ report'[r].files = report[r].files /\ report'[r].sha = report[r].sha

LEMMA KeptByNext == ASSUME Inv, [Next]_vars PROVE Kept
<1>0. TypeInv /\ TypeOK /\ Control
  BY DEF Inv, TypeInv
<1>1. CASE UNCHANGED <<disk, report, objects>>
  BY <1>1 DEF Kept
<1>2. CASE WriteOutput
  <2>1. PICK a \in job[Daily].todo : disk' = [disk EXCEPT ![a] = run]
    BY <1>2 DEF WriteOutput
  <2>2. run # 0 /\ UNCHANGED <<report, objects>>
    BY <1>0, <1>2 DEF WriteOutput, Control, InOrder, Runs, bucket
  <2> QED
    BY <1>0, <2>1, <2>2 DEF TypeOK, Kept
<1>3. ASSUME NEW status, WriteReport(status), pc[Daily] = "score" PROVE Kept
  <2>1. report[run] = None /\ UNCHANGED <<disk, objects>>
    BY <1>0, <1>3 DEF WriteReport, Control, InOrder, bucket
  <2>2. \A r \in Runs \ {run} : report'[r] = report[r]
    BY <1>0, <1>3 DEF WriteReport, TypeOK
  <2> QED
    BY <2>1, <2>2 DEF Kept
<1>4. CASE EndDaily
  <2>1. report[run] # None /\ run \in Runs /\ UNCHANGED <<disk, objects>>
    BY <1>0, <1>4 DEF EndDaily, Control, InOrder, AtLine, Publishers, bucket
  <2>2. report[run] \in Report
    BY <1>0, <2>1, FilesType
  <2> DEFINE refused == [report[run] EXCEPT !.success = FALSE]
  <2>3. refused \in Report /\ refused.files = report[run].files /\ refused.sha = report[run].sha
    BY <2>2 DEF Report
  <2>4. report' = report \/ report' = [report EXCEPT ![run] = refused]
    BY <1>4 DEF EndDaily
  <2> HIDE DEF refused
  <2> QED
    BY <1>0, <2>1, <2>3, <2>4, NoneAssumption DEF TypeOK, Kept
<1>5. ASSUME NEW p \in Publishers, UploadRun(p) PROVE Kept
  <2>1. PICK a \in job[p].todo : objects' = [objects EXCEPT ![job[p].run][a] = disk[a]]
    BY <1>5 DEF UploadRun
  <2>2. pc[p] = "runs" /\ UNCHANGED <<disk, report>>
    BY <1>5 DEF UploadRun
  <2>3. job[p] \in Job /\ report[job[p].run] # None /\ a \in Files(p)
    BY <1>0, <2>2, JobFields DEF Control, AtLine, Inv, Progress
  <2>4. job[p].run \in Runs /\ a \in Artifacts
    BY <2>3 DEF Job
  <2>5. disk[a] # 0
    BY <2>3, <2>4 DEF Inv, FilesOnDisk, Files
  <2> QED
    BY <1>0, <2>1, <2>2, <2>4, <2>5 DEF TypeOK, Kept, Names
<1>6. ASSUME NEW p \in Publishers, Publish(p), ~UploadRun(p) PROVE Kept
  BY <1>1, <1>6 DEF Publish, Begin, TurnToLatest, UploadLatest, UploadFails, TurnToPointers,
     PutPointer, PutLegacy, PutRefused, PutRaises, Crash, bucket
<1>7. ASSUME NEW p \in Operators, PublishByHand(p) \/ EndByHand(p) PROVE Kept
  BY <1>1, <1>7 DEF PublishByHand, EndByHand, bucket
<1>8. CASE StartRun \/ UNCHANGED vars
  BY <1>1, <1>8 DEF StartRun, vars, bucket
<1>9. CASE Finalize
  BY <1>3, <1>9 DEF Finalize
<1>10. CASE FinalizeError \/ ShortCircuit
  BY <1>3, <1>10 DEF FinalizeError, ShortCircuit
<1> QED
  BY <1>2, <1>4, <1>5, <1>6, <1>7, <1>8, <1>9, <1>10 DEF Next, DailySteps

\* So a whole run stays whole.
LEMMA WholeStaysWhole ==
  ASSUME TypeInv, Kept, NEW r \in Runs, Uploaded(r) PROVE Uploaded(r)'
<1>1. report[r] # None /\ report[r].files \in SUBSET Artifacts
  BY FilesType DEF Uploaded
<1> QED
  BY <1>1 DEF Uploaded, Kept

LEMMA FilesStayOnDisk == ASSUME Inv, [Next]_vars PROVE FilesOnDisk'
<1>0. TypeInv /\ TypeOK /\ Control /\ Kept
  BY KeptByNext DEF Inv, TypeInv
<1>1. ASSUME NEW r \in Runs, report[r] # None PROVE \A a \in report'[r].files : disk'[a] # 0
  <2>1. report'[r].files = report[r].files /\ report[r].files \in SUBSET Artifacts
    BY <1>0, <1>1, FilesType DEF Kept
  <2> QED
    BY <1>0, <1>1, <2>1 DEF Inv, FilesOnDisk, Kept
<1>2. ASSUME NEW status, WriteReport(status), pc[Daily] = "score" PROVE FilesOnDisk'
  <2>1. \A r \in Runs \ {run} : report'[r] = report[r]
    BY <1>0, <1>2 DEF WriteReport, TypeOK
  <2>2. run \in Runs => \A a \in report'[run].files : disk'[a] # 0
    BY <1>0, <1>2 DEF WriteReport, TypeOK
  <2>3. ASSUME NEW r \in Runs, report'[r] # None PROVE \A a \in report'[r].files : disk'[a] # 0
    <3>1. CASE r = run
      BY <2>2, <3>1
    <3>2. CASE r # run
      BY <1>1, <2>1, <2>3, <3>2
    <3> QED
      BY <3>1, <3>2
  <2> QED
    BY <2>3 DEF FilesOnDisk
<1>3. CASE \A r \in Runs : report'[r] # None => report[r] # None
  BY <1>1, <1>3 DEF FilesOnDisk
<1>4. CASE Finalize
  BY <1>2, <1>4 DEF Finalize
<1>5. CASE FinalizeError \/ ShortCircuit
  BY <1>2, <1>5 DEF FinalizeError, ShortCircuit
<1>6. CASE EndDaily
  <2>1. report[run] # None
    BY <1>0, <1>6 DEF EndDaily, Control, InOrder, AtLine, Publishers
  <2> QED
    BY <1>0, <1>3, <1>6, <2>1 DEF EndDaily, TypeOK
<1>7. CASE report' = report
  BY <1>3, <1>7
<1>8. ASSUME NEW p \in Publishers, Publish(p) PROVE report' = report
  BY <1>8 DEF Publish, Begin, UploadRun, TurnToLatest, UploadLatest, UploadFails,
     TurnToPointers, PutPointer, PutLegacy, PutRefused, PutRaises, Crash
<1>9. ASSUME NEW p \in Operators, PublishByHand(p) \/ EndByHand(p) PROVE report' = report
  BY <1>9 DEF PublishByHand, EndByHand
<1>10. CASE StartRun \/ WriteOutput \/ UNCHANGED vars
  BY <1>7, <1>10 DEF StartRun, WriteOutput, vars
<1> QED
  BY <1>4, <1>5, <1>6, <1>7, <1>8, <1>9, <1>10 DEF Next, DailySteps

\* The others are where they were, and what they uploaded is still there.
LEMMA OthersProgress ==
  ASSUME Inv, Kept, NEW p \in Publishers,
         \A q \in Publishers \ {p} : pc'[q] = pc[q] /\ job'[q] = job[q]
  PROVE  \A q \in Publishers \ {p} : Progress(q)'
<1> SUFFICES ASSUME NEW q \in Publishers \ {p} PROVE Progress(q)'
  OBVIOUS
<1>1. pc'[q] = pc[q] /\ job'[q] = job[q] /\ Progress(q) /\ TypeInv
  BY DEF Inv
<1>2. CASE pc[q] \notin {"runs", "latest", "pointer", "legacy"}
  BY <1>1, <1>2 DEF Progress
<1>3. CASE pc[q] \in {"runs", "latest", "pointer", "legacy"}
  <2>1. job[q] \in Job /\ report[job[q].run] # None
    BY <1>1, <1>3, JobFields DEF TypeInv, Control, AtLine
  <2>2. job[q].run \in Runs
    BY <2>1 DEF Job
  <2>3. Files(q)' = Files(q) /\ Files(q) \in SUBSET Artifacts
    BY <1>1, <2>1, <2>2, FilesType DEF Files, Kept
  <2>4. PICK r \in Runs : r = job[q].run /\ r = job'[q].run
    BY <1>1, <2>2
  <2>5. Uploaded(r) => Uploaded(r)'
    BY <1>1, WholeStaysWhole
  <2>6. Uploaded(job[q].run) => Uploaded(job[q].run)'
    BY <2>4, <2>5 DEF Uploaded
  <2> QED
    BY <1>1, <2>3, <2>4, <2>6 DEF Progress, Kept
<1> QED
  BY <1>2, <1>3

\* Pointers and latest/ move only to a run that is whole.
LEMMA PointersStayWhole ==
  ASSUME Inv, Kept, TypeInv',
         \A q \in Pointers : \A r \in {pointer'[q], legacy'[q]} :
             r \in {pointer[q], legacy[q]} \/ (r \in Runs /\ Uploaded(r)),
         \A a \in Artifacts : latest'[a] # latest[a] =>
             /\ latest'[a] \in Runs
             /\ Uploaded(latest'[a]) /\ a \in report[latest'[a]].files
  PROVE  PointersNameCompleteRuns' /\ LatestIsBacked'
<1>0. TypeInv /\ TypeOK /\ MaxRun \in Nat
  BY PublishAssumption DEF Inv, TypeInv, PublishAssumption
<1>1. ASSUME NEW q \in Pointers, NEW r \in {pointer'[q], legacy'[q]}, r # 0 PROVE Uploaded(r)'
  <2>1. r \in Runs
    BY <1>0, <1>1 DEF TypeInv, TypeOK, Runs
  <2>2. Uploaded(r)
    BY <1>1, <2>1 DEF Inv, PointersNameCompleteRuns
  <2> QED
    BY <1>0, <2>1, <2>2, WholeStaysWhole
<1>2. ASSUME NEW a \in Artifacts, NEW r \in Runs, r = latest'[a]
      PROVE  Uploaded(r)' /\ a \in report'[r].files
  <2>1. Uploaded(r) /\ a \in report[r].files
    BY <1>2, <1>0 DEF Inv, LatestIsBacked, Runs
  <2>2. Uploaded(r)'
    BY <1>0, <2>1, WholeStaysWhole
  <2> QED
    BY <2>1, <2>2 DEF Kept, Uploaded
<1>3. PointersNameCompleteRuns'
  BY <1>1 DEF PointersNameCompleteRuns
<1>4. \A a \in Artifacts : latest'[a] # 0 => latest'[a] \in Runs
  BY <1>0 DEF TypeInv, TypeOK, Runs
<1>5. LatestIsBacked'
  BY <1>2, <1>4 DEF LatestIsBacked, Uploaded
<1> QED
  BY <1>3, <1>5

\* A line of one publisher keeps the invariant when its own progress is true.
LEMMA OneMoves ==
  ASSUME Inv, [Next]_vars, NEW p \in Publishers,
         \A q \in Publishers \ {p} : pc'[q] = pc[q] /\ job'[q] = job[q],
         Progress(p)',
         \A q \in Pointers : \A r \in {pointer'[q], legacy'[q]} :
             r \in {pointer[q], legacy[q]} \/ (r \in Runs /\ Uploaded(r)),
         \A a \in Artifacts : latest'[a] # latest[a] =>
             /\ latest'[a] \in Runs
             /\ Uploaded(latest'[a]) /\ a \in report[latest'[a]].files
  PROVE  Inv'
<1>1. TypeInv' /\ Kept
  BY TypeStep, KeptByNext DEF Inv
<1>2. FilesOnDisk'
  BY FilesStayOnDisk
<1>3. \A q \in Publishers \ {p} : Progress(q)'
  BY <1>1, OthersProgress
<1>4. PointersNameCompleteRuns' /\ LatestIsBacked'
  BY <1>1, PointersStayWhole
<1> QED
  BY <1>1, <1>2, <1>3, <1>4 DEF Inv

\* Away from the lines of publish_run there is no progress to speak of.
LEMMA Quiet ==
  ASSUME Inv, [Next]_vars, NEW p \in Publishers, UNCHANGED <<latest, pointer, legacy>>,
         \A q \in Publishers \ {p} : pc'[q] = pc[q] /\ job'[q] = job[q],
         pc'[p] \notin {"runs", "latest", "pointer", "legacy"}
  PROVE  Inv'
<1>1. Progress(p)'
  BY DEF Progress
<1> QED
  BY <1>1, OneMoves

LEMMA InvInit == ASSUME Init PROVE Inv
<1>1. TypeInv
  BY InitTypes
<1> QED
  BY <1>1 DEF Inv, Init, FilesOnDisk, Progress, PointersNameCompleteRuns, LatestIsBacked

LEMMA InvDaily == ASSUME Inv, DailySteps PROVE Inv'
<1>1. [Next]_vars /\ Daily \in Publishers
  BY DEF Next, Publishers
<1>2. TypeInv /\ TypeOK
  BY DEF Inv, TypeInv
<1>3. UNCHANGED <<latest, pointer, legacy>>
  <2>1. CASE StartRun \/ WriteOutput \/ EndDaily
    BY <2>1 DEF StartRun, WriteOutput, EndDaily, bucket
  <2>2. CASE Finalize
    BY <2>2 DEF Finalize, WriteReport, bucket
  <2>3. CASE FinalizeError \/ ShortCircuit
    BY <2>3 DEF FinalizeError, ShortCircuit, WriteReport, bucket
  <2> QED
    BY <2>1, <2>2, <2>3 DEF DailySteps
<1>4. /\ \A q \in Publishers \ {Daily} : pc'[q] = pc[q] /\ job'[q] = job[q]
      /\ pc'[Daily] \notin {"runs", "latest", "pointer", "legacy"}
  <2>1. CASE StartRun
    <3>1. \E j : job' = [job EXCEPT ![Daily] = j]
      BY <2>1, ZenonT(60) DEF StartRun
    <3> QED
      BY <1>1, <1>2, <2>1, <3>1 DEF StartRun, Goto, TypeOK
  <2>2. CASE WriteOutput
    <3>1. \E j : job' = [job EXCEPT ![Daily] = j]
      BY <2>2, ZenonT(60) DEF WriteOutput
    <3> QED
      BY <1>1, <1>2, <2>2, <3>1 DEF WriteOutput, TypeOK
  <2>3. CASE Finalize
    <3>1. \E j : job' = [job EXCEPT ![Daily] = j]
      BY <2>3, ZenonT(60) DEF Finalize
    <3> QED
      BY <1>1, <1>2, <2>3, <3>1 DEF Finalize, Goto, TypeOK
  <2>4. CASE FinalizeError \/ ShortCircuit \/ EndDaily
    <3>1. Exits(Daily)
      BY <2>4 DEF FinalizeError, ShortCircuit, EndDaily
    <3> QED
      BY <1>1, <1>2, <3>1, ExitStep
  <2> QED
    BY <2>1, <2>2, <2>3, <2>4 DEF DailySteps
<1> QED
  BY <1>1, <1>3, <1>4, Quiet

LEMMA InvByHand ==
  ASSUME Inv, NEW p \in Operators, PublishByHand(p) \/ EndByHand(p) PROVE Inv'
<1>1. [Next]_vars /\ p \in Publishers /\ TypeOK /\ TypeInv
  BY DEF Next, Publishers, Inv, TypeInv
<1>2. CASE PublishByHand(p)
  <2>1. \E j : job' = [job EXCEPT ![p] = j]
    BY <1>2, ZenonT(60) DEF PublishByHand
  <2> QED
    BY <1>1, <1>2, <2>1, Quiet DEF PublishByHand, Goto, TypeOK, bucket
<1>3. CASE EndByHand(p)
  <2>1. Exits(p) /\ UNCHANGED <<latest, pointer, legacy>>
    BY <1>3 DEF EndByHand, bucket
  <2> QED
    BY <1>1, <2>1, ExitStep, Quiet
<1> QED
  BY <1>2, <1>3

LEMMA InvPublish == ASSUME Inv, NEW p \in Publishers, Publish(p) PROVE Inv'
<1>1. [Next]_vars /\ TypeInv /\ TypeOK /\ Progress(p) /\ Kept
  <2>1. [Next]_vars
    BY DEF Next
  <2> QED
    BY <2>1, KeptByNext DEF Inv, TypeInv
<1>2. \A q \in Publishers \ {p} : pc'[q] = pc[q] /\ job'[q] = job[q]
  <2>1. \A q \in Publishers \ {p} : pc'[q] = pc[q]
    <3>1. pc' = pc \/ \E line : pc' = [pc EXCEPT ![p] = line]
      BY ZenonT(60) DEF Publish, Begin, UploadRun, TurnToLatest, UploadLatest, UploadFails,
         TurnToPointers, PutPointer, PutLegacy, PutRefused, PutRaises, Crash, PointerDone,
         Goto, Exits
    <3> QED
      BY <1>1, <3>1 DEF TypeOK
  <2>2. \A q \in Publishers \ {p} : job'[q] = job[q]
    <3>1. job' = job \/ \E j : job' = [job EXCEPT ![p] = j]
      BY ZenonT(60) DEF Publish, Begin, UploadRun, TurnToLatest, UploadLatest, UploadFails,
         TurnToPointers, PutPointer, PutLegacy, PutRefused, PutRaises, Crash, PointerDone,
         Goto, Exits
    <3> QED
      BY <1>1, <3>1 DEF TypeOK
  <2> QED
    BY <2>1, <2>2
<1>3. ASSUME pc[p] \notin {"idle", "score"}
      PROVE  /\ job[p] \in Job /\ job[p].run \in Runs /\ report[job[p].run] # None
             /\ Files(p) \in SUBSET Artifacts
  <2>1. job[p] \in Job /\ report[job[p].run] # None
    BY <1>1, <1>3, JobFields DEF TypeInv, Control, AtLine
  <2>2. job[p].run \in Runs
    BY <2>1 DEF Job
  <2> QED
    BY <1>1, <2>1, <2>2, FilesType DEF Files
<1>4. ASSUME Progress(p)', UNCHANGED <<latest, pointer, legacy>> PROVE Inv'
  BY <1>1, <1>2, <1>4, OneMoves
<1>5. ASSUME NEW line, Goto(p, line) PROVE pc'[p] = line
  BY <1>1, <1>5 DEF Goto, TypeOK
<1>6. ASSUME NEW j, job' = [job EXCEPT ![p] = j] PROVE job'[p] = j
  BY <1>1, <1>6 DEF TypeOK
<1>7. ASSUME pc'[p] \in {"idle", "end"} PROVE Progress(p)'
  BY <1>7 DEF Progress
<1>8. CASE \E fails \in BOOLEAN : Begin(p, fails)
  <2>1. pc[p] = "begin" /\ UNCHANGED <<latest, pointer, legacy, report, objects>>
    BY <1>8 DEF Begin, bucket
  <2>2. CASE Goto(p, "end")
    BY <1>4, <1>5, <1>7, <2>1, <2>2
  <2>3. CASE Goto(p, "runs") /\ job' = [job EXCEPT ![p].todo = Files(p)] /\ Files(p) # {}
    <3>1. pc'[p] = "runs" /\ job'[p] = [job[p] EXCEPT !.todo = Files(p)]
      BY <1>5, <1>6, <2>3
    <3>2. job'[p].todo = Files(p) /\ job'[p].run = job[p].run
      BY <1>3, <2>1, <3>1 DEF Job
    <3>3. Files(p)' = Files(p)
      BY <2>1, <3>2 DEF Files
    <3>4. Progress(p)'
      BY <2>3, <3>1, <3>2, <3>3 DEF Progress
    <3> QED
      BY <1>4, <2>1, <3>4
  <2> QED
    BY <1>8, <2>2, <2>3 DEF Begin
<1>9. CASE UploadRun(p)
  <2>1. PICK a \in job[p].todo : /\ objects' = [objects EXCEPT ![job[p].run][a] = disk[a]]
                                 /\ job' = [job EXCEPT ![p].todo = @ \ {a}]
    BY <1>9 DEF UploadRun
  <2>2. pc[p] = "runs" /\ pc' = pc /\ UNCHANGED <<latest, pointer, legacy, report, disk>>
    BY <1>9 DEF UploadRun
  <2>3. job'[p] = [job[p] EXCEPT !.todo = @ \ {a}]
    BY <1>6, <2>1
  <2>4. job'[p].todo = job[p].todo \ {a} /\ job'[p].run = job[p].run
    BY <1>3, <2>2, <2>3 DEF Job
  <2>5. Files(p)' = Files(p)
    BY <2>2, <2>4 DEF Files
  <2>6. /\ Files(p) # {} /\ job[p].todo \subseteq Files(p)
        /\ \A b \in Files(p) \ job[p].todo : objects[job[p].run][b] # 0
    BY <1>1, <2>2 DEF Progress
  <2>7. a \in Artifacts /\ job[p].run \in Runs /\ Files(p) \subseteq Artifacts
    BY <1>3, <2>2, <2>6
  <2>8. disk[a] # 0
    BY <1>3, <2>2, <2>6 DEF Inv, FilesOnDisk, Files
  <2>9. objects'[job[p].run][a] # 0
    BY <1>1, <2>1, <2>7, <2>8 DEF TypeOK, Names
  <2>10. \A b \in Files(p) \ job'[p].todo : objects'[job[p].run][b] # 0
    BY <1>1, <2>4, <2>6, <2>7, <2>9 DEF Kept
  <2>11. Progress(p)'
    BY <2>2, <2>4, <2>5, <2>6, <2>10 DEF Progress
  <2> QED
    BY <1>4, <2>2, <2>11
<1>10. CASE TurnToLatest(p)
  <2>1. pc[p] = "runs" /\ job[p].todo = {} /\ UNCHANGED <<latest, pointer, legacy, report, objects>>
    BY <1>10 DEF TurnToLatest, bucket
  <2>2. /\ pc'[p] = "latest"
        /\ job'[p] = [job[p] EXCEPT !.todo = Files(p) \cap ArtifactsOf(job[p].keys)]
    BY <1>5, <1>6, <1>10 DEF TurnToLatest
  <2>3. job'[p].todo \subseteq Files(p) /\ job'[p].run = job[p].run
    BY <1>3, <2>1, <2>2 DEF Job
  <2>4. Uploaded(job[p].run)
    BY <1>1, <1>3, <2>1 DEF Progress, Uploaded, Files
  <2>5. Progress(p)'
    BY <2>1, <2>2, <2>3, <2>4 DEF Progress, Uploaded, Files
  <2> QED
    BY <1>4, <2>1, <2>5
<1>11. CASE UploadLatest(p)
  <2>1. PICK a \in job[p].todo : /\ latest' = [latest EXCEPT ![a] = job[p].run]
                                 /\ job' = [job EXCEPT ![p].todo = @ \ {a}]
    BY <1>11 DEF UploadLatest
  <2>2. pc[p] = "latest" /\ pc' = pc /\ UNCHANGED <<pointer, legacy, report, objects>>
    BY <1>11 DEF UploadLatest
  <2>3. job'[p] = [job[p] EXCEPT !.todo = @ \ {a}]
    BY <1>6, <2>1
  <2>4. job'[p].todo = job[p].todo \ {a} /\ job'[p].run = job[p].run
    BY <1>3, <2>2, <2>3 DEF Job
  <2>5. Uploaded(job[p].run) /\ job[p].todo \subseteq Files(p)
    BY <1>1, <2>2 DEF Progress
  <2>6. Progress(p)'
    BY <2>2, <2>4, <2>5 DEF Progress, Uploaded, Files
  <2>7. \A b \in Artifacts : latest'[b] # latest[b] => b = a /\ latest'[b] = job[p].run
    BY <1>1, <2>1 DEF TypeOK
  <2>8. \A b \in Artifacts : latest'[b] # latest[b] =>
            /\ latest'[b] \in Runs
            /\ Uploaded(latest'[b]) /\ b \in report[latest'[b]].files
    BY <1>3, <2>2, <2>5, <2>7 DEF Files
  <2> QED
    BY <1>1, <1>2, <2>2, <2>6, <2>8, OneMoves
<1>12. CASE TurnToPointers(p)
  <2>1. pc[p] = "latest" /\ UNCHANGED <<latest, pointer, legacy, report, objects>>
    BY <1>12 DEF TurnToPointers, bucket
  <2>2. Uploaded(job[p].run)
    BY <1>1, <2>1 DEF Progress
  <2>3. CASE job[p].write_last_success
    <3> DEFINE left == {key \in job[p].keys : \E a \in Files(p) : KeyOf[a] = key}
               j == [job[p] EXCEPT !.target = Global, !.keys_left = left]
    <3>1. j.run = job[p].run
      BY <1>3, <2>1 DEF Job
    <3>2. job' = [job EXCEPT ![p] = j] /\ Goto(p, "pointer")
      BY <1>12, <2>3 DEF TurnToPointers
    <3> HIDE DEF j
    <3>3. pc'[p] = "pointer" /\ job'[p].run = job[p].run
      BY <1>5, <1>6, <3>1, <3>2
    <3>4. Progress(p)'
      BY <2>1, <2>2, <3>3 DEF Progress, Uploaded
    <3> QED
      BY <1>4, <2>1, <3>4
  <2>4. CASE ~job[p].write_last_success
    <3>1. pc'[p] = "end"
      BY <1>5, <1>12, <2>4 DEF TurnToPointers
    <3> QED
      BY <1>4, <1>7, <2>1, <3>1
  <2> QED
    BY <2>3, <2>4
<1>13. CASE PutPointer(p)
  <2>1. /\ pc[p] = "pointer" /\ UNCHANGED <<latest, legacy, report, objects, job>>
        /\ pc'[p] = "legacy"
    BY <1>5, <1>13 DEF PutPointer
  <2>2. Uploaded(job[p].run)
    BY <1>1, <2>1 DEF Progress
  <2>3. Progress(p)'
    BY <2>1, <2>2 DEF Progress, Uploaded
  <2>4. \A q \in Pointers : pointer'[q] = pointer[q] \/ pointer'[q] = job[p].run
    BY <1>1, <1>13 DEF PutPointer, TypeOK
  <2> QED
    BY <1>1, <1>2, <1>3, <2>1, <2>2, <2>3, <2>4, OneMoves
<1>14. ASSUME NEW result, PointerDone(p, result), pc[p] \in {"pointer", "legacy"},
              UNCHANGED <<report, objects>>
       PROVE  Progress(p)'
  <2>1. Uploaded(job[p].run) /\ job[p] \in Job
    BY <1>1, <1>3, <1>14 DEF Progress
  <2> DEFINE done == [job[p] EXCEPT !.pointer_write[job[p].target] = result]
  <2>2. \/ pc'[p] = "end"
        \/ /\ pc'[p] = "pointer"
           /\ \E key : job'[p] = [done EXCEPT !.target = key, !.keys_left = @ \ {key}]
    <3>1. \/ Goto(p, "end")
          \/ /\ Goto(p, "pointer")
             /\ \E key \in job[p].keys_left :
                  job' = [job EXCEPT ![p] = [done EXCEPT !.target = key, !.keys_left = @ \ {key}]]
      BY <1>14, ZenonT(60) DEF PointerDone
    <3> QED
      BY <1>5, <1>6, <3>1
  <2>3. done.run = job[p].run
    BY <2>1 DEF Job
  <2> HIDE DEF done
  <2>4. DOMAIN done = DOMAIN job[p]
    BY DEF done
  <2>5. pc'[p] = "pointer" => job'[p].run = job[p].run
    BY <2>1, <2>2, <2>3, <2>4 DEF Job
  <2> QED
    BY <1>14, <2>1, <2>2, <2>5 DEF Progress, Uploaded
<1>15. CASE PutLegacy(p)
  <2>1. pc[p] = "legacy" /\ UNCHANGED <<latest, pointer, report, objects>> /\ PointerDone(p, "ok")
    BY <1>15 DEF PutLegacy
  <2>2. Uploaded(job[p].run) /\ job[p].run \in Runs
    BY <1>1, <1>3, <2>1 DEF Progress
  <2>3. Progress(p)'
    BY <1>14, <2>1
  <2>4. \A q \in Pointers : legacy'[q] = legacy[q] \/ legacy'[q] = job[p].run
    BY <1>1, <1>15 DEF PutLegacy, TypeOK
  <2> QED
    BY <1>1, <1>2, <2>1, <2>2, <2>3, <2>4, OneMoves
<1>16. CASE PutRefused(p)
  BY <1>4, <1>14, <1>16 DEF PutRefused, bucket
<1>17. CASE UploadFails(p) \/ PutRaises(p)
  BY <1>4, <1>5, <1>7, <1>17 DEF UploadFails, PutRaises, bucket
<1>18. CASE Crash(p)
  BY <1>4, <1>5, <1>7, <1>18 DEF Crash, Exits, bucket
<1> QED
  BY <1>8, <1>9, <1>10, <1>11, <1>12, <1>13, <1>15, <1>16, <1>17, <1>18 DEF Publish

LEMMA InvStep == Inv /\ [Next]_vars => Inv'
<1> SUFFICES ASSUME Inv, [Next]_vars PROVE Inv'
  OBVIOUS
<1>1. CASE UNCHANGED vars
  <2>1. Daily \in Publishers /\ \A q \in Publishers : pc'[q] = pc[q] /\ job'[q] = job[q]
    BY <1>1 DEF vars, Publishers
  <2>2. Progress(Daily)'
    BY <1>1, <2>1 DEF vars, bucket, Inv, Progress, Uploaded, Files
  <2> QED
    BY <1>1, <2>1, <2>2, OneMoves DEF vars, bucket
<1> QED
  BY <1>1, InvDaily, InvPublish, InvByHand DEF Next

\* What each publisher has put in the bucket by the line at which it is, the
\* files of every report on disk, and whole runs behind pointers and latest/.
THEOREM InvAlways == Spec => []Inv
  BY InvInit, InvStep, PTL DEF Spec

\* Whatever fails or dies, however many operators publish beside the daily
\* run: a baseline pointer names a run all of whose objects are in the bucket.
THEOREM PointersComplete == Spec => []PointersNameCompleteRuns
<1>1. Inv => PointersNameCompleteRuns
  BY DEF Inv
<1> QED
  BY <1>1, InvAlways, PTL

\* And an object under latest/ belongs to such a run.
THEOREM LatestBacked == Spec => []LatestIsBacked
<1>1. Inv => LatestIsBacked
  BY DEF Inv
<1> QED
  BY <1>1, InvAlways, PTL

-----------------------------------------------------------------------------
\* What each line of publish_run does, field by field, for the invariants that
\* follow.
Others(p) == \A q \in Publishers \ {p} : pc'[q] = pc[q] /\ job'[q] = job[q]

JobIs(p, todo, target, left, writes, returned) ==
    /\ job'[p].run = job[p].run /\ job'[p].keys = job[p].keys
    /\ job'[p].todo = todo /\ job'[p].target = target /\ job'[p].keys_left = left
    /\ job'[p].pointer_write = writes /\ job'[p].returned = returned

\* Only the list of files left to upload changes.
Left(p, todo) ==
    JobIs(p, todo, job[p].target, job[p].keys_left, job[p].pointer_write, job[p].returned)

Dies(p) == pc[p] # "idle" /\ pc'[p] = "idle" /\ UNCHANGED bucket

Quits(p) ==
    /\ pc[p] \in {"begin", "runs", "latest", "pointer", "legacy"} /\ pc'[p] = "end"
    /\ job'[p] = job[p] /\ UNCHANGED bucket

Plans(p) ==
    /\ pc[p] = "begin" /\ pc'[p] = "runs" /\ Left(p, Files(p))
    /\ Files(p) # {} /\ UNCHANGED bucket

PutsRun(p, a) ==
    /\ pc[p] = "runs" /\ pc'[p] = "runs" /\ Left(p, job[p].todo \ {a})
    /\ objects' = [objects EXCEPT ![job[p].run][a] = disk[a]]
    /\ UNCHANGED <<latest, pointer, legacy>>

TurnsToLatest(p) ==
    /\ pc[p] = "runs" /\ pc'[p] = "latest" /\ job[p].todo = {}
    /\ Left(p, Files(p) \cap ArtifactsOf(job[p].keys)) /\ UNCHANGED bucket

PutsLatest(p, a) ==
    /\ pc[p] = "latest" /\ pc'[p] = "latest" /\ Left(p, job[p].todo \ {a})
    /\ latest' = [latest EXCEPT ![a] = job[p].run]
    /\ UNCHANGED <<objects, pointer, legacy>>

TurnsToPointers(p) ==
    /\ pc[p] = "latest" /\ pc'[p] = "pointer" /\ job[p].todo = {} /\ UNCHANGED bucket
    /\ JobIs(p, {}, Global, {key \in job[p].keys : \E a \in Files(p) : KeyOf[a] = key},
             job[p].pointer_write, job[p].returned)

ReturnsNoPointers(p) ==
    /\ pc[p] = "latest" /\ pc'[p] = "end" /\ job[p].todo = {} /\ UNCHANGED bucket
    /\ JobIs(p, {}, job[p].target, job[p].keys_left, job[p].pointer_write, TRUE)

PutsPointer(p) ==
    /\ pc[p] = "pointer" /\ pc'[p] = "legacy" /\ job'[p] = job[p]
    /\ pointer' = [pointer EXCEPT ![job[p].target] = job[p].run]
    /\ UNCHANGED <<objects, latest, legacy>>

\* What becomes of the pointer of the target: its legacy copy, too, is written,
\* or it was refused.
Records(p, result) ==
    /\ pc[p] \in {"pointer", "legacy"} /\ UNCHANGED <<objects, latest, pointer>>
    /\ \/ /\ result = "ok" /\ pc[p] = "legacy"
          /\ legacy' = [legacy EXCEPT ![job[p].target] = job[p].run]
       \/ result = "error" /\ legacy' = legacy

Noted(p, result) == [job[p].pointer_write EXCEPT ![job[p].target] = result]

ReturnsPointers(p, result) ==
    /\ Records(p, result) /\ pc'[p] = "end"
    /\ job[p].keys_left = {} \/ (job[p].target = Global /\ result = "error")
    /\ JobIs(p, job[p].todo, job[p].target, job[p].keys_left, Noted(p, result), TRUE)

TurnsToKey(p, result, key) ==
    /\ Records(p, result) /\ pc'[p] = "pointer" /\ key \in job[p].keys_left
    /\ JobIs(p, job[p].todo, key, job[p].keys_left \ {key}, Noted(p, result), job[p].returned)

Moves(p) ==
    \/ Dies(p) \/ Quits(p) \/ Plans(p) \/ TurnsToLatest(p)
    \/ \E a \in job[p].todo : PutsRun(p, a) \/ PutsLatest(p, a)
    \/ TurnsToPointers(p) \/ ReturnsNoPointers(p) \/ PutsPointer(p)
    \/ \E result \in {"ok", "error"} :
          ReturnsPointers(p, result) \/ \E key \in Keys : TurnsToKey(p, result, key)

LEMMA PublishMoves ==
  ASSUME TypeInv, NEW p \in Publishers, Publish(p)
  PROVE  Others(p) /\ Moves(p) /\ UNCHANGED <<disk, report, run, byHand, exit>>
<1>1. TypeOK
  BY DEF TypeInv
<1>2. Others(p)
  <2>1. \A q \in Publishers \ {p} : pc'[q] = pc[q]
    <3>1. pc' = pc \/ \E line : pc' = [pc EXCEPT ![p] = line]
      BY ZenonT(60) DEF Publish, Begin, UploadRun, TurnToLatest, UploadLatest, UploadFails,
         TurnToPointers, PutPointer, PutLegacy, PutRefused, PutRaises, Crash, PointerDone,
         Goto, Exits
    <3> QED
      BY <1>1, <3>1 DEF TypeOK
  <2>2. \A q \in Publishers \ {p} : job'[q] = job[q]
    <3>1. job' = job \/ \E j : job' = [job EXCEPT ![p] = j]
      BY ZenonT(60) DEF Publish, Begin, UploadRun, TurnToLatest, UploadLatest, UploadFails,
         TurnToPointers, PutPointer, PutLegacy, PutRefused, PutRaises, Crash, PointerDone,
         Goto, Exits
    <3> QED
      BY <1>1, <3>1 DEF TypeOK
  <2> QED
    BY <2>1, <2>2 DEF Others
<1>3. UNCHANGED <<disk, report, run, byHand, exit>>
  BY DEF Publish, Begin, UploadRun, TurnToLatest, UploadLatest, UploadFails,
     TurnToPointers, PutPointer, PutLegacy, PutRefused, PutRaises, Crash
<1> SUFFICES Moves(p)
  BY <1>2, <1>3
<1>4. ASSUME NEW line, Goto(p, line) PROVE pc'[p] = line
  BY <1>1, <1>4 DEF Goto, TypeOK
<1>5. ASSUME NEW j, job' = [job EXCEPT ![p] = j] PROVE job'[p] = j
  BY <1>1, <1>5 DEF TypeOK
<1>6. ASSUME pc[p] # "idle" PROVE job[p] \in Job
  BY <1>6, JobFields
<1>7. ASSUME pc[p] # "idle", NEW todo, job' = [job EXCEPT ![p].todo = todo] PROVE Left(p, todo)
  <2>1. job'[p] = [job[p] EXCEPT !.todo = todo]
    BY <1>5, <1>7
  <2> QED
    BY <1>6, <1>7, <2>1 DEF Job, Left, JobIs
<1>8. CASE Crash(p)
  BY <1>4, <1>8 DEF Crash, Exits, Moves, Dies
<1>9. CASE UploadFails(p) \/ PutRaises(p)
  BY <1>4, <1>9 DEF UploadFails, PutRaises, Moves, Quits
<1>10. CASE \E fails \in BOOLEAN : Begin(p, fails)
  <2>1. CASE Goto(p, "end") /\ UNCHANGED job
    BY <1>4, <1>10, <2>1 DEF Begin, Moves, Quits
  <2>2. CASE Goto(p, "runs") /\ job' = [job EXCEPT ![p].todo = Files(p)] /\ Files(p) # {}
    <3>1. pc[p] = "begin" /\ pc'[p] = "runs" /\ Left(p, Files(p)) /\ UNCHANGED bucket
      BY <1>4, <1>7, <1>10, <2>2 DEF Begin
    <3> QED
      BY <2>2, <3>1 DEF Moves, Plans
  <2> QED
    BY <1>10, <2>1, <2>2 DEF Begin
<1>11. CASE UploadRun(p)
  <2>1. PICK a \in job[p].todo : /\ objects' = [objects EXCEPT ![job[p].run][a] = disk[a]]
                                 /\ job' = [job EXCEPT ![p].todo = job[p].todo \ {a}]
    BY <1>11 DEF UploadRun
  <2>2. pc[p] = "runs" /\ pc'[p] = "runs" /\ UNCHANGED <<latest, pointer, legacy>>
    BY <1>11 DEF UploadRun
  <2>3. Left(p, job[p].todo \ {a})
    BY <1>7, <2>1, <2>2
  <2>4. PutsRun(p, a)
    BY <2>1, <2>2, <2>3 DEF PutsRun
  <2> QED
    BY <2>4 DEF Moves
<1>12. CASE UploadLatest(p)
  <2>1. PICK a \in job[p].todo : /\ latest' = [latest EXCEPT ![a] = job[p].run]
                                 /\ job' = [job EXCEPT ![p].todo = job[p].todo \ {a}]
    BY <1>12 DEF UploadLatest
  <2>2. pc[p] = "latest" /\ pc'[p] = "latest" /\ UNCHANGED <<objects, pointer, legacy>>
    BY <1>12 DEF UploadLatest
  <2>3. Left(p, job[p].todo \ {a})
    BY <1>7, <2>1, <2>2
  <2>4. PutsLatest(p, a)
    BY <2>1, <2>2, <2>3 DEF PutsLatest
  <2> QED
    BY <2>4 DEF Moves
<1>13. CASE TurnToLatest(p)
  <2>1. /\ pc[p] = "runs" /\ pc'[p] = "latest" /\ job[p].todo = {} /\ UNCHANGED bucket
        /\ Left(p, Files(p) \cap ArtifactsOf(job[p].keys))
    BY <1>4, <1>7, <1>13 DEF TurnToLatest
  <2> QED
    BY <2>1 DEF Moves, TurnsToLatest
<1>14. CASE TurnToPointers(p)
  <2>1. pc[p] = "latest" /\ job[p].todo = {} /\ UNCHANGED bucket /\ job[p] \in Job
    BY <1>6, <1>14 DEF TurnToPointers
  <2>2. CASE job[p].write_last_success
    <3> DEFINE left == {key \in job[p].keys : \E a \in Files(p) : KeyOf[a] = key}
    <3>1. job'[p] = [job[p] EXCEPT !.target = Global, !.keys_left = left] /\ pc'[p] = "pointer"
      <4>1. /\ job' = [job EXCEPT ![p] = [job[p] EXCEPT !.target = Global, !.keys_left = left]]
            /\ Goto(p, "pointer")
        BY <1>14, <2>2 DEF TurnToPointers
      <4> HIDE DEF left
      <4> QED
        BY <1>4, <1>5, <4>1
    <3> HIDE DEF left
    <3>2. JobIs(p, {}, Global, left, job[p].pointer_write, job[p].returned)
      BY <2>1, <3>1 DEF Job, JobIs
    <3> QED
      BY <2>1, <3>1, <3>2 DEF Moves, TurnsToPointers, left
  <2>3. CASE ~job[p].write_last_success
    <3>1. job'[p] = [job[p] EXCEPT !.returned = TRUE] /\ pc'[p] = "end"
      BY <1>4, <1>5, <1>14, <2>3 DEF TurnToPointers
    <3>2. JobIs(p, {}, job[p].target, job[p].keys_left, job[p].pointer_write, TRUE)
      BY <2>1, <3>1 DEF Job, JobIs
    <3> QED
      BY <2>1, <3>1, <3>2 DEF Moves, ReturnsNoPointers
  <2> QED
    BY <2>2, <2>3
<1>15. CASE PutPointer(p)
  BY <1>4, <1>15 DEF PutPointer, Moves, PutsPointer
<1>16. ASSUME NEW result \in {"ok", "error"}, PointerDone(p, result), Records(p, result)
       PROVE  Moves(p)
  <2>1. job[p] \in Job
    BY <1>6, <1>16 DEF Records
  <2> DEFINE done == [job[p] EXCEPT !.pointer_write[job[p].target] = result]
  <2>2. \/ /\ job' = [job EXCEPT ![p] = [done EXCEPT !.returned = TRUE]] /\ Goto(p, "end")
           /\ job[p].keys_left = {} \/ (job[p].target = Global /\ result = "error")
        \/ /\ \E key \in job[p].keys_left :
                 job' = [job EXCEPT ![p] = [done EXCEPT !.target = key, !.keys_left = @ \ {key}]]
           /\ Goto(p, "pointer")
    BY <1>16, ZenonT(60) DEF PointerDone
  <2>3. CASE /\ job' = [job EXCEPT ![p] = [done EXCEPT !.returned = TRUE]] /\ Goto(p, "end")
             /\ job[p].keys_left = {} \/ (job[p].target = Global /\ result = "error")
    <3>1. job'[p] = [done EXCEPT !.returned = TRUE] /\ pc'[p] = "end"
      BY <1>4, <1>5, <2>3
    <3>2. JobIs(p, job[p].todo, job[p].target, job[p].keys_left, Noted(p, result), TRUE)
      BY <2>1, <3>1 DEF Job, JobIs, Noted
    <3> QED
      BY <1>16, <2>3, <3>1, <3>2 DEF Moves, ReturnsPointers
  <2>4. CASE /\ \E key \in job[p].keys_left :
                   job' = [job EXCEPT ![p] = [done EXCEPT !.target = key, !.keys_left = @ \ {key}]]
             /\ Goto(p, "pointer")
    <3>1. PICK key \in job[p].keys_left :
             job' = [job EXCEPT ![p] = [done EXCEPT !.target = key, !.keys_left = @ \ {key}]]
      BY <2>4
    <3>2. job'[p] = [done EXCEPT !.target = key, !.keys_left = @ \ {key}] /\ pc'[p] = "pointer"
      BY <1>4, <1>5, <2>4, <3>1
    <3>3. JobIs(p, job[p].todo, key, job[p].keys_left \ {key}, Noted(p, result), job[p].returned)
      BY <2>1, <3>2 DEF Job, JobIs, Noted
    <3>4. key \in Keys /\ TurnsToKey(p, result, key)
      BY <1>16, <2>1, <3>1, <3>2, <3>3 DEF TurnsToKey, Job
    <3> QED
      BY <1>16, <3>4 DEF Moves
  <2> QED
    BY <2>2, <2>3, <2>4
<1>17. CASE PutLegacy(p)
  BY <1>16, <1>17 DEF PutLegacy, Records
<1>18. CASE PutRefused(p)
  BY <1>16, <1>18 DEF PutRefused, Records, bucket
<1> QED
  BY <1>8, <1>9, <1>10, <1>11, <1>12, <1>13, <1>14, <1>15, <1>17, <1>18 DEF Publish

\* And what the daily run does up to its report, and at its end.
Starts ==
    /\ pc[Daily] = "idle" /\ pc'[Daily] = "score" /\ run' = run + 1 /\ exit' = None
    /\ \E keys \in SUBSET Keys : job'[Daily] = NewJob(run + 1, keys, ArtifactsOf(keys), FALSE)
    /\ UNCHANGED <<disk, report, bucket>>

Scores(a) ==
    /\ pc[Daily] = "score" /\ pc'[Daily] = "score" /\ Left(Daily, job[Daily].todo \ {a})
    /\ RankedOf[KeyOf[a]] \notin job[Daily].todo \ {a}
    /\ disk' = [disk EXCEPT ![a] = run]
    /\ UNCHANGED <<report, run, bucket, exit>>

Reports ==
    /\ pc[Daily] = "score"
    /\ \E status : WriteReport(status)
    /\ \/ pc'[Daily] = "begin" /\ Left(Daily, job[Daily].todo) /\ exit' = exit
       \/ pc'[Daily] = "idle"

LEMMA DailyMoves ==
  ASSUME TypeInv, DailySteps
  PROVE  /\ Others(Daily) /\ byHand' = byHand
         /\ \/ Starts \/ Reports \/ \E a \in job[Daily].todo : Scores(a)
            \/ EndDaily /\ pc'[Daily] = "idle"
<1>1. TypeOK /\ Daily \in Publishers
  BY DEF TypeInv, Publishers
<1>2. ASSUME NEW line, Goto(Daily, line)
      PROVE  pc'[Daily] = line /\ \A q \in Publishers \ {Daily} : pc'[q] = pc[q]
  BY <1>1, <1>2 DEF Goto, TypeOK
<1>3. ASSUME NEW j, job' = [job EXCEPT ![Daily] = j]
      PROVE  job'[Daily] = j /\ \A q \in Publishers \ {Daily} : job'[q] = job[q]
  BY <1>1, <1>3 DEF TypeOK
<1>4. CASE StartRun
  <2>1. PICK keys \in SUBSET Keys :
           job' = [job EXCEPT ![Daily] = NewJob(run + 1, keys, ArtifactsOf(keys), FALSE)]
    BY <1>4 DEF StartRun
  <2>2. /\ job'[Daily] = NewJob(run + 1, keys, ArtifactsOf(keys), FALSE)
        /\ Others(Daily) /\ pc'[Daily] = "score"
    BY <1>2, <1>3, <1>4, <2>1 DEF StartRun, Others
  <2> QED
    BY <1>4, <2>2 DEF StartRun, Starts
<1>5. CASE WriteOutput
  <2>1. PICK a \in job[Daily].todo : /\ RankedOf[KeyOf[a]] \notin job[Daily].todo \ {a}
                                     /\ disk' = [disk EXCEPT ![a] = run]
                                     /\ job' = [job EXCEPT ![Daily].todo = @ \ {a}]
    BY <1>5 DEF WriteOutput
  <2>2. job[Daily] \in Job /\ pc[Daily] = "score" /\ UNCHANGED <<report, run, byHand, bucket, pc, exit>>
    BY <1>1, <1>5, JobFields DEF WriteOutput
  <2>3. job'[Daily] = [job[Daily] EXCEPT !.todo = @ \ {a}] /\ Others(Daily)
    BY <1>3, <2>1, <2>2 DEF Others
  <2>4. Left(Daily, job[Daily].todo \ {a})
    BY <2>2, <2>3 DEF Left, JobIs, Job
  <2> QED
    BY <2>1, <2>2, <2>3, <2>4 DEF Scores
<1>6. CASE Finalize
  <2>1. PICK status : /\ WriteReport(status)
                      /\ job' = [job EXCEPT ![Daily].write_last_success = status = "success"]
    BY <1>6, ZenonT(60) DEF Finalize
  <2>2. job[Daily] \in Job /\ pc[Daily] = "score" /\ exit' = exit /\ Goto(Daily, "begin")
    BY <1>1, <1>6, JobFields DEF Finalize
  <2> DEFINE b == status = "success"
  <2>3. job'[Daily] = [job[Daily] EXCEPT !.write_last_success = b]
        /\ \A q \in Publishers \ {Daily} : job'[q] = job[q]
    BY <1>3, <2>1
  <2> HIDE DEF b
  <2>4. Left(Daily, job[Daily].todo) /\ Others(Daily) /\ pc'[Daily] = "begin"
    BY <1>2, <2>2, <2>3 DEF Left, JobIs, Job, Others
  <2>5. Reports
    BY <2>1, <2>2, <2>4, ZenonT(60) DEF Reports
  <2> QED
    BY <2>1, <2>4, <2>5 DEF WriteReport
<1>7. CASE FinalizeError \/ ShortCircuit
  <2>1. PICK status : WriteReport(status)
    <3>1. CASE FinalizeError
      BY <3>1, ZenonT(60) DEF FinalizeError
    <3>2. CASE ShortCircuit
      BY <3>2, ZenonT(60) DEF ShortCircuit
    <3> QED
      BY <1>7, <3>1, <3>2
  <2>2. pc[Daily] = "score" /\ Exits(Daily)
    BY <1>7 DEF FinalizeError, ShortCircuit
  <2>3. pc'[Daily] = "idle" /\ Others(Daily)
    BY <1>1, <2>2, ExitStep DEF Others
  <2>4. Reports
    BY <2>1, <2>2, <2>3, ZenonT(60) DEF Reports
  <2> QED
    BY <2>1, <2>3, <2>4 DEF WriteReport
<1>8. CASE EndDaily
  <2>1. Exits(Daily) /\ byHand' = byHand
    BY <1>8 DEF EndDaily
  <2> QED
    BY <1>1, <1>8, <2>1, ExitStep DEF Others
<1> QED
  BY <1>4, <1>5, <1>6, <1>7, <1>8 DEF DailySteps

\* An operator begins to publish a run that has a report, or is done.
ByHand(p) ==
    /\ pc'[p] \in {"begin", "idle"}
    /\ pc'[p] = "begin" => pc[p] = "idle" /\ byHand' = byHand + 1
    /\ pc'[p] = "idle" => byHand' = byHand
    /\ UNCHANGED <<disk, report, run, bucket, exit>>

LEMMA ByHandMoves ==
  ASSUME TypeInv, NEW p \in Operators, PublishByHand(p) \/ EndByHand(p)
  PROVE  Others(p) /\ ByHand(p)
<1>1. p \in Publishers /\ TypeOK
  BY DEF TypeInv, Publishers
<1>2. CASE PublishByHand(p)
  <2>1. \E j : job' = [job EXCEPT ![p] = j]
    BY <1>2, ZenonT(60) DEF PublishByHand
  <2> QED
    BY <1>1, <1>2, <2>1 DEF PublishByHand, Goto, TypeOK, Others, ByHand
<1>3. CASE EndByHand(p)
  <2>1. Exits(p) /\ UNCHANGED <<disk, report, run, byHand, bucket, exit>>
    BY <1>3 DEF EndByHand
  <2> QED
    BY <1>1, <2>1, ExitStep DEF Others, ByHand
<1> QED
  BY <1>2, <1>3

-----------------------------------------------------------------------------
\* Nothing is uploaded for a run that has no report.
NothingBeforeReport ==
    \A r \in Runs : report[r] = None => \A a \in Artifacts : objects[r][a] = 0

\* The only step that writes an object: a file of the report, as it is now.
Puts(p, a) ==
    /\ PutsRun(p, a) /\ Others(p) /\ UNCHANGED <<disk, report, run, byHand, exit>>
    /\ job[p].run \in Runs /\ report[job[p].run] # None /\ a \in Files(p)
    /\ disk[a] # 0

LEMMA ObjectsMove ==
  ASSUME Inv, [Next]_vars
  PROVE  \/ objects' = objects
         \/ \E p \in Publishers, a \in Artifacts : Puts(p, a)
<1>1. TypeInv
  BY DEF Inv
<1>2. ASSUME NEW p \in Publishers, Publish(p)
      PROVE  \/ objects' = objects
             \/ \E a \in Artifacts : Puts(p, a)
  <2>1. Others(p) /\ Moves(p) /\ UNCHANGED <<disk, report, run, byHand, exit>>
    BY <1>1, <1>2, PublishMoves
  <2>2. ASSUME NEW a \in job[p].todo, PutsRun(p, a) PROVE a \in Artifacts /\ Puts(p, a)
    <3>1. pc[p] = "runs" /\ Progress(p)
      BY <2>2 DEF PutsRun, Inv
    <3>2. job[p] \in Job /\ report[job[p].run] # None /\ a \in Files(p)
      BY <1>1, <2>2, <3>1, JobFields DEF TypeInv, Control, AtLine, Progress
    <3>3. job[p].run \in Runs /\ a \in Artifacts
      BY <3>2 DEF Job
    <3>4. disk[a] # 0
      BY <3>2, <3>3 DEF Inv, FilesOnDisk, Files
    <3> QED
      BY <2>1, <2>2, <3>2, <3>3, <3>4 DEF Puts
  <2>3. CASE \E a \in job[p].todo : PutsRun(p, a)
    BY <2>2, <2>3
  <2>4. CASE ~\E a \in job[p].todo : PutsRun(p, a)
    BY <2>1, <2>4 DEF Moves, Dies, Quits, Plans, TurnsToLatest, PutsLatest, TurnsToPointers,
       ReturnsNoPointers, PutsPointer, Records, ReturnsPointers, TurnsToKey, bucket
  <2> QED
    BY <2>3, <2>4
<1>3. CASE DailySteps
  BY <1>1, <1>3, DailyMoves DEF Starts, Scores, Reports, WriteReport, EndDaily, bucket
<1>4. ASSUME NEW p \in Operators, PublishByHand(p) \/ EndByHand(p) PROVE objects' = objects
  BY <1>1, <1>4, ByHandMoves DEF ByHand, bucket
<1> QED
  BY <1>2, <1>3, <1>4 DEF Next, vars, bucket

LEMMA NothingEarly ==
  ASSUME Inv, NothingBeforeReport, [Next]_vars PROVE NothingBeforeReport'
<1>1. Kept /\ TypeOK
  BY KeptByNext DEF Inv, TypeInv
<1> SUFFICES ASSUME NEW r \in Runs, report'[r] = None, NEW a \in Artifacts
             PROVE  objects'[r][a] = 0
  BY DEF NothingBeforeReport
<1>2. report[r] = None /\ objects[r][a] = 0
  BY <1>1 DEF Kept, NothingBeforeReport
<1>3. ASSUME NEW p \in Publishers, NEW b \in Artifacts, Puts(p, b) PROVE objects'[r] = objects[r]
  BY <1>1, <1>2, <1>3 DEF Puts, PutsRun, TypeOK
<1> QED
  BY <1>2, <1>3, ObjectsMove

\* The runs the catalog calls complete.
Done == {r \in Runs : Uploaded(r)}

LEMMA WhatIsDone ==
  ASSUME Inv, NothingBeforeReport, [Next]_vars
  PROVE  \/ Done' = Done
         \/ /\ \E r \in Runs \ Done : Done' = Done \cup {r}
            /\ pointer' = pointer
<1>1. Kept /\ TypeInv /\ TypeOK
  BY KeptByNext DEF Inv, TypeInv
<1>2. Done \subseteq Done'
  BY <1>1, WholeStaysWhole DEF Done
<1>3. ASSUME NEW p \in Publishers, NEW a \in Artifacts, Puts(p, a)
      PROVE  \/ Done' = Done
             \/ /\ \E r \in Runs \ Done : Done' = Done \cup {r}
                /\ pointer' = pointer
  <2>1. /\ report' = report /\ pointer' = pointer /\ job[p].run \in Runs
        /\ \A r \in Runs \ {job[p].run} : objects'[r] = objects[r]
    BY <1>1, <1>3 DEF Puts, PutsRun, TypeOK
  <2>2. Done' \subseteq Done \cup {job[p].run}
    BY <2>1 DEF Done, Uploaded
  <2> QED
    BY <1>2, <2>1, <2>2
<1>4. CASE objects' = objects
  <2>1. ASSUME NEW r \in Runs, Uploaded(r)' PROVE Uploaded(r)
    <3>1. report[r] # None
      <4>1. PICK a \in report'[r].files : objects'[r][a] # 0
        BY <2>1 DEF Uploaded
      <4>2. report'[r] \in Report
        BY <1>1, <2>1, TypeStep, FilesType DEF TypeInv, TypeOK, Uploaded
      <4> QED
        BY <1>4, <4>1, <4>2 DEF NothingBeforeReport, Report
    <3> QED
      BY <1>1, <1>4, <2>1, <3>1 DEF Uploaded, Kept
  <2> QED
    BY <1>2, <2>1 DEF Done
<1> QED
  BY <1>3, <1>4, ObjectsMove

LEMMA PointerMoves ==
  ASSUME Inv, [Next]_vars
  PROVE  \/ pointer' = pointer
         \/ /\ \E q \in Pointers, r \in Done : pointer' = [pointer EXCEPT ![q] = r]
            /\ objects' = objects
<1>1. TypeInv
  BY DEF Inv
<1>2. ASSUME NEW p \in Publishers, Publish(p)
      PROVE  \/ pointer' = pointer
             \/ /\ \E q \in Pointers, r \in Done : pointer' = [pointer EXCEPT ![q] = r]
                /\ objects' = objects
  <2>1. Moves(p)
    BY <1>1, <1>2, PublishMoves
  <2>2. CASE PutsPointer(p)
    <3>1. job[p] \in Job /\ Uploaded(job[p].run) /\ job[p].target \in Pointers
      BY <1>1, <2>2, JobFields DEF PutsPointer, Inv, Progress, TypeInv, Control, AtLine
    <3> QED
      BY <2>2, <3>1 DEF PutsPointer, Done, Job
  <2>3. CASE ~PutsPointer(p)
    BY <2>1, <2>3 DEF Moves, Dies, Quits, Plans, TurnsToLatest, PutsRun, PutsLatest,
       TurnsToPointers, ReturnsNoPointers, Records, ReturnsPointers, TurnsToKey, bucket
  <2> QED
    BY <2>2, <2>3
<1>3. CASE DailySteps
  BY <1>1, <1>3, DailyMoves DEF Starts, Scores, Reports, WriteReport, EndDaily, bucket
<1>4. ASSUME NEW p \in Operators, PublishByHand(p) \/ EndByHand(p) PROVE pointer' = pointer
  BY <1>1, <1>4, ByHandMoves DEF ByHand, bucket
<1> QED
  BY <1>2, <1>3, <1>4 DEF Next, vars, bucket

\* publish_s3.py keeps the promise of Catalog: a step of any publisher makes
\* one run complete, points one pointer at a complete run, or changes neither.
THEOREM KeepsThePromise == Spec => ImplementsCatalog
<1>1. Init => Promise!Init /\ NothingBeforeReport
  BY DEF Init, Promise!Init, Uploaded, NothingBeforeReport, Names
<1>2. Inv /\ NothingBeforeReport /\ [Next]_vars => NothingBeforeReport'
  BY NothingEarly
<1>3. Inv /\ NothingBeforeReport /\ [Next]_vars
      => [Promise!Next]_<<{r \in Runs : Uploaded(r)}, pointer>>
  <2> SUFFICES ASSUME Inv, NothingBeforeReport, [Next]_vars
               PROVE  [Promise!Next]_<<Done, pointer>>
    BY DEF Done
  <2>1. CASE Done' = Done /\ pointer' = pointer
    BY <2>1
  <2>2. CASE pointer' = pointer /\ \E r \in Runs \ Done : Done' = Done \cup {r}
    BY <2>2 DEF Promise!Next, Promise!Complete, Done
  <2>3. CASE Done' = Done /\ \E q \in Pointers, r \in Done : pointer' = [pointer EXCEPT ![q] = r]
    BY <2>3 DEF Promise!Next, Promise!Point, Done
  <2> QED
    BY <2>1, <2>2, <2>3, WhatIsDone, PointerMoves
<1> QED
  BY <1>1, <1>2, <1>3, InvAlways, PTL DEF Spec, ImplementsCatalog, Promise!Spec

-----------------------------------------------------------------------------
\* score_jobs writes the ranked JSON of a key first, so no other output is on
\* disk, or in a report, without it.
RankedOnDisk == \A a \in Artifacts : disk[a] # 0 => disk[RankedOf[KeyOf[a]]] # 0

ScoredOnDisk ==
    pc[Daily] = "score" =>
        /\ job[Daily].todo \subseteq ArtifactsOf(job[Daily].keys)
        /\ \A a \in ArtifactsOf(job[Daily].keys) \ job[Daily].todo : disk[a] # 0

RankedInReports ==
    \A r \in Runs : report[r] # None =>
        \A a \in report[r].files : RankedOf[KeyOf[a]] \in report[r].files

RankedFirst == RankedOnDisk /\ ScoredOnDisk /\ RankedInReports

LEMMA RankedType ==
  ASSUME NEW a \in Artifacts
  PROVE  /\ KeyOf[a] \in Keys /\ RankedOf[KeyOf[a]] \in Artifacts
         /\ KeyOf[RankedOf[KeyOf[a]]] = KeyOf[a]
  BY PublishAssumption DEF PublishAssumption

\* A publisher that is not the daily run leaves the daily run alone, and any
\* line of publish_run leaves the disk and the reports alone.
LEMMA LinesLeaveAlone ==
  ASSUME TypeInv, NEW p \in Publishers, Publish(p)
  PROVE  /\ UNCHANGED <<disk, report, run, byHand, exit>>
         /\ pc'[Daily] = "score" => pc[Daily] = "score" /\ job'[Daily] = job[Daily]
         /\ pc'[Daily] \notin {"idle", "end"} => pc[Daily] \notin {"idle", "end"}
<1>1. Others(p) /\ Moves(p) /\ UNCHANGED <<disk, report, run, byHand, exit>> /\ Daily \in Publishers
  BY PublishMoves DEF Publishers
<1>2. pc'[p] # "score" /\ (pc'[p] \notin {"idle", "end"} => pc[p] \notin {"idle", "end"})
  BY <1>1 DEF Moves, Dies, Quits, Plans, TurnsToLatest, PutsRun, PutsLatest,
     TurnsToPointers, ReturnsNoPointers, PutsPointer, Records, ReturnsPointers, TurnsToKey
<1> QED
  BY <1>1, <1>2 DEF Others

LEMMA RankedStaysFirst ==
  ASSUME Inv, RankedFirst, [Next]_vars PROVE RankedFirst'
<1>1. Kept /\ TypeInv /\ TypeOK /\ Control
  BY KeptByNext DEF Inv, TypeInv
<1>2. ASSUME NEW a \in job[Daily].todo, Scores(a) PROVE RankedFirst'
  <2>1. job[Daily] \in Job /\ job[Daily].todo \subseteq ArtifactsOf(job[Daily].keys)
    BY <1>1, <1>2, JobFields DEF Scores, Publishers, RankedFirst, ScoredOnDisk
  <2>2. a \in Artifacts /\ run # 0
    BY <1>1, <1>2, <2>1 DEF Scores, Control, InOrder, Runs, ArtifactsOf
  <2>3. /\ disk'[a] = run /\ \A b \in Artifacts \ {a} : disk'[b] = disk[b]
        /\ job'[Daily].todo = job[Daily].todo \ {a} /\ job'[Daily].keys = job[Daily].keys
        /\ report' = report
    BY <1>1, <1>2, <2>2 DEF Scores, Left, JobIs, TypeOK
  <2>4. disk'[RankedOf[KeyOf[a]]] # 0
    <3>1. RankedOf[KeyOf[a]] \in ArtifactsOf(job[Daily].keys)
      BY <2>1, <2>2, RankedType DEF ArtifactsOf
    <3>2. RankedOf[KeyOf[a]] = a \/ RankedOf[KeyOf[a]] \notin job[Daily].todo
      BY <1>2 DEF Scores
    <3>3. pc[Daily] = "score"
      BY <1>2 DEF Scores
    <3> QED
      BY <1>1, <2>2, <2>3, <3>1, <3>2, <3>3 DEF RankedFirst, ScoredOnDisk, Kept, ArtifactsOf
  <2>5. RankedOnDisk'
    <3> SUFFICES ASSUME NEW b \in Artifacts, disk'[b] # 0 PROVE disk'[RankedOf[KeyOf[b]]] # 0
      BY DEF RankedOnDisk
    <3>1. CASE b = a
      BY <2>4, <3>1
    <3>2. CASE b # a
      BY <1>1, <2>3, <3>2, RankedType DEF RankedFirst, RankedOnDisk, Kept
    <3> QED
      BY <3>1, <3>2
  <2>6. ScoredOnDisk'
    BY <1>1, <1>2, <2>1, <2>2, <2>3 DEF RankedFirst, ScoredOnDisk, Scores, Kept, ArtifactsOf
  <2> QED
    BY <2>3, <2>5, <2>6 DEF RankedFirst, RankedInReports
<1>3. CASE Starts
  <2>1. PICK keys \in SUBSET Keys : job'[Daily] = NewJob(run + 1, keys, ArtifactsOf(keys), FALSE)
    BY <1>3 DEF Starts
  <2>2. job'[Daily].todo = ArtifactsOf(keys) /\ job'[Daily].keys = keys
    BY <2>1 DEF NewJob
  <2> QED
    BY <1>3, <2>2 DEF Starts, RankedFirst, RankedOnDisk, ScoredOnDisk, RankedInReports, ArtifactsOf
<1>4. CASE Reports
  <2>1. PICK status : WriteReport(status)
    BY <1>4 DEF Reports
  <2>2. disk' = disk /\ pc'[Daily] # "score"
    BY <1>4, <2>1 DEF Reports, WriteReport
  <2>3. run \in Runs /\ \A r \in Runs \ {run} : report'[r] = report[r]
    BY <1>1, <1>4, <2>1 DEF WriteReport, TypeOK, Control, InOrder, Reports
  <2>4. report'[run].files = {a \in ArtifactsOf(job[Daily].keys) : disk[a] # 0}
    BY <1>1, <2>1, <2>3 DEF WriteReport, TypeOK
  <2>5. ASSUME NEW a \in report'[run].files PROVE RankedOf[KeyOf[a]] \in report'[run].files
    BY <2>4, <2>5, RankedType DEF RankedFirst, RankedOnDisk, ArtifactsOf
  <2> QED
    BY <2>2, <2>3, <2>5 DEF RankedFirst, RankedOnDisk, ScoredOnDisk, RankedInReports
<1>5. ASSUME disk' = disk, \A r \in Runs : report'[r] # None => report[r] # None,
             pc'[Daily] = "score" => pc[Daily] = "score" /\ job'[Daily] = job[Daily]
      PROVE  RankedFirst'
  <2>1. RankedInReports'
    BY <1>1, <1>5 DEF RankedFirst, RankedInReports, Kept
  <2> QED
    BY <1>5, <2>1 DEF RankedFirst, RankedOnDisk, ScoredOnDisk
<1>6. CASE EndDaily /\ pc'[Daily] = "idle"
  <2>1. report[run] # None /\ disk' = disk
    BY <1>1, <1>6 DEF EndDaily, Control, InOrder, AtLine, Publishers
  <2> QED
    BY <1>1, <1>5, <1>6, <2>1 DEF EndDaily, TypeOK
<1>7. ASSUME NEW p \in Publishers, Publish(p) PROVE RankedFirst'
  BY <1>1, <1>5, <1>7, LinesLeaveAlone
<1>8. ASSUME NEW p \in Operators, PublishByHand(p) \/ EndByHand(p) PROVE RankedFirst'
  <2>1. p # Daily /\ Daily \in Publishers
    BY PublishAssumption DEF PublishAssumption, Publishers
  <2> QED
    BY <1>1, <1>5, <1>8, <2>1, ByHandMoves DEF ByHand, Others
<1>9. CASE UNCHANGED vars
  BY <1>5, <1>9 DEF vars
<1> QED
  BY <1>1, <1>2, <1>3, <1>4, <1>6, <1>7, <1>8, <1>9, DailyMoves DEF Next

\* The report of run r names an output of the key.
HasKey(r, key) == \E a \in report[r].files : KeyOf[a] = key

\* The pointers a publisher has still to write are of keys its run has.
AtKey(p) ==
    pc[p] \in {"pointer", "legacy"} =>
        \A key \in job[p].keys_left \cup {job[p].target} :
            key \in Keys => HasKey(job[p].run, key)

PointersHaveKeys ==
    /\ \A key \in Keys : \A r \in {pointer[key], legacy[key]} \ {0} : HasKey(r, key)
    /\ \A p \in Publishers : AtKey(p)

\* What its pointers turned to since, and its next target, a publisher had
\* among its targets before.
LEMMA TargetsMove ==
  ASSUME Inv, NEW p \in Publishers, Publish(p), AtKey(p) PROVE AtKey(p)'
<1>1. TypeInv /\ Moves(p) /\ report' = report /\ Global \notin Keys
  BY PublishMoves, PublishAssumption DEF Inv, PublishAssumption
<1>2. CASE TurnsToPointers(p)
  BY <1>1, <1>2 DEF TurnsToPointers, JobIs, AtKey, HasKey, Files
<1>3. CASE PutsPointer(p)
  BY <1>1, <1>3 DEF PutsPointer, AtKey, HasKey
<1>4. ASSUME NEW result, NEW key, TurnsToKey(p, result, key) PROVE AtKey(p)'
  BY <1>1, <1>4 DEF TurnsToKey, Records, JobIs, AtKey, HasKey
<1>5. CASE pc'[p] \notin {"pointer", "legacy"}
  BY <1>5 DEF AtKey
<1> QED
  BY <1>1, <1>2, <1>3, <1>4, <1>5 DEF Moves, Dies, Quits, Plans, TurnsToLatest, PutsRun,
     PutsLatest, ReturnsNoPointers, ReturnsPointers

LEMMA KeysStay ==
  ASSUME TypeInv, Kept, NEW r \in Runs, report[r] # None, NEW key, HasKey(r, key)
  PROVE  HasKey(r, key)'
  BY DEF Kept, HasKey

LEMMA PointersKeepKeys ==
  ASSUME Inv, PointersHaveKeys, [Next]_vars PROVE PointersHaveKeys'
<1>1. Kept /\ TypeInv /\ TypeOK /\ Daily \in Publishers
  BY KeptByNext DEF Inv, TypeInv, Publishers
<1>2. ASSUME NEW key \in Keys, NEW r \in {pointer[key], legacy[key]} \ {0}
      PROVE  HasKey(r, key)'
  <2>1. key \in Pointers /\ r \in Runs
    BY <1>1, <1>2, PublishAssumption DEF PublishAssumption, TypeOK, Pointers, Runs
  <2>2. report[r] # None /\ HasKey(r, key)
    BY <1>2, <2>1 DEF Inv, PointersNameCompleteRuns, Uploaded, PointersHaveKeys
  <2> QED
    BY <1>1, <2>1, <2>2, KeysStay
<1>3. ASSUME NEW p \in Publishers, AtKey(p), pc'[p] = pc[p], job'[p] = job[p] PROVE AtKey(p)'
  <2>1. CASE pc[p] \notin {"pointer", "legacy"}
    BY <1>3, <2>1 DEF AtKey
  <2>2. ASSUME pc[p] \in {"pointer", "legacy"} PROVE job[p].run \in Runs /\ report[job[p].run] # None
    BY <1>1, <2>2, JobFields DEF TypeInv, Control, AtLine, Job
  <2>3. ASSUME pc[p] \in {"pointer", "legacy"}, NEW r \in Runs, r = job[p].run,
               NEW key \in job[p].keys_left \cup {job[p].target}, key \in Keys
        PROVE  \E a \in report'[r].files : KeyOf[a] = key
    <3>1. report[r] # None /\ HasKey(r, key)
      BY <1>3, <2>2, <2>3 DEF AtKey
    <3> QED
      BY <1>1, <3>1, KeysStay DEF HasKey
  <2>4. CASE pc[p] \in {"pointer", "legacy"}
    BY <1>3, <2>2, <2>3, <2>4 DEF AtKey, HasKey
  <2> QED
    BY <2>1, <2>4
<1>4. ASSUME NEW p \in Publishers, Others(p), AtKey(p)' PROVE \A q \in Publishers : AtKey(q)'
  BY <1>3, <1>4 DEF Others, PointersHaveKeys
<1>5. CASE UNCHANGED <<pointer, legacy>> /\ \A p \in Publishers : AtKey(p)'
  BY <1>2, <1>5 DEF PointersHaveKeys
<1>6. ASSUME NEW p \in Publishers, Publish(p) PROVE PointersHaveKeys'
  <2>1. Others(p) /\ Moves(p) /\ \A q \in Publishers : AtKey(q)'
    BY <1>1, <1>4, <1>6, PublishMoves, TargetsMove DEF PointersHaveKeys
  <2>2. ASSUME pc[p] \in {"pointer", "legacy"}, NEW q \in Keys, NEW r, r = job[p].run,
               pointer'[q] # pointer[q] \/ legacy'[q] # legacy[q],
               \A k \in Pointers \ {job[p].target} : pointer'[k] = pointer[k] /\ legacy'[k] = legacy[k]
        PROVE  HasKey(r, q)'
    <3>1. r \in Runs /\ report[r] # None
      BY <1>1, <2>2, JobFields DEF TypeInv, Control, AtLine, Job
    <3>2. q = job[p].target /\ HasKey(r, q)
      BY <2>2 DEF PointersHaveKeys, AtKey, Pointers
    <3> QED
      BY <1>1, <3>1, <3>2, KeysStay
  <2>3. CASE PutsPointer(p)
    <3>1. /\ pc[p] = "pointer" /\ legacy' = legacy
          /\ \A k \in Pointers : pointer'[k] \in {pointer[k], job[p].run}
          /\ \A k \in Pointers \ {job[p].target} : pointer'[k] = pointer[k]
      BY <1>1, <2>3 DEF PutsPointer, TypeOK
    <3>2. ASSUME NEW q \in Keys, NEW r \in {pointer'[q], legacy'[q]} \ {0} PROVE HasKey(r, q)'
      BY <1>2, <2>2, <3>1, <3>2 DEF Pointers
    <3> QED
      BY <2>1, <3>2 DEF PointersHaveKeys
  <2>4. ASSUME NEW result, Records(p, result) PROVE PointersHaveKeys'
    <3>1. /\ pc[p] \in {"pointer", "legacy"} /\ pointer' = pointer
          /\ \A k \in Pointers : legacy'[k] \in {legacy[k], job[p].run}
          /\ \A k \in Pointers \ {job[p].target} : legacy'[k] = legacy[k]
      BY <1>1, <2>4 DEF Records, TypeOK
    <3>2. ASSUME NEW q \in Keys, NEW r \in {pointer'[q], legacy'[q]} \ {0} PROVE HasKey(r, q)'
      BY <1>2, <2>2, <3>1, <3>2 DEF Pointers
    <3> QED
      BY <2>1, <3>2 DEF PointersHaveKeys
  <2> QED
    BY <1>5, <2>1, <2>3, <2>4 DEF Moves, Dies, Quits, Plans, TurnsToLatest, PutsRun,
       PutsLatest, TurnsToPointers, ReturnsNoPointers, ReturnsPointers, TurnsToKey, bucket
<1>7. CASE DailySteps
  <2>1. UNCHANGED <<pointer, legacy>> /\ Others(Daily) /\ pc'[Daily] \notin {"pointer", "legacy"}
    BY <1>1, <1>7, DailyMoves DEF Starts, Scores, Reports, WriteReport, EndDaily, bucket
  <2> QED
    BY <1>1, <1>4, <1>5, <2>1 DEF AtKey
<1>8. ASSUME NEW p \in Operators, PublishByHand(p) \/ EndByHand(p) PROVE PointersHaveKeys'
  <2>1. /\ UNCHANGED <<pointer, legacy>> /\ Others(p) /\ p \in Publishers
        /\ pc'[p] \notin {"pointer", "legacy"}
    BY <1>1, <1>8, ByHandMoves DEF ByHand, bucket, Publishers
  <2> QED
    BY <1>4, <1>5, <2>1 DEF AtKey
<1>9. CASE UNCHANGED vars
  BY <1>3, <1>5, <1>9 DEF vars, bucket, PointersHaveKeys
<1> QED
  BY <1>6, <1>7, <1>8, <1>9 DEF Next

\* A later run that follows the pointer of a key finds a ranked list it can
\* download, whatever failed on the way and whoever else was publishing.
THEOREM BaselinesResolve == Spec => []BaselineResolves
<1> DEFINE BInv == RankedFirst /\ PointersHaveKeys
<1>1. Init => BInv
  BY DEF Init, RankedFirst, RankedOnDisk, ScoredOnDisk, RankedInReports, PointersHaveKeys, AtKey,
     Pointers, Publishers
<1>2. Inv /\ BInv /\ [Next]_vars => BInv'
  BY RankedStaysFirst, PointersKeepKeys
<1>3. Inv /\ BInv => BaselineResolves
  <2> SUFFICES ASSUME Inv, BInv, NEW key \in Keys, NEW r \in Runs,
                      ReadPointer(key) \notin {0, r}
               PROVE  Baseline(r, key) = ReadPointer(key)
    BY DEF BaselineResolves
  <2>1. PICK found \in {pointer[key], legacy[key]} \ {0} : found = ReadPointer(key)
    BY DEF ReadPointer
  <2>2. key \in Pointers /\ found \in Runs
    BY <2>1, PublishAssumption DEF PublishAssumption, Inv, TypeInv, TypeOK, Pointers, Runs
  <2>3. Uploaded(found) /\ HasKey(found, key)
    BY <2>1, <2>2 DEF Inv, PointersNameCompleteRuns, PointersHaveKeys
  <2>4. RankedOf[key] \in report[found].files
    BY <2>2, <2>3 DEF HasKey, RankedFirst, RankedInReports, Uploaded
  <2>5. Readable(found, key)
    BY <2>3, <2>4 DEF Readable, Uploaded
  <2> QED
    BY <2>1, <2>5 DEF Baseline, Usable
<1> QED
  BY <1>1, <1>2, <1>3, InvAlways, PTL DEF Spec

-----------------------------------------------------------------------------
\* The report of the last run has hashed the files that are on disk, and names
\* outputs of the keys it was asked for: the lock keeps the next run from
\* writing them before this one is published.
HashedAsIs == run \in Runs /\ report[run] # None => report[run].sha = disk

FilesAsked ==
    pc[Daily] \notin {"idle", "score"} => report[run].files \subseteq ArtifactsOf(job[Daily].keys)

LastReport == HashedAsIs /\ FilesAsked

LEMMA LastReportStays == ASSUME Inv, LastReport, [Next]_vars PROVE LastReport'
<1>1. Kept /\ TypeInv /\ TypeOK /\ Control /\ Daily \in Publishers
  BY KeptByNext DEF Inv, TypeInv, Publishers
<1>2. CASE Starts
  <2>1. run' \notin Runs \/ report[run'] = None
    BY <1>1, <1>2 DEF Starts, TypeOK, Control, InOrder, Runs
  <2> QED
    BY <1>2, <2>1 DEF Starts, LastReport, HashedAsIs, FilesAsked
<1>3. CASE \E a \in job[Daily].todo : Scores(a)
  BY <1>1, <1>3 DEF Scores, Control, InOrder, LastReport, HashedAsIs, FilesAsked
<1>4. CASE Reports
  <2>1. PICK status : WriteReport(status)
    BY <1>4 DEF Reports
  <2>2. /\ run \in Runs /\ run' = run /\ disk' = disk
        /\ report'[run].sha = disk
        /\ report'[run].files = {a \in ArtifactsOf(job[Daily].keys) : disk[a] # 0}
    BY <1>1, <1>4, <2>1 DEF WriteReport, TypeOK, Control, InOrder, Reports
  <2>3. pc'[Daily] # "idle" => job'[Daily].keys = job[Daily].keys
    BY <1>4 DEF Reports, Left, JobIs
  <2> QED
    BY <2>2, <2>3 DEF LastReport, HashedAsIs, FilesAsked, ArtifactsOf
<1>5. CASE EndDaily /\ pc'[Daily] = "idle"
  <2>1. report[run] # None /\ run \in Runs /\ UNCHANGED <<disk, run>>
    BY <1>1, <1>5 DEF EndDaily, Control, InOrder, AtLine
  <2> QED
    BY <1>1, <1>5, <2>1 DEF LastReport, HashedAsIs, FilesAsked, Kept
<1>6. ASSUME UNCHANGED <<disk, report, run>>,
             pc'[Daily] \notin {"idle", "score"} =>
                 pc[Daily] \notin {"idle", "score"} /\ job'[Daily].keys = job[Daily].keys
      PROVE  LastReport'
  BY <1>6 DEF LastReport, HashedAsIs, FilesAsked, ArtifactsOf
<1>7. ASSUME NEW p \in Publishers, Publish(p) PROVE LastReport'
  <2>1. Others(p) /\ Moves(p) /\ UNCHANGED <<disk, report, run, byHand, exit>>
    BY <1>1, <1>7, PublishMoves
  <2>2. pc'[p] \notin {"idle", "score"} =>
            pc[p] \notin {"idle", "score"} /\ job'[p].keys = job[p].keys
    BY <2>1 DEF Moves, Dies, Quits, Plans, TurnsToLatest, PutsRun, PutsLatest, Left, JobIs,
       TurnsToPointers, ReturnsNoPointers, PutsPointer, Records, ReturnsPointers, TurnsToKey
  <2> QED
    BY <1>1, <1>6, <2>1, <2>2 DEF Others
<1>8. ASSUME NEW p \in Operators, PublishByHand(p) \/ EndByHand(p) PROVE LastReport'
  <2>1. p # Daily
    BY PublishAssumption DEF PublishAssumption
  <2> QED
    BY <1>1, <1>6, <1>8, <2>1, ByHandMoves DEF ByHand, Others
<1>9. CASE UNCHANGED vars
  BY <1>6, <1>9 DEF vars
<1> QED
  BY <1>1, <1>2, <1>3, <1>4, <1>5, <1>7, <1>8, <1>9, DailyMoves DEF Next

\* While only daily runs publish: what is under runs/ is what the reports hashed,
\* and what is under latest/ when the global pointer is written, of the last run.
AsReported ==
    \A r \in Runs, a \in Artifacts :
        objects[r][a] # 0 => report[r] # None /\ objects[r][a] = report[r].sha[a]

AllLatest == \A a \in report[run].files : latest[a] = run

InPlace ==
    /\ pc[Daily] \in {"begin", "runs", "latest"} => pointer[Global] # run
    /\ pc[Daily] = "latest" => \A a \in report[run].files \ job[Daily].todo : latest[a] = run
    /\ pc[Daily] \in {"pointer", "legacy"} => AllLatest
    /\ run \in Runs /\ pointer[Global] = run => AllLatest

Idle == \A p \in Operators : pc[p] = "idle"

Solo == byHand = 0 => Idle /\ AsReported /\ InPlace

SInv == Inv /\ NothingBeforeReport /\ LastReport /\ Solo

LEMMA SoloSteps ==
  ASSUME Inv, Solo, [Next]_vars, byHand' = 0
  PROVE  byHand = 0 /\ Idle' /\ (DailySteps \/ Publish(Daily) \/ UNCHANGED vars)
<1>1. TypeInv /\ TypeOK /\ Daily \notin Operators
  BY PublishAssumption DEF Inv, TypeInv, PublishAssumption
<1>2. ASSUME NEW p \in Operators, PublishByHand(p) \/ EndByHand(p), byHand' = 0, byHand = 0
      PROVE  FALSE
  BY <1>2 DEF PublishByHand, EndByHand, Solo, Idle
<1>3. ASSUME NEW p \in Operators, Publish(p), byHand = 0 PROVE FALSE
  <2>1. pc[p] = "idle" /\ p \in Publishers
    BY <1>3 DEF Solo, Idle, Publishers
  <2> QED
    BY <1>3, <2>1 DEF Publish, Begin, UploadRun, TurnToLatest, UploadLatest, UploadFails,
       TurnToPointers, PutPointer, PutLegacy, PutRefused, PutRaises, Crash
<1>4. byHand = 0
  <2>1. ASSUME NEW p \in Operators, PublishByHand(p) PROVE FALSE
    <3>1. byHand' = byHand + 1 /\ byHand \in Nat
      BY <1>1, <2>1, PublishAssumption DEF PublishByHand, TypeOK, PublishAssumption
    <3> QED
      BY <3>1
  <2>2. CASE DailySteps
    BY <1>1, <2>2, DailyMoves
  <2>3. ASSUME NEW p \in Publishers, Publish(p) PROVE byHand' = byHand
    BY <1>1, <2>3, PublishMoves
  <2>4. ASSUME NEW p \in Operators, EndByHand(p) PROVE byHand' = byHand
    BY <2>4 DEF EndByHand
  <2> QED
    BY <2>1, <2>2, <2>3, <2>4 DEF Next, vars
<1>5. DailySteps \/ Publish(Daily) \/ UNCHANGED vars
  BY <1>2, <1>3, <1>4 DEF Next, Publishers
<1>6. Idle'
  <2>1. CASE DailySteps \/ Publish(Daily)
    BY <1>1, <1>4, <2>1, DailyMoves, PublishMoves DEF Solo, Idle, Others, Publishers
  <2> QED
    BY <1>4, <1>5, <2>1 DEF Solo, Idle, vars
<1> QED
  BY <1>4, <1>5, <1>6

LEMMA StaysAsReported ==
  ASSUME SInv, [Next]_vars, byHand' = 0 PROVE AsReported'
<1>1. Kept /\ TypeInv /\ TypeOK /\ Inv /\ Control
  BY KeptByNext DEF SInv, Inv, TypeInv
<1>2. AsReported /\ byHand = 0 /\ Idle
  BY SoloSteps DEF SInv, Solo
<1>3. CASE objects' = objects
  BY <1>1, <1>2, <1>3 DEF AsReported, Kept
<1>4. ASSUME NEW p \in Publishers, NEW a \in Artifacts, Puts(p, a) PROVE AsReported'
  <2>1. p = Daily
    BY <1>2, <1>4 DEF Puts, PutsRun, Idle, Publishers
  <2>2. job[p].run = run /\ pc[p] = "runs"
    BY <1>1, <1>4, <2>1 DEF Puts, PutsRun, Control, InOrder
  <2>3. report[run].sha = disk /\ report[run] # None /\ report' = report /\ run \in Runs
    BY <1>4, <2>2 DEF Puts, SInv, LastReport, HashedAsIs
  <2>4. \A r \in Runs, b \in Artifacts :
            objects'[r][b] = objects[r][b] \/ (r = run /\ b = a /\ objects'[r][b] = disk[a])
    BY <1>1, <1>4, <2>2 DEF Puts, PutsRun, TypeOK, Names
  <2> QED
    BY <1>2, <2>3, <2>4 DEF AsReported
<1> QED
  BY <1>1, <1>3, <1>4, ObjectsMove

LEMMA StaysInPlace ==
  ASSUME SInv, [Next]_vars, byHand' = 0 PROVE InPlace'
<1>1. Kept /\ TypeInv /\ TypeOK /\ Inv /\ Control /\ Daily \in Publishers
  BY KeptByNext DEF SInv, Inv, TypeInv, Publishers
<1>2. InPlace /\ (DailySteps \/ Publish(Daily) \/ UNCHANGED vars)
  BY SoloSteps DEF SInv, Solo
<1>3. \A r \in Runs : pointer[Global] = r => report[r] # None
  BY <1>1, PublishAssumption
     DEF Inv, PointersNameCompleteRuns, Pointers, Uploaded, Runs, PublishAssumption
<1>4. CASE Starts
  <2>1. run' = run + 1 /\ pc'[Daily] = "score" /\ pointer' = pointer
    BY <1>4 DEF Starts, bucket
  <2>2. run' \in Runs => pointer'[Global] # run'
    BY <1>1, <1>3, <2>1 DEF TypeOK, Control, InOrder, Runs
  <2> QED
    BY <2>1, <2>2 DEF InPlace
<1>5. CASE Reports
  <2>1. /\ pc[Daily] = "score" /\ pc'[Daily] \in {"begin", "idle"}
        /\ UNCHANGED <<run, latest, pointer, legacy>>
    BY <1>5 DEF Reports, WriteReport, bucket
  <2>2. pointer'[Global] # run'
    BY <1>1, <1>3, <2>1 DEF Control, InOrder
  <2> QED
    BY <2>1, <2>2 DEF InPlace
<1>6. CASE \E a \in job[Daily].todo : Scores(a)
  BY <1>2, <1>6 DEF Scores, InPlace, AllLatest, bucket
<1>7. CASE EndDaily /\ pc'[Daily] = "idle"
  <2>1. /\ report[run] # None /\ run \in Runs
        /\ UNCHANGED <<run, latest, pointer, legacy>>
    BY <1>1, <1>7 DEF EndDaily, Control, InOrder, AtLine, bucket
  <2> QED
    BY <1>1, <1>2, <1>7, <2>1 DEF InPlace, AllLatest, Kept
<1>8. CASE Publish(Daily)
  <2>1. Moves(Daily) /\ UNCHANGED <<report, run>>
    BY <1>1, <1>8, PublishMoves
  <2>2. ASSUME pc[Daily] \notin {"idle", "score"}
        PROVE  /\ job[Daily].run = run /\ run \in Runs /\ Files(Daily) = report[run].files
               /\ report[run].files \subseteq ArtifactsOf(job[Daily].keys)
               /\ report[run].files \subseteq Artifacts
    BY <1>1, <2>2, FilesType DEF Control, InOrder, AtLine, SInv, LastReport, FilesAsked, Files
  <2>3. CASE Dies(Daily) \/ Quits(Daily) \/ Plans(Daily) \/ ReturnsNoPointers(Daily)
    BY <1>2, <2>1, <2>3 DEF Dies, Quits, Plans, ReturnsNoPointers, InPlace, AllLatest, bucket
  <2>4. CASE TurnsToLatest(Daily)
    BY <1>2, <2>1, <2>2, <2>4 DEF TurnsToLatest, Left, JobIs, InPlace, AllLatest, bucket
  <2>5. ASSUME NEW a \in job[Daily].todo, PutsRun(Daily, a) PROVE InPlace'
    BY <1>2, <2>1, <2>5 DEF PutsRun, InPlace, AllLatest
  <2>6. ASSUME NEW a \in job[Daily].todo, PutsLatest(Daily, a) PROVE InPlace'
    <3>1. /\ pc[Daily] = "latest" /\ pc'[Daily] = "latest" /\ pointer' = pointer
          /\ job'[Daily].todo = job[Daily].todo \ {a}
      BY <2>6 DEF PutsLatest, Left, JobIs
    <3>2. \A b \in Artifacts : latest'[b] = IF b = a THEN run ELSE latest[b]
      BY <1>1, <2>2, <2>6, <3>1 DEF PutsLatest, TypeOK
    <3> QED
      BY <1>2, <2>1, <2>2, <3>1, <3>2 DEF InPlace, AllLatest
  <2>7. CASE TurnsToPointers(Daily)
    BY <1>2, <2>1, <2>7 DEF TurnsToPointers, InPlace, AllLatest, bucket
  <2>8. CASE PutsPointer(Daily)
    BY <1>2, <2>1, <2>8 DEF PutsPointer, InPlace, AllLatest
  <2>9. ASSUME NEW result, Records(Daily, result), pc'[Daily] \in {"pointer", "end"} PROVE InPlace'
    BY <1>2, <2>1, <2>9 DEF Records, InPlace, AllLatest
  <2> QED
    BY <2>1, <2>3, <2>4, <2>5, <2>6, <2>7, <2>8, <2>9 DEF Moves, ReturnsPointers, TurnsToKey
<1>9. CASE UNCHANGED vars
  BY <1>2, <1>9 DEF vars, bucket, InPlace, AllLatest
<1> QED
  BY <1>1, <1>2, <1>4, <1>5, <1>6, <1>7, <1>8, <1>9, DailyMoves

LEMMA SInvInit == ASSUME Init PROVE SInv
<1>1. Inv
  BY InvInit
<1>2. MaxRun \in Nat /\ Daily \in Publishers
  BY PublishAssumption DEF PublishAssumption, Publishers
<1> QED
  BY <1>1, <1>2 DEF Init, SInv, NothingBeforeReport, LastReport, HashedAsIs, FilesAsked, Solo,
     Idle, AsReported, InPlace, Names, Runs, Publishers

LEMMA SInvStep == SInv /\ [Next]_vars => SInv'
<1> SUFFICES ASSUME SInv, [Next]_vars PROVE SInv'
  OBVIOUS
<1>1. Inv' /\ NothingBeforeReport' /\ LastReport'
  BY InvStep, NothingEarly, LastReportStays DEF SInv
<1>2. Solo'
  BY SoloSteps, StaysAsReported, StaysInPlace DEF SInv, Solo
<1> QED
  BY <1>1, <1>2 DEF SInv

\* Nothing is uploaded before its report; and while only daily runs publish, the
\* bucket holds what their reports hashed.
THEOREM SInvAlways == Spec => []SInv
  BY SInvInit, SInvStep, PTL DEF Spec

\* While only daily runs publish, the verification of a run tells whether all
\* of it is in the bucket, that of the last run stands offline, and once the
\* last run has got the global pointer latest/ holds it.
THEOREM UploadsMatchReports == Spec => []UploadedMatchesReport
<1>1. SInv => UploadedMatchesReport
  <2> SUFFICES ASSUME SInv, byHand = 0, NEW r \in Runs
               PROVE  /\ \A a \in Artifacts :
                           objects[r][a] # 0 =>
                               report[r] # None /\ objects[r][a] = report[r].sha[a]
                      /\ \A size \in Sizes : Verified(r, FALSE, size) <=> Uploaded(r)
                      /\ r = run /\ HasPlan(r) => VerifiedOffline(r)
                      /\ r = run /\ pointer[Global] = r =>
                            \A size \in Sizes : Verified(r, TRUE, size)
    BY DEF UploadedMatchesReport
  <2>1. Inv /\ TypeInv /\ AsReported /\ InPlace /\ HashedAsIs
    BY DEF SInv, Inv, Solo, LastReport
  <2>2. HasPlan(r) => report[r].files \subseteq Artifacts
    BY <2>1, FilesType DEF HasPlan
  <2>3. ASSUME HasPlan(r), NEW a \in report[r].files
        PROVE  /\ [kind |-> "runs", file |-> a] \in Entries(r, FALSE)
               /\ Head(r, [kind |-> "runs", file |-> a]) = objects[r][a]
    BY <2>3 DEF Entries, Head
  <2>4. ASSUME HasPlan(r), NEW vl \in BOOLEAN, NEW e \in Entries(r, vl)
        PROVE  /\ e.file \in report[r].files /\ e.kind \in {"runs", "latest"}
               /\ e.kind = "latest" => vl = TRUE
    BY <2>4 DEF Entries
  <2>5. ASSUME NEW size, Uploaded(r), NEW e \in Entries(r, FALSE)
        PROVE  Head(r, e) # 0 /\ size[Head(r, e)] = size[Expected(r, e)]
    <3>1. HasPlan(r) /\ e.file \in report[r].files /\ e.kind = "runs"
      BY <2>4, <2>5 DEF Uploaded, HasPlan
    <3>2. objects[r][e.file] # 0 /\ objects[r][e.file] = report[r].sha[e.file]
      BY <2>1, <2>2, <2>5, <3>1 DEF AsReported, Uploaded
    <3> QED
      BY <3>1, <3>2 DEF Head, Expected
  <2>6. ASSUME NEW size PROVE Verified(r, FALSE, size) <=> Uploaded(r)
    BY <2>3, <2>5 DEF Verified, Uploaded, HasPlan
  <2>7. r = run /\ HasPlan(r) => VerifiedOffline(r)
    BY <2>1, <2>4 DEF HasPlan, HashedAsIs, VerifiedOffline, Expected
  <2>8. ASSUME r = run, pointer[Global] = r, NEW size PROVE Verified(r, TRUE, size)
    <3>1. Uploaded(r) /\ HasPlan(r) /\ r # 0
      BY <2>1, <2>8
         DEF Inv, PointersNameCompleteRuns, Pointers, Uploaded, HasPlan, Runs
    <3>2. ASSUME NEW a \in report[r].files PROVE latest[a] = r /\ report[r].sha[a] # 0
      BY <2>1, <2>8, <3>1 DEF InPlace, AllLatest, HashedAsIs, Inv, FilesOnDisk, HasPlan
    <3>3. ASSUME NEW e \in Entries(r, TRUE)
          PROVE  Head(r, e) # 0 /\ size[Head(r, e)] = size[Expected(r, e)]
      <4>1. e.file \in report[r].files /\ e.kind \in {"runs", "latest"}
        BY <2>4, <3>1
      <4>2. CASE e.kind = "runs"
        BY <2>1, <2>2, <3>1, <4>1, <4>2 DEF AsReported, Uploaded, Head, Expected
      <4>3. CASE e.kind = "latest"
        BY <3>1, <3>2, <4>1, <4>3 DEF Head, Expected
      <4> QED
        BY <4>1, <4>2, <4>3
    <3> QED
      BY <3>1, <3>3 DEF Verified
  <2> QED
    BY <2>1, <2>6, <2>7, <2>8 DEF AsReported
<1> QED
  BY <1>1, SInvAlways, PTL

-----------------------------------------------------------------------------
\* What publish_run has recorded of the pointers when it returns, and the exit
\* code it lets the daily run end with.
Wrote(q) == job[Daily].pointer_write[q] # "skipped"

Unsettled == pc[Daily] # "idle" => exit = None

NotReturned ==
    /\ pc[Daily] \notin {"idle", "end"} => ~job[Daily].returned
    /\ pc[Daily] \in {"score", "begin", "runs", "latest"} => \A q \in Pointers : ~Wrote(q)

\* A pointer recorded as written names this run, as does its legacy copy.
WrittenHere ==
    /\ pc[Daily] # "idle" =>
          \A q \in Pointers :
              job[Daily].pointer_write[q] = "ok" => pointer[q] = run /\ legacy[q] = run
    /\ pc[Daily] = "legacy" => pointer[job[Daily].target] = run

\* No key of the report is passed over.
KeysInTurn ==
    pc[Daily] \in {"pointer", "legacy"} =>
        \A key \in Keys : HasKey(run, key) =>
            key \in job[Daily].keys_left \cup {job[Daily].target} \/ Wrote(key)

AllKeysTold ==
    pc[Daily] = "end" /\ job[Daily].returned /\ job[Daily].pointer_write[Global] = "ok" =>
        \A key \in Keys : HasKey(run, key) => Wrote(key)

Told == KeysInTurn /\ AllKeysTold

CInv == Unsettled /\ NotReturned /\ (byHand = 0 => WrittenHere /\ Told)

LEMMA FreshJob ==
  ASSUME Starts
  PROVE  ~job'[Daily].returned /\ \A q \in Pointers : job'[Daily].pointer_write[q] = "skipped"
  BY DEF Starts, NewJob

\* Not all of what a step of the others can change: the job of the daily run.
LEMMA StaysUnsettled ==
  ASSUME TypeInv, Unsettled, NotReturned, [Next]_vars PROVE Unsettled' /\ NotReturned'
<1>1. Daily \in Publishers
  BY DEF Publishers
<1>2. CASE Starts
  BY <1>2, FreshJob DEF Starts, Unsettled, NotReturned, Wrote
<1>3. CASE Reports \/ \E a \in job[Daily].todo : Scores(a)
  BY <1>3 DEF Reports, Scores, Left, JobIs, Unsettled, NotReturned, Wrote
<1>4. CASE pc'[Daily] = "idle"
  BY <1>4 DEF Unsettled, NotReturned
<1>5. CASE exit' = exit /\ pc'[Daily] = pc[Daily] /\ job'[Daily] = job[Daily]
  BY <1>5 DEF Unsettled, NotReturned, Wrote
<1>6. CASE Publish(Daily)
  <2>1. Moves(Daily) /\ exit' = exit
    BY <1>1, <1>6, PublishMoves
  <2>2. pc'[Daily] # "idle" => pc[Daily] # "idle" /\ pc'[Daily] # "score"
    BY <2>1 DEF Moves, Dies, Quits, Plans, TurnsToLatest, PutsRun, PutsLatest,
       TurnsToPointers, ReturnsNoPointers, PutsPointer, Records, ReturnsPointers, TurnsToKey
  <2>3. pc'[Daily] \notin {"idle", "end"} => ~job'[Daily].returned
    BY <2>1 DEF NotReturned, Moves, Dies, Quits, Plans, TurnsToLatest, PutsRun, PutsLatest, Left,
       JobIs, TurnsToPointers, ReturnsNoPointers, PutsPointer, Records, ReturnsPointers, TurnsToKey
  <2>4. pc'[Daily] \in {"begin", "runs", "latest"} =>
            /\ pc[Daily] \in {"begin", "runs", "latest"}
            /\ job'[Daily].pointer_write = job[Daily].pointer_write
    BY <2>1 DEF Moves, Dies, Quits, Plans, TurnsToLatest, PutsRun, PutsLatest, Left,
       JobIs, TurnsToPointers, ReturnsNoPointers, PutsPointer, Records, ReturnsPointers, TurnsToKey
  <2> QED
    BY <2>1, <2>2, <2>3, <2>4 DEF Unsettled, NotReturned, Wrote
<1>7. ASSUME NEW p \in Publishers \ {Daily}, Publish(p)
      PROVE  exit' = exit /\ pc'[Daily] = pc[Daily] /\ job'[Daily] = job[Daily]
  BY <1>1, <1>7, PublishMoves DEF Others
<1>8. ASSUME NEW p \in Operators, PublishByHand(p) \/ EndByHand(p)
      PROVE  exit' = exit /\ pc'[Daily] = pc[Daily] /\ job'[Daily] = job[Daily]
  BY <1>1, <1>8, ByHandMoves, PublishAssumption DEF ByHand, Others, PublishAssumption
<1> QED
  BY <1>2, <1>3, <1>4, <1>5, <1>6, <1>7, <1>8, DailyMoves DEF Next, vars

LEMMA WritesOfTarget ==
  ASSUME TypeInv, pc[Daily] # "idle", job[Daily].target \in Pointers, NEW result
  PROVE  /\ Noted(Daily, result)[job[Daily].target] = result
         /\ \A q \in Pointers \ {job[Daily].target} :
               Noted(Daily, result)[q] = job[Daily].pointer_write[q]
<1>1. job[Daily] \in Job
  BY JobFields DEF Publishers
<1> QED
  BY <1>1 DEF Noted, Job

LEMMA StaysWritten ==
  ASSUME SInv, CInv, [Next]_vars, byHand' = 0 PROVE WrittenHere' /\ Told'
<1>1. Kept /\ TypeInv /\ TypeOK /\ Inv /\ Control /\ Daily \in Publishers
  BY KeptByNext DEF SInv, Inv, TypeInv, Publishers
<1>2. WrittenHere /\ Told /\ NotReturned /\ (DailySteps \/ Publish(Daily) \/ UNCHANGED vars)
  BY SoloSteps DEF SInv, CInv
<1>3. CASE Starts
  BY <1>3, FreshJob DEF Starts, WrittenHere, Told, KeysInTurn, AllKeysTold
<1>4. CASE Reports \/ \E a \in job[Daily].todo : Scores(a)
  <2>1. /\ pc[Daily] = "score" /\ pc'[Daily] \in {"score", "begin", "idle"}
        /\ pc'[Daily] # "idle" => job'[Daily].pointer_write = job[Daily].pointer_write
    BY <1>4 DEF Reports, Scores, Left, JobIs
  <2> QED
    BY <1>2, <2>1 DEF NotReturned, Wrote, WrittenHere, Told, KeysInTurn, AllKeysTold
<1>5. CASE pc'[Daily] = "idle"
  BY <1>5 DEF WrittenHere, Told, KeysInTurn, AllKeysTold
<1>6. CASE UNCHANGED vars
  BY <1>2, <1>6 DEF vars, bucket, WrittenHere, Told, KeysInTurn, AllKeysTold, Wrote, HasKey
<1>7. CASE Publish(Daily)
  <2>1. Moves(Daily) /\ UNCHANGED <<report, run>>
    BY <1>1, <1>7, PublishMoves
  <2>2. ASSUME pc[Daily] \notin {"idle", "score"}
        PROVE  /\ job[Daily].run = run /\ job[Daily] \in Job /\ Files(Daily) = report[run].files
               /\ report[run].files \subseteq ArtifactsOf(job[Daily].keys)
               /\ report[run].files \subseteq Artifacts
    BY <1>1, <2>2, JobFields, FilesType
       DEF Control, InOrder, AtLine, SInv, LastReport, FilesAsked, Files
  <2>3. CASE Quits(Daily)
    BY <1>2, <2>1, <2>3
       DEF Quits, bucket, NotReturned, WrittenHere, Told, KeysInTurn, AllKeysTold
  <2>4. ASSUME pc'[Daily] \in {"runs", "latest"}, pc[Daily] \in {"begin", "runs", "latest"},
               job'[Daily].pointer_write = job[Daily].pointer_write
        PROVE  WrittenHere' /\ Told'
    BY <1>2, <2>4 DEF NotReturned, Wrote, WrittenHere, Told, KeysInTurn, AllKeysTold
  <2>5. CASE Plans(Daily) \/ TurnsToLatest(Daily)
    BY <2>4, <2>5 DEF Plans, TurnsToLatest, Left, JobIs
  <2>6. ASSUME NEW a, PutsRun(Daily, a) \/ PutsLatest(Daily, a) PROVE WrittenHere' /\ Told'
    BY <2>4, <2>6 DEF PutsRun, PutsLatest, Left, JobIs
  <2>7. CASE ReturnsNoPointers(Daily)
    <3>1. /\ pc[Daily] = "latest" /\ pc'[Daily] = "end"
          /\ job'[Daily].pointer_write = job[Daily].pointer_write
      BY <2>7 DEF ReturnsNoPointers, JobIs
    <3> QED
      BY <1>2, <3>1
         DEF NotReturned, Wrote, WrittenHere, Told, KeysInTurn, AllKeysTold, Pointers
  <2>8. CASE TurnsToPointers(Daily)
    <3>1. /\ pc[Daily] = "latest" /\ pc'[Daily] = "pointer"
          /\ job'[Daily].pointer_write = job[Daily].pointer_write
          /\ job'[Daily].keys_left =
                {key \in job[Daily].keys : \E a \in Files(Daily) : KeyOf[a] = key}
      BY <2>8 DEF TurnsToPointers, JobIs
    <3>2. \A key \in Keys : HasKey(run, key) => key \in job'[Daily].keys_left
      BY <2>2, <3>1 DEF HasKey, ArtifactsOf
    <3> QED
      BY <1>2, <2>1, <3>1, <3>2
         DEF NotReturned, Wrote, WrittenHere, Told, KeysInTurn, AllKeysTold, HasKey
  <2>9. CASE PutsPointer(Daily)
    <3>1. /\ pc[Daily] = "pointer" /\ pc'[Daily] = "legacy" /\ job'[Daily] = job[Daily]
          /\ legacy' = legacy /\ job[Daily].target \in Pointers
      BY <1>1, <2>9 DEF PutsPointer, Control, AtLine
    <3>2. /\ pointer'[job[Daily].target] = run
          /\ \A q \in Pointers : pointer'[q] \in {pointer[q], run}
      BY <1>1, <2>2, <2>9, <3>1 DEF PutsPointer, TypeOK
    <3> QED
      BY <1>2, <2>1, <3>1, <3>2
         DEF Wrote, WrittenHere, Told, KeysInTurn, AllKeysTold, HasKey
  <2>10. ASSUME NEW result \in {"ok", "error"}, Records(Daily, result),
                job'[Daily].pointer_write = Noted(Daily, result), pc'[Daily] \in {"pointer", "end"}
         PROVE  /\ WrittenHere'
                /\ \A q \in Pointers :
                      Wrote(q)' <=> (Wrote(q) \/ q = job[Daily].target)
    <3>1. /\ pc[Daily] \in {"pointer", "legacy"} /\ pointer' = pointer
          /\ job[Daily].target \in Pointers
      BY <1>1, <2>10 DEF Records, Control, AtLine
    <3>2. /\ job'[Daily].pointer_write[job[Daily].target] = result
          /\ \A q \in Pointers \ {job[Daily].target} :
                job'[Daily].pointer_write[q] = job[Daily].pointer_write[q]
      BY <1>1, <2>10, <3>1, WritesOfTarget
    <3>3. \A q \in Pointers : legacy'[q] \in {legacy[q], run}
      BY <1>1, <2>2, <2>10, <3>1 DEF Records, TypeOK
    <3>4. result = "ok" => /\ legacy'[job[Daily].target] = run
                           /\ pointer[job[Daily].target] = run
      BY <1>1, <1>2, <2>2, <2>10, <3>1 DEF Records, TypeOK, WrittenHere
    <3>5. WrittenHere'
      BY <1>2, <2>1, <2>10, <3>1, <3>2, <3>3, <3>4 DEF WrittenHere
    <3> QED
      BY <3>2, <3>5 DEF Wrote
  <2>11. ASSUME NEW result \in {"ok", "error"}, ReturnsPointers(Daily, result)
         PROVE  WrittenHere' /\ Told'
    <3>1. /\ Records(Daily, result) /\ pc'[Daily] = "end"
          /\ job'[Daily].pointer_write = Noted(Daily, result)
          /\ job[Daily].keys_left = {} \/ (job[Daily].target = Global /\ result = "error")
      BY <2>11 DEF ReturnsPointers, JobIs
    <3>2. WrittenHere' /\ \A q \in Pointers : Wrote(q)' <=> (Wrote(q) \/ q = job[Daily].target)
      BY <2>10, <3>1
    <3>3. CASE job[Daily].keys_left = {}
      BY <1>2, <2>1, <3>1, <3>2, <3>3
         DEF Records, Told, KeysInTurn, AllKeysTold, HasKey, Pointers
    <3>4. CASE job[Daily].target = Global /\ result = "error"
      <4>1. job'[Daily].pointer_write[Global] = "error"
        BY <1>1, <3>1, <3>4, WritesOfTarget DEF Pointers, Records
      <4> QED
        BY <3>1, <3>2, <4>1 DEF Told, KeysInTurn, AllKeysTold
    <3> QED
      BY <3>1, <3>3, <3>4
  <2>12. ASSUME NEW result \in {"ok", "error"}, NEW key, TurnsToKey(Daily, result, key)
         PROVE  WrittenHere' /\ Told'
    <3>1. /\ Records(Daily, result) /\ pc'[Daily] = "pointer"
          /\ job'[Daily].pointer_write = Noted(Daily, result)
          /\ job'[Daily].target = key /\ job'[Daily].keys_left = job[Daily].keys_left \ {key}
      BY <2>12 DEF TurnsToKey, JobIs
    <3>2. WrittenHere' /\ \A q \in Pointers : Wrote(q)' <=> (Wrote(q) \/ q = job[Daily].target)
      BY <2>10, <3>1
    <3> QED
      BY <1>2, <2>1, <3>1, <3>2 DEF Records, Told, KeysInTurn, AllKeysTold, HasKey, Pointers
  <2> QED
    BY <1>5, <2>1, <2>3, <2>5, <2>6, <2>7, <2>8, <2>9, <2>11, <2>12 DEF Moves, Dies
<1> QED
  BY <1>1, <1>2, <1>3, <1>4, <1>5, <1>6, <1>7, DailyMoves

\* PUBLISH_S3_REQUIRE holds whatever fails or dies: a daily run that was to
\* publish exits with zero only when every object it reported and every pointer
\* of it can be seen, as long as nobody else has published.
THEOREM ContractIsKept == Spec => ContractKept
<1>1. Init => CInv
  <2>1. Daily \in Publishers
    BY DEF Publishers
  <2> QED
    BY <2>1 DEF Init, CInv, Unsettled, NotReturned, WrittenHere, Told, KeysInTurn, AllKeysTold
<1>2. SInv /\ CInv /\ [Next]_vars => CInv'
  BY StaysUnsettled, StaysWritten DEF CInv, SInv, Inv
<1>3. SInv /\ CInv /\ [Next]_vars
      => [byHand = 0 /\ Required /\ pc[Daily] = "end" /\ exit' = "zero" => Visible(run)]_vars
  <2> SUFFICES ASSUME SInv, CInv, [Next]_vars,
                      byHand = 0, Required, pc[Daily] = "end", exit' = "zero"
               PROVE  Visible(run)
    BY DEF CInv
  <2>1. TypeInv /\ TypeOK /\ Control /\ Inv /\ Daily \in Publishers
    BY DEF SInv, Inv, TypeInv, Publishers
  <2>2. exit # exit'
    BY NoneAssumption DEF CInv, Unsettled
  <2>3. EndDaily
    <3>1. ASSUME NEW p \in Publishers, Publish(p) PROVE exit' = exit
      BY <2>1, <3>1, PublishMoves
    <3>2. ASSUME NEW p \in Operators, PublishByHand(p) \/ EndByHand(p) PROVE exit' = exit
      BY <2>1, <3>2, ByHandMoves DEF ByHand
    <3> QED
      BY <2>1, <2>2, <3>1, <3>2, DailyMoves DEF Next, vars, Starts, Reports, Scores
  <2>4. PointerWriteOk(Daily) /\ report[run].success
    BY <2>3 DEF EndDaily
  <2>5. run \in Runs /\ report[run] # None /\ job[Daily] \in Job
    BY <2>1, JobFields DEF Control, InOrder, AtLine
  <2>6. ASSUME NEW q \in Pointers, Wrote(q) PROVE pointer[q] = run /\ legacy[q] = run
    <3>1. job[Daily].pointer_write[q] \in {"skipped", "ok", "error"}
      BY <2>5 DEF Job, Results
    <3> QED
      BY <2>4, <2>6, <3>1 DEF Wrote, PointerWriteOk, CInv, WrittenHere
  <2>7. Global \in Pointers /\ pointer[Global] = run /\ legacy[Global] = run
    BY <2>4, <2>6 DEF PointerWriteOk, Wrote, Pointers
  <2>8. Uploaded(run) /\ AllLatest
    BY <2>5, <2>7 DEF SInv, Inv, PointersNameCompleteRuns, Solo, InPlace, Runs
  <2>9. \A a \in report[run].files : a \in Artifacts /\ KeyOf[a] \in Keys /\ KeyOf[a] \in Pointers
    BY <2>1, <2>5, FilesType, RankedType DEF Pointers
  <2>10. \A a \in report[run].files : Wrote(KeyOf[a])
    BY <2>4, <2>9 DEF CInv, Told, AllKeysTold, PointerWriteOk, HasKey
  <2>11. \A a \in report[run].files : objects[run][a] = report[run].sha[a] /\ latest[a] = run
    BY <2>5, <2>8, <2>9 DEF SInv, Solo, AsReported, Uploaded, AllLatest
  <2> QED
    BY <2>4, <2>6, <2>7, <2>9, <2>10, <2>11 DEF Visible
<1> QED
  BY <1>1, <1>2, <1>3, SInvAlways, PTL DEF Spec, ContractKept
=============================================================================
