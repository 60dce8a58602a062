-------------------------- MODULE RetentionProofs ---------------------------
(***************************************************************************)
(* What run_daily, history_retention.py and prune_state.py keep, for any   *)
(* numbers of runs, days and providers and any limits: pointers that       *)
(* resolve, losses to newer runs only, and what a plan of prune_state      *)
(* spares.                                                                 *)
(***************************************************************************)
EXTENDS Retention, FiniteSetTheorems, TLAPS

(***************************************************************************)
(* Numbers and counting.                                                   *)
(***************************************************************************)

\* A finite set of numbers has a least one.  The initial segments of the set
\* are ordered by inclusion, which is well-founded.
LEMMA LeastElement ==
  ASSUME NEW S \in SUBSET Nat, S # {}, IsFiniteSet(S)
  PROVE  \E x \in S : \A y \in S : x <= y
<1> DEFINE upTo(x) == {y \in S : y <= x}
           segments == {upTo(x) : x \in S}
<1>0. \A x \in S : x \in Nat
  OBVIOUS
<1>1. IsWellFoundedOn(StrictSubsetOrdering(S), SUBSET S)
  BY FS_StrictSubsetOrderingWellFounded, FS_FiniteSubsetsOfFinite
<1>2. segments \subseteq SUBSET S /\ segments # {}
  OBVIOUS
<1>3. PICK t \in segments : \A u \in segments : <<u, t>> \notin StrictSubsetOrdering(S)
  BY <1>1, <1>2, WFMin
<1>4. PICK x \in S : t = upTo(x)
  OBVIOUS
<1>5. ASSUME NEW y \in S, y < x PROVE FALSE
  <2>0. x \in Nat /\ y \in Nat
    BY <1>0
  <2>1. x \notin upTo(y) /\ x \in upTo(x)
    BY <1>5, <2>0
  <2>2. \A z \in S : z <= y => z <= x
    BY <1>0, <1>5, <2>0
  <2>3. upTo(y) \subseteq upTo(x)
    BY <2>2
  <2>4. <<upTo(y), upTo(x)>> \in StrictSubsetOrdering(S)
    BY <2>1, <2>3 DEF StrictSubsetOrdering
  <2> QED
    BY <1>3, <1>4, <2>4
<1> QED
  BY <1>0, <1>5

LEMMA MinIn ==
  ASSUME NEW S \in SUBSET Nat, S # {}, IsFiniteSet(S)
  PROVE  Min(S) \in S /\ \A y \in S : Min(S) <= y
  BY LeastElement DEF Min

LEMMA FiniteRuns ==
  /\ \A S \in SUBSET Runs : IsFiniteSet(S) /\ Cardinality(S) \in Nat
  /\ \A S \in SUBSET Days : IsFiniteSet(S) /\ Cardinality(S) \in Nat
  /\ Runs \subseteq Nat /\ Days \subseteq Nat
  /\ MaxRun \in Nat /\ MaxDay \in Nat /\ MaxAge \in Nat /\ MaxByHand \in Nat
  /\ KeepRuns \in Nat \ {0} /\ KeepDays \in Nat \ {0}
  /\ KeepReports \in Nat \ {0} /\ KeepHistory \in Nat \ {0}
<1>1. MaxRun \in Nat /\ MaxDay \in Nat
  BY RetentionAssumption
<1>2. IsFiniteSet(1 .. MaxRun) /\ IsFiniteSet(0 .. MaxDay)
  BY <1>1, FS_Interval
<1>3. IsFiniteSet(Runs) /\ IsFiniteSet(Days) /\ Runs \subseteq Nat /\ Days \subseteq Nat
  BY <1>1, <1>2 DEF Runs, Days
<1>4. /\ \A S \in SUBSET Runs : IsFiniteSet(S) /\ Cardinality(S) \in Nat
      /\ \A S \in SUBSET Days : IsFiniteSet(S) /\ Cardinality(S) \in Nat
  BY <1>3, FS_Subset, FS_CardinalityType
<1> QED
  BY <1>3, <1>4, RetentionAssumption

\* A member of the surplus has as many greater ones as are kept.
LEMMA SurplusHasNewer ==
  ASSUME NEW S, IsFiniteSet(S), S \subseteq Nat, NEW n \in Nat \ {0}, NEW r \in Surplus(S, n)
  PROVE  /\ r \in S /\ Cardinality(Newer(S, r)) >= n
         /\ \E q \in S : q > r
<1> DEFINE upward == {q \in S : q >= r}
<1>1. r \in S /\ Cardinality(upward) > n
  BY DEF Surplus
<1>2. IsFiniteSet(upward) /\ IsFiniteSet(Newer(S, r))
  BY FS_Subset DEF Newer
<1>3. r \in upward /\ Newer(S, r) = upward \ {r}
  <2>1. r \in Nat /\ \A q \in S : q \in Nat
    BY <1>1
  <2>2. r >= r /\ \A q \in S : q > r <=> (q >= r /\ q # r)
    BY <2>1
  <2> QED
    BY <1>1, <2>2 DEF Newer
<1> HIDE DEF upward
<1>4. Cardinality(Newer(S, r)) = Cardinality(upward) - 1
  BY <1>2, <1>3, FS_RemoveElement
<1>5. Cardinality(upward) \in Nat
  BY <1>2, FS_CardinalityType
<1>6. Cardinality(Newer(S, r)) >= n
  BY <1>1, <1>4, <1>5
<1>7. Newer(S, r) # {}
  BY <1>6, FS_EmptySet
<1> QED
  BY <1>1, <1>6, <1>7 DEF Newer

LEMMA MoreNewer ==
  ASSUME NEW S, NEW T, IsFiniteSet(T), S \subseteq T
  PROVE  IsFiniteSet(S) /\ Cardinality(S) \in Nat /\ Cardinality(T) \in Nat
         /\ Cardinality(S) <= Cardinality(T)
  BY FS_Subset, FS_CardinalityType

-----------------------------------------------------------------------------
(***************************************************************************)
(* Types.                                                                  *)
(***************************************************************************)

LEMMA PathsType ==
  /\ \A r \in Runs : Report(r) \in Paths /\ Flat(r) \in Paths
  /\ \A r \in Runs, q \in Providers : Folder(r, q) \in Paths /\ Nested(r, q) \in Paths
  /\ Root \in Paths
  BY DEF Report, Flat, Folder, Nested, Root, Paths

LEMMA PlansType ==
  ASSUME TypeOK, NEW paths \in Plans
  PROVE  paths \subseteq tree
<1> DEFINE names == {n \in latest : Found(n) # {}}
           olds == [n \in names |-> OldSnapshots(Found(n))]
<1>1. PICK c \in [names -> UNION {olds[n] : n \in names}] :
         /\ \A n \in names : c[n] \in olds[n]
         /\ paths = OldReports \cup UNION {c[n] : n \in names}
  BY DEF Plans
<1>2. OldReports \subseteq tree
  <2>1. \A p \in All("report") : Report(p.run) = p
    BY DEF TypeOK, All, Report, Paths
  <2> QED
    BY <2>1 DEF OldReports, All
<1>3. \A n : Found(n) \subseteq tree
  BY DEF Found, All
<1>4. \A n \in names : c[n] \subseteq tree
  <2> TAKE n \in names
  <2>1. c[n] \in OldSnapshots(Found(n))
    BY <1>1
  <2>2. c[n] \subseteq Found(n)
    BY <2>1 DEF OldSnapshots
  <2> QED
    BY <1>3, <2>2
<1> QED
  BY <1>1, <1>2, <1>4

LEMMA NoJobType == NoJob \in Jobs /\ ~NoJob.again
<1>1. 0 \in Days
  BY FiniteRuns DEF Days
<1> QED
  BY <1>1 DEF Jobs, NoJob

LEMMA InitTypes == ASSUME Init PROVE TypeOK
<1>1. 0 \in Days /\ 0 \in 0 .. MaxRun /\ 0 \in 0 .. MaxByHand
  BY FiniteRuns DEF Days
<1>2. DOMAIN daily = {}
  BY DEF Init
<1>3. began \in [Runs -> Days] /\ pointers \in [Runs -> {"absent", "bare", "pointer"}]
      /\ plan \in [Pruners -> SUBSET Paths]
  BY <1>1 DEF Init
<1> QED
  BY <1>1, <1>2, <1>3, NoJobType DEF Init, TypeOK, Steps

\* The steps of the daily run that leave the history pointers alone.
Aside ==
    \/ Start \/ WriteReport \/ MoveSuccess \/ Archived \/ Pruned \/ RetentionRaises
    \/ PruneLogs \/ PlanDaily \/ PruneEnds \/ PlanByHand \/ Midnight
    \/ \E q \in Providers \cup {"openai"} : Archive(q)

LEMMA RunType ==
  ASSUME TypeOK, pc # "idle", run > 0
  PROVE  run \in Runs
  BY FiniteRuns DEF TypeOK, Runs

LEMMA AsideTypes ==
  ASSUME TypeOK, Aside, pc # "idle" => run > 0
  PROVE  TypeOK' /\ UNCHANGED <<pointers, daily, wiped>>
<1>0. UNCHANGED <<pointers, daily, wiped>>
  BY DEF Aside, Start, WriteReport, MoveSuccess, Archived, Pruned, RetentionRaises, PruneLogs,
         PlanDaily, PruneEnds, PlanByHand, PlanPrune, Midnight, Archive
<1>1. CASE Start
  <2>1. run' = run + 1 /\ run' \in Runs /\ run' \in 0 .. MaxRun
    BY <1>1, FiniteRuns DEF Start, TypeOK, Runs
  <2>2. began' \in [Runs -> Days] /\ logs' \subseteq Runs
    BY <1>1, <2>1 DEF Start, TypeOK
  <2> QED
    BY <1>1, <2>1, <2>2 DEF Start, TypeOK, Goto, Steps
<1>2. CASE WriteReport
  <2>1. run \in Runs
    BY <1>2, RunType DEF WriteReport
  <2>2. tree' \subseteq Paths
    BY <1>2, <2>1, PathsType DEF WriteReport, TypeOK
  <2>3. job' \in Jobs
    BY <1>2, RetentionAssumption DEF WriteReport, TypeOK, Jobs
  <2> QED
    BY <1>2, <2>2, <2>3 DEF WriteReport, TypeOK, Goto, Steps
<1>3. CASE MoveSuccess
  <2>1. success' \in 0 .. MaxRun
    BY <1>3 DEF MoveSuccess, TypeOK
  <2> QED
    BY <1>3, <2>1 DEF MoveSuccess, TypeOK, Goto, Steps
<1>4. CASE Archived
  BY <1>4 DEF Archived, TypeOK, Goto, Steps
<1>5. CASE Pruned
  BY <1>5 DEF Pruned, TypeOK, Goto, Steps, After
<1>6. CASE RetentionRaises
  <2>1. run \in Runs
    BY <1>6, RunType DEF RetentionRaises, Gone
  <2>2. tree' \subseteq Paths
    BY <1>6, <2>1, PathsType DEF RetentionRaises, TypeOK
  <2>3. job' \in Jobs
    BY <1>6 DEF RetentionRaises, TypeOK, Jobs
  <2> QED
    BY <1>6, <2>2, <2>3 DEF RetentionRaises, TypeOK, Goto, Steps
<1>7. CASE PruneLogs
  <2>1. job' \in Jobs /\ logs' \subseteq Runs
    BY <1>7, NoJobType DEF PruneLogs, TypeOK
  <2> QED
    BY <1>7, <2>1 DEF PruneLogs, TypeOK, Goto, Steps
<1>8. ASSUME NEW p \in Pruners, PlanPrune(p)
      PROVE  /\ plan' \in [Pruners -> SUBSET Paths]
             /\ UNCHANGED <<day, run, began, job, tree, latest, success, pointers, daily, logs, wiped>>
  <2>1. PICK paths \in Plans : plan' = [plan EXCEPT ![p] = paths]
    BY <1>8 DEF PlanPrune
  <2>2. paths \subseteq Paths
    BY PlansType DEF TypeOK
  <2> QED
    BY <1>8, <2>1, <2>2 DEF PlanPrune, TypeOK
<1>9. CASE PlanDaily
  BY <1>8, <1>9 DEF PlanDaily, TypeOK, Goto, Steps, Pruners
<1>10. CASE PlanByHand
  <2>1. "hand" \in Pruners /\ PlanPrune("hand")
    BY <1>10 DEF PlanByHand, Pruners
  <2>2. byHand' \in 0 .. MaxByHand
    BY <1>10, FiniteRuns DEF PlanByHand, TypeOK
  <2> QED
    BY <1>8, <1>10, <2>1, <2>2 DEF PlanByHand, TypeOK
<1>11. CASE PruneEnds
  BY <1>11, NoJobType DEF PruneEnds, TypeOK, Goto, Steps
<1>12. CASE Midnight
  BY <1>12, FiniteRuns DEF Midnight, TypeOK, Days
<1>13. ASSUME NEW q \in Providers \cup {"openai"}, Archive(q)
       PROVE  TypeOK'
  <2>1. run \in Runs
    BY <1>13, RunType DEF Archive
  <2>2. tree' \subseteq Paths /\ latest' \subseteq Providers \cup {"profile"}
    BY <1>13, <2>1, PathsType DEF Archive, TypeOK
  <2>3. job' \in Jobs
    BY <1>13 DEF Archive, TypeOK, Jobs
  <2> QED
    BY <1>13, <2>2, <2>3 DEF Archive, TypeOK
<1> QED
  BY <1>0, <1>1, <1>2, <1>3, <1>4, <1>5, <1>6, <1>7, <1>9, <1>10, <1>11, <1>12, <1>13 DEF Aside

\* What there is of old runs and days to prune is there.
LEMMA OldIn ==
  ASSUME TypeOK
  PROVE  /\ OldRuns # {} => /\ Min(OldRuns) \in OldRuns
                            /\ Min(OldRuns) \in Runs /\ pointers[Min(OldRuns)] # "absent"
         /\ OldDays # {} => Min(OldDays) \in OldDays /\ Min(OldDays) \in DOMAIN daily
<1>1. OldRuns \in SUBSET Runs /\ \A r \in OldRuns : pointers[r] # "absent"
  BY DEF OldRuns, Surplus
<1>2. OldDays \in SUBSET DOMAIN daily /\ OldDays \in SUBSET Days
  BY DEF OldDays, Surplus, TypeOK
<1>3. /\ OldRuns \in SUBSET Nat /\ IsFiniteSet(OldRuns)
      /\ OldDays \in SUBSET Nat /\ IsFiniteSet(OldDays)
  BY <1>1, <1>2, FiniteRuns
<1> QED
  BY <1>1, <1>2, <1>3, MinIn

\* The steps that write the history pointers, and what becomes of them.
Halves(r) == pointers' = [pointers EXCEPT ![r] = "bare"]

LEMMA HistoryTypes ==
  ASSUME TypeOK, pc # "idle" => run > 0,
         WriteArtifacts \/ WriteRunPointer \/ WriteDailyPointer \/ PruneRun \/ PruneDay
  PROVE  TypeOK'
<1>0. run \in Runs /\ run \in 0 .. MaxRun
  BY RunType DEF WriteArtifacts, WriteRunPointer, WriteDailyPointer, PruneRun, PruneDay, TypeOK
<1>1. CASE WriteArtifacts
  <2>1. pointers[run] \in {"absent", "bare", "pointer"}
    BY <1>0 DEF TypeOK
  <2>2. pointers' \in [Runs -> {"absent", "bare", "pointer"}] /\ tree' \subseteq Paths
    BY <1>0, <1>1, <2>1, PathsType DEF WriteArtifacts, TypeOK
  <2> QED
    BY <1>1, <2>2 DEF WriteArtifacts, TypeOK, Goto, After, Steps
<1>2. CASE WriteRunPointer
  BY <1>0, <1>2, PathsType DEF WriteRunPointer, TypeOK, Goto, After, Steps
<1>3. CASE WriteDailyPointer
  <2>1. job.ended \in Days
    BY DEF TypeOK, Jobs
  <2>2. DOMAIN daily' \subseteq Days /\ \A d \in DOMAIN daily' : daily'[d] \in 0 .. MaxRun
    BY <1>0, <1>3, <2>1 DEF WriteDailyPointer, Named, TypeOK
  <2> QED
    BY <1>3, <2>2, PathsType DEF WriteDailyPointer, TypeOK, Goto, After, Steps
<1>4. CASE PruneRun
  BY <1>4, OldIn DEF PruneRun, TypeOK
<1>5. CASE PruneDay
  <2>1. DOMAIN daily' \subseteq Days /\ \A d \in DOMAIN daily' : daily'[d] \in 0 .. MaxRun
    BY <1>5 DEF PruneDay, TypeOK, Restrict
  <2> QED
    BY <1>5, <2>1 DEF PruneDay, TypeOK
<1> QED
  BY <1>1, <1>2, <1>3, <1>4, <1>5

LEMMA DeleteTypes ==
  ASSUME TypeOK, NEW p \in Pruners, NEW path \in plan[p], Delete(p, path)
  PROVE  /\ TypeOK' /\ UNCHANGED <<day, run, pc, job, logs>>
         /\ \/ UNCHANGED <<pointers, daily, wiped>>
            \/ wiped' /\ (\A r \in Runs : pointers'[r] = "absent") /\ DOMAIN daily' = {}
<1>1. /\ plan' \in [Pruners -> SUBSET Paths] /\ tree' \subseteq Paths
      /\ UNCHANGED <<day, run, began, pc, job, latest, success, logs, byHand>>
  BY DEF Delete, TypeOK
<1>2. CASE path = Root
  <2>1. pointers' = [r \in Runs |-> "absent"] /\ daily' = <<>> /\ wiped' = TRUE
    BY <1>2 DEF Delete
  <2>2. DOMAIN daily' = {}
    BY <2>1
  <2>3. pointers' \in [Runs -> {"absent", "bare", "pointer"}] /\ wiped' \in BOOLEAN
    BY <2>1
  <2>4. TypeOK'
    BY <1>1, <2>2, <2>3 DEF TypeOK
  <2>5. \A r \in Runs : pointers'[r] = "absent"
    BY <2>1
  <2> QED
    BY <1>1, <2>1, <2>2, <2>4, <2>5
<1>3. CASE path # Root
  <2>1. UNCHANGED <<pointers, daily, wiped>>
    BY <1>3 DEF Delete
  <2> QED
    BY <1>1, <2>1 DEF TypeOK
<1> QED
  BY <1>2, <1>3

LEMMA KillTypes ==
  ASSUME TypeOK, Kill, pc # "idle" => run > 0
  PROVE  /\ TypeOK' /\ pc' = "idle" /\ job' = NoJob /\ UNCHANGED <<day, run, logs, wiped>>
         /\ \/ UNCHANGED <<pointers, daily>>
            \/ pc = "runPointer" /\ Halves(run) /\ daily' = daily
            \/ pc = "dailyPointer" /\ daily' = Named(0) /\ pointers' = pointers
            \/ pc = "pruneRuns" /\ OldRuns # {} /\ Halves(Min(OldRuns)) /\ daily' = daily
            \/ /\ pc = "pruneDays" /\ OldDays # {} /\ daily' = [daily EXCEPT ![Min(OldDays)] = 0]
               /\ pointers' = pointers
<1>0. run \in Runs /\ 0 \in 0 .. MaxRun
  BY RunType, FiniteRuns DEF Kill
<1>1. /\ pc' = "idle" /\ job' = NoJob /\ UNCHANGED <<day, run, began, latest, success, logs, wiped, byHand>>
      /\ plan' \in [Pruners -> SUBSET Paths]
  BY DEF Kill, Goto, TypeOK
<1>2. /\ \/ UNCHANGED <<pointers, daily>>
         \/ pc = "runPointer" /\ Halves(run) /\ daily' = daily
         \/ pc = "dailyPointer" /\ daily' = Named(0) /\ pointers' = pointers
         \/ pc = "pruneRuns" /\ OldRuns # {} /\ Halves(Min(OldRuns)) /\ daily' = daily
         \/ /\ pc = "pruneDays" /\ OldDays # {} /\ daily' = [daily EXCEPT ![Min(OldDays)] = 0]
            /\ pointers' = pointers
      /\ tree' \in {tree, tree \cup {Root}}
  BY DEF Kill, Halves
<1>3. pointers' \in [Runs -> {"absent", "bare", "pointer"}]
  BY <1>0, <1>2, OldIn DEF Halves, TypeOK
<1>4. DOMAIN daily' \subseteq Days /\ \A d \in DOMAIN daily' : daily'[d] \in 0 .. MaxRun
  <2>1. CASE daily' = daily
    BY <2>1 DEF TypeOK
  <2>2. CASE daily' = Named(0)
    BY <1>0, <2>2 DEF Named, TypeOK, Jobs
  <2>3. CASE daily' = [daily EXCEPT ![Min(OldDays)] = 0]
    BY <1>0, <2>3 DEF TypeOK
  <2> QED
    BY <1>2, <2>1, <2>2, <2>3
<1>5. tree' \subseteq Paths
  BY <1>2, PathsType DEF TypeOK
<1> QED
  BY <1>1, <1>2, <1>3, <1>4, <1>5, NoJobType DEF TypeOK, Steps

-----------------------------------------------------------------------------
(***************************************************************************)
(* What the daily run holds to.                                            *)
(***************************************************************************)

\* The steps of a run that gives its end as today's.
Finalizing == {"success", "archive", "artifacts", "runPointer", "dailyPointer",
               "pruneRuns", "pruneDays", "logs"}

\* No pointer is of a day to come.
Times ==
    /\ pc \in Finalizing => job.ended = day
    /\ \A d \in DOMAIN daily : d <= day

\* No pointer is of a run to come.
Numbers ==
    /\ \A r \in Runs : pointers[r] # "absent" => r <= run
    /\ \A d \in DOMAIN daily : daily[d] <= run
    /\ pc # "idle" => run > 0

\* The pointer of a run is written before any day names the run.
Unnamed ==
    /\ pc \in {"artifacts", "runPointer"} => ~job.again
    /\ pc \in {"report", "artifacts", "runPointer"} \/ (pc \in {"success", "archive"} /\ ~job.again)
          => \A d \in DOMAIN daily : daily[d] # run

\* A run prunes the earlier ones when its own pointer and that of its day are
\* there.
Written ==
    ~wiped =>
        /\ pc \in {"dailyPointer", "pruneRuns"} => pointers[run] = "pointer"
        /\ pc = "pruneRuns" => job.ended \in DOMAIN daily /\ daily[job.ended] = run

Order == Times /\ Numbers /\ Unnamed /\ Written

LEMMA AsideOrder ==
  ASSUME TypeOK, Order, Aside
  PROVE  Order'
<1>0. TypeOK' /\ UNCHANGED <<pointers, daily, wiped>>
  BY AsideTypes DEF Order, Numbers
<1>1. day \in Nat /\ run \in Nat /\ day' \in Nat /\ run' \in Nat
      /\ \A d \in DOMAIN daily : d \in Nat /\ daily[d] \in Nat
  BY <1>0, FiniteRuns DEF TypeOK, Days
<1>2. day <= day' /\ run <= run'
  BY <1>1 DEF Aside, Start, WriteReport, MoveSuccess, Archived, Pruned, RetentionRaises,
         PruneLogs, PlanDaily, PruneEnds, PlanByHand, PlanPrune, Midnight, Archive
<1>3. Times'
  <2>1. \A d \in DOMAIN daily' : d <= day'
    BY <1>0, <1>1, <1>2 DEF Order, Times
  <2>2. pc' \in Finalizing => job'.ended = day'
    <3>1. CASE Start \/ PlanDaily \/ PruneEnds \/ PlanByHand \/ Midnight
      BY <3>1 DEF Order, Times, Finalizing, Start, PlanDaily, PruneEnds, PlanByHand, PlanPrune,
                  Midnight, Goto
    <3>2. CASE WriteReport
      BY <3>2 DEF WriteReport
    <3>3. CASE MoveSuccess \/ Archived \/ Pruned
      BY <3>3 DEF Order, Times, Finalizing, MoveSuccess, Archived, Pruned, Goto
    <3>4. CASE RetentionRaises
      BY <3>4 DEF RetentionRaises, TypeOK, Jobs
    <3>5. CASE PruneLogs
      BY <3>5 DEF PruneLogs, Goto, Finalizing
    <3>6. ASSUME NEW q \in Providers \cup {"openai"}, Archive(q)
          PROVE  pc' \in Finalizing => job'.ended = day'
      <4>1. job' = [job EXCEPT !.todo = @ \ {q}] /\ job \in Jobs /\ pc = "archive" /\ day' = day
        BY <3>6 DEF Archive, TypeOK
      <4>2. job'.ended = job.ended
        BY <4>1 DEF Jobs
      <4> QED
        BY <4>1, <4>2 DEF Order, Times, Finalizing
    <3> QED
      BY <3>1, <3>2, <3>3, <3>4, <3>5, <3>6 DEF Aside
  <2> QED
    BY <2>1, <2>2 DEF Times
<1>4. Numbers'
  <2>1. \A r \in Runs : pointers'[r] # "absent" => r <= run'
    BY <1>0, <1>1, <1>2 DEF Order, Numbers, Runs
  <2>2. \A d \in DOMAIN daily' : daily'[d] <= run'
    BY <1>0, <1>1, <1>2 DEF Order, Numbers
  <2>3. pc' # "idle" => run' > 0
    <3>1. CASE Start
      BY <1>1, <3>1 DEF Start
    <3>2. CASE ~Start
      <4>1. run' = run /\ (pc' = pc \/ pc # "idle")
        BY <3>2 DEF Aside, WriteReport, MoveSuccess, Archived, Pruned, RetentionRaises, Gone,
               PruneLogs, PlanDaily, PruneEnds, PlanByHand, PlanPrune, Midnight, Archive
      <4> QED
        BY <4>1 DEF Order, Numbers
    <3> QED
      BY <3>1, <3>2
  <2> QED
    BY <2>1, <2>2, <2>3 DEF Numbers
<1>5. Unnamed' /\ Written'
  <2>1. CASE Start
    <3>1. \A d \in DOMAIN daily : daily[d] # run'
      BY <1>1, <2>1 DEF Start, Order, Numbers
    <3>2. pc' = "report"
      BY <2>1 DEF Start, Goto
    <3> QED
      BY <1>0, <3>1, <3>2 DEF Unnamed, Written
  <2>2. CASE WriteReport
    BY <1>0, <2>2 DEF WriteReport, Goto, Order, Unnamed, Written
  <2>3. CASE MoveSuccess
    BY <1>0, <2>3 DEF MoveSuccess, Goto, Order, Unnamed, Written
  <2>4. CASE Archived
    BY <1>0, <2>4 DEF Archived, Goto, Order, Unnamed, Written
  <2>5. CASE Pruned
    BY <1>0, <2>5 DEF Pruned, Goto, After, Order, Unnamed, Written
  <2>6. CASE RetentionRaises
    <3>1. job'.again /\ pc' = "success"
      BY <2>6 DEF RetentionRaises, Goto, TypeOK, Jobs
    <3> QED
      BY <1>0, <3>1 DEF Unnamed, Written
  <2>7. CASE PruneLogs \/ PlanDaily \/ PruneEnds
    BY <1>0, <2>7 DEF PruneLogs, PlanDaily, PruneEnds, PlanPrune, Goto, Unnamed, Written
  <2>8. CASE PlanByHand \/ Midnight
    BY <1>0, <2>8 DEF PlanByHand, PlanPrune, Midnight, Order, Unnamed, Written
  <2>9. ASSUME NEW q \in Providers \cup {"openai"}, Archive(q)
        PROVE  Unnamed' /\ Written'
    <3>1. pc' = "archive" /\ pc = "archive" /\ run' = run
      BY <2>9 DEF Archive
    <3>2. job' = [job EXCEPT !.todo = @ \ {q}] /\ job \in Jobs
      BY <2>9 DEF Archive, TypeOK
    <3>3. job'.again = job.again
      BY <3>2 DEF Jobs
    <3> QED
      BY <1>0, <3>1, <3>3 DEF Order, Unnamed, Written
  <2> QED
    BY <2>1, <2>2, <2>3, <2>4, <2>5, <2>6, <2>7, <2>8, <2>9 DEF Aside
<1> QED
  BY <1>3, <1>4, <1>5 DEF Order

\* What goes first of too many runs is not the latest.
LEMMA OldestRun ==
  ASSUME TypeOK, Order, OldRuns # {}
  PROVE  /\ Min(OldRuns) \in Runs /\ Min(OldRuns) \in OldRuns /\ pointers[Min(OldRuns)] # "absent"
         /\ Min(OldRuns) < run
         /\ Cardinality(Newer({r \in Runs : pointers[r] # "absent"}, Min(OldRuns))) >= KeepRuns
<1> DEFINE there == {r \in Runs : pointers[r] # "absent"}
           m == Min(OldRuns)
<1>1. m \in OldRuns /\ m \in Runs /\ pointers[m] # "absent"
  BY OldIn
<1>2. m \in Surplus(there, KeepRuns) /\ IsFiniteSet(there) /\ there \subseteq Nat
  BY <1>1, FiniteRuns DEF OldRuns
<1> HIDE DEF there
<1>3. Cardinality(Newer(there, m)) >= KeepRuns /\ \E q \in there : q > m
  BY <1>2, FiniteRuns, SurplusHasNewer
<1> USE DEF there
<1>4. \E q \in Runs : q > m /\ q <= run
  BY <1>3 DEF Order, Numbers
<1>5. m < run
  <2> HIDE DEF m
  <2>1. m \in Nat /\ \A q \in Runs : q \in Nat
    BY <1>1, FiniteRuns
  <2>2. run \in Nat
    BY FiniteRuns DEF TypeOK
  <2> QED
    BY <1>4, <2>1, <2>2
<1> QED
  BY <1>1, <1>3, <1>5

LEMMA OldestDay ==
  ASSUME TypeOK, OldDays # {}
  PROVE  Min(OldDays) \in DOMAIN daily /\ \E q \in DOMAIN daily : q > Min(OldDays)
<1>1. Min(OldDays) \in Surplus(DOMAIN daily, KeepDays)
  BY OldIn DEF OldDays
<1>2. IsFiniteSet(DOMAIN daily) /\ DOMAIN daily \subseteq Nat
  BY FiniteRuns DEF TypeOK
<1> QED
  BY <1>1, <1>2, FiniteRuns, OldIn, SurplusHasNewer

-----------------------------------------------------------------------------
(***************************************************************************)
(* The steps that change the history pointers keep the order.              *)
(***************************************************************************)

\* The oldest of too many goes, or half of it.
LEMMA OldestGoes ==
  ASSUME TypeOK, Order, OldRuns # {}, UNCHANGED <<day, run, daily, wiped>>,
         pointers' = [pointers EXCEPT ![Min(OldRuns)] = "absent"] \/ Halves(Min(OldRuns))
  PROVE  /\ \A r \in Runs : pointers'[r] # "absent" => r <= run'
         /\ run > 0 => pointers'[run] = pointers[run]
<1> DEFINE m == Min(OldRuns)
<1>1. m \in Runs /\ pointers[m] # "absent" /\ m < run
  BY OldestRun
<1> HIDE DEF m
<1>2. \A r \in Runs : pointers'[r] = pointers[r] \/ r = m
  BY <1>1 DEF m, Halves, TypeOK
<1>3. m # run /\ (run > 0 => run \in Runs)
  BY <1>1, FiniteRuns DEF TypeOK, Runs
<1>4. \A r \in Runs : pointers'[r] # "absent" => pointers[r] # "absent"
  BY <1>1, <1>2
<1> QED
  BY <1>2, <1>3, <1>4 DEF Order, Numbers

LEMMA HistoryOrder ==
  ASSUME TypeOK, TypeOK', Order,
         WriteArtifacts \/ WriteRunPointer \/ WriteDailyPointer \/ PruneRun \/ PruneDay
  PROVE  Order'
<1>1. UNCHANGED <<day, run, job, wiped>> /\ pc \in Finalizing /\ run \in Runs /\ run \in Nat
  BY RunType, FiniteRuns DEF Order, Numbers, WriteArtifacts, WriteRunPointer, WriteDailyPointer,
     PruneRun, PruneDay, Finalizing, Runs
<1>2. job.ended = day /\ day \in Nat /\ run <= run /\ day <= day
  BY <1>1, FiniteRuns DEF Order, Times, TypeOK
<1>3. CASE WriteArtifacts
  <2>1. pc = "artifacts" /\ pc' = "runPointer" /\ daily' = daily
    BY <1>3 DEF WriteArtifacts, Goto, After
  <2>2. \A r \in Runs : pointers'[r] = pointers[r] \/ r = run
    BY <1>3 DEF WriteArtifacts, TypeOK
  <2> QED
    BY <1>1, <1>2, <2>1, <2>2 DEF Order, Times, Numbers, Unnamed, Written
<1>4. CASE WriteRunPointer
  <2>1. pc = "runPointer" /\ pc' = "dailyPointer" /\ daily' = daily
    BY <1>4 DEF WriteRunPointer, Goto, After
  <2>2. pointers'[run] = "pointer" /\ \A r \in Runs : pointers'[r] = pointers[r] \/ r = run
    BY <1>1, <1>4 DEF WriteRunPointer, TypeOK
  <2> QED
    BY <1>1, <1>2, <2>1, <2>2 DEF Order, Times, Numbers, Unnamed, Written
<1>5. CASE WriteDailyPointer
  <2>1. pc = "dailyPointer" /\ pc' = "pruneRuns" /\ pointers' = pointers /\ daily' = Named(run)
    BY <1>5 DEF WriteDailyPointer, Goto, After
  <2>2. /\ DOMAIN daily' = DOMAIN daily \cup {job.ended}
        /\ \A d \in DOMAIN daily' : daily'[d] = IF d = job.ended THEN run ELSE daily[d]
    BY <2>1 DEF Named
  <2> QED
    BY <1>1, <1>2, <2>1, <2>2 DEF Order, Times, Numbers, Unnamed, Written
<1>6. CASE PruneRun
  <2>1. pc = "pruneRuns" /\ pc' = pc /\ daily' = daily /\ OldRuns # {} /\ run > 0
    BY <1>6 DEF PruneRun, Order, Numbers
  <2>2. /\ \A r \in Runs : pointers'[r] # "absent" => r <= run'
        /\ pointers'[run] = pointers[run]
    BY <1>1, <1>6, <2>1, OldestGoes DEF PruneRun
  <2> QED
    BY <1>1, <1>2, <2>1, <2>2 DEF Order, Times, Numbers, Unnamed, Written
<1>7. CASE PruneDay
  <2>1. pc = "pruneDays" /\ pc' = pc /\ pointers' = pointers
    BY <1>7 DEF PruneDay
  <2>2. DOMAIN daily' \subseteq DOMAIN daily /\ \A d \in DOMAIN daily' : daily'[d] = daily[d]
    BY <1>7 DEF PruneDay, Restrict
  <2> QED
    BY <1>1, <1>2, <2>1, <2>2 DEF Order, Times, Numbers, Unnamed, Written
<1> QED
  BY <1>3, <1>4, <1>5, <1>6, <1>7

LEMMA DeleteOrder ==
  ASSUME TypeOK, Order, NEW p \in Pruners, NEW path \in plan[p], Delete(p, path)
  PROVE  Order'
<1>1. UNCHANGED <<day, run, pc, job>>
  BY DeleteTypes
<1>2. CASE UNCHANGED <<pointers, daily, wiped>>
  BY <1>1, <1>2 DEF Order, Times, Numbers, Unnamed, Written
<1>3. CASE wiped' /\ (\A r \in Runs : pointers'[r] = "absent") /\ DOMAIN daily' = {}
  BY <1>1, <1>3 DEF Order, Times, Numbers, Unnamed, Written
<1> QED
  BY <1>2, <1>3, DeleteTypes

LEMMA KillOrder ==
  ASSUME TypeOK, Order, Kill
  PROVE  Order'
<1>0. pc' = "idle" /\ UNCHANGED <<day, run, wiped>> /\ run > 0
  BY KillTypes DEF Order, Numbers, Kill
<1>1. run \in Runs /\ run \in Nat /\ day \in Nat /\ run <= run /\ day <= day /\ 0 <= run
  BY <1>0, RunType, FiniteRuns DEF Kill, TypeOK
<1>2. Unnamed' /\ Written' /\ (pc' \in Finalizing => job'.ended = day')
  BY <1>0 DEF Unnamed, Written, Finalizing
<1>3. (\A r \in Runs : pointers'[r] # "absent" => r <= run')
      /\ \A d \in DOMAIN daily' : d <= day' /\ daily'[d] <= run'
  <2>1. CASE UNCHANGED <<pointers, daily>>
    BY <1>0, <2>1 DEF Order, Times, Numbers
  <2>2. CASE Halves(run) /\ daily' = daily
    <3>1. \A r \in Runs : pointers'[r] = pointers[r] \/ r = run
      BY <2>2 DEF Halves, TypeOK
    <3> QED
      BY <1>0, <1>1, <2>2, <3>1 DEF Order, Times, Numbers
  <2>3. CASE pc = "dailyPointer" /\ daily' = Named(0) /\ pointers' = pointers
    <3>1. /\ DOMAIN daily' = DOMAIN daily \cup {job.ended} /\ job.ended = day
          /\ \A d \in DOMAIN daily' : daily'[d] = IF d = job.ended THEN 0 ELSE daily[d]
      BY <2>3 DEF Named, Order, Times, Finalizing
    <3> QED
      BY <1>0, <1>1, <2>3, <3>1 DEF Order, Times, Numbers
  <2>4. CASE OldRuns # {} /\ Halves(Min(OldRuns)) /\ daily' = daily
    BY <1>0, <2>4, OldestGoes DEF Order, Times, Numbers
  <2>5. CASE daily' = [daily EXCEPT ![Min(OldDays)] = 0] /\ pointers' = pointers
    <3>1. DOMAIN daily' = DOMAIN daily /\ \A d \in DOMAIN daily : daily'[d] \in {0, daily[d]}
      BY <2>5
    <3> QED
      BY <1>0, <1>1, <2>5, <3>1 DEF Order, Times, Numbers
  <2> QED
    BY <2>1, <2>2, <2>3, <2>4, <2>5, KillTypes DEF Order, Numbers
<1>4. Times' /\ Numbers'
  BY <1>0, <1>2, <1>3 DEF Times, Numbers
<1> QED
  BY <1>2, <1>4 DEF Order

-----------------------------------------------------------------------------
(***************************************************************************)
(* What is lost.                                                           *)
(***************************************************************************)

There == {r \in Runs : pointers[r] # "absent"}

HistoryLost ==
    ~wiped => \A d \in DOMAIN daily :
        daily[d] # 0 /\ pointers[daily[d]] # "pointer"
            => Cardinality(Newer(There, daily[d])) >= KeepRuns

LogsLost == \A r \in 1 .. run : r \notin logs => Cardinality(Newer(1 .. run, r)) >= KeepRuns

LEMMA NamedIsRun ==
  ASSUME TypeOK, NEW d \in DOMAIN daily, daily[d] # 0
  PROVE  daily[d] \in Runs
  BY FiniteRuns DEF TypeOK, Runs

\* As long as no directory goes, no more is lost.
LEMMA NothingGoes ==
  ASSUME TypeOK, HistoryLost, wiped' = wiped,
         \A r \in Runs : pointers[r] # "absent" => pointers'[r] # "absent",
         \A d \in DOMAIN daily' :
             \/ daily'[d] = 0
             \/ pointers'[daily'[d]] = "pointer"
             \/ d \in DOMAIN daily /\ daily'[d] = daily[d] /\ pointers[daily[d]] # "pointer"
  PROVE  HistoryLost'
<1> SUFFICES ASSUME ~wiped', NEW d \in DOMAIN daily', daily'[d] # 0, pointers'[daily'[d]] # "pointer"
             PROVE  Cardinality(Newer(There', daily'[d])) >= KeepRuns
  BY DEF HistoryLost
<1>1. d \in DOMAIN daily /\ daily'[d] = daily[d] /\ pointers[daily[d]] # "pointer"
  OBVIOUS
<1>2. Cardinality(Newer(There, daily[d])) >= KeepRuns
  BY <1>1 DEF HistoryLost
<1>3. Newer(There, daily[d]) \subseteq Newer(There', daily[d])
  BY DEF Newer, There
<1>4. IsFiniteSet(Newer(There', daily[d]))
  <2>1. Newer(There', daily[d]) \in SUBSET Runs
    BY DEF Newer, There
  <2> QED
    BY <2>1, FiniteRuns
<1> HIDE DEF There
<1>5. /\ Cardinality(Newer(There, daily[d])) \in Nat /\ Cardinality(Newer(There', daily[d])) \in Nat
      /\ Cardinality(Newer(There, daily[d])) <= Cardinality(Newer(There', daily[d]))
  BY <1>3, <1>4, MoreNewer
<1> QED
  BY <1>1, <1>2, <1>5, FiniteRuns

\* When the oldest of too many goes, whole or by half, what names it is lost to
\* newer ones, and what was lost before is.
LEMMA OldestLost ==
  ASSUME TypeOK, Order, HistoryLost, OldRuns # {}, UNCHANGED <<daily, wiped>>,
         pointers' = [pointers EXCEPT ![Min(OldRuns)] = "absent"] \/ Halves(Min(OldRuns))
  PROVE  HistoryLost'
<1> DEFINE m == Min(OldRuns)
<1>1. m \in Runs /\ pointers[m] # "absent" /\ Cardinality(Newer(There, m)) >= KeepRuns
  BY OldestRun DEF There
<1> HIDE DEF m
<1>2. \A r \in Runs : pointers'[r] = pointers[r] \/ r = m
  BY <1>1 DEF m, Halves, TypeOK
<1>3. Runs \subseteq Nat /\ m \in Nat
  BY <1>1, FiniteRuns
<1> SUFFICES ASSUME ~wiped, NEW d \in DOMAIN daily, daily[d] # 0, pointers'[daily[d]] # "pointer"
             PROVE  Cardinality(Newer(There', daily[d])) >= KeepRuns
  BY DEF HistoryLost
<1>4. daily[d] \in Runs /\ daily[d] \in Nat
  BY NamedIsRun, FiniteRuns
<1>5. PICK r \in {m, daily[d]} : /\ Cardinality(Newer(There, r)) >= KeepRuns
                                 /\ Newer(There, r) \subseteq Newer(There', daily[d])
  <2>1. CASE daily[d] <= m
    <3>1. \A q \in Runs : q > m => q > daily[d] /\ q # m
      BY <1>3, <1>4, <2>1
    <3>2. Newer(There, m) \subseteq Newer(There', daily[d])
      BY <1>2, <3>1 DEF Newer, There
    <3> QED
      BY <1>1, <3>2
  <2>2. CASE daily[d] > m
    <3>1. daily[d] # m /\ \A q \in Runs : q > daily[d] => q # m
      BY <1>3, <1>4, <2>2
    <3>2. Newer(There, daily[d]) \subseteq Newer(There', daily[d])
      BY <1>2, <3>1 DEF Newer, There
    <3>3. pointers[daily[d]] # "pointer"
      BY <1>2, <1>4, <3>1
    <3> QED
      BY <3>2, <3>3 DEF HistoryLost
  <2> QED
    BY <1>3, <1>4, <2>1, <2>2
<1>6. IsFiniteSet(Newer(There', daily[d]))
  <2>1. Newer(There', daily[d]) \in SUBSET Runs
    BY DEF Newer, There
  <2> QED
    BY <2>1, FiniteRuns
<1> HIDE DEF There
<1>7. /\ Cardinality(Newer(There, r)) \in Nat /\ Cardinality(Newer(There', daily[d])) \in Nat
      /\ Cardinality(Newer(There, r)) <= Cardinality(Newer(There', daily[d]))
  BY <1>5, <1>6, MoreNewer
<1> QED
  BY <1>5, <1>7, FiniteRuns

LEMMA LogsLostTo ==
  ASSUME TypeOK, LogsLost,
         \/ Start \/ PruneLogs
         \/ run' = run /\ logs' = logs
  PROVE  LogsLost'
<1>0. run \in Nat /\ IsFiniteSet(1 .. run) /\ 1 .. run \subseteq Nat /\ IsFiniteSet(1 .. run + 1)
  <2>1. run \in Nat
    BY FiniteRuns DEF TypeOK
  <2> QED
    BY <2>1, FS_Interval
<1>1. CASE Start
  <2>1. run' = run + 1 /\ logs' = logs \cup {run + 1}
    BY <1>1 DEF Start
  <2> SUFFICES ASSUME NEW r \in 1 .. run + 1, r \notin logs \cup {run + 1}
               PROVE  Cardinality(Newer(1 .. run + 1, r)) >= KeepRuns
    BY <2>1 DEF LogsLost
  <2>2. r \in 1 .. run /\ r \notin logs
    BY <1>0
  <2>3. Newer(1 .. run, r) \subseteq Newer(1 .. run + 1, r) /\ IsFiniteSet(Newer(1 .. run + 1, r))
    BY <1>0, FS_Subset DEF Newer
  <2>4. Cardinality(Newer(1 .. run, r)) >= KeepRuns
    BY <2>2 DEF LogsLost
  <2> QED
    BY <2>3, <2>4, MoreNewer, FiniteRuns
<1>2. CASE PruneLogs
  <2>1. run' = run /\ logs' = logs \ Surplus(1 .. run, KeepRuns)
    BY <1>2 DEF PruneLogs
  <2> SUFFICES ASSUME NEW r \in 1 .. run, r \notin logs \/ r \in Surplus(1 .. run, KeepRuns)
               PROVE  Cardinality(Newer(1 .. run, r)) >= KeepRuns
    BY <2>1 DEF LogsLost
  <2> QED
    BY <1>0, FiniteRuns, SurplusHasNewer DEF LogsLost
<1>3. CASE run' = run /\ logs' = logs
  BY <1>3 DEF LogsLost
<1> QED
  BY <1>1, <1>2, <1>3

-----------------------------------------------------------------------------
(***************************************************************************)
(* The newest day resolves, and losses are to newer runs: every step.      *)
(***************************************************************************)

\* The latest day and a step after which it is as it was.
LEMMA SameNewest ==
  ASSUME NewestDailyResolves, wiped' = wiped,
         \A d \in DOMAIN daily' : Newer(DOMAIN daily', d) = {} =>
             \/ daily'[d] = 0
             \/ pointers'[daily'[d]] = "pointer"
             \/ /\ d \in DOMAIN daily /\ daily'[d] = daily[d] /\ Newer(DOMAIN daily, d) = {}
                /\ pointers'[daily[d]] = pointers[daily[d]]
  PROVE  NewestDailyResolves'
  BY DEF NewestDailyResolves

\* Where a day has been given a pointer, an earlier one is not the latest.
LEMMA NamedLast ==
  ASSUME TypeOK, Order, pc = "dailyPointer", NEW n, daily' = Named(n),
         NEW d \in DOMAIN daily', Newer(DOMAIN daily', d) = {}
  PROVE  d = job.ended /\ daily'[d] = n
<1>1. DOMAIN daily' = DOMAIN daily \cup {job.ended} /\ daily'[job.ended] = n
  BY DEF Named
<1>2. job.ended = day /\ day \in Nat /\ \A e \in DOMAIN daily : e \in Nat /\ e <= day
  BY FiniteRuns DEF Order, Times, Finalizing, TypeOK
<1>3. d = job.ended \/ d < job.ended
  BY <1>1, <1>2
<1>4. ~(d < job.ended)
  BY <1>1 DEF Newer
<1> QED
  BY <1>1, <1>3, <1>4

\* The latest day of a run that prunes the earlier ones names that run.
LEMMA NewestIsRun ==
  ASSUME TypeOK, Order, pc = "pruneRuns", ~wiped,
         NEW d \in DOMAIN daily, Newer(DOMAIN daily, d) = {}
  PROVE  daily[d] = run /\ pointers[run] = "pointer"
<1>1. job.ended = day /\ \A e \in DOMAIN daily : e \in Nat /\ e <= day
  BY FiniteRuns DEF Order, Times, Finalizing, TypeOK
<1>2. /\ pointers[run] = "pointer"
      /\ job.ended \in DOMAIN daily /\ daily[job.ended] = run
  BY DEF Order, Written
<1>3. ~(day > d) /\ d <= day /\ d \in Nat /\ day \in Nat
  BY <1>1, <1>2 DEF Newer
<1>4. d = day
  BY <1>3
<1> QED
  BY <1>1, <1>2, <1>4

LEMMA HistoryKeeps ==
  ASSUME TypeOK, TypeOK', Order, HistoryLost, NewestDailyResolves,
         WriteArtifacts \/ WriteRunPointer \/ WriteDailyPointer \/ PruneRun \/ PruneDay
  PROVE  HistoryLost' /\ NewestDailyResolves'
<1>0. UNCHANGED <<run, job, wiped>> /\ run \in Runs /\ run > 0
  BY RunType DEF Order, Numbers, WriteArtifacts, WriteRunPointer, WriteDailyPointer,
     PruneRun, PruneDay
<1>1. CASE WriteArtifacts \/ WriteRunPointer
  <2>1. /\ pc \in {"artifacts", "runPointer"} /\ daily' = daily
        /\ \A r \in Runs : pointers'[r] = pointers[r] \/ r = run
        /\ pointers'[run] # "absent" \/ pointers' = pointers
    BY <1>0, <1>1 DEF WriteArtifacts, WriteRunPointer, TypeOK
  <2>2. \A d \in DOMAIN daily : daily[d] # run
    BY <2>1 DEF Order, Unnamed
  <2>3. \A d \in DOMAIN daily : daily[d] = 0 \/ pointers'[daily[d]] = pointers[daily[d]]
    BY <2>1, <2>2, NamedIsRun
  <2>4. \A r \in Runs : pointers[r] # "absent" => pointers'[r] # "absent"
    BY <2>1
  <2> QED
    BY <1>0, <2>1, <2>3, <2>4, NothingGoes, SameNewest
<1>2. CASE WriteDailyPointer
  <2>1. pc = "dailyPointer" /\ pointers' = pointers /\ daily' = Named(run)
    BY <1>2 DEF WriteDailyPointer
  <2>2. CASE wiped
    BY <1>0, <2>2 DEF HistoryLost, NewestDailyResolves
  <2>3. CASE ~wiped
    <3>1. pointers[run] = "pointer"
      BY <2>1, <2>3 DEF Order, Written
    <3>2. \A d \in DOMAIN daily' : daily'[d] = run \/ (d \in DOMAIN daily /\ daily'[d] = daily[d])
      BY <2>1 DEF Named
    <3>3. HistoryLost'
      BY <1>0, <2>1, <3>1, <3>2, NothingGoes
    <3>4. NewestDailyResolves'
      BY <1>0, <2>1, <3>1, NamedLast, SameNewest
    <3> QED
      BY <3>3, <3>4
  <2> QED
    BY <2>2, <2>3
<1>3. CASE PruneRun
  <2>1. pc = "pruneRuns" /\ OldRuns # {} /\ UNCHANGED <<day, run, daily, wiped>>
        /\ pointers' = [pointers EXCEPT ![Min(OldRuns)] = "absent"]
    BY <1>3 DEF PruneRun
  <2>2. HistoryLost'
    BY <2>1, OldestLost
  <2>3. pointers'[run] = pointers[run]
    BY <1>0, <2>1, OldestGoes
  <2>4. NewestDailyResolves'
    BY <2>1, <2>3, NewestIsRun DEF NewestDailyResolves
  <2> QED
    BY <2>2, <2>4
<1>4. CASE PruneDay
  <2>1. OldDays # {} /\ pointers' = pointers /\ daily' = Restrict(daily, DOMAIN daily \ {Min(OldDays)})
    BY <1>4 DEF PruneDay
  <2>2. PICK q \in DOMAIN daily : q > Min(OldDays)
    BY <2>1, OldestDay
  <2> DEFINE m == Min(OldDays)
  <2>3. m \in DOMAIN daily /\ DOMAIN daily \subseteq Nat
    BY <2>1, OldestDay, FiniteRuns DEF TypeOK
  <2>4. DOMAIN daily' = DOMAIN daily \ {m} /\ \A d \in DOMAIN daily' : daily'[d] = daily[d]
    BY <2>1 DEF Restrict
  <2> HIDE DEF m
  <2>5. q # m /\ q \in DOMAIN daily' /\ q > m /\ q \in Nat /\ m \in Nat
    BY <2>2, <2>3, <2>4 DEF m
  <2>6. ASSUME NEW d \in DOMAIN daily', Newer(DOMAIN daily', d) = {}
        PROVE  Newer(DOMAIN daily, d) = {}
    <3>1. ~(q > d) /\ d \in Nat
      BY <2>3, <2>4, <2>5, <2>6 DEF Newer
    <3>2. ~(m > d)
      BY <2>5, <3>1
    <3> QED
      BY <2>4, <2>6, <3>2 DEF Newer
  <2>7. HistoryLost'
    BY <1>0, <2>1, <2>4, NothingGoes
  <2>8. NewestDailyResolves'
    BY <1>0, <2>1, <2>4, <2>6, SameNewest
  <2> QED
    BY <2>7, <2>8
<1> QED
  BY <1>1, <1>2, <1>3, <1>4

LEMMA KillKeeps ==
  ASSUME TypeOK, Order, HistoryLost, NewestDailyResolves, Kill
  PROVE  HistoryLost' /\ NewestDailyResolves'
<1>0. UNCHANGED <<day, run, wiped>> /\ run \in Runs /\ run > 0
  BY KillTypes, RunType DEF Order, Numbers, Kill
<1>1. CASE UNCHANGED <<pointers, daily>>
  BY <1>0, <1>1 DEF HistoryLost, NewestDailyResolves, There
<1>2. CASE pc = "runPointer" /\ Halves(run) /\ daily' = daily
  <2>1. \A r \in Runs : pointers'[r] = pointers[r] \/ r = run
    BY <1>2 DEF Halves, TypeOK
  <2>2. \A d \in DOMAIN daily : daily[d] # run
    BY <1>2 DEF Order, Unnamed
  <2>3. \A d \in DOMAIN daily : daily[d] = 0 \/ pointers'[daily[d]] = pointers[daily[d]]
    BY <2>1, <2>2, NamedIsRun
  <2>4. \A r \in Runs : pointers[r] # "absent" => pointers'[r] # "absent"
    BY <1>0, <1>2, <2>1 DEF Halves, TypeOK
  <2> QED
    BY <1>0, <1>2, <2>3, <2>4, NothingGoes, SameNewest
<1>3. CASE pc = "dailyPointer" /\ daily' = Named(0) /\ pointers' = pointers
  <2>1. \A d \in DOMAIN daily' : daily'[d] = 0 \/ (d \in DOMAIN daily /\ daily'[d] = daily[d])
    BY <1>3 DEF Named
  <2>2. HistoryLost'
    BY <1>0, <1>3, <2>1, NothingGoes
  <2>3. NewestDailyResolves'
    BY <1>0, <1>3, NamedLast, SameNewest
  <2> QED
    BY <2>2, <2>3
<1>4. CASE pc = "pruneRuns" /\ OldRuns # {} /\ Halves(Min(OldRuns)) /\ daily' = daily
  <2>1. HistoryLost'
    BY <1>0, <1>4, OldestLost
  <2>2. pointers'[run] = pointers[run]
    BY <1>0, <1>4, OldestGoes
  <2>3. NewestDailyResolves'
    BY <1>0, <1>4, <2>2, NewestIsRun DEF NewestDailyResolves
  <2> QED
    BY <2>1, <2>3
<1>5. CASE pc = "pruneDays" /\ OldDays # {} /\ daily' = [daily EXCEPT ![Min(OldDays)] = 0]
           /\ pointers' = pointers
  <2>1. DOMAIN daily' = DOMAIN daily /\ \A d \in DOMAIN daily' : daily'[d] = 0 \/ daily'[d] = daily[d]
    BY <1>5
  <2> QED
    BY <1>0, <1>5, <2>1, NothingGoes, SameNewest
<1> QED
  BY <1>1, <1>2, <1>3, <1>4, <1>5, KillTypes DEF Order, Numbers

LEMMA DeleteKeeps ==
  ASSUME TypeOK, HistoryLost, NewestDailyResolves,
         NEW p \in Pruners, NEW path \in plan[p], Delete(p, path)
  PROVE  HistoryLost' /\ NewestDailyResolves'
<1>1. CASE UNCHANGED <<pointers, daily, wiped>>
  BY <1>1 DEF HistoryLost, NewestDailyResolves, There
<1>2. CASE wiped'
  BY <1>2 DEF HistoryLost, NewestDailyResolves
<1> QED
  BY <1>1, <1>2, DeleteTypes

-----------------------------------------------------------------------------
(***************************************************************************)
(* The theorems about the states.                                          *)
(***************************************************************************)

RetentionInv == TypeOK /\ Order /\ HistoryLost /\ LogsLost /\ NewestDailyResolves

LEMMA InitRetention == ASSUME Init PROVE RetentionInv
<1>1. TypeOK
  BY InitTypes
<1>2. DOMAIN daily = {} /\ \A r \in Runs : pointers[r] = "absent"
  BY DEF Init
<1>3. Order
  BY <1>2 DEF Order, Times, Numbers, Unnamed, Written, Init, Finalizing
<1>4. HistoryLost /\ NewestDailyResolves
  BY <1>2 DEF HistoryLost, NewestDailyResolves
<1>5. LogsLost
  BY DEF LogsLost, Init
<1> QED
  BY <1>1, <1>3, <1>4, <1>5 DEF RetentionInv

LEMMA StepRetention == ASSUME RetentionInv, [Next]_vars PROVE RetentionInv'
<1> USE DEF RetentionInv
<1>0. pc # "idle" => run > 0
  BY DEF Order, Numbers
<1>1. CASE Aside
  <2>1. TypeOK' /\ Order' /\ UNCHANGED <<pointers, daily, wiped>>
    BY <1>0, <1>1, AsideTypes, AsideOrder
  <2>2. HistoryLost' /\ NewestDailyResolves'
    BY <2>1 DEF HistoryLost, NewestDailyResolves, There
  <2>3. Start \/ PruneLogs \/ (run' = run /\ logs' = logs)
    BY <1>1 DEF Aside, WriteReport, MoveSuccess, Archived, Pruned, RetentionRaises,
           PlanDaily, PruneEnds, PlanByHand, PlanPrune, Midnight, Archive
  <2> QED
    BY <2>1, <2>2, <2>3, LogsLostTo
<1>2. CASE WriteArtifacts \/ WriteRunPointer \/ WriteDailyPointer \/ PruneRun \/ PruneDay
  <2>1. TypeOK' /\ Order'
    BY <1>0, <1>2, HistoryTypes, HistoryOrder
  <2>2. HistoryLost' /\ NewestDailyResolves'
    BY <1>2, <2>1, HistoryKeeps
  <2>3. run' = run /\ logs' = logs
    BY <1>2 DEF WriteArtifacts, WriteRunPointer, WriteDailyPointer, PruneRun, PruneDay
  <2> QED
    BY <2>1, <2>2, <2>3, LogsLostTo
<1>3. CASE Kill
  BY <1>0, <1>3, KillTypes, KillOrder, KillKeeps, LogsLostTo
<1>4. ASSUME NEW p \in Pruners, NEW path \in plan[p], Delete(p, path)
      PROVE  RetentionInv'
  BY <1>4, DeleteTypes, DeleteOrder, DeleteKeeps, LogsLostTo
<1>5. CASE UNCHANGED vars
  BY <1>5 DEF vars, TypeOK, Order, Times, Numbers, Unnamed, Written, HistoryLost, LogsLost,
              NewestDailyResolves, There, OldRuns, OldDays
<1> QED
  BY <1>1, <1>2, <1>3, <1>4, <1>5 DEF Next, Daily, Retain, Aside

\* The order in which a run writes its pointers, and what is lost to later runs:
\* the invariant from which the other theorems follow.
THEOREM RetentionAlways == Spec => []RetentionInv
  BY InitRetention, StepRetention, PTL DEF Spec

\* The state has its type, whatever is killed and pruned.
THEOREM TypeCorrect == Spec => []TypeOK
<1>1. RetentionInv => TypeOK
  BY DEF RetentionInv
<1> QED
  BY <1>1, RetentionAlways, PTL

\* The latest day that has a pointer leads to a run that has one: the step order
\* of update_history_retention is safe against a kill between any two writes.
THEOREM NewestResolves == Spec => []NewestDailyResolves
<1>1. RetentionInv => NewestDailyResolves
  BY DEF RetentionInv
<1> QED
  BY <1>1, RetentionAlways, PTL

\* A pointer loses its run, and a run its logs, only to KeepRuns later runs:
\* what _prune_run_pointers and _enforce_run_log_retention remove is old.
THEOREM OnlyNewerRunsPushOut == Spec => []LostToNewerRuns
<1>1. RetentionInv => LostToNewerRuns
  BY DEF RetentionInv, HistoryLost, LogsLost, LostToNewerRuns, There
<1> QED
  BY <1>1, RetentionAlways, PTL

-----------------------------------------------------------------------------
(***************************************************************************)
(* What a plan of prune_state spares.                                      *)
(***************************************************************************)

LEMMA TreeFinite ==
  ASSUME IsFiniteSet(tree), [Next]_vars
  PROVE  IsFiniteSet(tree')
<1>1. \E a, b : tree' \subseteq tree \cup {a, b}
  <2>1. CASE Aside
    <3>1. CASE \E q \in Providers \cup {"openai"} : Archive(q)
      BY <3>1 DEF Archive
    <3>2. CASE WriteReport \/ RetentionRaises
      BY <3>2 DEF WriteReport, RetentionRaises
    <3>3. CASE ~(\E q \in Providers \cup {"openai"} : Archive(q))
               /\ ~WriteReport /\ ~RetentionRaises
      BY <2>1, <3>3 DEF Aside, Start, MoveSuccess, Archived, Pruned, PruneLogs,
             PlanDaily, PruneEnds, PlanByHand, PlanPrune, Midnight
    <3> QED
      BY <3>1, <3>2, <3>3
  <2>2. CASE WriteArtifacts \/ WriteRunPointer \/ WriteDailyPointer \/ PruneRun \/ PruneDay
    BY <2>2 DEF WriteArtifacts, WriteRunPointer, WriteDailyPointer, PruneRun, PruneDay
  <2>3. CASE Kill
    BY <2>3 DEF Kill
  <2>4. ASSUME NEW p \in Pruners, NEW path \in plan[p], Delete(p, path)
        PROVE  tree' \subseteq tree
    BY <2>4 DEF Delete
  <2>5. CASE UNCHANGED vars
    BY <2>5 DEF vars
  <2> QED
    BY <2>1, <2>2, <2>3, <2>4, <2>5 DEF Next, Daily, Retain, Aside
<1>2. PICK a, b : tree' \subseteq tree \cup {a, b}
  BY <1>1
<1>3. IsFiniteSet((tree \cup {a}) \cup {b})
  BY FS_AddElement
<1> QED
  BY <1>2, <1>3, FS_Subset

\* What OldSnapshots selects of what is found is none that is kept: there are
\* KeepHistory that come after it, or one that does if it is too old.
LEMMA SelectedHasLater ==
  ASSUME NEW found, IsFiniteSet(found), NEW olds \in OldSnapshots(found), NEW path \in olds,
         \A p \in found : Key(p) \in Nat
  PROVE  /\ path \in found
         /\ \/ \E k \in SUBSET (found \ {path}) :
                  Cardinality(k) = KeepHistory /\ \A q \in k : Key(path) <= Key(q)
            \/ /\ path.what \in {"flat", "folder"} /\ Aged(path.run)
               /\ \E q \in found \ {path} : Key(path) <= Key(q)
<1> DEFINE size == Min({KeepHistory, Cardinality(found)})
           old(p) == p.what \in {"flat", "folder"} /\ Aged(p.run)
           last(s) == {n \in s : \A q \in s : Key(q) <= Key(n)}
<1>0. PICK k \in kSubset(size, found) :
         /\ \A p \in found \ k, q \in k : Key(p) <= Key(q)
         /\ olds \in {{p \in found : p # n /\ (p \notin k \/ old(p))} : n \in last(k)}
  BY DEF OldSnapshots
<1>1. PICK n \in k : /\ \A q \in k : Key(q) <= Key(n)
                     /\ olds = {p \in found : p # n /\ (p \notin k \/ old(p))}
  BY <1>0
<1>2. Cardinality(found) \in Nat /\ KeepHistory \in Nat
  BY FS_CardinalityType, FiniteRuns
<1>3. size \in {KeepHistory, Cardinality(found)} /\ size <= Cardinality(found) /\ size <= KeepHistory
  <2> DEFINE both == {KeepHistory, Cardinality(found)}
  <2>0. IsFiniteSet({KeepHistory} \cup {Cardinality(found)})
    BY FS_Singleton, FS_AddElement
  <2>1. both \in SUBSET Nat /\ both # {} /\ both = {KeepHistory} \cup {Cardinality(found)}
    BY <1>2
  <2>2. Min(both) \in both /\ \A y \in both : Min(both) <= y
    BY <2>0, <2>1, MinIn
  <2> QED
    BY <2>2
<1> HIDE DEF size
<1>4. k \subseteq found /\ Cardinality(k) = size
  BY <1>0 DEF kSubset
<1>5. path \in found /\ path # n /\ (path \notin k \/ old(path))
  BY <1>1
<1>6. CASE path \in k
  BY <1>1, <1>4, <1>5, <1>6
<1>7. CASE path \notin k
  <2>1. IsFiniteSet(found \ {path}) /\ Cardinality(found \ {path}) = Cardinality(found) - 1
    BY <1>5, FS_RemoveElement
  <2>2. k \subseteq found \ {path}
    BY <1>4, <1>7
  <2>3. Cardinality(k) <= Cardinality(found) - 1
    BY <2>1, <2>2, FS_Subset
  <2>4. Cardinality(k) = KeepHistory
    BY <1>2, <1>3, <1>4, <2>3
  <2> QED
    BY <1>0, <1>5, <1>7, <2>2, <2>4
<1> QED
  BY <1>6, <1>7

\* Where a selected snapshot of the profile comes from.
LEMMA SelectedByName ==
  ASSUME TypeOK, NEW paths \in Plans, NEW path \in paths, path.what \in {"flat", "nested", "root"}
  PROVE  \E olds \in OldSnapshots(Found("profile")) : path \in olds
<1> DEFINE names == {n \in latest : Found(n) # {}}
           olds == [n \in names |-> OldSnapshots(Found(n))]
<1>1. PICK c \in [names -> UNION {olds[n] : n \in names}] :
         /\ \A n \in names : c[n] \in olds[n]
         /\ paths = OldReports \cup UNION {c[n] : n \in names}
  BY DEF Plans
<1>2. path \notin OldReports
  <2>1. \A r : Report(r).what = "report"
    BY DEF Report
  <2>2. \A p \in OldReports : \E r : p = Report(r)
    BY DEF OldReports
  <2> QED
    BY <2>1, <2>2
<1>3. PICK n \in names : path \in c[n]
  BY <1>1, <1>2
<1>4. c[n] \in OldSnapshots(Found(n))
  BY <1>1
<1>5. path \in Found(n)
  BY <1>3, <1>4 DEF OldSnapshots
<1>6. n = "profile"
  BY <1>5 DEF Found, All
<1> QED
  BY <1>3, <1>4, <1>6

\* Key, by the kind of path.
LEMMA Keys ==
  /\ \A r \in Runs : Key(Flat(r)) = r
  /\ \A p \in Paths : p.what \in {"flat", "folder"} => Key(p) = p.run /\ p.run \in Runs
  /\ \A p \in Paths : p.what \in {"nested", "root"} =>
        Key(p) = MaxRun + 1 + NameOrder[p.of] /\ NameOrder[p.of] \in Nat
<1>1. \A q \in Providers \cup {"history"} : NameOrder[q] \in Nat
  BY RetentionAssumption
<1>2. \A r \in Runs : Key(Flat(r)) = r
  BY DEF Key, Flat
<1>3. \A p \in Paths : p.what \in {"flat", "folder"} => Key(p) = p.run /\ p.run \in Runs
  BY DEF Key, Paths
<1>4. \A p \in Paths : p.what \in {"nested", "root"} =>
          Key(p) = MaxRun + 1 + NameOrder[p.of] /\ NameOrder[p.of] \in Nat
  BY <1>1 DEF Key, Paths
<1> QED
  BY <1>2, <1>3, <1>4

\* The snapshots of the profile that are not sorted by a run.
Odd == All("nested") \cup All("root")

LEMMA ProfileFound ==
  ASSUME TypeOK
  PROVE  /\ Found("profile") \subseteq Paths
         /\ \A p \in Found("profile") : Key(p) \in Nat
         /\ \A p \in Found("profile") \ Odd : \E r \in Runs : p = Flat(r) /\ p \in tree
         /\ Odd \subseteq Found("profile")
<1>1. Found("profile") \subseteq Paths /\ Odd \subseteq Found("profile")
  BY DEF Found, All, Odd, TypeOK
<1>2. \A p \in Paths : p.what = "flat" => p = Flat(p.run) /\ p.run \in Runs
  BY DEF Paths, Flat
<1>3. \A p \in Found("profile") : p.what \in {"flat", "nested", "root"} /\ p \in tree
  BY DEF Found, All
<1>4. \A p \in Found("profile") \ Odd : p.what = "flat"
  BY DEF Found, All, Odd
<1>5. \A p \in Found("profile") : Key(p) \in Nat
  <2>1. MaxRun \in Nat /\ \A r \in Runs : r \in Nat
    BY FiniteRuns
  <2> QED
    BY <1>1, <1>3, <2>1, Keys
<1> QED
  BY <1>1, <1>2, <1>3, <1>4, <1>5

LEMMA FlatSpared ==
  ASSUME TypeOK, IsFiniteSet(tree), NEW paths \in Plans, NEW r \in Runs, Flat(r) \in paths,
         \A q \in Runs : q > r => Flat(q) \notin tree
  PROVE  Cardinality(Odd) >= KeepHistory \/ (Aged(r) /\ Odd # {})
<1> DEFINE found == Found("profile")
<1>1. IsFiniteSet(found) /\ IsFiniteSet(Odd) /\ \A p \in found : Key(p) \in Nat
  <2>1. found \subseteq tree /\ Odd \subseteq tree
    BY DEF Found, All, Odd
  <2> QED
    BY <2>1, FS_Subset, ProfileFound
<1>2. Flat(r).what = "flat" /\ Flat(r).run = r /\ Key(Flat(r)) = r
  BY Keys DEF Flat
<1>3. PICK olds \in OldSnapshots(found) : Flat(r) \in olds
  BY <1>2, SelectedByName
<1>4. \A p \in found \ {Flat(r)} : r <= Key(p) => p \in Odd
  <2> SUFFICES ASSUME NEW p \in found \ {Flat(r)}, r <= Key(p), p \notin Odd
               PROVE  FALSE
    OBVIOUS
  <2>1. PICK q \in Runs : p = Flat(q) /\ p \in tree
    BY ProfileFound
  <2>2. r <= q /\ q # r
    BY <2>1, Keys
  <2>3. q > r
    BY <2>2, FiniteRuns
  <2> QED
    BY <2>1, <2>3
<1> HIDE DEF found
<1>5. CASE \E k \in SUBSET (found \ {Flat(r)}) :
              Cardinality(k) = KeepHistory /\ \A q \in k : Key(Flat(r)) <= Key(q)
  <2>1. PICK k \in SUBSET (found \ {Flat(r)}) :
           Cardinality(k) = KeepHistory /\ \A q \in k : r <= Key(q)
    BY <1>2, <1>5
  <2>2. k \subseteq Odd
    BY <1>4, <2>1
  <2>3. Cardinality(k) <= Cardinality(Odd) /\ Cardinality(Odd) \in Nat
    BY <1>1, <2>2, FS_Subset, FS_CardinalityType
  <2> QED
    BY <2>1, <2>3, FiniteRuns
<1>6. CASE Aged(r) /\ \E q \in found \ {Flat(r)} : Key(Flat(r)) <= Key(q)
  BY <1>2, <1>4, <1>6
<1> QED
  BY <1>1, <1>2, <1>3, <1>5, <1>6, SelectedHasLater

LEMMA RootSpared ==
  ASSUME TypeOK, IsFiniteSet(tree), NEW paths \in Plans, Root \in paths
  PROVE  Cardinality({n \in All("nested") : NameOrder[n.of] > NameOrder["history"]}) >= KeepHistory
<1> DEFINE found == Found("profile")
           after == {n \in All("nested") : NameOrder[n.of] > NameOrder["history"]}
           first == NameOrder["history"]
<1>1. IsFiniteSet(found) /\ IsFiniteSet(after) /\ \A p \in found : Key(p) \in Nat
  <2>1. found \subseteq tree /\ after \subseteq tree
    BY DEF Found, All
  <2> QED
    BY <2>1, FS_Subset, ProfileFound
<1>2. Root.what = "root" /\ Root.of = "history" /\ first \in Nat /\ Key(Root) = MaxRun + 1 + first
  BY PathsType, Keys DEF Root
<1>3. PICK olds \in OldSnapshots(found) : Root \in olds
  BY <1>2, SelectedByName
<1>4. \A p \in found \ {Root} : Key(Root) <= Key(p) => p \in after
  <2> SUFFICES ASSUME NEW p \in found \ {Root}, Key(Root) <= Key(p)
               PROVE  p \in after
    OBVIOUS
  <2>1. p \in Paths /\ p \in tree /\ p.what \in {"flat", "nested", "root"}
    BY DEF Found, All, TypeOK
  <2>2. p.what # "flat"
    <3> SUFFICES ASSUME p.what = "flat" PROVE FALSE
      OBVIOUS
    <3>1. Key(p) \in Runs
      BY <2>1, Keys
    <3>2. Key(p) <= MaxRun /\ Key(p) \in Nat /\ MaxRun \in Nat
      BY <3>1, FiniteRuns DEF Runs
    <3> QED
      BY <1>2, <3>2
  <2>3. p.what # "root"
    BY <2>1 DEF Paths, Root
  <2>4. p.what = "nested" /\ p.of \in Providers
    BY <2>1, <2>2, <2>3 DEF Paths
  <2>5. NameOrder[p.of] # first /\ NameOrder[p.of] \in Nat
    BY <2>4, RetentionAssumption
  <2>6. Key(p) = MaxRun + 1 + NameOrder[p.of] /\ MaxRun \in Nat
    BY <2>1, <2>4, Keys, FiniteRuns
  <2>7. NameOrder[p.of] > first
    BY <1>2, <2>5, <2>6
  <2> QED
    BY <2>1, <2>4, <2>7 DEF All
<1> HIDE DEF found, after
<1>5. PICK k \in SUBSET (found \ {Root}) :
         Cardinality(k) = KeepHistory /\ \A q \in k : Key(Root) <= Key(q)
  BY <1>1, <1>2, <1>3, SelectedHasLater
<1>6. k \subseteq after
  BY <1>4, <1>5
<1>7. Cardinality(k) <= Cardinality(after) /\ Cardinality(after) \in Nat
  BY <1>1, <1>6, FS_Subset, FS_CardinalityType
<1>8. Cardinality(after) >= KeepHistory
  BY <1>5, <1>7, FiniteRuns
<1> QED
  BY <1>8 DEF after

LEMMA StepSpares ==
  ASSUME TypeOK, IsFiniteSet(tree), [Next]_vars, NEW p \in Pruners,
         NEW path \in plan'[p] \ plan[p]
  PROVE  \E paths \in Plans : path \in paths
<1>1. ASSUME NEW s \in Pruners, PlanPrune(s)
      PROVE  \E paths \in Plans : path \in paths
  <2>1. PICK paths \in Plans : plan' = [plan EXCEPT ![s] = paths]
    BY <1>1 DEF PlanPrune
  <2>2. plan'[p] = IF p = s THEN paths ELSE plan[p]
    BY <2>1 DEF TypeOK
  <2> QED
    BY <2>2
<1>2. CASE PlanDaily \/ PlanByHand
  BY <1>1, <1>2 DEF PlanDaily, PlanByHand, Pruners
<1>3. CASE Kill
  <2>1. plan' = [plan EXCEPT !["daily"] = {}]
    BY <1>3 DEF Kill
  <2>2. plan'[p] \subseteq plan[p]
    BY <2>1 DEF TypeOK
  <2> QED
    BY <2>2
<1>4. ASSUME NEW s \in Pruners, NEW gone \in plan[s], Delete(s, gone)
      PROVE  FALSE
  <2>1. plan' = [plan EXCEPT ![s] = @ \ {gone}]
    BY <1>4 DEF Delete
  <2>2. plan'[p] \subseteq plan[p]
    BY <2>1 DEF TypeOK
  <2> QED
    BY <2>2
<1>5. CASE UNCHANGED plan
  BY <1>5
<1>6. PlanDaily \/ PlanByHand \/ Kill \/ UNCHANGED plan
      \/ \E s \in Pruners : \E gone \in plan[s] : Delete(s, gone)
  BY DEF Next, Daily, Retain, Start, WriteReport, MoveSuccess, Archived, Archive, WriteArtifacts,
         WriteRunPointer, WriteDailyPointer, PruneRun, PruneDay, Pruned, RetentionRaises,
         PruneLogs, PruneEnds, Midnight, vars
<1> QED
  BY <1>2, <1>3, <1>4, <1>5, <1>6

\* prune_state selects the latest snapshot of the profile, or the directory of
\* the history pointers, only when enough others that _history_profile_snapshots
\* sorts after it push it out.
THEOREM SparesTheLatest == Spec => KeptUnlessPushedOut
<1> DEFINE Spares ==
        \A p \in Pruners :
          LET selected == plan'[p] \ plan[p]
              odd == All("nested") \cup All("root")
          IN  /\ \A r \in Runs :
                     Flat(r) \in selected /\ (\A q \in Runs : q > r => Flat(q) \notin tree)
                         => Cardinality(odd) >= KeepHistory \/ (Aged(r) /\ odd # {})
              /\ Root \in selected =>
                     Cardinality({n \in All("nested") : NameOrder[n.of] > NameOrder["history"]}) >= KeepHistory
           Finite == IsFiniteSet(tree)
<1>1. Init => Finite
  BY FS_EmptySet DEF Init
<1>2. Finite /\ [Next]_vars => Finite'
  BY TreeFinite
<1>3. TypeOK /\ Finite /\ [Next]_vars => Spares
  BY StepSpares, FlatSpared, RootSpared DEF Odd
<1>4. Spares => [Spares]_vars
  OBVIOUS
<1> HIDE DEF Spares, Finite
<1>5. Spec => [][Spares]_vars
  BY <1>1, <1>2, <1>3, TypeCorrect, PTL DEF Spec
<1> QED
  BY <1>5 DEF KeptUnlessPushedOut, Spares
=============================================================================
