----------------------------- MODULE Retention ------------------------------
(***************************************************************************)
(* What the state directory keeps of earlier runs: the closing steps of    *)
(* run_daily._finalize that write and prune, ji_engine/                    *)
(* history_retention.py, and scripts/prune_state.py, which a run calls at  *)
(* its end (JOBINTEL_PRUNE=1) and an operator at any time.                 *)
(*                                                                         *)
(* One profile, HISTORY_ENABLED=1.  The daily runs exclude each other      *)
(* (RunLock); a run may be killed between any two steps.  A time is a day: *)
(* the hours within a day are left out, and so is JOBINTEL_RUN_ID, which   *)
(* may reuse a run id, and --profile of prune_state.                       *)
(***************************************************************************)
EXTENDS Naturals, FiniteSets, FiniteSetsExt, Functions

CONSTANTS
    Providers,    \* the providers other than openai
    Requests,     \* the sets of providers a run may be asked for
    NameOrder,    \* the place of each provider, and of "history", in the alphabet
    KeepRuns,     \* HISTORY_KEEP_RUNS
    KeepDays,     \* HISTORY_KEEP_DAYS
    KeepReports,  \* --keep-runs of prune_state
    KeepHistory,  \* --keep-history
    MaxAge,       \* --max-age-days, 0 for no limit
    MaxRun,       \* a bound on the runs, of the model only
    MaxDay,       \* a bound on the days, of the model only
    MaxByHand     \* a bound on the operator's prunes, of the model only

ASSUME RetentionAssumption ==
    /\ Requests \subseteq SUBSET (Providers \cup {"openai"})
    /\ {NameOrder[q] : q \in Providers \cup {"history"}} \subseteq Nat
    /\ \A q \in Providers : NameOrder[q] # NameOrder["history"]
    /\ {KeepRuns, KeepDays, KeepReports, KeepHistory} \subseteq Nat \ {0}
    /\ {MaxAge, MaxRun, MaxDay, MaxByHand} \subseteq Nat

Runs == 1 .. MaxRun
Days == 0 .. MaxDay
Pruners == {"daily", "hand"}

VARIABLES
    day,          \* today
    run,          \* the number of the last daily run started, 0 before
    began,        \* the day of each run's id
    pc,           \* the step of the daily run
    job,          \* what it was given and has found out
    tree,         \* the files and directories that prune_state may delete
    latest,       \* the names in history/latest
    success,      \* the run last_success.json names, 0 for none
    pointers,     \* history/<profile>/runs: the directory of each run
    daily,        \* history/<profile>/daily: the run the pointer of a day names,
                  \* 0 for half a pointer; a day without one is not in its domain
    logs,         \* the runs whose logs are kept
    plan,         \* what each pruner still has to delete
    wiped,        \* observation: history/<profile> was deleted
    byHand        \* how often the operator has pruned

vars == <<day, run, began, pc, job, tree, latest, success, pointers, daily,
          logs, plan, wiped, byHand>>

\* The report of a run, its snapshot of the profile by openai (history/<date>/
\* <run>/<profile>), the folder of another provider (.../<provider>), the
\* snapshot in it (.../<provider>/<profile>), and history/<profile> itself.
Paths ==
    [what : {"report", "flat"}, run : Runs, of : {"openai"}]
        \cup [what : {"folder", "nested"}, run : Runs, of : Providers]
        \cup [what : {"root"}, run : {0}, of : {"history"}]

Report(r) == [what |-> "report", run |-> r, of |-> "openai"]
Flat(r) == [what |-> "flat", run |-> r, of |-> "openai"]
Folder(r, q) == [what |-> "folder", run |-> r, of |-> q]
Nested(r, q) == [what |-> "nested", run |-> r, of |-> q]
Root == [what |-> "root", run |-> 0, of |-> "history"]

All(what) == {p \in tree : p.what = what}

\* The day the run ended, its providers, those it has still to archive, and
\* whether it finalizes for the second time, as an error.
Jobs == [ended : Days, of : SUBSET (Providers \cup {"openai"}),
         todo : SUBSET (Providers \cup {"openai"}), again : BOOLEAN]
NoJob == [ended |-> 0, of |-> {}, todo |-> {}, again |-> FALSE]

Steps == {"idle", "report", "success", "archive", "artifacts", "runPointer",
          "dailyPointer", "pruneRuns", "pruneDays", "logs", "plan", "prune"}

TypeOK ==
    /\ day \in Days
    /\ run \in 0 .. MaxRun
    /\ began \in [Runs -> Days]
    /\ pc \in Steps
    /\ job \in Jobs
    /\ tree \subseteq Paths
    /\ latest \subseteq Providers \cup {"profile"}
    /\ success \in 0 .. MaxRun
    /\ pointers \in [Runs -> {"absent", "bare", "pointer"}]
    /\ DOMAIN daily \subseteq Days /\ \A d \in DOMAIN daily : daily[d] \in 0 .. MaxRun
    /\ logs \subseteq Runs
    /\ plan \in [Pruners -> SUBSET Paths]
    /\ wiped \in BOOLEAN
    /\ byHand \in 0 .. MaxByHand

Init ==
    /\ day = 0
    /\ run = 0
    /\ began = [r \in Runs |-> 0]
    /\ pc = "idle"
    /\ job = NoJob
    /\ tree = {}
    /\ latest = {}
    /\ success = 0
    /\ pointers = [r \in Runs |-> "absent"]
    /\ daily = <<>>
    /\ logs = {}
    /\ plan = [p \in Pruners |-> {}]
    /\ wiped = FALSE
    /\ byHand = 0

-----------------------------------------------------------------------------
\* Mutant: the n least are kept.
SurplusOfOldest(S, n) == {r \in S : Cardinality({q \in S : q <= r}) > n}

\* The members of a set of numbers that are not among the n greatest.
Surplus(S, n) == {r \in S : Cardinality({q \in S : q >= r}) > n}

Aged(r) == MaxAge > 0 /\ began[r] + MaxAge < day

\* The run reports that plan_prune selects.
OldReports ==
    LET reports == {p.run : p \in All("report")}
    IN  {Report(r) : r \in {r \in reports : /\ \E q \in reports : q > r
                                            /\ Aged(r) \/ r \in Surplus(reports, KeepReports)}}

\* Mutant: the latest run comes first.
KeyReversed(path) ==
    IF path.what \in {"flat", "folder"} THEN MaxRun - path.run ELSE MaxRun + 1 + NameOrder[path.of]

\* The key that _history_profile_snapshots sorts a path by, the name of its
\* parent directory: a run id, which starts with a digit, the name of a
\* provider, or "history".
Key(path) ==
    IF path.what \in {"flat", "folder"} THEN path.run ELSE MaxRun + 1 + NameOrder[path.of]

\* The snapshots plan_prune selects of those found for one name: all but the
\* last, and but the last KeepHistory unless they are too old.  The order of
\* equal keys is that of the directory, so that any of them may be the last.
OldSnapshots(found) ==
    LET kept == {k \in kSubset(Min({KeepHistory, Cardinality(found)}), found) :
                    \A p \in found \ k, q \in k : Key(p) <= Key(q)}
        last(k) == {n \in k : \A q \in k : Key(q) <= Key(n)}
        old(p) == p.what \in {"flat", "folder"} /\ Aged(p.run)
    IN  UNION {{{p \in found : p # n /\ (p \notin k \/ old(p))} : n \in last(k)} : k \in kept}

\* rglob(name) for the profile and for a provider; both are names in latest/.
Found(name) ==
    IF name = "profile" THEN All("flat") \cup All("nested") \cup All("root")
    ELSE {p \in All("folder") : p.of = name}

\* plan_prune: the reports, and one choice for every name with snapshots.
Plans ==
    LET names == {n \in latest : Found(n) # {}}
        olds == [n \in names |-> OldSnapshots(Found(n))]
    IN  {OldReports \cup UNION {c[n] : n \in names} :
            c \in {c \in [names -> UNION {olds[n] : n \in names}] : \A n \in names : c[n] \in olds[n]}}

-----------------------------------------------------------------------------
(* The daily run. *)

Goto(step) == pc' = step

\* A run starts; its directory and its logs are there from now on.
Start ==
    /\ pc = "idle"
    /\ run < MaxRun
    /\ run' = run + 1
    /\ began' = [began EXCEPT ![run'] = day]
    /\ logs' = logs \cup {run'}
    /\ Goto("report")
    /\ UNCHANGED <<day, job, tree, latest, success, pointers, daily, plan, wiped, byHand>>

\* _persist_run_metadata.
WriteReport ==
    /\ pc = "report"
    /\ \E of \in Requests :
          job' = [ended |-> day, of |-> of, todo |-> of, again |-> FALSE]
    /\ tree' = tree \cup {Report(run)}
    /\ Goto("success")
    /\ UNCHANGED <<day, run, began, latest, success, pointers, daily, logs, plan, wiped, byHand>>

\* _write_last_success_pointer, of a run that nothing has turned into an error.
MoveSuccess ==
    /\ pc = "success"
    /\ \/ success' = run /\ ~job.again
       \/ UNCHANGED success
    /\ Goto("archive")
    /\ UNCHANGED <<day, run, began, job, tree, latest, pointers, daily, logs, plan, wiped, byHand>>

\* _archive_profile_artifacts for one provider.
Archive(q) ==
    /\ pc = "archive"
    /\ q \in job.todo
    /\ tree' = tree \cup (IF q = "openai" THEN {Flat(run)} ELSE {Folder(run, q), Nested(run, q)})
    /\ latest' = latest \cup {IF q = "openai" THEN "profile" ELSE q}
    /\ job' = [job EXCEPT !.todo = @ \ {q}]
    /\ UNCHANGED <<day, run, began, pc, success, pointers, daily, logs, plan, wiped, byHand>>

\* The history is kept of a run that was given as a success: not of a short
\* circuit, but of a run that a guardrail has turned into an error.
Archived ==
    /\ pc = "archive"
    /\ job.todo = {}
    /\ \/ Goto("artifacts") /\ ~job.again
       \/ Goto("logs")
    /\ UNCHANGED <<day, run, began, job, tree, latest, success, pointers, daily, logs, plan, wiped, byHand>>

-----------------------------------------------------------------------------
(* update_history_retention, after write_history_run_artifacts. *)

\* Mutant: the old runs go before the new pointer of the day is there.
AfterPruningFirst(step) ==
    CASE step = "artifacts" -> "runPointer"
      [] step = "runPointer" -> "pruneRuns"
      [] step = "pruneRuns" -> "dailyPointer"
      [] step = "dailyPointer" -> "pruneDays"
      [] step = "pruneDays" -> "logs"

\* The steps of update_history_retention in their order.
After(step) ==
    CASE step = "artifacts" -> "runPointer"
      [] step = "runPointer" -> "dailyPointer"
      [] step = "dailyPointer" -> "pruneRuns"
      [] step = "pruneRuns" -> "pruneDays"
      [] step = "pruneDays" -> "logs"

\* The identity map and the provenance; an exception is caught.
WriteArtifacts ==
    /\ pc = "artifacts"
    /\ \/ /\ tree' = tree \cup {Root}
          /\ pointers' = [pointers EXCEPT ![run] = IF @ = "absent" THEN "bare" ELSE @]
       \/ UNCHANGED <<tree, pointers>>
    /\ Goto(After(pc))
    /\ UNCHANGED <<day, run, began, job, latest, success, daily, logs, plan, wiped, byHand>>

WriteRunPointer ==
    /\ pc = "runPointer"
    /\ tree' = tree \cup {Root}
    /\ pointers' = [pointers EXCEPT ![run] = "pointer"]
    /\ Goto(After(pc))
    /\ UNCHANGED <<day, run, began, job, latest, success, daily, logs, plan, wiped, byHand>>

\* The pointer of the day the run ended names r, whatever it named before.
Named(r) == [d \in DOMAIN daily \cup {job.ended} |-> IF d = job.ended THEN r ELSE daily[d]]

WriteDailyPointer ==
    /\ pc = "dailyPointer"
    /\ tree' = tree \cup {Root}
    /\ daily' = Named(run)
    /\ Goto(After(pc))
    /\ UNCHANGED <<day, run, began, job, latest, success, pointers, logs, plan, wiped, byHand>>

OldRuns == Surplus({r \in Runs : pointers[r] # "absent"}, KeepRuns)
OldDays == Surplus(DOMAIN daily, KeepDays)

\* _prune_run_pointers removes the oldest directory of too many.
PruneRun ==
    /\ pc = "pruneRuns"
    /\ OldRuns # {}
    /\ pointers' = [pointers EXCEPT ![Min(OldRuns)] = "absent"]
    /\ UNCHANGED <<day, run, began, pc, job, tree, latest, success, daily, logs, plan, wiped, byHand>>

\* _prune_daily_pointers does.
PruneDay ==
    /\ pc = "pruneDays"
    /\ OldDays # {}
    /\ daily' = Restrict(daily, DOMAIN daily \ {Min(OldDays)})
    /\ UNCHANGED <<day, run, began, pc, job, tree, latest, success, pointers, logs, plan, wiped, byHand>>

\* prune_state has meanwhile removed the directory that is to be read.
Gone ==
    \/ pc = "pruneRuns" /\ pointers[run] = "absent"
    \/ pc = "pruneDays" /\ job.ended \notin DOMAIN daily

Pruned ==
    /\ \/ pc = "pruneRuns" /\ OldRuns = {}
       \/ pc = "pruneDays" /\ OldDays = {}
    /\ ~Gone
    /\ Goto(After(pc))
    /\ UNCHANGED <<day, run, began, job, tree, latest, success, pointers, daily, logs, plan, wiped, byHand>>

\* The FileNotFoundError leaves _finalize; main finalizes the run once more,
\* as an error.
RetentionRaises ==
    /\ Gone
    /\ job' = [job EXCEPT !.again = TRUE, !.ended = day, !.todo = job.of]
    /\ tree' = tree \cup {Report(run)}
    /\ Goto("success")
    /\ UNCHANGED <<day, run, began, latest, success, pointers, daily, logs, plan, wiped, byHand>>

\* _enforce_run_log_retention: the directories of the runs are never removed.
\* Then JOBINTEL_PRUNE decides.
PruneLogs ==
    /\ pc = "logs"
    /\ logs' = logs \ Surplus(1 .. run, KeepRuns)
    /\ \/ Goto("plan") /\ UNCHANGED job
       \/ Goto("idle") /\ job' = NoJob
    /\ UNCHANGED <<day, run, began, tree, latest, success, pointers, daily, plan, wiped, byHand>>

-----------------------------------------------------------------------------
(* prune_state.main, with --apply. *)

PlanPrune(p) ==
    /\ plan' \in {[plan EXCEPT ![p] = paths] : paths \in Plans}
    /\ UNCHANGED <<day, run, began, job, tree, latest, success, pointers, daily, logs, wiped>>

PlanDaily == pc = "plan" /\ PlanPrune("daily") /\ Goto("prune") /\ UNCHANGED byHand

\* An operator starts it, perhaps after killing the one before.
PlanByHand ==
    /\ byHand < MaxByHand
    /\ byHand' = byHand + 1
    /\ PlanPrune("hand")
    /\ UNCHANGED pc

\* The order of deletion: directories, in the order of their names, then files.
Rank(path) ==
    IF path.what = "root" THEN MaxRun + 1
    ELSE IF path.what = "report" THEN MaxRun + 1 + path.run ELSE path.run

\* What goes with a path.
Below(path) ==
    IF path.what = "folder" THEN {path, Nested(path.run, path.of)} ELSE {path}

\* apply_prune deletes the next path; one that has gone since is passed over.
Delete(p, path) ==
    /\ path \in plan[p]
    /\ \A q \in plan[p] : Rank(path) <= Rank(q)
    /\ plan' = [plan EXCEPT ![p] = @ \ {path}]
    /\ tree' = tree \ Below(path)
    /\ IF path = Root
       THEN /\ pointers' = [r \in Runs |-> "absent"]
            /\ daily' = <<>>
            /\ wiped' = TRUE
       ELSE UNCHANGED <<pointers, daily, wiped>>
    /\ UNCHANGED <<day, run, began, pc, job, latest, success, logs, byHand>>

PruneEnds ==
    /\ pc = "prune"
    /\ plan["daily"] = {}
    /\ Goto("idle")
    /\ job' = NoJob
    /\ UNCHANGED <<day, run, began, tree, latest, success, pointers, daily, logs, plan, wiped, byHand>>

-----------------------------------------------------------------------------
\* The run is killed.  A pointer is written in place and a directory removed
\* file by file, so that half of it may be left; history/<profile> goes whole,
\* because nothing is claimed of its content once it has gone (wiped).
Kill ==
    /\ pc # "idle"
    /\ Goto("idle")
    /\ job' = NoJob
    /\ plan' = [plan EXCEPT !["daily"] = {}]
    /\ \/ UNCHANGED <<tree, pointers, daily>>
       \/ /\ pc = "runPointer"
          /\ tree' = tree \cup {Root}
          /\ pointers' = [pointers EXCEPT ![run] = "bare"]
          /\ UNCHANGED daily
       \/ /\ pc = "dailyPointer"
          /\ tree' = tree \cup {Root}
          /\ daily' = Named(0)
          /\ UNCHANGED pointers
       \/ /\ pc = "pruneRuns" /\ OldRuns # {}
          /\ pointers' = [pointers EXCEPT ![Min(OldRuns)] = "bare"]
          /\ UNCHANGED <<tree, daily>>
       \/ /\ pc = "pruneDays" /\ OldDays # {}
          /\ daily' = [daily EXCEPT ![Min(OldDays)] = 0]
          /\ UNCHANGED <<tree, pointers>>
    /\ UNCHANGED <<day, run, began, latest, success, logs, wiped, byHand>>

\* Only the ends of runs and the plans of prune_state read the date.
Midnight ==
    /\ pc \in {"idle", "report", "plan"}
    /\ day < MaxDay
    /\ day' = day + 1
    /\ UNCHANGED <<run, began, pc, job, tree, latest, success, pointers, daily, logs, plan, wiped, byHand>>

Retain ==
    \/ WriteArtifacts \/ WriteRunPointer \/ WriteDailyPointer
    \/ PruneRun \/ PruneDay \/ Pruned \/ RetentionRaises \/ PruneLogs

Daily ==
    \/ Start \/ WriteReport \/ MoveSuccess \/ Archived \/ Retain \/ PlanDaily \/ PruneEnds
    \/ \E q \in Providers \cup {"openai"} : Archive(q)

Next ==
    \/ Daily \/ PlanByHand \/ Kill \/ Midnight
    \/ \E p \in Pruners : \E path \in plan[p] : Delete(p, path)

Spec == Init /\ [][Next]_vars

-----------------------------------------------------------------------------
Newer(S, r) == {q \in S : q > r}

\* The latest day that has a pointer leads to a run that has one, whatever was
\* killed and pruned, as long as prune_state has left history/<profile> alone.
NewestDailyResolves ==
    ~wiped => \A d \in DOMAIN daily :
        daily[d] # 0 /\ Newer(DOMAIN daily, d) = {} => pointers[daily[d]] = "pointer"

\* A pointer of an earlier day loses its run, and a run its logs, only to
\* KeepRuns later runs.
LostToNewerRuns ==
    /\ ~wiped => \A d \in DOMAIN daily :
          daily[d] # 0 /\ pointers[daily[d]] # "pointer"
              => Cardinality(Newer({r \in Runs : pointers[r] # "absent"}, daily[d])) >= KeepRuns
    /\ \A r \in 1 .. run : r \notin logs => Cardinality(Newer(1 .. run, r)) >= KeepRuns

\* prune_state selects the latest snapshot of the profile only when snapshots
\* that it does not sort by their run push it out, and the directory of the
\* history pointers only when those of a provider whose name sorts after
\* "history" do.
KeptUnlessPushedOut ==
    [][\A p \in Pruners :
          LET selected == plan'[p] \ plan[p]
              odd == All("nested") \cup All("root")
          IN  /\ \A r \in Runs :
                     Flat(r) \in selected /\ (\A q \in Runs : q > r => Flat(q) \notin tree)
                         => Cardinality(odd) >= KeepHistory \/ (Aged(r) /\ odd # {})
              /\ Root \in selected =>
                     Cardinality({n \in All("nested") : NameOrder[n.of] > NameOrder["history"]}) >= KeepHistory]_vars
=============================================================================
