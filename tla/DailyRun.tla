------------------------------ MODULE DailyRun ------------------------------
(***************************************************************************)
(* scripts/run_daily.py, main and its _finalize: the runs that one state   *)
(* directory sees, one after the other (RunLock), from the short-circuit   *)
(* decision to the exit code, with the files each run leaves for the next. *)
(*                                                                         *)
(* A list of postings is the set of its postings, and two files have the   *)
(* same hash when they hold the same list; of two modification times only  *)
(* their order is kept.  There is one profile.  What a deployment asks of  *)
(* its runs and what may go wrong in it is the setting of a behaviour.     *)
(***************************************************************************)
EXTENDS Naturals, Sequences, FiniteSets

CONSTANTS
    Providers,       \* all provider ids
    Openai,          \* the provider of the short circuit
    Jobs,            \* postings
    MaxRuns,         \* bound of the model: number of runs
    Settings,        \* the deployments to look at
    Absent,          \* a file that is not there
    Torn,            \* a file cut short by a crash
    None

\* "crash" is a kill at any step, "cut" a file that _finalize was writing or
\* copying in place when it was left.
AllFaults == {"stage", "crash", "cut", "unavailable", "discord", "publish",
              "guardrail", "metadata", "finalize"}

\* What a run may be asked: its providers, --scrape_only, SEMANTIC_ENABLED,
\* --ai, --no_enrich and --us_only.
Asked == [providers : Seq(Providers), scrape_only : BOOLEAN, semantic : BOOLEAN,
          ai : BOOLEAN, no_enrich : BOOLEAN, us_only : BOOLEAN]

ASSUME DailyRunAssumption ==
    /\ Openai \in Providers
    /\ MaxRuns \in Nat
    /\ \A s \in Settings :
          /\ s.requests \subseteq Asked
          /\ \A q \in s.requests :
                /\ Len(q.providers) > 0
                /\ \A m, n \in DOMAIN q.providers : q.providers[m] = q.providers[n] => m = n
          /\ s.publish \in {"off", "optional", "required"}
          /\ s.faults \subseteq AllFaults
          /\ s.changes \in Nat         \* bound of the model: changes of the sites
          /\ s.grow \in BOOLEAN        \* sites only gain postings: no list comes back
    /\ \A jobs \in SUBSET Jobs : jobs # Absent /\ jobs # Torn
    /\ Absent # Torn
    /\ None \notin Nat

VARIABLES
    setting,            \* the deployment; it never changes
    site, changes,      \* what the career site of each provider lists
    raw, labeled, enriched, ranked,   \* the files of each stage
    aiFile,             \* the postings with the answers of the AI stage
    labeledNewer,       \* classified after they were last enriched
    aiNewer,            \* the AI stage wrote after they were last ranked
    fellBack,           \* .score_meta.json tells of a US filter that kept nothing
    lastRanked,         \* state/last_ranked
    lastSeen,           \* state/runs/last_seen
    lastRun,            \* state/last_run.json
    lastSuccess,        \* state/last_success.json
    report,             \* "status" in the report of each run, RUN_METADATA_DIR/<run>.json
    latest,             \* the ranked postings in history/latest, and whose they are
    archive,            \* the ranked postings copied into each run directory
    history,            \* runs with a history pointer
    health,             \* "status" in the run_health.v1.json of each run
    published,          \* runs whose objects replaced latest/ in the bucket
    run, request, k, pc,        \* the process: run id, arguments, provider, line
    unavailable, newJobs, aiRan, fin,  \* its memory
    exit,               \* exit code of the last run that was not killed
    announced, alerted, \* observation: postings sent to Discord, put in alerts
    dropped             \* observation: postings lost by a step known to lose them

outside == <<setting, site, changes>>
aiState == <<aiFile, aiNewer, fellBack>>
files == <<raw, labeled, enriched, ranked, labeledNewer, aiState>>
records == <<lastRun, lastSuccess, report, latest, archive, history, health, published>>
state == <<lastRanked, lastSeen, records>>
memory == <<unavailable, newJobs, aiRan, fin>>
observed == <<announced, alerted, dropped>>
vars == <<outside, files, state, run, request, k, pc, memory, exit, observed>>

Runs == 1 .. MaxRuns
Lists == SUBSET Jobs
File == {Absent, Torn} \cup Lists
Hashes == [raw : File, labeled : File, enriched : File]
Statuses == {"success", "short_circuit", "error"}
Stages == {"scrape", "scraped", "classify", "enrich", "augment", "score", "alerts", "seen",
           "diff", "state", "post", "reaugment", "rescore", "restate"}
Finalizing == {"last_run", "report", "pointer", "archive", "publish", "history", "health",
               "return"}
Finalization == [given : Statuses, final : Statuses, s3 : {"skipped", "ok", "error"},
                 s3_failed : BOOLEAN]
Telemetries == [status : Statuses, hashes : Hashes, ai_ran : BOOLEAN, ai : File]
Faults == setting.faults
Requests == setting.requests

ASSUME NoneAssumption ==
    /\ None \notin Asked /\ None \notin Finalization /\ None \notin Telemetries
    /\ None \notin Statuses \cup {"failed", "partial", "zero", "nonzero"}
    /\ Torn \notin Statuses \cup {None, "failed", "partial"}

TypeOK ==
    /\ setting \in Settings
    /\ site \in [Providers -> Lists]
    /\ changes \in 0 .. setting.changes
    /\ raw \in [Providers -> File]
    /\ labeled \in [Providers -> File]
    /\ enriched \in [Providers -> File]
    /\ ranked \in [Providers -> File]
    /\ aiFile \in [Providers -> File]
    /\ labeledNewer \in [Providers -> BOOLEAN]
    /\ aiNewer \in [Providers -> BOOLEAN]
    /\ fellBack \in [Providers -> BOOLEAN]
    /\ lastRanked \in [Providers -> File]
    /\ lastSeen \in [Providers -> Lists]
    /\ lastRun \in {None} \cup Telemetries
    /\ lastSuccess \in {None} \cup Runs
    /\ report \in [Runs -> {None, Torn, "success", "short_circuit", "error", "failed"}]
    /\ latest \in [Providers -> [by : {None} \cup Runs, ranked : File]]
    /\ archive \in [Runs -> [Providers -> File]]
    /\ history \in SUBSET Runs
    /\ health \in [Runs -> {None, Torn, "success", "partial", "failed"}]
    /\ published \in SUBSET Runs
    /\ run \in 0 .. MaxRuns
    /\ request \in {None} \cup Requests
    /\ k \in IF request = None THEN {1} ELSE DOMAIN request.providers
    /\ pc \in {"idle"} \cup Stages \cup Finalizing
    /\ unavailable \in SUBSET Providers
    /\ newJobs \in Lists
    /\ aiRan \in BOOLEAN
    /\ fin \in {None} \cup Finalization
    /\ exit \in {None, "zero", "nonzero"}
    /\ announced \in [Providers -> Lists]
    /\ alerted \in [Providers -> Lists]
    /\ dropped \in [Providers -> Lists]

\* What a file lists; nothing when it is missing or torn.
ListOf(file) == IF file \in {Absent, Torn} THEN {} ELSE file

Everywhere(content) == [p \in Providers |-> content]

\* The providers of a deployment: those that some run is asked for.
Named(s) == UNION {{q.providers[n] : n \in DOMAIN q.providers} : q \in s.requests}

Init ==
    /\ setting \in Settings
    /\ site \in {listing \in [Providers -> Lists] :
                    \A p \in Providers \ Named(setting) : listing[p] = {}}
    /\ changes = 0
    /\ raw = Everywhere(Absent)
    /\ labeled = Everywhere(Absent)
    /\ enriched = Everywhere(Absent)
    /\ ranked = Everywhere(Absent)
    /\ aiFile = Everywhere(Absent)
    /\ labeledNewer = Everywhere(FALSE)
    /\ aiNewer = Everywhere(FALSE)
    /\ fellBack = Everywhere(FALSE)
    /\ lastRanked = Everywhere(Absent)
    /\ lastSeen = Everywhere({})
    /\ lastRun = None
    /\ lastSuccess = None
    /\ report = [r \in Runs |-> None]
    /\ latest = Everywhere([by |-> None, ranked |-> Absent])
    /\ archive = [r \in Runs |-> Everywhere(Absent)]
    /\ history = {}
    /\ health = [r \in Runs |-> None]
    /\ published = {}
    /\ run = 0
    /\ request = None
    /\ k = 1
    /\ pc = "idle"
    /\ unavailable = {}
    /\ newJobs = {}
    /\ aiRan = FALSE
    /\ fin = None
    /\ exit = None
    /\ announced = Everywhere({})
    /\ alerted = Everywhere({})
    /\ dropped = Everywhere({})

-----------------------------------------------------------------------------
(* The decision made before anything is scraped.                           *)

CurrentHashes == [raw |-> raw[Openai], labeled |-> labeled[Openai], enriched |-> enriched[Openai]]

\* Mutant: the hashes are known, but not compared.
HashesKnown ==
    /\ lastRun # None
    /\ \A f \in {"raw", "labeled", "enriched"} :
          CurrentHashes[f] # Absent /\ lastRun.hashes[f] # Absent

\* _should_short_circuit: every hash is known and equal to the last run's.
HashesMatch ==
    /\ lastRun # None
    /\ \A f \in {"raw", "labeled", "enriched"} :
          /\ CurrentHashes[f] # Absent
          /\ CurrentHashes[f] = lastRun.hashes[f]

BaseShort(q) == q.providers = <<Openai>> /\ HashesMatch

\* The AI file is the one the last run left, and that run did call the stage.
AiFresh == aiFile[Openai] # Absent /\ aiFile[Openai] = lastRun.ai
AiUpToDate == AiFresh /\ lastRun.ai_ran

\* Nothing is left to do.
NothingToDo(q) ==
    /\ ranked[Openai] # Absent
    /\ ~q.semantic
    /\ q.ai => AiUpToDate /\ ~aiNewer[Openai]

Entering(status) == [given |-> status, final |-> status, s3 |-> "skipped", s3_failed |-> FALSE]

\* The lock is held, last_run.json and the files are read and the way of the
\* run is chosen: skip everything, run only the AI stage and the scoring, score
\* again, or scrape.
Start(q) ==
    /\ pc = "idle"
    /\ run < MaxRuns
    /\ run' = run + 1
    /\ request' = q
    /\ pc' = CASE ~BaseShort(q)           -> "scrape"
               [] BaseShort(q) /\ NothingToDo(q) -> "last_run"
               [] OTHER -> IF q.ai /\ ~AiUpToDate THEN "reaugment" ELSE "rescore"
    /\ fin' = IF pc' = "last_run" THEN Entering("short_circuit") ELSE None
    /\ exit' = None
    /\ UNCHANGED <<outside, files, state, k, unavailable, newJobs, aiRan, observed>>

\* The snapshot of openai is not there: RuntimeError before any decision.
SnapshotMissing(q) ==
    /\ "stage" \in Faults
    /\ pc = "idle"
    /\ run < MaxRuns
    /\ \E n \in DOMAIN q.providers : q.providers[n] = Openai
    /\ run' = run + 1
    /\ request' = q
    /\ pc' = "last_run"
    /\ fin' = Entering("error")
    /\ exit' = None
    /\ UNCHANGED <<outside, files, state, k, unavailable, newJobs, aiRan, observed>>

Lose(p, jobs) == [dropped EXCEPT ![p] = @ \cup jobs]

-----------------------------------------------------------------------------
(* The stages.                                                             *)

Current == request.providers[k]
IsLast == k = Len(request.providers)

\* run_scrape writes what it got from the site, or nothing for a provider
\* that is unavailable (Scrape).
ScrapeOne ==
    /\ pc = "scrape"
    /\ \/ /\ raw' = [raw EXCEPT ![Current] = site[Current]]
          /\ UNCHANGED unavailable
       \/ /\ "unavailable" \in Faults
          /\ raw' = [raw EXCEPT ![Current] = {}]
          /\ unavailable' = unavailable \cup {Current}
    /\ IF IsLast THEN pc' = "scraped" /\ k' = 1 ELSE k' = k + 1 /\ UNCHANGED pc
    /\ UNCHANGED <<outside, labeled, enriched, ranked, labeledNewer, aiState, state, run, request,
                   newJobs, aiRan, fin, exit, observed>>

\* --scrape_only ends the run as a success; otherwise each provider is taken
\* through its stages.
AfterScrape ==
    /\ pc = "scraped"
    /\ IF request.scrape_only
       THEN pc' = "last_run" /\ fin' = Entering("success")
       ELSE pc' = "classify" /\ UNCHANGED fin
    /\ UNCHANGED <<outside, files, state, run, request, k, unavailable, newJobs, aiRan, exit,
                   observed>>

AfterEnrich == IF request.ai THEN "augment" ELSE "score"

Classify ==
    /\ pc = "classify"
    /\ labeled' = [labeled EXCEPT ![Current] = raw[Current]]
    /\ labeledNewer' = [labeledNewer EXCEPT ![Current] = TRUE]
    /\ pc' = IF request.no_enrich THEN AfterEnrich ELSE "enrich"
    /\ UNCHANGED <<outside, raw, enriched, ranked, aiState, state, run, request, k, memory, exit,
                   observed>>

Enrich ==
    /\ pc = "enrich"
    /\ enriched' = [enriched EXCEPT ![Current] = labeled[Current]]
    /\ labeledNewer' = [labeledNewer EXCEPT ![Current] = FALSE]
    /\ pc' = AfterEnrich
    /\ UNCHANGED <<outside, raw, labeled, ranked, aiState, state, run, request, k, memory, exit,
                   observed>>

\* The AI stage reads the enriched postings, even when --no_enrich left old
\* ones there; it raises when they are missing or torn.
Augment ==
    /\ pc \in {"augment", "reaugment"}
    /\ LET p == IF pc = "augment" THEN Current ELSE Openai IN
          /\ enriched[p] \notin {Absent, Torn}
          /\ aiFile' = [aiFile EXCEPT ![p] = enriched[p]]
          /\ aiNewer' = [aiNewer EXCEPT ![p] = TRUE]
    /\ aiRan' = TRUE
    /\ pc' = IF pc = "augment" THEN "score" ELSE "rescore"
    /\ UNCHANGED <<outside, raw, labeled, enriched, ranked, labeledNewer, fellBack, state, run,
                   request, k, unavailable, newJobs, fin, exit, observed>>

\* Mutant: enriched postings are preferred however old they are.
TakesEnrichedIfAny(p) == enriched[p] # Absent

\* _resolve_score_input_path_for: with --no_enrich the enriched postings are
\* taken when they are newer than the labeled ones or the only ones there.
TakesEnriched(p) ==
    request.no_enrich => /\ enriched[p] # Absent
                         /\ labeled[p] # Absent => ~labeledNewer[p]

\* score_jobs reads the AI file instead of the enriched postings of openai
\* when the run asks for AI, and only of openai.
InputFile(p) ==
    IF ~TakesEnriched(p) THEN "labeled" ELSE IF request.ai /\ p = Openai THEN "ai" ELSE "enriched"

ContentOf(p) == [labeled |-> labeled[p], enriched |-> enriched[p], ai |-> aiFile[p]]
ScoreInput(p) == ContentOf(p)[InputFile(p)]

\* _score_input_selection_detail_for: the file that the report will say was
\* scored, found by a search of its own, in which an AI file of any provider
\* takes the place of the enriched postings.
NewestFile(p) ==
    IF enriched[p] # Absent /\ (labeled[p] # Absent => ~labeledNewer[p])
    THEN "enriched" ELSE "labeled"

SelectedFile(p) ==
    LET base == IF request.no_enrich THEN NewestFile(p) ELSE "enriched" IN
    IF base = "enriched" /\ request.ai /\ aiFile[p] # Absent THEN "ai" ELSE base

Scored == IF pc = "score" THEN Current ELSE Openai

\* score_jobs; --us_only keeps some postings and, when it would keep none of
\* them, all of them, which it notes in a file that nothing ever removes.
Score ==
    /\ pc \in {"score", "rescore"}
    /\ LET p == Scored
           input == ScoreInput(p) IN
       /\ input \notin {Absent, Torn}
       /\ TakesEnriched(p) => enriched[p] # Absent
       /\ \E kept \in IF request.us_only THEN SUBSET input ELSE {input} :
             LET falls_back == kept = {} /\ input # {} IN
             /\ ranked' = [ranked EXCEPT ![p] = IF falls_back THEN input ELSE kept]
             /\ fellBack' = [fellBack EXCEPT ![p] = @ \/ falls_back]
       /\ aiNewer' = [aiNewer EXCEPT ![p] = FALSE]
    /\ pc' = IF pc = "score" THEN "alerts" ELSE "restate"
    /\ UNCHANGED <<outside, raw, labeled, enriched, labeledNewer, aiFile, state, run, request, k,
                   memory, exit, observed>>

\* Mutant: last_seen is written before the alerts are computed from it.
WriteAlertsLate ==
    /\ pc = "alerts"
    /\ lastSeen' = [lastSeen EXCEPT ![Current] = ranked[Current]]
    /\ alerted' = [alerted EXCEPT ![Current] = @ \cup (ranked[Current] \ lastSeen'[Current])]
    /\ pc' = "seen"
    /\ UNCHANGED <<outside, files, lastRanked, records, run, request, k, memory, exit, announced,
                   dropped>>

\* compute_alerts and write_alerts: the postings last_seen does not hold.
WriteAlerts ==
    /\ pc = "alerts"
    /\ alerted' = [alerted EXCEPT ![Current] = @ \cup (ranked[Current] \ lastSeen[Current])]
    /\ pc' = "seen"
    /\ UNCHANGED <<outside, files, state, run, request, k, memory, exit, announced, dropped>>

WriteLastSeen ==
    /\ pc = "seen"
    /\ lastSeen' = [lastSeen EXCEPT ![Current] = ranked[Current]]
    /\ pc' = "diff"
    /\ UNCHANGED <<outside, files, lastRanked, records, run, request, k, memory, exit, observed>>

ArchivedBefore(p) == {r \in Runs : r # run /\ archive[r][p] # Absent}
LatestOf(rs) == CHOOSE r \in rs : \A s \in rs : s <= r

HasSuccess(p) == /\ lastSuccess # None
                 /\ lastSuccess # run
                 /\ archive[lastSuccess][p] # Absent

\* What this run is compared with: the run last_success.json names, or
\* state/last_ranked, or the newest run directory, or nothing.
Baseline(p) ==
    IF HasSuccess(p) THEN archive[lastSuccess][p]
    ELSE IF lastRanked[p] # Absent THEN lastRanked[p]
    ELSE IF ArchivedBefore(p) # {} THEN archive[LatestOf(ArchivedBefore(p))][p]
    ELSE {}

\* _build_delta_summary compares with what the last run to archive this provider
\* has left in history/latest, whatever became of that run.
DeltaBaseline(p) == latest[p].ranked

\* The newest run directory may be one of a run that failed unannounced.
FromRunDirectory(p) == ~HasSuccess(p) /\ lastRanked[p] = Absent /\ ArchivedBefore(p) # {}

\* A baseline that is not JSON raises (StageFails).
Diff ==
    /\ pc = "diff"
    /\ ~fellBack[Current]
    /\ Baseline(Current) # Torn
    /\ newJobs' = ranked[Current] \ Baseline(Current)
    /\ dropped' = IF FromRunDirectory(Current)
                  THEN Lose(Current, ranked[Current] \cap Baseline(Current)) ELSE dropped
    /\ pc' = "state"
    /\ UNCHANGED <<outside, files, state, run, request, k, unavailable, aiRan, fin, exit, announced,
                   alerted>>

\* The note of a US filter that kept nothing, in this run or in any run before
\* it, suppresses the comparison and with it the announcement.
SuppressDiff ==
    /\ pc = "diff"
    /\ fellBack[Current]
    /\ newJobs' = {}
    /\ dropped' = Lose(Current, ranked[Current])
    /\ pc' = "state"
    /\ UNCHANGED <<outside, files, state, run, request, k, unavailable, aiRan, fin, exit, announced,
                   alerted>>

\* _write_json(state_path, curr), after the AI stages of this provider.  The
\* scoring-only path reads the old file first and raises when it is torn.
WriteState ==
    /\ pc \in {"state", "restate"}
    /\ LET p == IF pc = "state" THEN Current ELSE Openai IN
          /\ pc = "restate" => lastRanked[p] # Torn
          /\ lastRanked' = [lastRanked EXCEPT ![p] = ranked[p]]
    /\ IF pc = "state"
       THEN pc' = "post" /\ UNCHANGED <<fin, dropped>>
       ELSE /\ pc' = "last_run"
            /\ fin' = Entering("success")
            /\ dropped' = Lose(Openai, ranked[Openai])
    /\ UNCHANGED <<outside, files, lastSeen, records, run, request, k, unavailable, newJobs, aiRan,
                   exit, announced, alerted>>

AllUnavailable == unavailable = {request.providers[n] : n \in DOMAIN request.providers}

\* After the message: the next provider, or the end.
NextProvider ==
    /\ newJobs' = {}
    /\ IF IsLast
       THEN pc' = "last_run" /\ fin' = Entering("success") /\ UNCHANGED k
       ELSE pc' = "classify" /\ k' = k + 1 /\ UNCHANGED fin
    /\ UNCHANGED <<outside, files, state, run, request, unavailable, aiRan, exit, alerted>>

\* Run summary and alerts.
Announce ==
    /\ pc = "post"
    /\ ~AllUnavailable
    /\ announced' = [announced EXCEPT ![Current] = @ \cup newJobs]
    /\ NextProvider
    /\ UNCHANGED dropped

\* They are suppressed when no provider was available; a post that fails is
\* logged and the run goes on.
NotAnnounced ==
    /\ pc = "post"
    /\ AllUnavailable \/ "discord" \in Faults
    /\ dropped' = Lose(Current, newJobs)
    /\ NextProvider
    /\ UNCHANGED announced

\* An input that is missing or that is not JSON.
InputFails ==
    \/ pc \in {"augment", "reaugment"} /\
          enriched[IF pc = "augment" THEN Current ELSE Openai] \in {Absent, Torn}
    \/ pc \in {"score", "rescore"} /\
          \/ ScoreInput(Scored) \in {Absent, Torn}
          \/ TakesEnriched(Scored) /\ enriched[Scored] = Absent
    \/ pc = "diff" /\ ~fellBack[Current] /\ Baseline(Current) = Torn
    \/ pc = "restate" /\ lastRanked[Openai] = Torn

\* _run: the program exits with an error, of its own or for its input.
StageRaises == "stage" \in Faults \/ InputFails

\* The stage raises, or the provider policy or the score input fails: the
\* failure is posted and the run finalized as an error.  An AI stage counts as
\* run from the moment it is called.
StageFails ==
    /\ pc \in Stages \ {"post"}
    /\ pc = "scraped" => request.scrape_only
    /\ StageRaises
    /\ pc' = "last_run"
    /\ fin' = Entering("error")
    /\ aiRan' \in CASE pc = "reaugment" -> {TRUE}
                    [] pc = "augment"   -> {aiRan, TRUE}
                    [] OTHER            -> {aiRan}
    /\ UNCHANGED <<outside, files, state, run, request, k, unavailable, newJobs, exit, observed>>

-----------------------------------------------------------------------------
(* _finalize.                                                              *)

Leave(code) ==
    /\ pc' = "idle"
    /\ request' = None
    /\ k' = 1
    /\ unavailable' = {}
    /\ newJobs' = {}
    /\ aiRan' = FALSE
    /\ fin' = None
    /\ exit' = code

Remain == UNCHANGED <<request, k, unavailable, newJobs, aiRan, exit>>

\* The exit code of main for what _finalize returns.
ExitCode(f) ==
    IF f.given = "short_circuit" \/ (f.given = "success" /\ f.final = "success")
    THEN "zero" ELSE "nonzero"

Telemetry(status) ==
    [status |-> status, hashes |-> CurrentHashes, ai_ran |-> aiRan, ai |-> aiFile[Openai]]

\* Mutant: the pointer is written before the report.
WriteLastRunAndPointer ==
    /\ pc = "last_run"
    /\ lastRun' = Telemetry(fin.final)
    /\ lastSuccess' = IF fin.final = "success" THEN run ELSE lastSuccess
    /\ pc' = "report"
    /\ UNCHANGED <<outside, files, lastRanked, lastSeen, report, latest, archive, history, health,
                   published, run, fin, observed>> /\ Remain

\* _write_last_run with the hashes of now, whatever the status, and again
\* when a cost guardrail makes the run an error.
WriteLastRun ==
    /\ pc = "last_run"
    /\ \E over \in IF "guardrail" \in Faults /\ fin.given = "success" THEN BOOLEAN ELSE {FALSE} :
          LET status == IF over THEN "error" ELSE fin.final IN
          /\ fin' = [fin EXCEPT !.final = status]
          /\ lastRun' = Telemetry(status)
    /\ pc' = "report"
    /\ UNCHANGED <<outside, files, lastRanked, lastSeen, lastSuccess, report, latest, archive, history,
                   health, published, run, observed>> /\ Remain

\* The scoring model metadata cannot be built: last_run.json says error and
\* _finalize returns at once.
MetadataFails ==
    /\ pc = "report"
    /\ "metadata" \in Faults
    /\ lastRun' = [lastRun EXCEPT !.status = "error"]
    /\ Leave(ExitCode([fin EXCEPT !.final = "error"]))
    /\ UNCHANGED <<outside, files, lastRanked, lastSeen, lastSuccess, report, latest, archive, history,
                   health, published, run, observed>>

\* _persist_run_metadata.
PersistReport ==
    /\ pc = "report"
    /\ report' = [report EXCEPT ![run] = fin.final]
    /\ pc' = "pointer"
    /\ UNCHANGED <<outside, files, lastRanked, lastSeen, lastRun, lastSuccess, latest, archive, history,
                   health, published, run, request, k, memory, exit, observed>>

\* Mutant: every finalized run becomes the last success.
WritePointerAlways ==
    /\ pc = "pointer"
    /\ lastSuccess' = run
    /\ pc' = "archive"
    /\ UNCHANGED <<outside, files, lastRanked, lastSeen, lastRun, report, latest, archive, history, health,
                   published, run, request, k, memory, exit, observed>>

\* Mutant: the pointer follows the argument of _finalize.
WritePointerOfGiven ==
    /\ pc = "pointer"
    /\ lastSuccess' = IF fin.given = "success" THEN run ELSE lastSuccess
    /\ pc' = "archive"
    /\ UNCHANGED <<outside, files, lastRanked, lastSeen, lastRun, report, latest, archive, history, health,
                   published, run, request, k, memory, exit, observed>>

\* _write_last_success_pointer; an error in it is only logged.
WritePointer ==
    /\ pc = "pointer"
    /\ lastSuccess' = IF fin.final = "success" THEN run ELSE lastSuccess
    /\ pc' = "archive"
    /\ UNCHANGED <<outside, files, lastRanked, lastSeen, lastRun, report, latest, archive, history, health,
                   published, run, request, k, memory, exit, observed>>

\* copy2 of the ranked postings of the first n providers, the copy of the last
\* of them cut short or not; a list that is not there is not copied.
Copied(n, p) == ranked[p] # Absent /\ \E m \in 1 .. n : request.providers[m] = p
CopyOf(n, cut, p) == IF cut /\ request.providers[n] = p THEN Torn ELSE ranked[p]

CopyToLatest(n, cut) ==
    latest' = [p \in Providers |->
                  IF Copied(n, p) THEN [by |-> run, ranked |-> CopyOf(n, cut, p)] ELSE latest[p]]

CopyToArchive(n, cut) ==
    archive' = [archive EXCEPT ![run] = [p \in Providers |->
                  IF Copied(n, p) THEN CopyOf(n, cut, p) ELSE archive[run][p]]]

\* A --scrape_only run archives postings that it does not announce.
ArchivedOnly ==
    IF request.scrape_only
    THEN [p \in Providers |-> dropped[p] \cup ListOf(ranked[p])] ELSE dropped

\* _archive_profile_artifacts, then _write_run_registry, for every status.
Archive ==
    /\ pc = "archive"
    /\ CopyToLatest(Len(request.providers), FALSE)
    /\ CopyToArchive(Len(request.providers), FALSE)
    /\ dropped' = ArchivedOnly
    /\ pc' = "publish"
    /\ UNCHANGED <<outside, files, lastRanked, lastSeen, lastRun, lastSuccess, report, history,
                   health, published, run, request, k, memory, exit, announced, alerted>>

Publishes == setting.publish # "off" /\ fin.given = "success"

\* The publish decision looks at the argument of _finalize, the pointer
\* (PublishS3) at telemetry["success"]; a required publish whose pointer was
\* not written fails the run.  Its outcome is written into the report.
PublishRun ==
    /\ pc = "publish"
    /\ IF ~Publishes
       THEN UNCHANGED <<published, report, fin>>
       ELSE \E uploaded \in IF "publish" \in Faults THEN BOOLEAN ELSE {TRUE},
               pointed \in IF "publish" \in Faults THEN BOOLEAN ELSE {TRUE} :
              LET failed == /\ setting.publish = "required"
                            /\ ~(uploaded /\ pointed /\ fin.final = "success") IN
              /\ published' = IF uploaded THEN published \cup {run} ELSE published
              /\ report' = IF failed THEN [report EXCEPT ![run] = "failed"] ELSE report
              /\ fin' = [fin EXCEPT !.s3 = IF uploaded THEN "ok" ELSE "error",
                                    !.s3_failed = failed]
    /\ pc' = "history"
    /\ UNCHANGED <<outside, files, lastRanked, lastSeen, lastRun, lastSuccess, latest, archive,
                   history, health, run, observed>> /\ Remain

\* update_history_retention, again by the argument of _finalize; what it kept
\* is written into the report.
HistoryWith == IF fin.given = "success" THEN history \cup {run} ELSE history

KeepHistory ==
    /\ pc = "history"
    /\ history' = HistoryWith
    /\ pc' = "health"
    /\ UNCHANGED <<outside, files, lastRanked, lastSeen, lastRun, lastSuccess, report, latest,
                   archive, health, published, run, request, k, memory, exit, observed>>

\* Mutant: the health follows the argument of _finalize.
HealthOfGiven(f) == IF f.given = "error" THEN "failed"
                    ELSE IF f.s3 = "error" THEN "partial" ELSE "success"

\* _build_run_health_payload: an error is failed, a run whose only failed
\* phase is its publication is partial.
HealthOf(f) == IF f.final = "error" THEN "failed"
               ELSE IF f.s3 = "error" THEN "partial" ELSE "success"

\* run_health.v1.json, and run_summary.v1.json with the same status.
WriteHealth ==
    /\ pc = "health"
    /\ health' = [health EXCEPT ![run] = HealthOf(fin)]
    /\ pc' = "return"
    /\ UNCHANGED <<outside, files, lastRanked, lastSeen, lastRun, lastSuccess, report, latest, archive,
                   history, published, run, request, k, memory, exit, observed>>

\* _finalize returns, or raises SystemExit for a failed publish, which main
\* catches to finalize the same run once more, as an error.
Return ==
    /\ pc = "return"
    /\ IF fin.s3_failed
       THEN pc' = "last_run" /\ fin' = Entering("error") /\ Remain
       ELSE Leave(ExitCode(fin))
    /\ UNCHANGED <<outside, files, state, run, observed>>

TornReport == [report EXCEPT ![run] = Torn]

\* What a step of _finalize leaves when it does not come to its end.  The
\* report is rewritten in place (write_text) by the steps after the pointer too,
\* the artifacts are copied one by one in place, and so is the health artifact;
\* the pointers are replaced.  Of last_run.json there are two copies, written
\* one after the other: one of them can be read.
CutShort ==
    /\ \/ UNCHANGED <<report, latest, archive, history, health, published>>
       \/ /\ pc = "report" /\ "cut" \in Faults
          /\ report' = TornReport
          /\ UNCHANGED <<latest, archive, history, health, published>>
       \/ /\ pc = "archive" /\ "cut" \in Faults
          /\ \E n \in DOMAIN request.providers, cut \in BOOLEAN :
                \/ CopyToLatest(n, cut) /\ UNCHANGED archive
                \/ CopyToLatest(Len(request.providers), FALSE) /\ CopyToArchive(n, cut)
          /\ UNCHANGED <<report, history, health, published>>
       \/ /\ pc = "publish" /\ "cut" \in Faults
          /\ published' \in IF Publishes THEN {published \cup {run}} ELSE {published}
          /\ report' \in {report, TornReport}
          /\ UNCHANGED <<latest, archive, history, health>>
       \/ /\ pc = "publish" /\ {"cut", "publish"} \subseteq Faults
          /\ report' = TornReport
          /\ UNCHANGED <<latest, archive, history, health, published>>
       \/ /\ pc = "history" /\ "cut" \in Faults
          /\ history' = HistoryWith
          /\ report' \in {report, TornReport}
          /\ UNCHANGED <<latest, archive, health, published>>
       \/ /\ pc = "health" /\ "cut" \in Faults
          /\ health' = [health EXCEPT ![run] = Torn]
          /\ UNCHANGED <<report, latest, archive, history, published>>
    /\ dropped' = CASE pc = "post"         -> Lose(Current, newJobs)
                    [] archive' # archive -> ArchivedOnly
                    [] OTHER              -> dropped
    /\ UNCHANGED <<lastRun, lastSuccess>>

\* An exception inside _finalize: main finalizes the run as an error, and
\* when it was already doing that the exception ends the process.
FinalizeRaises ==
    /\ "finalize" \in Faults
    /\ pc \in Finalizing \ {"pointer", "return"}
    /\ CutShort
    /\ IF fin.given # "error"
       THEN pc' = "last_run" /\ fin' = Entering("error") /\ Remain
       ELSE Leave("nonzero")
    /\ UNCHANGED <<outside, files, lastRanked, lastSeen, run, announced, alerted>>

-----------------------------------------------------------------------------
\* The process is killed; a file it was writing in place may be cut short.
Crash ==
    /\ "crash" \in Faults
    /\ pc # "idle"
    /\ CutShort
    /\ Leave(None)
    /\ raw' \in {raw} \cup {[raw EXCEPT ![p] = Torn] :
                              p \in IF pc = "scrape" THEN {Current} ELSE {}}
    /\ labeled' \in {labeled} \cup {[labeled EXCEPT ![p] = Torn] :
                              p \in IF pc = "classify" THEN {Current} ELSE {}}
    /\ labeledNewer' = IF labeled' = labeled THEN labeledNewer
                       ELSE [labeledNewer EXCEPT ![Current] = TRUE]
    /\ enriched' \in {enriched} \cup {[enriched EXCEPT ![p] = Torn] :
                              p \in IF pc = "enrich" THEN {Current} ELSE {}}
    /\ lastSeen' \in {lastSeen} \cup {[lastSeen EXCEPT ![p] = {}] :
                              p \in IF pc = "seen" THEN {Current} ELSE {}}
    /\ lastRanked' \in {lastRanked} \cup {[lastRanked EXCEPT ![p] = Torn] :
                              p \in IF pc = "state" THEN {Current}
                                    ELSE IF pc = "restate" THEN {Openai} ELSE {}}
    /\ UNCHANGED <<outside, ranked, aiState, run, announced, alerted>>

\* Postings appear on a site and disappear from it.
SiteChanges(p, listed) ==
    /\ changes < setting.changes
    /\ p \in Named(setting)
    /\ listed # site[p]
    /\ setting.grow => site[p] \subseteq listed
    /\ site' = [site EXCEPT ![p] = listed]
    /\ changes' = changes + 1
    /\ UNCHANGED <<setting, files, state, run, request, k, pc, memory, exit, observed>>

Step == \/ ScrapeOne \/ AfterScrape \/ Classify \/ Enrich \/ Augment \/ Score
        \/ WriteAlerts \/ WriteLastSeen \/ Diff \/ SuppressDiff \/ WriteState \/ Announce \/ NotAnnounced
        \/ StageFails \/ WriteLastRun \/ MetadataFails \/ PersistReport \/ WritePointer
        \/ Archive \/ PublishRun \/ KeepHistory \/ WriteHealth \/ Return
        \/ FinalizeRaises \/ Crash

Next ==
    \/ \E q \in Requests : Start(q) \/ SnapshotMissing(q)
    \/ Step
    \/ \E p \in Providers, listed \in Lists : SiteChanges(p, listed)

Spec == Init /\ [][Next]_vars

-----------------------------------------------------------------------------
(* Properties.                                                             *)

\* Between two runs, every posting that the next run will take for known
\* (state/last_ranked or the archive of the last success) was sent to Discord
\* by some run, or was lost by one of the steps that can lose one: a post that
\* failed or was suppressed because no provider was available, a kill between
\* the state write and the post, the scoring-only path, --scrape_only, a US
\* filter that once kept nothing, or a first comparison with the directory of a
\* run that failed.
LostOnlyInKnownWays ==
    pc = "idle" => \A p \in Providers :
        /\ ListOf(lastRanked[p]) \subseteq announced[p] \cup dropped[p]
        /\ lastSuccess # None =>
              ListOf(archive[lastSuccess][p]) \subseteq announced[p] \cup dropped[p]

\* Every posting last_seen holds was in an alerts file: a kill between the two
\* writes repeats alerts, it never swallows them.
AlertsPrecedeLastSeen == \A p \in Providers : lastSeen[p] \subseteq alerted[p]

\* What the run a pointer names has left can be read: its report, and the lists
\* in its directory, the next run's baseline among them.
Readable(r) == report[r] # Torn /\ \A p \in Providers : archive[r][p] # Torn

\* last_success.json, the history pointers, the health artifacts and latest/ in
\* the bucket name runs whose report was written: no kill and no failure of
\* _finalize leaves one of them without.  A kill (or an exception) does leave
\* them with a report that cannot be read, because the report is rewritten in
\* place and the lists are copied in place after the pointer; but only of a run
\* that has not come to its health artifact, or, where publication is required,
\* was finalized a second time.  After exit code 0 all of it can be read.
PointersResolve ==
    /\ lastSuccess # None => report[lastSuccess] # None
    /\ \A r \in history \cup published \cup {s \in Runs : health[s] # None} : report[r] # None
    /\ \A r \in Runs : health[r] \in {"success", "partial", "failed"} =>
          Readable(r) \/ setting.publish = "required"
    /\ pc = "idle" /\ exit = "zero" => Readable(run)

\* Between two runs the witnesses of a success agree, although guardrails and
\* failures change the status that the steps of _finalize test: exit code 0 of a
\* run that wrote its report means that last_run.json records a success or a
\* short circuit, and the success pointer names a run reported as a success
\* (if its report can be read), unless its publication or a later step of
\* _finalize failed.  A run whose diff is made against the last success names
\* the same list in its delta, if the last run to copy its list to
\* history/latest was reported as a success.
SuccessesAgree ==
    /\ pc = "idle" =>
        /\ exit = "zero" /\ report[run] # None =>
              lastRun.status \in {"success", "short_circuit"}
        /\ lastSuccess # None =>
              \/ report[lastSuccess] \in {"success", Torn}
              \/ setting.publish = "required" \/ "finalize" \in Faults
    /\ pc = "diff" /\ HasSuccess(Current) /\ Baseline(Current) # Torn =>
        \/ latest[Current].by = None \/ report[latest[Current].by] # "success"
        \/ DeltaBaseline(Current) = Baseline(Current)

\* A run whose health artifact says success or partial was reported as a
\* success, and if the report says otherwise now, a required publication failed
\* after the report: a guardrail never leaves a healthy run with a failed report.
HealthMatchesReport ==
    \A r \in Runs : health[r] \in {"success", "partial"} =>
        report[r] \in {"success", "short_circuit"} \/ setting.publish = "required"

\* A run that takes a provider through all its stages ranks what it scraped and
\* nothing else, whatever older files, AI answers and torn files it found: with
\* --no_enrich the older enriched postings are passed over, and the AI file is
\* the one it has just written.  And the report says which file that was,
\* except for a provider other than openai in a run with AI.
RanksWhatItScraped ==
    /\ pc \in {"alerts", "seen", "diff", "state", "post"} =>
        /\ ranked[Current] \subseteq raw[Current]
        /\ ~request.us_only => ranked[Current] = raw[Current]
    /\ pc \in {"score", "rescore"} /\ ~InputFails /\ (request.ai => Scored = Openai) =>
        SelectedFile(Scored) = InputFile(Scored)

\* Every run takes openai through all its stages, no list comes back to what it
\* was, and where the AI stage is asked for no stage fails of its own and openai
\* is taken first: a run whose AI stage failed is recorded as one that ran it.
Undisturbed ==
    /\ setting.grow
    /\ "unavailable" \notin Faults
    /\ \A q \in Requests :
          /\ ~q.scrape_only /\ ~q.no_enrich /\ ~q.us_only
          /\ \E n \in DOMAIN q.providers : q.providers[n] = Openai
    /\ (\E q \in Requests : q.ai) =>
          "stage" \notin Faults /\ \A q \in Requests : q.providers[1] = Openai

\* In such a deployment comparing hashes is enough after a success: a run that
\* skips everything finds ranked outputs made from the enriched postings on
\* disk, and from the AI answers to them if it asked for AI, whatever runs were
\* killed or stopped by a guardrail in between.
ShortCircuitAfterSuccessIsFresh ==
    [][(/\ Undisturbed
        /\ pc = "idle" /\ pc' = "last_run" /\ fin'.given = "short_circuit"
        /\ lastRun.status = "success")
       => /\ ranked[Openai] = enriched[Openai]
          /\ request'.ai => aiFile[Openai] = enriched[Openai]]_vars

\* The same whatever the last run was and did, and the same of the stages before.
ShortCircuitIsFresh ==
    [][pc = "idle" /\ pc' = "last_run" /\ fin'.given = "short_circuit"
          => ranked[Openai] = enriched[Openai] /\ enriched[Openai] = raw[Openai]]_vars
=============================================================================
