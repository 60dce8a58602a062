# A verification project for the job intelligence engine

The repository runs a daily pipeline: it scrapes career sites, classifies,
enriches and scores the postings it finds, compares them with an earlier run,
announces what is new, and publishes the outputs to S3. This directory holds
TLA+ models of the parts of that program whose behaviour depends on order,
failure or concurrency, the TLC configurations that check them on small
instances, and proofs that TLAPS checks for every value of the constants.

Paths below are relative to the root of the repository.

## 1. Inventory

| Component | Where | State | Operations | What is hard |
|---|---|---|---|---|
| Run lock | `scripts/run_daily.py` `_acquire_lock` | `state/run_daily.lock` with a pid | create, judge stale, unlink, wait, remove at exit | several runs starting together; kills at any step; pids that are reused, held by other programs, or of another host |
| Request politeness | `src/ji_engine/providers/retry.py` | last request, requests in flight, failures, open circuits, all shared by threads | three `fetch_*_with_retry`, `record_policy_block` | threads interleave; the clock is read outside the lock; retries while a circuit opens |
| Scrape | `scripts/run_scrape.py`, `providers/*_provider.py` | `<provider>_raw_jobs.json`, `<provider>_scrape_meta.json`, snapshots, the environment it exports | export politeness, choose a mode, ask robots, scrape, fall back, record provenance | combinations of mode, option, denial, error and state of the snapshot; settings of one provider left for the next |
| Daily run | `scripts/run_daily.py` `main`, `_finalize`; `jobintel/alerts.py` | pipeline files, `last_run.json`, `last_success.json`, `last_ranked`, `last_seen`, run directories, history | short circuit, stages, diff, alerts, finalize | what a later run infers from files that an earlier one left when it failed or was killed |
| S3 publication | `scripts/publish_s3.py`, `jobintel/aws_runs.py` | objects under `runs/` and `latest/`, pointers and their legacy copies | upload, move pointers, resolve a baseline | many writes, each of which may fail; publication by hand beside the daily run; outputs that are overwritten |
| Scoring | `scripts/score_jobs.py`, `ji_engine/semantic/boost.py` | ranked outputs, shortlist, application kit | score, clamp, blend, filter, deduplicate, rank, boost | rounding and clamping; ties; what survives a filter that leaves nothing |
| Classification, enrichment | `run_classify.py`, `run_enrich.py`, `enrich_jobs.py` | labeled and enriched files, the cache of Ashby answers, the embedding cache | label, reclassify, fetch texts | files and caches shared with programs started by hand |
| History retention, pruning | `ji_engine/history_retention.py`, `scripts/prune_state.py` | pointers by run and by day, snapshots, reports, logs | write, prune | a pointer to what was pruned; a plan that grows old |
| Run repository | `ji_engine/run_repository.py` | an SQLite index of runs | rebuild, query, fall back to a scan | concurrent rebuilds, leftovers, an index that is stale or broken |
| Candidate registry, user state | `ji_engine/candidates/registry.py`, `scripts/candidates.py`, `scripts/user_state.py`, `set_job_status.py` | a JSON registry, profiles with their texts, marks on postings | add, bootstrap, ingest, doctor; mark | lost updates; failure half way; a broken file read as an empty one |
| AI stages | `run_ai_augment.py`, `run_ai_job_briefs.py`, `ji_engine/ai`, `jobintel/ai_insights.py` | answers, briefs, insights with their caches | ask a model within a budget, cache, compare | cache keys; failed answers that are kept; caches written side by side |
| Identity and diff utilities | `utils/job_identity.py`, `diff_report.py`, `jobintel/alerts.py`, `delta.py`, `safety/diff.py` | none | key, compare | six programs compare the same lists, each with its own key and its own fields |
| Replay, verification | `replay_run.py`, `utils/verification.py`, `verify_published_s3.py` | none | compare hashes, recalculate | what was hashed may have changed |
| Registry of providers and its editors | `providers/registry.py`, `provider_authoring.py`, `update_snapshots.py` | `config/providers.json`, snapshot fixtures, the manifest of their bytes | append, enable, scaffold, pin, update | three files that must agree, each replaced as a whole by programs that overlap |
| Dashboard, CLI, notifications, proof bundles, deployment | `ji_engine/dashboard`, `jobintel/cli.py`, ... | none, or files of the others | read, render, send | input and output |

How they interact. `run_daily.main` takes the lock, starts `run_scrape`,
`run_classify`, `run_enrich` and `score_jobs` as subprocesses that communicate
through files, and calls `publish_run` from `_finalize`. Everything a run knows
of earlier runs it reads from files: `last_run.json` (the short circuit),
`state/last_ranked` and `last_success.json` (the baseline of the diff),
`last_seen` (alerts), run directories, and pointers in the bucket. Scraping and
enrichment reach the network only through the politeness state of `retry.py`,
whose settings `run_scrape` exports from `config/providers.json`. Only
`run_daily` takes the lock. An operator may at any time call `publish_s3.py`,
any stage, `prune_state.py`, the editors of the provider files, and the tools for
candidates and marks, all of which share files with a run.

What makes each part correct, in a sentence:

- run lock: two runs never work at once, and a run that is alone gets in;
- politeness: no more requests at once, and none more often, than configured,
  whatever the threads do, and every call ends;
- scrape: nothing is fetched that was denied, a site is asked at the pace of its
  own entry, what is recorded says where the postings come from, and a collapsed
  list does not pass for a good one;
- daily run: a posting is announced before it counts as known, stale outputs do
  not pass for fresh ones, and success is claimed by successful runs only;
- publication: everything a reader reaches from the bucket is whole;
- run index: an answer never depends on how old or how broken the index is;
- retention: what is kept resolves, and what goes has newer successors;
- stages: an output holds what was listed, a cache keeps what was paid for, and
  nothing counts as known that was never told;
- editors: an edit is lost only to another one that overlaps it, and what a check
  has passed holds.

Every hazard that was found, with its line and the properties that watch it, is
in `PROJECT.json` under `hazards`.

## 2. Modules

| Module | Models | Checked with | Proved in |
|---|---|---|---|
| `RunLock` | `_acquire_lock`, `_pid_alive` | `MCRunLock` | `JobStagesProofs` |
| `Mutex` | what a lock promises (abstract) | | `JobStagesProofs` |
| `Politeness` | `retry.py` | `MCPoliteness` | `PolitenessProofs` |
| `ProviderPoliteness` | the politeness of an entry and the variables it becomes | through `Scrape` | `ProviderProofs` |
| `Scrape` | `run_scrape.main` and the floor of `_evaluate_provider_policy` | `MCScrape` | `ProviderProofs` |
| `DailyRun` | `run_daily.main` with `_finalize` | `MCDailyRun` | `DailyRunProofs` |
| `Scoring` | `score_jobs.py`, `semantic/boost.py`, as operators | through `JobStages` | `JobStagesProofs` |
| `JobDiff` | six comparisons of two lists, as operators | through `JobStages` | `JobStagesProofs` |
| `JobStages` | the stages of a run on shared files and caches, `replay_run.py` | `MCJobStages` | `JobStagesProofs` |
| `PublishS3` | `publish_run`, its callers, its readers, its verification | `MCPublishS3` | `PublishS3Proofs` |
| `Catalog` | what a published bucket promises (abstract) | as `PublishS3!ImplementsCatalog` | `PublishS3Proofs` |
| `RunIndex` | `run_repository.py`, `rebuild_run_index.py` | `MCRunIndex` | `RunIndexProofs` |
| `Retention` | `history_retention.py`, `prune_state.py`, the closing steps of `_finalize` | `MCRetention` | `RetentionProofs` |
| `StateEditors` | `candidates.py` with its registry, `user_state.py`, `set_job_status.py` | `MCStateEditors` | `StateEditorsProofs` |
| `ProviderFiles` | `provider_authoring.py`, `update_snapshots.py`, the readings of `registry.py` | `MCProviderFiles` | `ProviderProofs` |

`Scrape` extends `ProviderPoliteness`; `JobStages` extends `JobDiff`, which
extends `Scoring`. Two modules of proofs are about two neighbours each:
`ProviderProofs` about the scrape and the files it reads, `JobStagesProofs` about
the stages of a run and the lock that admits one run at a time; the specifications
of the two smaller ones have names of their own for that (`FilesSpec`, `LockSpec`). `DailyRun`, `PublishS3`, `Retention` and `JobStages` overlap on
the daily run. Each keeps the part of it that its own state depends on:
`DailyRun` the status and the order of all its steps, with every failure,
`PublishS3` the publication and its contract, `Retention` the pruning, and
`JobStages` what the stages do to the postings, with the programs that are run
beside them.

### RunLock and Mutex

`file` is the directory entry at `LOCK_PATH`: empty or one record of the pid
written in it and the run that created it. Each run has a step `pc`, its `pid`
and the pid it has `seen`. Actions follow the function: `Create` and
`CreateFails` are the two outcomes of `os.open` with `O_EXCL`, `WritePid` the
write of the pid to what was opened, `ReadPid`, `FindStale` and `RemoveStale` the
branch that follows, `Refuse` and `Wait` the two ends of the round, `Exit` the
`atexit` handler, and `Kill` a SIGKILL at a step of `KillPoints`, which in the run
are all of them. The write of the pid acts on the file that was opened and the
unlink on the path, which is what the difference between the two sets of records
of `file` expresses. `PidAlive` is the test of a pid on a host: it says yes of the
pid of a live run there, the asking one too, and of those that programs other than
runs hold (`Busy`). A lock that was left behind `LooksHeld` when it is empty or its
pid is such a one. `clobbered` observes that a run unlinked the lock of another
live run.

### Politeness

The four dicts of `retry.py` are `last`, `inflight`, `failures`, `openUntil`.
A thread goes through one call in the steps of the code: `_check_circuit` reads
the clock (`Call`) and then takes the lock (`Refuse`, `Admit`); `_rate_limit`
does the same (`ReadClock`, `Reserve`) and sleeps (`WakeUp`); the in-flight
guard finds room (`Send`); the answer comes (`Respond`); and the loop retries
(`Retry`, `NextAttempt`) or ends (`Finish`, `Leave`). The threads in `UrlOpen`
call `fetch_urlopen_with_retry`, which handles an answer inside the guard; the
others call one of the two functions that do it outside. `Calls` gives the
number of calls of each thread. Answers are classes of status codes and
exceptions, as `_classify_status` and `_should_retry` group them. Time is a
counter; `Tick` advances it while some thread or some deadline still depends on
it. The threads in `Prompt` are never late; another one may sleep past its time
for as long as there are deadlines.

### Scrape

One run of `main` over the requested providers. `options` are the command line,
`snapshot` what the snapshot file of each provider holds (missing, invalid or a
number of postings). `Choose` exports the politeness of the entry
(`ProviderPoliteness!Applied`: the delay and the number of requests in flight,
under a name made from the provider's id, unless that variable is set already)
and decides the mode. The provider then goes through `LoadOnly` (SNAPSHOT) or
one of `Denied`, `LiveResult`, `LiveError` (LIVE), then `Save`; `Exit` is a
`SystemExit`. `Denied` is `evaluate_robots_policy`: two allowlists and the answer
of `robots.txt`, each of which may refuse. Provenance is the record the code writes, reduced to
the fields another part of the program reads. `contacted` and `denied` observe
the network. The three types with live code repeat the same block, so each
definition is mapped to one of its copies; where they differ (`ExitsAtOnce`,
the missing snapshot in `LoadSnapshot`, the four `*Provenance`) the module
differs too.

### DailyRun

A sequence of runs; the lock makes them follow each other (`RunLock`). What is
asked of the runs and what may fail in a deployment is `setting`, which a
behaviour chooses once. A file holds a set of postings, is `Absent`, or is `Torn`
when a kill cut short a write that is not atomic. `Start` is the short-circuit
decision, with the comparison of the AI file for a run with `--ai`; `ScrapeOne`
to `Announce` are the stages, in the order in which their files are written,
among them `Augment` for `--ai`, and again `Augment`, `Score` and `WriteState`
when only the AI output of a short-circuited run is stale; `WriteLastRun` to
`Return` are `_finalize` (telemetry, report, success pointer, archive,
publication, history, health), whose record `fin` keeps apart the status it was
given and the one it ends with: several of its steps test the one, several the
other. `InputFile` is the file `score_jobs` opens, which with `--no_enrich`
depends on the order of two modification times (`labeledNewer`), and
`SelectedFile` the one the report names; `fellBack` is the part of
`.score_meta.json` that matters, a US filter that kept nothing. `StageFails`,
`MetadataFails`, `FinalizeRaises` and `Crash` are the failures, each enabled by a
member of `setting.faults`. The last two leave a step of `_finalize` half done
(`CutShort`): the report, which the steps after the pointer rewrite in place too,
is torn; the ranked lists are copied for some of the providers, the last copy
whole or torn, first to `history/latest` (`latest`, with the run whose list it is:
the baseline of the delta) and then to the directory of the run (`archive`); an
upload or a history pointer is there and the report that should tell of it is not
updated; the health artifact is torn. `SiteChanges` is the world. `announced`, `alerted` and
`dropped` are observations: what was posted, what an alerts file held, and what
one of the known ways lost.

Assumed of a deployment: one profile; the state directory persists (the
on-premises overlay, `ops/k8s/overlays/onprem`), so that the S3 baseline is not
used here but in `PublishS3`; the ranked outputs of a provider are one value; a
message lists all new postings; no `--ai_only`.

### Scoring, JobDiff and JobStages

`Scoring` follows `score_jobs.py` on integers with two decimals: `score_job` with
the points of the matched rules, the multiplier of the role band and Python's
rounding (`RoundDiv`), the blend with the AI score, the US filter with its fall
back, deduplication, the order with its ties, the bounded boost of
`semantic/boost.py` on the best `TopK`, and the shortlist. `JobDiff` has the three
keys and the fields of the six programs that compare lists (`_diff` of the daily
run, the diff report, the alerts, the delta, the insights, the safety diff), and
what a message and the section of changes name.

`JobStages` is the pipeline over a site: `Classify` with the embedding cache
(`vectors`: the daily run has the stub embedder, an operator may have the real
one, and vectors of the two never match), `Enrich` and `Texts` (the two programs
that write enriched files, the second with the cache of Ashby answers, `details`,
in which an answer with errors is kept like a whole one), `TextsSkipped` (the
second one where no posting has a stored page: nothing is asked and all are
unavailable), `Augment` to `WriteAiFile` and `PutKit` to `KitsDone` (the two loops
over the AI cache, whose reads and writes are steps of their own), `Score` with the
note it leaves when the US filter kept nothing (`fellBack`), `Compare` and `Post`,
or instead of both `Suppress` when that note is there (alerts, their index and
`last_ranked`, and neither diff, section, insights, briefs nor message),
`Insights`, `Briefs` to `BriefsDone` (a budget of tokens and a cache that is read
and written posting by posting), `Report` and the operators
of `replay_run.py` (`Replayed`, `Recomputed`). Of two processes, `daily` runs the
programs in the order of `main`, `operator` any program of `setting.byHand`, on the
same files; no lock stands between them. `touched` observes that something was
run by hand since the daily run began, `told` and `excused` which contents a
message named or had no need to.

### PublishS3 and Catalog

`disk` is the shared output directory (which run wrote each output), `report`
the `run_report.json` of each run with its verifiable artifacts, and the bucket
is `objects`, `latest`, `pointer` and `legacy`. A publisher is the daily run or
an operator; each has a `job`, the local variables of `publish_run`. The order
is that of the code: objects under `runs/` in the order of their keys, then
`latest/`, then the global pointer and those of the keys, each followed by its
legacy copy; a `ClientError` is recorded, another exception leaves
`publish_run`. `VerifiedOffline` is what `publish_run` and the daily run ask of the
disk before an upload, `Verified` what `verify_published_s3` asks of the bucket
afterwards: that each object is there and has the size of its file. `Baseline` is `_resolve_s3_baseline` as a function of the bucket.
`Catalog` says what a bucket promises: a run becomes complete, and pointers move
only to complete runs, which stay so.

### RunIndex

`dirs` is the `index.json` of each run directory (absent, being written, whole,
or torn by a kill); `db` and `tmp` are the two paths of the index, with the rows
of the file there and the processes that have it open. Readers are `list_runs`
and `get_run`: `List`, `Get`, `Missing`, `Select`, `SelectFails` and
`ScanInstead` are the query, its handler and its fall back to the directories.
`CheckTmp` to `Replace` are `rebuild_index`, called by the query or by the script
(`RunRebuild`); `UnlinkFails`, `FillFails` and `ReplaceFails` are the exceptions,
which the first handler of a query catches and nothing else does (`Raises`).
All rebuilds share the path `run_index.tmp`. `crossed` holds the processes whose
open file another process has opened, removed or renamed: SQLite promises them
nothing, so `CloseTmp` leaves any of the contents the two could have left, and
`FillFails` is possible. `steady` and `alone` observe a call: the runs that were
whole from its beginning, and whether another rebuild met it.

### Retention

A time is a day. `tree` holds what `prune_state` may delete: the report of each
run, its snapshots under `history/<date>/<run>/`, and `history/<profile>` itself,
which the search by name finds as well; `pointers` and `daily` are the pointers
by run and by day, `success` is `last_success.json`, `logs` the runs whose logs
remain. `WriteReport` to `Archived` are the part of `_finalize` that writes what
is kept; `WriteArtifacts` to `Pruned` are `write_history_run_artifacts` and
`update_history_retention`, one action for each write and each directory removed;
`PruneLogs` is `_enforce_run_log_retention`. `plan_prune` is `Plans`, a set,
because equal keys come in the order of the directory; `PlanDaily` makes one at
the end of a run, `PlanByHand` beside it, and `Delete` carries one out path by
path, however old it is. `RetentionRaises` is the `FileNotFoundError` of a run
whose directory `prune_state` has removed meanwhile; `Kill` leaves half of what
is written in place. `Midnight` advances the date, only at steps that read it
afterwards (the other moments are indistinguishable from those).

### StateEditors

The files of the state directory that tools edit: the registry, the profile of
each candidate with the texts it holds and the artifacts they point to, its
directories, and the marks of a user. A shell gives a command (`Add`,
`Bootstrap`, `Ingest`, `Doctor`, `Mark`, `List`), which then takes the steps of
the code: `Load` reads the registry (`LoadFindsNone`, `SaveDefault` when there is
none), `MakeDirs` to `WriteProfile` make the directories and the profile,
`Register` replaces the registry by what was read and the new id, `Open`,
`WriteArtifact`, `SaveProfile` are the ingestion of texts, `LookAtDirs`,
`LookAtPointers`, `Validate` the doctor, `ReadMarks` and `StoreMarks` the user
state. Every file is replaced as a whole (`atomic_write_text`), none is locked,
and `Kill` comes between any two steps. `mine`, `draft` and `sheet` are the
copies in memory; `raced` observes that another command has replaced a file since
this one read it. `Spoil` is a user state file broken by hand, which the code
reads as an empty one.

### ProviderFiles

`config`, `fixture` and `manifest` are `config/providers.json`, the snapshots it
names and the manifest of their bytes. Programs run side by side:
`append-template` (`AppendEntry`), `enable` (`Resolve`, `ReadPin`, `ComparePin`,
`EditEntry`, `StoreConfig`), `scaffold`, `update-snapshot-manifest`
(`HashFile`, `ReadPins`, `StorePins`), `update_snapshots.py` (`Fetch`,
`WritePage`, the same pins, `NextProvider`), and a daily run, which reads the
configuration twice (`ChooseProviders`, `ResolveAgain`). `known` and `held` are
what a program remembers of the files; `reads`, `overtaken` and `loosened` are
observations: which files it goes by, whether one was written meanwhile by
another program, and which fixtures were left unlike their pin in a known way.
The hash and the size of a file are one step, as nothing else reads between them.

## 3. Bounds, constants and fairness

Every set of processes (runs, threads, publishers, shells, programs, readers with
rebuilders) has two or three members: an overlap needs two, a stale judgement
over a fresh lock three. The bounds that are of the model and not of the code
are constants with that comment:

| Module | Bounds | Why they are enough |
|---|---|---|
| `RunLock` | `KillPoints` | every step can be the last; one kill per run. `PidReuse` is `TRUE` and `Busy` has a pid on one of the two hosts: a lock left behind may be empty, or name a pid that is free, that of the next run, or that of another program |
| `Politeness` | `Calls`, `MaxLatency`; `Prompt` | two calls of the late thread let a circuit open, cool down and admit again; every comparison with a limit (delay 1, threshold 1, attempts 2, cooldown 2) is met from both sides |
| `Scrape` | `Counts` | `{0, 1, 10}` straddles the floor `MinJobs` and the ratio of the shrinkage test; two providers show what the first leaves in the environment of the second |
| `DailyRun` | `MaxRuns`, `changes` of a setting | three runs are a success, a failure, and a run that reads what both left; no property relates two postings of a site, so one is enough |
| `JobStages` | `passes` of a setting, `MaxByHand` | two runs are "before" and "after", a third reads what a killed one left; two programs by hand fall before and after any step of a run |
| `PublishS3` | `MaxRun`, `MaxByHand` | two runs and a publication by hand are "older", "newer" and "out of order" |
| `RunIndex` | two runs, one reader, one rebuilder | the reader rebuilds too, so that two rebuilds overlap; a query rebuilds at most twice |
| `Retention` | `MaxRun`, `MaxDay`, `MaxByHand` | all limits are one, so that two runs are "kept" and "surplus"; three days pass the age limit of one |
| `StateEditors` | `MaxCommands`, `MaxSpoils` | a command that is killed or done, and two that overlap on what it left |
| `ProviderFiles` | `MaxStarts` | one program prepares the files (an entry, a fixture), two overlap on them |

Several questions that would each need a run are settings of one: the initial
predicates of `MCDailyRun` and `MCJobStages` choose one of them for a whole
behaviour, and every property is checked in all of them.

`DailyRun`: `Faulty` (every fault of the stages and the channel),
`Unpublished` (every fault of `_finalize` where publication is required),
`Interrupted` (every step of `_finalize` left half done, its publication failing,
and done again), `HalfCopied` (the same with two providers, whose lists are copied
one by one), `Steady` (a second provider on some days, sites that grow),
`Augmented` (AI on some days, guardrails, kills and half-written files), `Mixed`
(flags that change from run to run, stages that fail, kills). `JobStages`: `ByHand`
(all programs by hand, two postings), `Alone` (one posting of every form that
matters, with an id or an address of another one or its own, beside two plain
ones, with and without `--us_only`), `Fetching` (texts by hand again and again,
answers with errors, and stored pages that are missing at times), `Telling` (three
runs with marks, kills and an id that is used again, with and without `--us_only`:
of the postings of some listings none is in the US).

Symmetry is used where ids are interchangeable and only state predicates and
single steps are checked: the shells of `StateEditors`, the programs and the
pages of `ProviderFiles`. Deadlock is not
checked: processes end, and a model whose processes have all ended stops.

Fairness is assumed in two runs only. `RunLock!FairLockSpec` (`lock_three_runs`): each
process that is not killed takes its next step, because the operating system
schedules it, and a run that waits refuses in the end, because `timeout_sec`
bounds its loop. `Politeness!FairSpec` (`politeness`): the clock advances and each
thread takes its next step; nothing is assumed of the order in which threads get
a slot, as the loop with `time.sleep(0.01)` gives none.

## 4. Runs

### That pass

| Run | Properties | Shows |
|---|---|---|
| `lock_three_runs` | `OverlapOnlyByUnlink`, `AloneIsAdmitted` | with three runs on two hosts the only way to an overlap is the unlink of a fresh lock; a run that stays alone is admitted after a kill at any step, unless the lock left behind looks held (it is empty, or its pid is in use), and then it is refused |
| `politeness` | `SlotInv`, `RateBound`, `SendsEndAfterTrip`, `CallsEnd` | a thread of `fetch_urlopen_with_retry` that may be late and a prompt one of `fetch_text_with_retry` leak no slot and stay within the rate; once a circuit is open only calls admitted before still send, a bounded number of times; every call ends |
| `scrape_providers` | `PacedByOwnEntry`, `ShrinkageFailsRun` | openai with a `snapshot_json` provider, and ashby with jsonld: a site is asked at the pace of its own entry, with two exceptions; a live scrape that lost most postings fails the run |
| `daily` | `LostOnlyInKnownWays`, `AlertsPrecedeLastSeen`, `PointersResolve`, `SuccessesAgree`, `HealthMatchesReport`, `RanksWhatItScraped`, `ShortCircuitAfterSuccessIsFresh` | in seven deployments: what a run will take for known was announced or lost in one of the listed ways; alerts are never swallowed; no pointer, health artifact or publication is of a run without a report, and that report and the archived lists can be read if the run came to its health artifact or ended with exit code 0; exit code, report, telemetry, pointer and the baselines of diff and delta agree on a success; a run ranks what it scraped; after a success an unchanged hash means fresh outputs |
| `publish` | `UploadedMatchesReport`, `PointersNameCompleteRuns`, `BaselineResolves`, `ImplementsCatalog`, `ContractKept` | with every fault and a publication by hand: objects hold what the report hashed, pointers name whole runs, a pointer leads to a readable baseline, exit code 0 of a required publication means that all of it is visible, and the bucket implements `Catalog` |
| `run_index` | `GetFindsWhole`, `AvailableWhenAlone`, `PartialNeedsOverlap` | a run that is there is found however old the index is; a caller whose rebuilds meet no other gets an answer whatever killed ones have left; only two rebuilds at a time put a broken index in place |
| `history_retention` | `NewestDailyResolves`, `LostToNewerRuns`, `KeptUnlessPushedOut` | the newest day's pointer resolves after any kill; older pointers and logs go only to later runs; `prune_state` takes the latest snapshot, or the pointers, only when directories that are named after no run push them out |
| `state_editors` | `DoctorPassesBootstrapped`, `RegistryLosesOnlyToRaces`, `TextsLostOnlyInKnownWays`, `MarksLostOnlyInKnownWays` | whatever overlaps or is killed, a bootstrapped candidate passes the doctor; a candidate, a text or a mark is lost only to a command that had read the file before, and in two more ways that are listed |
| `stages` | `AnswersReplacedInKnownWays`, `PassRanksItsListing`, `TextsFetchedOnce`, `ReportsVerify`, `EmptyBriefsOnlyAfterDisabled`, `KnownWasTold`, `ComparisonsAgree` | caches keep what they paid for; an undisturbed run ranks each posting of the site once and nothing else; six comparisons with their own keys agree, the alerts of a suppressed run with what its diff would say; nothing becomes known untold, through kills and marks, except in runs that a US filter silences; a text that the API has sent is in every list made while a page is stored; a report stands its replay |
| `provider_files` | `EnabledOnlyChecked`, `EditsLostOnlyToRaces`, `PinsBreakInKnownWays` | a provider is enabled over the fixture that was checked unless a program overtakes the check; entries and pins are lost only to races; a fixture is unlike its pin only in five listed ways |

`ShortCircuitAfterSuccessIsFresh` has premises, `Undisturbed`, and they are
needed. Every run takes openai through all its stages, openai is always there,
and the last recorded run was a success: without these the recorded hashes are of
postings that nobody has scored. No list returns to an earlier content: otherwise
two killed runs in a row can leave the files with the hashes of the last completed
run and other outputs. And where AI is asked for, openai is the first provider and
no stage fails of its own: a run whose AI stage failed is recorded as one that ran
it (see "Short circuit" below). Guardrails and kills at any step are allowed.
It is what remains true beside `daily_stale` below, as `ReportsVerify` is
beside `recalc`. The properties that end in "KnownWays", "OnlyToRaces" and the
like say exactly how far a stronger property is true that the code does not
keep: the code cannot promise that no edit is lost, because nothing locks, and
these say which edit loses which other.

Every property of a passing run has a mutant in `PROJECT.json`: a changed
definition of the model, a bug that a programmer could write, under which TLC
finds the property violated. The mutated operators stand beside the originals
in the modules, marked `Mutant:`.

### That find a disagreement between the code and what the repository says of it

| Run | The code | What the repository says |
|---|---|---|
| `daily_stale` | `_finalize` records the hashes of failed runs too, so that the next run finds nothing changed and keeps outputs that are older than the enriched postings (`run_daily.py:4527`) | "safe to skip everything downstream IF ranked artifacts exist" (`run_daily.py:4523`) |
| `recalc` | `main` appends the section "Changes since last run" to the shortlist that `_finalize` then hashes (`run_daily.py:5057`); the shortlist made again has none | "recompute scoring outputs from archived inputs and compare hashes", exit code 0 "reproducible" (`docs/RUN_REPORT.md:185`, `181`) |

### Seen while modelling

These follow from the models too, but have no run of their own. Lines are of
`scripts/run_daily.py` where no file is named.

- Lock (305): the unlink removes a lock that another run has just created: with a
  stale lock about, two runs can work at once, although line 279 says "Prevent
  overlapping runs."; `OverlapOnlyByUnlink` says that this is the only way.
- Lock (302): a lock file whose pid belongs to another host is judged stale here;
  one left empty by a kill is never judged stale, and one whose pid is in use again,
  by the run that asks itself in a container, is held, which is how far line
  283 goes, "detects stale locks": every later run is refused until somebody removes the file.
- Kills in `_finalize`: the report is rewritten in place (540, 560, 4376) after
  `last_success.json` and the history pointers name its run, so that a kill there
  leaves a pointer to a report that cannot be read; a copy of a ranked list cut short
  (1465) makes every later run of that provider fail at its diff until the success
  pointer moves on.
- Suppressed runs: when the US filter falls back, the run writes `last_ranked`
  (4992) and tells nobody, and nothing ever removes the metadata that say so (783):
  every later run of that provider and profile is silent too, with notifications
  set to "always" as well (3165), while its alerts are written and name the postings.
- Texts by hand: without a stored page `enrich_jobs.py:385` writes every posting as
  unavailable without looking into the cache; an answer of the API with a posting and
  errors is cached for ever (`ashby_graphql.py:69`) and is a failure each time it is
  read, so that the API is never asked again.
- Politeness: the delay is waited for before the in-flight guard
  (`retry.py:468`) and is kept by provider, not by host (`retry.py:198`), so that
  requests to one host may follow each other at once; `docs/ROADMAP.md:62` says
  "Per-host rate limits enforced".
- Scrape (`run_scrape.py:477`): a snapshot that replaces a denied site is recorded
  as a live success; `docs/ROADMAP.md:68` wants "scrape_mode + policy decision".
  `MislabelOnlyAfterDenial`, which is proved, says that nothing else is.
- Politeness of an entry: what is said per host is validated
  (`registry.py:339`) and used by nothing, though `docs/OPERATIONS.md:226` tells of
  it; ids that differ only in characters other than letters and digits share
  their variables, the allowlist among them; a default of the configuration
  sets the variable of the provider, which wins over the variable without a
  provider that an operator has set.
- Short circuit: it is decided before the scrape (4494), from the files that the last
  run left, so that a change of the site does not end it; hashes that `--scrape_only` records count
  (4527); a run whose AI stage failed counts as one that ran it: `ai_ran` is set
  before the stage is called (4593, 4844), and `_finalize` records the hash of the
  AI file that is there (3890), so that a later run with `--ai` scores the old
  answers as fresh ones and the one after it skips everything, although the
  comment at 4566 says "only skip AI+scoring when fresh" (TLC needs four runs);
  semantic scoring in sidecar mode bypasses it (4540), while
  `docs/OPERATIONS.md:427` has it kept.
- Stages: with `--ai`, a provider other than openai has the AI file in the
  selection of the report while `score_jobs` ranks the enriched one
  (`score_jobs.py:1633`). For openai the enriched file is archived (4896) and the AI
  file is ranked (4940), so that `--recalc` ranks another one.
- Messages: an ignored posting that goes is still reported, because line 2772 looks
  up current postings only (`docs/OPERATIONS.md:691`); the section of changes is
  written only when `last_ranked` exists, whatever the baseline is (5056); the
  baseline that `diff_summary` names is that of the delta (3937), not that of the
  diff; a change of the score alone is never told; `JOBINTEL_ALERT_SCORE_DELTA` may be
  0 or negative (`alerts.py:208`), and then the alerts name every known posting as
  one with a new score, which no other comparison does; the delta counts nothing
  when its baseline is empty; the insights compare with `last_ranked`, and two
  providers of one profile overwrite each other's file.
- Safety diff: a list that was wholly replaced by another one as long has risk 0: the
  score looks at totals and at postings that both lists have.
- Replay: without `--strict` it exits with 0 on mismatches, although
  `docs/RUN_REPORT.md:182` says 2.
- Finalize: the success pointer is written before the required publication that
  then fails the run (4069; `docs/OPERATIONS.md:526` "updated only on successful
  runs"); a failure to write metadata still exits with 0 (4554), and leaves a
  short-circuited run with the status "error" in `last_run.json` and no report
  (4036); a run that a
  guardrail has turned into an error is published (4141).
- Publication: a run that is published by hand uploads what later runs have made
  of its outputs (`publish_s3.py:208`); a failed run published by hand becomes
  the last success (`publish_s3.py:678`); the history of runs in the bucket lists
  only runs with a `run_report.json`, which is never uploaded
  (`aws_runs.py:174`), so that this fall back of the baseline finds nothing;
  `verify_published_s3` compares sizes when it is online, so that an old run
  published by hand with outputs of a later one passes when they are as long.
- Run index: two rebuilds share one temporary file, so that a broken index can be
  put in place, although `docs/proof/m13-run-indexing-v1-2026-02-13.md:42` says
  "Rebuild is atomic"; a listing is never refreshed by newer runs while the
  index is readable; an exception of the rebuild that a failed query starts leaves
  the query without the fall back that `docs/ARCHITECTURE.md:150` calls
  "fail-safe".
- Retention: `prune_state.py:118` says "never delete latest snapshot for each
  profile", but the snapshots of other providers and `history/<profile>` are
  found by the same name and sort after every run id; with a provider whose name
  sorts after "history" (mistral, perplexity, replit, scaleai, xai and others) it
  deletes `history/<profile>` with its pointers; equal keys are kept in the order
  of the directory. A pointer of an earlier day may name a run whose pointer is
  pruned, the report that `last_success.json` names may be pruned, and a run
  whose directory `prune_state` removes meanwhile ends as an error.

## 5. Proofs

All proofs are for every value of the constants that satisfies the named
assumption of the module.

**JobStagesProofs, the lock.** `LockTypeCorrect`. Then `LockInv`: the file of a
holder is `{[pid, creator]}` with its own identity, before and after it wrote its
pid, as long as `clobbered` is false. `MutualExclusion` alone is not inductive,
because it does not know what the file says while a run is between creation and
work. From `LockInv` follow `OverlapNeedsUnlink` and `HolderNamedOnFile`, for any
number of runs and hosts. `TwoRunsExclude` and `TwoRunsImplementMutex` add
`TwoInv` for at most two runs on one host: there, a run that has judged a lock
stale finds either the same dead lock or none, because the only other run that
could have created a new one is itself. All of them hold for kills at any step,
whichever pids come back and whichever other programs hold.

**PolitenessProofs.** `TypeCorrect`; `SlotsAreBounded` (`SlotInv`: the
counter is the cardinality of the threads inside the guard, and a thread is
inside in the steps between `Send` and the end of the guard; neither half is
inductive without the other); `CircuitAgrees` (an open circuit has its threshold
of failures: opening and resetting change both under one lock);
`ReservationsAreSpaced`, an action property that only the proof states: two times
reserved one after the other are the delay apart, because only `Reserve` changes
`last`. `RateIsBounded` is `RateBound` for prompt threads, with `RateInv`: what was
sent and what is reserved fits up to the last reservation, and what was sent and
is due by a time fits up to that time, for every time to come (`Fits`). The bound
alone is not inductive, because a thread that wakes up may send at once, and the
second half is about all times because a reservation lies in the future.
`TrafficEnds` is `SendsEndAfterTrip`: `Owed` is the set of attempts that threads may
still make, and what was sent since the circuit opened and what is owed never
exceed the budget together (`Tripped`), as each `Send` takes one attempt out of the
set and nobody is admitted.

**PublishS3Proofs.** `TypeCorrect`, then `Inv`: every publisher's progress
(`Progress(p)`: what it has put in the bucket when it reaches each line), every
artifact of a report exists on disk (`FilesOnDisk`), and the two properties
themselves. The key lemma, `KeptByNext`, says that a whole run stays whole: no
action removes an object or adds a file to a report. `PointersComplete` and
`LatestBacked` are conjuncts of `Inv`. `KeepsThePromise` is the refinement of
`Catalog`, step by step: each action completes one run, moves one pointer, or is a
stutter of `Catalog`; it needs `NothingBeforeReport`, without which a new report
could complete a run with objects that lie there already. `BaselinesResolve` needs
that a report with an output of a key has the ranked one too (`RankedInReports`,
because `score_jobs` writes that one first) and that a pointer of a key is
written for runs that have the key only (`PointersHaveKeys`). `UploadsMatchReports`
and `ContractIsKept` speak of daily runs alone: `LastReport` says that the disk is
as the last report hashed it until the next run scores, `Solo` that, as long as
nobody published by hand, objects hold what the reports hashed (`AsReported`) and
what a run has put in place so far is its own (`InPlace`).

**RunIndexProofs.** `IndexInv`. `GetFinds` follows from `Steady`: the runs that were
whole since the call began are whole, and a run that is whole stays so, so that the
fall back to the directory finds it whatever the index says. `AvailableAlone` needs
three parts: `Solitude` (at most one process rebuilds while one that is alone
does), `OpenWhileFilling` (a file is open only to who fills it), and `Undisturbed` (a
rebuild that is alone finds the file it opened and its own rows in it), so that
none of the exceptions can be its own. `BrokenOnlyByOverlap` says the same of the
file that is put in place.

**RetentionProofs.** `RetentionInv`: `Order` is what a run has written by each line,
with `Unnamed` (a day names a run only after the run has its pointer), from which
`NewestResolves` follows for a kill between any two writes. `OnlyNewerRunsPushOut`
counts: what was pruned had `KeepRuns` later ones when it went (`HistoryLost`,
`LogsLost`), and later runs never become fewer among those that count.
`SparesTheLatest` is about one plan: a selected snapshot has as many others
after it as the limit says, whichever of the admissible orders was taken
(`SelectedHasLater`), and only entries without a run id sort after every run.
`LeastElement` (a finite set of numbers has a least one) comes from the
well-founded order of the finite sets.

**StateEditorsProofs.** `EditorsInv`. `DoctorPasses` rests on `DirsMade`, `ProfileMade`
and `PointersBacked`: a profile, once written, is replaced and never removed, and
a pointer is saved after its artifact. The three losses (`RegistryLossNeedsRace`,
`TextLossIsKnown`, `MarkLossIsKnown`) rest on one idea: what a command holds in memory
is the file as it stands, unless the pair of the two is in `raced` (`RegistryHeld`,
`ProfileHeld`, `MarksHeld`), so that replacing the file by the copy and one change
loses nothing. Every step of a command is shown to start it, to go on with it or
to stop it (`Starts`, `Goes`, `Stops`) and to leave the other commands alone
(`Others`), except that it may mark what they hold (`Marked`).

**ProviderProofs, the scrape.** `Inv` is the type with four facts. `LineInv` says what the
process knows at each line: the mode that led there, and that postings about to
be saved as live are live ones or belong to a denied site. `ContactInv` adds that
whoever was asked or denied has been handled (`Handled`), without which
`OnlyAllowedContacts` is not inductive: a provider could be both. `PacingInv`
rests on `EnvInv`, that a variable named by no provider so far is as the operator
left it, and on lemmas about `Normalized`: an accepted entry gives the delay that
a person reads in it. `OnlyAllowed`, `MislabelBounded`, `ShrinkageFails` and
`PacedAsRead` are conjuncts of `Inv`.

**DailyRunProofs.** `Inv` is the type in parts (`Typed`), `ControlInv` (which
lines go with which request, and that what was scored is a list), `OnRecord`,
`AlertInv` and `ToldInv`. `OnRecord` says what is on record of a run that is not
finalized yet (`UnfinishedInv`), while it is (`FinalInv`) and afterwards
(`RecordInv`); `PointersAreBacked` and `HealthAgrees` follow. For the first,
`Reported` says that what is named was reported, and `ReadableInv` at which lines
the report and the copies of the run under way are whole, so that a health artifact
that can be read is of a run whose report and lists can be read: a step that is cut short either ends the process before that
artifact, or is done again by the second finalization, which copies every list
once more. What `CutShort` may do to each file is a lemma for each. `ToldInv` is the
strengthening of `LostOnlyInKnownWays`, which speaks of the next baseline only:
the next baseline may come from `last_ranked`, from the last success or from an
earlier run directory, and a kill decides which, so that each of them has to hold
told postings at all times (`StateTold`, `BaselineTold`, `EarlierTold`), as have
the run under way (`CurrentTold`) and the one being finalized (`FinalTold`).
`LatestExists` takes the latest of a set of runs from the well-foundedness of the
naturals. `SuccessesAreOne` combines `OnRecord` with what a finalization may
still change, and with `LatestInv`, which relates `history/latest` to the directory
of the run whose copy it holds. `RanksItsScrape` has an invariant of its own, `RankInv`: each
file of a stage holds what was scraped as soon as its stage has passed, and the
older file is not taken because the order of modification times says so.

`ShortCircuitsFresh` is `ShortCircuitAfterSuccessIsFresh`. A short circuit
compares hashes only, so `FreshInv` says what equal hashes imply. Where lists only
grow, the files of openai are in the order in which they were made from one another
(`ListsInOrder`), what was ranked is the enriched file from the moment openai is
scored to the record of a success (`FreshOnceTaken`), and what a success has
recorded is contained in every list written since (`SuccessRecorded`): a list that
is equal to the recorded one has then been the same all the time. `EnrichedThere`
and `AnswersAreNew` carry this over to the AI file. The lemmas `OneFile` and
`OpenaiMoves` say what a single step may do to the files of openai, and every
conjunct is shown from them.

**ProviderProofs, the files.** `Grounds` has three parts. `WellTyped` is the type
with what each program holds at each line. `Sure(e)` says, of a program that
nobody has overtaken, that what it remembers of the configuration, the page and the
pins is what they are; an overlap marks it as overtaken in the step that makes it
false. `EditsAreKept` and `EnabledAreChecked` are about one step each and follow
from it: the copy that is written back is the file with one change. It has to
speak of all programs, as the step of one is what disturbs the memory of another.
`BrokenIsBrought` is for `PinsBreakOnlySo`: a page unlike its pin that is not
excused has a program that will bring the pin (`Brings`), which the property says
of the moment only and the invariant carries along, through the steps of the
others (`OthersBring`) and its own kill, which excuses the page.

**JobStagesProofs, the stages.** All of it is for any site, listings, options,
marks and programs by hand. `Frames` and `Moves` say once what each action leaves
alone and where it takes its process, and the invariants below are proved from
them and the actions that disturb them. `Typed` says what the files hold, what a
process has in hand, and that no program by hand is one of the daily run's own.

- *Rankings.* The order of `RankedBy` is a total one on finite sets of scored
  postings (`BeforeIsOrder`), so that a least one exists (`HasFirst`, by
  well-foundedness of the finite sets) and the sequence that is chosen is
  strictly increasing (`RankedByIs`); deduplication leaves one posting for a key
  (`DedupedIs`), and so a ranking has one entry for each id, before and after the
  boost (`RankingOf`). `PassesRankTheirListing` joins this with `Flowing`: from
  the scrape to the ranking each file of an undisturbed run is about the postings
  of the listing, in the middle of augmentation those that are done and those
  that are left together.
- *Comparisons.* `ComparisonsDoAgree`: what a run compares are sets with one
  posting for an id (`JobSet`), and on these the keys of all six programs are the
  ids (`KeysAreIds`), so that what each of them finds can be said by sets of ids
  (`AddedAre`, `ChangedAre`, `ReportIs`). The safety diff counts groups by a
  fold; `SumCounts` shows that such a sum over a finite set is its cardinality,
  by a smallest subset where it is not; `NoRisk` is the arithmetic of its score.
  `Comparing` carries the comparison from its step to the insights. A run that
  is silent compares nothing, so that of it the theorem speaks of the alerts, by
  the lists that the diff would have taken.
- *Messages.* `KnownWasTold` speaks of the list that the next run would take,
  which a kill chooses, so that `Remembered` has to say it of both, the report
  and `last_ranked`; and between comparison and message nothing is told yet, so
  that `Comparing` says it of what was compared with. `MessageNames` is the step:
  what is new to the key of the message, or changed for its fields, is named or
  excused. `Suppress` is the other way to `last_ranked`: it excuses what it ranked.
- *Caches.* `EmptyBriefsAreOfDisabled` rests on `Filled`: until somebody makes
  briefs without AI, the cache, what is shown and what each program has
  collected so far are full ones. `FetchedTextsStay` rests on `AnsweredAreKept`:
  the cache holds whole answers of all postings whose text was ever sent, through
  the lists without texts that `TextsSkipped` writes; `AnswersStay` on
  `EntriesOnly`, that a program which has read an entry holds one.
- *Reports.* `ReportsAreVerified` rests on `Verified`: `Undisturbed`, that nothing
  but the run itself has changed what it archived and ranked, and `Reported`, that
  the ranking of a report comes out of its input whatever has happened since.
- *Types.* `StagesTypeCorrect` adds to `Typed` that a run past its archive step
  has an archive (`Copies`), and the caches and counters.

Two changes to the model came with these proofs. A run of the briefs is one step
for each posting, as its loop is, so that two programs interleave on the cache;
and the thresholds of the alerts are any integers, as the code admits, for which
one conjunct of `ComparisonsAgree` is false unless the threshold is positive (see
"Messages" in section 4); the property says so.

Proved and checked by no run, because a run would say less: `HolderIsOnFile`,
`MutualExclusion` and `ImplementsMutex`, `CircuitMatchesFailures`,
`ReservationSpacing`, `LatestIsBacked`, `OnlyAllowedContacts`,
`MislabelOnlyAfterDenial`, and the types of the modules.

Only model-checked: the liveness properties (`AloneIsAdmitted`, `CallsEnd`), as
TLAPS does not reason about fairness and `ENABLED`, and the two properties that
the code violates. Every other property of a run is a theorem. No operator is
recursive; where the code sorts, the model chooses the sequence that is in order,
which TLC finds among the sequences of the set and the provers can reason about.

## 6. Not modelled

The content of a posting, of a page and of a message beyond what its length,
points and keys say of it; the parser of `robots.txt` (its answer is a choice);
what the providers extract from a page; chaos mode and the cooldown of
`live_cooldown`; the prompts, the answers of a model beyond their class, the
families and themes of the insights; the in-process pipeline of `pipeline/run.py`,
which the daily run does not use; `--ai_only`; several profiles in one run; the
cache of `semantic/cache.py`, whose key holds the content; the limits, the orders
and the legacy place of the run index; `--profile` of `prune_state`; `--dry-run`,
the job pages and the meta file of `update_snapshots.py`, and provider files
edited by hand; dates and notes of marks; the content types of uploads.

The dashboard, the command line and the tooling for deployments and proof
bundles read files, start other programs or call out, and keep no state.

`PROJECT.json` lists every component with its status and, under `hazards`, the
one that no run watches, with the reason.

## 7. Plan

Done, in this order: lock, politeness, scrape, daily run, publication, run
index, retention; then the editors of candidates, marks and provider files, the
stages with scoring and comparisons, the politeness of an entry, AI and
`--no_enrich` in the daily run, verification and replay; the proofs of `Scrape` and
`DailyRun`; and then those of the run index, the editors of the state directory,
retention, the refinement of `Catalog` with the rest of the publication, the rate
and the traffic of the politeness state, and the short circuit; last, the provider
files and the stages, rankings and comparisons among them.

A run costs minutes of TLC, so the number of runs stays at a dozen: a question
about a module that has a run becomes a setting of it.

Models still possible: `DailyRun` composed with the S3 baseline of `PublishS3` for
deployments without a volume; several profiles in one run.
