----------------------------- MODULE DailyRunProofs -----------------------------
(***************************************************************************)
(* Proofs about DailyRun, for every set of providers and postings, every   *)
(* number of runs and every deployment.                                    *)
(***************************************************************************)
EXTENDS DailyRun, TLAPS

Told(p) == announced[p] \cup dropped[p]
Requested == {request.providers[n] : n \in DOMAIN request.providers}

\* The lines of a run.
PerProvider == {"classify", "enrich", "augment", "score", "alerts", "seen", "diff", "state", "post"}
AfterScore == {"alerts", "seen", "diff", "state", "post"}
ScoringOnly == {"reaugment", "rescore", "restate"}
AfterReport == Finalizing \ {"last_run", "report"}
AfterArchive == {"publish", "history", "health", "return"}
UpToArchive == {"last_run", "report", "pointer", "archive"}

ControlInv ==
    /\ pc = "idle" <=> request = None
    /\ pc \in Finalizing <=> fin # None
    /\ pc # "idle" => run \in Runs /\ exit = None
    /\ pc \in AfterScore => ranked[Current] \in Lists
    /\ pc = "restate" => ranked[Openai] \in Lists
    /\ pc \in PerProvider => ~request.scrape_only
    /\ pc \in ScoringOnly => request.providers = <<Openai>>

\* Nothing of a run is on record before it is finalized, and nothing of a run
\* to come.
UnfinishedInv ==
    /\ \A r \in Runs : r > run =>
          report[r] = None /\ health[r] = None /\ archive[r] = Everywhere(Absent)
    /\ lastSuccess # None => lastSuccess <= run
    /\ pc \in Stages => /\ lastSuccess # run
                        /\ report[run] = None /\ health[run] = None
                        /\ archive[run] = Everywhere(Absent)

\* What _finalize knows of its run at each line.
FinalInv ==
    pc \in Finalizing =>
        /\ fin.given \in {"error", "short_circuit"} => fin.final = fin.given
        /\ pc # "last_run" => lastRun # None /\ lastRun.status = fin.final
        /\ fin.given # "error" =>
              /\ pc \in {"last_run", "report"} => report[run] = None
              /\ pc \in {"last_run", "report", "pointer"} => lastSuccess # run
              /\ pc \in UpToArchive => archive[run] = Everywhere(Absent)
        /\ pc \in AfterReport => report[run] # None
        /\ pc \in {"pointer", "archive", "publish"} => report[run] = fin.final
        /\ pc = "archive" /\ fin.final = "success" => lastSuccess = run

\* What pointers, health artifacts and latest/ in the bucket name was reported.
Reported ==
    /\ lastSuccess # None => report[lastSuccess] # None
    /\ \A r \in history \cup published \cup {s \in Runs : health[s] # None} : report[r] # None

RecordInv ==
    /\ Reported
    /\ pc = "idle" /\ exit = "zero" /\ report[run] # None =>
          lastRun # None /\ lastRun.status \in {"success", "short_circuit"}
    /\ setting.publish # "required" =>
        /\ HealthMatchesReport
        /\ pc \in Finalizing => ~fin.s3_failed
        /\ pc \in Finalizing \ {"return"} => health[run] \in {None, Torn}
        /\ pc \in {"history", "health"} => report[run] = fin.final
        /\ "finalize" \notin Faults =>
              /\ lastSuccess # None => report[lastSuccess] \in {"success", Torn}
              /\ pc \in {"last_run", "report", "pointer"} => lastSuccess # run
              /\ pc \in {"archive", "publish", "history", "health", "return"}
                    => report[run] = fin.final

\* What a run that comes to its health artifact, or to exit code 0, has left is
\* readable: the report is whole at every line after it, and the copies are whole
\* after Archive, because a second finalization copies all of them again.
ReadableInv ==
    /\ \A p \in Providers : ranked[p] # Torn
    /\ pc \in AfterReport => report[run] # Torn
    /\ pc \in Finalizing => \A p \in Providers :
          archive[run][p] = Torn => Copied(Len(request.providers), p)
    /\ pc \in AfterArchive => \A p \in Providers : archive[run][p] # Torn
    /\ \A r \in Runs : health[r] \in {"success", "partial", "failed"} =>
          Readable(r) \/ setting.publish = "required"
    /\ pc = "idle" /\ exit = "zero" => Readable(run)

\* history/latest is of the last run that copied its lists; where that run was a
\* success, it is the last success, and its directory has the same list.
LatestInv ==
    \A p \in Providers :
        /\ latest[p].by # None => latest[p].by <= run
        /\ pc \in Stages => latest[p].by # run
        /\ pc \in UpToArchive /\ fin.given # "error" => latest[p].by # run
        /\ \A r \in Runs : archive[r][p] # Absent => latest[p].by # None /\ latest[p].by >= r
        /\ latest[p].by # None /\ report[latest[p].by] = "success" =>
              /\ lastSuccess # None /\ lastSuccess >= latest[p].by
              /\ archive[latest[p].by][p] \in {Absent, Torn, latest[p].ranked}

AlertInv ==
    /\ AlertsPrecedeLastSeen
    /\ pc = "seen" => ranked[Current] \subseteq alerted[Current]

Settled == \A p \in Requested : ListOf(ranked[p]) \subseteq Told(p)

\* What a provider is about to be told of.
Pending(p) == IF pc = "post" /\ p = Current THEN newJobs ELSE {}

StateTold == \A p \in Providers : ListOf(lastRanked[p]) \subseteq Told(p) \cup Pending(p)

BaselineTold ==
    lastSuccess # None =>
        \A p \in Providers : ListOf(archive[lastSuccess][p]) \subseteq Told(p)

EarlierTold ==
    /\ pc = "scraped" => k = 1
    /\ pc \in PerProvider => \A n \in 1 .. k - 1 :
          ListOf(ranked[request.providers[n]]) \subseteq Told(request.providers[n])

CurrentTold == pc \in {"state", "post"} => ranked[Current] \subseteq Told(Current) \cup newJobs

FinalTold ==
    pc \in Finalizing /\ (fin.final = "success" \/ lastSuccess = run) =>
        request.scrape_only \/ Settled

ToldInv == StateTold /\ BaselineTold /\ EarlierTold /\ CurrentTold /\ FinalTold

-----------------------------------------------------------------------------
(* Type correctness, in parts. *)

OutsideTyped ==
    /\ setting \in Settings
    /\ site \in [Providers -> Lists]
    /\ changes \in 0 .. setting.changes

FilesTyped ==
    /\ raw \in [Providers -> File]
    /\ labeled \in [Providers -> File]
    /\ enriched \in [Providers -> File]
    /\ ranked \in [Providers -> File]
    /\ labeledNewer \in [Providers -> BOOLEAN]

AiTyped ==
    /\ aiFile \in [Providers -> File]
    /\ aiNewer \in [Providers -> BOOLEAN]
    /\ fellBack \in [Providers -> BOOLEAN]

StateTyped ==
    /\ lastRanked \in [Providers -> File]
    /\ lastSeen \in [Providers -> Lists]

RecordsTyped ==
    /\ lastRun \in {None} \cup Telemetries
    /\ lastSuccess \in {None} \cup Runs
    /\ report \in [Runs -> {None, Torn, "success", "short_circuit", "error", "failed"}]
    /\ latest \in [Providers -> [by : {None} \cup Runs, ranked : File]]
    /\ archive \in [Runs -> [Providers -> File]]
    /\ history \in SUBSET Runs
    /\ health \in [Runs -> {None, Torn, "success", "partial", "failed"}]
    /\ published \in SUBSET Runs

ProcessTyped ==
    /\ run \in 0 .. MaxRuns
    /\ request \in {None} \cup Requests
    /\ k \in IF request = None THEN {1} ELSE DOMAIN request.providers
    /\ pc \in {"idle"} \cup Stages \cup Finalizing

MemoryTyped ==
    /\ unavailable \in SUBSET Providers
    /\ newJobs \in Lists
    /\ aiRan \in BOOLEAN
    /\ fin \in {None} \cup Finalization
    /\ exit \in {None, "zero", "nonzero"}

ObservedTyped ==
    /\ announced \in [Providers -> Lists]
    /\ alerted \in [Providers -> Lists]
    /\ dropped \in [Providers -> Lists]

Typed == OutsideTyped /\ FilesTyped /\ AiTyped /\ StateTyped /\ RecordsTyped
         /\ ProcessTyped /\ MemoryTyped /\ ObservedTyped

LEMMA TypedIsTypeOK == Typed <=> TypeOK
BY DEF Typed, TypeOK, OutsideTyped, FilesTyped, AiTyped, StateTyped, RecordsTyped,
       ProcessTyped, MemoryTyped, ObservedTyped

LEMMA RequestTyped ==
    ASSUME DailyRunAssumption, Typed, request # None
    PROVE  /\ request \in Asked /\ request \in Requests
           /\ request.providers \in Seq(Providers)
           /\ DOMAIN request.providers = 1 .. Len(request.providers)
           /\ Len(request.providers) \in Nat \ {0}
           /\ k \in 1 .. Len(request.providers)
           /\ Current \in Providers
           /\ \A m, n \in DOMAIN request.providers :
                 request.providers[m] = request.providers[n] => m = n
<1>1. request \in Requests /\ setting \in Settings
  BY DEF Typed, OutsideTyped, ProcessTyped
<1>2. /\ request \in Asked /\ Len(request.providers) > 0
      /\ \A m, n \in DOMAIN request.providers :
            request.providers[m] = request.providers[n] => m = n
  BY <1>1 DEF DailyRunAssumption, Requests
<1>3. request.providers \in Seq(Providers)
  BY <1>2 DEF Asked
<1>4. k \in DOMAIN request.providers
  BY DEF Typed, ProcessTyped
<1> QED
  BY <1>1, <1>2, <1>3, <1>4 DEF Current

\* What an action leaves alone keeps its type.
LEMMA TypedFrame ==
    ASSUME Typed
    PROVE  /\ UNCHANGED outside => OutsideTyped'
           /\ UNCHANGED <<raw, labeled, enriched, ranked, labeledNewer>> => FilesTyped'
           /\ UNCHANGED aiState => AiTyped'
           /\ UNCHANGED <<lastRanked, lastSeen>> => StateTyped'
           /\ UNCHANGED records => RecordsTyped'
           /\ UNCHANGED setting /\ UNCHANGED <<run, request, k, pc>> => ProcessTyped'
           /\ UNCHANGED <<memory, exit>> => MemoryTyped'
           /\ UNCHANGED observed => ObservedTyped'
<1>1. UNCHANGED outside => OutsideTyped'
  BY DEF Typed, OutsideTyped, outside
<1>2. UNCHANGED <<raw, labeled, enriched, ranked, labeledNewer>> => FilesTyped'
  BY DEF Typed, FilesTyped
<1>3. UNCHANGED aiState => AiTyped'
  BY DEF Typed, AiTyped, aiState
<1>4. UNCHANGED <<lastRanked, lastSeen>> => StateTyped'
  BY DEF Typed, StateTyped
<1>5. UNCHANGED records => RecordsTyped'
  BY DEF Typed, RecordsTyped, records
<1>6. UNCHANGED setting /\ UNCHANGED <<run, request, k, pc>> => ProcessTyped'
  BY DEF Typed, ProcessTyped, Requests
<1>7. UNCHANGED <<memory, exit>> => MemoryTyped'
  BY DEF Typed, MemoryTyped, memory
<1>8. UNCHANGED observed => ObservedTyped'
  BY DEF Typed, ObservedTyped, observed
<1> QED
  BY <1>1, <1>2, <1>3, <1>4, <1>5, <1>6, <1>7, <1>8

\* A run goes on to another line.
LEMMA ProcessStep ==
    ASSUME Typed, UNCHANGED <<setting, run, request>>,
           k' = k \/ (request # None /\ k' \in DOMAIN request.providers),
           pc' \in {"idle"} \cup Stages \cup Finalizing
    PROVE  ProcessTyped'
BY DEF Typed, ProcessTyped, Requests

LEMMA LeaveTyped ==
    ASSUME Typed, UNCHANGED <<setting, run>>, NEW code \in {None, "zero", "nonzero"}, Leave(code)
    PROVE  ProcessTyped' /\ MemoryTyped'
<1>1. ProcessTyped'
  BY DEF Typed, ProcessTyped, Leave
<1>2. MemoryTyped'
  BY DEF MemoryTyped, Leave, Lists
<1> QED
  BY <1>1, <1>2

LEMMA EnteringTyped ==
    ASSUME NEW status \in Statuses
    PROVE  Entering(status) \in Finalization
BY DEF Entering, Finalization

LEMMA HashesTyped ==
    ASSUME DailyRunAssumption, Typed, NEW status \in Statuses
    PROVE  /\ CurrentHashes \in Hashes
           /\ Telemetry(status) \in Telemetries
<1>1. Openai \in Providers
  BY DEF DailyRunAssumption
<1>2. CurrentHashes \in Hashes
  BY <1>1 DEF CurrentHashes, Hashes, Typed, FilesTyped
<1>3. aiRan \in BOOLEAN /\ aiFile[Openai] \in File
  BY <1>1 DEF Typed, MemoryTyped, AiTyped
<1> QED
  BY <1>2, <1>3 DEF Telemetry, Telemetries

\* Copies are of lists that are there, and each may be cut.
LEMMA Copies ==
    ASSUME DailyRunAssumption, Typed, request # None,
           NEW n \in DOMAIN request.providers, NEW cut
    PROVE  /\ \A p : CopyOf(n, cut, p) \in {ranked[p], Torn} /\ CopyOf(n, FALSE, p) = ranked[p]
           /\ \A p : Copied(n, p) => /\ Copied(Len(request.providers), p)
                                    /\ p \in Requested /\ ranked[p] # Absent
           /\ \A p \in Providers : CopyOf(n, cut, p) \in File
<1>1. \A p : CopyOf(n, cut, p) \in {ranked[p], Torn} /\ CopyOf(n, FALSE, p) = ranked[p]
  BY DEF CopyOf
<1>2. ASSUME NEW p, Copied(n, p)
      PROVE  Copied(Len(request.providers), p) /\ p \in Requested /\ ranked[p] # Absent
  <2>1. PICK m \in 1 .. n : request.providers[m] = p
    BY <1>2 DEF Copied
  <2>2. DOMAIN request.providers = 1 .. Len(request.providers) /\ Len(request.providers) \in Nat
    BY RequestTyped
  <2>3. m \in 1 .. Len(request.providers)
    BY <2>2
  <2> QED
    BY <1>2, <2>1, <2>2, <2>3 DEF Copied, Requested
<1>3. \A p \in Providers : CopyOf(n, cut, p) \in File
  BY <1>1 DEF Typed, FilesTyped, File
<1> QED
  BY <1>1, <1>2, <1>3

\* What copying the first lists of a run to history/latest changes.
LEMMA CopyingToLatest ==
    ASSUME DailyRunAssumption, Typed, run \in Runs, request # None,
           NEW n \in DOMAIN request.providers, NEW cut, CopyToLatest(n, cut)
    PROVE  /\ latest' \in [Providers -> [by : {None} \cup Runs, ranked : File]]
           /\ \A p \in Providers :
                 IF Copied(n, p)
                 THEN latest'[p].by = run /\ latest'[p].ranked = CopyOf(n, cut, p)
                 ELSE latest'[p] = latest[p]
<1>1. \A p \in Providers : CopyOf(n, cut, p) \in File
  BY Copies
<1> QED
  BY <1>1 DEF CopyToLatest, Typed, RecordsTyped

\* What copying them to the directory of the run changes.
LEMMA CopyingToArchive ==
    ASSUME DailyRunAssumption, Typed, run \in Runs, request # None,
           NEW n \in DOMAIN request.providers, NEW cut, CopyToArchive(n, cut)
    PROVE  /\ archive' \in [Runs -> [Providers -> File]]
           /\ \A r \in Runs \ {run} : archive'[r] = archive[r]
           /\ \A p \in Providers :
                 archive'[run][p] = IF Copied(n, p) THEN CopyOf(n, cut, p) ELSE archive[run][p]
<1> DEFINE copied == [p \in Providers |->
                         IF Copied(n, p) THEN CopyOf(n, cut, p) ELSE archive[run][p]]
<1>1. archive' = [archive EXCEPT ![run] = copied]
  BY DEF CopyToArchive
<1>2. archive \in [Runs -> [Providers -> File]]
  BY DEF Typed, RecordsTyped
<1>3. \A p \in Providers : CopyOf(n, cut, p) \in File
  BY Copies
<1>4. copied \in [Providers -> File] /\ \A p \in Providers :
          copied[p] = IF Copied(n, p) THEN CopyOf(n, cut, p) ELSE archive[run][p]
  BY <1>2, <1>3
<1> HIDE DEF copied
<1> QED
  BY <1>1, <1>2, <1>4

\* Telemetry is replaced, never torn.
LEMMA LastRunOnCut ==
    ASSUME CutShort
    PROVE  lastRun' = lastRun
BY DEF CutShort

\* What a step of _finalize cut short has changed, and what it has not.
LEMMA CutShortLeaves ==
    ASSUME DailyRunAssumption, Typed, ControlInv, pc # "idle", CutShort
    PROVE  /\ RecordsTyped'
           /\ \A r \in Runs \ {run} : report'[r] = report[r] /\ health'[r] = health[r]
                                     /\ archive'[r] = archive[r]
           /\ report'[run] = report[run]
                \/ (report'[run] = Torn /\ pc \in {"report", "publish", "history"})
           /\ health'[run] = health[run] \/ (health'[run] = Torn /\ pc = "health")
           /\ history' = history \/ (history' \subseteq history \cup {run} /\ pc = "history")
           /\ published' = published \/ (published' \subseteq published \cup {run} /\ pc = "publish")
           /\ lastRun' = lastRun /\ lastSuccess' = lastSuccess /\ run \in Runs
           /\ pc # "archive" => latest' = latest /\ archive' = archive
           /\ pc = "archive" =>
                 \/ latest' = latest /\ archive' = archive
                 \/ \E n \in DOMAIN request.providers, cut \in BOOLEAN :
                       \/ CopyToLatest(n, cut) /\ archive' = archive
                       \/ CopyToLatest(Len(request.providers), FALSE) /\ CopyToArchive(n, cut)
           /\ dropped' = CASE pc = "post"         -> Lose(Current, newJobs)
                           [] archive' # archive -> ArchivedOnly
                           [] OTHER              -> dropped
           /\ \/ UNCHANGED records
              \/ pc \in {"report", "archive", "publish", "history", "health"}
<1>1. run \in Runs /\ request # None
  BY DEF ControlInv
<1>2. /\ report' = report \/ (report' = TornReport /\ pc \in {"report", "publish", "history"})
      /\ \/ health' = health
         \/ health' = [health EXCEPT ![run] = Torn] /\ pc = "health"
      /\ history' = history \/ (history' = HistoryWith /\ pc = "history")
      /\ published' = published \/ (published' \subseteq published \cup {run} /\ pc = "publish")
      /\ lastRun' = lastRun /\ lastSuccess' = lastSuccess
      /\ pc # "archive" => latest' = latest /\ archive' = archive
      /\ pc = "archive" =>
            \/ latest' = latest /\ archive' = archive
            \/ \E n \in DOMAIN request.providers, cut \in BOOLEAN :
                  \/ CopyToLatest(n, cut) /\ archive' = archive
                  \/ CopyToLatest(Len(request.providers), FALSE) /\ CopyToArchive(n, cut)
  BY DEF CutShort
<1>3. dropped' = CASE pc = "post"         -> Lose(Current, newJobs)
                   [] archive' # archive -> ArchivedOnly
                   [] OTHER              -> dropped
  BY DEF CutShort
<1>4. /\ report' \in [Runs -> {None, Torn, "success", "short_circuit", "error", "failed"}]
      /\ \A r \in Runs \ {run} : report'[r] = report[r]
      /\ report'[run] = report[run]
            \/ (report'[run] = Torn /\ pc \in {"report", "publish", "history"})
  BY <1>1, <1>2 DEF TornReport, Typed, RecordsTyped
<1>5. /\ health' \in [Runs -> {None, Torn, "success", "partial", "failed"}]
      /\ \A r \in Runs \ {run} : health'[r] = health[r]
      /\ health'[run] = health[run] \/ (health'[run] = Torn /\ pc = "health")
  BY <1>1, <1>2 DEF Typed, RecordsTyped
<1>6. history' = history \/ (history' \subseteq history \cup {run} /\ pc = "history")
  BY <1>2 DEF HistoryWith
<1>7. /\ latest' \in [Providers -> [by : {None} \cup Runs, ranked : File]]
      /\ archive' \in [Runs -> [Providers -> File]]
      /\ \A r \in Runs \ {run} : archive'[r] = archive[r]
  <2>1. CASE latest' = latest /\ archive' = archive
    BY <2>1 DEF Typed, RecordsTyped
  <2>2. ASSUME NEW n \in DOMAIN request.providers, NEW cut \in BOOLEAN,
               \/ CopyToLatest(n, cut) /\ archive' = archive
               \/ CopyToLatest(Len(request.providers), FALSE) /\ CopyToArchive(n, cut)
        PROVE  /\ latest' \in [Providers -> [by : {None} \cup Runs, ranked : File]]
               /\ archive' \in [Runs -> [Providers -> File]]
               /\ \A r \in Runs \ {run} : archive'[r] = archive[r]
    <3>1. Len(request.providers) \in DOMAIN request.providers
      BY <1>1, RequestTyped
    <3>2. CopyToLatest(n, cut) \/ CopyToLatest(Len(request.providers), FALSE) =>
              latest' \in [Providers -> [by : {None} \cup Runs, ranked : File]]
      BY <1>1, <3>1, CopyingToLatest
    <3>3. CopyToArchive(n, cut) => /\ archive' \in [Runs -> [Providers -> File]]
                                   /\ \A r \in Runs \ {run} : archive'[r] = archive[r]
      BY <1>1, CopyingToArchive
    <3> QED
      BY <2>2, <3>2, <3>3 DEF Typed, RecordsTyped
  <2> QED
    BY <1>2, <2>1, <2>2
<1>8. RecordsTyped'
  BY <1>1, <1>2, <1>4, <1>5, <1>6, <1>7 DEF RecordsTyped, Typed
<1>9. UNCHANGED records \/ pc \in {"report", "archive", "publish", "history", "health"}
  BY DEF CutShort, records
<1> QED
  BY <1>1, <1>2, <1>3, <1>4, <1>5, <1>6, <1>7, <1>8, <1>9

LEMMA ArchivedTyped ==
    ASSUME Typed
    PROVE  ArchivedOnly \in [Providers -> Lists]
<1>1. \A p \in Providers : ListOf(ranked[p]) \in Lists
  BY DEF ListOf, Typed, FilesTyped, File, Lists
<1>2. [p \in Providers |-> dropped[p] \cup ListOf(ranked[p])] \in [Providers -> Lists]
  BY <1>1 DEF Typed, ObservedTyped, Lists
<1> QED
  BY <1>2 DEF ArchivedOnly, Typed, ObservedTyped

LEMMA CutShortTyped ==
    ASSUME DailyRunAssumption, Typed, ControlInv, pc # "idle", CutShort,
           UNCHANGED <<announced, alerted>>
    PROVE  RecordsTyped' /\ ObservedTyped'
<1>1. Lose(Current, newJobs) \in [Providers -> Lists]
  BY DEF Lose, Typed, ObservedTyped, MemoryTyped, Lists
<1>2. dropped' \in [Providers -> Lists]
  BY <1>1, CutShortLeaves, ArchivedTyped DEF Typed, ObservedTyped
<1> QED
  BY <1>2, CutShortLeaves DEF Typed, ObservedTyped

LEMMA TypedStep ==
    ASSUME DailyRunAssumption, Typed, ControlInv, FinalInv, [Next]_vars
    PROVE  Typed'
<1>1. Openai \in Providers /\ None \notin Nat
  BY DEF DailyRunAssumption
<1>2. pc # "idle" => request # None /\ Current \in Providers
  BY RequestTyped DEF ControlInv
<1>3. ASSUME NEW q \in Requests, Start(q) \/ SnapshotMissing(q)
      PROVE  Typed'
  <2>1. MaxRuns \in Nat /\ run' = run + 1 /\ run < MaxRuns /\ run \in 0 .. MaxRuns
    BY <1>3 DEF Start, SnapshotMissing, Typed, ProcessTyped, DailyRunAssumption
  <2>2. k = 1 /\ k' = 1 /\ request' = q /\ setting' = setting
    BY <1>3 DEF Start, SnapshotMissing, Typed, ProcessTyped, ControlInv, outside
  <2>3. 1 \in DOMAIN q.providers
    <3>1. q \in Asked /\ Len(q.providers) > 0
      BY <1>3 DEF DailyRunAssumption, Typed, OutsideTyped, Requests
    <3> QED
      BY <3>1 DEF Asked
  <2>4. pc' \in Stages \cup Finalizing
    BY <1>3 DEF Start, SnapshotMissing, Stages, Finalizing
  <2>5. ProcessTyped'
    BY <1>3, <2>1, <2>2, <2>3, <2>4 DEF ProcessTyped, Requests
  <2>6. fin' \in {None} \cup Finalization
    BY <1>3, EnteringTyped DEF Start, SnapshotMissing, Statuses
  <2>7. MemoryTyped'
    BY <1>3, <2>6 DEF Start, SnapshotMissing, Typed, MemoryTyped
  <2> QED
    BY <1>3, <2>5, <2>7, TypedFrame
       DEF Start, SnapshotMissing, Typed, files, state
<1>4. CASE ScrapeOne
  <2>1. request # None /\ Current \in Providers /\ pc = "scrape"
    BY <1>2, <1>4 DEF ScrapeOne
  <2>2. FilesTyped'
    <3>1. \A jobs \in Lists : [raw EXCEPT ![Current] = jobs] \in [Providers -> File]
      BY DEF Typed, FilesTyped, File
    <3>2. site[Current] \in Lists /\ {} \in Lists
      BY <2>1 DEF Typed, OutsideTyped, Lists
    <3> QED
      BY <1>4, <3>1, <3>2 DEF ScrapeOne, Typed, FilesTyped
  <2>3. ProcessTyped'
    <3>1. k \in 1 .. Len(request.providers) /\ Len(request.providers) \in Nat \ {0}
          /\ DOMAIN request.providers = 1 .. Len(request.providers)
      BY <2>1, RequestTyped
    <3>2. k' \in DOMAIN request.providers
      BY <1>4, <3>1 DEF ScrapeOne, IsLast
    <3>3. pc' \in Stages
      BY <1>4 DEF ScrapeOne, Stages
    <3> QED
      BY <1>4, <2>1, <3>2, <3>3, ProcessStep DEF ScrapeOne, outside
  <2>4. MemoryTyped'
    BY <1>4, <2>1 DEF ScrapeOne, Typed, MemoryTyped
  <2> QED
    BY <1>4, <2>2, <2>3, <2>4, TypedFrame DEF ScrapeOne, Typed, state
<1>5. CASE AfterScrape
  <2>1. ProcessTyped'
    BY <1>5, ProcessStep DEF AfterScrape, outside, Stages, Finalizing
  <2>2. MemoryTyped'
    BY <1>5, EnteringTyped DEF AfterScrape, Typed, MemoryTyped, Statuses
  <2> QED
    BY <1>5, <2>1, <2>2, TypedFrame DEF AfterScrape, Typed, files, state
<1>6. CASE Classify
  <2>1. Current \in Providers
    BY <1>2, <1>6 DEF Classify
  <2>2. FilesTyped'
    BY <1>6, <2>1 DEF Classify, Typed, FilesTyped
  <2>3. ProcessTyped'
    BY <1>6, ProcessStep DEF Classify, AfterEnrich, outside, Stages
  <2> QED
    BY <1>6, <2>2, <2>3, TypedFrame DEF Classify, Typed, state
<1>7. CASE Enrich
  <2>1. Current \in Providers
    BY <1>2, <1>7 DEF Enrich
  <2>2. FilesTyped'
    BY <1>7, <2>1 DEF Enrich, Typed, FilesTyped
  <2>3. ProcessTyped'
    BY <1>7, ProcessStep DEF Enrich, AfterEnrich, outside, Stages
  <2> QED
    BY <1>7, <2>2, <2>3, TypedFrame DEF Enrich, Typed, state
<1>8. CASE Augment
  <2>1. Current \in Providers
    BY <1>2, <1>8 DEF Augment
  <2>2. AiTyped'
    BY <1>1, <1>8, <2>1 DEF Augment, Typed, AiTyped, FilesTyped
  <2>3. ProcessTyped'
    BY <1>8, ProcessStep DEF Augment, outside, Stages
  <2>4. MemoryTyped'
    BY <1>8 DEF Augment, Typed, MemoryTyped
  <2> QED
    BY <1>8, <2>2, <2>3, <2>4, TypedFrame DEF Augment, Typed, state
<1>9. CASE Score
  <2>1. Scored \in Providers
    BY <1>1, <1>2, <1>9 DEF Score, Scored
  <2>2. ScoreInput(Scored) \in File
    BY <2>1 DEF ScoreInput, ContentOf, InputFile, Typed, FilesTyped, AiTyped
  <2>3. PICK kept \in IF request.us_only THEN SUBSET ScoreInput(Scored) ELSE {ScoreInput(Scored)} :
            LET falls_back == kept = {} /\ ScoreInput(Scored) # {} IN
             /\ ranked' = [ranked EXCEPT ![Scored] = IF falls_back THEN ScoreInput(Scored) ELSE kept]
             /\ fellBack' = [fellBack EXCEPT ![Scored] = @ \/ falls_back]
    BY <1>9 DEF Score
  <2>4. ScoreInput(Scored) \in Lists /\ kept \in Lists
    BY <1>9, <2>2 DEF Score, File, Lists
  <2>5. FilesTyped'
    BY <1>9, <2>3, <2>4 DEF Score, Typed, FilesTyped, File
  <2>6. AiTyped'
    BY <1>9, <2>3 DEF Score, Typed, AiTyped
  <2>7. ProcessTyped'
    BY <1>9, ProcessStep DEF Score, outside, Stages
  <2> QED
    BY <1>9, <2>5, <2>6, <2>7, TypedFrame DEF Score, Typed, state
<1>10. CASE WriteAlerts
  <2>1. Current \in Providers /\ ranked[Current] \in Lists
    BY <1>2, <1>10 DEF WriteAlerts, ControlInv, AfterScore
  <2>2. ObservedTyped'
    BY <1>10, <2>1 DEF WriteAlerts, Typed, ObservedTyped, Lists
  <2>3. ProcessTyped'
    BY <1>10, ProcessStep DEF WriteAlerts, outside, Stages
  <2> QED
    BY <1>10, <2>2, <2>3, TypedFrame DEF WriteAlerts, Typed, files, state
<1>11. CASE WriteLastSeen
  <2>1. Current \in Providers /\ ranked[Current] \in Lists
    BY <1>2, <1>11 DEF WriteLastSeen, ControlInv, AfterScore
  <2>2. StateTyped'
    BY <1>11, <2>1 DEF WriteLastSeen, Typed, StateTyped
  <2>3. ProcessTyped'
    BY <1>11, ProcessStep DEF WriteLastSeen, outside, Stages
  <2> QED
    BY <1>11, <2>2, <2>3, TypedFrame DEF WriteLastSeen, Typed, files
<1>12. CASE Diff \/ SuppressDiff
  <2>1. Current \in Providers /\ ranked[Current] \in Lists
    BY <1>2, <1>12 DEF Diff, SuppressDiff, ControlInv, AfterScore
  <2>2. newJobs' \in Lists /\ \A jobs : Lose(Current, ranked[Current] \cap jobs) \in [Providers -> Lists]
    BY <1>12, <2>1 DEF Diff, SuppressDiff, Lose, Typed, ObservedTyped, Lists
  <2>3. Lose(Current, ranked[Current]) \in [Providers -> Lists]
    BY <2>1 DEF Lose, Typed, ObservedTyped, Lists
  <2>4. ObservedTyped'
    BY <1>12, <2>2, <2>3 DEF Diff, SuppressDiff, Typed, ObservedTyped
  <2>5. MemoryTyped'
    BY <1>12, <2>2 DEF Diff, SuppressDiff, Typed, MemoryTyped
  <2>6. ProcessTyped'
    BY <1>12, ProcessStep DEF Diff, SuppressDiff, outside, Stages
  <2> QED
    BY <1>12, <2>4, <2>5, <2>6, TypedFrame DEF Diff, SuppressDiff, Typed, files, state
<1>13. CASE WriteState
  <2>1. Current \in Providers
    BY <1>2, <1>13 DEF WriteState
  <2>2. StateTyped'
    BY <1>1, <1>13, <2>1 DEF WriteState, Typed, StateTyped, FilesTyped
  <2>3. pc = "restate" => ranked[Openai] \in Lists
    BY DEF ControlInv
  <2>4. ObservedTyped'
    BY <1>1, <1>13, <2>3 DEF WriteState, Lose, Typed, ObservedTyped, Lists
  <2>5. MemoryTyped'
    BY <1>13, EnteringTyped DEF WriteState, Typed, MemoryTyped, Statuses
  <2>6. ProcessTyped'
    BY <1>13, ProcessStep DEF WriteState, outside, Stages, Finalizing
  <2> QED
    BY <1>13, <2>2, <2>4, <2>5, <2>6, TypedFrame DEF WriteState, Typed, files
<1>14. CASE Announce \/ NotAnnounced
  <2>1. request # None /\ Current \in Providers /\ newJobs \in Lists
    BY <1>2, <1>14 DEF Announce, NotAnnounced, Typed, MemoryTyped
  <2>2. ObservedTyped'
    BY <1>14, <2>1 DEF Announce, NotAnnounced, NextProvider, Lose, Typed, ObservedTyped, Lists
  <2>3. MemoryTyped'
    BY <1>14, EnteringTyped
       DEF Announce, NotAnnounced, NextProvider, Typed, MemoryTyped, Statuses, Lists
  <2>4. ProcessTyped'
    <3>1. k \in 1 .. Len(request.providers) /\ Len(request.providers) \in Nat \ {0}
          /\ DOMAIN request.providers = 1 .. Len(request.providers)
      BY <2>1, RequestTyped
    <3>2. k' \in DOMAIN request.providers
      BY <1>14, <3>1 DEF Announce, NotAnnounced, NextProvider, IsLast
    <3>3. pc' \in Stages \cup Finalizing
      BY <1>14 DEF Announce, NotAnnounced, NextProvider, Stages, Finalizing
    <3> QED
      BY <1>14, <2>1, <3>2, <3>3, ProcessStep DEF Announce, NotAnnounced, NextProvider, outside
  <2> QED
    BY <1>14, <2>2, <2>3, <2>4, TypedFrame
       DEF Announce, NotAnnounced, NextProvider, Typed, files, state
<1>15. CASE StageFails
  <2>1. aiRan' \in BOOLEAN
    BY <1>15 DEF StageFails, Typed, MemoryTyped
  <2>2. MemoryTyped'
    BY <1>15, <2>1, EnteringTyped DEF StageFails, Typed, MemoryTyped, Statuses
  <2>3. ProcessTyped'
    BY <1>15, ProcessStep DEF StageFails, outside, Finalizing
  <2> QED
    BY <1>15, <2>2, <2>3, TypedFrame DEF StageFails, Typed, files, state
<1>16. pc \in Finalizing => fin \in Finalization
  BY DEF Typed, MemoryTyped, ControlInv
<1>17. CASE WriteLastRun
  <2>1. fin \in Finalization
    BY <1>16, <1>17 DEF WriteLastRun, Finalizing
  <2>2. PICK over \in BOOLEAN :
            LET status == IF over THEN "error" ELSE fin.final IN
            /\ fin' = [fin EXCEPT !.final = status]
            /\ lastRun' = Telemetry(status)
    BY <1>17 DEF WriteLastRun
  <2> DEFINE status == IF over THEN "error" ELSE fin.final
  <2>3. status \in Statuses
    BY <2>1 DEF Finalization, Statuses
  <2> HIDE DEF status
  <2>4. fin' \in Finalization
    BY <2>1, <2>2, <2>3 DEF Finalization, status
  <2>5. RecordsTyped'
    BY <1>17, <2>2, <2>3, HashesTyped DEF WriteLastRun, Typed, RecordsTyped, status
  <2>6. MemoryTyped'
    BY <1>17, <2>4 DEF WriteLastRun, Remain, Typed, MemoryTyped
  <2>7. ProcessTyped'
    BY <1>17, ProcessStep DEF WriteLastRun, Remain, outside, Finalizing
  <2> QED
    BY <1>17, <2>5, <2>6, <2>7, TypedFrame DEF WriteLastRun, Typed, files
<1>18. CASE MetadataFails
  <2>0. lastRun \in Telemetries
    BY <1>18 DEF MetadataFails, FinalInv, Finalizing, Typed, RecordsTyped
  <2>1. RecordsTyped'
    <3>1. [lastRun EXCEPT !.status = "error"] \in Telemetries
      BY <2>0 DEF Statuses, Telemetries
    <3> QED
      BY <1>18, <3>1 DEF MetadataFails, Typed, RecordsTyped
  <2>2. ExitCode([fin EXCEPT !.final = "error"]) \in {"zero", "nonzero"}
    BY DEF ExitCode
  <2>3. ProcessTyped' /\ MemoryTyped'
    BY <1>18, <2>2, LeaveTyped DEF MetadataFails, outside
  <2> QED
    BY <1>18, <2>1, <2>3, TypedFrame DEF MetadataFails, Typed, files
<1>19. CASE PersistReport
  <2>1. run \in Runs /\ fin.final \in Statuses
    BY <1>16, <1>19 DEF PersistReport, ControlInv, Finalizing, Finalization
  <2>2. RecordsTyped'
    BY <1>19, <2>1 DEF PersistReport, Typed, RecordsTyped, Statuses
  <2>3. ProcessTyped'
    BY <1>19, ProcessStep DEF PersistReport, outside, Finalizing
  <2> QED
    BY <1>19, <2>2, <2>3, TypedFrame DEF PersistReport, Typed, files
<1>20. CASE WritePointer
  <2>1. run \in Runs
    BY <1>20 DEF WritePointer, ControlInv
  <2>2. RecordsTyped'
    BY <1>20, <2>1 DEF WritePointer, Typed, RecordsTyped
  <2>3. ProcessTyped'
    BY <1>20, ProcessStep DEF WritePointer, outside, Finalizing
  <2> QED
    BY <1>20, <2>2, <2>3, TypedFrame DEF WritePointer, Typed, files
<1>21. CASE Archive
  <2>1. run \in Runs /\ Len(request.providers) \in DOMAIN request.providers /\ request # None
    BY <1>2, <1>21, RequestTyped DEF Archive, ControlInv
  <2>2. RecordsTyped'
    BY <1>21, <2>1, CopyingToLatest, CopyingToArchive DEF Archive, Typed, RecordsTyped
  <2>3. ObservedTyped'
    BY <1>21, ArchivedTyped DEF Archive, Typed, ObservedTyped
  <2>4. ProcessTyped'
    BY <1>21, ProcessStep DEF Archive, outside, Finalizing
  <2> QED
    BY <1>21, <2>2, <2>3, <2>4, TypedFrame DEF Archive, Typed, files
<1>22. CASE PublishRun
  <2>1. run \in Runs /\ fin \in Finalization
    BY <1>16, <1>22 DEF PublishRun, ControlInv, Finalizing
  <2>2. published' \in SUBSET Runs
    BY <1>22, <2>1 DEF PublishRun, Typed, RecordsTyped
  <2>3. report' \in [Runs -> {None, Torn, "success", "short_circuit", "error", "failed"}]
    BY <1>22 DEF PublishRun, Typed, RecordsTyped
  <2>4. \A s3 \in {"ok", "error"}, failed \in BOOLEAN :
            [fin EXCEPT !.s3 = s3, !.s3_failed = failed] \in Finalization
    BY <2>1 DEF Finalization
  <2>5. fin' \in Finalization
    <3>1. \A uploaded \in BOOLEAN : (IF uploaded THEN "ok" ELSE "error") \in {"ok", "error"}
      OBVIOUS
    <3> QED
      BY <1>22, <2>1, <2>4, <3>1 DEF PublishRun
  <2>6. RecordsTyped'
    BY <1>22, <2>2, <2>3 DEF PublishRun, Typed, RecordsTyped
  <2>7. MemoryTyped'
    BY <1>22, <2>5 DEF PublishRun, Remain, Typed, MemoryTyped
  <2>8. ProcessTyped'
    BY <1>22, ProcessStep DEF PublishRun, Remain, outside, Finalizing
  <2> QED
    BY <1>22, <2>6, <2>7, <2>8, TypedFrame DEF PublishRun, Typed, files
<1>23. CASE KeepHistory
  <2>1. RecordsTyped'
    BY <1>23 DEF KeepHistory, HistoryWith, ControlInv, Typed, RecordsTyped
  <2>2. ProcessTyped'
    BY <1>23, ProcessStep DEF KeepHistory, outside, Finalizing
  <2> QED
    BY <1>23, <2>1, <2>2, TypedFrame DEF KeepHistory, Typed, files
<1>24. CASE WriteHealth
  <2>1. HealthOf(fin) \in {"success", "partial", "failed"}
    BY DEF HealthOf
  <2>2. RecordsTyped'
    BY <1>24, <2>1 DEF WriteHealth, Typed, RecordsTyped
  <2>3. ProcessTyped'
    BY <1>24, ProcessStep DEF WriteHealth, outside, Finalizing
  <2> QED
    BY <1>24, <2>2, <2>3, TypedFrame DEF WriteHealth, Typed, files
<1>25. CASE Return \/ FinalizeRaises
  <2>1. ExitCode(fin) \in {"zero", "nonzero"}
    BY DEF ExitCode
  <2>2. ASSUME Leave(ExitCode(fin)) \/ Leave("nonzero")
        PROVE  ProcessTyped' /\ MemoryTyped'
    BY <1>25, <2>1, <2>2, LeaveTyped DEF Return, FinalizeRaises, outside
  <2>3. ASSUME pc' = "last_run", fin' = Entering("error"), Remain
        PROVE  ProcessTyped' /\ MemoryTyped'
    <3>1. ProcessTyped'
      BY <1>25, <2>3, ProcessStep DEF Return, FinalizeRaises, Remain, outside, Finalizing
    <3>2. MemoryTyped'
      BY <2>3, EnteringTyped DEF Remain, Typed, MemoryTyped, Statuses
    <3> QED
      BY <3>1, <3>2
  <2>4. ProcessTyped' /\ MemoryTyped'
    BY <1>25, <2>2, <2>3 DEF Return, FinalizeRaises
  <2>5. RecordsTyped' /\ ObservedTyped'
    BY <1>25, CutShortTyped, TypedFrame DEF Return, FinalizeRaises, Finalizing, state
  <2> QED
    BY <1>25, <2>4, <2>5, TypedFrame DEF Return, FinalizeRaises, Typed, files, state
<1>26. CASE Crash
  <2>1. Current \in Providers
    BY <1>2, <1>26 DEF Crash
  <2>2. ProcessTyped' /\ MemoryTyped'
    BY <1>26, LeaveTyped DEF Crash, outside
  <2>3. \A file \in [Providers -> File], p \in Providers :
            [file EXCEPT ![p] = Torn] \in [Providers -> File]
    BY DEF File
  <2>4. raw' \in [Providers -> File] /\ labeled' \in [Providers -> File]
        /\ enriched' \in [Providers -> File]
    BY <1>26, <2>1, <2>3 DEF Crash, Typed, FilesTyped
  <2>5. labeledNewer' \in [Providers -> BOOLEAN]
    BY <1>26 DEF Crash, Typed, FilesTyped
  <2>6. FilesTyped'
    BY <1>26, <2>4, <2>5 DEF Crash, Typed, FilesTyped
  <2>7. lastRanked' \in [Providers -> File]
    BY <1>1, <1>26, <2>1, <2>3 DEF Crash, Typed, StateTyped
  <2>8. lastSeen' \in [Providers -> Lists]
    BY <1>26, <2>1 DEF Crash, Typed, StateTyped, Lists
  <2>9. RecordsTyped' /\ ObservedTyped'
    BY <1>26, CutShortTyped DEF Crash
  <2> QED
    BY <1>26, <2>2, <2>6, <2>7, <2>8, <2>9, TypedFrame DEF Crash, Typed, StateTyped
<1>27. ASSUME NEW p \in Providers, NEW listed \in Lists, SiteChanges(p, listed)
       PROVE  Typed'
  <2>1. setting.changes \in Nat /\ changes \in 0 .. setting.changes
    BY DEF Typed, OutsideTyped, DailyRunAssumption
  <2>2. OutsideTyped'
    BY <1>27, <2>1 DEF SiteChanges, Typed, OutsideTyped
  <2> QED
    BY <1>27, <2>2, TypedFrame DEF SiteChanges, Typed, files, state
<1>28. CASE UNCHANGED vars
  BY <1>28, TypedFrame DEF vars, Typed, files, state, outside
<1> QED
  BY <1>3, <1>4, <1>5, <1>6, <1>7, <1>8, <1>9, <1>10, <1>11, <1>12, <1>13, <1>14, <1>15, <1>17,
     <1>18, <1>19, <1>20, <1>21, <1>22, <1>23, <1>24, <1>25, <1>26, <1>27, <1>28
     DEF Next, Step
-----------------------------------------------------------------------------
(* The lines of a run. *)

\* What the scoring writes.
LEMMA ScoreWrites ==
    ASSUME DailyRunAssumption, Typed, ControlInv, Score
    PROVE  /\ Scored \in Providers
           /\ \E jobs \in Lists : ranked' = [ranked EXCEPT ![Scored] = jobs]
<1>1. Scored \in Providers
  BY RequestTyped DEF Score, Scored, ControlInv, DailyRunAssumption
<1>2. ScoreInput(Scored) \in File
  BY <1>1 DEF ScoreInput, ContentOf, InputFile, Typed, FilesTyped, AiTyped
<1>3. ScoreInput(Scored) \in Lists /\ \A jobs \in SUBSET ScoreInput(Scored) : jobs \in Lists
  BY <1>2 DEF Score, File, Lists
<1> QED
  BY <1>1, <1>3 DEF Score

LEMMA ControlStep ==
    ASSUME DailyRunAssumption, NoneAssumption, Typed, ControlInv, [Next]_vars
    PROVE  ControlInv'
<1> USE DEF ControlInv, PerProvider, AfterScore, ScoringOnly, Finalizing
<1>1. ASSUME NEW q \in Requests, Start(q) \/ SnapshotMissing(q)
      PROVE  ControlInv'
  <2>1. q # None
    BY DEF NoneAssumption, DailyRunAssumption, Typed, OutsideTyped, Requests
  <2>2. run' \in Runs
    BY <1>1 DEF Start, SnapshotMissing, Runs, Typed, ProcessTyped, DailyRunAssumption
  <2>3. \A status \in Statuses : Entering(status) # None
    BY EnteringTyped DEF NoneAssumption
  <2>4. CASE SnapshotMissing(q)
    BY <2>1, <2>2, <2>3, <2>4 DEF SnapshotMissing, Statuses
  <2>5. CASE Start(q)
    <3>1. pc' \in {"scrape", "last_run", "reaugment", "rescore"}
      BY <2>5 DEF Start
    <3>2. pc' \in {"reaugment", "rescore"} => q.providers = <<Openai>>
      BY <2>5 DEF Start, BaseShort
    <3>3. IF pc' = "last_run" THEN fin' # None ELSE fin' = None
      BY <2>3, <2>5 DEF Start, Statuses
    <3> QED
      BY <2>1, <2>2, <2>5, <3>1, <3>2, <3>3 DEF Start
  <2> QED
    BY <1>1, <2>4, <2>5
<1>2. \A status \in Statuses : Entering(status) # None
  BY EnteringTyped DEF NoneAssumption
<1>3. CASE ScrapeOne \/ AfterScrape \/ Classify \/ Enrich \/ Augment
  <2>1. CASE ScrapeOne
    BY <2>1 DEF ScrapeOne
  <2>2. CASE AfterScrape
    BY <1>2, <2>2 DEF AfterScrape, Statuses, memory
  <2>3. CASE Classify \/ Enrich
    <3>1. pc' \in {"enrich", "augment", "score"}
      BY <2>3 DEF Classify, Enrich, AfterEnrich
    <3> QED
      BY <2>3, <3>1 DEF Classify, Enrich, memory
  <2>4. CASE Augment
    BY <2>4 DEF Augment
  <2> QED
    BY <1>3, <2>1, <2>2, <2>3, <2>4
<1>4. CASE Score
  <2>1. PICK jobs \in Lists : ranked' = [ranked EXCEPT ![Scored] = jobs]
    BY <1>4, ScoreWrites
  <2>2. ranked'[Scored] \in Lists
    BY <1>4, <2>1, ScoreWrites DEF Typed, FilesTyped
  <2>3. Current' = Current
    BY <1>4 DEF Score, Current
  <2>4. CASE pc = "score"
    <3>1. ranked'[Current'] \in Lists /\ pc' = "alerts"
      BY <1>4, <2>2, <2>3, <2>4 DEF Score, Scored
    <3> QED
      BY <1>4, <2>4, <3>1 DEF Score, memory
  <2>5. CASE pc = "rescore"
    <3>1. ranked'[Openai] \in Lists /\ pc' = "restate"
      BY <1>4, <2>2, <2>5 DEF Score, Scored
    <3> QED
      BY <1>4, <2>5, <3>1 DEF Score, memory
  <2> QED
    BY <1>4, <2>4, <2>5 DEF Score
<1>5. CASE WriteAlerts \/ WriteLastSeen \/ Diff \/ SuppressDiff
  <2>1. Current' = Current /\ ranked' = ranked
    BY <1>5 DEF WriteAlerts, WriteLastSeen, Diff, SuppressDiff, Current, files
  <2> QED
    BY <1>5, <2>1 DEF WriteAlerts, WriteLastSeen, Diff, SuppressDiff, memory
<1>6. CASE WriteState
  <2>1. Current' = Current /\ ranked' = ranked
    BY <1>6 DEF WriteState, Current, files
  <2> QED
    BY <1>2, <1>6, <2>1 DEF WriteState, Statuses
<1>7. CASE Announce \/ NotAnnounced
  BY <1>2, <1>7 DEF Announce, NotAnnounced, NextProvider, Statuses
<1>8. CASE StageFails
  BY <1>2, <1>8 DEF StageFails, Stages, Statuses
<1>9. CASE WriteLastRun
  <2>1. fin \in Finalization
    BY <1>9 DEF WriteLastRun, Typed, MemoryTyped
  <2>2. \A status \in Statuses : [fin EXCEPT !.final = status] # None
    BY <2>1 DEF Finalization, NoneAssumption
  <2>3. fin' # None
    BY <1>9, <2>1, <2>2 DEF WriteLastRun, Finalization, Statuses
  <2> QED
    BY <1>9, <2>3 DEF WriteLastRun, Remain
<1>10. CASE PersistReport \/ WritePointer \/ Archive \/ KeepHistory \/ WriteHealth
  BY <1>10 DEF PersistReport, WritePointer, Archive, KeepHistory, WriteHealth, memory
<1>11. CASE PublishRun
  <2>1. fin \in Finalization
    BY <1>11 DEF PublishRun, Typed, MemoryTyped
  <2>2. \A s3 \in {"ok", "error"}, failed \in BOOLEAN :
            [fin EXCEPT !.s3 = s3, !.s3_failed = failed] # None
    BY <2>1 DEF Finalization, NoneAssumption
  <2>3. \A uploaded \in BOOLEAN : (IF uploaded THEN "ok" ELSE "error") \in {"ok", "error"}
    OBVIOUS
  <2>4. fin' # None
    BY <1>11, <2>2, <2>3 DEF PublishRun
  <2> QED
    BY <1>11, <2>4 DEF PublishRun, Remain
<1>12. CASE MetadataFails \/ Return \/ FinalizeRaises
  BY <1>2, <1>12 DEF MetadataFails, Return, FinalizeRaises, Leave, Remain, Statuses
<1>13. CASE Crash
  BY <1>13 DEF Crash, Leave
<1>14. CASE UNCHANGED vars \/ \E p \in Providers, listed \in Lists : SiteChanges(p, listed)
  BY <1>14 DEF vars, SiteChanges, files, memory, Current
<1> QED
  BY <1>1, <1>3, <1>4, <1>5, <1>6, <1>7, <1>8, <1>9, <1>10, <1>11, <1>12, <1>13, <1>14
     DEF Next, Step
-----------------------------------------------------------------------------
(* Reports, pointers and the other records. *)

OnRecord == UnfinishedInv /\ FinalInv /\ RecordInv

\* A step within the stages, or from them to _finalize.
LEMMA StageRecords ==
    ASSUME DailyRunAssumption, NoneAssumption, Typed, ControlInv, OnRecord,
           pc \in Stages, UNCHANGED <<setting, run, records>>,
           pc' \in Stages \/ (pc' = "last_run" /\ \E status \in Statuses : fin' = Entering(status))
    PROVE  OnRecord'
<1>1. UnfinishedInv'
  BY DEF OnRecord, UnfinishedInv, Stages, records
<1>2. FinalInv'
  <2>1. CASE pc' \in Stages
    BY <2>1 DEF FinalInv, Stages, Finalizing
  <2>2. CASE pc' = "last_run" /\ \E status \in Statuses : fin' = Entering(status)
    BY <2>2 DEF FinalInv, OnRecord, UnfinishedInv, Entering, AfterReport, UpToArchive, Finalizing, records
  <2> QED
    BY <2>1, <2>2
<1>3. RecordInv'
  <2>1. Reported'
    BY DEF OnRecord, RecordInv, Reported, records
  <2>2. ASSUME setting.publish # "required"
        PROVE  /\ HealthMatchesReport'
               /\ pc' = "last_run" => ~fin'.s3_failed /\ health'[run'] \in {None, Torn} /\ lastSuccess' # run'
               /\ "finalize" \notin Faults /\ lastSuccess' # None => report'[lastSuccess'] \in {"success", Torn}
    <3>1. HealthMatchesReport'
      BY <2>2 DEF OnRecord, RecordInv, HealthMatchesReport, records
    <3>2. pc' = "last_run" => ~fin'.s3_failed
      BY DEF Entering, Stages
    <3>3. health'[run'] \in {None, Torn} /\ lastSuccess' # run'
      BY DEF OnRecord, UnfinishedInv, records
    <3>4. "finalize" \notin Faults /\ lastSuccess' # None => report'[lastSuccess'] \in {"success", Torn}
      BY <2>2 DEF OnRecord, RecordInv, records
    <3> QED
      BY <3>1, <3>2, <3>3, <3>4
  <2>3. pc' # "idle" /\ Faults' = Faults
    BY DEF Stages, Faults
  <2> QED
    BY <2>1, <2>2, <2>3 DEF RecordInv, Stages, Finalizing
<1> QED
  BY <1>1, <1>2, <1>3 DEF OnRecord

\* _finalize is left in the middle of a step, or between two.
LEMMA CutRecords ==
    ASSUME DailyRunAssumption, NoneAssumption, Typed, ControlInv, OnRecord,
           pc # "idle", UNCHANGED <<setting, run>>, CutShort
    PROVE  /\ Reported'
           /\ \A r \in Runs : r > run =>
                 report'[r] = None /\ health'[r] = None /\ archive'[r] = Everywhere(Absent)
           /\ setting.publish # "required" =>
                 /\ HealthMatchesReport'
                 /\ pc \in Finalizing \ {"return"} => health'[run] \in {None, Torn}
                 /\ "finalize" \notin Faults /\ lastSuccess' # None =>
                       report'[lastSuccess'] \in {"success", Torn}
<1>1. /\ \A r \in Runs \ {run} : report'[r] = report[r] /\ health'[r] = health[r]
                                /\ archive'[r] = archive[r]
      /\ report'[run] = report[run] \/ (report'[run] = Torn /\ pc \in {"report", "publish", "history"})
      /\ health'[run] = health[run] \/ (health'[run] = Torn /\ pc = "health")
      /\ history' = history \/ (history' \subseteq history \cup {run} /\ pc = "history")
      /\ published' = published \/ (published' \subseteq published \cup {run} /\ pc = "publish")
      /\ lastSuccess' = lastSuccess /\ run \in Runs
  BY CutShortLeaves DEF ControlInv
<1>2. Torn # None /\ Torn \notin {"success", "partial"} /\ None \notin {"success", "partial"}
  BY DEF NoneAssumption, Statuses
<1>3. pc \in AfterReport => report[run] # None
  BY DEF OnRecord, FinalInv, AfterReport, UpToArchive
<1>4. Reported'
  <2>1. \A r \in Runs : report[r] # None => report'[r] # None
    BY <1>1, <1>2
  <2>2. pc \in {"publish", "history", "health"} => report'[run] # None
    BY <1>3, <2>1, <1>1 DEF AfterReport, Finalizing
  <2> QED
    BY <1>1, <2>1, <2>2 DEF OnRecord, RecordInv, Reported, Typed, RecordsTyped
<1>5. \A r \in Runs : r > run =>
          report'[r] = None /\ health'[r] = None /\ archive'[r] = Everywhere(Absent)
  <2>1. \A r \in Runs : r > run => r # run
    BY <1>1 DEF Runs
  <2> QED
    BY <1>1, <2>1 DEF OnRecord, UnfinishedInv
<1>6. ASSUME setting.publish # "required"
      PROVE  /\ HealthMatchesReport'
             /\ pc \in Finalizing \ {"return"} => health'[run] \in {None, Torn}
             /\ "finalize" \notin Faults /\ lastSuccess' # None =>
                   report'[lastSuccess'] \in {"success", Torn}
  <2>1. pc \in Finalizing \ {"return"} => health[run] \in {None, Torn}
    BY <1>6 DEF OnRecord, RecordInv
  <2>2. HealthMatchesReport'
    <3>1. pc \in {"report", "publish", "history", "health"} => health'[run] \notin {"success", "partial"}
      BY <1>1, <1>2, <2>1 DEF Finalizing
    <3> QED
      BY <1>1, <1>2, <1>6, <3>1 DEF OnRecord, RecordInv, HealthMatchesReport
  <2>3. "finalize" \notin Faults /\ lastSuccess' # None =>
            report'[lastSuccess'] \in {"success", Torn}
    BY <1>1, <1>6 DEF OnRecord, RecordInv, Typed, RecordsTyped
  <2> QED
    BY <1>1, <2>1, <2>2, <2>3
<1> QED
  BY <1>4, <1>5, <1>6

\* The process is killed, or an exception ends it.
LEMMA KilledRecords ==
    ASSUME DailyRunAssumption, NoneAssumption, Typed, ControlInv, OnRecord,
           pc # "idle", pc' = "idle", UNCHANGED <<setting, run>>, CutShort, exit' # "zero"
    PROVE  OnRecord'
<1>1. lastSuccess' = lastSuccess
  BY CutShortLeaves DEF ControlInv
<1>2. UnfinishedInv'
  BY <1>1, CutRecords DEF OnRecord, UnfinishedInv, Stages
<1>3. FinalInv'
  BY DEF FinalInv, Finalizing
<1>4. RecordInv'
  BY CutRecords DEF RecordInv, Finalizing, Faults
<1> QED
  BY <1>2, <1>3, <1>4 DEF OnRecord

\* The process ends by itself; last_run.json may say something else.
LEMMA EndRecords ==
    ASSUME DailyRunAssumption, NoneAssumption, Typed, ControlInv, OnRecord, pc' = "idle",
           UNCHANGED <<setting, run, lastSuccess, report, archive, history, health, published>>,
           exit' = "zero" /\ report[run] # None =>
               lastRun' # None /\ lastRun'.status \in {"success", "short_circuit"}
    PROVE  OnRecord'
<1>1. UnfinishedInv'
  BY DEF OnRecord, UnfinishedInv, Stages
<1>2. FinalInv'
  BY DEF FinalInv, Finalizing
<1>3. RecordInv'
  BY DEF OnRecord, RecordInv, Reported, HealthMatchesReport, Finalizing, Faults
<1> QED
  BY <1>1, <1>2, <1>3 DEF OnRecord

\* The run is finalized once more, as an error.
LEMMA AgainRecords ==
    ASSUME DailyRunAssumption, NoneAssumption, Typed, ControlInv, OnRecord,
           pc \in Finalizing, pc' = "last_run", fin' = Entering("error"),
           UNCHANGED <<setting, run>>, CutShort,
           setting.publish = "required" \/ (pc # "return" /\ "finalize" \in Faults)
    PROVE  OnRecord'
<1>1. lastSuccess' = lastSuccess /\ pc # "idle"
  BY CutShortLeaves DEF ControlInv, Finalizing
<1>2. UnfinishedInv'
  BY <1>1, CutRecords DEF OnRecord, UnfinishedInv, Stages
<1>3. FinalInv'
  BY DEF FinalInv, Entering, Finalizing, AfterReport, UpToArchive
<1>4. RecordInv'
  BY <1>1, CutRecords DEF RecordInv, Finalizing, Faults, Entering
<1> QED
  BY <1>2, <1>3, <1>4 DEF OnRecord

LEMMA StartRecords ==
    ASSUME DailyRunAssumption, NoneAssumption, Typed, ControlInv, OnRecord,
           NEW q \in Requests, Start(q) \/ SnapshotMissing(q)
    PROVE  OnRecord'
<1>1. /\ pc = "idle" /\ run' = run + 1 /\ run' \in Runs /\ run \in Nat /\ run < MaxRuns
      /\ UNCHANGED setting /\ UNCHANGED records /\ MaxRuns \in Nat
  BY DEF Start, SnapshotMissing, Typed, ProcessTyped, DailyRunAssumption, Runs, outside, state
<1>2. /\ report[run'] = None /\ health[run'] = None /\ archive[run'] = Everywhere(Absent)
      /\ lastSuccess # run'
  BY <1>1 DEF OnRecord, UnfinishedInv, Typed, RecordsTyped, Runs
<1>3. pc' \in Stages \/ (pc' = "last_run" /\ \E status \in Statuses : fin' = Entering(status))
  BY DEF Start, SnapshotMissing, Stages, Statuses
<1>4. UnfinishedInv'
  <2>1. \A r \in Runs : r > run' => r > run
    BY <1>1 DEF Runs
  <2>2. lastSuccess # None => lastSuccess <= run'
    BY <1>1 DEF OnRecord, UnfinishedInv, Typed, RecordsTyped, Runs
  <2> QED
    BY <1>1, <1>2, <2>1, <2>2 DEF OnRecord, UnfinishedInv, records, Everywhere
<1>5. FinalInv'
  <2>1. CASE pc' \in Stages
    BY <2>1 DEF FinalInv, Stages, Finalizing
  <2>2. CASE pc' = "last_run" /\ \E status \in Statuses : fin' = Entering(status)
    BY <1>1, <1>2, <2>2 DEF FinalInv, Entering, AfterReport, UpToArchive, Finalizing, records, Everywhere
  <2> QED
    BY <1>3, <2>1, <2>2
<1>6. RecordInv'
  <2>1. Reported'
    BY <1>1 DEF OnRecord, RecordInv, Reported, records
  <2>2. ASSUME setting.publish # "required"
        PROVE  /\ HealthMatchesReport'
               /\ pc' = "last_run" => ~fin'.s3_failed
               /\ "finalize" \notin Faults /\ lastSuccess' # None => report'[lastSuccess'] \in {"success", Torn}
    <3>1. HealthMatchesReport'
      BY <1>1, <2>2 DEF OnRecord, RecordInv, HealthMatchesReport, records
    <3>2. pc' = "last_run" => ~fin'.s3_failed
      BY <1>3 DEF Entering, Stages
    <3>3. "finalize" \notin Faults /\ lastSuccess' # None => report'[lastSuccess'] \in {"success", Torn}
      BY <1>1, <2>2 DEF OnRecord, RecordInv, records
    <3> QED
      BY <3>1, <3>2, <3>3
  <2>3. pc' # "idle" /\ Faults' = Faults /\ health'[run'] \in {None, Torn} /\ lastSuccess' # run'
    BY <1>1, <1>2, <1>3 DEF Stages, Faults, records
  <2> QED
    BY <1>1, <1>3, <2>1, <2>2, <2>3 DEF RecordInv, Stages, Finalizing
<1> QED
  BY <1>4, <1>5, <1>6 DEF OnRecord

\* _finalize up to the report.
LEMMA WriteLastRunRecords ==
    ASSUME DailyRunAssumption, NoneAssumption, Typed, ControlInv, OnRecord, WriteLastRun
    PROVE  OnRecord'
<1>1. pc = "last_run" /\ pc' = "report" /\ run \in Runs /\ fin \in Finalization
      /\ UNCHANGED <<setting, run, lastSuccess, report, archive, history, health, published>>
  BY DEF WriteLastRun, ControlInv, Finalizing, outside, Typed, MemoryTyped
<1>2. PICK over \in IF "guardrail" \in Faults /\ fin.given = "success" THEN BOOLEAN ELSE {FALSE} :
          LET status == IF over THEN "error" ELSE fin.final IN
          /\ fin' = [fin EXCEPT !.final = status]
          /\ lastRun' = Telemetry(status)
  BY DEF WriteLastRun
<1>3. /\ fin'.given = fin.given /\ fin'.s3_failed = fin.s3_failed
      /\ fin.given \in {"error", "short_circuit"} => fin'.final = fin.given
      /\ lastRun' # None /\ lastRun'.status = fin'.final
  <2> DEFINE status == IF over THEN "error" ELSE fin.final
  <2>1. status \in Statuses
    BY <1>1 DEF Finalization, Statuses
  <2>2. Telemetry(status) # None /\ Telemetry(status).status = status
    BY <2>1, HashesTyped DEF NoneAssumption, Telemetry
  <2>3. fin.given \in {"error", "short_circuit"} => fin.final = fin.given /\ ~over
    BY <1>1, <1>2 DEF OnRecord, FinalInv, Finalizing
  <2> QED
    BY <1>1, <1>2, <2>2, <2>3 DEF Finalization
<1>4. UnfinishedInv'
  BY <1>1 DEF OnRecord, UnfinishedInv, Stages
<1>5. FinalInv'
  BY <1>1, <1>3 DEF OnRecord, FinalInv, Finalizing, AfterReport, UpToArchive
<1>6. RecordInv'
  BY <1>1, <1>3 DEF OnRecord, RecordInv, Reported, HealthMatchesReport, Finalizing, Faults
<1> QED
  BY <1>4, <1>5, <1>6 DEF OnRecord

LEMMA PersistReportRecords ==
    ASSUME DailyRunAssumption, NoneAssumption, Typed, ControlInv, OnRecord, PersistReport
    PROVE  OnRecord'
<1>1. pc = "report" /\ pc' = "pointer" /\ run \in Runs /\ fin \in Finalization
      /\ UNCHANGED <<setting, run, fin, lastRun, lastSuccess, archive, history, health, published>>
  BY DEF PersistReport, ControlInv, Finalizing, outside, memory, Typed, MemoryTyped
<1>2. /\ report' = [report EXCEPT ![run] = fin.final]
      /\ report'[run] = fin.final /\ report'[run] # None
      /\ \A r \in Runs \ {run} : report'[r] = report[r]
  BY <1>1 DEF PersistReport, Typed, RecordsTyped, NoneAssumption, Finalization
<1>3. \A r \in Runs : r > run => r # run
  BY <1>1 DEF Runs
<1>4. UnfinishedInv'
  BY <1>1, <1>2, <1>3 DEF OnRecord, UnfinishedInv, Stages
<1>5. FinalInv'
  BY <1>1, <1>2 DEF OnRecord, FinalInv, Finalizing, AfterReport, UpToArchive
<1>6. Reported'
  BY <1>1, <1>2 DEF OnRecord, RecordInv, Reported, Typed, RecordsTyped
<1>8. ASSUME setting.publish # "required"
      PROVE  /\ HealthMatchesReport'
             /\ ~fin'.s3_failed /\ health'[run'] \in {None, Torn}
             /\ "finalize" \notin Faults =>
                   /\ lastSuccess # run
                   /\ lastSuccess' # None => report'[lastSuccess'] \in {"success", Torn}
  <2>1. ~fin'.s3_failed /\ health'[run'] \in {None, Torn} /\ ("finalize" \notin Faults => lastSuccess # run)
    BY <1>1, <1>8 DEF OnRecord, RecordInv, Finalizing
  <2>2. HealthMatchesReport'
    BY <1>1, <1>2, <1>8, <2>1 DEF OnRecord, RecordInv, HealthMatchesReport, NoneAssumption, Statuses
  <2>3. "finalize" \notin Faults /\ lastSuccess' # None => report'[lastSuccess'] \in {"success", Torn}
    BY <1>1, <1>2, <1>8, <2>1 DEF OnRecord, RecordInv, Typed, RecordsTyped
  <2> QED
    BY <2>1, <2>2, <2>3
<1>9. RecordInv'
  BY <1>1, <1>6, <1>8 DEF RecordInv, Finalizing, Faults
<1> QED
  BY <1>4, <1>5, <1>9 DEF OnRecord

LEMMA WritePointerRecords ==
    ASSUME DailyRunAssumption, NoneAssumption, Typed, ControlInv, OnRecord, WritePointer
    PROVE  OnRecord'
<1>1. pc = "pointer" /\ pc' = "archive" /\ run \in Runs /\ fin \in Finalization
      /\ UNCHANGED <<setting, run, fin, lastRun, report, archive, history, health, published>>
  BY DEF WritePointer, ControlInv, Finalizing, outside, memory, Typed, MemoryTyped
<1>2. /\ lastSuccess' = IF fin.final = "success" THEN run ELSE lastSuccess
      /\ report[run] = fin.final /\ report[run] # None
      /\ None \notin Nat
  BY <1>1 DEF WritePointer, OnRecord, FinalInv, Finalizing, AfterReport, UpToArchive, DailyRunAssumption
<1>3. run \in Nat /\ lastSuccess \in {None} \cup Nat
  BY <1>1 DEF Runs, Typed, RecordsTyped
<1>4. UnfinishedInv'
  BY <1>1, <1>2, <1>3 DEF OnRecord, UnfinishedInv, Stages
<1>5. FinalInv'
  BY <1>1, <1>2 DEF OnRecord, FinalInv, Finalizing, AfterReport, UpToArchive
<1>6. Reported'
  BY <1>1, <1>2 DEF OnRecord, RecordInv, Reported
<1>8. ASSUME setting.publish # "required"
      PROVE  /\ HealthMatchesReport'
             /\ ~fin'.s3_failed /\ health'[run'] \in {None, Torn}
             /\ "finalize" \notin Faults /\ lastSuccess' # None => report'[lastSuccess'] \in {"success", Torn}
  BY <1>1, <1>2, <1>8 DEF OnRecord, RecordInv, HealthMatchesReport, Finalizing
<1>9. RecordInv'
  BY <1>1, <1>2, <1>6, <1>8 DEF RecordInv, Finalizing, Faults
<1> QED
  BY <1>4, <1>5, <1>9 DEF OnRecord

LEMMA ArchiveRecords ==
    ASSUME DailyRunAssumption, NoneAssumption, Typed, ControlInv, OnRecord, Archive
    PROVE  OnRecord'
<1>1. pc = "archive" /\ pc' = "publish" /\ run \in Runs
      /\ UNCHANGED <<setting, run, fin, lastRun, lastSuccess, report, history, health, published>>
  BY DEF Archive, ControlInv, outside, memory
<1>2. \A r \in Runs \ {run} : archive'[r] = archive[r]
  <2>1. request # None /\ Len(request.providers) \in DOMAIN request.providers
    BY <1>1, RequestTyped DEF ControlInv
  <2> QED
    BY <1>1, <2>1, CopyingToLatest, CopyingToArchive DEF Archive
<1>3. \A r \in Runs : r > run => r # run
  BY <1>1 DEF Runs
<1>4. UnfinishedInv'
  BY <1>1, <1>2, <1>3 DEF OnRecord, UnfinishedInv, Stages, Everywhere
<1>5. FinalInv'
  BY <1>1 DEF OnRecord, FinalInv, Finalizing, AfterReport, UpToArchive
<1>6. Reported'
  BY <1>1 DEF OnRecord, RecordInv, Reported
<1>8. ASSUME setting.publish # "required"
      PROVE  /\ HealthMatchesReport'
             /\ ~fin'.s3_failed /\ health'[run'] \in {None, Torn}
             /\ "finalize" \notin Faults =>
                   /\ lastSuccess' # None => report'[lastSuccess'] \in {"success", Torn}
                   /\ report'[run'] = fin'.final
  BY <1>1, <1>8 DEF OnRecord, RecordInv, HealthMatchesReport, Finalizing
<1>9. RecordInv'
  BY <1>1, <1>6, <1>8 DEF RecordInv, Finalizing, Faults
<1> QED
  BY <1>4, <1>5, <1>9 DEF OnRecord

LEMMA PublishRecords ==
    ASSUME DailyRunAssumption, NoneAssumption, Typed, ControlInv, OnRecord, PublishRun
    PROVE  OnRecord'
<1>1. pc = "publish" /\ pc' = "history" /\ run \in Runs /\ fin \in Finalization
      /\ UNCHANGED <<setting, run, lastRun, lastSuccess, archive, history, health>>
  BY DEF PublishRun, ControlInv, Finalizing, outside, Typed, MemoryTyped
<1>2. \/ UNCHANGED <<published, report, fin>>
      \/ \E uploaded, pointed \in BOOLEAN :
              LET failed == /\ setting.publish = "required"
                            /\ ~(uploaded /\ pointed /\ fin.final = "success") IN
              /\ published' = IF uploaded THEN published \cup {run} ELSE published
              /\ report' = IF failed THEN [report EXCEPT ![run] = "failed"] ELSE report
              /\ fin' = [fin EXCEPT !.s3 = IF uploaded THEN "ok" ELSE "error",
                                    !.s3_failed = failed]
  BY DEF PublishRun
<1>3. /\ published' \subseteq published \cup {run}
      /\ \/ report' = report
         \/ setting.publish = "required" /\ report' = [report EXCEPT ![run] = "failed"]
      /\ fin'.given = fin.given /\ fin'.final = fin.final
      /\ setting.publish # "required" => fin'.s3_failed = FALSE \/ fin'.s3_failed = fin.s3_failed
  BY <1>1, <1>2 DEF Finalization
<1>4. /\ \A r \in Runs \ {run} : report'[r] = report[r]
      /\ report'[run] \in {report[run], "failed"}
      /\ setting.publish # "required" => report' = report
  BY <1>1, <1>3 DEF Typed, RecordsTyped
<1>5. report[run] # None /\ "failed" # None
  BY <1>1 DEF OnRecord, FinalInv, Finalizing, AfterReport, UpToArchive, NoneAssumption
<1>6. \A r \in Runs : r > run => r # run
  BY <1>1 DEF Runs
<1>7. UnfinishedInv'
  BY <1>1, <1>4, <1>6 DEF OnRecord, UnfinishedInv, Stages
<1>8. FinalInv'
  BY <1>1, <1>3, <1>4, <1>5 DEF OnRecord, FinalInv, Finalizing, AfterReport, UpToArchive
<1>9. Reported'
  <2>1. \A r \in Runs : report[r] # None => report'[r] # None
    BY <1>4, <1>5
  <2> QED
    BY <1>1, <1>3, <1>5, <2>1 DEF OnRecord, RecordInv, Reported, Typed, RecordsTyped
<1>11. ASSUME setting.publish # "required"
       PROVE  /\ HealthMatchesReport'
              /\ ~fin'.s3_failed /\ health'[run'] \in {None, Torn} /\ report'[run'] = fin'.final
              /\ "finalize" \notin Faults /\ lastSuccess' # None =>
                   report'[lastSuccess'] \in {"success", Torn}
  <2>1. report' = report
    BY <1>4, <1>11
  <2>2. HealthMatchesReport'
    BY <1>1, <1>11, <2>1 DEF OnRecord, RecordInv, HealthMatchesReport
  <2>3. ~fin'.s3_failed /\ health'[run'] \in {None, Torn}
    BY <1>1, <1>3, <1>11 DEF OnRecord, RecordInv, Finalizing
  <2>4. report'[run'] = fin'.final
    BY <1>1, <1>3, <2>1 DEF OnRecord, FinalInv, Finalizing
  <2>5. "finalize" \notin Faults /\ lastSuccess' # None => report'[lastSuccess'] \in {"success", Torn}
    BY <1>1, <1>11, <2>1 DEF OnRecord, RecordInv
  <2> QED
    BY <2>2, <2>3, <2>4, <2>5
<1>12. RecordInv'
  BY <1>1, <1>9, <1>11 DEF RecordInv, Finalizing, Faults
<1> QED
  BY <1>7, <1>8, <1>12 DEF OnRecord

LEMMA HistoryRecords ==
    ASSUME DailyRunAssumption, NoneAssumption, Typed, ControlInv, OnRecord, KeepHistory
    PROVE  OnRecord'
<1>1. /\ pc = "history" /\ pc' = "health"
      /\ UNCHANGED <<setting, run, fin, lastRun, lastSuccess, report, archive, health, published>>
      /\ history' \subseteq history \cup {run}
  BY DEF KeepHistory, HistoryWith, outside, memory
<1>2. report[run] # None
  BY <1>1 DEF OnRecord, FinalInv, Finalizing, AfterReport, UpToArchive
<1>3. UnfinishedInv' /\ FinalInv'
  BY <1>1 DEF OnRecord, UnfinishedInv, FinalInv, Stages, Finalizing, AfterReport, UpToArchive
<1>4. Reported'
  BY <1>1, <1>2 DEF OnRecord, RecordInv, Reported
<1>5. RecordInv'
  BY <1>1, <1>4 DEF OnRecord, RecordInv, HealthMatchesReport, Finalizing, Faults
<1> QED
  BY <1>3, <1>5 DEF OnRecord

LEMMA HealthRecords ==
    ASSUME DailyRunAssumption, NoneAssumption, Typed, ControlInv, OnRecord, WriteHealth
    PROVE  OnRecord'
<1>1. /\ pc = "health" /\ pc' = "return" /\ run \in Runs /\ fin \in Finalization
      /\ UNCHANGED <<setting, run, fin, lastRun, lastSuccess, report, archive, history, published>>
  BY DEF WriteHealth, ControlInv, Finalizing, outside, memory, Typed, MemoryTyped
<1>2. /\ \A r \in Runs \ {run} : health'[r] = health[r]
      /\ health'[run] = HealthOf(fin)
  BY <1>1 DEF WriteHealth, Typed, RecordsTyped
<1>3. \A r \in Runs : r > run => r # run
  BY <1>1 DEF Runs
<1>4. report[run] # None
  BY <1>1 DEF OnRecord, FinalInv, Finalizing, AfterReport, UpToArchive
<1>5. UnfinishedInv'
  BY <1>1, <1>2, <1>3 DEF OnRecord, UnfinishedInv, Stages
<1>6. FinalInv'
  BY <1>1 DEF OnRecord, FinalInv, Finalizing, AfterReport, UpToArchive
<1>7. Reported'
  BY <1>1, <1>2, <1>4 DEF OnRecord, RecordInv, Reported
<1>8. ASSUME setting.publish # "required"
      PROVE  HealthMatchesReport'
  <2>1. report[run] = fin.final
    BY <1>1, <1>8 DEF OnRecord, RecordInv
  <2>2. HealthOf(fin) \in {"success", "partial"} => fin.final \in {"success", "short_circuit"}
    BY <1>1 DEF HealthOf, Finalization, Statuses
  <2> QED
    BY <1>1, <1>2, <1>8, <2>1, <2>2 DEF OnRecord, RecordInv, HealthMatchesReport
<1>9. RecordInv'
  BY <1>1, <1>7, <1>8 DEF OnRecord, RecordInv, Finalizing, Faults
<1> QED
  BY <1>5, <1>6, <1>9 DEF OnRecord

LEMMA RecordsStep ==
    ASSUME DailyRunAssumption, NoneAssumption, Typed, ControlInv, OnRecord, [Next]_vars
    PROVE  OnRecord'
<1>1. ASSUME NEW q \in Requests, Start(q) \/ SnapshotMissing(q)
      PROVE  OnRecord'
  BY <1>1, StartRecords
<1>2. CASE ScrapeOne \/ AfterScrape \/ Classify \/ Enrich \/ Augment \/ Score \/ WriteAlerts
           \/ WriteLastSeen \/ Diff \/ SuppressDiff \/ WriteState \/ Announce \/ NotAnnounced
           \/ StageFails
  <2>1. pc \in Stages
    BY <1>2 DEF ScrapeOne, AfterScrape, Classify, Enrich, Augment, Score, WriteAlerts,
                WriteLastSeen, Diff, SuppressDiff, WriteState, Announce, NotAnnounced,
                StageFails, Stages
  <2>2. UNCHANGED <<setting, run, records>>
    BY <1>2 DEF ScrapeOne, AfterScrape, Classify, Enrich, Augment, Score, WriteAlerts,
                WriteLastSeen, Diff, SuppressDiff, WriteState, Announce, NotAnnounced,
                NextProvider, StageFails, outside, state
  <2>3. pc' \in Stages \/ (pc' = "last_run" /\ \E status \in Statuses : fin' = Entering(status))
    BY <1>2 DEF ScrapeOne, AfterScrape, Classify, Enrich, AfterEnrich, Augment, Score, WriteAlerts,
                WriteLastSeen, Diff, SuppressDiff, WriteState, Announce, NotAnnounced,
                NextProvider, StageFails, Stages, Statuses
  <2> QED
    BY <2>1, <2>2, <2>3, StageRecords
<1>3. CASE WriteLastRun \/ PersistReport \/ WritePointer \/ Archive \/ PublishRun \/ KeepHistory
           \/ WriteHealth
  BY <1>3, WriteLastRunRecords, PersistReportRecords, WritePointerRecords, ArchiveRecords,
     PublishRecords, HistoryRecords, HealthRecords
<1>4. CASE MetadataFails
  <2>1. /\ pc = "report" /\ pc' = "idle" /\ run \in Runs
        /\ UNCHANGED <<setting, run, lastSuccess, report, archive, history, health, published>>
        /\ exit' = ExitCode([fin EXCEPT !.final = "error"])
    BY <1>4 DEF MetadataFails, Leave, ControlInv, outside
  <2>2. fin \in Finalization
    BY <2>1 DEF ControlInv, Finalizing, Typed, MemoryTyped
  <2>3. exit' = "zero" => fin.given # "error"
    BY <2>1, <2>2 DEF ExitCode, Finalization
  <2>4. fin.given # "error" => report[run] = None
    BY <2>1 DEF OnRecord, FinalInv, Finalizing
  <2> QED
    BY <2>1, <2>3, <2>4, EndRecords
<1>5. CASE Return
  <2>1. pc = "return" /\ UNCHANGED <<setting, run, records, dropped>> /\ pc # "post"
    BY <1>5 DEF Return, outside, state, observed
  <2>2. fin \in Finalization
    BY <2>1 DEF ControlInv, Typed, MemoryTyped, Finalizing
  <2>3. CASE fin.s3_failed
    <3>1. setting.publish = "required"
      BY <2>1, <2>3 DEF OnRecord, RecordInv, Finalizing
    <3>2. CutShort
      BY <2>1 DEF CutShort, records
    <3> QED
      BY <1>5, <2>1, <2>3, <3>1, <3>2, AgainRecords DEF Return, Finalizing
  <2>4. CASE ~fin.s3_failed
    <3>1. pc' = "idle" /\ exit' = ExitCode(fin)
      BY <1>5, <2>4 DEF Return, Leave
    <3>2. ExitCode(fin) = "zero" => fin.final \in {"success", "short_circuit"}
      BY <2>1, <2>2 DEF ExitCode, OnRecord, FinalInv, Finalizing
    <3>3. lastRun # None /\ lastRun.status = fin.final
      BY <2>1 DEF OnRecord, FinalInv, Finalizing
    <3> QED
      BY <2>1, <3>1, <3>2, <3>3, EndRecords DEF records
  <2> QED
    BY <2>3, <2>4
<1>6. CASE FinalizeRaises
  <2>1. /\ pc \in Finalizing /\ pc # "return" /\ pc # "idle" /\ "finalize" \in Faults
        /\ UNCHANGED <<setting, run>> /\ CutShort
    BY <1>6 DEF FinalizeRaises, Finalizing, outside
  <2>2. CASE fin.given # "error"
    BY <1>6, <2>1, <2>2, AgainRecords DEF FinalizeRaises
  <2>3. CASE fin.given = "error"
    <3>1. pc' = "idle" /\ exit' = "nonzero"
      BY <1>6, <2>3 DEF FinalizeRaises, Leave
    <3> QED
      BY <2>1, <3>1, KilledRecords
  <2> QED
    BY <2>2, <2>3
<1>7. CASE Crash
  <2>1. pc # "idle" /\ pc' = "idle" /\ UNCHANGED <<setting, run>> /\ exit' = None /\ CutShort
    BY <1>7 DEF Crash, Leave, outside
  <2>2. None # "zero"
    BY DEF NoneAssumption
  <2> QED
    BY <2>1, <2>2, KilledRecords
<1>8. CASE UNCHANGED vars \/ \E p \in Providers, listed \in Lists : SiteChanges(p, listed)
  <2>1. UNCHANGED <<setting, run, pc, fin, exit, records>>
    BY <1>8 DEF vars, SiteChanges, outside, memory, state
  <2>2. UnfinishedInv'
    BY <2>1 DEF OnRecord, UnfinishedInv, records
  <2>3. FinalInv'
    BY <2>1 DEF OnRecord, FinalInv, records
  <2>4. RecordInv'
    BY <2>1 DEF OnRecord, RecordInv, Reported, HealthMatchesReport, Faults, records
  <2> QED
    BY <2>2, <2>3, <2>4 DEF OnRecord
<1> QED
  BY <1>1, <1>2, <1>3, <1>4, <1>5, <1>6, <1>7, <1>8 DEF Next, Step
-----------------------------------------------------------------------------
(* What can be read, and history/latest. *)

\* A step from one line of a run to another of its stages, or to _finalize.
StageStep ==
    \/ ScrapeOne \/ AfterScrape \/ Classify \/ Enrich \/ Augment \/ Score \/ WriteAlerts
    \/ WriteLastSeen \/ Diff \/ SuppressDiff \/ WriteState \/ Announce \/ NotAnnounced \/ StageFails

LEMMA StageStepLeaves ==
    ASSUME StageStep
    PROVE  /\ pc \in Stages /\ pc' \in Stages \cup {"last_run"}
           /\ UNCHANGED <<setting, run, request, exit, records>>
<1>1. pc \in Stages /\ UNCHANGED <<setting, run, request, exit, records>>
  BY DEF StageStep, ScrapeOne, AfterScrape, Classify, Enrich, Augment, Score, WriteAlerts,
         WriteLastSeen, Diff, SuppressDiff, WriteState, Announce, NotAnnounced, NextProvider,
         StageFails, Stages, outside, state
<1>2. pc' \in Stages \cup {"last_run"}
  BY DEF StageStep, ScrapeOne, AfterScrape, Classify, Enrich, AfterEnrich, Augment, Score,
         WriteAlerts, WriteLastSeen, Diff, SuppressDiff, WriteState, Announce, NotAnnounced,
         NextProvider, StageFails, Stages
<1> QED
  BY <1>1, <1>2

LEMMA RankedWhole ==
    ASSUME DailyRunAssumption, Typed, ControlInv, ReadableInv, [Next]_vars
    PROVE  \A p \in Providers : ranked'[p] # Torn
<1>1. CASE Score
  <2>1. PICK jobs \in Lists : ranked' = [ranked EXCEPT ![Scored] = jobs]
    BY <1>1, ScoreWrites
  <2>2. jobs # Torn
    BY DEF DailyRunAssumption, Lists
  <2> QED
    BY <2>1, <2>2 DEF ReadableInv, Typed, FilesTyped
<1>2. CASE ranked' = ranked
  BY <1>2 DEF ReadableInv
<1>3. ASSUME ~Score
      PROVE  ranked' = ranked
  BY <1>3 DEF Next, Step, vars, files, Start, SnapshotMissing, ScrapeOne, AfterScrape, Classify,
       Enrich, Augment, WriteAlerts, WriteLastSeen, Diff, SuppressDiff, WriteState, Announce,
       NotAnnounced, NextProvider, StageFails, WriteLastRun, MetadataFails, PersistReport,
       WritePointer, Archive, PublishRun, KeepHistory, WriteHealth, Return, FinalizeRaises, Crash,
       SiteChanges
<1> QED
  BY <1>1, <1>2, <1>3

\* The run of a line before its health artifact has none that says anything.
LEMMA NoHealthYet ==
    ASSUME DailyRunAssumption, NoneAssumption, ControlInv, OnRecord, setting.publish # "required",
           pc \in Stages \cup (Finalizing \ {"return"})
    PROVE  health[run] \notin {"success", "partial", "failed"}
BY DEF OnRecord, UnfinishedInv, RecordInv, NoneAssumption, Statuses, Stages, Finalizing

\* A step that writes at most the records of its own run.
LEMMA ReadableKept ==
    ASSUME DailyRunAssumption, NoneAssumption, Typed, ControlInv, OnRecord, ReadableInv, [Next]_vars,
           UNCHANGED setting,
           \A r \in Runs \ {run} : report'[r] = report[r] /\ health'[r] = health[r]
                                   /\ archive'[r] = archive[r],
           \/ UNCHANGED <<report, archive, health>>
           \/ pc \in Finalizing \ {"return"} /\ health'[run] \in {health[run], Torn}
           \/ Readable(run)',
           pc' \in AfterReport => report'[run'] # Torn,
           pc' \in Finalizing => \A p \in Providers :
               archive'[run'][p] = Torn => Copied(Len(request.providers), p)',
           pc' \in AfterArchive => \A p \in Providers : archive'[run'][p] # Torn,
           pc' = "idle" /\ exit' = "zero" => Readable(run)'
    PROVE  ReadableInv'
<1>1. \A p \in Providers : ranked'[p] # Torn
  BY RankedWhole
<1>2. ASSUME NEW r \in Runs, health'[r] \in {"success", "partial", "failed"},
             setting.publish # "required"
      PROVE  report'[r] # Torn /\ \A p \in Providers : archive'[r][p] # Torn
  <2>1. CASE r # run \/ UNCHANGED <<report, archive, health>>
    <3>1. report'[r] = report[r] /\ health'[r] = health[r] /\ archive'[r] = archive[r]
      BY <2>1
    <3> QED
      BY <1>2, <3>1 DEF ReadableInv, Readable
  <2>2. CASE r = run /\ pc \in Finalizing \ {"return"} /\ health'[run] \in {health[run], Torn}
    <3>1. health[run] \notin {"success", "partial", "failed"}
      BY <1>2, <2>2, NoHealthYet
    <3>2. Torn \notin {"success", "partial", "failed"}
      BY DEF NoneAssumption, Statuses
    <3> QED
      BY <1>2, <2>2, <3>1, <3>2
  <2>3. CASE r = run /\ Readable(run)'
    <3>1. run' = run \/ UNCHANGED <<report, archive, health>>
      BY DEF Next, Step, vars, Start, SnapshotMissing, ScrapeOne, AfterScrape, Classify,
             Enrich, Augment, Score, WriteAlerts, WriteLastSeen, Diff, SuppressDiff, WriteState,
             Announce, NotAnnounced, NextProvider, StageFails, WriteLastRun, MetadataFails,
             PersistReport, WritePointer, Archive, PublishRun, KeepHistory, WriteHealth, Return,
             FinalizeRaises, Crash, SiteChanges, state, records
    <3> QED
      BY <2>1, <2>3, <3>1 DEF Readable
  <2> QED
    BY <2>1, <2>2, <2>3
<1>3. \A r \in Runs : health'[r] \in {"success", "partial", "failed"} =>
          (report'[r] # Torn /\ \A p \in Providers : archive'[r][p] # Torn)
          \/ setting'.publish = "required"
  BY <1>2
<1> QED
  BY <1>1, <1>3 DEF ReadableInv, Readable

LEMMA ReadableStep ==
    ASSUME DailyRunAssumption, NoneAssumption, Typed, ControlInv, OnRecord, ReadableInv, [Next]_vars
    PROVE  ReadableInv'
<1>1. ASSUME NEW q \in Requests, Start(q) \/ SnapshotMissing(q)
      PROVE  ReadableInv'
  <2>1. /\ pc' \in Stages \cup {"last_run"} /\ exit' = None /\ run' = run + 1
        /\ UNCHANGED <<setting, report, archive, health>>
    BY <1>1 DEF Start, SnapshotMissing, Stages, outside, state, records
  <2>2. run' \in Runs /\ run' > run
    BY <1>1 DEF Start, SnapshotMissing, Runs, Typed, ProcessTyped, DailyRunAssumption
  <2>3. archive'[run'] = Everywhere(Absent)
    BY <2>1, <2>2 DEF OnRecord, UnfinishedInv
  <2> QED
    BY <2>1, <2>3, ReadableKept
       DEF Everywhere, DailyRunAssumption, AfterReport, AfterArchive, Stages, Finalizing
<1>2. CASE StageStep
  <2>1. /\ pc \in Stages /\ pc' \in Stages \cup {"last_run"}
        /\ UNCHANGED <<setting, run, report, archive, health>>
    BY <1>2, StageStepLeaves DEF records
  <2>2. archive'[run'] = Everywhere(Absent)
    BY <2>1 DEF OnRecord, UnfinishedInv
  <2> QED
    BY <2>1, <2>2, ReadableKept
       DEF Everywhere, DailyRunAssumption, AfterReport, AfterArchive, Stages, Finalizing
<1>3. ASSUME UNCHANGED <<run, request, ranked>>, pc \in Finalizing, archive' = archive
      PROVE  \A p \in Providers : archive'[run'][p] = Torn => Copied(Len(request.providers), p)'
  BY <1>3 DEF ReadableInv, Copied
<1>4. CASE WriteLastRun \/ WritePointer \/ KeepHistory
  <2>1. /\ UNCHANGED <<setting, run, request, ranked, report, archive, health>>
        /\ pc \in Finalizing \ {"return"} /\ pc' # "idle"
        /\ pc' \in AfterReport => pc \in AfterReport
        /\ pc' \in AfterArchive => pc \in AfterArchive
    BY <1>4 DEF WriteLastRun, WritePointer, KeepHistory, Remain, outside, files, Finalizing,
                AfterReport, AfterArchive
  <2>2. /\ pc' \in AfterReport => report'[run'] # Torn
        /\ pc' \in AfterArchive => \A p \in Providers : archive'[run'][p] # Torn
    BY <2>1 DEF ReadableInv
  <2> QED
    BY <1>3, <2>1, <2>2, ReadableKept
<1>5. CASE PersistReport \/ PublishRun
  <2>1. /\ UNCHANGED <<setting, run, request, ranked, archive, health>>
        /\ pc \in Finalizing \ {"return"} /\ pc' # "idle" /\ run \in Runs /\ fin \in Finalization
        /\ pc' \in AfterArchive => pc \in AfterArchive
    BY <1>5 DEF PersistReport, PublishRun, Remain, outside, files, Finalizing, AfterArchive,
                ControlInv, Typed, MemoryTyped
  <2>2. /\ \A r \in Runs \ {run} : report'[r] = report[r]
        /\ report'[run] # Torn
    <3>1. CASE PersistReport
      BY <2>1, <3>1 DEF PersistReport, Typed, RecordsTyped, NoneAssumption, Finalization
    <3>2. CASE PublishRun
      <4>1. report' = report \/ report' = [report EXCEPT ![run] = "failed"]
        BY <3>2 DEF PublishRun
      <4>2. report[run] # Torn /\ "failed" # Torn
        BY <3>2 DEF PublishRun, ReadableInv, AfterReport, Finalizing, NoneAssumption
      <4> QED
        BY <2>1, <4>1, <4>2 DEF Typed, RecordsTyped
    <3> QED
      BY <1>5, <3>1, <3>2
  <2>3. pc' \in AfterArchive => \A p \in Providers : archive'[run'][p] # Torn
    BY <2>1 DEF ReadableInv
  <2> QED
    BY <1>3, <2>1, <2>2, <2>3, ReadableKept
<1>6. CASE Archive
  <2>1. /\ UNCHANGED <<setting, run, request, ranked, report, health>>
        /\ pc = "archive" /\ pc' = "publish" /\ run \in Runs /\ request # None
        /\ CopyToArchive(Len(request.providers), FALSE)
    BY <1>6 DEF Archive, outside, files, ControlInv
  <2>2. Len(request.providers) \in DOMAIN request.providers
    BY <2>1, RequestTyped
  <2>3. /\ \A r \in Runs \ {run} : archive'[r] = archive[r]
        /\ \A p \in Providers : archive'[run][p] = IF Copied(Len(request.providers), p)
                                                   THEN ranked[p] ELSE archive[run][p]
    <3>1. \A p \in Providers : CopyOf(Len(request.providers), FALSE, p) = ranked[p]
      BY DEF CopyOf
    <3>2. /\ \A r \in Runs \ {run} : archive'[r] = archive[r]
          /\ \A p \in Providers :
                archive'[run][p] = IF Copied(Len(request.providers), p)
                                   THEN CopyOf(Len(request.providers), FALSE, p)
                                   ELSE archive[run][p]
      BY <2>1, <2>2, CopyingToArchive, Zenon
    <3> QED
      BY <3>1, <3>2
  <2>4. \A p \in Providers : archive'[run][p] # Torn
    BY <2>1, <2>3 DEF ReadableInv, Finalizing
  <2>5. report'[run] # Torn
    BY <2>1 DEF ReadableInv, AfterReport, Finalizing
  <2> QED
    BY <2>1, <2>3, <2>4, <2>5, ReadableKept DEF Finalizing
<1>7. CASE WriteHealth
  <2>1. /\ UNCHANGED <<setting, run, request, ranked, report, archive>>
        /\ pc = "health" /\ pc' = "return" /\ run \in Runs
        /\ \A r \in Runs \ {run} : health'[r] = health[r]
    BY <1>7 DEF WriteHealth, outside, files, ControlInv, Typed, RecordsTyped
  <2>2. report'[run'] # Torn /\ \A p \in Providers : archive'[run'][p] # Torn
    BY <2>1 DEF ReadableInv, AfterReport, AfterArchive, Finalizing
  <2> QED
    BY <1>3, <2>1, <2>2, ReadableKept DEF Readable, Finalizing
<1>8. CASE MetadataFails
  <2>1. /\ UNCHANGED <<setting, run, report, archive, health>> /\ pc = "report" /\ pc' = "idle"
        /\ exit' = ExitCode([fin EXCEPT !.final = "error"]) /\ fin \in Finalization
    BY <1>8 DEF MetadataFails, Leave, outside, ControlInv, Finalizing, Typed, MemoryTyped
  <2>2. exit' = "zero" => fin.given # "error"
    BY <2>1 DEF ExitCode, Finalization
  <2>3. exit' = "zero" => report'[run'] = None /\ archive'[run'] = Everywhere(Absent)
    BY <2>1, <2>2 DEF OnRecord, FinalInv, Finalizing, UpToArchive
  <2>4. exit' = "zero" => Readable(run)'
    BY <2>3 DEF Readable, Everywhere, DailyRunAssumption, NoneAssumption
  <2> QED
    BY <2>1, <2>4, ReadableKept DEF AfterReport, AfterArchive, Finalizing
<1>9. CASE Return
  <2>1. UNCHANGED <<setting, run, ranked, report, archive, health>> /\ pc = "return"
    BY <1>9 DEF Return, outside, files, state, records
  <2>2. report[run] # Torn /\ \A p \in Providers : archive[run][p] # Torn
    BY <2>1 DEF ReadableInv, AfterReport, AfterArchive, Finalizing
  <2>3. Readable(run)' /\ pc' \in {"idle", "last_run"}
    BY <1>9, <2>1, <2>2 DEF Readable, Return, Leave
  <2> QED
    BY <2>1, <2>2, <2>3, ReadableKept DEF AfterReport, AfterArchive, Readable
<1>10. CASE FinalizeRaises \/ Crash
  <2>1. /\ UNCHANGED <<setting, run, ranked>> /\ pc # "idle" /\ pc' \in {"idle", "last_run"}
        /\ CutShort
        /\ exit' # "zero" \/ pc' = "last_run"
        /\ pc' = "last_run" => request' = request /\ pc \in Finalizing
    BY <1>10 DEF FinalizeRaises, Crash, Leave, Remain, outside, files, NoneAssumption, Finalizing
  <2>2. /\ \A r \in Runs \ {run} : report'[r] = report[r] /\ health'[r] = health[r]
                                   /\ archive'[r] = archive[r]
        /\ \/ UNCHANGED <<report, archive, health>>
           \/ pc \in Finalizing \ {"return"} /\ health'[run] \in {health[run], Torn}
    <3>1. /\ \A r \in Runs \ {run} : report'[r] = report[r] /\ health'[r] = health[r]
                                     /\ archive'[r] = archive[r]
          /\ UNCHANGED records \/ pc \in {"report", "archive", "publish", "history", "health"}
          /\ health'[run] = health[run] \/ health'[run] = Torn
      BY <2>1, CutShortLeaves
    <3> QED
      BY <3>1 DEF records, Finalizing
  <2>3. ASSUME pc' = "last_run", NEW p \in Providers, archive'[run'][p] = Torn
        PROVE  Copied(Len(request.providers), p)'
    <3>1. request # None /\ run \in Runs
      BY <2>1 DEF ControlInv
    <3>2. ASSUME NEW n \in DOMAIN request.providers, NEW cut \in BOOLEAN, CopyToArchive(n, cut)
          PROVE  archive[run][p] = Torn \/ Copied(Len(request.providers), p)
      <4>1. archive'[run][p] = IF Copied(n, p) THEN CopyOf(n, cut, p) ELSE archive[run][p]
        BY <3>1, <3>2, CopyingToArchive
      <4>2. Copied(n, p) => Copied(Len(request.providers), p)
        BY <3>1, Copies
      <4> QED
        BY <2>1, <2>3, <4>1, <4>2
    <3>3. archive' = archive \/ \E n \in DOMAIN request.providers, cut \in BOOLEAN :
              CopyToArchive(n, cut)
      <4>1. pc # "archive" => archive' = archive
        BY <2>1, CutShortLeaves
      <4>2. pc = "archive" =>
                \/ archive' = archive
                \/ \E n \in DOMAIN request.providers, cut \in BOOLEAN : CopyToArchive(n, cut)
        BY <2>1 DEF CutShort
      <4> QED
        BY <4>1, <4>2
    <3>4. archive[run][p] = Torn \/ Copied(Len(request.providers), p)
      BY <2>1, <2>3, <3>2, <3>3
    <3>5. Copied(Len(request.providers), p)
      BY <2>1, <2>3, <3>4 DEF ReadableInv
    <3> QED
      BY <2>1, <2>3, <3>5 DEF Copied
  <2> QED
    BY <2>1, <2>2, <2>3, ReadableKept DEF Finalizing, AfterReport, AfterArchive
<1>11. CASE UNCHANGED vars \/ \E p \in Providers, listed \in Lists : SiteChanges(p, listed)
  <2>1. UNCHANGED <<setting, run, request, pc, exit, ranked, report, archive, health>>
    BY <1>11 DEF vars, SiteChanges, outside, files, state, records
  <2> QED
    BY <2>1 DEF ReadableInv, Readable, Copied
<1> QED
  BY <1>1, <1>2, <1>4, <1>5, <1>6, <1>7, <1>8, <1>9, <1>10, <1>11 DEF Next, Step, StageStep

\* What LatestInv says of one provider between lines, apart from who is next.
LatestBacked(p) ==
    /\ latest[p].by # None => latest[p].by <= run
    /\ \A r \in Runs : archive[r][p] # Absent => latest[p].by # None /\ latest[p].by >= r
    /\ latest[p].by # None /\ report[latest[p].by] = "success" =>
          /\ lastSuccess # None /\ lastSuccess >= latest[p].by
          /\ archive[latest[p].by][p] \in {Absent, Torn, latest[p].ranked}

LEMMA LatestTyped ==
    ASSUME DailyRunAssumption, Typed, NEW p \in Providers
    PROVE  /\ latest[p].by \in {None} \cup Runs
           /\ latest[p].by # None => latest[p].by \in Runs /\ latest[p].by \in Nat
           /\ run \in Nat
BY DEF Typed, RecordsTyped, ProcessTyped, Runs, DailyRunAssumption

\* The lists are copied, all of them or some.
LEMMA LatestCopied ==
    ASSUME DailyRunAssumption, NoneAssumption, Typed, ControlInv, OnRecord, LatestInv,
           pc = "archive", UNCHANGED <<run, report, lastSuccess>>,
           NEW n \in DOMAIN request.providers, NEW cut \in BOOLEAN,
           \/ CopyToLatest(n, cut) /\ archive' = archive
           \/ CopyToLatest(Len(request.providers), FALSE) /\ CopyToArchive(n, cut),
           NEW p \in Providers
    PROVE  LatestBacked(p)'
<1>1. /\ run \in Runs /\ run \in Nat /\ request # None /\ run # None
      /\ Len(request.providers) \in DOMAIN request.providers
  BY RequestTyped DEF ControlInv, Runs, DailyRunAssumption
<1>2. report[run] = "success" => /\ lastSuccess = run /\ archive[run][p] = Absent
                                 /\ latest[p].by # run
  <2>1. report[run] = fin.final /\ (fin.given = "error" => fin.final = "error")
    BY DEF OnRecord, FinalInv, Finalizing
  <2>2. report[run] = "success" => fin.final = "success" /\ fin.given # "error"
    BY <2>1
  <2> QED
    BY <2>2 DEF OnRecord, FinalInv, LatestInv, Finalizing, UpToArchive, Everywhere
<1>3. \/ /\ latest'[p].by = run
         /\ archive'[run][p] \in {archive[run][p], Torn, latest'[p].ranked}
      \/ latest'[p] = latest[p] /\ archive'[run][p] = archive[run][p]
  <2>1. CASE CopyToLatest(n, cut) /\ archive' = archive
    <3>1. CopyToLatest(n, cut)
      BY <2>1
    <3>2. IF Copied(n, p)
          THEN latest'[p].by = run /\ latest'[p].ranked = CopyOf(n, cut, p)
          ELSE latest'[p] = latest[p]
      BY <1>1, <3>1, CopyingToLatest, Zenon
    <3> QED
      BY <2>1, <3>2
  <2>2. CASE CopyToLatest(Len(request.providers), FALSE) /\ CopyToArchive(n, cut)
    <3>1. IF Copied(Len(request.providers), p)
          THEN /\ latest'[p].by = run
               /\ latest'[p].ranked = CopyOf(Len(request.providers), FALSE, p)
          ELSE latest'[p] = latest[p]
      BY <1>1, <2>2, CopyingToLatest
    <3>2. CopyOf(Len(request.providers), FALSE, p) = ranked[p]
      BY DEF CopyOf
    <3>3. archive'[run][p] = IF Copied(n, p) THEN CopyOf(n, cut, p) ELSE archive[run][p]
      BY <1>1, <2>2, CopyingToArchive
    <3>4. (Copied(n, p) => Copied(Len(request.providers), p)) /\ CopyOf(n, cut, p) \in {ranked[p], Torn}
      BY <1>1, Copies
    <3> QED
      BY <3>1, <3>2, <3>3, <3>4
  <2> QED
    BY <2>1, <2>2
<1>4. \A r \in Runs \ {run} : archive'[r] = archive[r]
  BY <1>1, CopyingToArchive
<1>5. \A r \in Runs : r \in Nat /\ (archive'[r][p] # Absent => r <= run)
  <2>1. \A r \in Runs : r \in Nat
    BY DEF Runs
  <2>2. \A r \in Runs : r > run => archive[r][p] = Absent
    BY DEF OnRecord, UnfinishedInv, Everywhere
  <2> QED
    BY <1>1, <1>4, <2>1, <2>2
<1>6. latest[p].by # None => latest[p].by \in Nat /\ latest[p].by \in Runs
  BY LatestTyped
<1>7. CASE /\ latest'[p].by = run
           /\ archive'[run][p] \in {archive[run][p], Torn, latest'[p].ranked}
  <2>1. \A r \in Runs : archive'[r][p] # Absent => run >= r
    BY <1>1, <1>5
  <2>2. report'[run] = "success" => /\ lastSuccess' = run
                                    /\ archive'[run][p] \in {Absent, Torn, latest'[p].ranked}
    BY <1>2, <1>7
  <2> QED
    BY <1>1, <1>7, <2>1, <2>2 DEF LatestBacked
<1>8. CASE latest'[p] = latest[p] /\ archive'[run][p] = archive[run][p]
  <2>1. \A r \in Runs : archive'[r][p] = archive[r][p]
    BY <1>4, <1>8
  <2> QED
    BY <1>6, <1>8, <2>1 DEF LatestInv, LatestBacked
<1> QED
  BY <1>3, <1>7, <1>8

LEMMA LatestStep ==
    ASSUME DailyRunAssumption, NoneAssumption, Typed, ControlInv, OnRecord, LatestInv, [Next]_vars
    PROVE  LatestInv'
<1>0. \A p \in Providers : latest[p].by # None => latest[p].by \in Runs /\ latest[p].by \in Nat
  BY LatestTyped
\* A step that copies nothing, and reports no run as a success but the one in hand.
<1>1. ASSUME latest' = latest, archive' = archive,
             run' = run,
             \A r \in Runs : report'[r] = "success" => \/ report[r] = "success"
                                                       \/ r = run /\ \A p \in Providers : latest[p].by # run,
             lastSuccess' = lastSuccess \/ (lastSuccess' = run /\ run \in Runs)
      PROVE  \A p \in Providers : LatestBacked(p)'
  <2>1. run \in Nat /\ (run \in Runs => run # None)
    BY DEF Typed, ProcessTyped, Runs, DailyRunAssumption
  <2> QED
    BY <1>0, <1>1, <2>1 DEF LatestInv, LatestBacked
<1>2. ASSUME NEW q \in Requests, Start(q) \/ SnapshotMissing(q)
      PROVE  LatestInv'
  <2>1. run' = run + 1 /\ UNCHANGED <<latest, archive, report, lastSuccess>> /\ run \in Nat
    BY <1>2 DEF Start, SnapshotMissing, state, records, Typed, ProcessTyped
  <2>2. \A p \in Providers : latest[p].by # run' /\ (latest[p].by # None => latest[p].by <= run')
    BY <1>0, <2>1 DEF LatestInv, DailyRunAssumption
  <2>3. \A p \in Providers : LatestBacked(p)'
    BY <2>1, <2>2 DEF LatestInv, LatestBacked
  <2> QED
    BY <2>1, <2>2, <2>3 DEF LatestInv, LatestBacked
<1>3. CASE StageStep
  <2>1. /\ pc \in Stages /\ pc' \in Stages \cup {"last_run"}
        /\ UNCHANGED <<run, latest, archive, report, lastSuccess>>
    BY <1>3, StageStepLeaves DEF records
  <2>2. \A p \in Providers : latest'[p].by # run'
    BY <2>1 DEF LatestInv
  <2>3. \A p \in Providers : LatestBacked(p)'
    BY <1>1, <2>1
  <2> QED
    BY <2>2, <2>3 DEF LatestInv, LatestBacked
<1>4. CASE WriteLastRun \/ PersistReport \/ WritePointer
  <2>1. /\ pc \in {"last_run", "report", "pointer"} /\ run \in Runs /\ fin \in Finalization
        /\ UNCHANGED <<run, latest, archive>>
        /\ lastSuccess' \in {run, lastSuccess} /\ pc' \notin Stages
    BY <1>4 DEF WriteLastRun, PersistReport, WritePointer, ControlInv, Finalizing, Stages, Typed,
                MemoryTyped
  <2>2. fin'.given = fin.given
    BY <1>4, <2>1 DEF WriteLastRun, PersistReport, WritePointer, memory, Finalization
  <2>3. fin.given # "error" => \A p \in Providers : latest[p].by # run
    BY <2>1 DEF LatestInv, UpToArchive
  <2>4. \A r \in Runs : report'[r] = "success" => \/ report[r] = "success"
                                                  \/ r = run /\ fin.given # "error"
    <3>1. report' = report \/ (pc = "report" /\ report' = [report EXCEPT ![run] = fin.final])
      BY <1>4 DEF WriteLastRun, PersistReport, WritePointer
    <3>2. fin.given = "error" => fin.final # "success"
      BY <2>1 DEF OnRecord, FinalInv, Finalizing
    <3> QED
      BY <3>1, <3>2 DEF Typed, RecordsTyped
  <2>5. \A p \in Providers : LatestBacked(p)'
    BY <1>1, <2>1, <2>3, <2>4
  <2> QED
    BY <2>1, <2>2, <2>3, <2>5 DEF LatestInv, LatestBacked
<1>5. CASE Archive
  <2>1. /\ pc = "archive" /\ pc' = "publish" /\ UNCHANGED <<run, report, lastSuccess>>
        /\ CopyToLatest(Len(request.providers), FALSE)
        /\ CopyToArchive(Len(request.providers), FALSE)
    BY <1>5 DEF Archive
  <2>2. Len(request.providers) \in DOMAIN request.providers
    BY <2>1, RequestTyped DEF ControlInv
  <2>3. \A p \in Providers : LatestBacked(p)'
    BY <2>1, <2>2, LatestCopied
  <2> QED
    BY <2>1, <2>3 DEF LatestInv, LatestBacked, Stages, UpToArchive
<1>6. CASE PublishRun \/ KeepHistory \/ WriteHealth \/ MetadataFails \/ Return
  <2>1. /\ UNCHANGED <<run, latest, archive, lastSuccess>>
        /\ pc' \in AfterArchive \cup {"idle", "last_run"}
        /\ pc' = "last_run" => fin'.given = "error"
        /\ report' = report \/ report' = [report EXCEPT ![run] = "failed"]
    <3>1. CASE PublishRun
      BY <3>1 DEF PublishRun, AfterArchive
    <3>2. CASE KeepHistory \/ WriteHealth \/ MetadataFails \/ Return
      BY <3>2 DEF KeepHistory, WriteHealth, MetadataFails, Return, Leave, Entering, AfterArchive,
                  state, records
    <3> QED
      BY <1>6, <3>1, <3>2
  <2>2. \A r \in Runs : report'[r] = "success" => report[r] = "success"
    BY <2>1 DEF Typed, RecordsTyped
  <2>3. \A p \in Providers : LatestBacked(p)'
    BY <1>1, <2>1, <2>2
  <2> QED
    BY <2>1, <2>3 DEF LatestInv, LatestBacked, Stages, AfterArchive, UpToArchive
<1>7. CASE FinalizeRaises \/ Crash
  <2>1. /\ pc # "idle" /\ CutShort /\ run' = run /\ pc' \in {"idle", "last_run"}
        /\ pc' = "last_run" => fin'.given = "error"
    BY <1>7 DEF FinalizeRaises, Crash, Leave, Entering, Finalizing
  <2>2. lastSuccess' = lastSuccess
    BY <2>1 DEF CutShort
  <2>3. \A p \in Providers : LatestBacked(p)'
    <3>1. CASE latest' = latest /\ archive' = archive
      <4>1. \A r \in Runs : report'[r] = "success" => report[r] = "success"
        <5>1. Torn # "success"
          BY DEF NoneAssumption, Statuses
        <5>2. report' = report \/ report' = TornReport
          BY <2>1 DEF CutShort
        <5> QED
          BY <5>1, <5>2 DEF TornReport, Typed, RecordsTyped
      <4> QED
        BY <1>1, <2>1, <2>2, <3>1, <4>1
    <3>2. CASE /\ pc = "archive"
               /\ \E n \in DOMAIN request.providers, cut \in BOOLEAN :
                     \/ CopyToLatest(n, cut) /\ archive' = archive
                     \/ CopyToLatest(Len(request.providers), FALSE) /\ CopyToArchive(n, cut)
      <4>1. report' = report
        BY <2>1, <3>2 DEF CutShort
      <4> QED
        BY <2>1, <2>2, <3>2, <4>1, LatestCopied
    <3> QED
      BY <2>1, <3>1, <3>2 DEF CutShort
  <2> QED
    BY <2>1, <2>3 DEF LatestInv, LatestBacked, Stages, UpToArchive
<1>8. CASE UNCHANGED vars \/ \E p \in Providers, listed \in Lists : SiteChanges(p, listed)
  <2>1. UNCHANGED <<run, pc, fin, latest, archive, report, lastSuccess>>
    BY <1>8 DEF vars, SiteChanges, state, records, memory
  <2> QED
    BY <2>1 DEF LatestInv
<1> QED
  BY <1>2, <1>3, <1>4, <1>5, <1>6, <1>7, <1>8 DEF Next, Step, StageStep

-----------------------------------------------------------------------------
(* Alerts. *)

LEMMA AlertStep ==
    ASSUME DailyRunAssumption, Typed, ControlInv, AlertInv, [Next]_vars
    PROVE  AlertInv'
<1>1. CASE WriteAlerts
  <2>1. Current \in Providers /\ Current' = Current
    BY <1>1, RequestTyped DEF WriteAlerts, ControlInv, Current
  <2>2. UNCHANGED <<ranked, lastSeen>>
    BY <1>1 DEF WriteAlerts, files, state
  <2>3. alerted' = [alerted EXCEPT ![Current] = @ \cup (ranked[Current] \ lastSeen[Current])]
    BY <1>1 DEF WriteAlerts
  <2>4. alerted \in [Providers -> Lists]
    BY DEF Typed, ObservedTyped
  <2>5. \A p \in Providers : alerted[p] \subseteq alerted'[p]
    BY <2>3, <2>4
  <2>6. ranked[Current] \subseteq alerted'[Current]
    BY <2>1, <2>3, <2>4 DEF AlertInv, AlertsPrecedeLastSeen
  <2> QED
    BY <2>1, <2>2, <2>5, <2>6 DEF AlertInv, AlertsPrecedeLastSeen
<1>2. CASE WriteLastSeen
  <2>1. Current \in Providers /\ lastSeen \in [Providers -> Lists]
    BY <1>2, RequestTyped DEF WriteLastSeen, ControlInv, Typed, StateTyped
  <2>2. ranked[Current] \subseteq alerted[Current]
    BY <1>2 DEF WriteLastSeen, AlertInv
  <2>3. pc' = "diff" /\ lastSeen' = [lastSeen EXCEPT ![Current] = ranked[Current]]
        /\ alerted' = alerted
    BY <1>2 DEF WriteLastSeen, observed
  <2>4. ASSUME NEW p \in Providers
        PROVE  lastSeen'[p] \subseteq alerted[p]
    <3>1. CASE p = Current
      BY <2>1, <2>2, <2>3, <3>1
    <3>2. CASE p # Current
      BY <2>1, <2>3, <3>2 DEF AlertInv, AlertsPrecedeLastSeen
    <3> QED
      BY <3>1, <3>2
  <2> QED
    BY <2>3, <2>4 DEF AlertInv, AlertsPrecedeLastSeen
<1>3. CASE Crash
  <2>1. pc' = "idle" /\ alerted' = alerted /\ lastSeen \in [Providers -> Lists]
    BY <1>3 DEF Crash, Leave, Typed, StateTyped
  <2>2. \A p \in Providers : lastSeen'[p] \subseteq lastSeen[p]
    BY <1>3, <2>1 DEF Crash
  <2> QED
    BY <2>1, <2>2 DEF AlertInv, AlertsPrecedeLastSeen
<1>4. CASE UNCHANGED vars \/ \E p \in Providers, listed \in Lists : SiteChanges(p, listed)
  BY <1>4 DEF vars, SiteChanges, files, state, observed, AlertInv, AlertsPrecedeLastSeen, Current
<1>5. ASSUME UNCHANGED <<lastSeen, alerted>>, pc' # "seen"
      PROVE  AlertInv'
  BY <1>5 DEF AlertInv, AlertsPrecedeLastSeen
<1>6. CASE \E q \in Requests : Start(q) \/ SnapshotMissing(q)
  BY <1>5, <1>6 DEF Start, SnapshotMissing, state, observed
<1>7. CASE \/ ScrapeOne \/ AfterScrape \/ Classify \/ Enrich \/ Augment \/ Score \/ Diff
           \/ SuppressDiff \/ WriteState \/ Announce \/ NotAnnounced \/ StageFails
  BY <1>5, <1>7 DEF ScrapeOne, AfterScrape, Classify, Enrich, AfterEnrich, Augment, Score, Diff,
                    SuppressDiff, WriteState, Announce, NotAnnounced, NextProvider, StageFails,
                    state, observed
<1>8. CASE \/ WriteLastRun \/ MetadataFails \/ PersistReport \/ WritePointer \/ Archive
           \/ PublishRun \/ KeepHistory \/ WriteHealth \/ Return \/ FinalizeRaises
  BY <1>5, <1>8 DEF WriteLastRun, MetadataFails, PersistReport, WritePointer, Archive, PublishRun,
                    KeepHistory, WriteHealth, Return, FinalizeRaises, Leave, state, observed
<1> QED
  BY <1>1, <1>2, <1>3, <1>4, <1>6, <1>7, <1>8 DEF Next, Step
-----------------------------------------------------------------------------
(* What was told. *)

\* A step that writes none of the lists and tells nothing, outside of "post".
LEMMA QuietStep ==
    ASSUME Typed, ControlInv, UnfinishedInv, ToldInv, pc # "post",
           UNCHANGED <<run, lastRanked, lastSuccess, archive, announced, dropped>>,
           pc' \notin {"state", "post"},
           pc' = "scraped" => k' = 1,
           pc' \in PerProvider =>
               /\ UNCHANGED <<request, ranked>>
               /\ (pc = "scraped" /\ k' = k) \/ (pc \in PerProvider /\ k' = k),
           pc' \in Finalizing =>
               /\ UNCHANGED <<request, ranked>> \/ pc = "idle"
               /\ pc \in {"idle"} \cup Stages => /\ lastSuccess # run
                                                 /\ fin'.final # "success" \/ request'.scrape_only
               /\ pc \in Finalizing => (fin'.final = "success" => fin.final = "success")
    PROVE  ToldInv'
<1>1. \A p : Told(p)' = Told(p)
  BY DEF Told
<1>2. StateTold'
  BY <1>1 DEF ToldInv, StateTold, Pending
<1>3. BaselineTold'
  BY <1>1 DEF ToldInv, BaselineTold
<1>4. EarlierTold'
  BY <1>1 DEF ToldInv, EarlierTold, PerProvider
<1>5. CurrentTold'
  BY DEF CurrentTold
<1>6. FinalTold'
  BY <1>1 DEF ToldInv, FinalTold, Settled, Requested, Finalizing, Stages, Typed, ProcessTyped
<1> QED
  BY <1>2, <1>3, <1>4, <1>5, <1>6 DEF ToldInv

LEMMA StageToldStep ==
    ASSUME DailyRunAssumption, NoneAssumption, Typed, ControlInv, UnfinishedInv, ToldInv,
           \/ ScrapeOne \/ AfterScrape \/ Classify \/ Enrich \/ Augment \/ WriteAlerts
           \/ WriteLastSeen \/ StageFails
    PROVE  ToldInv'
<1>1. CASE ScrapeOne
  BY <1>1, QuietStep DEF ScrapeOne, PerProvider, Finalizing, state, records, observed
<1>2. CASE AfterScrape
  <2>1. k = 1 /\ pc = "scraped" /\ lastSuccess # run
    BY <1>2 DEF AfterScrape, ToldInv, EarlierTold, UnfinishedInv, Stages
  <2> QED
    BY <1>2, <2>1, QuietStep DEF AfterScrape, PerProvider, Finalizing, files, state, records, observed
<1>3. CASE Classify \/ Enrich
  <2>1. pc' \in {"enrich", "augment", "score"}
    BY <1>3 DEF Classify, Enrich, AfterEnrich
  <2> QED
    BY <1>3, <2>1, QuietStep DEF Classify, Enrich, PerProvider, Finalizing, state, records, observed
<1>4. CASE Augment
  BY <1>4, QuietStep DEF Augment, PerProvider, Finalizing, state, records, observed
<1>5. CASE WriteLastSeen
  BY <1>5, QuietStep DEF WriteLastSeen, PerProvider, Finalizing, files, records, observed
<1>6. CASE WriteAlerts
  BY <1>6, QuietStep DEF WriteAlerts, PerProvider, Finalizing, files, state, records
<1>7. CASE StageFails
  <2>1. lastSuccess # run
    BY <1>7 DEF StageFails, UnfinishedInv
  <2>2. fin'.final = "error"
    BY <1>7 DEF StageFails, Entering
  <2>3. pc \in Stages \ {"post"} /\ pc' = "last_run"
    BY <1>7 DEF StageFails
  <2> QED
    BY <1>7, <2>1, <2>2, <2>3, QuietStep
       DEF StageFails, PerProvider, Finalizing, Stages, files, state, records, observed
<1> QED
  BY <1>1, <1>2, <1>3, <1>4, <1>5, <1>6, <1>7

LEMMA FinalToldStep ==
    ASSUME DailyRunAssumption, NoneAssumption, Typed, ControlInv, UnfinishedInv, FinalInv, ToldInv,
           \/ WriteLastRun \/ MetadataFails \/ PersistReport \/ PublishRun \/ KeepHistory
           \/ WriteHealth \/ Return
    PROVE  ToldInv'
<1>1. pc \in Finalizing /\ fin \in Finalization
  BY DEF WriteLastRun, MetadataFails, PersistReport, PublishRun, KeepHistory, WriteHealth, Return,
         Finalizing, ControlInv, Typed, MemoryTyped
<1>2. UNCHANGED <<run, lastRanked, lastSuccess, archive, announced, dropped>>
  BY DEF WriteLastRun, MetadataFails, PersistReport, PublishRun, KeepHistory, WriteHealth, Return,
         state, records, observed
<1>3. pc' \in Finalizing => UNCHANGED <<request, ranked>>
  BY DEF WriteLastRun, MetadataFails, PersistReport, PublishRun, KeepHistory, WriteHealth, Return,
         Leave, Remain, files, Finalizing
<1>4. pc' \in {"idle"} \cup Finalizing
  BY DEF WriteLastRun, MetadataFails, PersistReport, PublishRun, KeepHistory, WriteHealth, Return,
         Leave, Finalizing
<1>5. pc' \in Finalizing /\ fin'.final = "success" => fin.final = "success"
  <2>1. CASE WriteLastRun
    BY <1>1, <2>1 DEF WriteLastRun, Finalization
  <2>2. CASE PublishRun
    <3>1. \/ fin' = fin
          \/ \E uploaded, failed \in BOOLEAN :
                fin' = [fin EXCEPT !.s3 = IF uploaded THEN "ok" ELSE "error", !.s3_failed = failed]
      BY <2>2 DEF PublishRun
    <3> QED
      BY <1>1, <3>1 DEF Finalization
  <2>3. CASE PersistReport \/ KeepHistory \/ WriteHealth
    BY <2>3 DEF PersistReport, KeepHistory, WriteHealth, memory
  <2>4. CASE MetadataFails \/ Return
    BY <2>4 DEF MetadataFails, Return, Leave, Entering, Finalizing
  <2> QED
    BY <2>1, <2>2, <2>3, <2>4
<1> QED
  BY <1>1, <1>2, <1>3, <1>4, <1>5, QuietStep DEF Finalizing, PerProvider, Stages

LEMMA StartToldStep ==
    ASSUME DailyRunAssumption, NoneAssumption, Typed, ControlInv, UnfinishedInv, ToldInv,
           NEW q \in Requests, Start(q) \/ SnapshotMissing(q)
    PROVE  ToldInv'
<1>1. /\ pc = "idle" /\ run' = run + 1 /\ run \in Nat /\ k' = k
      /\ UNCHANGED <<lastRanked, lastSuccess, archive, announced, dropped>>
  BY DEF Start, SnapshotMissing, Typed, ProcessTyped, state, records, observed
<1>2. \A p : Told(p)' = Told(p)
  BY <1>1 DEF Told
<1>3. pc' \in {"scrape", "last_run", "reaugment", "rescore"}
  BY DEF Start, SnapshotMissing
<1>4. pc' = "last_run" => fin'.final # "success"
  BY DEF Start, SnapshotMissing, Entering
<1>5. lastSuccess # run'
  BY <1>1 DEF UnfinishedInv, Typed, RecordsTyped, DailyRunAssumption, Runs
<1> QED
  BY <1>1, <1>2, <1>3, <1>4, <1>5
     DEF ToldInv, StateTold, Pending, BaselineTold, EarlierTold, CurrentTold, FinalTold, PerProvider,
         Finalizing

LEMMA ScoreToldStep ==
    ASSUME DailyRunAssumption, NoneAssumption, Typed, ControlInv, UnfinishedInv, ToldInv, Score
    PROVE  ToldInv'
<1>1. /\ pc \in {"score", "rescore"} /\ pc' \in {"alerts", "restate"}
      /\ UNCHANGED <<run, k, request, lastRanked, lastSuccess, archive, announced, dropped>>
      /\ pc' = "alerts" => pc = "score"
  BY DEF Score, state, records, observed
<1>2. \A p : Told(p)' = Told(p)
  BY <1>1 DEF Told
<1>3. EarlierTold'
  <2>1. ASSUME pc = "score", NEW n \in 1 .. k - 1
        PROVE  ListOf(ranked'[request.providers[n]]) \subseteq Told(request.providers[n])
    <3>1. /\ k \in 1 .. Len(request.providers) /\ Len(request.providers) \in Nat
          /\ DOMAIN request.providers = 1 .. Len(request.providers)
          /\ request.providers \in Seq(Providers)
          /\ \A m, o \in DOMAIN request.providers :
                request.providers[m] = request.providers[o] => m = o
      BY <2>1, RequestTyped DEF ControlInv
    <3>2. n \in DOMAIN request.providers /\ n # k /\ k \in DOMAIN request.providers
          /\ request.providers[n] \in Providers
      BY <3>1
    <3>3. request.providers[n] # Scored
      BY <2>1, <3>1, <3>2 DEF Scored, Current
    <3>4. ranked'[request.providers[n]] = ranked[request.providers[n]]
      BY <3>2, <3>3, ScoreWrites DEF Typed, FilesTyped
    <3> QED
      BY <2>1, <3>4 DEF ToldInv, EarlierTold, PerProvider
  <2> QED
    BY <1>1, <1>2, <2>1 DEF EarlierTold, PerProvider, ListOf
<1> QED
  BY <1>1, <1>2, <1>3
     DEF ToldInv, StateTold, Pending, BaselineTold, CurrentTold, FinalTold, Finalizing

LEMMA ListOfJobs ==
    ASSUME DailyRunAssumption
    PROVE  /\ \A jobs \in Lists : ListOf(jobs) = jobs
           /\ ListOf(Absent) = {} /\ ListOf(Torn) = {}
BY DEF ListOf, Lists, DailyRunAssumption

\* What was told stays told.
LEMMA StillTold ==
    ASSUME DailyRunAssumption, Typed, ControlInv, ToldInv,
           \A p \in Providers : Told(p) \subseteq Told(p)',
           UNCHANGED <<lastSuccess, archive, request, k, ranked>>
    PROVE  /\ BaselineTold'
           /\ pc \in PerProvider /\ pc' \in PerProvider => EarlierTold'
           /\ request # None /\ Settled => Settled'
<1>1. BaselineTold'
  BY DEF ToldInv, BaselineTold
<1>2. ASSUME pc \in PerProvider, pc' \in PerProvider
      PROVE  EarlierTold'
  <2>1. request # None
    BY <1>2 DEF ControlInv, PerProvider
  <2>2. \A n \in 1 .. k - 1 : request.providers[n] \in Providers
    <3>1. /\ request.providers \in Seq(Providers) /\ Len(request.providers) \in Nat
          /\ k \in 1 .. Len(request.providers)
      BY <2>1, RequestTyped
    <3> QED
      BY <3>1
  <2>3. \A n \in 1 .. k - 1 :
          ListOf(ranked[request.providers[n]]) \subseteq Told(request.providers[n])'
    BY <1>2, <2>2 DEF ToldInv, EarlierTold
  <2> QED
    BY <1>2, <2>3 DEF EarlierTold, PerProvider, Told
<1>3. ASSUME request # None, Settled
      PROVE  Settled'
  <2>1. Requested \subseteq Providers
    BY <1>3, RequestTyped DEF Requested
  <2> QED
    BY <1>3, <2>1 DEF Settled, Requested
<1> QED
  BY <1>1, <1>2, <1>3

LEMMA DiffToldStep ==
    ASSUME DailyRunAssumption, Typed, ControlInv, ToldInv, Diff \/ SuppressDiff
    PROVE  ToldInv'
<1>1. /\ pc = "diff" /\ pc' = "state" /\ announced' = announced
      /\ UNCHANGED <<lastRanked, lastSuccess, archive, ranked, request, k>>
  BY DEF Diff, SuppressDiff, files, state, records
<1>2. Current \in Providers /\ Current' = Current /\ ranked[Current] \in Lists
  BY <1>1, RequestTyped DEF ControlInv, AfterScore, Current
<1>3. dropped \in [Providers -> Lists]
  BY DEF Typed, ObservedTyped
<1>4. \/ dropped' = dropped
      \/ \E jobs : dropped' = Lose(Current, jobs)
  BY DEF Diff, SuppressDiff
<1>5. \A p \in Providers : Told(p) \subseteq Told(p)'
  BY <1>1, <1>3, <1>4 DEF Told, Lose
<1>6. StateTold'
  BY <1>1, <1>5 DEF ToldInv, StateTold, Pending
<1>7. CurrentTold'
  <2>1. CASE SuppressDiff
    <3>1. dropped' = [dropped EXCEPT ![Current] = @ \cup ranked[Current]]
      BY <2>1 DEF SuppressDiff, Lose
    <3>2. ranked[Current] \subseteq Told(Current)'
      BY <1>2, <1>3, <3>1 DEF Told
    <3> QED
      BY <1>1, <1>2, <3>2 DEF CurrentTold
  <2>2. CASE Diff
    <3>1. Baseline(Current) # Torn /\ newJobs' = ranked[Current] \ Baseline(Current)
      BY <2>2 DEF Diff
    <3>2. ranked[Current] \cap Baseline(Current) \subseteq Told(Current)'
      <4>1. CASE HasSuccess(Current)
        <5>1. /\ Baseline(Current) = archive[lastSuccess][Current]
              /\ lastSuccess # None /\ archive[lastSuccess][Current] # Absent
          BY <4>1 DEF Baseline, HasSuccess
        <5>2. ListOf(Baseline(Current)) = Baseline(Current)
          BY <3>1, <5>1 DEF ListOf
        <5>3. ListOf(archive[lastSuccess][Current]) \subseteq Told(Current)
          BY <1>2, <5>1 DEF ToldInv, BaselineTold
        <5> QED
          BY <1>2, <1>5, <5>1, <5>2, <5>3
      <4>2. CASE ~HasSuccess(Current) /\ lastRanked[Current] # Absent
        <5>1. Baseline(Current) = lastRanked[Current]
          BY <4>2 DEF Baseline
        <5>2. ListOf(lastRanked[Current]) = Baseline(Current)
          BY <3>1, <4>2, <5>1 DEF ListOf
        <5>3. ListOf(lastRanked[Current]) \subseteq Told(Current)
          BY <1>1, <1>2 DEF ToldInv, StateTold, Pending
        <5> QED
          BY <1>2, <1>5, <5>2, <5>3
      <4>3. CASE FromRunDirectory(Current)
        <5>1. dropped' = [dropped EXCEPT ![Current] = @ \cup (ranked[Current] \cap Baseline(Current))]
          BY <2>2, <4>3 DEF Diff, Lose
        <5> QED
          BY <1>2, <1>3, <5>1 DEF Told
      <4>4. CASE /\ ~HasSuccess(Current) /\ lastRanked[Current] = Absent
                 /\ ArchivedBefore(Current) = {}
        BY <4>4 DEF Baseline
      <4> QED
        BY <4>1, <4>2, <4>3, <4>4 DEF FromRunDirectory
    <3> QED
      BY <1>1, <1>2, <3>1, <3>2 DEF CurrentTold
  <2> QED
    BY <2>1, <2>2
<1>8. FinalTold'
  BY <1>1 DEF FinalTold, Finalizing
<1> QED
  BY <1>1, <1>5, <1>6, <1>7, <1>8, StillTold DEF ToldInv, PerProvider

LEMMA StateToldStep ==
    ASSUME DailyRunAssumption, NoneAssumption, Typed, ControlInv, ToldInv, WriteState
    PROVE  ToldInv'
<1>1. /\ announced' = announced /\ dropped \in [Providers -> Lists]
      /\ lastRanked \in [Providers -> File] /\ Openai \in Providers
      /\ UNCHANGED <<lastSuccess, archive, ranked, request, k, newJobs>>
  BY DEF WriteState, files, records, Typed, ObservedTyped, StateTyped, DailyRunAssumption
<1>2. CASE pc = "state"
  <2>1. /\ pc' = "post" /\ dropped' = dropped
        /\ lastRanked' = [lastRanked EXCEPT ![Current] = ranked[Current]]
    BY <1>2 DEF WriteState
  <2>2. Current \in Providers /\ Current' = Current /\ ranked[Current] \in Lists
    BY <1>1, <1>2, RequestTyped DEF ControlInv, AfterScore, Current
  <2>3. \A p : Told(p)' = Told(p)
    BY <1>1, <2>1 DEF Told
  <2>4. ranked[Current] \subseteq Told(Current) \cup newJobs
    BY <1>2 DEF ToldInv, CurrentTold
  <2>5. StateTold'
    <3>1. ASSUME NEW p \in Providers
          PROVE  ListOf(lastRanked'[p]) \subseteq Told(p) \cup Pending(p)'
      <4>1. CASE p = Current
        <5>1. lastRanked'[p] = ranked[Current]
          BY <1>1, <2>1, <4>1
        <5>2. Pending(p)' = newJobs
          BY <1>1, <2>1, <2>2, <4>1 DEF Pending
        <5> QED
          BY <2>2, <2>4, <4>1, <5>1, <5>2, ListOfJobs
      <4>2. CASE p # Current
        BY <1>1, <1>2, <2>1, <4>2 DEF ToldInv, StateTold, Pending
      <4> QED
        BY <4>1, <4>2
    <3> QED
      BY <2>3, <3>1 DEF StateTold
  <2>6. CurrentTold'
    <3>1. (ranked[Current] \subseteq Told(Current) \cup newJobs)'
      BY <1>1, <2>2, <2>3, <2>4
    <3> QED
      BY <3>1 DEF CurrentTold
  <2>7. FinalTold'
    BY <2>1 DEF FinalTold, Finalizing
  <2> QED
    BY <1>1, <1>2, <2>1, <2>3, <2>5, <2>6, <2>7, StillTold DEF ToldInv, PerProvider
<1>3. CASE pc = "restate"
  <2>1. /\ pc' = "last_run"
        /\ dropped' = [dropped EXCEPT ![Openai] = @ \cup ranked[Openai]]
        /\ lastRanked' = [lastRanked EXCEPT ![Openai] = ranked[Openai]]
    BY <1>3 DEF WriteState, Lose
  <2>2. ranked[Openai] \in Lists /\ request.providers = <<Openai>> /\ request # None
    BY <1>3 DEF ControlInv, ScoringOnly
  <2>3. /\ \A p \in Providers : Told(p) \subseteq Told(p)'
        /\ ListOf(ranked[Openai]) \subseteq Told(Openai)'
    BY <1>1, <2>1, <2>2, ListOfJobs DEF Told
  <2>4. StateTold'
    <3>1. ASSUME NEW p \in Providers
          PROVE  ListOf(lastRanked'[p]) \subseteq Told(p)'
      <4>1. CASE p = Openai
        BY <1>1, <2>1, <2>3, <4>1
      <4>2. CASE p # Openai
        BY <1>1, <1>3, <2>1, <2>3, <4>2 DEF ToldInv, StateTold, Pending
      <4> QED
        BY <4>1, <4>2
    <3> QED
      BY <3>1 DEF StateTold
  <2>5. EarlierTold' /\ CurrentTold'
    BY <2>1 DEF EarlierTold, CurrentTold, PerProvider
  <2>6. FinalTold'
    <3>1. Requested' = {Openai}
      BY <1>1, <2>2 DEF Requested
    <3>2. Settled'
      BY <1>1, <2>3, <3>1 DEF Settled
    <3> QED
      BY <3>2 DEF FinalTold
  <2> QED
    BY <1>1, <2>3, <2>4, <2>5, <2>6, StillTold DEF ToldInv
<1> QED
  BY <1>2, <1>3 DEF WriteState

LEMMA PostToldStep ==
    ASSUME DailyRunAssumption, NoneAssumption, Typed, ControlInv, ToldInv, Announce \/ NotAnnounced
    PROVE  ToldInv'
<1>1. /\ pc = "post" /\ NextProvider
      /\ UNCHANGED <<lastRanked, lastSuccess, archive, ranked, request>>
      /\ announced \in [Providers -> Lists] /\ dropped \in [Providers -> Lists]
  BY DEF Announce, NotAnnounced, NextProvider, files, state, records, Typed, ObservedTyped
<1>2. \/ dropped' = dropped /\ announced' = [announced EXCEPT ![Current] = @ \cup newJobs]
      \/ announced' = announced /\ dropped' = [dropped EXCEPT ![Current] = @ \cup newJobs]
  BY DEF Announce, NotAnnounced, Lose
<1>3. request # None /\ Current \in Providers /\ ranked[Current] \in Lists
  BY <1>1, RequestTyped DEF ControlInv, AfterScore
<1>4. /\ \A p \in Providers : Told(p) \subseteq Told(p)'
      /\ \A p \in Providers : p = Current => Told(p) \cup newJobs \subseteq Told(p)'
  BY <1>1, <1>2, <1>3 DEF Told
<1>5. StateTold'
  <2>1. pc' # "post"
    BY <1>1 DEF NextProvider
  <2> QED
    BY <1>1, <1>3, <1>4, <2>1 DEF ToldInv, StateTold, Pending
<1>6. BaselineTold'
  BY <1>1, <1>4 DEF ToldInv, BaselineTold
<1>7. /\ k \in 1 .. Len(request.providers) /\ Len(request.providers) \in Nat
      /\ DOMAIN request.providers = 1 .. Len(request.providers)
      /\ \A n \in DOMAIN request.providers : request.providers[n] \in Providers
  BY <1>3, RequestTyped
<1>8. ASSUME NEW n \in 1 .. k
      PROVE  ListOf(ranked[request.providers[n]]) \subseteq Told(request.providers[n])'
  <2>1. n \in DOMAIN request.providers /\ request.providers[n] \in Providers
    BY <1>7
  <2>2. CASE n = k
    <3>1. request.providers[n] = Current
      BY <2>2 DEF Current
    <3>2. ranked[Current] \subseteq Told(Current) \cup newJobs
      BY <1>1 DEF ToldInv, CurrentTold
    <3>3. ListOf(ranked[Current]) = ranked[Current]
      BY <1>3, ListOfJobs
    <3>4. Told(Current) \cup newJobs \subseteq Told(request.providers[n])'
      BY <1>1, <1>4, <2>1, <3>1
    <3> QED
      BY <3>1, <3>2, <3>3, <3>4
  <2>3. CASE n # k
    <3>1. n \in 1 .. k - 1
      BY <1>7, <2>3
    <3>2. ListOf(ranked[request.providers[n]]) \subseteq Told(request.providers[n])
      BY <1>1, <3>1 DEF ToldInv, EarlierTold, PerProvider
    <3> QED
      BY <1>1, <1>4, <2>1, <3>2
  <2> QED
    BY <2>2, <2>3
<1>9. EarlierTold' /\ CurrentTold'
  <2>1. CASE IsLast
    BY <1>1, <2>1 DEF NextProvider, EarlierTold, CurrentTold, PerProvider
  <2>2. CASE ~IsLast
    <3>1. pc' = "classify" /\ k' = k + 1 /\ k' - 1 = k
      BY <1>1, <1>7, <2>2 DEF NextProvider
    <3>2. EarlierTold'
      BY <1>1, <1>8, <3>1 DEF EarlierTold
    <3> QED
      BY <3>1, <3>2 DEF CurrentTold
  <2> QED
    BY <2>1, <2>2
<1>10. FinalTold'
  <2>1. CASE IsLast
    <3>1. DOMAIN request.providers = 1 .. k
      BY <1>7, <2>1 DEF IsLast
    <3>2. Settled'
      BY <1>1, <1>8, <3>1 DEF Settled, Requested
    <3> QED
      BY <3>2 DEF FinalTold
  <2>2. CASE ~IsLast
    BY <1>1, <2>2 DEF NextProvider, FinalTold, Finalizing
  <2> QED
    BY <2>1, <2>2
<1> QED
  BY <1>5, <1>6, <1>9, <1>10 DEF ToldInv

\* The run directory gets lists that were told, or lists of a --scrape_only run.
LEMMA ArchivedTold ==
    ASSUME DailyRunAssumption, NoneAssumption, Typed, ControlInv, ToldInv,
           pc = "archive", UNCHANGED <<run, announced, lastSuccess>>, dropped' = ArchivedOnly,
           NEW n \in DOMAIN request.providers, NEW cut \in BOOLEAN, CopyToArchive(n, cut)
    PROVE  (\A p \in Providers : Told(p) \subseteq Told(p)') /\ BaselineTold'
<1>1. run \in Runs /\ request # None /\ dropped \in [Providers -> Lists] /\ run # None
  BY DEF ControlInv, Typed, ObservedTyped, Runs, DailyRunAssumption
<1>2. \A p \in Providers : Told(p) \subseteq Told(p)'
  BY <1>1 DEF Told, ArchivedOnly
<1>3. request.scrape_only => \A p \in Providers : ListOf(ranked[p]) \subseteq Told(p)'
  BY DEF Told, ArchivedOnly
<1>4. lastSuccess = run => request.scrape_only \/ Settled
  BY DEF ToldInv, FinalTold, Finalizing
<1>5. ASSUME lastSuccess = run, NEW p \in Providers
      PROVE  ListOf(archive'[run][p]) \subseteq Told(p)'
  <2>1. archive'[run][p] = IF Copied(n, p) THEN CopyOf(n, cut, p) ELSE archive[run][p]
    BY <1>1, CopyingToArchive
  <2>2. CASE Copied(n, p)
    <3>1. p \in Requested /\ CopyOf(n, cut, p) \in {ranked[p], Torn}
      BY <1>1, <2>2, Copies
    <3>2. ListOf(ranked[p]) \subseteq Told(p)'
      BY <1>2, <1>3, <1>4, <1>5, <3>1 DEF Settled
    <3> QED
      BY <2>1, <2>2, <3>1, <3>2, ListOfJobs
  <2>3. CASE ~Copied(n, p)
    <3>1. ListOf(archive[run][p]) \subseteq Told(p)
      BY <1>1, <1>5 DEF ToldInv, BaselineTold
    <3> QED
      BY <1>2, <2>1, <2>3, <3>1
  <2> QED
    BY <2>2, <2>3
<1>6. ASSUME lastSuccess # run, lastSuccess # None, NEW p \in Providers
      PROVE  ListOf(archive'[lastSuccess][p]) \subseteq Told(p)'
  <2>1. lastSuccess \in Runs \ {run}
    BY <1>6 DEF Typed, RecordsTyped
  <2>2. archive'[lastSuccess] = archive[lastSuccess]
    BY <1>1, <2>1, CopyingToArchive
  <2> QED
    BY <1>2, <1>6, <2>2 DEF ToldInv, BaselineTold
<1> QED
  BY <1>2, <1>5, <1>6 DEF BaselineTold

LEMMA PointerToldStep ==
    ASSUME DailyRunAssumption, NoneAssumption, Typed, ControlInv, FinalInv, ToldInv,
           WritePointer \/ Archive
    PROVE  ToldInv'
<1>1. /\ pc \in {"pointer", "archive"} /\ pc' \in {"archive", "publish"}
      /\ run \in Runs /\ request # None /\ fin \in Finalization
      /\ UNCHANGED <<run, request, k, fin, ranked, lastRanked, announced>>
      /\ dropped \in [Providers -> Lists] /\ announced \in [Providers -> Lists]
  BY DEF WritePointer, Archive, ControlInv, Finalizing, Typed, MemoryTyped, ObservedTyped, files,
         memory, observed
<1>2. (fin.final = "success" \/ lastSuccess = run) => request.scrape_only \/ Settled
  BY <1>1 DEF ToldInv, FinalTold, Finalizing
<1>3. EarlierTold' /\ CurrentTold'
  BY <1>1 DEF EarlierTold, CurrentTold, PerProvider
<1>4. CASE WritePointer
  <2>1. /\ pc = "pointer" /\ UNCHANGED <<dropped, archive>>
        /\ lastSuccess' = IF fin.final = "success" THEN run ELSE lastSuccess
    BY <1>4 DEF WritePointer, observed
  <2>2. \A p : Told(p)' = Told(p)
    BY <1>1, <2>1 DEF Told
  <2>3. fin.final = "success" => archive[run] = Everywhere(Absent)
    BY <1>1, <2>1 DEF FinalInv, Finalizing, UpToArchive, Finalization, Statuses
  <2>4. BaselineTold'
    BY <1>1, <2>1, <2>2, <2>3, ListOfJobs DEF ToldInv, BaselineTold, Everywhere
  <2>5. StateTold'
    BY <1>1, <2>2 DEF ToldInv, StateTold, Pending
  <2>6. FinalTold'
    BY <1>1, <1>2, <2>1, <2>2 DEF FinalTold, Settled, Requested
  <2> QED
    BY <1>3, <2>4, <2>5, <2>6 DEF ToldInv
<1>5. CASE Archive
  <2>1. /\ pc = "archive" /\ UNCHANGED lastSuccess /\ dropped' = ArchivedOnly
        /\ CopyToArchive(Len(request.providers), FALSE)
    BY <1>5 DEF Archive
  <2>2. Len(request.providers) \in DOMAIN request.providers
    BY <1>1, RequestTyped
  <2>3. (\A p \in Providers : Told(p) \subseteq Told(p)') /\ BaselineTold'
    BY <1>1, <2>1, <2>2, ArchivedTold
  <2>4. StateTold'
    BY <1>1, <2>3 DEF ToldInv, StateTold, Pending
  <2>5. FinalTold'
    <3>1. Requested \subseteq Providers /\ Requested' = Requested
      BY <1>1, RequestTyped DEF Requested
    <3>2. Settled => Settled'
      BY <1>1, <2>3, <3>1 DEF Settled
    <3> QED
      BY <1>1, <1>2, <2>1, <3>2 DEF FinalTold
  <2> QED
    BY <1>3, <2>3, <2>4, <2>5 DEF ToldInv
<1> QED
  BY <1>4, <1>5

\* What _finalize leaves when it does not come to its end.
LEMMA CutTold ==
    ASSUME DailyRunAssumption, NoneAssumption, Typed, ControlInv, FinalInv, ToldInv,
           pc # "idle", UNCHANGED <<run, announced>>, CutShort
    PROVE  (\A p \in Providers : Told(p) \cup Pending(p) \subseteq Told(p)') /\ BaselineTold'
<1>1. /\ request # None /\ run \in Runs /\ lastSuccess' = lastSuccess
      /\ dropped \in [Providers -> Lists]
  BY DEF ControlInv, CutShort, Typed, ObservedTyped
<1>2. dropped' = CASE pc = "post"         -> Lose(Current, newJobs)
                   [] archive' # archive -> ArchivedOnly
                   [] OTHER              -> dropped
  BY DEF CutShort
<1>3. pc # "archive" => archive' = archive
  BY CutShortLeaves
<1>4. CASE archive' = archive
  <2>1. dropped' = IF pc = "post" THEN [dropped EXCEPT ![Current] = @ \cup newJobs] ELSE dropped
    BY <1>2, <1>4 DEF Lose
  <2>2. \A p \in Providers : Told(p) \cup Pending(p) \subseteq Told(p)'
    BY <1>1, <2>1 DEF Told, Pending
  <2> QED
    BY <1>1, <1>4, <2>2 DEF ToldInv, BaselineTold
<1>5. CASE archive' # archive
  <2>1. pc = "archive" /\ dropped' = ArchivedOnly
    BY <1>2, <1>3, <1>5
  <2>2. \E n \in DOMAIN request.providers, cut \in BOOLEAN : CopyToArchive(n, cut)
    BY <1>5, <2>1 DEF CutShort
  <2>3. (\A p \in Providers : Told(p) \subseteq Told(p)') /\ BaselineTold'
    BY <1>1, <2>1, <2>2, ArchivedTold
  <2>4. \A p \in Providers : Pending(p) = {}
    BY <2>1 DEF Pending
  <2> QED
    BY <2>3, <2>4
<1> QED
  BY <1>4, <1>5

LEMMA RaisesToldStep ==
    ASSUME DailyRunAssumption, NoneAssumption, Typed, ControlInv, FinalInv, ToldInv, FinalizeRaises
    PROVE  ToldInv'
<1>1. /\ pc \in Finalizing /\ pc # "idle" /\ CutShort /\ request # None
      /\ UNCHANGED <<run, announced, lastRanked, ranked>> /\ pc' \in {"idle", "last_run"}
      /\ pc' = "last_run" => fin' = Entering("error") /\ request' = request
  BY DEF FinalizeRaises, Finalizing, Leave, Remain, ControlInv, files
<1>2. (\A p \in Providers : Told(p) \subseteq Told(p)') /\ BaselineTold' /\ lastSuccess' = lastSuccess
  BY <1>1, CutTold DEF CutShort
<1>3. StateTold'
  BY <1>1, <1>2 DEF ToldInv, StateTold, Pending, Finalizing
<1>4. FinalTold'
  <2>1. Requested \subseteq Providers
    BY <1>1, RequestTyped DEF Requested
  <2>2. pc' = "last_run" => Requested' = Requested /\ (Settled => Settled')
    BY <1>1, <1>2, <2>1 DEF Requested, Settled
  <2>3. pc' = "last_run" => fin'.final # "success"
    BY <1>1 DEF Entering
  <2> QED
    BY <1>1, <1>2, <2>2, <2>3 DEF ToldInv, FinalTold, Finalizing
<1> QED
  BY <1>1, <1>2, <1>3, <1>4 DEF ToldInv, EarlierTold, CurrentTold, PerProvider

LEMMA CrashToldStep ==
    ASSUME DailyRunAssumption, NoneAssumption, Typed, ControlInv, FinalInv, ToldInv, Crash
    PROVE  ToldInv'
<1>1. /\ pc # "idle" /\ pc' = "idle" /\ CutShort
      /\ UNCHANGED <<run, announced>> /\ lastRanked \in [Providers -> File]
  BY DEF Crash, Leave, Typed, StateTyped
<1>2. (\A p \in Providers : Told(p) \cup Pending(p) \subseteq Told(p)') /\ BaselineTold'
  BY <1>1, CutTold
<1>3. \A p \in Providers : lastRanked'[p] \in {lastRanked[p], Torn}
  BY <1>1 DEF Crash
<1>4. StateTold'
  <2>1. ASSUME NEW p \in Providers
        PROVE  ListOf(lastRanked'[p]) \subseteq Told(p)'
    BY <1>2, <1>3, ListOfJobs DEF ToldInv, StateTold
  <2> QED
    BY <2>1 DEF StateTold
<1> QED
  BY <1>1, <1>2, <1>4
     DEF ToldInv, EarlierTold, CurrentTold, FinalTold, PerProvider, Finalizing

LEMMA ToldStep ==
    ASSUME DailyRunAssumption, NoneAssumption, Typed, ControlInv, UnfinishedInv, FinalInv, ToldInv,
           [Next]_vars
    PROVE  ToldInv'
<1>1. CASE UNCHANGED vars \/ \E p \in Providers, listed \in Lists : SiteChanges(p, listed)
  <2>1. UNCHANGED <<run, request, k, pc, ranked, lastRanked, lastSuccess, archive, newJobs, fin,
                    announced, dropped>>
    BY <1>1 DEF vars, SiteChanges, files, state, records, memory, observed
  <2>2. (\A p : Told(p)' = Told(p) /\ Pending(p)' = Pending(p)) /\ Settled' = Settled
    BY <2>1 DEF Told, Pending, Current, Settled, Requested
  <2>3. Current' = Current
    BY <2>1 DEF Current
  <2>4. StateTold' /\ BaselineTold'
    BY <2>1, <2>2 DEF ToldInv, StateTold, BaselineTold
  <2>5. EarlierTold' /\ CurrentTold' /\ FinalTold'
    BY <2>1, <2>2, <2>3 DEF ToldInv, EarlierTold, CurrentTold, FinalTold
  <2> QED
    BY <2>4, <2>5 DEF ToldInv
<1>2. CASE \E q \in Requests : Start(q) \/ SnapshotMissing(q)
  BY <1>2, StartToldStep
<1>3. CASE \/ ScrapeOne \/ AfterScrape \/ Classify \/ Enrich \/ Augment \/ WriteAlerts
           \/ WriteLastSeen \/ StageFails
  BY <1>3, StageToldStep
<1>4. CASE Score
  BY <1>4, ScoreToldStep
<1>5. CASE Diff \/ SuppressDiff
  BY <1>5, DiffToldStep
<1>6. CASE WriteState
  BY <1>6, StateToldStep
<1>7. CASE Announce \/ NotAnnounced
  BY <1>7, PostToldStep
<1>8. CASE \/ WriteLastRun \/ MetadataFails \/ PersistReport \/ PublishRun \/ KeepHistory
           \/ WriteHealth \/ Return
  BY <1>8, FinalToldStep
<1>9. CASE WritePointer \/ Archive
  BY <1>9, PointerToldStep
<1>10. CASE FinalizeRaises
  BY <1>10, RaisesToldStep
<1>11. CASE Crash
  BY <1>11, CrashToldStep
<1> QED
  BY <1>1, <1>2, <1>3, <1>4, <1>5, <1>6, <1>7, <1>8, <1>9, <1>10, <1>11 DEF Next, Step

-----------------------------------------------------------------------------
(* The theorems. *)

Inv == Typed /\ ControlInv /\ OnRecord /\ ReadableInv /\ LatestInv /\ AlertInv /\ ToldInv

LEMMA InitInv ==
    ASSUME DailyRunAssumption, NoneAssumption, Init
    PROVE  Inv
<1>1. Typed
  <2>1. OutsideTyped
    BY DEF Init, OutsideTyped, DailyRunAssumption, AllFaults
  <2>2. FilesTyped /\ AiTyped /\ StateTyped /\ ObservedTyped
    BY DEF Init, Everywhere, FilesTyped, AiTyped, StateTyped, ObservedTyped, File, Lists
  <2>3. RecordsTyped
    BY DEF Init, Everywhere, RecordsTyped, File
  <2>4. ProcessTyped
    BY DEF Init, ProcessTyped, DailyRunAssumption
  <2>5. MemoryTyped
    BY DEF Init, MemoryTyped, Lists
  <2> QED
    BY <2>1, <2>2, <2>3, <2>4, <2>5 DEF Typed
<1>2. ControlInv
  BY DEF Init, ControlInv, Finalizing, AfterScore, PerProvider, ScoringOnly
<1>3. UnfinishedInv
  BY DEF Init, UnfinishedInv, Stages, Runs
<1>4. FinalInv
  BY DEF Init, FinalInv, Finalizing
<1>5. RecordInv
  <2>1. Reported /\ HealthMatchesReport
    BY NoneAssumption DEF Init, Reported, HealthMatchesReport, NoneAssumption
  <2>2. pc = "idle" /\ exit = None /\ lastSuccess = None /\ None # "zero"
    BY DEF Init, NoneAssumption
  <2> QED
    BY <2>1, <2>2 DEF RecordInv, Finalizing
<1>6. AlertInv
  BY DEF Init, AlertInv, AlertsPrecedeLastSeen, Everywhere
<1>7. ToldInv
  <2>1. StateTold
    BY ListOfJobs DEF Init, StateTold, Everywhere
  <2>2. BaselineTold /\ EarlierTold /\ CurrentTold /\ FinalTold
    BY DEF Init, BaselineTold, EarlierTold, CurrentTold, FinalTold, PerProvider, Finalizing
  <2> QED
    BY <2>1, <2>2 DEF ToldInv
<1>8. ReadableInv /\ LatestInv
  <2>1. ReadableInv
    <3>1. pc = "idle" /\ exit = None /\ None # "zero"
      BY DEF Init, NoneAssumption
    <3>2. \A p \in Providers : ranked[p] # Torn
      BY DEF Init, Everywhere, DailyRunAssumption
    <3>3. \A r \in Runs : health[r] \notin {"success", "partial", "failed"}
      BY NoneAssumption DEF Init, NoneAssumption, Statuses
    <3> QED
      BY <3>1, <3>2, <3>3 DEF ReadableInv, AfterReport, AfterArchive, Finalizing
  <2>2. LatestInv
    BY DEF Init, LatestInv, UpToArchive, Stages, Everywhere
  <2> QED
    BY <2>1, <2>2
<1> QED
  BY <1>1, <1>2, <1>3, <1>4, <1>5, <1>6, <1>7, <1>8 DEF Inv, OnRecord

\* The induction of all of the below: typing needs the control and what
\* _finalize knows, what was told needs the records, and nothing needs what
\* was told.
THEOREM Invariance == Spec => []Inv
<1>1. Init => Inv
  BY InitInv, DailyRunAssumption, NoneAssumption
<1>2. Inv /\ [Next]_vars => Inv'
  <2> SUFFICES ASSUME Inv, [Next]_vars
               PROVE  Inv'
    OBVIOUS
  <2>1. Typed'
    BY TypedStep, DailyRunAssumption DEF Inv, OnRecord
  <2>2. ControlInv'
    BY ControlStep, DailyRunAssumption, NoneAssumption DEF Inv
  <2>3. OnRecord'
    BY RecordsStep, DailyRunAssumption, NoneAssumption DEF Inv
  <2>4. AlertInv'
    BY AlertStep, DailyRunAssumption DEF Inv
  <2>5. ToldInv'
    BY ToldStep, DailyRunAssumption, NoneAssumption DEF Inv, OnRecord
  <2>6. ReadableInv'
    BY ReadableStep, DailyRunAssumption, NoneAssumption DEF Inv
  <2>7. LatestInv'
    BY LatestStep, DailyRunAssumption, NoneAssumption DEF Inv
  <2> QED
    BY <2>1, <2>2, <2>3, <2>4, <2>5, <2>6, <2>7 DEF Inv
<1> QED
  BY <1>1, <1>2, PTL DEF Spec

\* The daily run keeps its files, its records and its memory well formed.
THEOREM TypeCorrect == Spec => []TypeOK
<1>1. Inv => TypeOK
  BY TypedIsTypeOK DEF Inv
<1> QED
  BY <1>1, Invariance, PTL

\* Between two runs every posting that the next run takes for known was sent,
\* or was lost by one of the steps that the property names.
THEOREM NothingLostUnnoticed == Spec => []LostOnlyInKnownWays
<1>1. Inv => LostOnlyInKnownWays
  <2>1. ASSUME Inv, pc = "idle", NEW p \in Providers
        PROVE  /\ ListOf(lastRanked[p]) \subseteq announced[p] \cup dropped[p]
               /\ lastSuccess # None =>
                     ListOf(archive[lastSuccess][p]) \subseteq announced[p] \cup dropped[p]
    BY <2>1 DEF Inv, ToldInv, StateTold, BaselineTold, Told, Pending
  <2> QED
    BY <2>1 DEF LostOnlyInKnownWays
<1> QED
  BY <1>1, Invariance, PTL

\* No posting enters last_seen without having been in an alerts file.
THEOREM AlertsFirst == Spec => []AlertsPrecedeLastSeen
<1>1. Inv => AlertsPrecedeLastSeen
  BY DEF Inv, AlertInv
<1> QED
  BY <1>1, Invariance, PTL

\* The success pointer, the history pointers, the health artifacts and what
\* replaced latest/ in the bucket are of runs whose report was written, also when
\* it was cut short since; what runs with a health artifact and runs that
\* returned 0 have left can be read.
THEOREM PointersAreBacked == Spec => []PointersResolve
<1>1. Inv => PointersResolve
  BY DEF Inv, OnRecord, RecordInv, Reported, ReadableInv, PointersResolve
<1> QED
  BY <1>1, Invariance, PTL

\* A healthy run has no failed report, unless a required publication failed.
THEOREM HealthAgrees == Spec => []HealthMatchesReport
<1>1. Inv => HealthMatchesReport
  BY DEF Inv, OnRecord, RecordInv, HealthMatchesReport
<1> QED
  BY <1>1, Invariance, PTL

\* Between two runs the witnesses of a success agree, and a run that is compared
\* with the last success says so in its delta.
THEOREM SuccessesAreOne == Spec => []SuccessesAgree
<1>1. Inv => SuccessesAgree
  <2> SUFFICES ASSUME Inv
               PROVE  SuccessesAgree
    OBVIOUS
  <2>1. ASSUME pc = "idle"
        PROVE  /\ exit = "zero" /\ report[run] # None =>
                     lastRun.status \in {"success", "short_circuit"}
               /\ lastSuccess # None =>
                     \/ report[lastSuccess] \in {"success", Torn}
                     \/ setting.publish = "required" \/ "finalize" \in Faults
    BY <2>1 DEF Inv, OnRecord, RecordInv
  <2>2. ASSUME pc = "diff", HasSuccess(Current), Baseline(Current) # Torn,
               latest[Current].by # None, report[latest[Current].by] = "success"
        PROVE  DeltaBaseline(Current) = Baseline(Current)
    <3>1. Current \in Providers
      BY <2>2, DailyRunAssumption, RequestTyped DEF Inv, ControlInv
    <3>2. /\ lastSuccess \in Runs /\ archive[lastSuccess][Current] # Absent
          /\ Baseline(Current) = archive[lastSuccess][Current]
      BY <2>2 DEF HasSuccess, Baseline, Inv, Typed, RecordsTyped
    <3>3. /\ latest[Current].by >= lastSuccess /\ lastSuccess >= latest[Current].by
          /\ archive[latest[Current].by][Current] \in {Absent, Torn, latest[Current].ranked}
      BY <2>2, <3>1, <3>2 DEF Inv, LatestInv
    <3>4. latest[Current].by \in Nat /\ lastSuccess \in Nat
      BY <2>2, <3>1, <3>2, DailyRunAssumption, LatestTyped DEF Inv, Runs
    <3>5. latest[Current].by = lastSuccess
      BY <3>3, <3>4
    <3> QED
      BY <2>2, <3>2, <3>3, <3>5 DEF DeltaBaseline
  <2> QED
    BY <2>1, <2>2 DEF SuccessesAgree
<1> QED
  BY <1>1, Invariance, PTL

-----------------------------------------------------------------------------
(* What is ranked.  This induction uses the typing of the one above. *)

Scraped(p) == raw[p] \in Lists

ScrapedInv ==
    /\ pc = "scrape" => \A n \in 1 .. k - 1 : Scraped(request.providers[n])
    /\ pc \in {"scraped"} \cup PerProvider => \A p \in Requested : Scraped(p)

\* Each stage found what the stage before it has just written.
StageInv ==
    /\ pc = "enrich" => ~request.no_enrich
    /\ pc = "augment" => request.ai
    /\ pc \in PerProvider \ {"classify"} => labeled[Current] = raw[Current]
    /\ pc \in {"augment", "score"} =>
          IF request.no_enrich THEN labeledNewer[Current] ELSE enriched[Current] = raw[Current]
    /\ pc = "score" /\ request.ai /\ ~request.no_enrich => aiFile[Current] = raw[Current]
    /\ pc \in AfterScore =>
          /\ ranked[Current] \subseteq raw[Current]
          /\ ~request.us_only => ranked[Current] = raw[Current]

RankInv == ScrapedInv /\ StageInv

LEMMA ScoredInput ==
    ASSUME DailyRunAssumption, Typed, ControlInv, RankInv, pc = "score"
    PROVE  ScoreInput(Current) = raw[Current]
<1>1. Current \in Providers /\ Current \in Requested /\ request # None
  BY RequestTyped DEF ControlInv, Current, Requested
<1>2. raw[Current] \in Lists /\ labeled[Current] = raw[Current] /\ raw[Current] # Absent
  BY <1>1 DEF RankInv, ScrapedInv, StageInv, PerProvider, Scraped, DailyRunAssumption, Lists
<1>3. CASE request.no_enrich
  <2>1. ~TakesEnriched(Current)
    BY <1>2, <1>3 DEF TakesEnriched, RankInv, StageInv
  <2> QED
    BY <1>2, <2>1 DEF ScoreInput, ContentOf, InputFile
<1>4. CASE ~request.no_enrich
  <2>1. /\ TakesEnriched(Current)
        /\ enriched[Current] = raw[Current] /\ (request.ai => aiFile[Current] = raw[Current])
    BY <1>4 DEF TakesEnriched, RankInv, StageInv
  <2> QED
    BY <2>1 DEF ScoreInput, ContentOf, InputFile
<1> QED
  BY <1>3, <1>4

LEMMA RankStep ==
    ASSUME DailyRunAssumption, NoneAssumption, Typed, ControlInv, RankInv, [Next]_vars
    PROVE  RankInv'
<1>1. ASSUME pc' \notin {"scrape", "scraped"} \cup PerProvider
      PROVE  RankInv'
  BY <1>1 DEF RankInv, ScrapedInv, StageInv, PerProvider, AfterScore
<1>2. ASSUME pc # "idle"
      PROVE  /\ request # None
             /\ k \in 1 .. Len(request.providers) /\ Len(request.providers) \in Nat
             /\ DOMAIN request.providers = 1 .. Len(request.providers)
             /\ Current \in Providers /\ Current \in Requested
             /\ \A n \in DOMAIN request.providers : request.providers[n] \in Providers
  <2>1. request # None
    BY <1>2 DEF ControlInv
  <2>2. /\ request.providers \in Seq(Providers) /\ Current \in Providers
        /\ DOMAIN request.providers = 1 .. Len(request.providers)
        /\ k \in 1 .. Len(request.providers) /\ Len(request.providers) \in Nat
    BY <2>1, RequestTyped
  <2>3. Current \in Requested
    BY <2>2 DEF Current, Requested
  <2>4. \A n \in DOMAIN request.providers : request.providers[n] \in Providers
    BY <2>2
  <2> QED
    BY <2>1, <2>2, <2>3, <2>4
<1>3. CASE ScrapeOne
  <2>1. /\ pc = "scrape" /\ request' = request /\ site[Current] \in Lists /\ {} \in Lists
        /\ \/ IsLast /\ pc' = "scraped" /\ k' = 1
           \/ ~IsLast /\ pc' = "scrape" /\ k' = k + 1
    BY <1>2, <1>3 DEF ScrapeOne, Typed, OutsideTyped, Lists
  <2>2. \/ raw' = [raw EXCEPT ![Current] = site[Current]]
        \/ raw' = [raw EXCEPT ![Current] = {}]
    BY <1>3 DEF ScrapeOne
  <2>3. \A p \in Providers : Scraped(p) \/ p = Current => Scraped(p)'
    BY <2>1, <2>2 DEF Scraped, Typed, FilesTyped, Lists
  <2>4. \A n \in 1 .. k : Scraped(request.providers[n])'
    <3>1. ASSUME NEW n \in 1 .. k
          PROVE  Scraped(request.providers[n])'
      <4>1. request.providers[n] \in Providers /\ request.providers'[n] = request.providers[n]
        BY <1>2, <2>1, <3>1
      <4>2. Scraped(request.providers[n]) \/ request.providers[n] = Current
        BY <1>2, <2>1 DEF RankInv, ScrapedInv, Current
      <4> QED
        BY <2>1, <2>3, <4>1, <4>2 DEF Scraped
    <3> QED
      BY <3>1
  <2>5. ScrapedInv'
    <3>1. CASE IsLast
      <4>1. DOMAIN request.providers = 1 .. k
        BY <1>2, <2>1, <3>1 DEF IsLast
      <4> QED
        BY <2>1, <2>4, <3>1, <4>1 DEF ScrapedInv, Requested, Scraped
    <3>2. CASE ~IsLast
      <4>1. k' - 1 = k
        BY <1>2, <2>1, <3>2
      <4> QED
        BY <2>1, <2>4, <3>2, <4>1 DEF ScrapedInv, PerProvider, Scraped
    <3> QED
      BY <3>1, <3>2
  <2> QED
    BY <2>1, <2>5 DEF RankInv, StageInv, PerProvider, AfterScore
<1>4. ASSUME pc \in {"scraped"} \cup PerProvider, UNCHANGED <<raw, request>>,
             pc' \in {"scraped"} \cup PerProvider
      PROVE  ScrapedInv'
  BY <1>4 DEF RankInv, ScrapedInv, Requested, Scraped, PerProvider
<1>5. ASSUME pc \in {"scraped", "post"}, UNCHANGED <<raw, request>>, pc' = "classify"
      PROVE  RankInv'
  BY <1>4, <1>5 DEF RankInv, StageInv, PerProvider, AfterScore
<1>6. CASE Classify
  <2>1. /\ pc = "classify" /\ UNCHANGED <<raw, enriched, request, k>> /\ Current' = Current
        /\ labeled' = [labeled EXCEPT ![Current] = raw[Current]]
        /\ labeledNewer' = [labeledNewer EXCEPT ![Current] = TRUE]
        /\ pc' \in {"enrich", "augment", "score"}
        /\ pc' # "enrich" => request.no_enrich
        /\ pc' = "enrich" => ~request.no_enrich
        /\ pc' = "augment" => request.ai
    BY <1>6 DEF Classify, AfterEnrich, Current
  <2>2. labeled'[Current] = raw[Current] /\ labeledNewer'[Current] = TRUE
    BY <1>2, <2>1 DEF Typed, FilesTyped
  <2>3. StageInv'
    BY <2>1, <2>2 DEF StageInv, AfterScore
  <2> QED
    BY <1>4, <2>1, <2>3 DEF RankInv, PerProvider
<1>7. CASE Enrich
  <2>1. /\ pc = "enrich" /\ UNCHANGED <<raw, labeled, request, k>> /\ Current' = Current
        /\ enriched' = [enriched EXCEPT ![Current] = labeled[Current]]
        /\ pc' \in {"augment", "score"}
        /\ pc' = "score" => ~request.ai
        /\ pc' = "augment" => request.ai
    BY <1>7 DEF Enrich, AfterEnrich, Current
  <2>2. enriched'[Current] = raw[Current] /\ labeled[Current] = raw[Current] /\ ~request.no_enrich
    BY <1>2, <2>1 DEF Typed, FilesTyped, RankInv, StageInv, PerProvider
  <2>3. StageInv'
    BY <2>1, <2>2 DEF StageInv, AfterScore
  <2> QED
    BY <1>4, <2>1, <2>3 DEF RankInv, PerProvider
<1>8. CASE Augment
  <2>1. CASE pc = "augment"
    <3>1. /\ UNCHANGED <<raw, labeled, enriched, labeledNewer, request, k>> /\ Current' = Current
          /\ aiFile' = [aiFile EXCEPT ![Current] = enriched[Current]] /\ pc' = "score"
      BY <1>8, <2>1 DEF Augment, Current
    <3>2. aiFile'[Current] = enriched[Current]
      BY <1>2, <2>1, <3>1 DEF Typed, AiTyped
    <3>3. StageInv'
      BY <2>1, <3>1, <3>2 DEF RankInv, StageInv, PerProvider, AfterScore
    <3> QED
      BY <1>4, <2>1, <3>1, <3>3 DEF RankInv, PerProvider
  <2>2. CASE pc = "reaugment"
    BY <1>1, <1>8, <2>2 DEF Augment, PerProvider
  <2> QED
    BY <1>8, <2>1, <2>2 DEF Augment
<1>9. CASE Score
  <2>1. CASE pc = "score"
    <3>1. /\ UNCHANGED <<raw, labeled, request, k>> /\ Current' = Current /\ pc' = "alerts"
          /\ Scored = Current
      BY <1>9, <2>1 DEF Score, Current, Scored
    <3>2. /\ ranked'[Current] \subseteq raw[Current]
          /\ ~request.us_only => ranked'[Current] = raw[Current]
      <4>1. ScoreInput(Current) = raw[Current] /\ ranked \in [Providers -> File]
        BY <2>1, ScoredInput DEF Typed, FilesTyped
      <4>2. \E kept \in IF request.us_only THEN SUBSET raw[Current] ELSE {raw[Current]} :
               ranked' = [ranked EXCEPT ![Current] =
                             IF kept = {} /\ raw[Current] # {} THEN raw[Current] ELSE kept]
        BY <1>9, <3>1, <4>1 DEF Score
      <4> QED
        BY <1>2, <2>1, <4>1, <4>2
    <3>3. StageInv'
      BY <2>1, <3>1, <3>2 DEF RankInv, StageInv, PerProvider, AfterScore
    <3> QED
      BY <1>4, <2>1, <3>1, <3>3 DEF RankInv, PerProvider
  <2>2. CASE pc = "rescore"
    BY <1>1, <1>9, <2>2 DEF Score, PerProvider
  <2> QED
    BY <1>9, <2>1, <2>2 DEF Score
<1>10. CASE WriteAlerts \/ WriteLastSeen \/ Diff \/ SuppressDiff \/ WriteState
  <2>1. UNCHANGED <<raw, labeled, ranked, request, k>> /\ Current' = Current
    BY <1>10 DEF WriteAlerts, WriteLastSeen, Diff, SuppressDiff, WriteState, files, Current
  <2>2. CASE pc = "restate"
    BY <1>1, <1>10, <2>2 DEF WriteAlerts, WriteLastSeen, Diff, SuppressDiff, WriteState, PerProvider
  <2>3. CASE pc # "restate"
    <3>1. pc \in AfterScore /\ pc' \in AfterScore \ {"alerts"}
      BY <1>10, <2>3
         DEF WriteAlerts, WriteLastSeen, Diff, SuppressDiff, WriteState, AfterScore
    <3>2. StageInv'
      BY <2>1, <3>1 DEF RankInv, StageInv, PerProvider, AfterScore
    <3> QED
      BY <1>4, <2>1, <3>1, <3>2 DEF RankInv, PerProvider, AfterScore
  <2> QED
    BY <2>2, <2>3
<1>11. CASE AfterScrape \/ Announce \/ NotAnnounced
  <2>1. UNCHANGED <<raw, request>> /\ pc \in {"scraped", "post"} /\ pc' \in {"classify", "last_run"}
    BY <1>11 DEF AfterScrape, Announce, NotAnnounced, NextProvider, files
  <2> QED
    BY <1>1, <1>5, <2>1 DEF PerProvider
<1>12. CASE \E q \in Requests : Start(q) \/ SnapshotMissing(q)
  <2>1. k = 1 /\ k' = k /\ pc' \in {"scrape", "last_run", "reaugment", "rescore"}
    BY <1>12 DEF Start, SnapshotMissing, ControlInv, Typed, ProcessTyped
  <2> QED
    BY <2>1 DEF RankInv, ScrapedInv, StageInv, PerProvider, AfterScore
<1>13. CASE UNCHANGED vars \/ \E p \in Providers, listed \in Lists : SiteChanges(p, listed)
  <2>1. UNCHANGED <<raw, labeled, labeledNewer, enriched, aiFile, ranked, request, k, pc>>
    BY <1>13 DEF vars, SiteChanges, files, aiState
  <2> QED
    BY <2>1 DEF RankInv, ScrapedInv, StageInv, Scraped, Requested, Current
<1>14. CASE \/ StageFails \/ WriteLastRun \/ MetadataFails \/ PersistReport \/ WritePointer
            \/ Archive \/ PublishRun \/ KeepHistory \/ WriteHealth \/ Return
            \/ FinalizeRaises \/ Crash
  BY <1>1, <1>14 DEF StageFails, WriteLastRun, MetadataFails, PersistReport, WritePointer, Archive,
                     PublishRun, KeepHistory, WriteHealth, Return, FinalizeRaises, Crash, Leave,
                     PerProvider
<1> QED
  BY <1>3, <1>6, <1>7, <1>8, <1>9, <1>10, <1>11, <1>12, <1>13, <1>14 DEF Next, Step

\* A run that takes a provider through its stages ranks what it scraped, and
\* its report names the file that was scored.
THEOREM RanksItsScrape == Spec => []RanksWhatItScraped
<1>1. Init => RankInv
  BY NoneAssumption DEF Init, RankInv, ScrapedInv, StageInv, PerProvider, AfterScore
<1>2. Inv /\ RankInv /\ [Next]_vars => RankInv'
  BY RankStep, DailyRunAssumption, NoneAssumption DEF Inv
<1>3. RankInv => RanksWhatItScraped
  <2>1. ASSUME pc \in {"score", "rescore"}, ~InputFails, request.ai => Scored = Openai
        PROVE  SelectedFile(Scored) = InputFile(Scored)
    <3>1. /\ ScoreInput(Scored) # Absent
          /\ TakesEnriched(Scored) => enriched[Scored] # Absent
      BY <2>1 DEF InputFails
    <3>2. InputFile(Scored) = "ai" => aiFile[Scored] # Absent
      BY <3>1 DEF ScoreInput, ContentOf
    <3>3. InputFile(Scored) = "enriched" /\ Scored = Openai => ~request.ai
      BY DEF InputFile
    <3> QED
      BY <2>1, <3>1, <3>2, <3>3 DEF SelectedFile, InputFile, NewestFile, TakesEnriched
  <2> QED
    BY <2>1 DEF RankInv, StageInv, AfterScore, RanksWhatItScraped
<1> QED
  BY <1>1, <1>2, <1>3, Invariance, PTL DEF Spec

-----------------------------------------------------------------------------
(* The short circuit.  What the files of openai hold, from one run to the  *)
(* next, in a deployment that is undisturbed; this induction uses the two  *)
(* above.                                                                  *)

Whole(file) == file \notin {Absent, Torn}
Within(file, other) == Whole(file) /\ Whole(other) => file \subseteq other

\* The site has gained postings since each of these files was made.
InOrder ==
    /\ Within(enriched[Openai], labeled[Openai])
    /\ Within(enriched[Openai], raw[Openai])
    /\ Within(enriched[Openai], site[Openai])
    /\ Within(labeled[Openai], raw[Openai])
    /\ Within(labeled[Openai], site[Openai])
    /\ Within(raw[Openai], site[Openai])

Older(file) ==
    /\ Within(file, enriched[Openai])
    /\ Within(file, labeled[Openai])
    /\ Within(file, raw[Openai])
    /\ Within(file, site[Openai])

ListsInOrder == InOrder /\ Older(ranked[Openai]) /\ Older(aiFile[Openai])

IsFresh == Whole(enriched[Openai]) /\ ranked[Openai] = enriched[Openai]

TakenBefore == \E n \in 1 .. k - 1 : request.providers[n] = Openai

FreshOnceTaken ==
    /\ pc \in PerProvider /\ TakenBefore => IsFresh
    /\ pc \in AfterScore /\ Current = Openai => IsFresh
    /\ pc = "restate" => IsFresh
    /\ pc = "last_run" /\ fin.final = "success" => IsFresh

AsksForAi == \E q \in Requests : q.ai

\* Where the AI stage is asked for, it always finds enriched postings.
EnrichedThere ==
    AsksForAi =>
        /\ pc \in Finalizing \cup {"reaugment", "rescore"} => Whole(enriched[Openai])
        /\ lastRun # None => Whole(lastRun.hashes.enriched)

\* A run that is recorded to have run the AI stage has left the answers to the
\* enriched postings that it recorded.
AnswersAreNew ==
    /\ aiRan => /\ request # None /\ request.ai
                /\ pc \notin {"scrape", "scraped"}
                /\ Whole(enriched[Openai]) /\ aiFile[Openai] = enriched[Openai]
    /\ aiRan /\ pc \in {"classify", "enrich", "augment"} => Current # Openai
    /\ pc \in {"augment", "reaugment"} => request.ai
    /\ pc \in PerProvider /\ request.ai /\ (k > 1 \/ pc \in {"score"} \cup AfterScore) => aiRan
    /\ pc = "rescore" /\ request.ai => aiFile[Openai] = enriched[Openai]
    /\ lastRun # None /\ lastRun.ai_ran =>
          Whole(lastRun.hashes.enriched) /\ lastRun.ai = lastRun.hashes.enriched

\* What a success has recorded is in every list that was written since.
SuccessRecorded ==
    lastRun # None /\ lastRun.status = "success" =>
        /\ Whole(lastRun.hashes.enriched) /\ Older(lastRun.hashes.enriched)
        /\ Whole(ranked[Openai]) /\ lastRun.hashes.enriched \subseteq ranked[Openai]

FreshInv == ListsInOrder /\ FreshOnceTaken /\ EnrichedThere /\ AnswersAreNew /\ SuccessRecorded

LEMMA RequestPlain ==
    ASSUME DailyRunAssumption, Typed, ControlInv, Undisturbed, pc # "idle"
    PROVE  /\ request \in Requests /\ request # None
           /\ ~request.scrape_only /\ ~request.no_enrich /\ ~request.us_only
           /\ \E n \in 1 .. Len(request.providers) : request.providers[n] = Openai
           /\ request.ai => /\ AsksForAi /\ "stage" \notin Faults
                            /\ request.providers[1] = Openai
<1>1. request # None
  BY DEF ControlInv
<1>2. request \in Requests /\ DOMAIN request.providers = 1 .. Len(request.providers)
  BY <1>1, RequestTyped
<1> QED
  BY <1>1, <1>2 DEF Undisturbed, AsksForAi

OpenaiFiles == <<site[Openai], raw[Openai], labeled[Openai], enriched[Openai], ranked[Openai],
                 aiFile[Openai]>>

\* What a step may do to the files of openai.
OneFile ==
    \/ UNCHANGED OpenaiFiles
    \/ /\ pc = "scrape" /\ raw'[Openai] = site[Openai]
       /\ UNCHANGED <<site[Openai], labeled[Openai], enriched[Openai], ranked[Openai],
                      aiFile[Openai]>>
    \/ /\ pc = "classify" /\ Current = Openai
       /\ Whole(raw[Openai]) /\ labeled'[Openai] = raw[Openai]
       /\ UNCHANGED <<site[Openai], raw[Openai], enriched[Openai], ranked[Openai], aiFile[Openai]>>
    \/ /\ pc = "enrich" /\ Current = Openai
       /\ Whole(raw[Openai]) /\ labeled[Openai] = raw[Openai] /\ enriched'[Openai] = raw[Openai]
       /\ UNCHANGED <<site[Openai], raw[Openai], labeled[Openai], ranked[Openai], aiFile[Openai]>>
    \/ /\ (pc = "augment" /\ Current = Openai) \/ pc = "reaugment"
       /\ Whole(enriched[Openai]) /\ aiFile'[Openai] = enriched[Openai]
       /\ UNCHANGED <<site[Openai], raw[Openai], labeled[Openai], enriched[Openai],
                      ranked[Openai]>>
    \/ /\ (pc = "score" /\ Current = Openai) \/ pc = "rescore"
       /\ Whole(enriched[Openai]) /\ ranked'[Openai] = enriched[Openai]
       /\ UNCHANGED <<site[Openai], raw[Openai], labeled[Openai], enriched[Openai],
                      aiFile[Openai]>>
    \/ /\ pc' = "idle"
       /\ raw'[Openai] \in {raw[Openai], Torn} /\ labeled'[Openai] \in {labeled[Openai], Torn}
       /\ enriched'[Openai] \in {enriched[Openai], Torn}
       /\ UNCHANGED <<site[Openai], ranked[Openai], aiFile[Openai]>>
    \/ /\ site[Openai] \subseteq site'[Openai] /\ UNCHANGED pc
       /\ UNCHANGED <<raw[Openai], labeled[Openai], enriched[Openai], ranked[Openai],
                      aiFile[Openai]>>

LEMMA RanksInput ==
    ASSUME DailyRunAssumption, Typed, ControlInv, Undisturbed, Score
    PROVE  ranked' = [ranked EXCEPT ![Scored] = ScoreInput(Scored)]
<1>1. ~request.us_only
  BY RequestPlain DEF Score
<1>2. \E kept \in {ScoreInput(Scored)} :
         ranked' = [ranked EXCEPT ![Scored] =
                       IF kept = {} /\ ScoreInput(Scored) # {} THEN ScoreInput(Scored) ELSE kept]
  BY <1>1 DEF Score
<1> QED
  BY <1>2

LEMMA ScoredEnriched ==
    ASSUME DailyRunAssumption, NoneAssumption, Typed, ControlInv, RankInv, Undisturbed,
           AnswersAreNew, (pc = "score" /\ Current = Openai) \/ pc = "rescore"
    PROVE  Scored = Openai /\ ScoreInput(Openai) = enriched[Openai]
<1>1. ~request.no_enrich
  BY RequestPlain
<1>2. Scored = Openai
  BY DEF Scored
<1>3. request.ai => aiFile[Openai] = enriched[Openai]
  BY <1>1 DEF RankInv, StageInv, AnswersAreNew
<1>4. TakesEnriched(Openai)
  BY <1>1 DEF TakesEnriched
<1> QED
  BY <1>2, <1>3, <1>4 DEF ScoreInput, ContentOf, InputFile

LEMMA OpenaiMoves ==
    ASSUME DailyRunAssumption, NoneAssumption, Typed, ControlInv, RankInv, Undisturbed,
           AnswersAreNew, [Next]_vars
    PROVE  OneFile
<1>1. /\ Openai \in Providers
      /\ site \in [Providers -> Lists] /\ raw \in [Providers -> File]
      /\ labeled \in [Providers -> File] /\ enriched \in [Providers -> File]
      /\ ranked \in [Providers -> File] /\ aiFile \in [Providers -> File]
  BY DEF DailyRunAssumption, Typed, OutsideTyped, FilesTyped, AiTyped
<1>2. \A jobs \in Lists : Whole(jobs)
  BY DEF DailyRunAssumption, Lists, Whole
<1>3. pc # "idle" => Current \in Providers /\ Current \in Requested /\ request # None
  BY RequestTyped DEF ControlInv, Current, Requested
<1>4. CASE ScrapeOne
  <2>1. /\ pc = "scrape" /\ raw' = [raw EXCEPT ![Current] = site[Current]]
        /\ UNCHANGED <<site, labeled, enriched, ranked, aiFile>>
    BY <1>4 DEF ScrapeOne, Undisturbed, outside, aiState
  <2> QED
    BY <1>1, <1>3, <2>1 DEF OneFile, OpenaiFiles
<1>5. CASE Classify
  <2>1. /\ pc = "classify" /\ labeled' = [labeled EXCEPT ![Current] = raw[Current]]
        /\ UNCHANGED <<site, raw, enriched, ranked, aiFile>>
    BY <1>5 DEF Classify, outside, aiState
  <2>2. Whole(raw[Current])
    BY <1>2, <1>3, <2>1 DEF RankInv, ScrapedInv, Scraped, PerProvider
  <2> QED
    BY <1>1, <1>3, <2>1, <2>2 DEF OneFile, OpenaiFiles
<1>6. CASE Enrich
  <2>1. /\ pc = "enrich" /\ enriched' = [enriched EXCEPT ![Current] = labeled[Current]]
        /\ UNCHANGED <<site, raw, labeled, ranked, aiFile>>
    BY <1>6 DEF Enrich, outside, aiState
  <2>2. Whole(raw[Current]) /\ labeled[Current] = raw[Current]
    BY <1>2, <1>3, <2>1 DEF RankInv, ScrapedInv, StageInv, Scraped, PerProvider
  <2> QED
    BY <1>1, <1>3, <2>1, <2>2 DEF OneFile, OpenaiFiles
<1>7. CASE Augment
  <2> DEFINE p == IF pc = "augment" THEN Current ELSE Openai
  <2>1. /\ pc \in {"augment", "reaugment"} /\ aiFile' = [aiFile EXCEPT ![p] = enriched[p]]
        /\ Whole(enriched[p])
        /\ UNCHANGED <<site, raw, labeled, enriched, ranked>>
    BY <1>7 DEF Augment, outside, Whole
  <2>2. p \in Providers
    BY <1>1, <1>3, <2>1
  <2>3. p = Openai => (pc = "augment" /\ Current = Openai) \/ pc = "reaugment"
    BY <2>1
  <2> HIDE DEF p
  <2>4. CASE p = Openai
    BY <1>1, <2>1, <2>3, <2>4 DEF OneFile
  <2>5. CASE p # Openai
    BY <1>1, <2>1, <2>2, <2>5 DEF OneFile, OpenaiFiles
  <2> QED
    BY <2>4, <2>5
<1>8. CASE Score
  <2>1. /\ pc \in {"score", "rescore"} /\ Whole(ScoreInput(Scored))
        /\ UNCHANGED <<site, raw, labeled, enriched, aiFile>>
    BY <1>8 DEF Score, outside, Whole
  <2>3. ranked' = [ranked EXCEPT ![Scored] = ScoreInput(Scored)]
    BY <1>8, RanksInput
  <2>4. CASE pc = "score" /\ Current # Openai
    BY <1>1, <1>3, <2>1, <2>3, <2>4 DEF OneFile, OpenaiFiles, Scored
  <2>5. CASE (pc = "score" /\ Current = Openai) \/ pc = "rescore"
    <3>1. Scored = Openai /\ ScoreInput(Openai) = enriched[Openai]
      BY <2>5, ScoredEnriched
    <3> QED
      BY <1>1, <2>1, <2>3, <2>5, <3>1 DEF OneFile
  <2> QED
    BY <2>1, <2>4, <2>5
<1>9. CASE Crash
  <2>1. /\ pc' = "idle" /\ UNCHANGED <<site, ranked, aiFile>>
        /\ \/ raw' = raw \/ \E p \in Providers : raw' = [raw EXCEPT ![p] = Torn]
        /\ \/ labeled' = labeled \/ \E p \in Providers : labeled' = [labeled EXCEPT ![p] = Torn]
        /\ \/ enriched' = enriched \/ \E p \in Providers : enriched' = [enriched EXCEPT ![p] = Torn]
    BY <1>3, <1>9 DEF Crash, Leave, outside, aiState
  <2> QED
    BY <1>1, <2>1 DEF OneFile
<1>10. ASSUME NEW p \in Providers, NEW listed \in Lists, SiteChanges(p, listed)
       PROVE  OneFile
  <2>1. /\ site' = [site EXCEPT ![p] = listed] /\ site[p] \subseteq listed
        /\ UNCHANGED <<raw, labeled, enriched, ranked, aiFile, pc>>
    BY <1>10 DEF SiteChanges, Undisturbed, files, aiState
  <2> QED
    BY <1>1, <2>1 DEF OneFile
<1>11. ASSUME UNCHANGED <<site, raw, labeled, enriched, ranked, aiFile>>
       PROVE  OneFile
  BY <1>11 DEF OneFile, OpenaiFiles
<1>12. CASE \/ AfterScrape \/ WriteAlerts \/ WriteLastSeen \/ Diff \/ SuppressDiff \/ WriteState
            \/ Announce \/ NotAnnounced \/ StageFails
            \/ \E q \in Requests : Start(q) \/ SnapshotMissing(q)
  BY <1>11, <1>12
     DEF AfterScrape, WriteAlerts, WriteLastSeen, Diff, SuppressDiff, WriteState, Announce,
         NotAnnounced, NextProvider, StageFails, Start, SnapshotMissing, outside, files, aiState
<1>13. CASE \/ WriteLastRun \/ MetadataFails \/ PersistReport \/ WritePointer \/ Archive
            \/ PublishRun \/ KeepHistory \/ WriteHealth \/ Return \/ FinalizeRaises
  BY <1>11, <1>13
     DEF WriteLastRun, MetadataFails, PersistReport, WritePointer, Archive, PublishRun,
         KeepHistory, WriteHealth, Return, FinalizeRaises, outside, files, aiState
<1>14. CASE UNCHANGED vars
  BY <1>11, <1>14 DEF vars, outside, files, aiState
<1> QED
  BY <1>4, <1>5, <1>6, <1>7, <1>8, <1>9, <1>10, <1>12, <1>13, <1>14 DEF Next, Step

LEMMA OrderStep ==
    ASSUME OneFile, Whole(site[Openai]), ListsInOrder
    PROVE  ListsInOrder'
<1>1. InOrder'
  BY DEF OneFile, OpenaiFiles, ListsInOrder, InOrder, Older, Within, Whole
<1>2. Older(ranked[Openai])'
  BY DEF OneFile, OpenaiFiles, ListsInOrder, InOrder, Older, Within, Whole
<1>3. Older(aiFile[Openai])'
  BY DEF OneFile, OpenaiFiles, ListsInOrder, InOrder, Older, Within, Whole
<1> QED
  BY <1>1, <1>2, <1>3 DEF ListsInOrder

\* A provider is taken once.
LEMMA TakenOnce ==
    ASSUME DailyRunAssumption, Typed, ControlInv, pc # "idle", TakenBefore
    PROVE  Current # Openai
<1>1. PICK n \in 1 .. k - 1 : request.providers[n] = Openai
  BY DEF TakenBefore
<1>2. /\ k \in 1 .. Len(request.providers) /\ Len(request.providers) \in Nat
      /\ DOMAIN request.providers = 1 .. Len(request.providers)
      /\ \A m, l \in DOMAIN request.providers :
            request.providers[m] = request.providers[l] => m = l
  BY RequestTyped DEF ControlInv
<1>3. n \in DOMAIN request.providers /\ n # k /\ k \in DOMAIN request.providers
  BY <1>1, <1>2
<1> QED
  BY <1>1, <1>2, <1>3 DEF Current

\* Openai is fresh after its last stage, whatever provider that stage was of.
LEMMA FreshAtTheEnd ==
    ASSUME DailyRunAssumption, Typed, ControlInv, Undisturbed, FreshOnceTaken, pc = "post", IsLast
    PROVE  IsFresh
<1>1. PICK n \in 1 .. Len(request.providers) : request.providers[n] = Openai
  BY RequestPlain
<1>2. k = Len(request.providers) /\ Len(request.providers) \in Nat
  BY RequestTyped DEF ControlInv, IsLast
<1>3. n = k \/ n \in 1 .. k - 1
  BY <1>1, <1>2
<1> QED
  BY <1>1, <1>3 DEF FreshOnceTaken, TakenBefore, Current, PerProvider, AfterScore

LEMMA FreshStep ==
    ASSUME DailyRunAssumption, NoneAssumption, Inv, RankInv, Undisturbed, FreshInv, [Next]_vars
    PROVE  FreshOnceTaken'
<1>0. /\ Typed /\ ControlInv /\ FreshOnceTaken /\ AnswersAreNew /\ ToldInv /\ FinalInv
      /\ OneFile
  BY OpenaiMoves DEF Inv, OnRecord, FreshInv
<1>1. ASSUME UNCHANGED OpenaiFiles
      PROVE  IsFresh => IsFresh'
  BY <1>1 DEF OpenaiFiles, IsFresh
<1>2. ASSUME pc' \notin PerProvider \cup {"restate", "last_run"}
      PROVE  FreshOnceTaken'
  BY <1>2 DEF FreshOnceTaken, PerProvider, AfterScore
<1>3. ASSUME pc' = "last_run", fin'.final # "success"
      PROVE  FreshOnceTaken'
  BY <1>3 DEF FreshOnceTaken, PerProvider, AfterScore
<1>4. \A status \in Statuses : Entering(status).final = status
  BY DEF Entering
\* The next stage of the same provider.
<1>5. ASSUME pc \in PerProvider, pc' \in PerProvider, UNCHANGED <<request, k>>,
             TakenBefore => UNCHANGED OpenaiFiles,
             pc' \in AfterScore /\ Current = Openai => IsFresh'
      PROVE  FreshOnceTaken'
  <2>1. Current' = Current /\ TakenBefore' = TakenBefore
    BY <1>5 DEF Current, TakenBefore
  <2>2. TakenBefore => IsFresh'
    BY <1>0, <1>1, <1>5 DEF FreshOnceTaken
  <2> QED
    BY <1>5, <2>1, <2>2 DEF FreshOnceTaken, PerProvider
<1>6. TakenBefore /\ pc \in PerProvider => Current # Openai
  BY <1>0, TakenOnce DEF PerProvider
<1>7. CASE Classify \/ Enrich \/ (Augment /\ pc = "augment") \/ (Score /\ pc = "score")
  <2>1. /\ pc \in {"classify", "enrich", "augment", "score"} /\ pc' \in PerProvider
        /\ UNCHANGED <<request, k>> /\ site' = site
        /\ pc' \in AfterScore => pc = "score"
    BY <1>7 DEF Classify, Enrich, AfterEnrich, Augment, Score, outside, PerProvider, AfterScore
  <2>2. Current # Openai => UNCHANGED OpenaiFiles
    BY <1>0, <2>1 DEF OneFile, OpenaiFiles, PerProvider
  <2>3. pc = "score" /\ Current = Openai => IsFresh'
    <3>1. ASSUME pc = "score", Current = Openai
          PROVE  /\ Score /\ Scored = Openai /\ Openai \in Providers
                 /\ ScoreInput(Openai) = enriched[Openai]
                 /\ ranked' = [ranked EXCEPT ![Openai] = ScoreInput(Openai)]
      BY <1>0, <1>7, <3>1, ScoredEnriched, RanksInput
         DEF Classify, Enrich, Augment, DailyRunAssumption
    <3>2. ranked \in [Providers -> File]
      BY <1>0 DEF Typed, FilesTyped
    <3> QED
      BY <3>1, <3>2 DEF Score, IsFresh, Whole
  <2> QED
    BY <1>5, <1>6, <2>1, <2>2, <2>3 DEF PerProvider
<1>8. CASE WriteAlerts \/ WriteLastSeen \/ Diff \/ SuppressDiff \/ WriteState
  <2>1. UNCHANGED <<site, raw, labeled, enriched, ranked, aiFile, request, k>>
    BY <1>8 DEF WriteAlerts, WriteLastSeen, Diff, SuppressDiff, WriteState, outside, files, aiState
  <2>2. IsFresh => IsFresh'
    BY <2>1 DEF IsFresh
  <2>3. CASE pc = "restate"
    <3>1. pc' = "last_run" /\ IsFresh'
      BY <1>0, <1>8, <2>2, <2>3
         DEF WriteAlerts, WriteLastSeen, Diff, SuppressDiff, WriteState, FreshOnceTaken
    <3> QED
      BY <3>1 DEF FreshOnceTaken, PerProvider, AfterScore
  <2>4. CASE pc # "restate"
    <3>1. pc \in AfterScore /\ pc' \in AfterScore
      BY <1>8, <2>4 DEF WriteAlerts, WriteLastSeen, Diff, SuppressDiff, WriteState, AfterScore
    <3>2. Current = Openai => IsFresh'
      BY <1>0, <2>2, <3>1 DEF FreshOnceTaken
    <3> QED
      BY <1>5, <2>1, <3>1, <3>2 DEF PerProvider, AfterScore, OpenaiFiles
  <2> QED
    BY <2>3, <2>4
<1>9. CASE (Augment /\ pc = "reaugment") \/ ScrapeOne \/ Crash \/ WriteLastRun
  BY <1>2, <1>9 DEF Augment, ScrapeOne, Crash, Leave, WriteLastRun, PerProvider
<1>10. CASE Score /\ pc = "rescore"
  <2>1. Scored = Openai /\ ScoreInput(Openai) = enriched[Openai] /\ Openai \in Providers
    BY <1>0, <1>10, ScoredEnriched DEF DailyRunAssumption
  <2>2. /\ pc' = "restate" /\ UNCHANGED enriched /\ Whole(enriched[Openai])
        /\ ranked' = [ranked EXCEPT ![Openai] = enriched[Openai]]
    BY <1>0, <1>10, <2>1, RanksInput DEF Score, Whole
  <2>3. IsFresh'
    BY <1>0, <2>1, <2>2 DEF IsFresh, Typed, FilesTyped
  <2> QED
    BY <2>2, <2>3 DEF FreshOnceTaken, PerProvider, AfterScore
<1>11. CASE AfterScrape
  <2>1. /\ pc = "scraped" /\ pc' = "classify" /\ UNCHANGED <<request, k>>
    BY <1>0, <1>11, RequestPlain DEF AfterScrape
  <2>2. k = 1
    BY <1>0, <2>1 DEF ToldInv, EarlierTold
  <2> QED
    BY <2>1, <2>2 DEF FreshOnceTaken, TakenBefore, AfterScore
<1>12. CASE Announce \/ NotAnnounced
  <2>1. /\ pc = "post" /\ UNCHANGED <<site, raw, labeled, enriched, ranked, aiFile, request>>
        /\ \/ IsLast /\ pc' = "last_run"
           \/ ~IsLast /\ pc' = "classify" /\ k' = k + 1
    BY <1>12 DEF Announce, NotAnnounced, NextProvider, outside, files, aiState
  <2>2. IsFresh => IsFresh'
    BY <2>1 DEF IsFresh
  <2>3. CASE IsLast
    BY <1>0, <2>1, <2>2, <2>3, FreshAtTheEnd DEF FreshOnceTaken, PerProvider, AfterScore
  <2>4. CASE ~IsLast
    <3>1. k \in Nat
      BY <1>0, <2>1, RequestTyped DEF ControlInv
    <3>2. \A n \in 1 .. k' - 1 : n = k \/ n \in 1 .. k - 1
      BY <2>1, <2>4, <3>1
    <3>3. TakenBefore' => IsFresh
      BY <1>0, <2>1, <3>2
         DEF TakenBefore, FreshOnceTaken, Current, PerProvider, AfterScore
    <3> QED
      BY <2>1, <2>2, <2>4, <3>3 DEF FreshOnceTaken, AfterScore
  <2> QED
    BY <2>3, <2>4
<1>13. CASE StageFails \/ Return \/ FinalizeRaises
  BY <1>2, <1>3, <1>4, <1>13 DEF StageFails, Return, FinalizeRaises, Leave, Statuses, PerProvider
<1>14. CASE \E q \in Requests : Start(q) \/ SnapshotMissing(q)
  <2>1. /\ pc' \in {"scrape", "last_run", "reaugment", "rescore"}
        /\ pc' = "last_run" => fin' = Entering("short_circuit") \/ fin' = Entering("error")
    BY <1>14 DEF Start, SnapshotMissing
  <2> QED
    BY <1>2, <1>3, <1>4, <2>1 DEF Statuses, PerProvider
<1>15. CASE \/ MetadataFails \/ PersistReport \/ WritePointer \/ Archive \/ PublishRun
            \/ KeepHistory \/ WriteHealth
  BY <1>2, <1>15 DEF MetadataFails, PersistReport, WritePointer, Archive, PublishRun, KeepHistory,
                     WriteHealth, Leave, PerProvider
<1>16. CASE UNCHANGED vars \/ \E p \in Providers, listed \in Lists : SiteChanges(p, listed)
  <2>1. UNCHANGED <<enriched, ranked, request, k, pc, fin>>
    BY <1>16 DEF vars, SiteChanges, files, memory
  <2> QED
    BY <1>0, <2>1 DEF FreshOnceTaken, IsFresh, TakenBefore, Current
<1> QED
  BY <1>7, <1>8, <1>9, <1>10, <1>11, <1>12, <1>13, <1>14, <1>15, <1>16
     DEF Next, Step, Augment, Score

\* Where the AI stage is asked for, a stage fails only after openai was
\* enriched, and the AI stage never does.
LEMMA FailsLater ==
    ASSUME DailyRunAssumption, Typed, ControlInv, RankInv, Undisturbed, FreshOnceTaken,
           EnrichedThere, AsksForAi, StageFails
    PROVE  Whole(enriched[Openai]) /\ pc \notin {"augment", "reaugment"}
<1>1. /\ "stage" \notin Faults /\ request \in Requests /\ request # None /\ ~request.no_enrich
      /\ request.providers[1] = Openai
  BY RequestPlain DEF Undisturbed, AsksForAi, StageFails, Stages
<1>2. InputFails
  BY <1>1 DEF StageFails, StageRaises
<1>3. /\ Current \in Providers /\ Current \in Requested
      /\ k \in 1 .. Len(request.providers) /\ Len(request.providers) \in Nat
  BY <1>1, RequestTyped DEF Current, Requested
<1>4. pc \in {"augment", "score"} => Whole(enriched[Current])
  BY <1>1, <1>3
     DEF RankInv, ScrapedInv, StageInv, Scraped, PerProvider, Whole, Lists, DailyRunAssumption
<1>5. pc \in PerProvider => Current = Openai \/ TakenBefore
  <2>1. k = 1 \/ 1 \in 1 .. k - 1
    BY <1>3
  <2> QED
    BY <1>1, <2>1 DEF Current, TakenBefore
<1>6. pc \in {"reaugment", "rescore", "restate"} => Whole(enriched[Openai])
  BY DEF EnrichedThere, FreshOnceTaken, IsFresh
<1>7. pc \in {"score", "diff"} => Whole(enriched[Openai])
  BY <1>4, <1>5 DEF FreshOnceTaken, IsFresh, PerProvider, AfterScore
<1>8. pc \notin {"augment", "reaugment"}
  BY <1>2, <1>4, <1>6 DEF InputFails, Whole
<1> QED
  BY <1>2, <1>6, <1>7, <1>8 DEF InputFails

LEMMA SettingKept ==
    ASSUME [Next]_vars
    PROVE  setting' = setting
BY DEF Next, Step, vars, outside, Start, SnapshotMissing, ScrapeOne, AfterScrape, Classify, Enrich,
       Augment, Score, WriteAlerts, WriteLastSeen, Diff, SuppressDiff, WriteState, Announce,
       NotAnnounced, NextProvider, StageFails, WriteLastRun, MetadataFails, PersistReport,
       WritePointer, Archive, PublishRun, KeepHistory, WriteHealth, Return, FinalizeRaises, Crash,
       SiteChanges

LEMMA ThereStep ==
    ASSUME DailyRunAssumption, NoneAssumption, Inv, RankInv, Undisturbed, FreshInv, [Next]_vars
    PROVE  EnrichedThere'
<1>0. /\ Typed /\ ControlInv /\ FinalInv /\ FreshOnceTaken /\ AnswersAreNew /\ EnrichedThere
      /\ setting' = setting
  BY SettingKept DEF Inv, OnRecord, FreshInv
<1> SUFFICES ASSUME AsksForAi
             PROVE  /\ pc' \in Finalizing \cup {"reaugment", "rescore"} => Whole(enriched[Openai])'
                    /\ (lastRun # None => Whole(lastRun.hashes.enriched))'
  BY <1>0 DEF EnrichedThere, AsksForAi, Requests
<1>1. /\ pc \in Finalizing \cup {"reaugment", "rescore"} => Whole(enriched[Openai])
      /\ lastRun # None => Whole(lastRun.hashes.enriched)
  BY <1>0 DEF EnrichedThere
<1>2. ASSUME lastRun' = lastRun, enriched' = enriched,
             \/ pc' \notin Finalizing \cup {"reaugment", "rescore"}
             \/ pc \in Finalizing \cup {"reaugment", "rescore"}
             \/ Whole(enriched[Openai])
      PROVE  /\ pc' \in Finalizing \cup {"reaugment", "rescore"} => Whole(enriched[Openai])'
             /\ (lastRun # None => Whole(lastRun.hashes.enriched))'
  BY <1>1, <1>2 DEF Whole
<1>3. CASE ScrapeOne \/ Classify \/ WriteAlerts \/ WriteLastSeen \/ Diff \/ SuppressDiff
  BY <1>2, <1>3 DEF ScrapeOne, Classify, AfterEnrich, WriteAlerts, WriteLastSeen, Diff,
                    SuppressDiff, state, records, files, Finalizing
<1>4. CASE Enrich \/ Crash
  <2>1. lastRun' = lastRun /\ pc' \notin Finalizing \cup {"reaugment", "rescore"}
    BY <1>4, LastRunOnCut DEF Enrich, AfterEnrich, Crash, Leave, state, records, Finalizing
  <2> QED
    BY <1>1, <2>1
<1>5. CASE Augment \/ Score
  <2>1. lastRun' = lastRun /\ enriched' = enriched
    BY <1>5 DEF Augment, Score, state, records
  <2>2. pc' \in {"rescore", "restate"} => pc \in {"reaugment", "rescore"}
    BY <1>5 DEF Augment, Score
  <2> QED
    BY <1>2, <1>5, <2>1, <2>2 DEF Augment, Score, Finalizing
<1>6. CASE AfterScrape
  <2>1. pc' = "classify"
    BY <1>0, <1>6, RequestPlain DEF AfterScrape
  <2> QED
    BY <1>2, <1>6, <2>1 DEF AfterScrape, files, state, records, Finalizing
<1>7. CASE WriteState
  <2>1. pc' # "post" => Whole(enriched[Openai])
    BY <1>0, <1>7 DEF WriteState, FreshOnceTaken, IsFresh
  <2> QED
    BY <1>2, <1>7, <2>1 DEF WriteState, files, records, Finalizing
<1>8. CASE Announce \/ NotAnnounced
  <2>1. /\ pc = "post" /\ UNCHANGED <<lastRun, enriched>>
        /\ IsLast \/ pc' = "classify"
    BY <1>8 DEF Announce, NotAnnounced, NextProvider, files, state, records
  <2>2. IsLast => Whole(enriched[Openai])
    BY <1>0, <2>1, FreshAtTheEnd DEF IsFresh
  <2> QED
    BY <1>2, <2>1, <2>2 DEF Finalizing
<1>9. CASE StageFails
  BY <1>0, <1>2, <1>9, FailsLater DEF StageFails, files, state, records
<1>10. ASSUME NEW q \in Requests, Start(q) \/ SnapshotMissing(q)
       PROVE  /\ pc' \in Finalizing \cup {"reaugment", "rescore"} => Whole(enriched[Openai])'
              /\ (lastRun # None => Whole(lastRun.hashes.enriched))'
  <2>1. Start(q)
    BY <1>10 DEF SnapshotMissing, Undisturbed, AsksForAi
  <2>2. BaseShort(q) => Whole(enriched[Openai])
    BY <1>1 DEF BaseShort, HashesMatch, CurrentHashes
  <2>3. ~BaseShort(q) => pc' = "scrape"
    BY <2>1 DEF Start
  <2> QED
    BY <1>2, <2>1, <2>2, <2>3 DEF Start, files, state, records, Finalizing
<1>11. CASE WriteLastRun
  <2>1. \E status \in Statuses \cup {fin.final} : lastRun' = Telemetry(status)
    BY <1>11 DEF WriteLastRun, Statuses
  <2>2. lastRun'.hashes.enriched = enriched[Openai] /\ pc = "last_run" /\ enriched' = enriched
    BY <1>11, <2>1 DEF WriteLastRun, Telemetry, CurrentHashes, files
  <2> QED
    BY <1>1, <2>2 DEF Finalizing, Whole
<1>12. CASE MetadataFails
  <2>1. lastRun \in Telemetries /\ lastRun # None
    BY <1>0, <1>12 DEF MetadataFails, FinalInv, Finalizing, Typed, RecordsTyped
  <2>2. /\ lastRun' = [lastRun EXCEPT !.status = "error"] /\ pc' = "idle"
        /\ lastRun'.hashes = lastRun.hashes
    BY <1>12, <2>1 DEF MetadataFails, Leave, Telemetries
  <2> QED
    BY <1>1, <2>1, <2>2 DEF Finalizing
<1>13. CASE PersistReport \/ WritePointer \/ Archive \/ PublishRun \/ KeepHistory \/ WriteHealth
            \/ Return \/ FinalizeRaises
  BY <1>2, <1>13, LastRunOnCut DEF PersistReport, WritePointer, Archive, PublishRun, KeepHistory,
                     WriteHealth, Return, FinalizeRaises, files, state, records, Finalizing
<1>14. CASE UNCHANGED vars \/ \E p \in Providers, listed \in Lists : SiteChanges(p, listed)
  BY <1>2, <1>14 DEF vars, SiteChanges, files, state, records
<1> QED
  BY <1>3, <1>4, <1>5, <1>6, <1>7, <1>8, <1>9, <1>10, <1>11, <1>12, <1>13, <1>14 DEF Next, Step

LEMMA AnswersStep ==
    ASSUME DailyRunAssumption, NoneAssumption, Inv, RankInv, Undisturbed, FreshInv, [Next]_vars
    PROVE  AnswersAreNew'
<1>0. /\ Typed /\ ControlInv /\ FinalInv /\ FreshOnceTaken /\ AnswersAreNew /\ EnrichedThere
      /\ Openai \in Providers /\ aiFile \in [Providers -> File] /\ ToldInv
  BY DEF Inv, OnRecord, FreshInv, DailyRunAssumption, Typed, AiTyped
\* The last conjunct: only WriteLastRun and MetadataFails touch last_run.json.
<1>1. ASSUME UNCHANGED <<lastRun, aiRan, request, aiFile, enriched>>,
             aiRan /\ pc' \in {"classify", "enrich", "augment"} => Current' # Openai,
             aiRan => pc' \notin {"scrape", "scraped"},
             pc' \in {"augment", "reaugment"} => request.ai,
             pc' \in PerProvider /\ request.ai /\ (k' > 1 \/ pc' \in {"score"} \cup AfterScore)
                => aiRan,
             pc' = "rescore" => pc = "rescore"
      PROVE  AnswersAreNew'
  BY <1>0, <1>1 DEF AnswersAreNew, Whole
<1>2. ASSUME lastRun' = lastRun, ~aiRan',
             pc' \notin PerProvider \cup {"reaugment", "rescore"}
      PROVE  AnswersAreNew'
  BY <1>0, <1>2 DEF AnswersAreNew, PerProvider, AfterScore, Whole
<1>3. pc # "idle" =>
         /\ k \in 1 .. Len(request.providers) /\ Len(request.providers) \in Nat
         /\ DOMAIN request.providers = 1 .. Len(request.providers)
         /\ \A m, n \in DOMAIN request.providers :
               request.providers[m] = request.providers[n] => m = n
  BY <1>0, RequestTyped DEF ControlInv
<1>4. CASE ScrapeOne
  <2>1. pc = "scrape" /\ pc' \in {"scrape", "scraped"} /\ UNCHANGED <<lastRun, aiRan>>
    BY <1>4 DEF ScrapeOne, state, records
  <2> QED
    BY <1>0, <1>2, <2>1 DEF AnswersAreNew, PerProvider
<1>5. CASE AfterScrape
  <2>1. /\ pc = "scraped" /\ pc' = "classify" /\ k = 1
        /\ UNCHANGED <<lastRun, aiRan, request, aiFile, enriched, k>>
    BY <1>0, <1>5, RequestPlain
       DEF AfterScrape, files, aiState, state, records, ToldInv, EarlierTold
  <2> QED
    BY <1>0, <1>1, <2>1 DEF AnswersAreNew, AfterScore
<1>6. CASE Classify
  <2>1. /\ pc = "classify" /\ Current' = Current
        /\ UNCHANGED <<lastRun, aiRan, request, aiFile, enriched, k>>
        /\ ~request.no_enrich
    BY <1>0, <1>6, RequestPlain DEF Classify, aiState, state, records, memory, Current
  <2>2. pc' = "enrich"
    BY <1>6, <2>1 DEF Classify
  <2> QED
    BY <1>0, <1>1, <2>1, <2>2 DEF AnswersAreNew, PerProvider, AfterScore
<1>7. CASE Enrich
  <2>1. /\ pc = "enrich" /\ Current' = Current /\ pc' = AfterEnrich
        /\ enriched' = [enriched EXCEPT ![Current] = labeled[Current]]
        /\ UNCHANGED <<lastRun, aiRan, request, aiFile, k>>
    BY <1>7 DEF Enrich, aiState, state, records, memory, Current
  <2>2. aiRan => enriched'[Openai] = enriched[Openai] /\ Current # Openai
    BY <1>0, <2>1 DEF AnswersAreNew, Typed, FilesTyped
  <2>3. pc' \in {"augment", "score"} /\ (pc' = "augment" <=> request.ai)
    BY <2>1 DEF AfterEnrich
  <2> QED
    BY <1>0, <2>1, <2>2, <2>3 DEF AnswersAreNew, PerProvider, AfterScore, Whole
<1>8. CASE Augment
  <2>1. /\ aiRan' = TRUE /\ UNCHANGED <<lastRun, request, enriched, k>> /\ Current' = Current
        /\ request.ai /\ request # None
    BY <1>0, <1>8 DEF Augment, state, records, Current, AnswersAreNew, ControlInv
  <2>2. CASE (pc = "augment" /\ Current = Openai) \/ pc = "reaugment"
    <3>1. /\ aiFile' = [aiFile EXCEPT ![Openai] = enriched[Openai]] /\ Whole(enriched[Openai])
          /\ pc' \in {"score", "rescore"}
      BY <1>8, <2>2 DEF Augment, Whole
    <3>2. aiFile'[Openai] = enriched[Openai]
      BY <1>0, <3>1
    <3> QED
      BY <1>0, <2>1, <3>1, <3>2 DEF AnswersAreNew
  <2>3. CASE pc = "augment" /\ Current # Openai
    <3>1. request.providers[1] = Openai
      BY <1>0, <2>1, <2>3, RequestPlain
    <3>2. k > 1
      BY <1>3, <2>3, <3>1 DEF Current
    <3>3. aiRan
      BY <1>0, <2>1, <2>3, <3>2 DEF AnswersAreNew, PerProvider
    <3>4. aiFile'[Openai] = aiFile[Openai] /\ pc' = "score"
      BY <1>0, <1>8, <2>3 DEF Augment
    <3> QED
      BY <1>0, <2>1, <3>3, <3>4 DEF AnswersAreNew
  <2> QED
    BY <1>8, <2>2, <2>3 DEF Augment
<1>9. CASE Score \/ WriteAlerts \/ WriteLastSeen \/ Diff \/ SuppressDiff \/ WriteState
  <2>1. UNCHANGED <<lastRun, aiRan, request, aiFile, enriched, k>>
    BY <1>9 DEF Score, WriteAlerts, WriteLastSeen, Diff, SuppressDiff, WriteState, files, aiState,
                state, records, memory
  <2>2. CASE pc \in {"rescore", "restate"}
    <3>1. pc' \in {"restate", "last_run"}
      BY <1>9, <2>2 DEF Score, WriteAlerts, WriteLastSeen, Diff, SuppressDiff, WriteState
    <3> QED
      BY <1>1, <2>1, <3>1 DEF PerProvider, AfterScore
  <2>3. CASE pc \in {"score"} \cup AfterScore
    <3>1. pc' \in AfterScore
      BY <1>9, <2>3
         DEF Score, WriteAlerts, WriteLastSeen, Diff, SuppressDiff, WriteState, AfterScore
    <3>2. request.ai => aiRan
      BY <1>0, <2>3 DEF AnswersAreNew, PerProvider, AfterScore
    <3> QED
      BY <1>1, <2>1, <3>1, <3>2 DEF PerProvider, AfterScore
  <2> QED
    BY <1>9, <2>2, <2>3
       DEF Score, WriteAlerts, WriteLastSeen, Diff, SuppressDiff, WriteState, AfterScore
<1>10. CASE Announce \/ NotAnnounced
  <2>1. /\ pc = "post" /\ UNCHANGED <<lastRun, aiRan, request, aiFile, enriched>>
        /\ \/ pc' = "last_run"
           \/ pc' = "classify" /\ k' = k + 1 /\ ~IsLast
    BY <1>10 DEF Announce, NotAnnounced, NextProvider, files, aiState, state, records
  <2>2. request.ai <=> aiRan
    BY <1>0, <2>1 DEF AnswersAreNew, PerProvider, AfterScore
  <2>3. CASE pc' = "last_run"
    BY <1>1, <2>1, <2>3 DEF PerProvider, AfterScore
  <2>4. CASE pc' = "classify"
    <3>1. aiRan => Current' # Openai
      <4>1. aiRan => request.providers[1] = Openai
        BY <1>0, <2>1, <2>2, RequestPlain
      <4>2. 1 \in DOMAIN request.providers /\ k' \in DOMAIN request.providers /\ k' # 1
        BY <1>3, <2>1, <2>4 DEF IsLast
      <4>3. Current' = request.providers[k']
        BY <2>1 DEF Current
      <4> QED
        BY <1>3, <2>1, <4>1, <4>2, <4>3
    <3> QED
      BY <1>1, <2>1, <2>2, <2>4, <3>1
  <2> QED
    BY <2>1, <2>3, <2>4
<1>11. CASE StageFails
  <2>1. /\ pc' = "last_run" /\ UNCHANGED <<lastRun, request, aiFile, enriched>>
        /\ pc \notin {"augment", "reaugment"} => aiRan' = aiRan
    BY <1>11 DEF StageFails, files, aiState, state, records
  <2>2. pc \notin {"augment", "reaugment"}
    <3>1. ASSUME pc \in {"augment", "reaugment"}
          PROVE  FALSE
      <4>1. AsksForAi
        BY <1>0, <3>1, RequestPlain DEF AnswersAreNew
      <4> QED
        BY <1>0, <1>11, <3>1, <4>1, FailsLater
    <3> QED
      BY <3>1
  <2> QED
    BY <1>1, <2>1, <2>2 DEF PerProvider, AfterScore
<1>12. ASSUME NEW q \in Requests, Start(q) \/ SnapshotMissing(q)
       PROVE  AnswersAreNew'
  <2>1. /\ ~aiRan' /\ request' = q /\ UNCHANGED <<lastRun, aiFile, enriched>>
        /\ pc' \in {"scrape", "last_run", "reaugment", "rescore"}
    BY <1>0, <1>12
       DEF Start, SnapshotMissing, files, aiState, state, records, AnswersAreNew, ControlInv
  <2>2. pc' = "reaugment" => q.ai
    BY <1>12 DEF Start, SnapshotMissing
  <2>3. pc' = "rescore" /\ q.ai => aiFile[Openai] = enriched[Openai]
    <3>1. ASSUME pc' = "rescore", q.ai
          PROVE  HashesMatch /\ AiUpToDate
      BY <1>12, <3>1 DEF Start, SnapshotMissing, BaseShort
    <3> QED
      BY <1>0, <3>1 DEF HashesMatch, AiUpToDate, AiFresh, CurrentHashes, AnswersAreNew
  <2> QED
    BY <1>0, <2>1, <2>2, <2>3 DEF AnswersAreNew, PerProvider, AfterScore, Whole
<1>13. CASE WriteLastRun
  <2>1. \E status \in Statuses \cup {fin.final} : lastRun' = Telemetry(status)
    BY <1>13 DEF WriteLastRun, Statuses
  <2>2. /\ lastRun'.hashes.enriched = enriched[Openai] /\ lastRun'.ai = aiFile[Openai]
        /\ lastRun'.ai_ran = aiRan
        /\ UNCHANGED <<aiRan, request, aiFile, enriched>> /\ pc' = "report"
    BY <1>13, <2>1 DEF WriteLastRun, Remain, Telemetry, CurrentHashes, files, aiState
  <2> QED
    BY <1>0, <2>2 DEF AnswersAreNew, PerProvider, Whole
<1>14. CASE MetadataFails
  <2>1. lastRun \in Telemetries /\ lastRun # None
    BY <1>0, <1>14 DEF MetadataFails, FinalInv, Finalizing, Typed, RecordsTyped
  <2>2. /\ lastRun' = [lastRun EXCEPT !.status = "error"] /\ pc' = "idle" /\ ~aiRan'
        /\ lastRun'.hashes = lastRun.hashes /\ lastRun'.ai = lastRun.ai
        /\ lastRun'.ai_ran = lastRun.ai_ran
    BY <1>14, <2>1 DEF MetadataFails, Leave, Telemetries
  <2> QED
    BY <1>0, <2>1, <2>2 DEF AnswersAreNew, PerProvider, Whole
<1>15. CASE PersistReport \/ WritePointer \/ Archive \/ PublishRun \/ KeepHistory \/ WriteHealth
  <2>1. /\ UNCHANGED <<lastRun, aiRan, request, aiFile, enriched>>
        /\ pc' \in Finalizing
    BY <1>15 DEF PersistReport, WritePointer, Archive, PublishRun, KeepHistory, WriteHealth,
                 Remain, files, aiState, state, records, memory, Finalizing
  <2> QED
    BY <1>1, <2>1 DEF PerProvider, AfterScore, Finalizing
<1>16. CASE Return \/ FinalizeRaises \/ Crash
  <2>1. lastRun' = lastRun
    BY <1>16, LastRunOnCut DEF Return, FinalizeRaises, Crash, state, records
  <2>2. CASE pc' = "idle" /\ aiRan' = FALSE
    BY <1>2, <2>1, <2>2 DEF PerProvider
  <2>3. CASE pc' = "last_run" /\ UNCHANGED <<aiRan, request, aiFile, enriched>>
    BY <1>1, <2>1, <2>3 DEF PerProvider, AfterScore
  <2> QED
    BY <1>16, <2>2, <2>3 DEF Return, FinalizeRaises, Crash, Leave, Remain, files, aiState
<1>17. CASE UNCHANGED vars \/ \E p \in Providers, listed \in Lists : SiteChanges(p, listed)
  <2>1. UNCHANGED <<lastRun, aiRan, request, aiFile, enriched, k, pc>>
    BY <1>17 DEF vars, SiteChanges, files, aiState, state, records, memory
  <2> QED
    BY <1>0, <2>1 DEF AnswersAreNew, Whole, Current
<1> QED
  BY <1>4, <1>5, <1>6, <1>7, <1>8, <1>9, <1>10, <1>11, <1>12, <1>13, <1>14, <1>15, <1>16, <1>17
     DEF Next, Step

LEMMA LastRunKept ==
    ASSUME [Next]_vars
    PROVE  lastRun' = lastRun \/ WriteLastRun \/ MetadataFails
BY LastRunOnCut
   DEF Next, Step, vars, state, records, Start, SnapshotMissing, ScrapeOne, AfterScrape, Classify,
       Enrich, Augment, Score, WriteAlerts, WriteLastSeen, Diff, SuppressDiff, WriteState,
       Announce, NotAnnounced, NextProvider, StageFails, PersistReport, WritePointer, Archive,
       PublishRun, KeepHistory, WriteHealth, Return, FinalizeRaises, Crash, SiteChanges

LEMMA RecordedStep ==
    ASSUME DailyRunAssumption, NoneAssumption, Inv, RankInv, Undisturbed, FreshInv, [Next]_vars
    PROVE  SuccessRecorded'
<1>0. /\ Typed /\ ControlInv /\ FinalInv /\ FreshOnceTaken /\ SuccessRecorded /\ InOrder
      /\ OneFile /\ Whole(site[Openai])
  <2>1. site[Openai] \in Lists
    BY DEF Inv, Typed, OutsideTyped, DailyRunAssumption
  <2> QED
    BY <2>1, OpenaiMoves DEF Inv, OnRecord, FreshInv, ListsInOrder, Whole, Lists, DailyRunAssumption
<1>1. CASE lastRun' = lastRun
  <2> DEFINE E == lastRun.hashes.enriched
  <2> SUFFICES ASSUME lastRun # None, lastRun.status = "success"
               PROVE  /\ Whole(E) /\ Older(E)'
                      /\ Whole(ranked[Openai])' /\ E \subseteq ranked'[Openai]
    BY <1>1 DEF SuccessRecorded, Older, Within, Whole
  <2>1. Whole(E) /\ Older(E) /\ Whole(ranked[Openai]) /\ E \subseteq ranked[Openai]
    BY <1>0 DEF SuccessRecorded
  <2>2. E' = E
    BY <1>1
  <2> HIDE DEF E
  <2>3. Older(E)'
    BY <1>0, <2>1, <2>2 DEF OneFile, OpenaiFiles, InOrder, Older, Within, Whole
  <2>4. Whole(ranked[Openai])' /\ E \subseteq ranked'[Openai]
    BY <1>0, <2>1 DEF OneFile, OpenaiFiles, Older, Within, Whole
  <2> QED
    BY <2>1, <2>3, <2>4
<1>2. CASE WriteLastRun
  <2>1. PICK over \in BOOLEAN :
            lastRun' = Telemetry(IF over THEN "error" ELSE fin.final)
    BY <1>2 DEF WriteLastRun
  <2>2. /\ lastRun'.status = "success" => fin.final = "success"
        /\ lastRun'.hashes.enriched = enriched[Openai]
        /\ pc = "last_run"
        /\ UNCHANGED <<site, raw, labeled, enriched, ranked, aiFile>>
    BY <1>2, <2>1 DEF WriteLastRun, Telemetry, CurrentHashes, outside, files, aiState
  <2>3. Older(enriched[Openai])'
    BY <1>0, <2>2 DEF Older, InOrder, Within, Whole
  <2>4. lastRun'.status = "success" => Whole(enriched[Openai]) /\ ranked[Openai] = enriched[Openai]
    BY <1>0, <2>2 DEF FreshOnceTaken, IsFresh
  <2> QED
    BY <2>2, <2>3, <2>4 DEF SuccessRecorded, Older, Within, Whole
<1>3. CASE MetadataFails
  <2>1. lastRun \in Telemetries
    BY <1>0, <1>3 DEF MetadataFails, FinalInv, Finalizing, Typed, RecordsTyped
  <2>2. lastRun'.status = "error"
    BY <1>3, <2>1 DEF MetadataFails, Telemetries
  <2> QED
    BY <2>2 DEF SuccessRecorded
<1> QED
  BY <1>1, <1>2, <1>3, LastRunKept

\* A run that skips everything after a success, in an undisturbed deployment,
\* finds outputs made from the enriched postings, and from the AI answers to
\* them if it asked for AI.
THEOREM ShortCircuitsFresh == Spec => ShortCircuitAfterSuccessIsFresh
<1> DEFINE Known == RankInv /\ (Undisturbed => FreshInv)
<1>1. Init => Known
  <2> SUFFICES ASSUME Init
               PROVE  Known
    OBVIOUS
  <2>1. RankInv
    BY NoneAssumption DEF Init, RankInv, ScrapedInv, StageInv, PerProvider, AfterScore
  <2>2. ListsInOrder
    BY DailyRunAssumption
       DEF Init, Everywhere, ListsInOrder, InOrder, Older, Within, Whole, DailyRunAssumption
  <2>3. FreshOnceTaken /\ EnrichedThere /\ AnswersAreNew /\ SuccessRecorded
    BY DEF Init, FreshOnceTaken, EnrichedThere, AnswersAreNew, SuccessRecorded, PerProvider,
           AfterScore, Finalizing
  <2> QED
    BY <2>1, <2>2, <2>3 DEF FreshInv
<1>2. Inv /\ Known /\ [Next]_vars => Known'
  <2> SUFFICES ASSUME Inv, Known, [Next]_vars
               PROVE  Known'
    OBVIOUS
  <2>1. RankInv'
    BY RankStep, DailyRunAssumption, NoneAssumption DEF Inv
  <2>2. Undisturbed' = Undisturbed
    BY SettingKept DEF Undisturbed, Faults, Requests
  <2>3. ASSUME Undisturbed
        PROVE  FreshInv'
    <3>1. Whole(site[Openai])
      BY DailyRunAssumption DEF Inv, Typed, OutsideTyped, Whole, Lists, DailyRunAssumption
    <3>2. OneFile
      BY <2>3, OpenaiMoves, DailyRunAssumption, NoneAssumption DEF Inv, FreshInv
    <3>3. ListsInOrder'
      BY <2>3, <3>1, <3>2, OrderStep DEF FreshInv
    <3>4. FreshOnceTaken'
      BY <2>3, FreshStep, DailyRunAssumption, NoneAssumption
    <3>5. EnrichedThere'
      BY <2>3, ThereStep, DailyRunAssumption, NoneAssumption
    <3>6. AnswersAreNew'
      BY <2>3, AnswersStep, DailyRunAssumption, NoneAssumption
    <3>7. SuccessRecorded'
      BY <2>3, RecordedStep, DailyRunAssumption, NoneAssumption
    <3> QED
      BY <3>3, <3>4, <3>5, <3>6, <3>7 DEF FreshInv
  <2> QED
    BY <2>1, <2>2, <2>3
<1>3. Inv /\ Known /\ [Next]_vars =>
        [(/\ Undisturbed
          /\ pc = "idle" /\ pc' = "last_run" /\ fin'.given = "short_circuit"
          /\ lastRun.status = "success")
         => /\ ranked[Openai] = enriched[Openai]
            /\ request'.ai => aiFile[Openai] = enriched[Openai]]_vars
  <2> SUFFICES ASSUME Inv, Known, Next, Undisturbed,
                      pc = "idle", pc' = "last_run", fin'.given = "short_circuit",
                      lastRun.status = "success"
               PROVE  /\ ranked[Openai] = enriched[Openai]
                      /\ request'.ai => aiFile[Openai] = enriched[Openai]
    BY DEF vars
  <2>1. PICK q \in Requests : Start(q)
    <3>1. ~Step
      BY DEF Step, ScrapeOne, AfterScrape, Classify, Enrich, Augment, Score, WriteAlerts,
             WriteLastSeen, Diff, SuppressDiff, WriteState, Announce, NotAnnounced, StageFails,
             WriteLastRun, MetadataFails, PersistReport, WritePointer, Archive, PublishRun,
             KeepHistory, WriteHealth, Return, FinalizeRaises, Crash, Stages, Finalizing
    <3>2. \A q \in Requests : ~SnapshotMissing(q)
      BY DEF SnapshotMissing, Entering
    <3>3. \A p \in Providers, listed \in Lists : ~SiteChanges(p, listed)
      BY DEF SiteChanges
    <3> QED
      BY <3>1, <3>2, <3>3 DEF Next
  <2>2. /\ HashesMatch /\ request' = q /\ ranked[Openai] # Absent
        /\ q.ai => AiUpToDate
    BY <2>1 DEF Start, BaseShort, NothingToDo
  <2>3. lastRun # None /\ enriched[Openai] = lastRun.hashes.enriched
    BY <2>2 DEF HashesMatch, CurrentHashes
  <2>4. ranked[Openai] = enriched[Openai]
    <3>1. /\ Whole(enriched[Openai]) /\ Whole(ranked[Openai])
          /\ enriched[Openai] \subseteq ranked[Openai]
      BY <2>3 DEF FreshInv, SuccessRecorded
    <3>2. ranked[Openai] \subseteq enriched[Openai]
      BY <3>1 DEF FreshInv, ListsInOrder, Older, Within
    <3> QED
      BY <3>1, <3>2
  <2>5. q.ai => aiFile[Openai] = enriched[Openai]
    BY <2>2, <2>3 DEF AiUpToDate, AiFresh, FreshInv, AnswersAreNew
  <2> QED
    BY <2>2, <2>4, <2>5
<1> HIDE DEF Known
<1> QED
  BY <1>1, <1>2, <1>3, Invariance, PTL DEF Spec, ShortCircuitAfterSuccessIsFresh
=============================================================================
