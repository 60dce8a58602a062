----------------------------- MODULE PublishS3 -----------------------------
(***************************************************************************)
(* scripts/publish_s3.py with the pointers of jobintel/aws_runs.py: how    *)
(* the objects of a run and the baseline pointers reach the bucket, called *)
(* by the daily run while it finalizes and by an operator who publishes a  *)
(* run again, and how a later run reads its baseline back.                 *)
(*                                                                         *)
(* An artifact is a number, in the order its S3 key sorts.  The content of *)
(* a file is the run whose scoring wrote it, 0 when there is no file: the  *)
(* report of a run names files of the data directory, which later runs     *)
(* write again.  The candidate is "local", so each pointer has a legacy    *)
(* copy.                                                                   *)
(***************************************************************************)
EXTENDS Naturals, FiniteSets

CONSTANTS
    Keys,         \* provider:profile, numbered in the order they are scored
    Artifacts,    \* output files of all keys, numbered as their S3 keys sort
    KeyOf,        \* the key of an artifact
    RankedOf,     \* the ranked JSON of a key, the artifact a baseline reads
    RunReport,    \* the name of run_report.json
    Daily,        \* the daily run
    Operators,    \* people who run publish_s3.py by hand
    Required,     \* PUBLISH_S3_REQUIRE
    Faults,       \* what may go wrong
    MaxRun,       \* bound of the model: number of daily runs
    MaxByHand,    \* bound of the model: number of publishes by hand
    Global,       \* the pointer state/.../last_success.json
    None

AllFaults == {"stage", "guardrail", "preflight", "upload", "client", "connection", "crash"}

ASSUME PublishAssumption ==
    /\ Keys \subseteq Nat /\ Artifacts \subseteq Nat /\ RunReport \notin Artifacts
    /\ KeyOf \in [Artifacts -> Keys]
    /\ RankedOf \in [Keys -> Artifacts]
    /\ \A key \in Keys : KeyOf[RankedOf[key]] = key
    /\ Daily \notin Operators
    /\ Required \in BOOLEAN
    /\ Faults \subseteq AllFaults
    /\ MaxRun \in Nat /\ MaxByHand \in Nat
    /\ Global \notin Keys
    /\ None \notin {Global} \cup Keys

VARIABLES
    disk,        \* the content of each working file in data/
    report,      \* run_report.json of each run
    run,         \* the last daily run to start
    byHand,      \* number of publishes by hand so far
    objects,     \* runs/<run>/<name>: the content of the object
    latest,      \* latest/<artifact>: the run whose publish wrote the object
    pointer,     \* last_success.json and <key>/last_success.json of the candidate
    legacy,      \* the legacy copies of the pointers
    pc, job,     \* per publisher: line, arguments and local variables
    exit         \* exit code of the last daily run, None while one is under way

bucket == <<objects, latest, pointer, legacy>>
vars == <<disk, report, run, byHand, bucket, pc, job, exit>>

Publishers == {Daily} \cup Operators
Runs == 1 .. MaxRun
Names == Artifacts \cup {RunReport}
Pointers == {Global} \cup Keys
Results == {"skipped", "ok", "error"}

Report == [files : SUBSET Artifacts, sha : [Artifacts -> 0 .. MaxRun], success : BOOLEAN]

Job == [run : Runs, keys : SUBSET Keys, todo : SUBSET Artifacts,
        write_last_success : BOOLEAN, target : {None} \cup Pointers,
        keys_left : SUBSET Keys, pointer_write : [Pointers -> Results],
        returned : BOOLEAN]

ASSUME NoneAssumption == None \notin Job /\ None \notin Report /\ None \notin {"zero", "nonzero"}

Lines == {"idle", "score", "begin", "runs", "latest", "pointer", "legacy", "end"}

TypeOK ==
    /\ disk \in [Artifacts -> 0 .. MaxRun]
    /\ report \in [Runs -> {None} \cup Report]
    /\ run \in 0 .. MaxRun
    /\ byHand \in 0 .. MaxByHand
    /\ objects \in [Runs -> [Names -> 0 .. MaxRun]]
    /\ latest \in [Artifacts -> 0 .. MaxRun]
    /\ pointer \in [Pointers -> 0 .. MaxRun]
    /\ legacy \in [Pointers -> 0 .. MaxRun]
    /\ pc \in [Publishers -> Lines]
    /\ job \in [Publishers -> {None} \cup Job]
    /\ \A p \in Publishers : pc[p] = "idle" <=> job[p] = None
    /\ exit \in {None, "zero", "nonzero"}

Init ==
    /\ disk = [a \in Artifacts |-> 0]
    /\ report = [r \in Runs |-> None]
    /\ run = 0
    /\ byHand = 0
    /\ objects = [r \in Runs |-> [n \in Names |-> 0]]
    /\ latest = [a \in Artifacts |-> 0]
    /\ pointer = [q \in Pointers |-> 0]
    /\ legacy = [q \in Pointers |-> 0]
    /\ pc = [p \in Publishers |-> "idle"]
    /\ job = [p \in Publishers |-> None]
    /\ exit = None

ArtifactsOf(keys) == {a \in Artifacts : KeyOf[a] \in keys}

NewJob(r, keys, todo, write_last_success) ==
    [run |-> r, keys |-> keys, todo |-> todo, write_last_success |-> write_last_success,
     target |-> None, keys_left |-> {},
     pointer_write |-> [q \in Pointers |-> "skipped"], returned |-> FALSE]

Goto(p, line) == pc' = [pc EXCEPT ![p] = line]

Exits(p) == Goto(p, "idle") /\ job' = [job EXCEPT ![p] = None]

\* Every object of the report of run r is in the bucket.
Uploaded(r) ==
    /\ report[r] # None
    /\ report[r].files # {}
    /\ \A a \in report[r].files : objects[r][a] # 0

-----------------------------------------------------------------------------
\* The daily run up to its report.  Runs follow each other (RunLock).

StartRun ==
    /\ run < MaxRun
    /\ pc[Daily] = "idle"
    /\ run' = run + 1
    /\ exit' = None
    /\ \E keys \in SUBSET Keys \ {{}} :
          job' = [job EXCEPT ![Daily] = NewJob(run + 1, keys, ArtifactsOf(keys), FALSE)]
    /\ Goto(Daily, "score")
    /\ UNCHANGED <<disk, report, byHand, bucket>>

\* score_jobs writes the ranked JSON of a key before its other outputs.
WriteOutput ==
    /\ pc[Daily] = "score"
    /\ \E a \in job[Daily].todo :
          /\ RankedOf[KeyOf[a]] \notin job[Daily].todo \ {a}
          /\ \A b \in job[Daily].todo : KeyOf[a] <= KeyOf[b]
          /\ disk' = [disk EXCEPT ![a] = run]
          /\ job' = [job EXCEPT ![Daily].todo = @ \ {a}]
    /\ UNCHANGED <<report, run, byHand, bucket, pc, exit>>

\* verifiable_artifacts: the outputs of the requested keys that exist, and
\* their hashes.
WriteReport(status) ==
    LET keys == job[Daily].keys IN
    /\ report' = [report EXCEPT ![run] =
           [files |-> {a \in ArtifactsOf(keys) : disk[a] # 0}, sha |-> disk,
            success |-> status \in {"success", "short_circuit"}]]
    /\ UNCHANGED <<disk, run, byHand, bucket>>

\* All was scored.  Past the cost guardrail the run is an error, yet it is
\* published, without pointers.
Finalize ==
    /\ pc[Daily] = "score"
    /\ job[Daily].todo = {}
    /\ \E status \in {"success"} \cup ({"guardrail"} \cap Faults) :
          /\ WriteReport(status)
          /\ job' = [job EXCEPT ![Daily].write_last_success = status = "success"]
    /\ Goto(Daily, "begin")
    /\ UNCHANGED exit

\* A stage failed: nothing is published.
FinalizeError ==
    /\ "stage" \in Faults
    /\ pc[Daily] = "score"
    /\ WriteReport("error")
    /\ exit' = "nonzero"
    /\ Exits(Daily)

\* Nothing changed since the last run: status short_circuit, nothing is
\* published.
ShortCircuit ==
    /\ pc[Daily] = "score"
    /\ job[Daily].todo = ArtifactsOf(job[Daily].keys)
    /\ \A a \in job[Daily].todo : disk[a] # 0
    /\ WriteReport("short_circuit")
    /\ exit' = "zero"
    /\ Exits(Daily)

-----------------------------------------------------------------------------
\* publish_run.  An operator names any run that has a report, whatever its
\* status, and may ask for some keys only; write_last_success is left True.

Files(p) == report[job[p].run].files

\* _build_upload_plan: runs/ first, then latest/, each in the order of its keys.
Begin(p, fails) ==
    /\ pc[p] = "begin"
    /\ IF fails \/ Files(p) = {}
       THEN Goto(p, "end") /\ UNCHANGED job
       ELSE Goto(p, "runs") /\ job' = [job EXCEPT ![p].todo = Files(p)]
    /\ UNCHANGED <<disk, report, run, byHand, bucket, exit>>

PublishByHand(p) ==
    /\ p \in Operators
    /\ byHand < MaxByHand
    /\ pc[p] = "idle"
    /\ byHand' = byHand + 1
    /\ \E r \in {s \in Runs : report[s] # None}, keys \in SUBSET Keys \ {{}} :
          job' = [job EXCEPT ![p] = NewJob(r, keys, {}, TRUE)]
    /\ Goto(p, "begin")
    /\ UNCHANGED <<disk, report, run, bucket, exit>>

FirstOf(p, a) == a \in job[p].todo /\ \A b \in job[p].todo : a <= b

\* Mutant: the key of the object is built from the run before.
UploadRunUnderPrevious(p) ==
    LET r == IF job[p].run = 1 THEN 1 ELSE job[p].run - 1 IN
    /\ pc[p] = "runs"
    /\ \E a \in job[p].todo :
          /\ FirstOf(p, a)
          /\ objects' = [objects EXCEPT ![r][a] = disk[a]]
          /\ job' = [job EXCEPT ![p].todo = @ \ {a}]
    /\ UNCHANGED <<disk, report, run, byHand, latest, pointer, legacy, pc, exit>>

UploadRun(p) ==
    /\ pc[p] = "runs"
    /\ \E a \in job[p].todo :
          /\ FirstOf(p, a)
          /\ objects' = [objects EXCEPT ![job[p].run][a] = disk[a]]
          /\ job' = [job EXCEPT ![p].todo = @ \ {a}]
    /\ UNCHANGED <<disk, report, run, byHand, latest, pointer, legacy, pc, exit>>

\* Mutant: latest/ does not wait for runs/.
TurnToLatestAtOnce(p) ==
    /\ pc[p] = "runs"
    /\ job' = [job EXCEPT ![p].todo = Files(p) \cap ArtifactsOf(job[p].keys)]
    /\ Goto(p, "latest")
    /\ UNCHANGED <<disk, report, run, byHand, bucket, exit>>

TurnToLatest(p) ==
    /\ pc[p] = "runs"
    /\ job[p].todo = {}
    /\ job' = [job EXCEPT ![p].todo = Files(p) \cap ArtifactsOf(job[p].keys)]
    /\ Goto(p, "latest")
    /\ UNCHANGED <<disk, report, run, byHand, bucket, exit>>

UploadLatest(p) ==
    /\ pc[p] = "latest"
    /\ \E a \in job[p].todo :
          /\ FirstOf(p, a)
          /\ latest' = [latest EXCEPT ![a] = job[p].run]
          /\ job' = [job EXCEPT ![p].todo = @ \ {a}]
    /\ UNCHANGED <<disk, report, run, byHand, objects, pointer, legacy, pc, exit>>

\* The upload raises, and so does publish_run.
UploadFails(p) ==
    /\ "upload" \in Faults
    /\ pc[p] \in {"runs", "latest"}
    /\ job[p].todo # {}
    /\ Goto(p, "end")
    /\ UNCHANGED <<disk, report, run, byHand, bucket, job, exit>>

\* Mutant: every requested key gets a pointer, whether or not it has a file.
TurnToPointersOfAsked(p) ==
    /\ pc[p] = "latest"
    /\ job[p].todo = {}
    /\ IF job[p].write_last_success
       THEN /\ job' = [job EXCEPT ![p].target = Global, ![p].keys_left = job[p].keys]
            /\ Goto(p, "pointer")
       ELSE /\ job' = [job EXCEPT ![p].returned = TRUE]
            /\ Goto(p, "end")
    /\ UNCHANGED <<disk, report, run, byHand, bucket, exit>>

\* The run was not successful: no pointer is written.
TurnToPointers(p) ==
    /\ pc[p] = "latest"
    /\ job[p].todo = {}
    /\ IF job[p].write_last_success
       THEN /\ job' = [job EXCEPT ![p].target = Global,
                         ![p].keys_left = {key \in job[p].keys :
                                             \E a \in Files(p) : KeyOf[a] = key}]
            /\ Goto(p, "pointer")
       ELSE /\ job' = [job EXCEPT ![p].returned = TRUE]
            /\ Goto(p, "end")
    /\ UNCHANGED <<disk, report, run, byHand, bucket, exit>>

\* What follows a pointer: the next key, unless the global pointer failed.
PointerDone(p, result) ==
    LET done == [job[p] EXCEPT !.pointer_write[job[p].target] = result] IN
    IF job[p].keys_left = {} \/ (job[p].target = Global /\ result = "error")
    THEN /\ job' = [job EXCEPT ![p] = [done EXCEPT !.returned = TRUE]]
         /\ Goto(p, "end")
    ELSE /\ \E key \in job[p].keys_left :
               job' = [job EXCEPT ![p] = [done EXCEPT !.target = key,
                                             !.keys_left = @ \ {key}]]
         /\ Goto(p, "pointer")

PutPointer(p) ==
    /\ pc[p] = "pointer"
    /\ pointer' = [pointer EXCEPT ![job[p].target] = job[p].run]
    /\ Goto(p, "legacy")
    /\ UNCHANGED <<disk, report, run, byHand, objects, latest, legacy, job, exit>>

PutLegacy(p) ==
    /\ pc[p] = "legacy"
    /\ legacy' = [legacy EXCEPT ![job[p].target] = job[p].run]
    /\ PointerDone(p, "ok")
    /\ UNCHANGED <<disk, report, run, byHand, objects, latest, pointer, exit>>

\* A ClientError is caught and recorded.
PutRefused(p) ==
    /\ "client" \in Faults
    /\ pc[p] \in {"pointer", "legacy"}
    /\ PointerDone(p, "error")
    /\ UNCHANGED <<disk, report, run, byHand, bucket, exit>>

\* Any other exception leaves publish_run.
PutRaises(p) ==
    /\ "connection" \in Faults
    /\ pc[p] \in {"pointer", "legacy"}
    /\ Goto(p, "end")
    /\ UNCHANGED <<disk, report, run, byHand, bucket, job, exit>>

\* Mutant: the pointers of the keys are not looked at.
PointerWriteOkGlobalOnly(p) == job[p].returned /\ job[p].pointer_write[Global] = "ok"

\* _pointer_write_ok, on what publish_run returned.
PointerWriteOk(p) ==
    /\ job[p].returned
    /\ job[p].pointer_write[Global] = "ok"
    /\ \A q \in Pointers : job[p].pointer_write[q] # "error"

\* _publish_contract_failed in _finalize, down to the exit code.
EndDaily ==
    LET failed == Required /\ ~PointerWriteOk(Daily) IN
    /\ pc[Daily] = "end"
    /\ report' = IF failed THEN [report EXCEPT ![run].success = FALSE] ELSE report
    /\ exit' = IF failed \/ ~report[run].success THEN "nonzero" ELSE "zero"
    /\ Exits(Daily)
    /\ UNCHANGED <<disk, run, byHand, bucket>>

EndByHand(p) ==
    /\ p \in Operators
    /\ pc[p] = "end"
    /\ Exits(p)
    /\ UNCHANGED <<disk, report, run, byHand, bucket, exit>>

Crash(p) ==
    /\ "crash" \in Faults
    /\ pc[p] # "idle"
    /\ Exits(p)
    /\ UNCHANGED <<disk, report, run, byHand, bucket, exit>>

Publish(p) ==
    \/ Begin(p, FALSE)
    \/ "preflight" \in Faults /\ Begin(p, TRUE)
    \/ UploadRun(p) \/ TurnToLatest(p) \/ UploadLatest(p) \/ UploadFails(p)
    \/ TurnToPointers(p) \/ PutPointer(p) \/ PutLegacy(p)
    \/ PutRefused(p) \/ PutRaises(p) \/ Crash(p)

DailySteps == StartRun \/ WriteOutput \/ Finalize \/ FinalizeError \/ ShortCircuit \/ EndDaily

Next ==
    \/ DailySteps
    \/ \E p \in Publishers : Publish(p)
    \/ \E p \in Operators : PublishByHand(p) \/ EndByHand(p)

Spec == Init /\ [][Next]_vars

-----------------------------------------------------------------------------
\* A later run reads its baseline: _resolve_s3_baseline.

Readable(r, key) == objects[r][RankedOf[key]] # 0

\* read_last_success_state: the legacy copy when the candidate has none.
ReadPointer(q) == IF pointer[q] # 0 THEN pointer[q] ELSE legacy[q]

\* get_most_recent_successful_run_id_before: the listing trusts the
\* run_report.json it finds beside the objects.
ListedBefore(r) ==
    {s \in Runs : s < r /\ objects[s][RunReport] # 0 /\ report[s].success}

History(r) ==
    IF ListedBefore(r) = {} THEN 0
    ELSE CHOOSE s \in ListedBefore(r) : \A t \in ListedBefore(r) : t <= s

Usable(found, r, key) == found \notin {0, r} /\ Readable(found, key)

Baseline(r, key) ==
    IF Usable(ReadPointer(key), r, key) THEN ReadPointer(key)
    ELSE IF Usable(ReadPointer(Global), r, key) THEN ReadPointer(Global)
    ELSE IF Usable(History(r), r, key) THEN History(r)
    ELSE 0

-----------------------------------------------------------------------------
\* verify_published_s3.py, which plans the upload of run r again, for all keys,
\* from its report.

Entries(r, verify_latest) ==
    {[kind |-> kind, file |-> a] : kind \in {"runs"} \cup (IF verify_latest THEN {"latest"} ELSE {}),
                                   a \in report[r].files}

HasPlan(r) == report[r] # None /\ report[r].files # {}

\* What an object holds.  Nobody but the daily run published, so that what is
\* under latest/ is what the report of its run has hashed.
Head(r, e) ==
    IF e.kind = "runs" THEN objects[r][e.file]
    ELSE IF latest[e.file] = 0 THEN 0
    ELSE report[latest[e.file]].sha[e.file]

Expected(r, e) == report[r].sha[e.file]

\* Only the sizes are compared, in which the files of two runs may agree.
Sizes == {[content \in 0 .. MaxRun |-> content], [content \in 0 .. MaxRun |-> 0]}

Verified(r, verify_latest, size) ==
    HasPlan(r) /\ \A e \in Entries(r, verify_latest) :
        Head(r, e) # 0 /\ size[Head(r, e)] = size[Expected(r, e)]

\* --offline compares the files that are there now, by their hashes.
VerifiedOffline(r) ==
    HasPlan(r) /\ \A e \in Entries(r, FALSE) : disk[e.file] = Expected(r, e)

-----------------------------------------------------------------------------
\* The objects of a run go up before any pointer can name it: a pointer, or
\* its legacy copy, names a run all of whose objects are in the bucket,
\* whatever failed or died on the way and whoever else was publishing.
PointersNameCompleteRuns ==
    \A q \in Pointers : \A r \in {pointer[q], legacy[q]} \ {0} : Uploaded(r)

\* An object under latest/ belongs to a run whose copy under runs/ is whole.
LatestIsBacked ==
    \A a \in Artifacts : latest[a] # 0 => Uploaded(latest[a]) /\ a \in report[latest[a]].files

\* A key that has a pointer of its own has a baseline: the pointer leads any
\* other run to a ranked list that can be downloaded.
BaselineResolves ==
    \A key \in Keys, r \in Runs :
        LET found == ReadPointer(key)
        IN  found \notin {0, r} => Baseline(r, key) = found

\* While only daily runs publish, the objects of a run hold what its report
\* hashed: the lock keeps later runs from writing the files under the upload.
\* So the verification of any run, whatever the sizes of its files, says at any
\* time whether all of it is there; that of the last run also stands offline;
\* and once it has got pointers, --verify-latest passes for it too.
UploadedMatchesReport ==
    byHand = 0 => \A r \in Runs :
        /\ \A a \in Artifacts :
              objects[r][a] # 0 => report[r] # None /\ objects[r][a] = report[r].sha[a]
        /\ \A size \in Sizes : Verified(r, FALSE, size) <=> Uploaded(r)
        /\ r = run /\ HasPlan(r) => VerifiedOffline(r)
        /\ r = run /\ pointer[Global] = r =>
              \A size \in Sizes : Verified(r, TRUE, size)

\* What a reader of the bucket sees of run r.
Visible(r) ==
    /\ report[r].success
    /\ \A a \in report[r].files : objects[r][a] = report[r].sha[a] /\ latest[a] = r
    /\ \A q \in {Global} \cup {KeyOf[a] : a \in report[r].files} :
          pointer[q] = r /\ legacy[q] = r

\* PUBLISH_S3_REQUIRE: while only daily runs publish, one that was to publish
\* exits with zero only when all of it can be seen.
ContractKept ==
    [][byHand = 0 /\ Required /\ pc[Daily] = "end" /\ exit' = "zero" => Visible(run)]_vars

\* What the bucket promises.
Promise == INSTANCE Catalog WITH
    complete <- {r \in Runs : Uploaded(r)}, None <- 0

ImplementsCatalog == Promise!Spec
=============================================================================
