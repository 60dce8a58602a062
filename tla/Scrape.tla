------------------------------- MODULE Scrape -------------------------------
(***************************************************************************)
(* scripts/run_scrape.py: one process that takes the requested providers   *)
(* in order, decides for each one between the live site and its snapshot,  *)
(* and writes its raw postings and its provenance (scrape_meta.json), with *)
(* the failure policy that scripts/run_daily.py then judges these by.      *)
(*                                                                         *)
(* Postings are counted: a result is where it came from and how many there *)
(* are.  The options of the process, the snapshots on disk and the answers *)
(* of the sites are free.                                                  *)
(***************************************************************************)
EXTENDS Naturals, Sequences, ProviderPoliteness

CONSTANTS
    Requests,      \* what --providers may be: sequences of provider ids
    TypeOf,        \* extraction_mode of a provider
    ModeOf,        \* its "mode" in providers.json, in upper case
    LiveEnabled,   \* its "live_enabled"
    Configured,    \* what the "politeness" of the providers may be
    KeyOf,         \* its id as it ends the name of an environment variable
    OperatorEnvs,  \* what the environment may set before the process starts
    Allowlists,    \* what the allowlists may be; they name providers for hosts
    Counts,        \* sizes of a list of postings (bound of the model)
    MinJobs,       \* JOBINTEL_PROVIDER_MIN_JOBS
    RatioDivisor,  \* 1 / JOBINTEL_PROVIDER_MIN_SNAPSHOT_RATIO
    Missing,       \* a snapshot that is not there
    Invalid,       \* a snapshot that does not pass validation or parsing
    None           \* None

VARIABLES
    polite,        \* the "politeness" of each provider
    env,           \* the environment variables of the politeness of each key
    allowlists,    \* JOBINTEL_LIVE_ALLOWLIST_DOMAINS of each key, and without a key
    options,       \* args.providers, args.mode and args.snapshot_only
    snapshot,      \* the snapshot of each provider: Missing, Invalid or a count
    i,             \* the position in options.providers
    pc,            \* "choose", "live", "load", "save", "done" or "exited"
    jobs,          \* raw_jobs of the provider at hand
    prov,          \* its provenance record
    raw,           \* what each raw postings file holds
    meta,          \* what each scrape_meta.json holds
    operator,      \* observation: the environment at first
    contacted,     \* observation: providers whose site was asked for postings
    denied         \* observation: providers the robots policy denied

pacing == <<polite, env, operator>>
given == <<options, snapshot, allowlists>>
vars == <<pacing, given, i, pc, jobs, prov, raw, meta, contacted, denied>>

Ids == UNION {{ids[k] : k \in DOMAIN ids} : ids \in Requests}
Types == {"openai", "ashby", "jsonld", "snapshot_json"}
Modes == {"SNAPSHOT", "LIVE", "AUTO"}

ASSUME ScrapeAssumption ==
    /\ Requests \subseteq Seq(STRING)
    /\ \A ids \in Requests : \A m, n \in DOMAIN ids : ids[m] = ids[n] => m = n
    /\ TypeOf \in [Ids -> Types]
    /\ ModeOf \in [Ids -> Modes]
    /\ LiveEnabled \in [Ids -> BOOLEAN]
    /\ Configured \subseteq [Ids -> Politeness]
    /\ DOMAIN KeyOf = Ids
    /\ Allowlists \subseteq [own : [{KeyOf[p] : p \in Ids} -> SUBSET Ids], general : SUBSET Ids]
    /\ OperatorEnvs \subseteq [{KeyOf[p] : p \in Ids} -> [Exported -> Nat \cup {NotGiven}]]
    /\ Counts \subseteq Nat /\ 0 \in Counts
    /\ MinJobs \in Nat /\ RatioDivisor \in Nat \ {0}
    /\ None \notin Nat \cup {"live", "snapshot"}

\* The reasons of ProviderFetchError that make a provider unavailable, and
\* "failed" for all others and for any other exception of the live scrape.
Denials == {"auth_error", "blocked", "circuit_breaker"}
LiveErrors == Denials \cup {"failed"}
Reasons == Denials \cup {"policy", "empty_success", "parse_error", "invalid_snapshot", "failed"}

Options == [providers : Requests, mode : Modes \cup {None}, snapshot_only : BOOLEAN]

Result == [from : {"live", "snapshot", "nothing", "before"}, n : Counts]
Provenance == [scrape_mode : {None, "live", "snapshot"},
               live_result : {None, "success", "failed", "blocked", "skipped"},
               live_reason : Reasons \cup {None},
               available : BOOLEAN,
               reason : Reasons \cup {None},
               parsed : Counts,
               baseline : Counts \cup {None}]

NoJobs == [from |-> "nothing", n |-> 0]
Blank == [scrape_mode |-> None, live_result |-> None, live_reason |-> None,
          available |-> TRUE, reason |-> None, parsed |-> 0, baseline |-> None]

TypeOK ==
    /\ polite \in Configured
    /\ env \in [{KeyOf[p] : p \in Ids} -> [Exported -> Nat \cup {NotGiven}]]
    /\ operator \in OperatorEnvs
    /\ allowlists \in Allowlists
    /\ options \in Options
    /\ snapshot \in [Ids -> Counts \cup {Missing, Invalid}]
    /\ i \in 1 .. Len(options.providers) + 1
    /\ pc \in {"choose", "live", "load", "save", "done", "exited"}
    /\ jobs \in Result
    /\ prov \in Provenance
    /\ raw \in [Ids -> Result]
    /\ meta \in [Ids -> Provenance \cup {None}]
    /\ contacted \in SUBSET Ids
    /\ denied \in SUBSET Ids

Init ==
    /\ polite \in Configured
    /\ \A p \in Ids : Accepted(polite[p])
    /\ env \in OperatorEnvs
    /\ operator = env
    /\ allowlists \in Allowlists
    /\ options \in Options
    /\ snapshot \in [Ids -> Counts \cup {Missing, Invalid}]
    /\ i = 1
    /\ pc = "choose"
    /\ jobs = NoJobs
    /\ prov = Blank
    /\ raw = [p \in Ids |-> [from |-> "before", n |-> 0]]
    /\ meta = [p \in Ids |-> None]
    /\ contacted = {}
    /\ denied = {}

-----------------------------------------------------------------------------
Current == options.providers[i]
Type == TypeOf[Current]
Saved == snapshot[Current]

AskedMode == IF options.mode = None THEN ModeOf[Current] ELSE options.mode

\* What AUTO means for each type.
Mode ==
    IF AskedMode # "AUTO" THEN AskedMode
    ELSE IF Type = "openai" \/ (Type \in {"ashby", "jsonld"} /\ LiveEnabled[Current])
         THEN "LIVE" ELSE "SNAPSHOT"

\* SystemExit before anything of this provider is written.
ExitsAtOnce ==
    \/ options.snapshot_only /\ AskedMode # "SNAPSHOT"
    \/ Type = "snapshot_json" /\ (Mode # "SNAPSHOT" \/ Saved \in {Missing, Invalid})
    \/ Type \in {"ashby", "jsonld"} /\ Mode = "SNAPSHOT" /\ Saved = Missing

Exit ==
    /\ pc = "choose"
    /\ i <= Len(options.providers)
    /\ ExitsAtOnce
    /\ pc' = "exited"
    /\ UNCHANGED <<pacing, given, i, jobs, prov, raw, meta, contacted, denied>>

\* The next provider: its politeness is exported and its mode resolved.
Choose ==
    /\ pc = "choose"
    /\ i <= Len(options.providers)
    /\ ~ExitsAtOnce
    /\ pc' = IF Mode = "LIVE" THEN "live" ELSE "load"
    /\ jobs' = NoJobs
    /\ prov' = IF Mode = "LIVE" THEN Blank
               ELSE [Blank EXCEPT !.scrape_mode = "snapshot", !.live_result = "skipped"]
    /\ env' = Applied(env, KeyOf[Current], polite[Current])
    /\ UNCHANGED <<polite, operator, given, i, raw, meta, contacted, denied>>

Finish ==
    /\ pc = "choose"
    /\ i > Len(options.providers)
    /\ pc' = "done"
    /\ UNCHANGED <<pacing, given, i, jobs, prov, raw, meta, contacted, denied>>

\* The provider's files, and on to the next one.
Write(result, provenance) ==
    /\ raw' = [raw EXCEPT ![Current] = result]
    /\ meta' = [meta EXCEPT ![Current] = provenance]
    /\ i' = i + 1
    /\ pc' = "choose"

\* _finalize_unavailable_provider: the raw file becomes an empty list.
FinalizeUnavailable(p) ==
    Write(NoJobs, [p EXCEPT !.available = FALSE, !.reason = "invalid_snapshot",
                            !.live_result = IF @ = None THEN "failed" ELSE @])

\* The fall back to the snapshot, with the provenance it leads to.  A missing
\* one ends the process, except for openai, which takes it for no postings.
LoadSnapshot(p, then) ==
    \/ /\ Saved = Missing /\ Type # "openai"
       /\ pc' = "exited"
       /\ prov' = p
       /\ UNCHANGED <<i, jobs, raw, meta>>
    \/ /\ Saved = Invalid
       /\ FinalizeUnavailable(p)
       /\ prov' = p
       /\ UNCHANGED jobs
    \/ /\ Saved \in Counts \/ (Saved = Missing /\ Type = "openai")
       /\ jobs' = [from |-> "snapshot", n |-> IF Saved = Missing THEN 0 ELSE Saved]
       /\ prov' = then
       /\ pc' = "save"
       /\ UNCHANGED <<i, raw, meta>>

\* SNAPSHOT mode.
LoadOnly ==
    /\ pc = "load"
    /\ LoadSnapshot([prov EXCEPT !.scrape_mode = None, !.live_result = None], prov)
    /\ UNCHANGED <<pacing, given, contacted, denied>>

\* The last lines of the "try" in LIVE mode, which both a live result and a
\* snapshot loaded because of the robots policy reach.
MarkLive(p) == [p EXCEPT !.scrape_mode = "live", !.live_result = "success"]

AfterDenial(p) ==
    [p EXCEPT !.live_result = "skipped", !.live_reason = "policy",
              !.available = FALSE, !.reason = "policy"]

\* _allowlist_allows: the list of the provider, or else the one of all; an
\* empty one names everybody.
Allowlisted(p) ==
    LET own == allowlists.own[KeyOf[p]]
        list == IF own = {} THEN allowlists.general ELSE own
    IN list = {} \/ p \in list

\* evaluate_robots_policy: a site is asked only when it is allowlisted and its
\* robots.txt came with status 200 and says so.
RobotsAnswers == {"exception", "status", "disallow", "allow"}
FinalAllowed(p, answer) == Allowlisted(p) /\ answer = "allow"

\* It says no, and the snapshot is used instead.
Denied(answer) ==
    /\ pc = "live"
    /\ ~FinalAllowed(Current, answer)
    /\ denied' = denied \cup {Current}
    /\ LoadSnapshot(AfterDenial(prov), MarkLive(AfterDenial(prov)))
    /\ UNCHANGED <<pacing, given, contacted>>

\* It says yes, and scrape_live returns n postings.
LiveResult(n) ==
    /\ pc = "live"
    /\ FinalAllowed(Current, "allow")
    /\ contacted' = contacted \cup {Current}
    /\ jobs' = [from |-> "live", n |-> n]
    /\ prov' = MarkLive(prov)
    /\ pc' = "save"
    /\ UNCHANGED <<pacing, given, i, raw, meta, denied>>

AfterLiveError(p, error) ==
    [p EXCEPT !.live_reason = error,
              !.live_result = CASE error = "circuit_breaker" -> "skipped"
                                [] error \in {"auth_error", "blocked"} -> "blocked"
                                [] OTHER -> "failed",
              !.available = error \notin Denials,
              !.reason = IF error \in Denials THEN error ELSE @]

\* The snapshot was loaded after an error.
Labelled(p) == [p EXCEPT !.scrape_mode = "snapshot"]

\* It says yes, scrape_live raises, and the snapshot is used instead.  An open circuit
\* raises before the site is asked.
LiveError(error) ==
    /\ pc = "live"
    /\ FinalAllowed(Current, "allow")
    /\ contacted' = IF error = "circuit_breaker" THEN contacted ELSE contacted \cup {Current}
    /\ LET p == AfterLiveError(prov, error) IN LoadSnapshot(p, Labelled(p))
    /\ UNCHANGED <<pacing, given, denied>>

\* A live result without postings makes the provider unavailable.
EmptySuccess(p) ==
    IF p.scrape_mode = "live" /\ p.live_result = "success" /\ p.parsed = 0
    THEN [p EXCEPT !.available = FALSE, !.reason = "empty_success"] ELSE p

\* Mutant: the baseline of a live scrape is not recorded.
WithBaselineNever(p) == p

\* A live scrape records what the snapshot would have given.
WithBaseline(p) ==
    IF Mode = "LIVE" /\ Saved \in Counts THEN [p EXCEPT !.baseline = Saved] ELSE p

\* The rest of the loop's body, by type.
OpenAIProvenance(p) ==
    LET q == WithBaseline(EmptySuccess(p))
        why == IF q.live_reason = None THEN "parse_error" ELSE q.live_reason
    IN  IF q.parsed = 0 /\ Saved = Missing
        THEN [q EXCEPT !.available = FALSE, !.reason = why] ELSE q

AshbyProvenance(p) == WithBaseline(EmptySuccess(p))

\* _classify_snapshot_unavailable_reason, when no reason is known yet.
JsonLdProvenance(p) ==
    EmptySuccess(IF p.parsed = 0 /\ p.reason = None
                 THEN [p EXCEPT !.available = FALSE,
                                !.reason = IF Saved = Invalid THEN "parse_error"
                                           ELSE "empty_success"]
                 ELSE p)

SnapshotJsonProvenance(p) == p

FinalProvenance ==
    LET p == [prov EXCEPT !.parsed = jobs.n] IN
    CASE Type = "openai" -> OpenAIProvenance(p)
      [] Type = "ashby" -> AshbyProvenance(p)
      [] Type = "jsonld" -> JsonLdProvenance(p)
      [] Type = "snapshot_json" -> SnapshotJsonProvenance(p)

\* _write_raw_jobs and _write_scrape_meta.
Save ==
    /\ pc = "save"
    /\ Write(jobs, FinalProvenance)
    /\ UNCHANGED <<pacing, given, jobs, prov, contacted, denied>>

Next ==
    \/ Exit \/ Choose \/ Finish \/ LoadOnly \/ Save
    \/ \E answer \in RobotsAnswers : Denied(answer)
    \/ \E n \in Counts : LiveResult(n)
    \/ \E error \in LiveErrors : LiveError(error)

Spec == Init /\ [][Next]_vars

-----------------------------------------------------------------------------
\* _evaluate_provider_policy of run_daily.py, without enrichment: the run fails
\* when a live scrape found too little.
PolicyFails(m) ==
    /\ m.scrape_mode = "live"
    /\ \/ m.parsed < MinJobs
       \/ m.baseline # None /\ m.baseline > 0 /\ m.parsed < m.baseline \div RatioDivisor

\* While a site is asked, the delay between two requests is the one its own
\* entry gives, unless the environment gave one before the process started or
\* an earlier provider of the list has an id that names the same variable.
PacedByOwnEntry ==
    LET key == KeyOf[Current] IN
    /\ pc = "live"
    /\ ~Given(operator[key].delay)
    /\ \A k \in 1 .. i - 1 : KeyOf[options.providers[k]] # key
    => env[key].delay = DelayAsRead(polite[Current])

Written == {p \in Ids : meta[p] # None}

\* A site that the robots policy denies, or that is on no allowlist, is not
\* asked for postings, although both paths share the code of the live scrape;
\* with --snapshot-only no site is, whatever the providers are configured to.
OnlyAllowedContacts ==
    /\ contacted \cap denied = {}
    /\ \A p \in contacted : Allowlisted(p)
    /\ options.snapshot_only => contacted = {} /\ denied = {}

\* The postings labelled live were fetched live, unless the policy denied the
\* site: no error path keeps the label of the attempt that failed.
MislabelOnlyAfterDenial ==
    \A p \in Written : meta[p].scrape_mode = "live" => raw[p].from = "live" \/ p \in denied

\* An openai or ashby site that suddenly gives much less than the snapshot
\* fails the run, instead of emptying the ranking.
ShrinkageFailsRun ==
    \A p \in Written :
        TypeOf[p] \in {"openai", "ashby"} /\ raw[p].from = "live" /\ snapshot[p] \in Counts
            => (raw[p].n < snapshot[p] \div RatioDivisor => PolicyFails(meta[p]))
=============================================================================
