------------------------------ MODULE JobDiff ------------------------------
(***************************************************************************)
(* How two lists of postings of one provider and profile are compared.     *)
(* Six programs do it, each with its own key and its own fields:          *)
(* run_daily._diff for the messages, utils/diff_report.py, the alerts of   *)
(* jobintel/alerts.py (with the index last_seen in the place of the older  *)
(* list), jobintel/delta.py, ai/insights_input.py, and                     *)
(* jobintel/safety/diff.py for an operator.                                *)
(* JobStages runs them on the rankings of its runs.                        *)
(*                                                                         *)
(* A list is a set of postings with job_id (or None), url, title, us,      *)
(* chars (the text) and score.  A key is a tuple.  Titles and addresses    *)
(* are normalised ones.                                                    *)
(***************************************************************************)
EXTENDS Scoring

CONSTANTS
    MinAlert,           \* --min_alert_score
    ScoreDelta          \* JOBINTEL_ALERT_SCORE_DELTA

ASSUME JobDiffAssumption == MinAlert \in Int /\ ScoreDelta \in Int

-----------------------------------------------------------------------------
(* Keys.                                                                   *)

\* job_identity in the mode "legacy", which _job_key and the alerts use.
LegacyIdentity(j) == IF j.job_id # None THEN <<j.job_id>> ELSE <<j.url>>

\* job_identity in the mode "provider", for a posting without an id.
ProviderIdentity(j) == <<j.url, j.title, j.us>>

\* Mutant: the identity also for postings with an id.
IdentityKeyAlways(j) == ProviderIdentity(j)

\* _identity_key of the diff report and _effective_job_id of the safety diff.
IdentityKey(j) == IF j.job_id # None THEN <<j.job_id>> ELSE ProviderIdentity(j)

\* extract_job_id, without the provider, which is the same in both lists.
DeltaKey(j) == IF j.job_id # None THEN <<j.job_id>> ELSE <<j.url>>

-----------------------------------------------------------------------------
(* Fields.                                                                 *)

\* Mutant: the description is forgotten.
ContentWithoutText(j) == <<j.title, j.us>>

\* content_fingerprint, which score_jobs stores and _hash_job reads: no score.
Content(j) == <<j.title, j.us, j.chars>>

\* _DIFF_FIELDS of the report.
ReportFields(j) == <<j.title, j.us, j.chars, j.score>>

\* FIELDS of the delta, which are the fingerprint of the safety diff, too.
DeltaFields(j) == <<j.title, j.us, j.url>>

TitleHash(j) == <<j.title, j.us>>

\* _TRACKED_DIFF_FIELDS of the insights: no text.
InsightFields(j) == <<j.title, j.us, j.score>>

-----------------------------------------------------------------------------
(* The comparisons.                                                        *)

KeysOf(Key(_), js) == {Key(j) : j \in js}
At(Key(_), js, k) == CHOOSE j \in js : Key(j) = k
Added(Key(_), prev, curr) == KeysOf(Key, curr) \ KeysOf(Key, prev)
Changed(Key(_), Fields(_), prev, curr) ==
    {k \in KeysOf(Key, prev) \cap KeysOf(Key, curr) :
        Fields(At(Key, prev, k)) # Fields(At(Key, curr, k))}

\* run_daily._diff.
Diff(prev, curr) ==
    [new     |-> Added(LegacyIdentity, prev, curr),
     changed |-> Changed(LegacyIdentity, Content, prev, curr),
     removed |-> Added(LegacyIdentity, curr, prev)]

\* _user_state_sets looks up the postings of the current list only.
Ignored(user, curr) == KeysOf(LegacyIdentity, curr) \cap {<<id>> : id \in user.ignored}
Suppressed(user, curr) ==
    KeysOf(LegacyIdentity, curr) \cap {<<id>> : id \in user.ignored \cup user.applied}

\* build_diff_report.
DiffReport(prev, curr, user) ==
    LET hidden == Ignored(user, curr) IN
    [added   |-> Added(IdentityKey, prev, curr) \ hidden,
     changed |-> Changed(IdentityKey, ReportFields, prev, curr) \ hidden,
     removed |-> Added(IdentityKey, curr, prev) \ hidden]

\* compute_delta: without a baseline nothing is new.
Delta(prev, curr) ==
    IF prev = {} THEN [new |-> {}, changed |-> {}, removed |-> {}]
    ELSE [new     |-> Added(DeltaKey, prev, curr),
          changed |-> Changed(DeltaKey, DeltaFields, prev, curr),
          removed |-> Added(DeltaKey, curr, prev)]

\* _diff_summary of the insights, which hides nothing.
InsightsDiff(prev, curr) ==
    [new     |-> Added(DeltaKey, prev, curr),
     changed |-> Changed(DeltaKey, InsightFields, prev, curr),
     removed |-> Added(DeltaKey, curr, prev)]

\* What _build_insights_payload recommends, apart from the families of titles.
Recommended(diff, curr) ==
    {action \in {"reach out", "check again", "apply"} :
        \/ action = "reach out" /\ diff.new # {}
        \/ action = "check again" /\ diff.changed # {}
        \/ action = "apply" /\ \E j \in curr : j.score >= 80}

-----------------------------------------------------------------------------
(* Alerts.                                                                 *)

\* build_last_seen.
LastSeen(js) ==
    {[key |-> LegacyIdentity(j), score |-> j.score, hash |-> TitleHash(j)] : j \in js}

SeenKeys(seen) == {e.key : e \in seen}
Abs(n) == IF n < 0 THEN -n ELSE n

\* compute_alerts.
Alerts(seen, curr) ==
    LET both == SeenKeys(seen) \cap KeysOf(LegacyIdentity, curr)
        Then(k) == CHOOSE e \in seen : e.key = k
        Now(k) == At(LegacyIdentity, curr, k)
    IN [new      |-> KeysOf(LegacyIdentity, curr) \ SeenKeys(seen),
        removed  |-> SeenKeys(seen) \ KeysOf(LegacyIdentity, curr),
        rescored |-> {k \in both : Abs(Now(k).score - Then(k).score) >= ScoreDelta},
        retitled |-> {k \in both : TitleHash(Now(k)) # Then(k).hash}]

\* _apply_user_state_to_alerts.
MarkedAlerts(alerts, user, curr) ==
    [new      |-> alerts.new \ Suppressed(user, curr),
     removed  |-> alerts.removed \ Ignored(user, curr),
     rescored |-> alerts.rescored \ Ignored(user, curr),
     retitled |-> alerts.retitled \ Ignored(user, curr)]

-----------------------------------------------------------------------------
(* What is told of a comparison.                                           *)

AtAlertLevel(keys, js) == {k \in keys : At(LegacyIdentity, js, k).score >= MinAlert}

\* format_changes_section: the section of the shortlist, without its limits.
ChangesSection(prev, curr, user) ==
    LET diff == Diff(prev, curr)
        hidden == Ignored(user, curr)
    IN [new     |-> AtAlertLevel(diff.new \ hidden, curr),
        changed |-> AtAlertLevel(diff.changed \ hidden, curr),
        removed |-> diff.removed \ hidden]

\* _should_notify in the mode "diff".  The first run has no baseline.
ShouldNotify(report, first) ==
    first \/ report.added # {} \/ report.changed # {} \/ report.removed # {}

\* The new and the changed postings of the Discord message, which main builds
\* from the diff but sends if the report is not empty.  At most eight of each
\* are written out.
Message(prev, curr, user, first) ==
    LET diff == Diff(prev, curr) IN
    IF ~ShouldNotify(DiffReport(prev, curr, user), first) THEN [new |-> {}, changed |-> {}]
    ELSE [new     |-> AtAlertLevel(diff.new \ Suppressed(user, curr), curr),
          changed |-> AtAlertLevel(diff.changed \ Ignored(user, curr), curr)]

-----------------------------------------------------------------------------
(* build_safety_diff_report.                                               *)

LeastOf(m, n) == IF m < n THEN m ELSE n
Group(js, k) == {j \in js : IdentityKey(j) = k}

\* The postings of a group in the order of their fingerprints: one of the
\* orders that hashes can have.
InOrder(group) ==
    CHOOSE s \in SetToSeqs(group) : \A m, n \in DOMAIN s : m < n => s[m].who <= s[n].who

AllKeys(prev, curr) == KeysOf(IdentityKey, prev) \cup KeysOf(IdentityKey, curr)

\* Sums over the ids, each with its number of postings in both lists.
SumOver(keys, Value(_)) == FoldFunction(+, 0, [k \in keys |-> Value(k)])

\* The pairs that differ when the postings of an id are paired in their order.
ChangedPairs(prev, curr, k) ==
    LET old == InOrder(Group(prev, k))
        new == InOrder(Group(curr, k))
    IN Cardinality({n \in 1 .. LeastOf(Len(old), Len(new)) :
                       DeltaFields(old[n]) # DeltaFields(new[n])})

\* _job_id_churn: fingerprints whose posting has another id; of several
\* postings with one fingerprint, one counts.
Churn(prev, curr) ==
    {f \in KeysOf(DeltaFields, prev) \cap KeysOf(DeltaFields, curr) :
        IdentityKey(At(DeltaFields, prev, f)) # IdentityKey(At(DeltaFields, curr, f))}

\* A ratio of at least so many tenths; that of an empty whole is 0.
Reaches(part, whole, tenths) == whole > 0 /\ 10 * part >= tenths * whole

\* _risk_score; every posting of the model has an address.
Risk(total, candidate, churned, overlap, changed, common) ==
    LET drop == CASE Reaches(total - candidate, total, 6) -> 40
                  [] Reaches(total - candidate, total, 3) /\ ~Reaches(total - candidate, total, 6) -> 20
                  [] OTHER -> 0
        churn == CASE Reaches(churned, overlap, 3) -> 30
                   [] Reaches(churned, overlap, 1) /\ ~Reaches(churned, overlap, 3) -> 15
                   [] OTHER -> 0
        incomplete == (IF total > 0 /\ candidate = 0 THEN 15 ELSE 0)
                      + (IF candidate = 0 THEN 10 ELSE 0)
        fields == IF Reaches(changed, common, 5) THEN 10 ELSE 0
    IN LeastOf(drop + churn + incomplete + fields, 100)

SafetyDiff(prev, curr) ==
    LET keys == AllKeys(prev, curr)
        Old(k) == Cardinality(Group(prev, k))
        New(k) == Cardinality(Group(curr, k))
        changed == SumOver(keys, LAMBDA k : ChangedPairs(prev, curr, k))
        churn == Churn(prev, curr)
    IN [new     |-> SumOver(keys, LAMBDA k : IF New(k) > Old(k) THEN New(k) - Old(k) ELSE 0),
        removed |-> SumOver(keys, LAMBDA k : IF Old(k) > New(k) THEN Old(k) - New(k) ELSE 0),
        changed |-> changed,
        churned |-> Cardinality(churn),
        risk    |-> Risk(Cardinality(prev), Cardinality(curr), Cardinality(churn),
                         Cardinality(KeysOf(DeltaFields, prev) \cap KeysOf(DeltaFields, curr)),
                         changed, SumOver(keys, LAMBDA k : LeastOf(Old(k), New(k))))]
=============================================================================
