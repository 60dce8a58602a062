--------------------------- MODULE ProviderProofs ---------------------------
(***************************************************************************)
(* Proofs about the providers' side of the program: of Scrape, for every   *)
(* list of providers, configuration, environment, allowlist and snapshot;  *)
(* and of ProviderFiles, for any number of programs, providers and pages.  *)
(* The two are about the same files at different grains: a scrape reads    *)
(* the registry and the snapshots that the programs of ProviderFiles edit. *)
(***************************************************************************)
EXTENDS Scrape, ProviderFiles, TLAPS

\* The provider at hand has been asked for postings, or has been denied.
Handled == IF pc \in {"choose", "live", "load"} THEN 1 .. i - 1 ELSE 1 .. i

\* What is known of the provider at hand at each line.
LineInv ==
    /\ pc \in {"live", "load", "save"} => i \in 1 .. Len(options.providers)
    /\ pc = "live" => Mode = "LIVE" /\ prov = Blank /\ ~options.snapshot_only
    /\ pc = "load" => prov.scrape_mode = "snapshot"
    /\ pc = "save" /\ prov.scrape_mode = "live" => jobs.from = "live" \/ Current \in denied
    /\ pc = "save" /\ jobs.from = "live" => Mode = "LIVE" /\ prov = MarkLive(Blank)

\* Who was asked or denied has been handled, so that nobody is twice.
ContactInv ==
    /\ \A p \in contacted \cup denied :
          \E k \in Handled : k \in DOMAIN options.providers /\ options.providers[k] = p
    /\ OnlyAllowedContacts

\* Up to which provider the environment has been changed.
Exporting == IF pc = "choose" THEN 1 .. i - 1 ELSE 1 .. i

\* A variable that no provider so far is named by is as the operator left it.
EnvInv ==
    \A key \in {KeyOf[p] : p \in Ids} :
        (\A k \in Exporting : k \in DOMAIN options.providers => KeyOf[options.providers[k]] # key)
        => env[key] = operator[key]

PacingInv ==
    /\ EnvInv
    /\ \A p \in Ids : Accepted(polite[p])
    /\ PacedByOwnEntry

Inv ==
    /\ TypeOK
    /\ LineInv
    /\ ContactInv
    /\ MislabelOnlyAfterDenial
    /\ ShrinkageFailsRun
    /\ PacingInv

-----------------------------------------------------------------------------
(* Operators. *)

LEMMA ProvidersAreIds ==
    ASSUME ScrapeAssumption, TypeOK, NEW k \in 1 .. Len(options.providers)
    PROVE  options.providers[k] \in Ids
BY DEF ScrapeAssumption, TypeOK, Options, Ids

LEMMA NormalizedTyped ==
    ASSUME ProviderPolitenessAssumption, NEW entry \in Politeness, NEW f \in Exported,
           Accepted(entry)
    PROVE  Normalized(entry)[f] \in Nat \cup {NotGiven}
<1>1. Merged(entry) \in Settings
  BY DEF Merged, Politeness, Settings
<1> DEFINE m == Merged(entry)
<1>2. m.qps \in Nat /\ m.qps # 0 => Second \div m.qps \in Nat
  BY DEF ProviderPolitenessAssumption
<1>3. m.delay \in Nat /\ m.delay > 0 => Second \div m.delay \in Nat
  BY DEF ProviderPolitenessAssumption
<1>4. f \in {"delay", "inflight"} /\ m \in [Fields -> Nat \cup {NotGiven}]
  BY <1>1 DEF Exported, Settings
<1>5. m.qps # 0
  BY DEF Accepted
<1> HIDE DEF m
<1>6. CASE Given(m.qps) /\ ~Given(m.delay)
  <2>1. m.qps \in Nat
    BY <1>4, <1>6 DEF Given, Fields
  <2>2. Normalized(entry) = [m EXCEPT !.delay = Second \div m.qps]
    BY <1>6 DEF Normalized, m
  <2> QED
    BY <2>1, <2>2, <1>2, <1>4, <1>5 DEF Fields
<1>7. CASE ~Given(m.qps) /\ Given(m.delay) /\ m.delay > 0
  <2>1. m.delay \in Nat
    BY <1>4, <1>7 DEF Given, Fields
  <2>2. Normalized(entry) = [m EXCEPT !.qps = Second \div m.delay]
    BY <1>7 DEF Normalized, m
  <2> QED
    BY <2>1, <2>2, <1>3, <1>4, <1>7 DEF Fields
<1>8. CASE ~(Given(m.qps) /\ ~Given(m.delay)) /\ ~(~Given(m.qps) /\ Given(m.delay) /\ m.delay > 0)
  <2>1. Normalized(entry) = m
    BY <1>8 DEF Normalized, m
  <2> QED
    BY <2>1, <1>4 DEF Fields
<1> QED
  BY <1>6, <1>7, <1>8

LEMMA Quotient ==
    ASSUME NEW a \in Nat, NEW b \in Nat \ {0}, NEW c \in Nat, a * b = c
    PROVE  c \div b = a
<1>1. c = b * a + 0 /\ 0 < b
  OBVIOUS
<1> QED
  BY <1>1

\* The delay that is exported is the one a reader takes from the entry.
LEMMA DelayNormalized ==
    ASSUME ProviderPolitenessAssumption, NEW entry \in Politeness, Accepted(entry)
    PROVE  Normalized(entry).delay = DelayAsRead(entry)
<1> DEFINE m == Merged(entry)
<1>1. /\ entry.flat.delay \in Nat \cup {NotGiven} /\ entry.flat.qps \in Nat \cup {NotGiven}
      /\ entry.defaults.delay \in Nat \cup {NotGiven} /\ entry.defaults.qps \in Nat \cup {NotGiven}
  BY DEF Politeness, Settings, Fields
<1>2. /\ m.delay = IF Given(entry.flat.delay) THEN entry.flat.delay ELSE entry.defaults.delay
      /\ m.qps = IF Given(entry.flat.qps) THEN entry.flat.qps ELSE entry.defaults.qps
  BY DEF Merged, Fields
<1>3. m = [f \in Fields |-> m[f]]
  BY DEF Merged
<1>4. /\ m.qps # 0
      /\ Given(m.qps) /\ Given(m.delay) => m.delay * m.qps = Second
  BY DEF Accepted
<1>5. Normalized(entry).delay = IF Given(m.qps) /\ ~Given(m.delay) THEN Second \div m.qps ELSE m.delay
  <2> HIDE DEF m
  <2>1. CASE Given(m.qps) /\ ~Given(m.delay)
    <3>1. Normalized(entry) = [m EXCEPT !.delay = Second \div m.qps]
      BY <2>1 DEF Normalized, m
    <3> QED
      BY <3>1, <2>1, <1>3 DEF Fields
  <2>2. CASE ~Given(m.qps) /\ Given(m.delay) /\ m.delay > 0
    <3>1. Normalized(entry) = [m EXCEPT !.qps = Second \div m.delay]
      BY <2>2 DEF Normalized, m
    <3> QED
      BY <3>1, <2>2, <1>3 DEF Fields
  <2>3. CASE ~(Given(m.qps) /\ ~Given(m.delay)) /\ ~(~Given(m.qps) /\ Given(m.delay) /\ m.delay > 0)
    <3>1. Normalized(entry) = m
      BY <2>3 DEF Normalized, m
    <3> QED
      BY <3>1, <2>3
  <2> QED
    BY <2>1, <2>2, <2>3
<1> HIDE DEF m
<1>6. CASE Given(entry.flat.delay)
  BY <1>6, <1>2, <1>5 DEF DelayAsRead
<1>7. CASE ~Given(entry.flat.delay) /\ Given(entry.flat.qps)
  <2>1. m.qps = entry.flat.qps /\ m.qps \in Nat \ {0} /\ Given(m.qps)
    BY <1>7, <1>1, <1>2, <1>4 DEF Given
  <2>2. DelayAsRead(entry) = Second \div m.qps
    BY <1>7, <2>1 DEF DelayAsRead
  <2>3. ASSUME Given(m.delay)
        PROVE  m.delay = Second \div m.qps
    <3>1. m.delay \in Nat /\ m.delay * m.qps = Second
      BY <2>3, <2>1, <1>1, <1>2, <1>4 DEF Given
    <3> QED
      BY <3>1, <2>1, Quotient DEF ProviderPolitenessAssumption
  <2> QED
    BY <2>1, <2>2, <2>3, <1>5
<1>8. CASE ~Given(entry.flat.delay) /\ ~Given(entry.flat.qps) /\ Given(entry.defaults.delay)
  BY <1>8, <1>2, <1>5 DEF DelayAsRead
<1>9. CASE ~Given(entry.flat.delay) /\ ~Given(entry.flat.qps) /\ ~Given(entry.defaults.delay)
  BY <1>9, <1>1, <1>2, <1>5 DEF DelayAsRead, Given
<1> QED
  BY <1>6, <1>7, <1>8, <1>9
-----------------------------------------------------------------------------
(* Type correctness. *)

LEMMA AppliedTyped ==
    ASSUME ProviderPolitenessAssumption, NEW S,
           NEW e \in [S -> [Exported -> Nat \cup {NotGiven}]], NEW key \in S,
           NEW entry \in Politeness, Accepted(entry)
    PROVE  Applied(e, key, entry) \in [S -> [Exported -> Nat \cup {NotGiven}]]
BY NormalizedTyped DEF Applied

LEMMA UnavailableTyped ==
    ASSUME NEW p \in Provenance, NEW why \in Reasons \cup {None}
    PROVE  [p EXCEPT !.available = FALSE, !.reason = why] \in Provenance
BY DEF Provenance

LEMMA LiveResultTyped ==
    ASSUME NEW p \in Provenance, NEW result \in {None, "success", "failed", "blocked", "skipped"}
    PROVE  [p EXCEPT !.live_result = result] \in Provenance
BY DEF Provenance

LEMMA InvalidTyped ==
    ASSUME NEW p \in Provenance, NEW m,
           m = [p EXCEPT !.available = FALSE, !.reason = "invalid_snapshot",
                         !.live_result = IF @ = None THEN "failed" ELSE @]
    PROVE  m \in Provenance /\ m.scrape_mode = p.scrape_mode
<1> DEFINE result == IF p.live_result = None THEN "failed" ELSE p.live_result
           q == [p EXCEPT !.available = FALSE, !.reason = "invalid_snapshot"]
<1>1. result \in {None, "success", "failed", "blocked", "skipped"}
  BY DEF Provenance
<1>2. q \in Provenance /\ q.scrape_mode = p.scrape_mode
  BY UnavailableTyped DEF Reasons, Provenance
<1>3. m = [q EXCEPT !.live_result = result]
  BY DEF Provenance
<1> HIDE DEF q, result
<1>4. [q EXCEPT !.live_result = result] \in Provenance
  BY <1>1, <1>2, LiveResultTyped
<1>5. [q EXCEPT !.live_result = result].scrape_mode = q.scrape_mode
  BY <1>2 DEF Provenance
<1> QED
  BY <1>2, <1>3, <1>4, <1>5

LEMMA AfterErrorTyped ==
    ASSUME NEW p \in Provenance, NEW error \in LiveErrors
    PROVE  AfterLiveError(p, error) \in Provenance
<1>1. error \in Reasons
  BY DEF LiveErrors, Reasons
<1>2. (IF error \in Denials THEN error ELSE p.reason) \in Reasons \cup {None}
  BY <1>1 DEF Provenance
<1>3. (CASE error = "circuit_breaker" -> "skipped"
         [] error \in {"auth_error", "blocked"} -> "blocked"
         [] OTHER -> "failed") \in {None, "success", "failed", "blocked", "skipped"}
  OBVIOUS
<1> QED
  BY <1>1, <1>2, <1>3 DEF Provenance, AfterLiveError

LEMMA FinalTyped ==
    ASSUME ScrapeAssumption, TypeOK, i \in 1 .. Len(options.providers)
    PROVE  FinalProvenance \in Provenance
<1> DEFINE p == [prov EXCEPT !.parsed = jobs.n]
<1>1. p \in Provenance
  BY DEF TypeOK, Provenance, Result
<1>2. \A q \in Provenance : EmptySuccess(q) \in Provenance
  BY UnavailableTyped, "empty_success" \in Reasons DEF EmptySuccess, Reasons
<1>3. \A q \in Provenance : WithBaseline(q) \in Provenance
  BY DEF Provenance, WithBaseline
<1>4. Type \in Types
  BY ProvidersAreIds DEF Type, Current, ScrapeAssumption
<1> HIDE DEF p
<1>5. CASE Type = "openai"
  <2>1. OpenAIProvenance(p) \in Provenance
    <3> DEFINE q == WithBaseline(EmptySuccess(p))
    <3>1. q \in Provenance
      BY <1>1, <1>2, <1>3
    <3> HIDE DEF q
    <3>2. (IF q.live_reason = None THEN "parse_error" ELSE q.live_reason) \in Reasons \cup {None}
      BY <3>1 DEF Provenance, Reasons
    <3>3. [q EXCEPT !.available = FALSE,
                    !.reason = IF q.live_reason = None THEN "parse_error" ELSE q.live_reason] \in Provenance
      BY <3>1, <3>2, UnavailableTyped
    <3> QED
      BY <3>1, <3>3 DEF OpenAIProvenance, q
  <2> QED
    BY <1>5, <2>1 DEF FinalProvenance, p
<1>6. CASE Type = "ashby"
  BY <1>6, <1>1, <1>2, <1>3 DEF FinalProvenance, AshbyProvenance, p
<1>7. CASE Type = "jsonld"
  <2>1. JsonLdProvenance(p) \in Provenance
    <3>1. [p EXCEPT !.available = FALSE,
                    !.reason = IF Saved = Invalid THEN "parse_error" ELSE "empty_success"] \in Provenance
      BY <1>1, UnavailableTyped DEF Reasons
    <3> QED
      BY <3>1, <1>1, <1>2 DEF JsonLdProvenance
  <2> QED
    BY <1>7, <2>1 DEF FinalProvenance, p
<1>8. CASE Type = "snapshot_json"
  BY <1>8, <1>1 DEF FinalProvenance, SnapshotJsonProvenance, p
<1> QED
  BY <1>4, <1>5, <1>6, <1>7, <1>8 DEF Types

LEMMA WriteTyped ==
    ASSUME ScrapeAssumption, TypeOK, i \in 1 .. Len(options.providers), UNCHANGED given,
           NEW result \in Result, NEW provenance \in Provenance, Write(result, provenance)
    PROVE  /\ raw' \in [Ids -> Result]
           /\ meta' \in [Ids -> Provenance \cup {None}]
           /\ i' \in 1 .. Len(options'.providers) + 1
           /\ pc' = "choose"
<1>1. Current \in Ids
  BY ProvidersAreIds DEF Current
<1>2. Len(options.providers) \in Nat
  BY DEF TypeOK, Options, ScrapeAssumption
<1> QED
  BY <1>1, <1>2 DEF Write, TypeOK, given

LEMMA LoadTyped ==
    ASSUME ScrapeAssumption, TypeOK, i \in 1 .. Len(options.providers), UNCHANGED given,
           NEW p \in Provenance, NEW then \in Provenance, LoadSnapshot(p, then)
    PROVE  /\ raw' \in [Ids -> Result]
           /\ meta' \in [Ids -> Provenance \cup {None}]
           /\ i' \in 1 .. Len(options'.providers) + 1
           /\ pc' \in {"choose", "save", "exited"}
           /\ jobs' \in Result /\ prov' \in Provenance
<1>1. NoJobs \in Result
  BY DEF NoJobs, Result, ScrapeAssumption
<1> DEFINE unavailable == [p EXCEPT !.available = FALSE, !.reason = "invalid_snapshot",
                                    !.live_result = IF @ = None THEN "failed" ELSE @]
<1>2. unavailable \in Provenance
  BY InvalidTyped
<1>3. CASE Saved = Missing /\ Type # "openai" /\ pc' = "exited" /\ prov' = p
              /\ UNCHANGED <<i, jobs, raw, meta>>
  BY <1>3 DEF TypeOK, given
<1>4. CASE FinalizeUnavailable(p) /\ prov' = p /\ UNCHANGED jobs
  <2>1. Write(NoJobs, unavailable)
    BY <1>4 DEF FinalizeUnavailable
  <2>2. jobs' \in Result /\ prov' \in Provenance
    BY <1>4 DEF TypeOK
  <2> HIDE DEF unavailable
  <2> QED
    BY <1>1, <1>2, <2>1, <2>2, WriteTyped
<1>5. CASE /\ Saved \in Counts \/ (Saved = Missing /\ Type = "openai")
           /\ jobs' = [from |-> "snapshot", n |-> IF Saved = Missing THEN 0 ELSE Saved]
           /\ prov' = then /\ pc' = "save" /\ UNCHANGED <<i, raw, meta>>
  BY <1>5 DEF TypeOK, Result, given, ScrapeAssumption
<1> QED
  BY <1>3, <1>4, <1>5 DEF LoadSnapshot
LEMMA InitTyped ==
    ASSUME ScrapeAssumption, Init
    PROVE  TypeOK
<1>1. Len(options.providers) \in Nat
  BY DEF Init, Options, ScrapeAssumption
<1>2. NoJobs \in Result /\ Blank \in Provenance /\ [from |-> "before", n |-> 0] \in Result
  BY DEF NoJobs, Blank, Result, Provenance, ScrapeAssumption
<1>3. env \in [{KeyOf[p] : p \in Ids} -> [Exported -> Nat \cup {NotGiven}]]
  BY DEF Init, ScrapeAssumption
<1> QED
  BY <1>1, <1>2, <1>3 DEF Init, TypeOK

LEMMA NextTyped ==
    ASSUME ScrapeAssumption, ProviderPolitenessAssumption, TypeOK,
           \A p \in Ids : Accepted(polite[p]), LineInv, [Next]_vars
    PROVE  TypeOK'
<1>1. Len(options.providers) \in Nat /\ i \in Nat \ {0}
  BY DEF TypeOK, Options, ScrapeAssumption
<1>2. ASSUME i <= Len(options.providers)
      PROVE  Current \in Ids
  <2>1. i \in 1 .. Len(options.providers)
    BY <1>1, <1>2
  <2> QED
    BY <2>1, ProvidersAreIds DEF Current
<1>3. NoJobs \in Result /\ Blank \in Provenance
  BY DEF NoJobs, Blank, Result, Provenance, ScrapeAssumption
<1>4. CASE Exit
  BY <1>4 DEF Exit, TypeOK, pacing, given
<1>5. CASE Choose
  <2>1. Current \in Ids
    BY <1>2, <1>5 DEF Choose
  <2>2. polite \in [Ids -> Politeness] /\ Accepted(polite[Current])
    BY <2>1 DEF TypeOK, ScrapeAssumption
  <2>3. env' \in [{KeyOf[p] : p \in Ids} -> [Exported -> Nat \cup {NotGiven}]]
    <3> DEFINE S == {KeyOf[p] : p \in Ids}
    <3>1. KeyOf[Current] \in S /\ polite[Current] \in Politeness
      BY <2>1, <2>2
    <3>2. env \in [S -> [Exported -> Nat \cup {NotGiven}]]
      BY DEF TypeOK
    <3> HIDE DEF S
    <3>3. Applied(env, KeyOf[Current], polite[Current]) \in [S -> [Exported -> Nat \cup {NotGiven}]]
      BY <2>2, <3>1, <3>2, AppliedTyped
    <3> QED
      BY <1>5, <3>3 DEF Choose, S
  <2>4. [Blank EXCEPT !.scrape_mode = "snapshot", !.live_result = "skipped"] \in Provenance
    BY <1>3 DEF Provenance
  <2>5. prov' \in Provenance /\ jobs' \in Result /\ pc' \in {"live", "load"}
    BY <1>5, <1>3, <2>4 DEF Choose
  <2> QED
    BY <1>5, <2>3, <2>5 DEF Choose, TypeOK, given
<1>6. CASE Finish
  BY <1>6 DEF Finish, TypeOK, pacing, given
<1>7. CASE LoadOnly
  <2>1. [prov EXCEPT !.scrape_mode = None, !.live_result = None] \in Provenance
    BY DEF TypeOK, Provenance
  <2>2. i \in 1 .. Len(options.providers) /\ UNCHANGED given
    BY <1>7 DEF LoadOnly, LineInv
  <2>3. LoadSnapshot([prov EXCEPT !.scrape_mode = None, !.live_result = None], prov)
    BY <1>7 DEF LoadOnly
  <2> HIDE DEF LoadSnapshot
  <2>4. /\ raw' \in [Ids -> Result]
        /\ meta' \in [Ids -> Provenance \cup {None}]
        /\ i' \in 1 .. Len(options'.providers) + 1
        /\ pc' \in {"choose", "save", "exited"}
        /\ jobs' \in Result /\ prov' \in Provenance
    BY ZenonT(60), <2>1, <2>2, <2>3, LoadTyped DEF TypeOK
  <2> QED
    BY <1>7, <2>4 DEF LoadOnly, TypeOK, pacing, given
<1>8. ASSUME NEW answer \in RobotsAnswers, Denied(answer)
      PROVE  TypeOK'
  <2> DEFINE p == AfterDenial(prov)
  <2>1. p \in Provenance
    BY DEF TypeOK, Provenance, AfterDenial, Reasons
  <2>2. MarkLive(p) \in Provenance
    BY <2>1 DEF MarkLive, Provenance
  <2>3. i \in 1 .. Len(options.providers) /\ UNCHANGED given /\ LoadSnapshot(p, MarkLive(p))
    BY <1>8 DEF Denied, LineInv
  <2> HIDE DEF p
  <2>4. /\ raw' \in [Ids -> Result]
        /\ meta' \in [Ids -> Provenance \cup {None}]
        /\ i' \in 1 .. Len(options'.providers) + 1
        /\ pc' \in {"choose", "save", "exited"}
        /\ jobs' \in Result /\ prov' \in Provenance
    BY <2>1, <2>2, <2>3, LoadTyped
  <2>5. denied' \in SUBSET Ids
    BY <1>8, <1>2, <2>3 DEF Denied, TypeOK
  <2> QED
    BY <1>8, <2>4, <2>5 DEF Denied, TypeOK, pacing, given
<1>9. ASSUME NEW n \in Counts, LiveResult(n)
      PROVE  TypeOK'
  <2>1. prov' \in Provenance
    BY <1>9 DEF LiveResult, MarkLive, TypeOK, Provenance
  <2>2. jobs' \in Result
    BY <1>9 DEF LiveResult, Result
  <2>3. contacted' \in SUBSET Ids
    BY <1>9, <1>2 DEF LiveResult, TypeOK, LineInv
  <2> QED
    BY <1>9, <2>1, <2>2, <2>3 DEF LiveResult, TypeOK, pacing, given
<1>10. ASSUME NEW error \in LiveErrors, LiveError(error)
       PROVE  TypeOK'
  <2> DEFINE p == AfterLiveError(prov, error)
  <2>1. p \in Provenance
    BY AfterErrorTyped DEF TypeOK
  <2>2. Labelled(p) \in Provenance
    BY <2>1 DEF Labelled, Provenance
  <2>3. i \in 1 .. Len(options.providers) /\ UNCHANGED given /\ LoadSnapshot(p, Labelled(p))
    BY <1>10 DEF LiveError, LineInv
  <2> HIDE DEF p
  <2>4. /\ raw' \in [Ids -> Result]
        /\ meta' \in [Ids -> Provenance \cup {None}]
        /\ i' \in 1 .. Len(options'.providers) + 1
        /\ pc' \in {"choose", "save", "exited"}
        /\ jobs' \in Result /\ prov' \in Provenance
    BY <2>1, <2>2, <2>3, LoadTyped
  <2>5. contacted' \in SUBSET Ids
    BY <1>10, <1>2, <2>3 DEF LiveError, TypeOK
  <2> QED
    BY <1>10, <2>4, <2>5 DEF LiveError, TypeOK, pacing, given
<1>11. CASE Save
  <2>1. i \in 1 .. Len(options.providers) /\ UNCHANGED given /\ Write(jobs, FinalProvenance)
    BY <1>11 DEF Save, LineInv
  <2>2. jobs \in Result /\ FinalProvenance \in Provenance
    BY <2>1, FinalTyped DEF TypeOK
  <2>3. /\ raw' \in [Ids -> Result]
        /\ meta' \in [Ids -> Provenance \cup {None}]
        /\ i' \in 1 .. Len(options'.providers) + 1
        /\ pc' = "choose"
    BY <2>1, <2>2, WriteTyped
  <2> QED
    BY <1>11, <2>3 DEF Save, TypeOK, pacing, given
<1>12. CASE UNCHANGED vars
  BY <1>12 DEF vars, TypeOK, pacing, given
<1> QED
  BY <1>4, <1>5, <1>6, <1>7, <1>8, <1>9, <1>10, <1>11, <1>12 DEF Next
-----------------------------------------------------------------------------
(* Lines. *)

\* Where the fall back to a snapshot leads.
LEMMA LoadResult ==
    ASSUME ScrapeAssumption, TypeOK, NEW p \in Provenance, NEW then \in Provenance,
           LoadSnapshot(p, then)
    PROVE  \/ /\ pc' = "exited"
              /\ UNCHANGED <<i, raw, meta>>
           \/ /\ pc' = "choose" /\ i' = i + 1
              /\ raw' = [raw EXCEPT ![Current] = NoJobs]
              /\ \E m \in Provenance : m.scrape_mode = p.scrape_mode
                                       /\ meta' = [meta EXCEPT ![Current] = m]
           \/ /\ pc' = "save" /\ jobs'.from = "snapshot" /\ prov' = then
              /\ UNCHANGED <<i, raw, meta>>
<1> DEFINE m == [p EXCEPT !.available = FALSE, !.reason = "invalid_snapshot",
                          !.live_result = IF @ = None THEN "failed" ELSE @]
<1>1. m \in Provenance /\ m.scrape_mode = p.scrape_mode
  BY InvalidTyped
<1> HIDE DEF m
<1>2. CASE FinalizeUnavailable(p)
  BY <1>1, <1>2 DEF FinalizeUnavailable, Write, m
<1> QED
  BY <1>2 DEF LoadSnapshot

LEMMA LineStep ==
    ASSUME ScrapeAssumption, TypeOK, LineInv, [Next]_vars
    PROVE  LineInv'
<1>1. Len(options.providers) \in Nat /\ i \in Nat \ {0}
  BY DEF TypeOK, Options, ScrapeAssumption
<1>2. Blank \in Provenance /\ Blank.scrape_mode = None /\ None # "live"
  BY DEF Blank, Provenance, ScrapeAssumption
<1>3. CASE Exit \/ Finish \/ Save
  BY <1>3 DEF Exit, Finish, Save, Write, LineInv
<1>4. CASE Choose
  <2>1. i \in 1 .. Len(options.providers) /\ UNCHANGED <<options, i>>
    BY <1>1, <1>4 DEF Choose, given
  <2>2. Mode' = Mode /\ Current' = Current
    BY <2>1 DEF Mode, AskedMode, Type, Current
  <2>3. CASE Mode = "LIVE"
    <3>1. ~options.snapshot_only
      BY <1>4, <2>3 DEF Choose, ExitsAtOnce, Mode
    <3> QED
      BY <1>4, <2>1, <2>2, <2>3, <3>1 DEF Choose, LineInv
  <2>4. CASE Mode # "LIVE"
    BY <1>2, <1>4, <2>1, <2>4 DEF Choose, LineInv, Provenance
  <2> QED
    BY <2>3, <2>4
<1>5. ASSUME NEW p \in Provenance, NEW then \in Provenance, LoadSnapshot(p, then),
             pc \in {"live", "load"}, UNCHANGED given,
             then.scrape_mode = "live" => Current \in denied'
      PROVE  LineInv'
  <2>1. pc' = "save" => jobs'.from = "snapshot" /\ prov' = then /\ i' = i
    BY <1>5, LoadResult
  <2>2. pc' \in {"exited", "choose", "save"}
    BY <1>5, LoadResult
  <2>3. i \in 1 .. Len(options.providers)
    BY <1>5 DEF LineInv
  <2>4. i' = i => Current' = Current
    BY <1>5 DEF Current, given
  <2> QED
    BY <1>5, <2>1, <2>2, <2>3, <2>4 DEF LineInv, given
<1>6. CASE LoadOnly
  <2>1. [prov EXCEPT !.scrape_mode = None, !.live_result = None] \in Provenance
    BY DEF TypeOK, Provenance
  <2>2. prov \in Provenance /\ prov.scrape_mode # "live"
    BY <1>6 DEF LoadOnly, LineInv, TypeOK
  <2> QED
    BY <1>5, <1>6, <2>1, <2>2 DEF LoadOnly
<1>7. ASSUME NEW answer \in RobotsAnswers, Denied(answer)
      PROVE  LineInv'
  <2>1. AfterDenial(prov) \in Provenance
    BY DEF AfterDenial, TypeOK, Provenance, Reasons
  <2>2. MarkLive(AfterDenial(prov)) \in Provenance
    BY <2>1 DEF MarkLive, Provenance
  <2> QED
    BY <1>5, <1>7, <2>1, <2>2 DEF Denied
<1>8. ASSUME NEW n \in Counts, LiveResult(n)
      PROVE  LineInv'
  <2>1. i \in 1 .. Len(options.providers) /\ UNCHANGED <<options, i>>
        /\ Mode = "LIVE" /\ prov = Blank
    BY <1>8 DEF LiveResult, LineInv, given
  <2>2. Mode' = Mode
    BY <2>1 DEF Mode, AskedMode, Type, Current
  <2>3. jobs'.from = "live" /\ prov' = MarkLive(Blank) /\ pc' = "save"
    BY <1>8, <2>1 DEF LiveResult
  <2>4. MarkLive(Blank)' = MarkLive(Blank)
    BY DEF MarkLive, Blank
  <2> QED
    BY <2>1, <2>2, <2>3, <2>4 DEF LineInv
<1>9. ASSUME NEW error \in LiveErrors, LiveError(error)
      PROVE  LineInv'
  <2> DEFINE p == AfterLiveError(prov, error)
  <2>1. p \in Provenance
    BY AfterErrorTyped DEF TypeOK
  <2>2. Labelled(p) \in Provenance /\ Labelled(p).scrape_mode = "snapshot"
    BY <2>1 DEF Labelled, Provenance
  <2>3. pc = "live" /\ LoadSnapshot(p, Labelled(p)) /\ UNCHANGED given
    BY <1>9 DEF LiveError
  <2> HIDE DEF p
  <2> QED
    BY <1>5, <2>1, <2>2, <2>3
<1>10. CASE UNCHANGED vars
  BY <1>10 DEF vars, given, LineInv, Mode, AskedMode, Type, Current, MarkLive, Blank
<1> QED
  BY <1>3, <1>4, <1>6, <1>7, <1>8, <1>9, <1>10 DEF Next
-----------------------------------------------------------------------------
(* Contacts.  The providers of a request are different ones, so that nobody *)
(* handled is at hand again.                                                *)

LEMMA CurrentIsNew ==
    ASSUME ScrapeAssumption, TypeOK, LineInv, ContactInv, pc = "live"
    PROVE  Current \notin contacted \cup denied
<1>1. i \in 1 .. Len(options.providers) /\ options.providers \in Requests
  BY DEF LineInv, TypeOK, Options
<1>2. DOMAIN options.providers = 1 .. Len(options.providers) /\ Len(options.providers) \in Nat
  BY <1>1 DEF ScrapeAssumption
<1>3. ASSUME NEW k \in Handled, k \in DOMAIN options.providers
      PROVE  options.providers[k] # Current
  BY <1>1, <1>2, <1>3 DEF ScrapeAssumption, Current, Handled
<1> QED
  BY <1>3 DEF ContactInv

\* The provider at hand is asked or denied.
LEMMA ContactAdded ==
    ASSUME ScrapeAssumption, TypeOK, LineInv, ContactInv, pc = "live", UNCHANGED given,
           \/ pc' = "choose" /\ i' = i + 1
           \/ pc' \in {"exited", "save"} /\ i' = i,
           contacted' \in SUBSET (contacted \cup {Current}),
           denied' \in SUBSET (denied \cup {Current}),
           Current \notin contacted' \/ Current \notin denied',
           Current \in contacted' => Allowlisted(Current)
    PROVE  ContactInv'
<1>1. i \in 1 .. Len(options.providers) /\ options.providers \in Requests
  BY DEF LineInv, TypeOK, Options
<1>2. DOMAIN options.providers = 1 .. Len(options.providers) /\ Len(options.providers) \in Nat
  BY <1>1 DEF ScrapeAssumption
<1>3. Handled = 1 .. i - 1 /\ Handled' = 1 .. i
  BY <1>1, <1>2 DEF Handled
<1>4. Current \notin contacted \cup denied
  BY CurrentIsNew
<1>5. ASSUME NEW p \in contacted' \cup denied'
      PROVE  \E k \in Handled' : k \in DOMAIN options'.providers /\ options'.providers[k] = p
  <2>1. CASE p = Current
    BY <1>1, <1>2, <1>3, <2>1 DEF Current, given
  <2>2. CASE p \in contacted \cup denied
    <3>1. PICK k \in Handled : k \in DOMAIN options.providers /\ options.providers[k] = p
      BY <2>2 DEF ContactInv
    <3>2. k \in Handled'
      BY <1>1, <1>2, <1>3
    <3> QED
      BY <3>1, <3>2 DEF given
  <2> QED
    BY <1>5, <2>1, <2>2
<1>6. contacted' \cap denied' = {}
  BY <1>4 DEF ContactInv, OnlyAllowedContacts
<1>7. ASSUME NEW p
      PROVE  Allowlisted(p)' <=> Allowlisted(p)
  BY DEF Allowlisted, given
<1>8. \A p \in contacted' : Allowlisted(p)'
  BY <1>7 DEF ContactInv, OnlyAllowedContacts
<1>9. ~options'.snapshot_only
  BY DEF LineInv, given
<1> QED
  BY <1>5, <1>6, <1>8, <1>9 DEF ContactInv, OnlyAllowedContacts

LEMMA ContactStep ==
    ASSUME ScrapeAssumption, TypeOK, LineInv, ContactInv, [Next]_vars
    PROVE  ContactInv'
<1>1. Len(options.providers) \in Nat /\ i \in Nat \ {0}
  BY DEF TypeOK, Options, ScrapeAssumption
<1>2. ASSUME UNCHANGED <<given, contacted, denied>>, \A k \in Handled : k \in Handled'
      PROVE  ContactInv'
  <2>1. ASSUME NEW p
        PROVE  Allowlisted(p)' <=> Allowlisted(p)
    BY <1>2 DEF Allowlisted, given
  <2> QED
    BY <1>2, <2>1 DEF ContactInv, OnlyAllowedContacts, given
<1>3. CASE Exit \/ Choose \/ Finish \/ Save
  <2>1. \A k \in Handled : k \in Handled'
    BY <1>1, <1>3 DEF Exit, Choose, Finish, Save, Write, Handled
  <2> QED
    BY <1>2, <1>3, <2>1 DEF Exit, Choose, Finish, Save, pacing
<1>4. CASE LoadOnly
  <2>1. [prov EXCEPT !.scrape_mode = None, !.live_result = None] \in Provenance
    BY DEF TypeOK, Provenance
  <2>2. prov \in Provenance
        /\ LoadSnapshot([prov EXCEPT !.scrape_mode = None, !.live_result = None], prov)
    BY <1>4 DEF LoadOnly, TypeOK
  <2>3. \/ pc' = "choose" /\ i' = i + 1
        \/ pc' \in {"exited", "save"} /\ i' = i
    BY <2>1, <2>2, LoadResult
  <2>4. \A k \in Handled : k \in Handled'
    BY <1>1, <1>4, <2>3 DEF LoadOnly, Handled
  <2> QED
    BY <1>2, <1>4, <2>4 DEF LoadOnly
<1>5. CASE pc = "live" /\ Next
  <2>1. i \in 1 .. Len(options.providers)
    BY <1>5 DEF LineInv
  <2>2. ASSUME NEW answer \in RobotsAnswers, Denied(answer)
        PROVE  ContactInv'
    <3>1. AfterDenial(prov) \in Provenance
      BY DEF AfterDenial, TypeOK, Provenance, Reasons
    <3>2. MarkLive(AfterDenial(prov)) \in Provenance
      BY <3>1 DEF MarkLive, Provenance
    <3>3. \/ pc' = "choose" /\ i' = i + 1
          \/ pc' \in {"exited", "save"} /\ i' = i
      BY <2>2, <3>1, <3>2, LoadResult DEF Denied
    <3>4. Current \notin contacted
      BY <1>5, CurrentIsNew
    <3>5. /\ UNCHANGED given
          /\ contacted' = contacted /\ denied' = denied \cup {Current}
      BY <2>2 DEF Denied
    <3> QED
      BY <1>5, <3>3, <3>4, <3>5, ContactAdded
  <2>3. ASSUME NEW n \in Counts, LiveResult(n)
        PROVE  ContactInv'
    <3>1. Current \notin denied /\ Allowlisted(Current)
      BY <1>5, <2>3, CurrentIsNew DEF LiveResult, FinalAllowed
    <3>2. /\ UNCHANGED given /\ pc' = "save" /\ i' = i
          /\ contacted' = contacted \cup {Current} /\ denied' = denied
      BY <2>3 DEF LiveResult
    <3> QED
      BY <1>5, <3>1, <3>2, ContactAdded
  <2>4. ASSUME NEW error \in LiveErrors, LiveError(error)
        PROVE  ContactInv'
    <3> DEFINE p == AfterLiveError(prov, error)
    <3>1. p \in Provenance
      BY AfterErrorTyped DEF TypeOK
    <3>2. Labelled(p) \in Provenance
      BY <3>1 DEF Labelled, Provenance
    <3>3. LoadSnapshot(p, Labelled(p)) /\ UNCHANGED given /\ denied' = denied
      BY <2>4 DEF LiveError
    <3> HIDE DEF p
    <3>4. \/ pc' = "choose" /\ i' = i + 1
          \/ pc' \in {"exited", "save"} /\ i' = i
      BY <3>1, <3>2, <3>3, LoadResult
    <3>5. Current \notin denied /\ Allowlisted(Current)
      BY <1>5, <2>4, CurrentIsNew DEF LiveError, FinalAllowed
    <3>6. contacted' = contacted \/ contacted' = contacted \cup {Current}
      BY <2>4 DEF LiveError
    <3> QED
      BY <1>5, <3>3, <3>4, <3>5, <3>6, ContactAdded
  <2> QED
    BY <1>5, <2>2, <2>3, <2>4 DEF Next, Exit, Choose, Finish, LoadOnly, Save
<1>6. CASE UNCHANGED vars
  BY <1>2, <1>6 DEF vars, Handled
<1> QED
  BY <1>3, <1>4, <1>5, <1>6 DEF Next, Denied, LiveResult, LiveError
-----------------------------------------------------------------------------
(* The files. *)

LEMMA FinalMode ==
    ASSUME ScrapeAssumption, TypeOK, i \in 1 .. Len(options.providers)
    PROVE  FinalProvenance.scrape_mode = prov.scrape_mode
<1> DEFINE p == [prov EXCEPT !.parsed = jobs.n]
<1>1. p \in Provenance /\ p.scrape_mode = prov.scrape_mode
  BY DEF TypeOK, Provenance, Result
<1>2. \A q \in Provenance : EmptySuccess(q) \in Provenance
                            /\ EmptySuccess(q).scrape_mode = q.scrape_mode
  <2>1. ASSUME NEW q \in Provenance
        PROVE  /\ [q EXCEPT !.available = FALSE, !.reason = "empty_success"] \in Provenance
               /\ [q EXCEPT !.available = FALSE, !.reason = "empty_success"].scrape_mode
                     = q.scrape_mode
    BY DEF Provenance, Reasons
  <2> QED
    BY <2>1 DEF EmptySuccess
<1>3. \A q \in Provenance : WithBaseline(q) \in Provenance
                            /\ WithBaseline(q).scrape_mode = q.scrape_mode
  BY DEF WithBaseline, Provenance
<1>4. Type \in Types
  BY ProvidersAreIds DEF Type, Current, ScrapeAssumption
<1> HIDE DEF p
<1>5. CASE Type = "openai"
  <2> DEFINE q == WithBaseline(EmptySuccess(p))
  <2>1. q \in Provenance /\ q.scrape_mode = p.scrape_mode
    BY <1>1, <1>2, <1>3
  <2> HIDE DEF q
  <2>2. ASSUME NEW why
        PROVE  [q EXCEPT !.available = FALSE, !.reason = why].scrape_mode = q.scrape_mode
    BY <2>1 DEF Provenance
  <2>3. OpenAIProvenance(p).scrape_mode = q.scrape_mode
    BY <2>2 DEF OpenAIProvenance, q
  <2> QED
    BY <1>1, <1>5, <2>1, <2>3 DEF FinalProvenance, p
<1>6. CASE Type = "ashby"
  BY <1>1, <1>2, <1>3, <1>6 DEF FinalProvenance, AshbyProvenance, p
<1>7. CASE Type = "jsonld"
  <2>1. ASSUME NEW why \in Reasons
        PROVE  /\ [p EXCEPT !.available = FALSE, !.reason = why] \in Provenance
               /\ [p EXCEPT !.available = FALSE, !.reason = why].scrape_mode = p.scrape_mode
    BY <1>1 DEF Provenance
  <2>2. (IF Saved = Invalid THEN "parse_error" ELSE "empty_success") \in Reasons
    BY DEF Reasons
  <2>3. JsonLdProvenance(p).scrape_mode = p.scrape_mode
    BY <1>1, <1>2, <2>1, <2>2 DEF JsonLdProvenance
  <2> QED
    BY <1>1, <1>7, <2>3 DEF FinalProvenance, p
<1>8. CASE Type = "snapshot_json"
  BY <1>1, <1>8 DEF FinalProvenance, SnapshotJsonProvenance, p
<1> QED
  BY <1>4, <1>5, <1>6, <1>7, <1>8 DEF Types

\* Whatever writes the files of a provider, only Save writes a live result or
\* the label of one.
LEMMA FilesWritten ==
    ASSUME ScrapeAssumption, TypeOK, LineInv, [Next]_vars
    PROVE  \/ UNCHANGED <<raw, meta>>
           \/ /\ i \in 1 .. Len(options.providers) /\ Current \in Ids
              /\ \E r \in Result, m \in Provenance :
                    /\ raw' = [raw EXCEPT ![Current] = r]
                    /\ meta' = [meta EXCEPT ![Current] = m]
                    /\ r.from = "live" \/ m.scrape_mode = "live"
                          => pc = "save" /\ r = jobs /\ m = FinalProvenance
<1>1. NoJobs \in Result /\ NoJobs.from # "live" /\ None # "live"
      /\ Blank.scrape_mode = None
  BY DEF NoJobs, Result, Blank, ScrapeAssumption
<1>2. pc \in {"live", "load", "save"} => i \in 1 .. Len(options.providers) /\ Current \in Ids
  BY ProvidersAreIds DEF LineInv, Current
<1>3. ASSUME NEW p \in Provenance, NEW then \in Provenance, LoadSnapshot(p, then),
             pc \in {"live", "load"}, p.scrape_mode = None
      PROVE  \/ UNCHANGED <<raw, meta>>
             \/ \E r \in Result, m \in Provenance :
                    /\ raw' = [raw EXCEPT ![Current] = r]
                    /\ meta' = [meta EXCEPT ![Current] = m]
                    /\ r.from # "live" /\ m.scrape_mode # "live"
  BY <1>1, <1>3, LoadResult
<1>4. CASE Exit \/ Choose \/ Finish
  BY <1>4 DEF Exit, Choose, Finish
<1>5. CASE LoadOnly
  <2>1. /\ [prov EXCEPT !.scrape_mode = None, !.live_result = None] \in Provenance
        /\ [prov EXCEPT !.scrape_mode = None, !.live_result = None].scrape_mode = None
    BY DEF TypeOK, Provenance
  <2>2. /\ prov \in Provenance /\ pc = "load"
        /\ LoadSnapshot([prov EXCEPT !.scrape_mode = None, !.live_result = None], prov)
    BY <1>5 DEF LoadOnly, TypeOK
  <2> QED
    BY <1>2, <1>3, <2>1, <2>2
<1>6. ASSUME NEW answer \in RobotsAnswers, Denied(answer)
      PROVE  \/ UNCHANGED <<raw, meta>>
             \/ \E r \in Result, m \in Provenance :
                    /\ raw' = [raw EXCEPT ![Current] = r]
                    /\ meta' = [meta EXCEPT ![Current] = m]
                    /\ r.from # "live" /\ m.scrape_mode # "live"
  <2>1. pc = "live" /\ prov = Blank /\ prov \in Provenance
    BY <1>6 DEF Denied, LineInv, TypeOK
  <2>2. AfterDenial(prov) \in Provenance /\ AfterDenial(prov).scrape_mode = None
    BY <1>1, <2>1 DEF AfterDenial, Provenance, Reasons
  <2>3. MarkLive(AfterDenial(prov)) \in Provenance
    BY <2>2 DEF MarkLive, Provenance
  <2> QED
    BY <1>3, <1>6, <2>1, <2>2, <2>3 DEF Denied
<1>7. ASSUME NEW n \in Counts, LiveResult(n)
      PROVE  UNCHANGED <<raw, meta>>
  BY <1>7 DEF LiveResult
<1>8. ASSUME NEW error \in LiveErrors, LiveError(error)
      PROVE  \/ UNCHANGED <<raw, meta>>
             \/ \E r \in Result, m \in Provenance :
                    /\ raw' = [raw EXCEPT ![Current] = r]
                    /\ meta' = [meta EXCEPT ![Current] = m]
                    /\ r.from # "live" /\ m.scrape_mode # "live"
  <2> DEFINE p == AfterLiveError(prov, error)
  <2>1. pc = "live" /\ prov = Blank /\ prov \in Provenance
    BY <1>8 DEF LiveError, LineInv, TypeOK
  <2>2. p \in Provenance
    BY <2>1, AfterErrorTyped
  <2>3. p.scrape_mode = prov.scrape_mode
    BY <2>1 DEF AfterLiveError, Provenance
  <2>4. Labelled(p) \in Provenance
    BY <2>2 DEF Labelled, Provenance
  <2>5. LoadSnapshot(p, Labelled(p))
    BY <1>8 DEF LiveError
  <2> HIDE DEF p
  <2> QED
    BY <1>1, <1>3, <2>1, <2>2, <2>3, <2>4, <2>5
<1>9. CASE Save
  <2>1. pc = "save" /\ Write(jobs, FinalProvenance)
    BY <1>9 DEF Save
  <2>2. jobs \in Result /\ FinalProvenance \in Provenance
    BY <1>2, <2>1, FinalTyped DEF TypeOK
  <2> QED
    BY <1>2, <2>1, <2>2 DEF Write
<1>10. CASE UNCHANGED vars
  BY <1>10 DEF vars
<1>11. (\E answer \in RobotsAnswers : Denied(answer)) \/ (\E n \in Counts : LiveResult(n))
        \/ (\E error \in LiveErrors : LiveError(error)) => pc = "live"
  BY DEF Denied, LiveResult, LiveError
<1> QED
  BY <1>2, <1>4, <1>5, <1>6, <1>7, <1>8, <1>9, <1>10, <1>11 DEF Next

LEMMA MislabelStep ==
    ASSUME ScrapeAssumption, TypeOK, LineInv, MislabelOnlyAfterDenial, [Next]_vars
    PROVE  MislabelOnlyAfterDenial'
<1>1. \A p \in denied : p \in denied'
  BY DEF Next, vars, Exit, Choose, Finish, LoadOnly, Save, Denied, LiveResult, LiveError
<1>2. CASE UNCHANGED <<raw, meta>>
  BY <1>1, <1>2 DEF MislabelOnlyAfterDenial, Written
<1>3. CASE /\ i \in 1 .. Len(options.providers) /\ Current \in Ids
           /\ \E r \in Result, m \in Provenance :
                 /\ raw' = [raw EXCEPT ![Current] = r]
                 /\ meta' = [meta EXCEPT ![Current] = m]
                 /\ r.from = "live" \/ m.scrape_mode = "live"
                       => pc = "save" /\ r = jobs /\ m = FinalProvenance
  <2>1. PICK r \in Result, m \in Provenance :
                 /\ raw' = [raw EXCEPT ![Current] = r]
                 /\ meta' = [meta EXCEPT ![Current] = m]
                 /\ r.from = "live" \/ m.scrape_mode = "live"
                       => pc = "save" /\ r = jobs /\ m = FinalProvenance
    BY <1>3
  <2>2. m.scrape_mode = "live" => r.from = "live" \/ Current \in denied'
    BY <1>1, <1>3, <2>1, FinalMode DEF LineInv
  <2>3. raw \in [Ids -> Result] /\ meta \in [Ids -> Provenance \cup {None}]
    BY DEF TypeOK
  <2>4. ASSUME NEW p \in Ids, meta'[p] # None, meta'[p].scrape_mode = "live"
        PROVE  raw'[p].from = "live" \/ p \in denied'
    <3>1. CASE p = Current
      BY <1>3, <2>1, <2>2, <2>3, <2>4, <3>1
    <3>2. CASE p # Current
      BY <1>1, <2>1, <2>3, <2>4, <3>2 DEF MislabelOnlyAfterDenial, Written
    <3> QED
      BY <3>1, <3>2
  <2> QED
    BY <2>4 DEF MislabelOnlyAfterDenial, Written
<1> QED
  BY <1>2, <1>3, FilesWritten

\* A live result much smaller than the snapshot gets a provenance that fails
\* the run.
LEMMA ShrinkageSaved ==
    ASSUME ScrapeAssumption, TypeOK, LineInv, pc = "save", jobs.from = "live",
           Type \in {"openai", "ashby"}, Saved \in Counts, jobs.n < Saved \div RatioDivisor
    PROVE  PolicyFails(FinalProvenance)
<1> DEFINE p == [prov EXCEPT !.parsed = jobs.n]
           q == WithBaseline(EmptySuccess(p))
<1>1. p \in Provenance /\ p.parsed = jobs.n /\ p.scrape_mode = "live"
  <2>0. /\ prov \in Provenance /\ jobs \in Result
        /\ prov = MarkLive(Blank)
    BY DEF LineInv, TypeOK
  <2>1. prov \in Provenance /\ prov.scrape_mode = "live" /\ jobs.n \in Counts
    <3>1. MarkLive(Blank).scrape_mode = "live"
      BY DEF MarkLive, Blank
    <3>2. jobs.n \in Counts
      BY <2>0 DEF Result
    <3> QED
      BY <2>0, <3>1, <3>2
  <2>2. p \in Provenance /\ p.parsed = jobs.n /\ p.scrape_mode = prov.scrape_mode
    BY <2>1 DEF Provenance
  <2> QED
    BY <2>1, <2>2
<1>2. Mode = "LIVE" /\ jobs.n \in Nat /\ Saved \in Nat /\ None \notin Nat
  BY DEF LineInv, TypeOK, Result, ScrapeAssumption
<1> HIDE DEF p
<1> DEFINE e == EmptySuccess(p)
<1>3. e \in Provenance /\ e.scrape_mode = "live" /\ e.parsed = jobs.n
  <2>1. LET m == [p EXCEPT !.available = FALSE, !.reason = "empty_success"]
        IN  m \in Provenance /\ m.scrape_mode = p.scrape_mode /\ m.parsed = p.parsed
    BY <1>1 DEF Provenance, Reasons
  <2> QED
    BY <1>1, <2>1 DEF EmptySuccess
<1>4. q.scrape_mode = "live" /\ q.parsed = jobs.n /\ q.baseline = Saved
  <2> HIDE DEF e
  <2>1. LET m == [e EXCEPT !.baseline = Saved]
        IN  m.scrape_mode = e.scrape_mode /\ m.parsed = e.parsed /\ m.baseline = Saved
    BY <1>3 DEF Provenance
  <2>2. q = [e EXCEPT !.baseline = Saved]
    BY <1>2 DEF WithBaseline, e
  <2> QED
    BY <1>3, <2>1, <2>2
<1>5. Saved # 0
  <2>1. RatioDivisor \in Nat \ {0}
    BY DEF ScrapeAssumption
  <2>2. 0 \div RatioDivisor = 0
    BY <2>1, Quotient
  <2> QED
    BY <1>2, <2>2
<1>6. ASSUME NEW m, m.scrape_mode = "live", m.parsed = jobs.n, m.baseline = Saved
      PROVE  PolicyFails(m)
  BY <1>2, <1>5, <1>6 DEF PolicyFails
<1>7. CASE Type = "ashby"
  BY <1>4, <1>6, <1>7 DEF FinalProvenance, AshbyProvenance, p, q
<1>8. CASE Type = "openai"
  <2> HIDE DEF q
  <2>1. ASSUME NEW why
        PROVE  LET m == [q EXCEPT !.available = FALSE, !.reason = why]
               IN  m.scrape_mode = q.scrape_mode /\ m.parsed = q.parsed /\ m.baseline = q.baseline
    OBVIOUS
  <2>2. /\ OpenAIProvenance(p).scrape_mode = q.scrape_mode
        /\ OpenAIProvenance(p).parsed = q.parsed
        /\ OpenAIProvenance(p).baseline = q.baseline
    BY <2>1 DEF OpenAIProvenance, q
  <2> QED
    BY <1>4, <1>6, <1>8, <2>2 DEF FinalProvenance, p
<1> QED
  BY <1>7, <1>8

LEMMA ShrinkageStep ==
    ASSUME ScrapeAssumption, TypeOK, LineInv, ShrinkageFailsRun, [Next]_vars
    PROVE  ShrinkageFailsRun'
<1>1. UNCHANGED given
  BY DEF Next, vars, Exit, Choose, Finish, LoadOnly, Save, Denied, LiveResult, LiveError
<1>2. CASE UNCHANGED <<raw, meta>>
  BY <1>1, <1>2 DEF ShrinkageFailsRun, Written, PolicyFails, given
<1>3. CASE /\ i \in 1 .. Len(options.providers) /\ Current \in Ids
           /\ \E r \in Result, m \in Provenance :
                 /\ raw' = [raw EXCEPT ![Current] = r]
                 /\ meta' = [meta EXCEPT ![Current] = m]
                 /\ r.from = "live" \/ m.scrape_mode = "live"
                       => pc = "save" /\ r = jobs /\ m = FinalProvenance
  <2>1. PICK r \in Result, m \in Provenance :
                 /\ raw' = [raw EXCEPT ![Current] = r]
                 /\ meta' = [meta EXCEPT ![Current] = m]
                 /\ r.from = "live" \/ m.scrape_mode = "live"
                       => pc = "save" /\ r = jobs /\ m = FinalProvenance
    BY <1>3
  <2>2. /\ raw \in [Ids -> Result] /\ meta \in [Ids -> Provenance \cup {None}]
        /\ snapshot' = snapshot
    BY <1>1 DEF TypeOK, given
  <2>3. ASSUME NEW p \in Ids, meta'[p] # None, TypeOf[p] \in {"openai", "ashby"},
               raw'[p].from = "live", snapshot[p] \in Counts,
               raw'[p].n < snapshot[p] \div RatioDivisor
        PROVE  PolicyFails(meta'[p])
    <3>1. CASE p = Current
      <4>1. raw'[p] = r /\ meta'[p] = m
        BY <1>3, <2>1, <2>2, <3>1
      <4>2. pc = "save" /\ r = jobs /\ m = FinalProvenance
        BY <2>1, <2>3, <4>1
      <4> QED
        BY <2>3, <3>1, <4>1, <4>2, ShrinkageSaved DEF Type, Saved
    <3>2. CASE p # Current
      <4>1. raw'[p] = raw[p] /\ meta'[p] = meta[p]
        BY <2>1, <2>2, <3>2
      <4> QED
        BY <2>3, <4>1 DEF ShrinkageFailsRun, Written
    <3> QED
      BY <3>1, <3>2
  <2>4. ASSUME NEW p
        PROVE  PolicyFails(meta[p])' <=> PolicyFails(meta'[p])
    BY DEF PolicyFails
  <2> QED
    BY <2>2, <2>3, <2>4 DEF ShrinkageFailsRun, Written
<1> QED
  BY <1>2, <1>3, FilesWritten
-----------------------------------------------------------------------------
(* Pacing. *)

LEMMA PacingStep ==
    ASSUME ScrapeAssumption, ProviderPolitenessAssumption, TypeOK, LineInv, PacingInv,
           [Next]_vars
    PROVE  PacingInv'
<1>1. Len(options.providers) \in Nat /\ i \in Nat \ {0}
  BY DEF TypeOK, Options, ScrapeAssumption
<1>2. UNCHANGED <<options, polite, operator>>
  BY DEF Next, vars, pacing, given, Exit, Choose, Finish, LoadOnly, Save,
         Denied, LiveResult, LiveError
<1>3. \A p \in Ids : Accepted(polite'[p])
  BY <1>2 DEF PacingInv
<1>4. ASSUME env' = env, \A k \in Exporting : k \in Exporting'
      PROVE  EnvInv'
  BY <1>2, <1>4 DEF PacingInv, EnvInv
<1>5. ASSUME pc' # "live"
      PROVE  PacedByOwnEntry'
  BY <1>5 DEF PacedByOwnEntry
<1>6. CASE Choose
  <2>1. i \in 1 .. Len(options.providers) /\ i' = i /\ pc' \in {"live", "load"}
    BY <1>1, <1>6 DEF Choose
  <2>2. Current \in Ids /\ Current' = Current
    BY <1>2, <2>1, ProvidersAreIds DEF Current
  <2> DEFINE S == {KeyOf[p] : p \in Ids}
             key == KeyOf[Current]
             exported == Applied(env, key, polite[Current])
  <2>3. env' = exported /\ env \in [S -> [Exported -> Nat \cup {NotGiven}]] /\ key \in S
    BY <1>6, <2>2 DEF Choose, TypeOK
  <2>4. DOMAIN options.providers = 1 .. Len(options.providers)
    BY DEF TypeOK, Options, ScrapeAssumption
  <2>5. Exporting = 1 .. i - 1 /\ Exporting' = 1 .. i
    BY <1>6, <2>1 DEF Choose, Exporting
  <2>6. \A k \in S \ {key} : env'[k] = env[k]
    BY <2>3 DEF Applied
  <2>7. env'[key].delay = IF Given(env[key].delay) THEN env[key].delay
                          ELSE Normalized(polite[Current]).delay
    BY <2>3 DEF Applied, Exported
  <2>8. polite[Current] \in Politeness /\ Accepted(polite[Current])
    BY <2>2 DEF TypeOK, ScrapeAssumption, PacingInv
  <2>9. Normalized(polite[Current]).delay = DelayAsRead(polite[Current])
    BY <2>8, DelayNormalized
  <2>10. EnvInv'
    <3>1. ASSUME NEW k \in S,
                 \A n \in Exporting' : n \in DOMAIN options.providers
                                          => KeyOf[options.providers[n]] # k
          PROVE  env'[k] = operator[k]
      <4>1. k # key
        BY <1>1, <2>1, <2>4, <2>5, <3>1 DEF Current
      <4>2. \A n \in Exporting : n \in Exporting'
        BY <1>1, <2>5
      <4>3. env[k] = operator[k]
        BY <3>1, <4>2 DEF PacingInv, EnvInv
      <4> QED
        BY <2>6, <4>1, <4>3
    <3> QED
      BY <1>2, <3>1 DEF EnvInv
  <2>11. ASSUME ~Given(operator[key].delay),
                \A k \in 1 .. i - 1 : KeyOf[options.providers[k]] # key
         PROVE  env'[key].delay = DelayAsRead(polite[Current])
    <3>1. env[key] = operator[key]
      BY <2>3, <2>5, <2>11 DEF PacingInv, EnvInv
    <3> QED
      BY <2>7, <2>9, <2>11, <3>1
  <2>12. PacedByOwnEntry'
    <3> HIDE DEF exported
    <3> QED
      BY <1>2, <2>1, <2>2, <2>11 DEF PacedByOwnEntry
  <2> QED
    BY <1>3, <2>10, <2>12 DEF PacingInv
<1>7. CASE Exit \/ Finish \/ Save
  <2>1. pc' # "live" /\ env' = env
    BY <1>7 DEF Exit, Finish, Save, Write, pacing
  <2>2. \A k \in Exporting : k \in Exporting'
    BY <1>1, <1>7 DEF Exit, Finish, Save, Write, Exporting
  <2> QED
    BY <1>3, <1>4, <1>5, <2>1, <2>2 DEF PacingInv
<1>8. ASSUME NEW p \in Provenance, NEW then \in Provenance, LoadSnapshot(p, then),
             pc \in {"live", "load"}, env' = env
      PROVE  PacingInv'
  <2>1. \/ pc' = "choose" /\ i' = i + 1
        \/ pc' \in {"exited", "save"} /\ i' = i
    BY <1>8, LoadResult
  <2>2. \A k \in Exporting : k \in Exporting'
    BY <1>1, <1>8, <2>1 DEF Exporting
  <2> QED
    BY <1>3, <1>4, <1>5, <1>8, <2>1, <2>2 DEF PacingInv
<1>9. CASE LoadOnly
  <2>1. [prov EXCEPT !.scrape_mode = None, !.live_result = None] \in Provenance
    BY DEF TypeOK, Provenance
  <2>2. /\ prov \in Provenance /\ pc = "load" /\ env' = env
        /\ LoadSnapshot([prov EXCEPT !.scrape_mode = None, !.live_result = None], prov)
    BY <1>9 DEF LoadOnly, TypeOK, pacing
  <2> QED
    BY <1>8, <2>1, <2>2
<1>10. ASSUME NEW answer \in RobotsAnswers, Denied(answer)
       PROVE  PacingInv'
  <2>1. AfterDenial(prov) \in Provenance
    BY DEF AfterDenial, TypeOK, Provenance, Reasons
  <2>2. MarkLive(AfterDenial(prov)) \in Provenance
    BY <2>1 DEF MarkLive, Provenance
  <2>3. /\ pc = "live" /\ env' = env
        /\ LoadSnapshot(AfterDenial(prov), MarkLive(AfterDenial(prov)))
    BY <1>10 DEF Denied, pacing
  <2> QED
    BY <1>8, <2>1, <2>2, <2>3
<1>11. ASSUME NEW n \in Counts, LiveResult(n)
       PROVE  PacingInv'
  <2>1. pc = "live" /\ pc' = "save" /\ i' = i /\ env' = env
    BY <1>11 DEF LiveResult, pacing
  <2>2. \A k \in Exporting : k \in Exporting'
    BY <2>1 DEF Exporting
  <2> QED
    BY <1>3, <1>4, <1>5, <2>1, <2>2 DEF PacingInv
<1>12. ASSUME NEW error \in LiveErrors, LiveError(error)
       PROVE  PacingInv'
  <2> DEFINE p == AfterLiveError(prov, error)
  <2>1. p \in Provenance
    BY AfterErrorTyped DEF TypeOK
  <2>2. Labelled(p) \in Provenance
    BY <2>1 DEF Labelled, Provenance
  <2>3. pc = "live" /\ env' = env /\ LoadSnapshot(p, Labelled(p))
    BY <1>12 DEF LiveError, pacing
  <2> HIDE DEF p
  <2> QED
    BY <1>8, <2>1, <2>2, <2>3
<1>13. CASE UNCHANGED vars
  <2>1. PacedByOwnEntry'
    BY <1>13 DEF PacingInv, PacedByOwnEntry, Current, vars, pacing, given
  <2>2. EnvInv'
    BY <1>4, <1>13 DEF vars, pacing, Exporting
  <2> QED
    BY <1>3, <2>1, <2>2 DEF PacingInv
<1> QED
  BY <1>6, <1>7, <1>9, <1>10, <1>11, <1>12, <1>13 DEF Next
-----------------------------------------------------------------------------
(* Theorems. *)

LEMMA InitInv ==
    ASSUME ScrapeAssumption, Init
    PROVE  Inv
<1>1. TypeOK
  BY InitTyped
<1>2. LineInv /\ ContactInv
  BY DEF Init, LineInv, ContactInv, OnlyAllowedContacts
<1>3. \A p \in Ids : meta[p] = None
  BY DEF Init
<1>4. MislabelOnlyAfterDenial /\ ShrinkageFailsRun
  BY <1>3 DEF MislabelOnlyAfterDenial, ShrinkageFailsRun, Written
<1>5. PacingInv
  BY DEF Init, PacingInv, EnvInv, PacedByOwnEntry
<1> QED
  BY <1>1, <1>2, <1>4, <1>5 DEF Inv

LEMMA StepInv ==
    ASSUME ScrapeAssumption, ProviderPolitenessAssumption, Inv, [Next]_vars
    PROVE  Inv'
<1>1. TypeOK'
  BY NextTyped DEF Inv, PacingInv
<1>2. LineInv'
  BY LineStep DEF Inv
<1>3. ContactInv'
  BY ContactStep DEF Inv
<1>4. MislabelOnlyAfterDenial'
  BY MislabelStep DEF Inv
<1>5. ShrinkageFailsRun'
  BY ShrinkageStep DEF Inv
<1>6. PacingInv'
  BY PacingStep DEF Inv
<1> QED
  BY <1>1, <1>2, <1>3, <1>4, <1>5, <1>6 DEF Inv

\* The induction of all of the below.
THEOREM Invariance == Spec => []Inv
<1>1. Init => Inv
  BY InitInv, ScrapeAssumption
<1>2. Inv /\ [Next]_vars => Inv'
  BY StepInv, ScrapeAssumption, ProviderPolitenessAssumption
<1> QED
  BY <1>1, <1>2, PTL DEF Spec

\* run_scrape.py keeps its files and records well formed.
THEOREM TypeCorrect == Spec => []TypeOK
<1>1. Inv => TypeOK
  BY DEF Inv
<1> QED
  BY <1>1, Invariance, PTL

\* Whoever the robots policy denies, or no allowlist names, is not asked by
\* run_scrape.py, and nobody is with --snapshot-only.
THEOREM OnlyAllowed == Spec => []OnlyAllowedContacts
<1>1. Inv => OnlyAllowedContacts
  BY DEF Inv, ContactInv
<1> QED
  BY <1>1, Invariance, PTL

\* Postings that scrape_meta.json labels live were fetched live, unless the
\* policy denied the site.
THEOREM MislabelBounded == Spec => []MislabelOnlyAfterDenial
<1>1. Inv => MislabelOnlyAfterDenial
  BY DEF Inv
<1> QED
  BY <1>1, Invariance, PTL

\* A live scrape of an openai or ashby site that shrinks below the ratio leaves
\* a record on which run_daily.py fails.
THEOREM ShrinkageFails == Spec => []ShrinkageFailsRun
<1>1. Inv => ShrinkageFailsRun
  BY DEF Inv
<1> QED
  BY <1>1, Invariance, PTL

\* While a site is asked, the exported delay is the one its entry of
\* providers.json gives, with the two exceptions the property names.
THEOREM PacedAsRead == Spec => []PacedByOwnEntry
<1>1. Inv => PacedByOwnEntry
  BY DEF Inv, PacingInv
<1> QED
  BY <1>1, Invariance, PTL

-----------------------------------------------------------------------------
(* The files of the providers: registry, manifest and snapshots.           *)

USE ProviderFilesAssumption, NothingAssumption DEF ProviderFilesAssumption, NothingAssumption

\* The lines of each program.
LinesOf ==
    [append |-> {"config", "store"},
     enable |-> {"resolve", "look", "pinned", "compare", "edit", "store"},
     pin |-> {"resolve", "hash", "pins", "repin", "next"},
     run |-> {"choose", "again"},
     scaffold |-> {"look", "write"},
     update |-> {"resolve", "fetch", "write", "hash", "pins", "repin", "next"}]

Named(q) ==
    /\ q.do \in {"append", "pin", "run", "enable", "scaffold", "update"}
    /\ q.do # "update" => q.of \in Providers
    /\ q.do = "update" => q.out \in Providers /\ q.pins \in BOOLEAN

LEMMA CommandTypes == \A q \in Commands : q # Nothing /\ Named(q)
<1> SUFFICES ASSUME NEW q \in Commands PROVE Named(q)
  OBVIOUS
<1>1. CASE q \in [do : {"append", "pin", "run"}, of : Providers]
  BY <1>1 DEF Named
<1>2. CASE q \in [do : {"enable"}, of : Providers, meant : BOOLEAN]
  BY <1>2 DEF Named
<1>3. CASE q \in [do : {"scaffold"}, of : Providers, force : BOOLEAN]
  BY <1>3 DEF Named
<1>4. CASE q \in [do : {"update"}, of : Seq(Providers), out : Providers, pins : BOOLEAN,
                  force : BOOLEAN]
  BY <1>4 DEF Named
<1> QED
  BY <1>1, <1>2, <1>3, <1>4

\* A program is at a line of its own, and its arguments are there.
LineType(e) ==
    /\ line[e] = "idle" => job[e] = Nothing
    /\ line[e] # "idle" => job[e] # Nothing /\ line[e] \in LinesOf[job[e].do]
    /\ Does(e, "update") /\ line[e] \in {"pins", "repin"} => job[e].pins

\* What a program holds where it is about to write or to compare it.
HeldType(e) ==
    /\ line[e] = "compare" => held[e] \in Pin
    /\ line[e] = "store" => held[e] \in [Providers -> Entry \cup {Nothing}]
    /\ line[e] = "write" /\ Does(e, "update") => held[e] \in Pages
    /\ line[e] = "hash" /\ Does(e, "update") => held[e] \in Pages \cup {Nothing}
    /\ line[e] = "pins" => held[e] \in Pin
    /\ line[e] = "repin" => held[e] \in [Providers -> Pin \cup {Nothing}] /\ held[e][Path(e)] # Nothing

HeldIsThere == held = [e \in Programs |-> held[e]]

WellTyped == FilesTypeOK /\ HeldIsThere /\ \A e \in Programs : LineType(e) /\ HeldType(e)

\* A program that is there.
LEMMA Running ==
  ASSUME WellTyped, NEW e \in Programs, line[e] # "idle"
  PROVE  /\ job[e] \in Commands /\ job[e] # Nothing /\ Named(job[e])
         /\ line[e] \in LinesOf[job[e].do]
         /\ ~Does(e, "update") => Of(e) \in Providers
         /\ Path(e) \in Providers
<1>1. job[e] \in Commands /\ job[e] # Nothing /\ line[e] \in LinesOf[job[e].do]
  BY DEF WellTyped, FilesTypeOK, LineType
<1>2. Named(job[e])
  BY <1>1, CommandTypes
<1> QED
  BY <1>1, <1>2 DEF Does, Of, Path, Named

-----------------------------------------------------------------------------
(* What a step does to the programs that do not take it.                   *)

Acts(e) ==
    \/ \E q \in Commands : Start(e, q)
    \/ AppendEntry(e) \/ Resolve(e) \/ LookForFixture(e) \/ ReadPin(e) \/ ComparePin(e)
    \/ EditEntry(e) \/ StoreConfig(e)
    \/ ChooseProviders(e) \/ ResolveAgain(e)
    \/ Scaffold(e) \/ WritePlaceholder(e)
    \/ UnknownProvider(e) \/ Fetch(e) \/ WritePage(e) \/ HashFile(e)
    \/ ReadPins(e) \/ StorePins(e) \/ NextProvider(e) \/ Kill(e)

\* The steps that write a file.
Writes(e) == StoreConfig(e) \/ Scaffold(e) \/ WritePlaceholder(e) \/ WritePage(e) \/ StorePins(e)

\* Nobody but e moves, and who goes by a file that changes is overtaken.
Apart(e) ==
    /\ held' = [o \in Programs |-> held'[o]]
    /\ \A o \in Programs \ {e} :
          /\ line'[o] = line[o] /\ job'[o] = job[o] /\ held'[o] = held[o] /\ reads'[o] = reads[o]
          /\ o \in overtaken => o \in overtaken'
          /\ o \notin overtaken' =>
                /\ "config" \in reads[o] => config' = config
                /\ "manifest" \in reads[o] => manifest' = manifest
                /\ \A p \in Providers : p \in reads[o] => fixture'[p] = fixture[p]

LEMMA LeaveApart ==
  ASSUME WellTyped, NEW e \in Programs, Leave(e)
  PROVE  /\ line' \in [Programs -> Lines \cup {"idle"}] /\ line'[e] = "idle"
         /\ job' \in [Programs -> Commands \cup {Nothing}] /\ job'[e] = Nothing
         /\ held' = [o \in Programs |-> held'[o]]
         /\ at' \in [Programs -> Nat] /\ known' \in [Programs -> SUBSET Providers]
         /\ reads' \in [Programs -> SUBSET ({"config", "manifest"} \cup Providers)]
         /\ overtaken' \in SUBSET Programs
         /\ \A o \in Programs \ {e} :
               /\ line'[o] = line[o] /\ job'[o] = job[o] /\ held'[o] = held[o] /\ reads'[o] = reads[o]
               /\ o \in overtaken => o \in overtaken'
  BY DEF WellTyped, FilesTypeOK, HeldIsThere, Leave, Goto, Hold, Unwatched

LEMMA WritersApart ==
  ASSUME WellTyped, NEW e \in Programs, Writes(e)
  PROVE  Apart(e)
<1>1. CASE StoreConfig(e)
  BY <1>1 DEF StoreConfig, Apart, WellTyped, FilesTypeOK, HeldIsThere, Goto, Hold
<1>2. CASE Scaffold(e)
  BY <1>2, LeaveApart DEF Scaffold, Apart, WellTyped, FilesTypeOK, HeldIsThere, Goto, Overtakes, memory
<1>3. CASE WritePlaceholder(e)
  BY <1>3 DEF WritePlaceholder, Apart, WellTyped, FilesTypeOK, HeldIsThere, Goto
<1>4. CASE WritePage(e)
  BY <1>4 DEF WritePage, Apart, WellTyped, FilesTypeOK, HeldIsThere, Goto, Overtakes, Read, memory
<1>5. CASE StorePins(e)
  BY <1>5 DEF StorePins, Apart, WellTyped, FilesTypeOK, HeldIsThere, Goto, Overtakes, memory
<1> QED
  BY <1>1, <1>2, <1>3, <1>4, <1>5 DEF Writes

LEMMA AllApart ==
  ASSUME WellTyped, NEW e \in Programs, Acts(e)
  PROVE  Apart(e) /\ (~Writes(e) => UNCHANGED files)
<1>1. CASE Writes(e)
  BY <1>1, WritersApart
<1>2. ASSUME UNCHANGED files, Leave(e) PROVE Apart(e)
  BY <1>2, LeaveApart DEF Apart, files
<1>3. ASSUME NEW q \in Commands, Start(e, q) PROVE Apart(e) /\ UNCHANGED files
  BY <1>3 DEF Start, Apart, files, WellTyped, FilesTypeOK, HeldIsThere, Goto
<1>4. CASE AppendEntry(e)
  BY <1>2, <1>4 DEF AppendEntry, Apart, files, WellTyped, FilesTypeOK, HeldIsThere, Goto, Hold, Read
<1>5. CASE Resolve(e)
  BY <1>2, <1>5 DEF Resolve, Apart, files, WellTyped, FilesTypeOK, HeldIsThere, Goto, Read
<1>6. CASE LookForFixture(e)
  BY <1>2, <1>6 DEF LookForFixture, Apart, files, WellTyped, FilesTypeOK, HeldIsThere, Goto, memory
<1>7. CASE ReadPin(e)
  BY <1>2, <1>7 DEF ReadPin, Apart, files, WellTyped, FilesTypeOK, HeldIsThere, Goto, Hold, Read
<1>8. CASE ComparePin(e)
  BY <1>2, <1>8 DEF ComparePin, Apart, files, WellTyped, FilesTypeOK, HeldIsThere, Goto, Read, memory
<1>9. CASE EditEntry(e)
  BY <1>2, <1>9 DEF EditEntry, Apart, files, WellTyped, FilesTypeOK, HeldIsThere, Goto, Hold
<1>10. CASE ChooseProviders(e)
  BY <1>2, <1>10 DEF ChooseProviders, Apart, files, WellTyped, FilesTypeOK, HeldIsThere, Goto, Hold
<1>11. CASE ResolveAgain(e) \/ UnknownProvider(e) \/ Kill(e)
  BY <1>2, <1>11 DEF ResolveAgain, UnknownProvider, Kill
<1>12. CASE Fetch(e)
  BY <1>12 DEF Fetch, Apart, files, WellTyped, FilesTypeOK, HeldIsThere, Goto, Hold
<1>13. CASE HashFile(e)
  BY <1>2, <1>13 DEF HashFile, Apart, files, WellTyped, FilesTypeOK, HeldIsThere, Goto, Hold, Read
<1>14. CASE ReadPins(e)
  BY <1>14 DEF ReadPins, Apart, files, WellTyped, FilesTypeOK, HeldIsThere, Goto, Hold, Read
<1>15. CASE NextProvider(e)
  BY <1>2, <1>15 DEF NextProvider, Apart, files, WellTyped, FilesTypeOK, HeldIsThere, Goto, Hold, Unwatched
<1> QED
  BY <1>1, <1>3, <1>4, <1>5, <1>6, <1>7, <1>8, <1>9, <1>10, <1>11, <1>12, <1>13, <1>14, <1>15
     DEF Acts, Writes

-----------------------------------------------------------------------------
(* WellTyped.                                                                  *)

LEMMA OthersTyped ==
  ASSUME WellTyped, NEW e \in Programs, Apart(e), FilesTypeOK', LineType(e)', HeldType(e)'
  PROVE  WellTyped'
<1>1. ASSUME NEW o \in Programs, o # e PROVE LineType(o)' /\ HeldType(o)'
  <2>1. line'[o] = line[o] /\ job'[o] = job[o] /\ held'[o] = held[o]
    BY <1>1 DEF Apart
  <2>2. LineType(o) /\ HeldType(o)
    BY DEF WellTyped
  <2> QED
    BY <2>1, <2>2 DEF LineType, HeldType, Does, Path, Of
<1> QED
  BY <1>1 DEF WellTyped, Apart, HeldIsThere

\* A program that has ended.
LEMMA EndTyped ==
  ASSUME WellTyped, NEW e \in Programs, line'[e] = "idle", job'[e] = Nothing
  PROVE  LineType(e)' /\ HeldType(e)'
  BY DEF LineType, HeldType, Does

LEMMA LeaveTyped ==
  ASSUME WellTyped, NEW e \in Programs, Leave(e), UNCHANGED <<files, starts>>,
         loosened' \in SUBSET Providers
  PROVE  FilesTypeOK' /\ LineType(e)' /\ HeldType(e)'
  BY LeaveApart, EndTyped DEF files, WellTyped, FilesTypeOK

LEMMA StartTyped ==
  ASSUME WellTyped, NEW e \in Programs, NEW q \in Commands, Start(e, q)
  PROVE  FilesTypeOK' /\ LineType(e)' /\ HeldType(e)'
<1>1. q # Nothing /\ Named(q)
  BY CommandTypes
<1>2. Begin[q.do] \in LinesOf[q.do] /\ Begin[q.do] \in {"config", "resolve", "choose", "look"}
  BY <1>1 DEF Named, Begin, LinesOf
<1>3. FilesTypeOK' /\ line'[e] = Begin[q.do] /\ job'[e] = q
  BY <1>2 DEF Start, Goto, files, WellTyped, FilesTypeOK, Lines
<1> QED
  BY <1>1, <1>2, <1>3 DEF LineType, HeldType

\* The pieces of a step.
LEMMA GotoTyped ==
  ASSUME WellTyped, NEW e \in Programs, NEW to \in Lines, Goto(e, to)
  PROVE  line' \in [Programs -> Lines \cup {"idle"}] /\ line'[e] = to
  BY DEF Goto, WellTyped, FilesTypeOK

LEMMA ReadTyped ==
  ASSUME WellTyped, NEW e \in Programs, NEW file \in {"config", "manifest"} \cup Providers, Read(e, file)
  PROVE  /\ reads' \in [Programs -> SUBSET ({"config", "manifest"} \cup Providers)]
         /\ reads'[e] = reads[e] \cup {file}
  BY DEF Read, WellTyped, FilesTypeOK

LEMMA HoldTyped ==
  ASSUME WellTyped, NEW e \in Programs, NEW value, Hold(e, value)
  PROVE  held'[e] = value
  BY DEF Hold, WellTyped, HeldIsThere

LEMMA ConfigTyped ==
  ASSUME WellTyped, NEW e \in Programs, AppendEntry(e) \/ Resolve(e) \/ EditEntry(e) \/ StoreConfig(e)
  PROVE  FilesTypeOK' /\ LineType(e)' /\ HeldType(e)'
<1>1. Named(job[e]) /\ job[e] # Nothing /\ line[e] \in LinesOf[job[e].do] /\ line[e] # "idle"
  BY Running DEF AppendEntry, Resolve, EditEntry, StoreConfig
<1>2. CASE AppendEntry(e)
  <2>1. CASE config[Of(e)] # Nothing
    BY <1>2, <2>1, LeaveTyped DEF AppendEntry, WellTyped, FilesTypeOK
  <2>2. CASE config[Of(e)] = Nothing
    <3> DEFINE Template == [enabled |-> FALSE, needs |-> TRUE, complete |-> TRUE]
    <3>1. job[e].do = "append" /\ Of(e) \in Providers /\ Template \in Entry
      BY <1>1, <1>2 DEF AppendEntry, LinesOf, Named, Of, Entry
    <3>2. /\ Goto(e, "store") /\ Hold(e, [config EXCEPT ![Of(e)] = Template]) /\ Read(e, "config")
          /\ UNCHANGED <<files, job, at, known, overtaken, starts, loosened>>
      BY <1>2, <2>2 DEF AppendEntry
    <3>3. held'[e] = [config EXCEPT ![Of(e)] = Template]
      BY <3>2, HoldTyped
    <3> HIDE DEF Template
    <3>4. held'[e] \in [Providers -> Entry \cup {Nothing}]
      BY <3>1, <3>3 DEF WellTyped, FilesTypeOK
    <3>5. FilesTypeOK' /\ line'[e] = "store" /\ job'[e] = job[e]
      BY <3>2, GotoTyped, ReadTyped DEF files, WellTyped, FilesTypeOK, Lines
    <3> QED
      BY <1>1, <3>1, <3>4, <3>5 DEF LineType, HeldType, LinesOf
  <2> QED
    BY <2>1, <2>2
<1>3. CASE Resolve(e)
  <2>1. CASE Leave(e)
    BY <1>3, <2>1, LeaveTyped DEF Resolve, WellTyped, FilesTypeOK
  <2>2. CASE ~Leave(e)
    <3>1. job[e].do \in {"enable", "pin", "update"}
      BY <1>1, <1>3 DEF Resolve, LinesOf, Named
    <3> DEFINE To == CASE Does(e, "update") -> "fetch"
                       [] Does(e, "pin") -> "hash"
                       [] Does(e, "enable") /\ NeedsFixture(config[Of(e)]) -> "look"
                       [] Does(e, "enable") /\ ~NeedsFixture(config[Of(e)]) -> "edit"
    <3>2. /\ Goto(e, To) /\ Read(e, "config")
          /\ known' = [known EXCEPT ![e] = IF Does(e, "update") THEN Listed ELSE {}]
          /\ UNCHANGED <<files, job, held, at, overtaken, starts, loosened>>
      BY <1>3, <2>2 DEF Resolve
    <3>3. /\ job[e].do = "update" => To = "fetch"
          /\ job[e].do = "pin" => To = "hash"
          /\ job[e].do = "enable" => To \in {"look", "edit"}
      BY <1>1, <3>1 DEF Does
    <3> HIDE DEF To
    <3>4. line' \in [Programs -> Lines \cup {"idle"}] /\ line'[e] = To
      BY <3>1, <3>2, <3>3, GotoTyped DEF Lines
    <3>5. known' \in [Programs -> SUBSET Providers]
      BY <3>2 DEF WellTyped, FilesTypeOK, Listed
    <3>6. FilesTypeOK' /\ job'[e] = job[e]
      BY <3>2, <3>4, <3>5, ReadTyped DEF files, WellTyped, FilesTypeOK
    <3> QED
      BY <1>1, <3>1, <3>3, <3>4, <3>6 DEF LineType, HeldType, LinesOf, Does
  <2> QED
    BY <2>1, <2>2
<1>4. CASE EditEntry(e)
  <2>1. CASE Leave(e)
    BY <1>4, <2>1, LeaveTyped DEF EditEntry, WellTyped, FilesTypeOK
  <2>2. CASE ~Leave(e)
    <3>1. /\ config[Of(e)] # Nothing
          /\ Goto(e, "store") /\ Hold(e, [config EXCEPT ![Of(e)].enabled = TRUE])
          /\ UNCHANGED <<files, job, at, known, reads, overtaken, starts, loosened>>
      BY <1>4, <2>2 DEF EditEntry
    <3>2. job[e].do = "enable" /\ Of(e) \in Providers
      BY <1>1, <1>4 DEF EditEntry, LinesOf, Named, Of
    <3>3. config \in [Providers -> Entry \cup {Nothing}] /\ config[Of(e)] \in Entry
      BY <3>1, <3>2 DEF WellTyped, FilesTypeOK
    <3>4. [config[Of(e)] EXCEPT !.enabled = TRUE] \in Entry
      BY <3>3 DEF Entry
    <3>5. held'[e] = [config EXCEPT ![Of(e)] = [config[Of(e)] EXCEPT !.enabled = TRUE]]
      BY <3>1, HoldTyped
    <3>6. held'[e] \in [Providers -> Entry \cup {Nothing}]
      BY <3>2, <3>3, <3>4, <3>5
    <3>7. FilesTypeOK' /\ line'[e] = "store" /\ job'[e] = job[e]
      BY <3>1, GotoTyped DEF files, WellTyped, FilesTypeOK, Lines
    <3> QED
      BY <1>1, <3>2, <3>6, <3>7 DEF LineType, HeldType, LinesOf
  <2> QED
    BY <2>1, <2>2
<1>5. CASE StoreConfig(e)
  <2>1. held[e] \in [Providers -> Entry \cup {Nothing}]
    BY <1>5 DEF StoreConfig, WellTyped, HeldType
  <2>2. FilesTypeOK' /\ line'[e] = "idle" /\ job'[e] = Nothing
    BY <1>5, <2>1 DEF StoreConfig, Goto, WellTyped, FilesTypeOK
  <2> QED
    BY <2>2, EndTyped
<1> QED
  BY <1>2, <1>3, <1>4, <1>5

LEMMA CheckTyped ==
  ASSUME WellTyped, NEW e \in Programs, LookForFixture(e) \/ ReadPin(e) \/ ComparePin(e)
  PROVE  FilesTypeOK' /\ LineType(e)' /\ HeldType(e)'
<1>1. Named(job[e]) /\ job[e] # Nothing /\ line[e] \in LinesOf[job[e].do] /\ line[e] # "idle"
  BY Running DEF LookForFixture, ReadPin, ComparePin
<1>2. job[e].do = "enable" /\ Of(e) \in Providers
  BY <1>1 DEF LookForFixture, ReadPin, ComparePin, LinesOf, Named, Of, Does
<1>3. CASE Leave(e)
  BY <1>3, LeaveTyped DEF LookForFixture, ReadPin, ComparePin, WellTyped, FilesTypeOK
<1>4. CASE ~Leave(e) /\ LookForFixture(e)
  <2>1. Goto(e, "pinned") /\ UNCHANGED <<files, memory, reads, overtaken, starts, loosened>>
    BY <1>4 DEF LookForFixture
  <2>2. FilesTypeOK' /\ line'[e] = "pinned" /\ job'[e] = job[e]
    BY <2>1, GotoTyped DEF memory, files, WellTyped, FilesTypeOK, Lines
  <2> QED
    BY <1>1, <1>2, <2>2 DEF LineType, HeldType, LinesOf, Does
<1>5. CASE ~Leave(e) /\ ComparePin(e)
  <2>1. Goto(e, "edit") /\ Read(e, Of(e)) /\ UNCHANGED <<files, memory, overtaken, starts, loosened>>
    BY <1>5 DEF ComparePin
  <2>2. FilesTypeOK' /\ line'[e] = "edit" /\ job'[e] = job[e]
    BY <1>2, <2>1, GotoTyped, ReadTyped DEF memory, files, WellTyped, FilesTypeOK, Lines
  <2> QED
    BY <1>1, <1>2, <2>2 DEF LineType, HeldType, LinesOf, Does
<1>6. CASE ~Leave(e) /\ ReadPin(e)
  <2>1. /\ manifest[Of(e)] # Nothing
        /\ Goto(e, "compare") /\ Hold(e, manifest[Of(e)]) /\ Read(e, "manifest")
        /\ UNCHANGED <<files, job, at, known, overtaken, starts, loosened>>
    BY <1>6 DEF ReadPin
  <2>2. held'[e] \in Pin
    BY <1>2, <2>1, HoldTyped DEF WellTyped, FilesTypeOK
  <2>3. FilesTypeOK' /\ line'[e] = "compare" /\ job'[e] = job[e]
    BY <2>1, GotoTyped, ReadTyped DEF files, WellTyped, FilesTypeOK, Lines
  <2> QED
    BY <1>1, <1>2, <2>2, <2>3 DEF LineType, HeldType, LinesOf, Does
<1> QED
  BY <1>3, <1>4, <1>5, <1>6

LEMMA DailyTyped ==
  ASSUME WellTyped, NEW e \in Programs, ChooseProviders(e) \/ ResolveAgain(e)
  PROVE  FilesTypeOK' /\ LineType(e)' /\ HeldType(e)'
<1>1. Named(job[e]) /\ job[e] # Nothing /\ line[e] \in LinesOf[job[e].do] /\ line[e] # "idle"
  BY Running DEF ChooseProviders, ResolveAgain
<1>2. CASE Leave(e)
  BY <1>2, LeaveTyped DEF ChooseProviders, ResolveAgain, WellTyped, FilesTypeOK
<1>3. CASE ~Leave(e)
  <2>1. /\ line[e] = "choose" /\ Goto(e, "again")
        /\ UNCHANGED <<files, job, at, known, reads, overtaken, starts, loosened>>
    BY <1>3 DEF ChooseProviders, ResolveAgain
  <2>2. FilesTypeOK' /\ line'[e] = "again" /\ job'[e] = job[e]
    BY <2>1, GotoTyped DEF files, WellTyped, FilesTypeOK, Lines
  <2> QED
    BY <1>1, <2>1, <2>2 DEF LineType, HeldType, LinesOf, Named
<1> QED
  BY <1>2, <1>3

LEMMA ScaffoldTyped ==
  ASSUME WellTyped, NEW e \in Programs, Scaffold(e) \/ WritePlaceholder(e)
  PROVE  FilesTypeOK' /\ LineType(e)' /\ HeldType(e)'
<1>1. Named(job[e]) /\ job[e] # Nothing /\ line[e] \in LinesOf[job[e].do] /\ line[e] # "idle"
  BY Running DEF Scaffold, WritePlaceholder
<1>2. job[e].do = "scaffold" /\ Of(e) \in Providers
  BY <1>1 DEF Scaffold, WritePlaceholder, Named, Of, Does
<1>3. CASE Leave(e) /\ Scaffold(e)
  <2>1. UNCHANGED files /\ UNCHANGED starts /\ loosened' = loosened
    BY <1>3, LeaveApart DEF Scaffold, Goto, files, WellTyped, FilesTypeOK
  <2> QED
    BY <1>3, <2>1, LeaveTyped DEF WellTyped, FilesTypeOK
<1>4. CASE ~Leave(e) /\ Scaffold(e)
  <2>1. /\ fixture' = [fixture EXCEPT ![Of(e)] = Cut] /\ loosened' = loosened \cup {Of(e)}
        /\ Overtakes(e, Of(e)) /\ Goto(e, "write")
        /\ UNCHANGED <<memory, reads, config, manifest, starts>>
    BY <1>4 DEF Scaffold
  <2>2. fixture' \in [Providers -> Contents \cup {Nothing}] /\ overtaken' \in SUBSET Programs
    BY <2>1 DEF Overtakes, WellTyped, FilesTypeOK, Contents
  <2>3. FilesTypeOK' /\ line'[e] = "write" /\ job'[e] = job[e]
    BY <1>2, <2>1, <2>2, GotoTyped DEF memory, WellTyped, FilesTypeOK, Lines
  <2> QED
    BY <1>1, <1>2, <2>3 DEF LineType, HeldType, LinesOf, Does
<1>5. CASE WritePlaceholder(e)
  <2>1. fixture' \in [Providers -> Contents \cup {Nothing}] /\ overtaken' \in SUBSET Programs
    BY <1>5 DEF WritePlaceholder, WellTyped, FilesTypeOK, Contents
  <2>2. FilesTypeOK' /\ line'[e] = "idle" /\ job'[e] = Nothing
    BY <1>2, <1>5, <2>1 DEF WritePlaceholder, Goto, WellTyped, FilesTypeOK
  <2> QED
    BY <2>2, EndTyped
<1> QED
  BY <1>3, <1>4, <1>5

LEMMA FetchTyped ==
  ASSUME WellTyped, NEW e \in Programs, UnknownProvider(e) \/ Fetch(e) \/ WritePage(e) \/ NextProvider(e)
  PROVE  FilesTypeOK' /\ LineType(e)' /\ HeldType(e)'
<1>1. Named(job[e]) /\ job[e] # Nothing /\ line[e] \in LinesOf[job[e].do] /\ line[e] # "idle"
  BY Running DEF UnknownProvider, Fetch, WritePage, NextProvider
<1>2. line[e] \in {"fetch", "write", "next"}
  BY DEF UnknownProvider, Fetch, WritePage, NextProvider
<1>3. CASE Leave(e) /\ (UnknownProvider(e) \/ NextProvider(e))
  BY <1>3, LeaveTyped DEF UnknownProvider, NextProvider, WellTyped, FilesTypeOK
<1>4. CASE Fetch(e)
  <2>1. /\ line[e] = "fetch" /\ UNCHANGED <<files, job, at, known, starts, reads, overtaken, loosened>>
        /\ \/ \E page \in Pages : Hold(e, page) /\ Goto(e, "write")
           \/ Hold(e, Nothing) /\ Goto(e, "hash")
           \/ Goto(e, "next")
    BY <1>4 DEF Fetch
  <2>2. job[e].do = "update"
    BY <1>1, <2>1 DEF Named, LinesOf
  <2>3. /\ line' \in [Programs -> Lines \cup {"idle"}]
        /\ \/ line'[e] = "write" /\ held'[e] \in Pages
           \/ line'[e] = "hash" /\ held'[e] = Nothing
           \/ line'[e] = "next"
    BY <2>1, GotoTyped, HoldTyped DEF Lines
  <2>4. FilesTypeOK' /\ job'[e] = job[e]
    BY <2>1, <2>3 DEF files, WellTyped, FilesTypeOK
  <2> QED
    BY <1>1, <2>2, <2>3, <2>4 DEF LineType, HeldType, LinesOf, Does
<1>5. CASE WritePage(e)
  <2>1. job[e].do = "update" /\ held[e] \in Pages /\ job[e].out \in Providers
    BY <1>1, <1>5 DEF WritePage, Does, WellTyped, HeldType, Named
  <2>2. /\ fixture' = [fixture EXCEPT ![job[e].out] = held[e]]
        /\ Overtakes(e, job[e].out) /\ Read(e, job[e].out) /\ Goto(e, "hash")
        /\ loosened' = IF job[e].pins THEN loosened ELSE loosened \cup {job[e].out}
        /\ UNCHANGED <<config, manifest, memory, starts>>
    BY <1>5 DEF WritePage
  <2>3. fixture' \in [Providers -> Contents \cup {Nothing}] /\ overtaken' \in SUBSET Programs
        /\ loosened' \in SUBSET Providers
    BY <2>1, <2>2 DEF Overtakes, WellTyped, FilesTypeOK, Contents
  <2>4. FilesTypeOK' /\ line'[e] = "hash" /\ job'[e] = job[e] /\ held'[e] = held[e]
    BY <2>1, <2>2, <2>3, GotoTyped, ReadTyped DEF memory, WellTyped, FilesTypeOK, Lines
  <2> QED
    BY <1>1, <2>1, <2>4 DEF LineType, HeldType, LinesOf, Does
<1>6. CASE ~Leave(e) /\ NextProvider(e)
  <2>1. /\ Does(e, "update")
        /\ at' = [at EXCEPT ![e] = @ + 1] /\ Goto(e, "fetch") /\ Unwatched(e)
        /\ UNCHANGED <<files, job, known, starts, loosened>>
    BY <1>6 DEF NextProvider
  <2>2. /\ reads' \in [Programs -> SUBSET ({"config", "manifest"} \cup Providers)]
        /\ overtaken' \in SUBSET Programs /\ at' \in [Programs -> Nat]
    BY <2>1 DEF Unwatched, WellTyped, FilesTypeOK
  <2>3. FilesTypeOK' /\ line'[e] = "fetch" /\ job'[e] = job[e]
    BY <2>1, <2>2, GotoTyped DEF files, WellTyped, FilesTypeOK, Lines
  <2> QED
    BY <1>1, <2>1, <2>3 DEF LineType, HeldType, LinesOf, Does
<1> QED
  BY <1>3, <1>4, <1>5, <1>6 DEF UnknownProvider

LEMMA PinsTyped ==
  ASSUME WellTyped, NEW e \in Programs, HashFile(e) \/ ReadPins(e) \/ StorePins(e)
  PROVE  FilesTypeOK' /\ LineType(e)' /\ HeldType(e)'
<1>1. Named(job[e]) /\ job[e] # Nothing /\ line[e] \in LinesOf[job[e].do] /\ line[e] # "idle"
      /\ Path(e) \in Providers
  BY Running DEF HashFile, ReadPins, StorePins
<1>2. job[e].do \in {"pin", "update"}
  BY <1>1 DEF HashFile, ReadPins, StorePins, LinesOf, Named
<1>3. CASE HashFile(e)
  <2>1. CASE Leave(e)
    BY <1>3, <2>1, LeaveTyped DEF HashFile, WellTyped, FilesTypeOK
  <2>2. CASE ~Leave(e)
    <3> DEFINE To == IF Does(e, "update") /\ ~job[e].pins THEN "next" ELSE "pins"
    <3>1. /\ line[e] = "hash" /\ Hold(e, Hashed(e)) /\ Goto(e, To) /\ Read(e, Path(e))
          /\ UNCHANGED <<files, job, at, known, overtaken, starts, loosened>>
      BY <1>3, <2>2 DEF HashFile
    <3>2. To \in {"next", "pins"} /\ (Does(e, "update") /\ To = "pins" => job[e].pins)
      BY <1>1 DEF Named
    <3> HIDE DEF To
    <3>3. held'[e] \in Pin
      <4>1. held'[e] = Hashed(e)
        BY <3>1, HoldTyped
      <4>2. CASE Does(e, "update")
        <5>1. job[e].out \in Providers /\ held[e] \in Pages \cup {Nothing}
          BY <1>1, <3>1, <4>2 DEF Named, Does, WellTyped, HeldType
        <5>2. fixture[job[e].out] \in Contents \cup {Nothing} /\ held[e] \in Contents \cup {Nothing}
          BY <5>1 DEF WellTyped, FilesTypeOK, Contents
        <5> QED
          BY <4>1, <4>2, <5>2 DEF Hashed, Pin
      <4>3. CASE ~Does(e, "update")
        <5>1. fixture[Of(e)] \in Contents \cup {Nothing}
          BY <1>1, <4>3 DEF Path, WellTyped, FilesTypeOK
        <5> QED
          BY <4>1, <4>3, <5>1 DEF Hashed, PinOf, Pin
      <4> QED
        BY <4>2, <4>3
    <3>4. FilesTypeOK' /\ line'[e] = To /\ job'[e] = job[e]
      BY <1>1, <3>1, <3>2, GotoTyped, ReadTyped DEF files, WellTyped, FilesTypeOK, Lines
    <3> QED
      BY <1>1, <1>2, <3>2, <3>3, <3>4 DEF LineType, HeldType, LinesOf, Does
  <2> QED
    BY <2>1, <2>2
<1>4. CASE ReadPins(e)
  <2>1. /\ line[e] = "pins" /\ Hold(e, Repinned(e)) /\ Read(e, "manifest") /\ Goto(e, "repin")
        /\ UNCHANGED <<files, job, at, known, starts, overtaken, loosened>>
    BY <1>4 DEF ReadPins
  <2>2. held[e] \in Pin /\ manifest \in [Providers -> Pin \cup {Nothing}] /\ Nothing \notin Pin
    BY <2>1 DEF WellTyped, HeldType, FilesTypeOK
  <2>3. /\ Repinned(e) \in [Providers -> Pin \cup {Nothing}]
        /\ Repinned(e)[Path(e)] # Nothing
    BY <1>1, <2>2 DEF Repinned
  <2>4. FilesTypeOK' /\ line'[e] = "repin" /\ job'[e] = job[e] /\ held'[e] = Repinned(e)
    BY <2>1, GotoTyped, ReadTyped, HoldTyped DEF files, WellTyped, FilesTypeOK, Lines
  <2>5. Path(e)' = Path(e) /\ (Does(e, "update") => job[e].pins)
    BY <2>1, <2>4 DEF Path, Does, Of, WellTyped, LineType
  <2> QED
    BY <1>1, <1>2, <2>3, <2>4, <2>5 DEF LineType, HeldType, LinesOf, Does
<1>5. CASE StorePins(e)
  <2>1. /\ line[e] = "repin" /\ manifest' = held[e] /\ Overtakes(e, "manifest") /\ Goto(e, "next")
        /\ loosened' = IF Unsafe(e) THEN loosened \cup {p \in Providers : held[e][p] # manifest[p]}
                       ELSE loosened \ {Path(e)}
        /\ UNCHANGED <<config, fixture, memory, starts, reads>>
    BY <1>5 DEF StorePins
  <2>2. manifest' \in [Providers -> Pin \cup {Nothing}] /\ overtaken' \in SUBSET Programs
        /\ loosened' \in SUBSET Providers
    BY <2>1 DEF Overtakes, WellTyped, HeldType, FilesTypeOK
  <2>3. FilesTypeOK' /\ line'[e] = "next" /\ job'[e] = job[e]
    BY <2>1, <2>2, GotoTyped DEF memory, WellTyped, FilesTypeOK, Lines
  <2> QED
    BY <1>1, <1>2, <2>3 DEF LineType, HeldType, LinesOf, Does
<1> QED
  BY <1>3, <1>4, <1>5

LEMMA KillTyped ==
  ASSUME WellTyped, NEW e \in Programs, Kill(e)
  PROVE  FilesTypeOK' /\ LineType(e)' /\ HeldType(e)'
<1>1. job[e] # Nothing /\ Named(job[e])
  BY Running DEF Kill
<1>2. loosened' \in SUBSET Providers
  BY <1>1 DEF Kill, Does, Named, WellTyped, FilesTypeOK
<1> QED
  BY <1>2, LeaveTyped DEF Kill

\* Every step of a program keeps the types.
LEMMA StepTyped ==
  ASSUME WellTyped, NEW e \in Programs, Acts(e)
  PROVE  WellTyped'
<1>1. FilesTypeOK' /\ LineType(e)' /\ HeldType(e)'
  BY StartTyped, ConfigTyped, CheckTyped, DailyTyped, ScaffoldTyped, FetchTyped, PinsTyped, KillTyped
     DEF Acts
<1> QED
  BY <1>1, AllApart, OthersTyped

LEMMA NextIsActs == FilesNext <=> \E e \in Programs : Acts(e)
  BY DEF FilesNext, Acts

LEMMA TypesStutter ==
  ASSUME WellTyped, UNCHANGED fileVars
  PROVE  WellTyped'
  BY DEF WellTyped, fileVars, files, memory, FilesTypeOK, HeldIsThere, LineType, HeldType, Does, Path, Of

LEMMA FilesInitTyped == FilesInit => WellTyped
<1> SUFFICES ASSUME FilesInit PROVE WellTyped
  OBVIOUS
<1>1. fixture \in [Providers -> Contents \cup {Nothing}]
  BY DEF FilesInit, Contents
<1>2. manifest \in [Providers -> Pin \cup {Nothing}]
  BY <1>1 DEF FilesInit, PinOf, Pin
<1>3. config \in [Providers -> Entry \cup {Nothing}]
  BY DEF FilesInit, Entry
<1>4. FilesTypeOK
  BY <1>1, <1>2, <1>3 DEF FilesInit, FilesTypeOK
<1> QED
  BY <1>4 DEF FilesInit, WellTyped, HeldIsThere, LineType, HeldType, Does

LEMMA TypesAlways == FilesSpec => []WellTyped
<1>1. WellTyped /\ [FilesNext]_fileVars => WellTyped'
  BY StepTyped, NextIsActs, TypesStutter
<1> QED
  BY <1>1, FilesInitTyped, PTL DEF FilesSpec

-----------------------------------------------------------------------------
(* What a program that is not overtaken may rely on.                       *)

ConfigSure(e) ==
    /\ Does(e, "enable") /\ line[e] # "resolve" => "config" \in reads[e] /\ config[Of(e)] # Nothing
    /\ Does(e, "enable") /\ line[e] \in {"look", "pinned", "compare"} => config[Of(e)].needs
    /\ line[e] = "store" =>
         /\ "config" \in reads[e]
         /\ \A p \in Providers \ {Of(e)} : held[e][p] = config[p]
         /\ Does(e, "append") => config[Of(e)] = Nothing
         /\ Does(e, "enable") => held[e][Of(e)] = [config[Of(e)] EXCEPT !.enabled = TRUE]

CheckSure(e) ==
    /\ line[e] = "compare" => "manifest" \in reads[e] /\ held[e] = manifest[Of(e)]
    /\ Does(e, "enable") /\ line[e] \in {"edit", "store"} /\ config[Of(e)].needs =>
         {"manifest", Of(e)} \subseteq reads[e] /\ AsPinned(Of(e))

\* A pin of a page, or one without a size.
TakenFrom(pin, page) == pin.bytes = Nothing \/ (page # Nothing /\ pin = PinOf(page))

PinsSure(e) ==
    /\ line[e] = "hash" /\ Does(e, "update") /\ held[e] # Nothing =>
         held[e] = fixture[job[e].out] /\ job[e].out \in reads[e]
    /\ line[e] \in {"pins", "repin"} => Path(e) \in reads[e]
    /\ line[e] = "pins" => TakenFrom(held[e], fixture[Path(e)])
    /\ line[e] = "repin" => /\ "manifest" \in reads[e]
                          /\ TakenFrom(held[e][Path(e)], fixture[Path(e)])
                          /\ \A p \in Providers \ {Path(e)} : held[e][p] = manifest[p]

FixtureThere(e) == line[e] \in {"pinned", "compare"} => fixture[Of(e)] # Nothing

Sure(e) ==
    /\ FixtureThere(e)
    /\ e \notin overtaken => ConfigSure(e) /\ CheckSure(e) /\ PinsSure(e)

\* No step takes a fixture away.
LEMMA FixturesStay ==
  ASSUME WellTyped, NEW e \in Programs, Acts(e), NEW p \in Providers, fixture[p] # Nothing
  PROVE  fixture'[p] # Nothing
<1>1. CASE ~Writes(e)
  BY <1>1, AllApart DEF files
<1>2. CASE StoreConfig(e) \/ StorePins(e)
  BY <1>2 DEF StoreConfig, StorePins
<1>3. CASE Scaffold(e)
  BY <1>3 DEF Scaffold, WellTyped, FilesTypeOK
<1>4. CASE WritePlaceholder(e)
  BY <1>4 DEF WritePlaceholder, WellTyped, FilesTypeOK
<1>5. CASE WritePage(e)
  <2>1. held[e] \in Pages
    BY <1>5 DEF WritePage, WellTyped, HeldType
  <2> QED
    BY <1>5, <2>1 DEF WritePage, WellTyped, FilesTypeOK
<1> QED
  BY <1>1, <1>2, <1>3, <1>4, <1>5 DEF Writes

\* The others stay sure.
LEMMA OthersSure ==
  ASSUME WellTyped, NEW e \in Programs, Acts(e), NEW o \in Programs, o # e, Sure(o)
  PROVE  Sure(o)'
<1>1. Apart(e)
  BY AllApart
<1>2. line'[o] = line[o] /\ job'[o] = job[o] /\ held'[o] = held[o] /\ reads'[o] = reads[o]
  BY <1>1 DEF Apart
<1>3. FixtureThere(o)'
  <2>1. SUFFICES ASSUME line[o] \in {"pinned", "compare"} PROVE fixture'[Of(o)] # Nothing
    BY <1>2 DEF FixtureThere, Of
  <2>2. Named(job[o]) /\ line[o] \in LinesOf[job[o].do]
    BY <2>1, Running
  <2>3. Of(o) \in Providers
    BY <2>1, <2>2 DEF Named, LinesOf, Of
  <2> QED
    BY <2>1, <2>3, FixturesStay DEF Sure, FixtureThere
<1>4. ASSUME o \notin overtaken' PROVE (ConfigSure(o) /\ CheckSure(o) /\ PinsSure(o))'
  <2>1. /\ o \notin overtaken
        /\ "config" \in reads[o] => config' = config
        /\ "manifest" \in reads[o] => manifest' = manifest
        /\ \A p \in Providers : p \in reads[o] => fixture'[p] = fixture[p]
    BY <1>1, <1>4 DEF Apart
  <2>2. ConfigSure(o) /\ CheckSure(o) /\ PinsSure(o)
    BY <2>1 DEF Sure
  <2>3. ConfigSure(o)'
    BY <1>2, <2>1, <2>2 DEF ConfigSure, Does, Of
  <2>4. CheckSure(o)'
    <3>1. Does(o, "enable") => Of(o) \in Providers
      BY Running DEF Does, WellTyped, LineType
    <3>2. (line[o] = "compare" => "manifest" \in reads[o] /\ held[o] = manifest[Of(o)])'
      BY <1>2, <2>1, <2>2 DEF CheckSure, Of
    <3>3. ASSUME Does(o, "enable"), line[o] \in {"edit", "store"}, config'[Of(o)].needs
          PROVE  {"manifest", Of(o)} \subseteq reads[o] /\ AsPinned(Of(o))'
      <4>1. config' = config
        BY <2>1, <2>2, <3>3 DEF ConfigSure
      <4>2. {"manifest", Of(o)} \subseteq reads[o] /\ AsPinned(Of(o))
        BY <2>2, <3>3, <4>1 DEF CheckSure
      <4> QED
        BY <1>2, <2>1, <3>1, <3>3, <4>2 DEF AsPinned, Of
    <3> QED
      BY <1>2, <3>2, <3>3 DEF CheckSure, Does, Of, AsPinned
  <2>5. PinsSure(o)'
    <3>1. /\ line[o] \in {"hash", "pins", "repin"} => Path(o) \in Providers
          /\ Path(o)' = Path(o) /\ (Does(o, "update") => Path(o) = job[o].out)
      BY <1>2, Running DEF Path, Does, Of
    <3>2. line[o] \in {"pins", "repin"} => fixture'[Path(o)] = fixture[Path(o)]
      BY <2>1, <2>2, <3>1 DEF PinsSure
    <3>3. (line[o] = "hash" /\ Does(o, "update") /\ held[o] # Nothing =>
              held[o] = fixture[job[o].out] /\ job[o].out \in reads[o])'
      BY <1>2, <2>1, <2>2, <3>1 DEF PinsSure, Does
    <3> QED
      BY <1>2, <2>1, <2>2, <3>1, <3>2, <3>3 DEF PinsSure
  <2> QED
    BY <2>3, <2>4, <2>5
<1> QED
  BY <1>3, <1>4 DEF Sure

\* A program that has ended goes by nothing.
LEMMA EndSure ==
  ASSUME NEW e \in Programs, line'[e] = "idle", job'[e] = Nothing
  PROVE  Sure(e)'
  BY DEF Sure, FixtureThere, ConfigSure, CheckSure, PinsSure, Does

LEMMA LeaveSure ==
  ASSUME WellTyped, NEW e \in Programs, Leave(e)
  PROVE  Sure(e)'
  BY LeaveApart, EndSure

\* At these lines a program goes by nothing it has read.
LEMMA FreeSure ==
  ASSUME NEW e \in Programs, job'[e] # Nothing,
         \/ line'[e] \in {"config", "choose", "again", "fetch", "write", "next"} /\ job'[e].do # "enable"
         \/ line'[e] = "look" /\ job'[e].do = "scaffold"
         \/ line'[e] = "resolve"
         \/ line'[e] = "hash" /\ (job'[e].do = "pin" \/ held'[e] = Nothing) /\ job'[e].do # "enable"
  PROVE  Sure(e)'
  BY DEF Sure, FixtureThere, ConfigSure, CheckSure, PinsSure, Does

LEMMA StartSure ==
  ASSUME WellTyped, NEW e \in Programs, NEW q \in Commands, Start(e, q)
  PROVE  Sure(e)'
<1>1. q # Nothing /\ Named(q)
  BY CommandTypes
<1>2. line'[e] = Begin[q.do] /\ job'[e] = q
  BY DEF Start, Goto, WellTyped, FilesTypeOK
<1>3. \/ Begin[q.do] \in {"config", "choose"} /\ q.do # "enable"
      \/ Begin[q.do] = "look" /\ q.do = "scaffold"
      \/ Begin[q.do] = "resolve"
  BY <1>1 DEF Named, Begin
<1> QED
  BY <1>1, <1>2, <1>3, FreeSure

LEMMA ConfigActsSure ==
  ASSUME WellTyped, NEW e \in Programs, Sure(e), AppendEntry(e) \/ Resolve(e) \/ EditEntry(e) \/ StoreConfig(e)
  PROVE  Sure(e)'
<1>1. Named(job[e]) /\ job[e] # Nothing /\ line[e] \in LinesOf[job[e].do] /\ line[e] # "idle"
  BY Running DEF AppendEntry, Resolve, EditEntry, StoreConfig
<1>2. CASE AppendEntry(e)
  <2>1. CASE config[Of(e)] # Nothing
    BY <1>2, <2>1, LeaveSure DEF AppendEntry
  <2>2. CASE config[Of(e)] = Nothing
    <3> DEFINE Template == [enabled |-> FALSE, needs |-> TRUE, complete |-> TRUE]
    <3>1. job[e].do = "append" /\ Of(e) \in Providers
      BY <1>1, <1>2 DEF AppendEntry, LinesOf, Named, Of
    <3>2. /\ Goto(e, "store") /\ Hold(e, [config EXCEPT ![Of(e)] = Template]) /\ Read(e, "config")
          /\ UNCHANGED <<files, job, at, known, overtaken, starts, loosened>>
      BY <1>2, <2>2 DEF AppendEntry
    <3>3. /\ held'[e] = [config EXCEPT ![Of(e)] = Template]
          /\ line'[e] = "store" /\ job'[e] = job[e] /\ config' = config
          /\ "config" \in reads'[e] /\ Of(e)' = Of(e)
      BY <3>2, HoldTyped, GotoTyped, ReadTyped DEF Lines, files, Of
    <3> HIDE DEF Template
    <3>4. \A p \in Providers \ {Of(e)} : held'[e][p] = config'[p]
      BY <3>3 DEF WellTyped, FilesTypeOK
    <3> QED
      BY <1>1, <2>2, <3>1, <3>3, <3>4 DEF Sure, FixtureThere, ConfigSure, CheckSure, PinsSure, Does
  <2> QED
    BY <2>1, <2>2
<1>3. CASE Resolve(e)
  <2>1. CASE Leave(e)
    BY <2>1, LeaveSure
  <2>2. CASE ~Leave(e)
    <3>1. job[e].do \in {"enable", "pin", "update"}
      BY <1>1, <1>3 DEF Resolve, LinesOf, Named
    <3> DEFINE To == CASE Does(e, "update") -> "fetch"
                       [] Does(e, "pin") -> "hash"
                       [] Does(e, "enable") /\ NeedsFixture(config[Of(e)]) -> "look"
                       [] Does(e, "enable") /\ ~NeedsFixture(config[Of(e)]) -> "edit"
    <3>2. /\ ~Does(e, "update") => Of(e) \in Listed
          /\ Goto(e, To) /\ Read(e, "config")
          /\ UNCHANGED <<files, job, held, at, overtaken, starts, loosened>>
      BY <1>3, <2>2 DEF Resolve
    <3>3. /\ job[e].do = "update" => To = "fetch"
          /\ job[e].do = "pin" => To = "hash"
          /\ job[e].do = "enable" => To = IF config[Of(e)].needs THEN "look" ELSE "edit"
      BY <1>1, <3>1 DEF Does, NeedsFixture
    <3> HIDE DEF To
    <3>4. line'[e] = To /\ job'[e] = job[e] /\ config' = config /\ "config" \in reads'[e] /\ Of(e)' = Of(e)
      BY <3>1, <3>2, <3>3, GotoTyped, ReadTyped DEF Lines, files, Of
    <3>5. CASE job[e].do = "enable"
      <4>1. config[Of(e)] # Nothing
        BY <1>1, <3>2, <3>5 DEF Does, Listed
      <4>2. line'[e] = IF config[Of(e)].needs THEN "look" ELSE "edit"
        BY <3>3, <3>4, <3>5
      <4>3. FixtureThere(e)' /\ ConfigSure(e)' /\ PinsSure(e)'
        BY <3>4, <3>5, <4>1, <4>2 DEF FixtureThere, ConfigSure, PinsSure, Does
      <4>4. CheckSure(e)'
        BY <3>4, <4>2 DEF CheckSure
      <4> QED
        BY <4>3, <4>4 DEF Sure
    <3>6. CASE job[e].do # "enable"
      BY <1>1, <3>1, <3>3, <3>4, <3>6, FreeSure
    <3> QED
      BY <3>5, <3>6
  <2> QED
    BY <2>1, <2>2
<1>4. CASE EditEntry(e)
  <2>1. CASE Leave(e)
    BY <2>1, LeaveSure
  <2>2. CASE ~Leave(e)
    <3>1. /\ line[e] = "edit" /\ config[Of(e)] # Nothing
          /\ Goto(e, "store") /\ Hold(e, [config EXCEPT ![Of(e)].enabled = TRUE])
          /\ UNCHANGED <<files, job, at, known, reads, overtaken, starts, loosened>>
      BY <1>4, <2>2 DEF EditEntry
    <3>2. job[e].do = "enable" /\ Of(e) \in Providers
      BY <1>1, <3>1 DEF LinesOf, Named, Of
    <3>3. /\ held'[e] = [config EXCEPT ![Of(e)] = [config[Of(e)] EXCEPT !.enabled = TRUE]]
          /\ line'[e] = "store" /\ job'[e] = job[e] /\ config' = config /\ manifest' = manifest
          /\ fixture' = fixture /\ reads' = reads /\ overtaken' = overtaken /\ Of(e)' = Of(e)
      BY <3>1, HoldTyped, GotoTyped DEF Lines, files, Of
    <3>4. /\ \A p \in Providers \ {Of(e)} : held'[e][p] = config'[p]
          /\ held'[e][Of(e)] = [config[Of(e)] EXCEPT !.enabled = TRUE]
      BY <3>2, <3>3 DEF WellTyped, FilesTypeOK
    <3>5. ASSUME e \notin overtaken PROVE ConfigSure(e)' /\ CheckSure(e)'
      <4>1. ConfigSure(e) /\ CheckSure(e)
        BY <3>5 DEF Sure
      <4>2. "config" \in reads[e]
        BY <1>1, <3>1, <3>2, <4>1 DEF ConfigSure, Does
      <4>3. ConfigSure(e)'
        BY <1>1, <3>1, <3>2, <3>3, <3>4, <4>2 DEF ConfigSure, Does
      <4>4. config[Of(e)].needs => {"manifest", Of(e)} \subseteq reads[e] /\ AsPinned(Of(e))
        BY <1>1, <3>1, <3>2, <4>1 DEF CheckSure, Does
      <4>5. CheckSure(e)'
        BY <3>3, <4>4 DEF CheckSure, AsPinned
      <4> QED
        BY <4>3, <4>5
    <3> QED
      BY <3>3, <3>5 DEF Sure, FixtureThere, PinsSure
  <2> QED
    BY <2>1, <2>2
<1>5. CASE StoreConfig(e)
  BY <1>5, EndSure DEF StoreConfig, Goto, WellTyped, FilesTypeOK
<1> QED
  BY <1>2, <1>3, <1>4, <1>5

LEMMA CheckActsSure ==
  ASSUME WellTyped, NEW e \in Programs, Sure(e), LookForFixture(e) \/ ReadPin(e) \/ ComparePin(e)
  PROVE  Sure(e)'
<1>1. Named(job[e]) /\ job[e] # Nothing /\ line[e] \in LinesOf[job[e].do] /\ line[e] # "idle"
  BY Running DEF LookForFixture, ReadPin, ComparePin
<1>2. job[e].do = "enable" /\ Of(e) \in Providers /\ Does(e, "enable")
  BY <1>1 DEF LookForFixture, ReadPin, ComparePin, LinesOf, Named, Of, Does
<1>3. CASE Leave(e)
  BY <1>3, LeaveSure
<1>4. CASE ~Leave(e) /\ LookForFixture(e)
  <2>1. line[e] = "look" /\ fixture[Of(e)] # Nothing
        /\ Goto(e, "pinned") /\ UNCHANGED <<files, memory, reads, overtaken, starts, loosened>>
    BY <1>4 DEF LookForFixture
  <2>2. /\ line'[e] = "pinned" /\ job'[e] = job[e] /\ config' = config /\ fixture' = fixture
        /\ reads' = reads /\ overtaken' = overtaken /\ Of(e)' = Of(e) /\ Does(e, "enable")'
    BY <1>2, <2>1, GotoTyped DEF Lines, files, memory, Of, Does
  <2> QED
    BY <1>2, <2>1, <2>2 DEF Sure, FixtureThere, ConfigSure, CheckSure, PinsSure
<1>5. CASE ~Leave(e) /\ ReadPin(e)
  <2>1. /\ line[e] = "pinned"
        /\ Goto(e, "compare") /\ Hold(e, manifest[Of(e)]) /\ Read(e, "manifest")
        /\ UNCHANGED <<files, job, at, known, overtaken, starts, loosened>>
    BY <1>5 DEF ReadPin
  <2>2. /\ line'[e] = "compare" /\ job'[e] = job[e] /\ config' = config /\ fixture' = fixture
        /\ reads'[e] = reads[e] \cup {"manifest"} /\ overtaken' = overtaken /\ Of(e)' = Of(e)
        /\ Does(e, "enable")' /\ held'[e] = manifest[Of(e)] /\ manifest' = manifest
    BY <1>2, <2>1, GotoTyped, ReadTyped, HoldTyped DEF Lines, files, Of, Does
  <2> QED
    BY <1>2, <2>1, <2>2 DEF Sure, FixtureThere, ConfigSure, CheckSure, PinsSure
<1>6. CASE ~Leave(e) /\ ComparePin(e)
  <2>1. /\ line[e] = "compare" /\ held[e] = PinOf(fixture[Of(e)])
        /\ Goto(e, "edit") /\ Read(e, Of(e)) /\ UNCHANGED <<files, memory, overtaken, starts, loosened>>
    BY <1>6 DEF ComparePin
  <2>2. /\ line'[e] = "edit" /\ job'[e] = job[e] /\ config' = config /\ fixture' = fixture
        /\ reads'[e] = reads[e] \cup {Of(e)} /\ overtaken' = overtaken /\ Of(e)' = Of(e)
        /\ Does(e, "enable")' /\ manifest' = manifest
    BY <1>2, <2>1, GotoTyped, ReadTyped DEF Lines, files, memory, Of, Does
  <2>3. ASSUME e \notin overtaken PROVE ConfigSure(e)' /\ CheckSure(e)'
    <3>1. ConfigSure(e) /\ CheckSure(e) /\ FixtureThere(e)
      BY <2>3 DEF Sure
    <3>2. ConfigSure(e)'
      BY <1>2, <2>1, <2>2, <3>1 DEF ConfigSure
    <3>3. "manifest" \in reads[e] /\ held[e] = manifest[Of(e)] /\ fixture[Of(e)] # Nothing
      BY <2>1, <3>1 DEF CheckSure, FixtureThere
    <3>4. CheckSure(e)'
      BY <2>1, <2>2, <3>3 DEF CheckSure, AsPinned, PinOf
    <3> QED
      BY <3>2, <3>4
  <2> QED
    BY <2>2, <2>3 DEF Sure, FixtureThere, PinsSure
<1> QED
  BY <1>3, <1>4, <1>5, <1>6

LEMMA PageActsSure ==
  ASSUME WellTyped, NEW e \in Programs,
         ChooseProviders(e) \/ ResolveAgain(e) \/ Scaffold(e) \/ WritePlaceholder(e)
         \/ UnknownProvider(e) \/ Fetch(e) \/ WritePage(e) \/ NextProvider(e) \/ StorePins(e) \/ Kill(e)
  PROVE  Sure(e)'
<1>1. Named(job[e]) /\ job[e] # Nothing /\ line[e] \in LinesOf[job[e].do] /\ line[e] # "idle"
  BY Running DEF ChooseProviders, ResolveAgain, Scaffold, WritePlaceholder, UnknownProvider, Fetch,
                 WritePage, NextProvider, StorePins, Kill
<1>2. CASE Leave(e)
  BY <1>2, LeaveSure
<1>3. CASE ~Leave(e) /\ ChooseProviders(e)
  <2>1. line[e] = "choose" /\ line'[e] = "again" /\ job'[e] = job[e]
    BY <1>3, GotoTyped DEF ChooseProviders, Lines
  <2> QED
    BY <1>1, <2>1, FreeSure DEF LinesOf, Named
<1>4. CASE ~Leave(e) /\ Scaffold(e)
  <2>1. job[e].do = "scaffold" /\ line'[e] = "write" /\ job'[e] = job[e]
    BY <1>4, GotoTyped DEF Scaffold, Lines, memory, Does
  <2> QED
    BY <1>1, <2>1, FreeSure
<1>5. CASE WritePlaceholder(e)
  BY <1>5, EndSure DEF WritePlaceholder, Goto, WellTyped, FilesTypeOK
<1>6. CASE Fetch(e)
  <2>1. line[e] = "fetch" /\ job'[e] = job[e]
    BY <1>6 DEF Fetch
  <2>2. job[e].do = "update"
    BY <1>1, <2>1 DEF Named, LinesOf
  <2>3. \/ \E page \in Pages : Hold(e, page) /\ Goto(e, "write")
        \/ Hold(e, Nothing) /\ Goto(e, "hash")
        \/ Goto(e, "next")
    BY <1>6 DEF Fetch
  <2>4. line'[e] \in {"write", "next"} \/ (line'[e] = "hash" /\ held'[e] = Nothing)
    BY <2>3, GotoTyped, HoldTyped DEF Lines
  <2> QED
    BY <1>1, <2>1, <2>2, <2>4, FreeSure
<1>7. CASE WritePage(e)
  <2>1. job[e].do = "update" /\ job[e].out \in Providers
    BY <1>1, <1>7 DEF WritePage, Does, Named
  <2>2. /\ fixture' = [fixture EXCEPT ![job[e].out] = held[e]] /\ UNCHANGED memory
        /\ Read(e, job[e].out) /\ Goto(e, "hash")
    BY <1>7 DEF WritePage
  <2>3. /\ line'[e] = "hash" /\ job'[e] = job[e] /\ held'[e] = held[e]
        /\ job[e].out \in reads'[e] /\ fixture'[job[e].out] = held[e]
    BY <2>1, <2>2, GotoTyped, ReadTyped DEF memory, Lines, WellTyped, FilesTypeOK
  <2> QED
    BY <2>1, <2>3 DEF Sure, FixtureThere, ConfigSure, CheckSure, PinsSure, Does
<1>8. CASE ~Leave(e) /\ NextProvider(e)
  <2>1. job[e].do = "update" /\ line'[e] = "fetch" /\ job'[e] = job[e]
    BY <1>8, GotoTyped DEF NextProvider, Does, Lines
  <2> QED
    BY <1>1, <2>1, FreeSure
<1>9. CASE StorePins(e)
  <2>1. line[e] = "repin" /\ line'[e] = "next" /\ job'[e] = job[e]
    BY <1>9, GotoTyped DEF StorePins, memory, Lines
  <2>2. job[e].do # "enable"
    BY <1>1, <2>1 DEF LinesOf, Named
  <2> QED
    BY <1>1, <2>1, <2>2, FreeSure
<1> QED
  BY <1>2, <1>3, <1>4, <1>5, <1>6, <1>7, <1>8, <1>9 DEF ResolveAgain, UnknownProvider, Kill

\* The pin that HashFile takes is one of the page it names.
LEMMA PinActsSure ==
  ASSUME WellTyped, NEW e \in Programs, Sure(e), HashFile(e) \/ ReadPins(e)
  PROVE  Sure(e)'
<1>1. Named(job[e]) /\ job[e] # Nothing /\ line[e] \in LinesOf[job[e].do] /\ line[e] # "idle"
      /\ Path(e) \in Providers
  BY Running DEF HashFile, ReadPins
<1>2. job[e].do \in {"pin", "update"}
  BY <1>1 DEF HashFile, ReadPins, LinesOf, Named
<1>3. CASE HashFile(e)
  <2>1. CASE Leave(e)
    BY <2>1, LeaveSure
  <2>2. CASE ~Leave(e)
    <3> DEFINE To == IF Does(e, "update") /\ ~job[e].pins THEN "next" ELSE "pins"
    <3>1. /\ line[e] = "hash" /\ Hold(e, Hashed(e)) /\ Goto(e, To) /\ Read(e, Path(e))
          /\ UNCHANGED <<files, job, at, known, overtaken, starts, loosened>>
          /\ ~(Does(e, "pin") /\ fixture[Of(e)] = Nothing)
      BY <1>3, <2>2 DEF HashFile
    <3>2. To \in {"next", "pins"}
      OBVIOUS
    <3> HIDE DEF To
    <3>3. /\ line'[e] \in {"next", "pins"} /\ held'[e] = Hashed(e) /\ job'[e] = job[e]
          /\ fixture' = fixture /\ overtaken' = overtaken /\ Path(e) \in reads'[e] /\ Path(e)' = Path(e)
      <4>1. line'[e] \in {"next", "pins"} /\ held'[e] = Hashed(e)
        BY <3>1, <3>2, GotoTyped, HoldTyped DEF Lines
      <4>2. Path(e) \in reads'[e]
        BY <1>1, <3>1 DEF Read, WellTyped, FilesTypeOK
      <4> QED
        BY <3>1, <4>1, <4>2 DEF files, Path, Does, Of
    <3>4. ASSUME e \notin overtaken PROVE TakenFrom(Hashed(e), fixture[Path(e)])
      <4>1. CASE Does(e, "update")
        <5>1. Path(e) = job[e].out /\ Hashed(e) = [sha |-> fixture[job[e].out], bytes |-> held[e]]
          BY <4>1 DEF Path, Hashed
        <5>2. held[e] # Nothing => held[e] = fixture[job[e].out]
          BY <3>1, <3>4, <4>1 DEF Sure, PinsSure
        <5> QED
          BY <5>1, <5>2 DEF TakenFrom, PinOf
      <4>2. CASE ~Does(e, "update")
        BY <1>1, <1>2, <3>1, <4>2 DEF Does, Path, Hashed, TakenFrom
      <4> QED
        BY <4>1, <4>2
    <3>5. e \notin overtaken' => PinsSure(e)'
      BY <3>3, <3>4 DEF PinsSure
    <3> QED
      BY <1>1, <1>2, <3>3, <3>5 DEF Sure, FixtureThere, ConfigSure, CheckSure, Does
  <2> QED
    BY <2>1, <2>2
<1>4. CASE ReadPins(e)
  <2>1. /\ line[e] = "pins" /\ Hold(e, Repinned(e)) /\ Read(e, "manifest") /\ Goto(e, "repin")
        /\ UNCHANGED <<files, job, at, known, starts, overtaken, loosened>>
    BY <1>4 DEF ReadPins
  <2>2. /\ line'[e] = "repin" /\ held'[e] = Repinned(e) /\ job'[e] = job[e] /\ Path(e)' = Path(e)
        /\ fixture' = fixture /\ manifest' = manifest /\ overtaken' = overtaken
        /\ reads'[e] = reads[e] \cup {"manifest"}
    BY <2>1, GotoTyped, ReadTyped, HoldTyped DEF Lines, files, Path, Does, Of
  <2>3. Repinned(e)[Path(e)] = held[e] /\ \A p \in Providers \ {Path(e)} : Repinned(e)[p] = manifest[p]
    BY <1>1 DEF Repinned, WellTyped, FilesTypeOK
  <2>4. e \notin overtaken' => PinsSure(e)'
    BY <2>1, <2>2, <2>3 DEF Sure, PinsSure
  <2> QED
    BY <1>1, <1>2, <2>2, <2>4 DEF Sure, FixtureThere, ConfigSure, CheckSure, Does
<1> QED
  BY <1>3, <1>4

\* Every step keeps what every program may rely on.
LEMMA StepSure ==
  ASSUME WellTyped, \A o \in Programs : Sure(o), NEW e \in Programs, Acts(e)
  PROVE  \A o \in Programs : Sure(o)'
<1>1. Sure(e)'
  BY StartSure, ConfigActsSure, CheckActsSure, PageActsSure, PinActsSure DEF Acts
<1> QED
  BY <1>1, OthersSure

-----------------------------------------------------------------------------
(* Pins that do not hold.                                                  *)

\* Program e is at the path p: it has written the page, and will pin it.
Brings(e, p) ==
    /\ Does(e, "update") /\ job[e].out = p /\ job[e].pins /\ fixture[p] # Nothing
    /\ \/ line[e] = "hash" /\ held[e] = fixture[p]
       \/ line[e] = "pins" /\ held[e] = PinOf(fixture[p])
       \/ line[e] = "repin" /\ held[e][p] = PinOf(fixture[p])

Broken(p) == manifest[p] # Nothing /\ ~AsPinned(p) /\ p \notin loosened

BrokenIsBrought == \A p \in Providers : Broken(p) => \E e \in Programs : Brings(e, p)

\* Who does not move goes on bringing the page that is there.
LEMMA OthersBring ==
  ASSUME WellTyped, NEW e \in Programs, Acts(e), NEW o \in Programs, o # e, NEW p \in Providers,
         Brings(o, p), fixture'[p] = fixture[p]
  PROVE  Brings(o, p)'
<1>1. line'[o] = line[o] /\ job'[o] = job[o] /\ held'[o] = held[o]
  BY AllApart DEF Apart
<1> QED
  BY <1>1 DEF Brings, Does

\* A pin that was broken before and is so still, where e brings nothing or
\* goes on bringing it.
LEMMA StillBrought ==
  ASSUME WellTyped, BrokenIsBrought, NEW e \in Programs, Acts(e), NEW p \in Providers,
         Broken(p), fixture'[p] = fixture[p], Brings(e, p) => Brings(e, p)'
  PROVE  \E o \in Programs : Brings(o, p)'
<1>1. PICK o \in Programs : Brings(o, p)
  BY DEF BrokenIsBrought
<1>2. CASE o = e
  BY <1>1, <1>2
<1>3. CASE o # e
  BY <1>1, <1>3, OthersBring
<1> QED
  BY <1>2, <1>3

LEMMA WritersBring ==
  ASSUME WellTyped, BrokenIsBrought, NEW e \in Programs, Acts(e), Writes(e), Sure(e),
         NEW p \in Providers, Broken(p)'
  PROVE  \E o \in Programs : Brings(o, p)'
<1>1. Named(job[e]) /\ job[e] # Nothing /\ line[e] # "idle" /\ Path(e) \in Providers
  BY Running DEF Writes, StoreConfig, Scaffold, WritePlaceholder, WritePage, StorePins
<1>2. CASE StoreConfig(e)
  <2>1. Broken(p) /\ fixture'[p] = fixture[p] /\ ~Brings(e, p)
    BY <1>2 DEF StoreConfig, Broken, AsPinned, Brings
  <2> QED
    BY <2>1, StillBrought
<1>3. CASE Scaffold(e) \/ WritePlaceholder(e)
  <2>1. line[e] \in {"look", "write"} /\ manifest' = manifest
        /\ (p \notin loosened' => fixture'[p] = fixture[p] /\ p \notin loosened)
    BY <1>3 DEF Scaffold, WritePlaceholder, WellTyped, FilesTypeOK
  <2>2. Broken(p) /\ fixture'[p] = fixture[p] /\ ~Brings(e, p)
    BY <2>1 DEF Broken, AsPinned, Brings
  <2> QED
    BY <2>2, StillBrought
<1>4. CASE WritePage(e)
  <2>1. /\ line[e] = "write" /\ Does(e, "update") /\ job[e].out \in Providers /\ held[e] \in Pages
    BY <1>1, <1>4 DEF WritePage, Does, Named, WellTyped, HeldType
  <2>2. /\ fixture' = [fixture EXCEPT ![job[e].out] = held[e]]
        /\ loosened' = IF job[e].pins THEN loosened ELSE loosened \cup {job[e].out}
        /\ line'[e] = "hash" /\ job'[e] = job[e] /\ held'[e] = held[e] /\ manifest' = manifest
    BY <1>4, GotoTyped DEF WritePage, memory, Lines
  <2>3. CASE p = job[e].out
    <3>1. job[e].pins /\ fixture'[p] = held[e]
      BY <2>1, <2>2, <2>3 DEF Broken, WellTyped, FilesTypeOK
    <3>2. Brings(e, p)'
      BY <2>1, <2>2, <2>3, <3>1 DEF Brings, Does
    <3> QED
      BY <3>2
  <2>4. CASE p # job[e].out
    <3>1. fixture'[p] = fixture[p]
      BY <2>1, <2>2, <2>4 DEF WellTyped, FilesTypeOK
    <3>2. Broken(p) /\ ~Brings(e, p)
      BY <2>1, <2>2, <3>1 DEF Broken, AsPinned, Brings
    <3> QED
      BY <3>1, <3>2, StillBrought
  <2> QED
    BY <2>3, <2>4
<1>5. CASE StorePins(e)
  <2>1. /\ line[e] = "repin" /\ manifest' = held[e] /\ fixture' = fixture
        /\ loosened' = IF Unsafe(e) THEN loosened \cup {o \in Providers : held[e][o] # manifest[o]}
                       ELSE loosened \ {Path(e)}
    BY <1>5 DEF StorePins
  <2>2. ~Brings(e, p)
    <3>1. held[e][p] # PinOf(fixture[p]) \/ fixture[p] = Nothing
      BY <2>1 DEF Broken, AsPinned, PinOf
    <3> QED
      BY <2>1, <3>1 DEF Brings
  <2>3. CASE Unsafe(e)
    <3>1. manifest'[p] = manifest[p] /\ p \notin loosened
      BY <2>1, <2>3 DEF Broken
    <3>2. Broken(p)
      BY <2>1, <3>1 DEF Broken, AsPinned
    <3> QED
      BY <2>1, <2>2, <3>2, StillBrought
  <2>4. CASE ~Unsafe(e)
    <3>1. PinsSure(e) /\ held[e][Path(e)].bytes # Nothing
      BY <2>4 DEF Unsafe, Sure
    <3>2. /\ fixture[Path(e)] # Nothing /\ held[e][Path(e)] = PinOf(fixture[Path(e)])
          /\ \A o \in Providers \ {Path(e)} : held[e][o] = manifest[o]
      BY <2>1, <3>1 DEF PinsSure, TakenFrom
    <3>3. p # Path(e)
      BY <2>1, <3>2 DEF Broken, AsPinned, PinOf
    <3>4. manifest'[p] = manifest[p] /\ p \notin loosened
      BY <2>1, <2>4, <3>2, <3>3 DEF Broken
    <3>5. Broken(p)
      BY <2>1, <3>4 DEF Broken, AsPinned
    <3> QED
      BY <2>1, <2>2, <3>5, StillBrought
  <2> QED
    BY <2>3, <2>4
<1> QED
  BY <1>2, <1>3, <1>4, <1>5 DEF Writes

LEMMA StepBrings ==
  ASSUME WellTyped, BrokenIsBrought, NEW e \in Programs, Acts(e), Sure(e)
  PROVE  BrokenIsBrought'
<1> SUFFICES ASSUME NEW p \in Providers, Broken(p)' PROVE \E o \in Programs : Brings(o, p)'
  BY DEF BrokenIsBrought
<1>1. CASE Writes(e)
  BY <1>1, WritersBring
<1>2. CASE ~Writes(e)
  <2>1. fixture' = fixture /\ manifest' = manifest
    BY <1>2, AllApart DEF files
  <2>2. loosened \subseteq loosened'
    BY <1>2 DEF Acts, Writes, Start, AppendEntry, Resolve, LookForFixture, ReadPin, ComparePin,
                EditEntry, ChooseProviders, ResolveAgain, UnknownProvider, Fetch, HashFile, ReadPins,
                NextProvider, Kill
  <2>3. Broken(p)
    BY <2>1, <2>2 DEF Broken, AsPinned
  <2>4. ASSUME Brings(e, p) PROVE Brings(e, p)'
    <3>1. /\ line[e] \in {"hash", "pins", "repin"} /\ Does(e, "update") /\ job[e].out = p
          /\ job[e].pins /\ fixture[p] # Nothing /\ Path(e) = p
      BY <2>4 DEF Brings, Path
    <3>2. HashFile(e) \/ ReadPins(e) \/ Kill(e)
      BY <1>2, <3>1 DEF Acts, Writes, Start, AppendEntry, Resolve, LookForFixture, ReadPin, ComparePin,
                EditEntry, ChooseProviders, ResolveAgain, UnknownProvider, Fetch, StorePins,
                NextProvider
    <3>3. CASE HashFile(e)
      <4>1. ~Does(e, "pin") /\ line[e] = "hash"
        BY <3>1, <3>3 DEF Does, HashFile
      <4>2. Hold(e, Hashed(e)) /\ Goto(e, "pins") /\ job'[e] = job[e]
        BY <3>1, <3>3, <4>1 DEF HashFile
      <4>3. line'[e] = "pins" /\ held'[e] = Hashed(e)
        BY <4>2, GotoTyped, HoldTyped DEF Lines
      <4>4. held[e] = fixture[p]
        BY <2>4, <4>1 DEF Brings
      <4>5. Hashed(e) = PinOf(fixture[p])
        BY <3>1, <4>4 DEF Hashed, PinOf
      <4> QED
        BY <2>1, <3>1, <4>2, <4>3, <4>5 DEF Brings, Does
    <3>4. CASE ReadPins(e)
      <4>1. line[e] = "pins" /\ Hold(e, Repinned(e)) /\ Goto(e, "repin") /\ job'[e] = job[e]
        BY <3>4 DEF ReadPins
      <4>2. line'[e] = "repin" /\ held'[e] = Repinned(e)
        BY <4>1, GotoTyped, HoldTyped DEF Lines
      <4>3. held[e] = PinOf(fixture[p])
        BY <2>4, <4>1 DEF Brings
      <4>4. Repinned(e)[p] = PinOf(fixture[p])
        BY <3>1, <4>3 DEF Repinned, WellTyped, FilesTypeOK
      <4> QED
        BY <2>1, <3>1, <4>1, <4>2, <4>4 DEF Brings, Does
    <3>5. CASE Kill(e)
      BY <3>1, <3>5 DEF Kill, Broken
    <3> QED
      BY <3>2, <3>3, <3>4, <3>5
  <2> QED
    BY <2>1, <2>3, <2>4, StillBrought
<1> QED
  BY <1>1, <1>2

-----------------------------------------------------------------------------
(* The invariant, and what follows from it.                                *)

Grounds == WellTyped /\ (\A e \in Programs : Sure(e)) /\ BrokenIsBrought

LEMMA GroundsInit == FilesInit => Grounds
<1> SUFFICES ASSUME FilesInit PROVE Grounds
  OBVIOUS
<1>1. \A e \in Programs : Sure(e)
  BY DEF FilesInit, Sure, FixtureThere, ConfigSure, CheckSure, PinsSure, Does
<1>2. BrokenIsBrought
  BY DEF FilesInit, Immutable, BrokenIsBrought, Broken
<1> QED
  BY <1>1, <1>2, FilesInitTyped DEF Grounds

LEMMA GroundsStep ==
  ASSUME Grounds, NEW e \in Programs, Acts(e)
  PROVE  Grounds'
  BY StepTyped, StepSure, StepBrings DEF Grounds

LEMMA GroundsStutter ==
  ASSUME Grounds, UNCHANGED fileVars
  PROVE  Grounds'
<1>1. WellTyped'
  BY TypesStutter DEF Grounds
<1>2. /\ config' = config /\ fixture' = fixture /\ manifest' = manifest /\ job' = job /\ line' = line
      /\ held' = held /\ reads' = reads /\ overtaken' = overtaken /\ loosened' = loosened
  BY DEF fileVars, files, memory
<1>3. \A e \in Programs : Sure(e)'
  BY <1>2 DEF Grounds, Sure, FixtureThere, ConfigSure, CheckSure, PinsSure, Does, Of, Path, AsPinned
<1>4. BrokenIsBrought'
  BY <1>2 DEF Grounds, BrokenIsBrought, Broken, Brings, AsPinned, Does
<1> QED
  BY <1>1, <1>3, <1>4 DEF Grounds

LEMMA GroundsHold == FilesSpec => []Grounds
<1>1. Grounds /\ [FilesNext]_fileVars => Grounds'
  BY GroundsStep, GroundsStutter, NextIsActs
<1> QED
  BY <1>1, GroundsInit, PTL DEF FilesSpec

\* The files and what each program holds stay in their types.
THEOREM FilesTypeCorrect == FilesSpec => []FilesTypeOK
<1>1. Grounds => FilesTypeOK
  BY DEF Grounds, WellTyped
<1> QED
  BY <1>1, GroundsHold, PTL

\* At any time, for any number of programs that fetch, scaffold and pin: a page is
\* unlike its pin only while an update is between the two, or after one of the
\* known ways to part them.
THEOREM PinsBreakOnlySo == FilesSpec => []PinsBreakInKnownWays
<1>1. Grounds => PinsBreakInKnownWays
  BY DEF Grounds, BrokenIsBrought, Broken, Brings, PinsBreakInKnownWays
<1> QED
  BY <1>1, GroundsHold, PTL

\* The step that ends a store is the store, or a kill.
LEMMA EndOfStore ==
  ASSUME WellTyped, NEW e \in Programs, NEW o \in Programs, Acts(o), line[e] = "store", line'[e] # line[e]
  PROVE  o = e /\ (StoreConfig(e) \/ Kill(e))
<1>1. o = e
  BY AllApart DEF Apart
<1> QED
  BY <1>1 DEF Acts, Start, AppendEntry, Resolve, LookForFixture, ReadPin, ComparePin, EditEntry,
              ChooseProviders, ResolveAgain, Scaffold, WritePlaceholder, UnknownProvider, Fetch,
              WritePage, HashFile, ReadPins, StorePins, NextProvider

\* Who stores goes by an entry of its own, to append or to enable.
LEMMA Storing ==
  ASSUME WellTyped, NEW e \in Programs, StoreConfig(e)
  PROVE  /\ line[e] = "store" /\ config' = held[e] /\ fixture' = fixture /\ manifest' = manifest
         /\ Of(e) \in Providers /\ (Does(e, "append") \/ Does(e, "enable"))
<1>1. Named(job[e]) /\ job[e] # Nothing /\ line[e] \in LinesOf[job[e].do] /\ line[e] = "store"
  BY Running DEF StoreConfig
<1>2. job[e].do \in {"append", "enable"} /\ Of(e) \in Providers
  BY <1>1 DEF LinesOf, Named, Of
<1> QED
  BY <1>1, <1>2 DEF StoreConfig, Does

\* Provider enable turns a provider on over a page that is not as pinned only when
\* somebody wrote a file it had gone by.
THEOREM EnabledAreChecked == FilesSpec => EnabledOnlyChecked
<1> DEFINE A == \A e \in Programs, p \in Providers :
          line[e] = "store" /\ line'[e] = "idle" /\ config'[p] # Nothing /\ config[p] # Nothing
             /\ config'[p].enabled /\ ~config[p].enabled /\ e \notin overtaken
          => (config[p].needs => AsPinned(p))
<1>1. ASSUME Grounds, FilesNext PROVE A
  <2> SUFFICES ASSUME NEW e \in Programs, NEW p \in Providers,
                      line[e] = "store", line'[e] = "idle", config'[p] # Nothing, config[p] # Nothing,
                      config'[p].enabled, ~config[p].enabled, e \notin overtaken, config[p].needs
               PROVE  AsPinned(p)
    OBVIOUS
  <2>1. PICK o \in Programs : Acts(o)
    BY <1>1, NextIsActs
  <2>2. StoreConfig(e)
    <3>1. StoreConfig(e) \/ Kill(e)
      BY <1>1, <2>1, EndOfStore DEF Grounds
    <3> QED
      BY <3>1 DEF Kill, files
  <2>3. /\ config' = held[e] /\ (Does(e, "append") \/ Does(e, "enable"))
    BY <1>1, <2>2, Storing DEF Grounds
  <2>4. ConfigSure(e) /\ CheckSure(e)
    BY <1>1 DEF Grounds, Sure
  <2>5. p = Of(e)
    BY <2>3, <2>4 DEF ConfigSure
  <2>6. Does(e, "enable")
    BY <2>3, <2>4, <2>5 DEF ConfigSure
  <2> QED
    BY <2>4, <2>5, <2>6 DEF CheckSure
<1>2. Grounds /\ [FilesNext]_fileVars => [A]_fileVars
  BY <1>1
<1> QED
  BY <1>2, GroundsHold, PTL DEF FilesSpec, EnabledOnlyChecked

\* An edit of the configuration is taken back, and a pin replaced by a program that
\* does not pin that page, only by one that was overtaken after its own read.
THEOREM EditsAreKept == FilesSpec => EditsLostOnlyToRaces
<1> DEFINE A == \A e \in Programs : line'[e] # line[e] /\ e \notin overtaken =>
          \A p \in Providers :
              /\ ~Undone(p, config, config')
              /\ manifest'[p] # manifest[p] => line[e] = "repin" /\ Path(e) = p
<1>1. ASSUME Grounds, FilesNext PROVE A
  <2> SUFFICES ASSUME NEW e \in Programs, line'[e] # line[e], e \notin overtaken, NEW p \in Providers
               PROVE  /\ ~Undone(p, config, config')
                      /\ manifest'[p] # manifest[p] => line[e] = "repin" /\ Path(e) = p
    OBVIOUS
  <2>1. PICK o \in Programs : Acts(o)
    BY <1>1, NextIsActs
  <2>2. WellTyped /\ Sure(e)
    BY <1>1 DEF Grounds
  <2>3. o = e
    BY <2>1, <2>2, AllApart DEF Apart
  <2>4. ASSUME config' = config PROVE ~Undone(p, config, config')
    BY <2>4 DEF Undone
  <2>5. CASE StoreConfig(e)
    <3>1. /\ line[e] = "store" /\ config' = held[e] /\ manifest' = manifest
          /\ Of(e) \in Providers /\ (Does(e, "append") \/ Does(e, "enable"))
      BY <2>2, <2>5, Storing
    <3>2. ConfigSure(e)
      BY <2>2 DEF Sure
    <3>3. CASE p # Of(e)
      BY <3>1, <3>2, <3>3 DEF ConfigSure, Undone
    <3>4. CASE p = Of(e) /\ Does(e, "append")
      BY <3>1, <3>2, <3>4 DEF ConfigSure, Undone
    <3>5. CASE p = Of(e) /\ Does(e, "enable")
      <4>1. config'[p] = [config[p] EXCEPT !.enabled = TRUE] /\ config[p] # Nothing
        BY <3>1, <3>2, <3>5 DEF ConfigSure
      <4>2. config[p] \in Entry
        BY <2>2, <4>1 DEF WellTyped, FilesTypeOK
      <4>3. config'[p] \in Entry /\ config'[p].enabled
        BY <4>1, <4>2 DEF Entry
      <4> QED
        BY <3>1, <4>3 DEF Undone
    <3> QED
      BY <3>1, <3>3, <3>4, <3>5
  <2>6. CASE StorePins(e)
    <3>1. line[e] = "repin" /\ manifest' = held[e] /\ config' = config
      BY <2>6 DEF StorePins
    <3>2. PinsSure(e)
      BY <2>2 DEF Sure
    <3>3. p # Path(e) => manifest'[p] = manifest[p]
      BY <3>1, <3>2 DEF PinsSure
    <3> QED
      BY <2>4, <3>1, <3>3
  <2>7. CASE Scaffold(e) \/ WritePlaceholder(e) \/ WritePage(e)
    BY <2>4, <2>7 DEF Scaffold, WritePlaceholder, WritePage
  <2>8. CASE ~Writes(e)
    BY <2>1, <2>2, <2>3, <2>4, <2>8, AllApart DEF files
  <2> QED
    BY <2>5, <2>6, <2>7, <2>8 DEF Writes
<1>2. Grounds /\ [FilesNext]_fileVars => [A]_fileVars
  BY <1>1
<1> QED
  BY <1>2, GroundsHold, PTL DEF FilesSpec, EditsLostOnlyToRaces
=============================================================================
