------------------------------ MODULE Scoring ------------------------------
(***************************************************************************)
(* scripts/score_jobs.py and semantic/boost.py as operators: what they do  *)
(* to one list of postings, on integers where the code has floats with two *)
(* decimals.  JobStages runs them between the other stages.                *)
(*                                                                         *)
(* A posting is a record: the `id` and the `url` it is known by (no id is  *)
(* None), the points of the rules that its title and its text match,       *)
(* whether the text asks for a PhD, the role band, the location ("us",     *)
(* "abroad" or "silent"), the similarity to the profile in hundredths, the *)
(* relevance, the length of the text, enrich_status, and the match score   *)
(* of the AI payload (None without one).                                   *)
(***************************************************************************)
EXTENDS Integers, Sequences, FiniteSets, Functions, SequencesExt

CONSTANTS
    None,
    Names,                              \* identifiers in the order of their strings
    MaxBoost, MinSimilarity, TopK,      \* SEMANTIC_*
    AiWeight,                           \* ai_blend.weight, in hundredths
    MinScore                            \* --min_score

Identifiers == {Names[n] : n \in DOMAIN Names}

ASSUME ScoringAssumption ==
    /\ Names \in Seq(Identifiers) /\ None \notin Identifiers
    /\ \A m, n \in DOMAIN Names : Names[m] = Names[n] => m = n
    /\ MaxBoost \in Nat /\ MinSimilarity \in 0 .. 99 /\ TopK \in Nat \ {0}
    /\ AiWeight \in 0 .. 100 /\ MinScore \in Int

\* round(n / d) of Python: halves go to the even neighbour.
RoundDiv(n, d) ==
    LET floor == n \div d
        twice == 2 * (n % d)
    IN IF twice > d \/ (twice = d /\ floor % 2 = 1) THEN floor + 1 ELSE floor

Clamp(score) == IF score < 0 THEN 0 ELSE IF score > 100 THEN 100 ELSE score

-----------------------------------------------------------------------------
(* score_job.                                                              *)

TitleOnly(j) == j.status = "unavailable" \/ j.chars = 0
Rich(j) == ~TitleOnly(j) /\ j.chars >= 200

\* The rule phd_required and the risk penalty count a quarter on a short text.
PhdRule(j) == IF ~j.phd \/ TitleOnly(j) THEN 0 ELSE IF Rich(j) THEN -4 ELSE -1
PhdPenalty(j) == IF ~j.phd \/ TitleOnly(j) THEN 0 ELSE IF Rich(j) THEN -8 ELSE -2

RulePoints(j) == j.title + PhdRule(j) + IF TitleOnly(j) THEN 0 ELSE j.body

RelevancePoints(j) ==
    CASE j.relevance = "RELEVANT" -> 10
      [] j.relevance = "MAYBE" -> 5
      [] OTHER -> -5

BaseScore(j) ==
    RulePoints(j) + RelevancePoints(j) + IF ~TitleOnly(j) /\ j.chars >= 800 THEN 2 ELSE 0

\* ROLE_BAND_MULTIPLIERS in hundredths and the additive profile weights.
Multiplier(band) ==
    CASE band = "CS_CORE" -> 125 [] band = "CS_ADJACENT" -> 115 [] band = "SOLUTIONS" -> 105
      [] OTHER -> 95
BandBoost(band) ==
    CASE band = "CS_CORE" -> 15 [] band = "CS_ADJACENT" -> 5 [] band = "SOLUTIONS" -> 2
      [] OTHER -> 0

Heuristic(j) ==
    RoundDiv((BaseScore(j) + BandBoost(j.band) + PhdPenalty(j)) * Multiplier(j.band), 100)

\* _blend_with_ai, without its two optional limits.
Blend(heuristic, ai) ==
    IF ai = None THEN heuristic
    ELSE RoundDiv((100 - AiWeight) * heuristic + AiWeight * ai, 100)

FinalScore(j) == Clamp(Blend(Heuristic(j), j.ai))

-----------------------------------------------------------------------------
(* What main keeps of its input.                                           *)

\* --us_only: skipped when no posting has a location, and undone when it
\* would leave nothing.
UsFiltered(js) ==
    IF \E j \in js : j.us # "silent" THEN {j \in js : j.us = "us"} ELSE js
Kept(js, us_only) == IF us_only /\ UsFiltered(js) # {} THEN UsFiltered(js) ELSE js

\* It was undone: fallback_applied in the metadata of the score.
FallsBack(js, us_only) == us_only /\ js # {} /\ UsFiltered(js) = {}

\* Mutant: grouped by address.
GroupByUrl(j) == j.url

\* _dedupe_jobs_for_scoring: the group of a posting, and the job_id it gets.
GroupOf(j) == IF j.id # None THEN j.id ELSE j.url

\* The longest text first, then one that is not unavailable; the remaining
\* keys of the code tell apart postings that are alike here.
Richer(i, j) ==
    \/ i.chars > j.chars
    \/ i.chars = j.chars /\ i.status = "enriched" /\ j.status # "enriched"

Deduped(js) ==
    {CHOOSE j \in {m \in js : GroupOf(m) = g} :
        \A i \in {m \in js : GroupOf(m) = g} : ~Richer(i, j) :
     g \in {GroupOf(m) : m \in js}}

-----------------------------------------------------------------------------
(* The ranking.                                                            *)

Entry(j) == [who |-> j.who, job_id |-> GroupOf(j), url |-> j.url, title |-> j.title, us |-> j.us,
             chars |-> j.chars, status |-> j.status, sim |-> j.sim,
             score |-> FinalScore(j)]

Place(name) == CHOOSE n \in DOMAIN Names : Names[n] = name

Before(e, f) ==
    \/ e.score > f.score
    \/ e.score = f.score /\ Place(e.job_id) < Place(f.job_id)

\* sorted: the nth entry has n - 1 others before it.
RankedBy(entries) ==
    [n \in 1 .. Cardinality(entries) |->
        CHOOSE e \in entries : Cardinality({f \in entries : Before(f, e)}) = n - 1]

\* main, from the input list to the ranking before the boost.
Scored(js, us_only) == RankedBy({Entry(j) : j \in Deduped(Kept(js, us_only))})

\* _semantic_boost, added to a score and rounded.
Boosted(e) ==
    IF e.sim < MinSimilarity THEN Clamp(e.score)
    ELSE LET span == 100 - MinSimilarity IN
         Clamp(RoundDiv(e.score * span + (e.sim - MinSimilarity) * MaxBoost, span))

\* apply_bounded_semantic_boost: the first TopK of the ranking are boosted and
\* the list is ranked again.
Boost(ranking) ==
    RankedBy({[ranking[n] EXCEPT !.score = IF n <= TopK THEN Boosted(ranking[n]) ELSE @] :
              n \in DOMAIN ranking})

\* _shortlist_entries: postings marked "ignore" are left out, those applied
\* to come last.
Shortlist(ranking, ignored, applied) ==
    LET Listed(e) == e.score >= MinScore /\ e.status # "unavailable" /\ e.job_id \notin ignored
        Primary(e) == Listed(e) /\ e.job_id \notin applied
        Late(e) == Listed(e) /\ e.job_id \in applied
    IN SelectSeq(ranking, Primary) \o SelectSeq(ranking, Late)
=============================================================================
