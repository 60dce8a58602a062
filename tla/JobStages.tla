----------------------------- MODULE JobStages -----------------------------
(***************************************************************************)
(* What the stages of a run do to the postings of one provider and one     *)
(* profile: run_classify, run_enrich, run_ai_augment, score_jobs (Scoring) *)
(* and run_ai_job_briefs, one after the other in the daily run, while an   *)
(* operator runs the same programs and enrich_jobs.py by hand on the same  *)
(* files and caches, which no lock guards.  The run compares its ranking   *)
(* with an earlier one (JobDiff) and tells what is new or changed, unless  *)
(* the filter of US postings fell back to all of them; it archives the     *)
(* input that it names in its report, and replay_run.py --recalc ranks     *)
(* that again.                                                             *)
(*                                                                         *)
(* A program is one step, except augmentation, the briefs and the          *)
(* application kit, which go posting by posting through caches that they   *)
(* share.  Files cut short by a kill, reports of failed runs and posts     *)
(* that fail are in DailyRun and not here.                                 *)
(***************************************************************************)
EXTENDS JobDiff

CONSTANTS
    Settings,           \* what a site lists and the API answers, whether the pages of the
                        \* postings may be missing (`bare`), what an operator runs, the options
                        \* and marks of the user, and `passes`, a bound of the model: daily runs
    MaxByHand,          \* bound of the model: programs run by hand
    MaxBriefs, MaxTokens, Budget,     \* AI_JOB_BRIEFS_*
    LiveScore,          \* match score of the skills that a live model answers
    Absent              \* a file that is not there

ASSUME JobStagesAssumption ==
    /\ MaxByHand \in Nat
    /\ MaxBriefs \in Nat /\ Budget \in Nat /\ MaxTokens \in 0 .. Budget
    /\ LiveScore \in 0 .. 100

VARIABLES
    setting,            \* one of Settings, for ever
    raw, labeled, enriched, aiFile,   \* the files between the stages
    ranking, shortlist, \* the ranked file and the shortlist, which gets a section of changes
    fellBack,           \* whether the metadata beside the ranked file say us_only_fallback
    archive,            \* the copy of its scoring input in the directory of the run
    report,             \* the last report: the archived input and the outputs it hashed
    lastRanked, lastSeen,   \* what the runs remember in the state directory
    compared,           \* what the daily run found when it compared, until it has told it
    vectors,            \* the embedding cache: which provider made each vector
    details,            \* what the cache of Ashby answers holds for a posting
    answers,            \* the AI cache
    briefs,             \* the brief cache: "none", "full" or "empty" for a key
    insights,           \* the insights of the last run that made them
    shown,              \* the briefs of the last run of run_ai_job_briefs
    prog, todo, got, out,   \* a process: its program, postings left, what it read, results
    briefing,           \* a process: its run of run_ai_job_briefs
    passes, byHand,     \* counters of the bounds
    touched,            \* observation: a program by hand since the daily run began
    answered,           \* observation: postings whose text the API has sent
    blanked,            \* observation: briefs were made without AI
    told, excused       \* observation: contents that a message named, or need not name

outputs == <<ranking, fellBack, shortlist>>
kept == <<archive, report>>
memory == <<lastRanked, lastSeen, compared>>
files == <<raw, labeled, enriched, aiFile, outputs, kept, memory>>
caches == <<vectors, details, answers, briefs, insights, shown>>
work == <<todo, got, out, briefing>>
process == <<prog, work>>
counters == <<passes, byHand>>
telling == <<told, excused>>
observed == <<touched, answered, blanked, telling>>
vars == <<setting, files, caches, process, counters, observed>>

Procs == {"daily", "operator"}
OfDaily == {"archive", "compare", "insights", "post", "report"}     \* steps of the daily run itself
Programs == {"classify", "enrich", "texts", "augment", "score", "briefs"}
Loops == {"augmenting", "kitting"}

\* What a site lists.
Relevances == {"RELEVANT", "MAYBE", "IRRELEVANT"}
Listing == [id : Identifiers \cup {None}, url : Identifiers, title : Int, body : Int, phd : BOOLEAN,
            band : {"CS_CORE", "CS_ADJACENT", "SOLUTIONS", "OTHER"},
            us : {"us", "abroad", "silent"}, sim : 0 .. 100, label : Relevances, near : BOOLEAN,
            text : Nat, match : 0 .. 100]

\* What the API says of a posting: nothing that is kept, the posting, or the
\* posting with errors beside it.
Replies == {"none", "whole", "errors"}

ASSUME SettingsAssumption ==
    \A s \in Settings :
        /\ s.site \in Seq(Listing)
        /\ s.listings \subseteq SUBSET (DOMAIN s.site)
        /\ s.replies \subseteq Replies
        /\ s.passes \in Nat /\ s.byHand \subseteq Programs

Site == setting.site
Postings == DOMAIN Site
Profile == 0
Vectors == Postings \cup {Profile}      \* the texts that have a vector
Lengths == {0} \cup {Site[p].text : p \in Postings}

\* job_id of the cache and compute_content_hash.
KeyOf(j) == <<Site[j.who].url, Site[j.who].title, j.chars>>
Keys == {<<Site[p].url, Site[p].title, n>> : p \in Postings, n \in Lengths}

\* An entry: who made it, where its skills come from, and whether it has the
\* rules_version of now.  "kit" is what write_application_kit_md stores.
Missing == [by |-> "nobody", skills |-> "none", current |-> FALSE]
Entries == [by : {"stub", "live", "failed", "blank", "kit"}, skills : {"none", "rules", "answer"},
            current : BOOLEAN]

\* _cache_key of a brief: nothing in it says whether AI was enabled.
BriefKeyOf(e) == <<e.job_id, e.chars>>
BriefKeys == {<<GroupOf(Site[p]), n>> : p \in Postings, n \in Lengths}

Labeled == [who : Postings, relevance : Relevances]
Enriched == [who : Postings, relevance : Relevances, chars : Lengths,
             status : {"none", "enriched", "unavailable"}]

NoList == [list |-> <<>>, changes |-> None]

TypeOK ==
    /\ setting \in Settings
    /\ raw \subseteq Postings
    /\ labeled = Absent \/ labeled \subseteq Labeled
    /\ enriched = Absent \/ enriched \subseteq Enriched
    /\ aiFile = Absent \/ \A j \in aiFile : j.ai \in 0 .. 100
    /\ archive = Absent \/ archive \subseteq Enriched
    /\ report = Absent \/ report.input \subseteq Enriched
    /\ \A n \in DOMAIN ranking : ranking[n].score \in 0 .. 100
    /\ fellBack \in BOOLEAN
    /\ vectors \in [Vectors -> {"none", "stub", "openai"}]
    /\ details \in [Postings -> Replies]
    /\ answers \in [Keys -> Entries \cup {Missing}]
    /\ briefs \in [BriefKeys -> {"none", "full", "empty"}]
    /\ prog \in [Procs -> Programs \cup OfDaily \cup Loops \cup {"briefing", "idle"}]
    /\ passes \in 0 .. setting.passes /\ byHand \in 0 .. MaxByHand

Init ==
    /\ setting \in Settings
    /\ raw = {}
    /\ labeled = Absent /\ enriched = Absent /\ aiFile = Absent
    /\ ranking = <<>> /\ fellBack = FALSE /\ shortlist = NoList
    /\ archive = Absent /\ report = Absent
    /\ lastRanked = Absent /\ lastSeen = {} /\ compared = None
    /\ vectors = [v \in Vectors |-> "none"]
    /\ details = [q \in Postings |-> "none"]
    /\ answers = [key \in Keys |-> Missing]
    /\ briefs = [key \in BriefKeys |-> "none"]
    /\ insights = Absent
    /\ shown = [enabled |-> FALSE, results |-> <<>>]
    /\ prog = [p \in Procs |-> "idle"]
    /\ todo = [p \in Procs |-> {}]
    /\ got = [p \in Procs |-> None]
    /\ out = [p \in Procs |-> {}]
    /\ briefing = [p \in Procs |-> None]
    /\ passes = 0 /\ byHand = 0
    /\ touched = FALSE /\ answered = {} /\ blanked = FALSE
    /\ told = {} /\ excused = {}

-----------------------------------------------------------------------------
(* Who runs what.                                                          *)

\* The daily run starts its programs one after the other; the AI stages only
\* with --ai, AI_ENABLED and AI_JOB_BRIEFS_ENABLED.
Following(program) ==
    CASE program = "classify" -> "enrich"
      [] program = "enrich" -> IF setting.ai THEN "augment" ELSE "archive"
      [] program = "augmenting" -> "archive"
      [] program = "archive" -> "score"
      [] program = "score" -> "compare"
      [] program = "compare" ->
            IF setting.insights THEN "insights" ELSE IF setting.briefs THEN "briefs" ELSE "post"
      [] program = "insights" -> IF setting.briefs THEN "briefs" ELSE "post"
      [] program = "briefing" -> "post"
      [] program = "post" -> "report"
      [] OTHER -> "idle"

Done(p) == prog' = [prog EXCEPT ![p] = IF p = "daily" THEN Following(@) ELSE "idle"]

StartDaily(listed) ==
    /\ prog["daily"] = "idle" /\ passes < setting.passes
    /\ passes' = passes + 1
    /\ raw' = listed
    /\ prog' = [prog EXCEPT !["daily"] = "classify"]
    /\ touched' = (prog["operator"] # "idle")
    /\ UNCHANGED <<setting, labeled, enriched, aiFile, outputs, kept, memory, caches, work, byHand,
                   answered, blanked, telling>>

StartByHand(program) ==
    /\ prog["operator"] = "idle" /\ byHand < MaxByHand
    /\ byHand' = byHand + 1
    /\ prog' = [prog EXCEPT !["operator"] = program]
    /\ touched' = TRUE
    /\ UNCHANGED <<setting, files, caches, work, passes, answered, blanked, telling>>

HasInput(p) ==
    IF prog[p] \in {"enrich", "texts"} THEN labeled # Absent
    ELSE IF prog[p] = "score" /\ p = "daily" /\ setting.ai THEN aiFile # Absent
    ELSE prog[p] \in {"augment", "archive", "score"} => enriched # Absent

\* A program without its input exits with an error, and a killed one leaves
\* what it has stored; the daily run ends with it.
Stops(p) ==
    /\ prog[p] # "idle"
    /\ HasInput(p) => setting.kills
    /\ prog' = [prog EXCEPT ![p] = "idle"]
    /\ todo' = [todo EXCEPT ![p] = {}]
    /\ got' = [got EXCEPT ![p] = None]
    /\ out' = [out EXCEPT ![p] = {}]
    /\ briefing' = [briefing EXCEPT ![p] = None]
    /\ compared' = IF p = "daily" THEN None ELSE compared
    /\ UNCHANGED <<setting, raw, labeled, enriched, aiFile, outputs, kept, lastRanked, lastSeen,
                   caches, counters, observed>>

-----------------------------------------------------------------------------
(* run_classify.                                                           *)

\* EMBED_PROVIDER: the daily run has the stub, the operator may have a model.
Embedder(p) == IF p = "daily" THEN "stub" ELSE "openai"

Cached(v, kind) == IF vectors[v] = "none" THEN kind ELSE vectors[v]

\* cosine_similarity with the profile: 0 for vectors of different providers,
\* whose lengths differ.
Similar(q, kind) == Site[q].near /\ Cached(q, kind) = Cached(Profile, kind)

\* label_jobs, the cached vectors, and _reclassify_maybe.  A vector that an
\* overlapping save drops is made again, as if it had not been stored.
Classify(p) ==
    /\ prog[p] = "classify"
    /\ LET kind == Embedder(p)
           maybe == {q \in raw : Site[q].label = "MAYBE"}
       IN /\ labeled' = {[who |-> q, relevance |-> IF q \in maybe /\ Similar(q, kind)
                                                  THEN "RELEVANT" ELSE Site[q].label] : q \in raw}
          /\ vectors' = [v \in DOMAIN vectors |->
                            IF v = Profile \/ v \in maybe THEN Cached(v, kind) ELSE vectors[v]]
    /\ Done(p)
    /\ UNCHANGED <<setting, raw, enriched, aiFile, outputs, kept, memory, details, answers, briefs,
                   insights, shown, work, counters, touched, answered, blanked, telling>>

-----------------------------------------------------------------------------
(* run_enrich of the daily run, and enrich_jobs.py by hand.                *)

\* Enriched postings have the fields of labeled ones, which carry no text.
Enrich(p) ==
    /\ prog[p] = "enrich" /\ HasInput(p)
    /\ enriched' = {[who |-> j.who, relevance |-> j.relevance, chars |-> 0, status |-> "none"] :
                    j \in labeled}
    /\ Done(p)
    /\ UNCHANGED <<setting, raw, labeled, aiFile, outputs, kept, memory, caches, work, counters,
                   observed>>

\* Mutant: what was fetched is not kept.
KeepNothing(reply) == details

\* fetch_job_posting stores what it fetched in the cache of Ashby answers.
Keep(reply) == [q \in Postings |-> IF q \in DOMAIN reply THEN reply[q] ELSE details[q]]

Described(j, found) ==
    [who |-> j.who, relevance |-> j.relevance, chars |-> IF found THEN Site[j.who].text ELSE 0,
     status |-> IF found THEN "enriched" ELSE "unavailable"]

\* Whether a text comes of what the network and the cache have for a posting.
HasText(j, from) == Site[j.who].text > 0 /\ j.who \in from

\* enrich_jobs.main takes only RELEVANT and MAYBE postings.
Wanted == {j \in labeled : j.relevance # "IRRELEVANT"}
Asked == {j.who : j \in Wanted}

\* Each from the cache, from the API or, when that does not answer or has
\* errors, from its page, stored or fetched; a posting that has no text is
\* unavailable.  An answer with errors is stored like any other.  TextsSkipped
\* is the branch without pages.
Texts(p) ==
    /\ prog[p] = "texts" /\ HasInput(p)
    /\ \E reply \in [Asked -> setting.replies] :
         LET whole == {q \in Asked : reply[q] = "whole"} IN
         /\ \A q \in Asked : details[q] # "none" => reply[q] = details[q]
         /\ details' = Keep(reply)
         /\ answered' = answered \cup whole
         /\ \E parsed \in SUBSET (Asked \ whole) :
               enriched' = {Described(j, HasText(j, whole \cup parsed)) : j \in Wanted}
    /\ Done(p)
    /\ UNCHANGED <<setting, raw, labeled, aiFile, outputs, kept, memory, vectors, answers, briefs,
                   insights, shown, work, counters, touched, blanked, telling>>

\* Without one stored page of a posting nothing is asked, not even the cache,
\* and every posting is unavailable.
TextsSkipped(p) ==
    /\ setting.bare
    /\ prog[p] = "texts" /\ HasInput(p) /\ Wanted # {}
    /\ enriched' = {Described(j, FALSE) : j \in Wanted}
    /\ Done(p)
    /\ UNCHANGED <<setting, raw, labeled, aiFile, outputs, kept, memory, caches, work, counters,
                   observed>>

-----------------------------------------------------------------------------
(* run_ai_augment: the stub provider in the daily run, a live one by hand. *)

Live(p) == p = "operator"

\* The input is read whole.
Augment(p) ==
    /\ prog[p] = "augment" /\ HasInput(p)
    /\ prog' = [prog EXCEPT ![p] = "augmenting"]
    /\ todo' = [todo EXCEPT ![p] = enriched]
    /\ UNCHANGED <<setting, files, caches, got, out, briefing, counters, observed>>

\* load_cached_ai for the next posting.
ReadEntry(p) ==
    /\ prog[p] \in Loops /\ got[p] = None /\ todo[p] # {}
    /\ LET j == CHOOSE j \in todo[p] : TRUE IN
          got' = [got EXCEPT ![p] = [job |-> j, entry |-> answers[KeyOf(j)]]]
    /\ UNCHANGED <<setting, files, caches, prog, todo, out, briefing, counters, observed>>

\* What the provider is asked for answers, what the rules find fills the
\* empty skills, and only the stub's answer is stored with their version.
Extracted(by, skills) ==
    [by |-> by, skills |-> IF skills = "none" THEN "rules" ELSE skills, current |-> by = "stub"]

Answered(p) ==
    IF Live(p) THEN {Extracted("live", "answer"), Extracted("live", "none"),
                     Extracted("failed", "none")}
    ELSE {Extracted("stub", "none")}

\* ensure_ai_payload drops what it does not know: a kit becomes a payload with
\* nothing in it.
Ensured(e) == IF e.by = "kit" THEN [by |-> "blank", skills |-> "none", current |-> FALSE] ELSE e

\* _ensure_rules and the backfill: the rules replace the skills of an entry
\* without their version, and of every entry when the stub runs.
WithRules(p, e) ==
    IF Live(p) /\ e.current THEN e ELSE [e EXCEPT !.skills = "rules", !.current = TRUE]

\* Mutant: only the entries of this provider count.
HitOfStub(e) == e.by \notin {"nobody", "failed", "live"}

\* A failure that was stored is an answer like any other.
Hit(e) == e # Missing

\* The entry after this posting, for an entry that was read.
Augmented(p, e) == IF Hit(e) THEN {WithRules(p, Ensured(e))} ELSE Answered(p)

\* compute_match of the skills with the profile.
MatchScore(e, j) ==
    CASE e.skills = "answer" -> LiveScore
      [] e.skills = "rules" -> Site[j.who].match
      [] OTHER -> 0

WithAi(j, ai) ==
    [who |-> j.who, relevance |-> j.relevance, chars |-> j.chars, status |-> j.status, ai |-> ai]

\* The saves of one posting follow each other without another read.
SaveEntry(p) ==
    /\ prog[p] = "augmenting" /\ got[p] # None
    /\ \E e \in Augmented(p, got[p].entry) :
          /\ answers' = [answers EXCEPT ![KeyOf(got[p].job)] = e]
          /\ out' = [out EXCEPT ![p] = @ \cup {WithAi(got[p].job, MatchScore(e, got[p].job))}]
    /\ todo' = [todo EXCEPT ![p] = @ \ {got[p].job}]
    /\ got' = [got EXCEPT ![p] = None]
    /\ UNCHANGED <<setting, files, vectors, details, briefs, insights, shown, prog, briefing,
                   counters, observed>>

WriteAiFile(p) ==
    /\ prog[p] = "augmenting" /\ got[p] = None /\ todo[p] = {}
    /\ aiFile' = out[p]
    /\ out' = [out EXCEPT ![p] = {}]
    /\ Done(p)
    /\ UNCHANGED <<setting, raw, labeled, enriched, outputs, kept, memory, caches, todo, got,
                   briefing, counters, observed>>

-----------------------------------------------------------------------------
(* score_jobs.                                                             *)

\* --prefer_ai takes the AI file, which the daily run asks for with --ai; a
\* posting of the other file has no AI payload.
Input(p) ==
    IF p = "daily" /\ setting.ai THEN aiFile ELSE {WithAi(j, None) : j \in enriched}

\* With the fields of the site that are scored.
Whole(js) ==
    {[who |-> j.who, id |-> Site[j.who].id, url |-> Site[j.who].url, title |-> Site[j.who].title,
      body |-> Site[j.who].body, phd |-> Site[j.who].phd, band |-> Site[j.who].band,
      us |-> Site[j.who].us, sim |-> Site[j.who].sim, relevance |-> j.relevance,
      chars |-> j.chars, status |-> j.status, ai |-> j.ai] : j \in js}

\* A boost that fails leaves the scores alone (apply_bounded_semantic_boost
\* works on copies).
Ranking(js) ==
    LET scored == Scored(Whole(js), setting.us_only) IN
    IF setting.semantic = "on" THEN Boost(scored) ELSE scored

\* _archive_run_inputs: always the enriched file, which with --ai is not the
\* one that is scored.
Archive(p) ==
    /\ prog[p] = "archive" /\ HasInput(p)
    /\ archive' = enriched
    /\ Done(p)
    /\ UNCHANGED <<setting, raw, labeled, enriched, aiFile, outputs, report, memory, caches, work,
                   counters, observed>>

\* Until the daily run appends its section.
ShortlistOf(list, marks) ==
    [list |-> Shortlist(list, marks.ignored, marks.applied), changes |-> None]

\* By hand with --app_kit, for the shortlist, which leaves out what the user has
\* marked.  The metadata are written when the filter falls back and never
\* removed.
Score(p, marks) ==
    /\ prog[p] = "score" /\ HasInput(p)
    /\ ranking' = Ranking(Input(p))
    /\ fellBack' = (fellBack \/ FallsBack(Whole(Input(p)), setting.us_only))
    /\ shortlist' = ShortlistOf(ranking', marks)
    /\ IF p = "daily" THEN Done(p) /\ UNCHANGED todo
       ELSE /\ prog' = [prog EXCEPT ![p] = "kitting"]
            /\ todo' = [todo EXCEPT ![p] = {[who |-> shortlist'.list[n].who,
                                              chars |-> shortlist'.list[n].chars] :
                                             n \in DOMAIN shortlist'.list}]
    /\ UNCHANGED <<setting, raw, labeled, enriched, aiFile, kept, memory, caches, got, out,
                   briefing, counters, observed>>

\* write_application_kit_md: a kit that is there is used, and otherwise the
\* new one takes the place of whatever the entry was.
PutKit(p) ==
    /\ prog[p] = "kitting" /\ got[p] # None
    /\ answers' = [answers EXCEPT ![KeyOf(got[p].job)] =
                      IF got[p].entry.by = "kit" THEN @
                      ELSE [by |-> "kit", skills |-> "none", current |-> FALSE]]
    /\ todo' = [todo EXCEPT ![p] = @ \ {got[p].job}]
    /\ got' = [got EXCEPT ![p] = None]
    /\ UNCHANGED <<setting, files, vectors, details, briefs, insights, shown, prog, out, briefing,
                   counters, observed>>

KitsDone(p) ==
    /\ prog[p] = "kitting" /\ got[p] = None /\ todo[p] = {}
    /\ Done(p)
    /\ UNCHANGED <<setting, files, caches, work, counters, observed>>

-----------------------------------------------------------------------------
(* The comparison.                                                         *)

Members(list) == {list[n] : n \in DOMAIN list}

\* The ranking of the last success or else what the last run left; Absent is
\* a first run.
Earlier == IF report # Absent THEN report.ranked ELSE lastRanked

\* The section says that there is no previous run if the state directory does
\* not know one, whatever the diff has compared with.
Section(c) == IF lastRanked = Absent THEN Absent ELSE ChangesSection(c.prev, c.curr, c.marks)

\* What a run finds when it compares, with the marks that the user has made by
\* now.
Comparison(marks) ==
    [first |-> Earlier = Absent, seen |-> lastSeen, marks |-> marks,
     prev |-> IF Earlier = Absent THEN {} ELSE Members(Earlier),
     list |-> ranking, curr |-> Members(ranking)]

\* The alerts, the index behind them, the diff and the diff report; Suppress is
\* the branch of a filter that fell back.
Compare(p, marks) ==
    /\ prog[p] = "compare" /\ ~fellBack
    /\ compared' = Comparison(marks)
    /\ lastSeen' = LastSeen(Members(ranking))
    /\ shortlist' = [shortlist EXCEPT !.changes = Section(compared')]
    /\ Done(p)
    /\ UNCHANGED <<setting, raw, labeled, enriched, aiFile, ranking, fellBack, kept, lastRanked,
                   caches, work, counters, observed>>

Told(c) ==
    LET message == Message(c.prev, c.curr, c.marks, c.first) IN
    {j \in c.curr : LegacyIdentity(j) \in message.new \cup message.changed}

\* What a message does not name: scores below the level of alerts, postings to
\* ignore, and new ones that the user has applied to.
Silent(c) ==
    {j \in c.curr :
        \/ j.score < MinAlert
        \/ j.job_id \in c.marks.ignored
        \/ j.job_id \in c.marks.applied
           /\ LegacyIdentity(j) \in Added(LegacyIdentity, c.prev, c.curr)}

ContentOf(js) == {<<j.job_id, j.title, j.us, j.chars>> : j \in js}

\* state/last_ranked, and the message after it.
Post(p) ==
    /\ prog[p] = "post"
    /\ lastRanked' = compared.list
    /\ told' = IF setting.webhook THEN told \cup ContentOf(Told(compared)) ELSE told
    /\ excused' = IF setting.webhook THEN excused \cup ContentOf(Silent(compared)) ELSE excused
    /\ compared' = None
    /\ Done(p)
    /\ UNCHANGED <<setting, raw, labeled, enriched, aiFile, outputs, kept, lastSeen, caches, work,
                   counters, touched, answered, blanked>>

\* With us_only_fallback there are only the alerts and their index: no diff, no
\* section, no insights, no briefs and no message, for diff_counts are zero and
\* "suppressed"; state/last_ranked is written all the same.
Suppress(p) ==
    /\ prog[p] = "compare" /\ fellBack
    /\ lastSeen' = LastSeen(Members(ranking))
    /\ lastRanked' = ranking
    /\ excused' = IF setting.webhook THEN excused \cup ContentOf(Members(ranking)) ELSE excused
    /\ prog' = [prog EXCEPT ![p] = "report"]
    /\ UNCHANGED <<setting, raw, labeled, enriched, aiFile, outputs, kept, compared, caches, work,
                   counters, touched, answered, blanked, told>>

-----------------------------------------------------------------------------
(* run_ai_insights.                                                        *)

\* generate_insights, from the ranked file as it is now and the list of the
\* last run, whatever the run has compared with.  A model has no part in it:
\* AI_ENABLED and the key change the status only.
Insights(p) ==
    /\ prog[p] = "insights"
    /\ LET prev == IF lastRanked = Absent THEN {} ELSE Members(lastRanked)
           diff == InsightsDiff(prev, Members(ranking))
       IN insights' = [diff |-> diff, actions |-> Recommended(diff, Members(ranking))]
    /\ Done(p)
    /\ UNCHANGED <<setting, files, vectors, details, answers, briefs, shown, work, counters,
                   observed>>

-----------------------------------------------------------------------------
(* run_ai_job_briefs.                                                      *)

\* estimate_tokens, bounded by --max_tokens_per_job.
Tokens(e) ==
    LET estimate == IF e.chars = 0 THEN 0 ELSE IF e.chars < 4 THEN 1 ELSE e.chars \div 4 IN
    IF estimate > MaxTokens THEN MaxTokens ELSE estimate

Spent(used, e, hit) == IF hit THEN used ELSE used + Tokens(e)

\* Mutant: the test of ai_enabled is the wrong way round.
NewBriefInverted(enabled) == IF enabled THEN "empty" ELSE "full"

NewBrief(enabled) == IF enabled THEN "full" ELSE "empty"

TopOf(list) == SubSeq(list, 1, IF Len(list) < MaxBriefs THEN Len(list) ELSE MaxBriefs)

\* run_ai_job_briefs.main up to the loop of generate_job_briefs; `enabled` is
\* TRUE with both switches and a key.
Briefs(p, enabled) ==
    /\ prog[p] = "briefs" /\ HasInput(p)
    /\ prog' = [prog EXCEPT ![p] = "briefing"]
    /\ briefing' = [briefing EXCEPT ![p] =
                       [enabled |-> enabled, left |-> TopOf(ranking), used |-> 0, results |-> <<>>]]
    /\ blanked' = (blanked \/ ~enabled)
    /\ UNCHANGED <<setting, files, caches, todo, got, out, counters, touched, answered, telling>>

\* One posting: over the budget it is left out, before the cache is asked.  Two
\* processes that find no brief store their own one after the other.
Brief(p) ==
    /\ prog[p] = "briefing" /\ briefing[p].left # <<>>
    /\ LET run == briefing[p]
           e == Head(run.left)
           key == BriefKeyOf(e)
           hit == briefs[key] # "none"
           brief == IF hit THEN briefs[key] ELSE NewBrief(run.enabled)
       IN IF run.used + Tokens(e) > Budget
          THEN /\ briefing' = [briefing EXCEPT ![p] = [run EXCEPT !.left = Tail(run.left)]]
               /\ UNCHANGED briefs
          ELSE /\ briefing' = [briefing EXCEPT ![p] =
                                 [enabled |-> run.enabled, left |-> Tail(run.left),
                                  used |-> Spent(run.used, e, hit),
                                  results |-> Append(run.results, brief)]]
               /\ briefs' = [briefs EXCEPT ![key] = brief]
    /\ UNCHANGED <<setting, files, vectors, details, answers, insights, shown, prog, todo, got, out,
                   counters, observed>>

BriefsDone(p) ==
    /\ prog[p] = "briefing" /\ briefing[p].left = <<>>
    /\ shown' = [enabled |-> briefing[p].enabled, results |-> briefing[p].results]
    /\ briefing' = [briefing EXCEPT ![p] = None]
    /\ Done(p)
    /\ UNCHANGED <<setting, files, vectors, details, answers, briefs, insights, todo, got, out,
                   counters, observed>>

-----------------------------------------------------------------------------
(* The report and replay_run.py --recalc.                                  *)

\* The ranked file is archived as it is now.  `clean` is an observation, and
\* what somebody has ranked by hand meanwhile was never compared.
Report(p) ==
    /\ prog[p] = "report"
    /\ report' = [run |-> passes, input |-> archive, ranked |-> ranking, shortlist |-> shortlist,
                  clean |-> ~touched]
    /\ excused' = IF setting.webhook /\ ranking # lastRanked
                  THEN excused \cup ContentOf(Members(ranking)) ELSE excused
    /\ Done(p)
    /\ UNCHANGED <<setting, raw, labeled, enriched, aiFile, outputs, archive, memory, caches, work,
                   counters, touched, answered, blanked, told>>

\* _replay_report: what the report has hashed and what is there now.  The
\* archived input is in the directory of the run, where nobody writes later.
Replayed(r) ==
    [ranked    |-> [then |-> r.ranked, now |-> ranking],
     shortlist |-> [then |-> r.shortlist, now |-> shortlist]]

\* Without --strict a difference is only printed.
ExitCode(entries, strict) ==
    IF strict /\ (\E name \in DOMAIN entries : entries[name].now # entries[name].then)
    THEN 2 ELSE 0

ArchivedInput(r) == {WithAi(j, None) : j \in r.input}

\* Mutant: the options of the run are forgotten.
RecalculatedPlainly(r) == Scored(Whole(ArchivedInput(r)), FALSE)

\* score_jobs on the archived input, with --us_only as in the flags of the
\* report and never with --prefer_ai.
Recalculated(r) == Ranking(ArchivedInput(r))

\* _recalc_report compares the outputs with those of the report.
Recomputed(r, marks) ==
    LET list == Recalculated(r) IN
    [ranked    |-> [then |-> r.ranked, now |-> list],
     shortlist |-> [then |-> r.shortlist, now |-> ShortlistOf(list, marks)]]

-----------------------------------------------------------------------------
Step(p) ==
    \/ Stops(p)
    \/ Classify(p) \/ Enrich(p) \/ Texts(p) \/ TextsSkipped(p)
    \/ Augment(p) \/ ReadEntry(p) \/ SaveEntry(p) \/ WriteAiFile(p)
    \/ Archive(p) \/ PutKit(p) \/ KitsDone(p)
    \/ Suppress(p) \/ Insights(p) \/ Post(p) \/ Report(p)
    \/ \E marks \in setting.marks : Score(p, marks) \/ Compare(p, marks)
    \/ \E enabled \in BOOLEAN : Briefs(p, enabled)
    \/ Brief(p) \/ BriefsDone(p)

Next ==
    \/ \E listed \in setting.listings : StartDaily(listed)
    \/ \E program \in setting.byHand : StartByHand(program)
    \/ \E p \in Procs : Step(p)

Spec == Init /\ [][Next]_vars

-----------------------------------------------------------------------------
(* Properties.                                                             *)

Raced(p) == got[p].entry # answers[KeyOf(got[p].job)]

KnownChange(old, new) ==
    \/ old = Missing
    \/ new.by \in {"kit", old.by}
    \/ old.by = "kit" /\ new.by = "blank"

\* What the AI cache holds for a posting is replaced by the entry of another
\* maker only where a kit is involved, or by a program that read the entry
\* before another one wrote it: neither the stub of the daily run takes the
\* place of an answer or a failure of the live model, nor the reverse.
AnswersReplacedInKnownWays ==
    [][\A key \in Keys : answers'[key] # answers[key] =>
          \E p \in Procs :
              /\ got[p] # None /\ got'[p] = None /\ KeyOf(got[p].job) = key
              /\ Raced(p) \/ KnownChange(answers[key], answers'[key])]_vars

\* The postings that a run with these options is to rank.
Expected(listed) ==
    LET here == {q \in listed : Site[q].us = "us"} IN
    IF setting.us_only /\ here # {} THEN here ELSE listed

\* A daily run during which nobody ran anything by hand ranks each posting
\* that the site lists and the options keep once, under its id, or under its
\* address when it has none, and nothing that an earlier run left behind.
PassRanksItsListing ==
    [][(\E marks \in setting.marks : Score("daily", marks)) /\ ~touched =>
          /\ {ranking'[n].who : n \in DOMAIN ranking'} \subseteq Expected(raw)
          /\ \A q \in Expected(raw) :
                Cardinality({n \in DOMAIN ranking' : ranking'[n].job_id =
                        IF Site[q].id # None THEN Site[q].id ELSE Site[q].url}) = 1]_vars

Ids(js) == {j.job_id : j \in js}
Keyed(ids) == {<<id>> : id \in ids}
Same(prev, curr, Fields(_)) ==
    {id \in Ids(prev) \cap Ids(curr) :
        \A i \in prev, j \in curr : i.job_id = id /\ j.job_id = id => Fields(i) = Fields(j)}

ListsAgree(c) ==
    LET new == Ids(c.curr) \ Ids(c.prev)
        gone == Ids(c.prev) \ Ids(c.curr)
        both == Ids(c.prev) \cap Ids(c.curr)
        diff == Diff(c.prev, c.curr)
        delta == Delta(c.prev, c.curr)
        message == Message(c.prev, c.curr, c.marks, c.first)
        section == ChangesSection(c.prev, c.curr, c.marks)
    IN /\ diff = [new |-> Keyed(new), removed |-> Keyed(gone),
                  changed |-> Keyed(both \ Same(c.prev, c.curr, Content))]
       /\ DiffReport(c.prev, c.curr, c.marks) =
              [added |-> Keyed(new \ c.marks.ignored), removed |-> Keyed(gone),
               changed |-> Keyed(both \ (Same(c.prev, c.curr, ReportFields) \cup c.marks.ignored))]
       /\ c.prev # {} => delta.new = diff.new /\ delta.removed = diff.removed
       /\ message.new \subseteq section.new /\ message.changed \subseteq section.changed

CountsAgree(c) ==
    LET delta == Delta(c.prev, c.curr)
        safety == SafetyDiff(c.prev, c.curr)
        both == Ids(c.prev) \cap Ids(c.curr)
    IN c.prev # {} =>
           /\ safety.new = Cardinality(delta.new) /\ safety.removed = Cardinality(delta.removed)
           /\ safety.changed = Cardinality(delta.changed)
           /\ safety.risk = 0 =>
                 /\ 10 * (Cardinality(c.prev) - Cardinality(c.curr)) < 3 * Cardinality(c.prev)
                 /\ safety.changed > 0 => 2 * safety.changed < Cardinality(both)

AlertsAgree(c) ==
    LET alerts == MarkedAlerts(Alerts(c.seen, c.curr), c.marks, c.curr)
        reported == DiffReport(c.prev, c.curr, c.marks)
    IN c.seen = LastSeen(c.prev) =>
           /\ alerts.new = reported.added \ Keyed(c.marks.applied)
           /\ alerts.removed = reported.removed
           /\ alerts.retitled \subseteq reported.changed
           /\ ScoreDelta > 0 => alerts.rescored \subseteq reported.changed

InsightsAgree(c) ==
    LET diff == Diff(c.prev, c.curr)
        message == Message(c.prev, c.curr, c.marks, c.first)
        reported == DiffReport(c.prev, c.curr, [ignored |-> {}, applied |-> {}])
    IN /\ insights'.diff.new = diff.new /\ insights'.diff.removed = diff.removed
       /\ insights'.diff.changed \subseteq reported.changed
       /\ message.new # {} => "reach out" \in insights'.actions

\* The comparisons of a run agree, although each has a key of its own: a
\* posting is new, or gone, for all of them or for none, except where the user
\* hides it; it has changed for each of them when the fields changed that it
\* looks at; the safety diff of the two rankings counts what the delta names,
\* and has no risk only if fewer than three tenths are lost and fewer than half
\* of the others changed; and no message names what the section of the
\* shortlist leaves out.  The alerts do, too, if the run before was not cut
\* short between its alerts and its report; for those of a new score their
\* threshold has to be positive, which the environment does not have to make
\* it.  A run whose US filter fell back compares nothing and says "new 0", but
\* it writes its alerts: they name what the diff would have named.  The
\* insights, which come later and take the last run that came to its
\* end for the one before, find the same and urge to act on it if that is the
\* run of the report and nobody has ranked by hand since.
ComparisonsAgree ==
    [][/\ \A marks \in setting.marks :
             /\ Compare("daily", marks) =>
                   ListsAgree(Comparison(marks)) /\ CountsAgree(Comparison(marks))
             /\ Compare("daily", marks) \/ Suppress("daily") => AlertsAgree(Comparison(marks))
       /\ Insights("daily") /\ lastRanked = Earlier /\ ranking = compared.list =>
             InsightsAgree(compared)]_vars

\* Whatever the next run will take for known was named by a message with the
\* content it has, or was below the level of alerts, ignored, or applied to
\* when it came, or was ranked by hand behind the back of a run, or was ranked
\* by a run that is silent because its US filter, or that of a run before it,
\* fell back: neither a run that is killed nor the choice of an older list to
\* compare with loses a posting.
KnownWasTold ==
    setting.webhook /\ Earlier # Absent =>
        ContentOf({j \in Members(Earlier) : j.score >= MinAlert}) \subseteq told \cup excused

\* A posting whose text the API has sent once, without errors, has its text in
\* every list that enrich_jobs.py writes later, whatever the network does, if
\* there is a stored page of any posting then.  A list that is written while
\* there is none has no text, but does not touch the cache: the next one that
\* is written with a page has them all again.
TextsFetchedOnce ==
    [][\A p \in Procs : Texts(p) =>
          \A j \in enriched' : j.who \in answered /\ Site[j.who].text > 0 => j.chars > 0]_vars

\* A run with AI shows a brief without contents only after a run without it,
\* which leaves its empty briefs in the cache they share.
EmptyBriefsOnlyAfterDisabled ==
    (\E n \in DOMAIN shown.results : shown.results[n] = "empty") /\ shown.enabled => blanked

\* What docs/RUN_REPORT.md says of `--strict --recalc`, for the runs during
\* which nobody ran anything by hand: with the marks that the user has made by
\* now, the outputs of the archived input are those that the report hashed.
RecalcPasses ==
    report # Absent /\ report.clean =>
        \E marks \in setting.marks : ExitCode(Recomputed(report, marks), TRUE) = 0

\* What does hold: without --ai the ranking comes out again, and neither a
\* later run nor a program by hand changes that; and the report of the last
\* run stands the strict replay until something is run by hand.
ReportsVerify ==
    report # Absent /\ report.clean =>
        /\ ~setting.ai => Recalculated(report) = report.ranked
        /\ report.run = passes /\ ~touched => ExitCode(Replayed(report), TRUE) = 0

=============================================================================
