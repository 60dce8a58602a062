----------------------------- MODULE MCDailyRun -----------------------------
(* Small instances of DailyRun for TLC.                                    *)
EXTENDS DailyRun

Full(ps) == [providers |-> ps, scrape_only |-> FALSE, semantic |-> FALSE, ai |-> FALSE,
             no_enrich |-> FALSE, us_only |-> FALSE]
OfOpenai == Full(<<"openai">>)
OfBoth == Full(<<"openai", "ashby">>)
ScrapeOnly == [OfOpenai EXCEPT !.scrape_only = TRUE]
Semantic == [OfOpenai EXCEPT !.semantic = TRUE]
WithAi == [OfOpenai EXCEPT !.ai = TRUE]
NoEnrich == [OfOpenai EXCEPT !.no_enrich = TRUE]
NoEnrichUs == [NoEnrich EXCEPT !.us_only = TRUE]

\* The sites, the stages and the channel fail, and budgets are exceeded.
Faulty == [requests |-> {OfOpenai, ScrapeOnly, Semantic}, publish |-> "off",
           faults |-> {"stage", "crash", "unavailable", "discord", "guardrail"},
           changes |-> 1, grow |-> FALSE]

\* Every step of _finalize fails in a deployment that must publish.
Unpublished == [requests |-> {OfOpenai, ScrapeOnly}, publish |-> "required",
                faults |-> {"crash", "publish", "guardrail", "metadata", "finalize"},
                changes |-> 0, grow |-> FALSE]

\* _finalize is left in every step, its files cut short, and done again.
Interrupted == [requests |-> {OfOpenai}, publish |-> "optional",
                faults |-> {"crash", "cut", "publish", "finalize"},
                changes |-> 1, grow |-> TRUE]

\* The files of one provider are copied, those of the other are not.
HalfCopied == [requests |-> {OfBoth}, publish |-> "optional",
               faults |-> {"crash", "cut", "publish"}, changes |-> 0, grow |-> TRUE]

\* A deployment that sometimes takes a second provider, and sites that grow.
Steady == [requests |-> {OfOpenai, OfBoth}, publish |-> "off",
           faults |-> {"crash", "guardrail"}, changes |-> 2, grow |-> TRUE]

\* AI on some days only.
Augmented == [requests |-> {OfOpenai, WithAi}, publish |-> "off",
              faults |-> {"crash", "cut", "guardrail"}, changes |-> 2, grow |-> TRUE]

\* Flags that change from run to run.
Mixed == [requests |-> {OfOpenai, WithAi, NoEnrich, NoEnrichUs}, publish |-> "off",
          faults |-> {"stage", "crash"}, changes |-> 1, grow |-> FALSE]

AllSettings == {Faulty, Unpublished, Interrupted, HalfCopied, Steady, Augmented, Mixed}

\* The steady deployment without kills, for a counterexample.
PlainSettings == {[Steady EXCEPT !.faults = {"stage"}, !.changes = 1, !.grow = FALSE]}
=============================================================================
