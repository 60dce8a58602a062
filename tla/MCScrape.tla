------------------------------ MODULE MCScrape ------------------------------
(* Instances of Scrape for TLC. *)
EXTENDS Scrape

\* openai and a provider that only has a snapshot; ashby and jsonld.
TwoRequests == {<<"openai", "json">>, <<"ashby", "jsonld">>}

MCTypeOf == [p \in Ids |-> IF p = "json" THEN "snapshot_json" ELSE p]
MCModeOf == [p \in Ids |-> IF p = "json" THEN "SNAPSHOT" ELSE "AUTO"]
MCLiveEnabled == [p \in Ids |-> p # "jsonld"]
\* The ids differ in a character that no variable can hold.
MCKeyOf == [p \in Ids |-> IF p \in {"ashby", "jsonld"} THEN "A_B" ELSE p]

\* Nobody is listed; or all may have openai, and the key that ashby and jsonld
\* share has ashby.
Unlisted == [own |-> [k \in {MCKeyOf[p] : p \in Ids} |-> {}], general |-> {}]
MCAllowlists == {Unlisted, [Unlisted EXCEPT !.own["A_B"] = {"ashby"}, !.general = {"openai"}]}

None3 == [f \in Fields |-> NotGiven]
Paced(defaults, flat) == [defaults |-> defaults, flat |-> flat]
SlowFlat == Paced([None3 EXCEPT !.delay = 2, !.inflight = 1], [None3 EXCEPT !.delay = 6])
RateOnly == Paced([None3 EXCEPT !.qps = 3], None3)
RateAndDelay == Paced([None3 EXCEPT !.delay = 2], [None3 EXCEPT !.qps = 3])
Unpaced == Paced(None3, None3)

MCConfigured ==
    {[p \in Ids |-> IF p \in {"openai", "ashby"} THEN a ELSE b] :
        a \in {SlowFlat, RateAndDelay}, b \in {RateOnly, Unpaced}}

NothingSet == [k \in {MCKeyOf[p] : p \in Ids} |-> [f \in Exported |-> NotGiven]]
MCOperatorEnvs == {NothingSet, [NothingSet EXCEPT !["openai"].delay = 1]}
=============================================================================
