--------------------------- MODULE ProviderPoliteness ---------------------------
(***************************************************************************)
(* How the "politeness" of a provider in config/providers.json becomes the *)
(* environment variables that retry.py reads (Politeness): registry.py     *)
(* normalizes it, run_scrape.py exports it.                                *)
(*                                                                         *)
(* The fields are the delay between two requests of a host, the requests   *)
(* per second and the requests in flight.  A delay and a rate agree when   *)
(* their product is Second.  What is said per host is checked on loading   *)
(* and used by nothing, and is left out.                                   *)
(***************************************************************************)
EXTENDS Naturals

CONSTANTS
    Second,        \* one second, in units that make the delays and rates whole
    NotGiven       \* a field that is not in the configuration

ASSUME ProviderPolitenessAssumption == Second \in Nat \ {0} /\ NotGiven \notin Nat

Fields == {"delay", "qps", "inflight"}
Settings == [Fields -> Nat \cup {NotGiven}]
Given(v) == v # NotGiven

\* politeness.defaults with the flat keys of the older form.
Politeness == [defaults : Settings, flat : Settings]

\* Mutant: the defaults win over the flat keys.
MergedReversed(raw) ==
    [f \in Fields |-> IF Given(raw.defaults[f]) THEN raw.defaults[f] ELSE raw.flat[f]]

Merged(raw) ==
    [f \in Fields |-> IF Given(raw.flat[f]) THEN raw.flat[f] ELSE raw.defaults[f]]

\* _normalize_politeness_defaults raises otherwise, and nothing is scraped.
Accepted(raw) ==
    LET m == Merged(raw) IN
    /\ m.qps # 0 /\ m.inflight # 0
    /\ Given(m.qps) /\ Given(m.delay) => m.delay * m.qps = Second

\* The delay and the rate follow from each other; a delay of 0 from no rate.
Normalized(raw) ==
    LET m == Merged(raw) IN
    CASE Given(m.qps) /\ ~Given(m.delay) -> [m EXCEPT !.delay = Second \div m.qps]
      [] ~Given(m.qps) /\ Given(m.delay) /\ m.delay > 0 -> [m EXCEPT !.qps = Second \div m.delay]
      [] OTHER -> m

\* The fields that have an environment variable.
Exported == {"delay", "inflight"}

\* _apply_politeness_defaults: what is set already stays.  A variable is named
\* by the field and the id of the provider in upper case, with "_" for every
\* other character than a letter or a digit: key.
Applied(env, key, raw) ==
    [env EXCEPT ![key] = [f \in Exported |->
        IF Given(@[f]) THEN @[f] ELSE Normalized(raw)[f]]]

\* What a person reading the entry takes the delay to be.
DelayAsRead(raw) ==
    CASE Given(raw.flat.delay) -> raw.flat.delay
      [] ~Given(raw.flat.delay) /\ Given(raw.flat.qps) -> Second \div raw.flat.qps
      [] ~Given(raw.flat.delay) /\ ~Given(raw.flat.qps) /\ Given(raw.defaults.delay) ->
            raw.defaults.delay
      [] ~Given(raw.flat.delay) /\ ~Given(raw.flat.qps) /\ ~Given(raw.defaults.delay) ->
            IF Given(raw.defaults.qps) THEN Second \div raw.defaults.qps ELSE NotGiven
=============================================================================
