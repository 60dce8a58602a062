---------------------------- MODULE MCProviderFiles ----------------------------
(* Small instances of ProviderFiles for TLC.                               *)
EXTENDS ProviderFiles, FiniteSets

\* A provider that is in use, and one that is not there yet, is not enabled,
\* or is scraped live.
Repository ==
    {[old |-> [enabled |-> TRUE, needs |-> TRUE, complete |-> TRUE], new |-> n] :
        n \in {Nothing} \cup [enabled : {FALSE}, needs : {TRUE}, complete : BOOLEAN]
              \cup [enabled : {FALSE}, needs : {FALSE}, complete : {TRUE}]}

Alike == Permutations(Programs) \cup Permutations(Pages)

Update(ids, out, pins, force) ==
    [do |-> "update", of |-> ids, out |-> out, pins |-> pins, force |-> force]

Ones == {[do |-> d, of |-> p] : d \in {"append", "pin", "run"}, p \in {"new"}}
Enables == {[do |-> "enable", of |-> p, meant |-> m] : p \in {"new", "old"}, m \in {TRUE}}
           \cup {[do |-> "enable", of |-> "new", meant |-> FALSE]}
Scaffolds == [do : {"scaffold"}, of : {"new"}, force : BOOLEAN]
Updates == {Update(<<"old">>, "old", FALSE, FALSE), Update(<<"new">>, "new", TRUE, FALSE),
            Update(<<"old">>, "old", TRUE, TRUE), Update(<<"new", "old">>, "old", TRUE, FALSE)}

CommandLines == Ones \cup Enables \cup Scaffolds \cup Updates
=============================================================================
