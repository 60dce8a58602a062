---------------------------- MODULE MCJobStages ----------------------------
(* An instance of JobStages for TLC.  In the settings of one kind an operator *)
(* runs programs by hand on a fixed site of two postings; in the other nobody *)
(* does, and the postings take many forms.                                    *)
EXTENDS JobStages, TLC

Near == [id |-> "a", url |-> "u", title |-> 40, body |-> 30, phd |-> FALSE, band |-> "CS_CORE",
         us |-> "us", sim |-> 90, label |-> "MAYBE", near |-> TRUE, text |-> 1000, match |-> 80]
Far == [id |-> "b", url |-> "v", title |-> 30, body |-> 10, phd |-> TRUE, band |-> "OTHER",
        us |-> "abroad", sim |-> 20, label |-> "IRRELEVANT", near |-> FALSE, text |-> 0,
        match |-> 20]

NoMarks == [ignored |-> {}, applied |-> {}]
Quiet == [site |-> <<Near, Far>>, listings |-> {{1, 2}}, passes |-> 2, marks |-> {NoMarks},
          webhook |-> FALSE, us_only |-> FALSE, semantic |-> "off", ai |-> FALSE,
          briefs |-> FALSE, insights |-> FALSE, kills |-> FALSE, byHand |-> {},
          replies |-> {"none", "whole"}, bare |-> FALSE]

\* Everything by hand: two postings with texts of their own.
Second == [Far EXCEPT !.label = "RELEVANT", !.text = 120]
ByHand ==
    {[Quiet EXCEPT !.site = <<Near, Second>>, !.ai = ai, !.briefs = ~ai, !.insights = ~ai,
                   !.byHand = Programs, !.semantic = "on"] :
     ai \in BOOLEAN}

\* One posting of every kind beside two plain ones, which may share its id or
\* its address; the three differ in their titles.
Forms ==
    {[Near EXCEPT !.id = id, !.url = url, !.title = points, !.band = band, !.us = us, !.sim = sim,
                  !.label = label] :
     id \in {"a", "b", None}, url \in {"u", "w"}, points \in {-20, 50},
     band \in {"CS_CORE", "OTHER"}, us \in {"us", "abroad", "silent"}, sim \in {0, 70, 99},
     label \in {"MAYBE", "IRRELEVANT"}}
Alone ==
    {[Quiet EXCEPT !.site = <<Near, Second, form>>, !.listings = {{1, 2, 3}, {3}},
                   !.us_only = us_only, !.semantic = semantic] :
     form \in Forms, us_only \in BOOLEAN, semantic \in {"off", "on"}}

\* Texts by hand again and again: answers with errors, and no pages at times.
Fetching ==
    [Quiet EXCEPT !.site = <<Near, Second>>, !.byHand = {"texts", "score"}, !.replies = Replies,
                  !.bare = TRUE]

\* Three runs that tell what they find, while the user marks postings, runs are
\* killed, and one posting takes the place of another with its id; with
\* --us_only, of the postings of some listings none is in the US.
Again == [Near EXCEPT !.title = 20, !.us = "abroad"]
Marks == [ignored |-> {"a"}, applied |-> {"b"}]
Telling ==
    {[Quiet EXCEPT !.site = <<Near, Second, Again>>, !.listings = {{2}, {1, 2}, {2, 3}},
                   !.passes = IF programs = {} THEN 3 ELSE 2, !.kills = TRUE, !.webhook = TRUE,
                   !.insights = TRUE, !.us_only = us_only,
                   !.marks = IF programs = {} THEN {NoMarks, Marks} ELSE {NoMarks},
                   !.byHand = programs] :
     programs \in {{}, {"texts", "score"}}, us_only \in BOOLEAN}

MCSettings == ByHand \cup Alone \cup Telling \cup {Fetching}
MCNames == <<"a", "b", "u", "v", "w">>
=============================================================================
