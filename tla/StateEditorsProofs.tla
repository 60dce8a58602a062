------------------------- MODULE StateEditorsProofs -------------------------
(***************************************************************************)
(* The command-line editors of the state directory, for any number of      *)
(* shells, candidates, jobs and commands: what they may lose, and to whom. *)
(***************************************************************************)
EXTENDS StateEditors, TLAPS

\* The steps of the commands that change a candidate, in their order.
Registering == {"dirs", "proofs", "look", "write", "register"}

\* The steps of each command.
StepsOf ==
    [list |-> {"load", "default"},
     validate |-> {"load", "default", "check"},
     add |-> {"load", "default", "dirs", "write", "register"},
     bootstrap |-> {"load", "default"} \cup Registering,
     ingest |-> {"open", "ingest"},
     doctor |-> {"doctor", "pointers"},
     mark |-> {"read", "store"}]

\* What the step of p leaves alone: the other commands, and the marks of
\* what they hold that is old.
Others(p) ==
    /\ \A q \in Procs \ {p} :
          /\ pc'[q] = pc[q] /\ job'[q] = job[q] /\ exit'[q] = exit[q]
          /\ mine'[q] = mine[q] /\ draft'[q] = draft[q] /\ sheet'[q] = sheet[q]
    /\ \A q \in Procs \ {p}, file \in {"registry", "profile", "marks"} :
          <<q, file>> \in raced => <<q, file>> \in raced'

\* The three ways of a step: the command is given, goes on, is gone.
Starts(p) ==
    /\ pc[p] = "idle" /\ pc'[p] \in {"load", "open", "doctor", "read"}
    /\ pc'[p] \in StepsOf[job'[p].op] /\ job'[p].number # 0 /\ exit'[p] = 1
    /\ job'[p].sure <=> job'[p].of \in bootstrapped
    /\ UNCHANGED <<files, raced, bootstrapped>>

Goes(p) ==
    /\ pc[p] # "idle" /\ pc'[p] # "idle" /\ exit'[p] = exit[p]
    /\ job'[p].op = job[p].op /\ job'[p].of = job[p].of
    /\ job'[p].number = job[p].number /\ job'[p].sure = job[p].sure

Stops(p) == pc[p] # "idle" /\ pc'[p] = "idle" /\ job'[p] = NoJob

\* A file that p replaces is from then on an old one for whoever is under way.
Marked(p) ==
    /\ registry' = registry \/ \A q \in Procs \ {p} : pc[q] # "idle" => <<q, "registry">> \in raced'
    /\ profiles' = profiles \/ \A q \in Procs \ {p} : pc[q] # "idle" => <<q, "profile">> \in raced'
    /\ marks' = marks \/ \A q \in Procs \ {p} : pc[q] # "idle" => <<q, "marks">> \in raced'

-----------------------------------------------------------------------------
(* Types. *)

LEMMA FirstIn ==
  ASSUME NEW S \in SUBSET Kinds, S # {}
  PROVE  First(S) \in S
<1>1. S \subseteq 1 .. 3
  BY EditorsAssumption
<1>2. \E k \in S : \A l \in S : k <= l
  <2>1. CASE 1 \in S
    BY <1>1, <2>1
  <2>2. CASE 1 \notin S /\ 2 \in S
    BY <1>1, <2>2
  <2>3. CASE 1 \notin S /\ 2 \notin S
    <3>1. \A l \in S : l = 3
      BY <1>1, <2>3
    <3> QED
      BY <3>1
  <2> QED
    BY <2>1, <2>2, <2>3
<1> QED
  BY <1>2 DEF First

LEMMA ConstantTypes ==
  /\ Blank \in Profiles /\ NoProfile \in Profiles /\ Blank.is /\ ~NoProfile.is
  /\ \A k \in Kinds : /\ Blank.texts[k] = 0 /\ Blank.points[k] = 0
                      /\ NoProfile.texts[k] = 0 /\ NoProfile.points[k] = 0
  /\ EmptySheet \in Sheets /\ AnyJob \in Jobs /\ NoJob \in Arguments
  /\ NoJob.op = "list" /\ NoJob.sure = FALSE
<1>1. 0 \in Texts
  BY EditorsAssumption DEF Texts
<1>2. AnyJob \in Jobs
  BY EditorsAssumption DEF AnyJob
<1> QED
  BY <1>1, <1>2, EditorsAssumption
     DEF Blank, NoProfile, Profiles, EmptySheet, Sheets, NoJob, Arguments, Ops

LEMMA InitTypes == ASSUME Init PROVE TypeOK
  BY ConstantTypes, EditorsAssumption DEF Init, TypeOK, Marks, Steps

LEMMA GotoType ==
  ASSUME TypeOK, NEW p \in Procs, NEW step \in Steps, Goto(p, step)
  PROVE  /\ pc' \in [Procs -> Steps] /\ pc'[p] = step
         /\ \A q \in Procs \ {p} : pc'[q] = pc[q]
  BY DEF TypeOK, Goto

LEMMA GoneType ==
  ASSUME TypeOK, NEW p \in Procs, Gone(p)
  PROVE  /\ pc' \in [Procs -> Steps] /\ job' \in [Procs -> Arguments]
         /\ mine' \in [Procs -> SUBSET Candidates] /\ draft' \in [Procs -> Profiles]
         /\ sheet' \in [Procs -> Sheets]
         /\ pc'[p] = "idle" /\ job'[p] = NoJob
         /\ \A q \in Procs \ {p} :
               /\ pc'[q] = pc[q] /\ job'[q] = job[q]
               /\ mine'[q] = mine[q] /\ draft'[q] = draft[q] /\ sheet'[q] = sheet[q]
<1>1. /\ pc' = [pc EXCEPT ![p] = "idle"] /\ job' = [job EXCEPT ![p] = NoJob]
      /\ mine' = [mine EXCEPT ![p] = {}] /\ draft' = [draft EXCEPT ![p] = NoProfile]
      /\ sheet' = [sheet EXCEPT ![p] = EmptySheet]
  BY DEF Gone, Goto
<1>2. "idle" \in Steps
  BY DEF Steps
<1> QED
  BY <1>1, <1>2, ConstantTypes DEF TypeOK

LEMMA ExitType ==
  ASSUME TypeOK, NEW p \in Procs, NEW code \in 0 .. 2, Exit(p, code)
  PROVE  /\ exit' \in [Procs -> 0 .. 2] /\ exit'[p] = code
         /\ \A q \in Procs \ {p} : exit'[q] = exit[q]
  BY DEF TypeOK, Exit

LEMMA RacedType ==
  ASSUME TypeOK, NEW p \in Procs, NEW file \in {"registry", "profile", "marks"}
  PROVE  /\ Replaces(p, file) =>
               /\ raced' \subseteq Procs \X {"registry", "profile", "marks"}
               /\ raced \subseteq raced'
               /\ \A q \in Procs \ {p} : pc[q] # "idle" => <<q, file>> \in raced'
               /\ \A f \in {"registry", "profile", "marks"} : <<p, f>> \in raced' => <<p, f>> \in raced
         /\ Reads(p) =>
               /\ raced' \subseteq Procs \X {"registry", "profile", "marks"}
               /\ \A q \in Procs \ {p}, f \in {"registry", "profile", "marks"} :
                     <<q, f>> \in raced => <<q, f>> \in raced'
  BY DEF TypeOK, Replaces, Reads

-----------------------------------------------------------------------------
(* Each step: types, and how it goes on.  One lemma for each kind of step. *)

LEMMA NewJobType ==
  ASSUME TypeOK, NEW op \in Ops, NEW c \in Candidates, given < MaxCommands
  PROVE  /\ NewJob(op, c) \in Arguments
         /\ NewJob(op, c).op = op /\ NewJob(op, c).of = c /\ NewJob(op, c).number = given + 1
         /\ NewJob(op, c).sure <=> c \in bootstrapped
<1> DEFINE sure == c \in bootstrapped
           number == given + 1
<1>1. sure \in BOOLEAN
  OBVIOUS
<1>2. number \in Texts
  BY EditorsAssumption DEF TypeOK, Texts
<1>3. NewJob(op, c) =
        [op |-> op, of |-> c, todo |-> {}, bad |-> {}, at |-> AnyJob, to |-> NoStatus,
         number |-> number, orphan |-> FALSE, sure |-> sure, blind |-> FALSE]
  BY DEF NewJob
<1> HIDE DEF sure, number
<1>4. NewJob(op, c) \in Arguments
  BY <1>1, <1>2, <1>3, ConstantTypes DEF Arguments
<1>5. NewJob(op, c).op = op /\ NewJob(op, c).of = c
      /\ NewJob(op, c).number = number /\ NewJob(op, c).sure = sure
  BY <1>3
<1> QED
  BY <1>4, <1>5 DEF sure, number

LEMMA GiveMoves ==
  ASSUME TypeOK, NEW p \in Procs, NEW step \in {"load", "open", "doctor", "read"},
         NEW a \in Arguments, Give(p, step, a), step \in StepsOf[a.op],
         a.number = given + 1, a.sure <=> a.of \in bootstrapped
  PROVE  TypeOK' /\ Others(p) /\ Marked(p) /\ Starts(p)
<1>1. pc' \in [Procs -> Steps] /\ pc'[p] = step /\ \A q \in Procs \ {p} : pc'[q] = pc[q]
  BY GotoType DEF Give, Steps
<1>2. /\ job' \in [Procs -> Arguments] /\ job'[p] = a
      /\ exit' \in [Procs -> 0 .. 2] /\ exit'[p] = 1
      /\ \A q \in Procs \ {p} : job'[q] = job[q] /\ exit'[q] = exit[q]
  BY DEF Give, TypeOK
<1>3. given' \in 0 .. MaxCommands /\ given + 1 # 0
  BY EditorsAssumption DEF Give, TypeOK
<1>4. UNCHANGED <<files, copies, spoils, bootstrapped, raced>>
  BY DEF Give
<1> QED
  BY <1>1, <1>2, <1>3, <1>4 DEF Give, TypeOK, Others, Marked, Starts, files, copies

LEMMA CommandMoves ==
  ASSUME TypeOK, NEW p \in Procs, Command(p)
  PROVE  TypeOK' /\ Others(p) /\ Marked(p) /\ Starts(p)
<1>0. given < MaxCommands /\ Local \in Candidates
  BY EditorsAssumption DEF Command, List, Add, Bootstrap, Ingest, Doctor, Mark, Give
<1>1. CASE List(p)
  BY <1>0, <1>1, NewJobType, GiveMoves DEF List, Ops, StepsOf
<1>2. CASE \E c \in Candidates : Add(p, c) \/ Bootstrap(p, c) \/ Doctor(p, c)
  BY <1>0, <1>2, NewJobType, GiveMoves DEF Add, Bootstrap, Doctor, Ops, StepsOf
<1>3. CASE \E c \in Candidates, todo \in SUBSET Kinds \ {{}} : \E bad \in SUBSET todo : Ingest(p, c, todo, bad)
  <2>0. PICK c \in Candidates, todo \in SUBSET Kinds : \E bad \in SUBSET todo : Ingest(p, c, todo, bad)
    BY <1>3
  <2>1. PICK bad \in SUBSET todo : Ingest(p, c, todo, bad)
    BY <2>0
  <2> DEFINE a == [NewJob("ingest", c) EXCEPT !.todo = todo, !.bad = bad]
  <2>2. NewJob("ingest", c) \in Arguments /\ NewJob("ingest", c).op = "ingest"
        /\ NewJob("ingest", c).of = c /\ NewJob("ingest", c).number = given + 1
        /\ (NewJob("ingest", c).sure <=> c \in bootstrapped)
    BY <1>0, NewJobType DEF Ops
  <2>3. /\ a \in Arguments /\ a.op = "ingest" /\ a.of = c /\ a.number = given + 1
        /\ a.sure <=> c \in bootstrapped
    BY <2>2 DEF Arguments
  <2>4. Give(p, "open", a)
    BY <2>1 DEF Ingest
  <2> HIDE DEF a
  <2> QED
    BY <2>3, <2>4, GiveMoves DEF StepsOf
<1>4. CASE \E j \in Jobs, status \in Statuses \cup {NoStatus} : Mark(p, j, status)
  <2>1. PICK j \in Jobs, status \in Statuses \cup {NoStatus} : Mark(p, j, status)
    BY <1>4
  <2> DEFINE a == [NewJob("mark", Local) EXCEPT !.at = j, !.to = status]
  <2>2. NewJob("mark", Local) \in Arguments /\ NewJob("mark", Local).op = "mark"
        /\ NewJob("mark", Local).of = Local /\ NewJob("mark", Local).number = given + 1
        /\ (NewJob("mark", Local).sure <=> Local \in bootstrapped)
    BY <1>0, NewJobType DEF Ops
  <2>3. /\ a \in Arguments /\ a.op = "mark" /\ a.of = Local /\ a.number = given + 1
        /\ a.sure <=> Local \in bootstrapped
    BY <2>2 DEF Arguments
  <2>4. Give(p, "read", a)
    BY <2>1 DEF Mark
  <2> HIDE DEF a
  <2> QED
    BY <2>3, <2>4, GiveMoves DEF StepsOf
<1> QED
  BY <1>1, <1>2, <1>3, <1>4 DEF Command

\* A command that goes, or is killed: nothing of it is left.
LEMMA KillMoves ==
  ASSUME TypeOK, NEW p \in Procs, Kill(p)
  PROVE  TypeOK' /\ Others(p) /\ Marked(p) /\ Stops(p) /\ exit' = exit
  BY GoneType DEF Kill, TypeOK, Others, Marked, Stops, files, seen

LEMMA AfterLoadMoves ==
  ASSUME TypeOK, NEW p \in Procs, pc[p] # "idle", NEW ids \in SUBSET Candidates, AfterLoad(p, ids)
  PROVE  /\ pc' \in [Procs -> Steps] /\ job' \in [Procs -> Arguments]
         /\ mine' \in [Procs -> SUBSET Candidates] /\ draft' \in [Procs -> Profiles]
         /\ sheet' \in [Procs -> Sheets] /\ exit' \in [Procs -> 0 .. 2]
         /\ \A q \in Procs \ {p} :
              /\ pc'[q] = pc[q] /\ job'[q] = job[q] /\ exit'[q] = exit[q]
              /\ mine'[q] = mine[q] /\ draft'[q] = draft[q] /\ sheet'[q] = sheet[q]
         /\ \/ Stops(p)
            \/ /\ Goes(p) /\ job[p].op # "list" /\ mine'[p] = ids
               /\ pc'[p] = IF job[p].op = "validate" THEN "check" ELSE "dirs"
               /\ job'[p].orphan <=> (job[p].op = "add" /\ profiles[job[p].of].is)
<1> DEFINE j == job[p]
<1>1. CASE j.op = "list" \/ (j.op = "add" /\ j.of \in ids)
  <2>1. Gone(p) /\ \E code \in 0 .. 2 : Exit(p, code)
    BY <1>1 DEF AfterLoad, Exit
  <2> QED
    BY <2>1, GoneType, ExitType DEF Stops
<1>2. CASE ~(j.op = "list" \/ (j.op = "add" /\ j.of \in ids))
  <2>1. /\ Goto(p, IF j.op = "validate" THEN "check" ELSE "dirs")
        /\ mine' = [mine EXCEPT ![p] = ids]
        /\ job' = [job EXCEPT ![p].orphan = j.op = "add" /\ profiles[j.of].is]
        /\ UNCHANGED <<draft, sheet, exit>>
    BY <1>2 DEF AfterLoad
  <2>2. /\ pc' \in [Procs -> Steps] /\ \A q \in Procs \ {p} : pc'[q] = pc[q]
        /\ pc'[p] = IF j.op = "validate" THEN "check" ELSE "dirs"
    BY <2>1, GotoType DEF Steps
  <2>3. j \in Arguments /\ (j.op = "add" /\ profiles[j.of].is) \in BOOLEAN
    BY DEF TypeOK, Arguments, Profiles
  <2>4. [j EXCEPT !.orphan = j.op = "add" /\ profiles[j.of].is] \in Arguments
    BY <2>3 DEF Arguments
  <2>5. job' = [job EXCEPT ![p] = [j EXCEPT !.orphan = j.op = "add" /\ profiles[j.of].is]]
    BY <2>1
  <2>6. job' \in [Procs -> Arguments] /\ \A q \in Procs \ {p} : job'[q] = job[q]
    BY <2>4, <2>5 DEF TypeOK
  <2>7. job'[p] = [j EXCEPT !.orphan = j.op = "add" /\ profiles[j.of].is]
    BY <2>5 DEF TypeOK
  <2>8. /\ job'[p].op = j.op /\ job'[p].of = j.of /\ job'[p].number = j.number
        /\ job'[p].sure = j.sure /\ (job'[p].orphan <=> (j.op = "add" /\ profiles[j.of].is))
    BY <2>3, <2>7 DEF Arguments
  <2> HIDE DEF j
  <2>9. Goes(p)
    BY <2>1, <2>2, <2>8 DEF Goes, j
  <2>10. mine' \in [Procs -> SUBSET Candidates] /\ mine'[p] = ids /\ \A q \in Procs \ {p} : mine'[q] = mine[q]
    BY <2>1 DEF TypeOK
  <2> QED
    BY <1>2, <2>1, <2>2, <2>6, <2>8, <2>9, <2>10 DEF TypeOK, j
<1> QED
  BY <1>1, <1>2

\* Each command is at a step of its own kind, and has its number.
InPlace == \A p \in Procs :
    /\ pc[p] = "idle" => job[p] = NoJob
    /\ pc[p] # "idle" => pc[p] \in StepsOf[job[p].op] /\ job[p].number # 0 /\ exit[p] = 1

Moves(p) == TypeOK' /\ Others(p) /\ Marked(p) /\ (Goes(p) \/ Stops(p))

LEMMA LoadMoves ==
  ASSUME TypeOK, NEW p \in Procs, Load(p) \/ SaveDefault(p)
  PROVE  Moves(p)
<1>1. CASE Load(p)
  BY <1>1, AfterLoadMoves, RacedType DEF Load, Moves, TypeOK, Others, Marked, files, seen
<1>2. CASE SaveDefault(p)
  <2>1. AfterLoad(p, {Local}) /\ Replaces(p, "registry") /\ {Local} \in SUBSET Candidates
    BY <1>2, EditorsAssumption DEF SaveDefault
  <2> QED
    BY <1>2, <2>1, AfterLoadMoves, RacedType DEF SaveDefault, Moves, TypeOK, Others, Marked, seen
<1> QED
  BY <1>1, <1>2

\* The steps that change neither the arguments nor what has been read.
LEMMA PlainMoves ==
  ASSUME TypeOK, NEW p \in Procs,
         LoadFindsNone(p) \/ MakeDirs(p) \/ MakeProofs(p) \/ LookForProfile(p) \/ WriteProfile(p)
  PROVE  Moves(p) /\ Goes(p) /\ job' = job /\ copies' = copies /\ exit' = exit
<1>1. /\ UNCHANGED <<job, copies, exit, seen>>
      /\ \E step \in Steps : pc[p] # "idle" /\ step # "idle" /\ Goto(p, step)
  BY DEF LoadFindsNone, MakeDirs, MakeProofs, LookForProfile, WriteProfile, Steps
<1>2. /\ pc' \in [Procs -> Steps] /\ \A q \in Procs \ {p} : pc'[q] = pc[q]
      /\ pc[p] # "idle" /\ pc'[p] # "idle"
  BY <1>1, GotoType
<1>3. job[p].of \in Candidates
  BY DEF TypeOK, Arguments
<1>4. dirs' \in [Candidates -> SUBSET {"base", "proofs"}]
  BY <1>3 DEF LoadFindsNone, MakeDirs, MakeProofs, LookForProfile, WriteProfile, TypeOK, files
<1>5. profiles' \in [Candidates -> Profiles]
  BY <1>3, ConstantTypes DEF LoadFindsNone, MakeDirs, MakeProofs, LookForProfile, WriteProfile, TypeOK, files
<1>6. /\ registry' = registry /\ artifacts' = artifacts /\ marks' = marks
      /\ profiles' = profiles \/ Replaces(p, "profile")
      /\ raced' = raced \/ Reads(p) \/ Replaces(p, "profile")
  BY DEF LoadFindsNone, MakeDirs, MakeProofs, LookForProfile, WriteProfile, files
<1>7. Goes(p)
  BY <1>1, <1>2 DEF Goes
<1>8. raced' \subseteq Procs \X {"registry", "profile", "marks"}
  BY <1>6, RacedType DEF TypeOK
<1>9. Others(p) /\ Marked(p)
  BY <1>1, <1>2, <1>6, RacedType DEF Others, Marked, copies
<1> QED
  BY <1>1, <1>2, <1>4, <1>5, <1>6, <1>7, <1>8, <1>9 DEF Moves, TypeOK, copies, seen

LEMMA RegisterMoves ==
  ASSUME TypeOK, NEW p \in Procs, Register(p)
  PROVE  Moves(p) /\ Stops(p)
<1>1. Gone(p) /\ Exit(p, 0) /\ pc[p] # "idle"
  BY DEF Register, Done, Exit
<1>2. job[p].of \in Candidates /\ mine[p] \subseteq Candidates
  BY DEF TypeOK, Arguments
<1>3. bootstrapped' \subseteq Candidates /\ registry' \subseteq Candidates
  BY <1>2 DEF Register, Done, TypeOK
<1>4. UNCHANGED <<profiles, dirs, artifacts, marks, given, spoils>>
  BY DEF Register, Done
<1>5. (registry' = registry /\ raced' = raced) \/ Replaces(p, "registry")
  BY DEF Register
<1>6. raced' \subseteq Procs \X {"registry", "profile", "marks"} /\ Marked(p)
  BY <1>4, <1>5, RacedType DEF TypeOK, Marked
<1>7. Others(p)
  BY <1>1, <1>5, RacedType, GoneType, ExitType DEF Others
<1> QED
  BY <1>1, <1>3, <1>4, <1>6, <1>7, GoneType, ExitType DEF Moves, Stops, TypeOK

\* A command that exits, whatever becomes of the files.
LEMMA ExitMoves ==
  ASSUME TypeOK, NEW p \in Procs, pc[p] # "idle", NEW code \in 0 .. 2, Exit(p, code),
         NEW file \in {"registry", "profile", "marks"},
         raced' = raced \/ Reads(p) \/ Replaces(p, file)
  PROVE  /\ Others(p) /\ Stops(p) /\ exit'[p] = code
         /\ pc' \in [Procs -> Steps] /\ job' \in [Procs -> Arguments]
         /\ mine' \in [Procs -> SUBSET Candidates] /\ draft' \in [Procs -> Profiles]
         /\ sheet' \in [Procs -> Sheets] /\ exit' \in [Procs -> 0 .. 2]
         /\ raced' \subseteq Procs \X {"registry", "profile", "marks"}
<1>1. Gone(p)
  BY DEF Exit
<1>2. raced' \subseteq Procs \X {"registry", "profile", "marks"}
  BY RacedType DEF TypeOK
<1>3. \A q \in Procs \ {p}, f \in {"registry", "profile", "marks"} :
         <<q, f>> \in raced => <<q, f>> \in raced'
  BY RacedType
<1>4. Others(p)
  BY <1>1, <1>3, GoneType, ExitType DEF Others
<1> QED
  BY <1>1, <1>2, <1>4, GoneType, ExitType DEF Stops

LEMMA OpenMoves ==
  ASSUME TypeOK, NEW p \in Procs, Open(p)
  PROVE  Moves(p)
<1> DEFINE c == job[p].of
<1>1. c \in Candidates
  BY DEF TypeOK, Arguments
<1>2. UNCHANGED <<files, seen>> /\ Reads(p) /\ pc[p] # "idle"
  BY DEF Open
<1>3. CASE profiles[c].is \/ c \in Legacy
  <2>1. /\ Goto(p, "ingest")
        /\ draft' = [draft EXCEPT ![p] = IF profiles[c].is THEN profiles[c] ELSE Blank]
        /\ UNCHANGED <<job, mine, sheet, exit>>
    BY <1>3 DEF Open
  <2>2. draft' \in [Procs -> Profiles] /\ \A q \in Procs \ {p} : draft'[q] = draft[q]
    BY <1>1, <2>1, ConstantTypes DEF TypeOK
  <2>3. /\ pc' \in [Procs -> Steps] /\ pc'[p] = "ingest" /\ \A q \in Procs \ {p} : pc'[q] = pc[q]
    BY <2>1, GotoType DEF Steps
  <2> QED
    BY <1>2, <2>1, <2>2, <2>3, RacedType DEF Moves, Goes, Others, Marked, TypeOK, files, seen
<1>4. CASE ~(profiles[c].is \/ c \in Legacy)
  <2>1. Exit(p, 2)
    BY <1>4 DEF Open
  <2> QED
    BY <1>2, <2>1, ExitMoves DEF Moves, Marked, TypeOK, files, seen
<1> QED
  BY <1>3, <1>4

LEMMA WriteArtifactMoves ==
  ASSUME TypeOK, InPlace, NEW p \in Procs, WriteArtifact(p)
  PROVE  /\ Moves(p) /\ Goes(p) /\ pc' = pc /\ artifacts \subseteq artifacts'
         /\ UNCHANGED <<registry, profiles, dirs, marks, mine, sheet, exit, seen, raced>>
         /\ \E k \in Kinds :
               /\ [of |-> job[p].of, kind |-> k, text |-> job[p].number] \in artifacts'
               /\ draft'[p].is = draft[p].is
               /\ draft'[p].texts = [draft[p].texts EXCEPT ![k] = job[p].number]
               /\ draft'[p].points = [draft[p].points EXCEPT ![k] = job[p].number]
<1> DEFINE k == First(job[p].todo)
           n == job[p].number
           d == [draft[p] EXCEPT !.texts = [draft[p].texts EXCEPT ![k] = n],
                                 !.points = [draft[p].points EXCEPT ![k] = n]]
           j == [job[p] EXCEPT !.todo = @ \ {k}]
<1>1. job[p] \in Arguments /\ draft[p] \in Profiles
  BY DEF TypeOK
<1>2. pc[p] # "idle" /\ job[p].todo # {} /\ job[p].todo \in SUBSET Kinds
  BY <1>1 DEF WriteArtifact, Arguments
<1>3. k \in Kinds
  BY <1>2, FirstIn
<1>4. n \in Texts /\ n # 0
  BY <1>1, <1>2 DEF InPlace, Arguments
<1>5. /\ artifacts' = artifacts \cup {[of |-> job[p].of, kind |-> k, text |-> n]}
      /\ draft' = [draft EXCEPT ![p] = d] /\ job' = [job EXCEPT ![p] = j]
      /\ UNCHANGED <<registry, profiles, dirs, marks, pc, mine, sheet, exit, seen, raced>>
  BY DEF WriteArtifact, ArtifactOf
<1>6. [of |-> job[p].of, kind |-> k, text |-> n] \in Artifacts
  BY <1>1, <1>3, <1>4, EditorsAssumption DEF Artifacts, Arguments, Texts
<1>7. /\ d \in Profiles /\ d.is = draft[p].is
      /\ d.texts = [draft[p].texts EXCEPT ![k] = n] /\ d.points = [draft[p].points EXCEPT ![k] = n]
  BY <1>1, <1>3, <1>4 DEF Profiles
<1>8. /\ j \in Arguments /\ j.op = job[p].op /\ j.of = job[p].of
      /\ j.number = job[p].number /\ j.sure = job[p].sure
  BY <1>1 DEF Arguments
<1> HIDE DEF k, n, d, j
<1>9. /\ draft' \in [Procs -> Profiles] /\ draft'[p] = d
      /\ job' \in [Procs -> Arguments] /\ job'[p] = j
      /\ \A q \in Procs \ {p} : draft'[q] = draft[q] /\ job'[q] = job[q]
  BY <1>5, <1>7, <1>8 DEF TypeOK
<1>10. TypeOK'
  BY <1>5, <1>6, <1>9 DEF TypeOK, seen
<1>11. Others(p) /\ Marked(p) /\ Goes(p)
  BY <1>2, <1>5, <1>8, <1>9 DEF Others, Marked, Goes
<1>12. /\ [of |-> job[p].of, kind |-> k, text |-> job[p].number] \in artifacts'
       /\ artifacts \subseteq artifacts'
  BY <1>5 DEF n
<1>13. d.texts = [draft[p].texts EXCEPT ![k] = job[p].number]
       /\ d.points = [draft[p].points EXCEPT ![k] = job[p].number]
  BY <1>7 DEF n
<1> QED
  BY <1>3, <1>5, <1>7, <1>9, <1>10, <1>11, <1>12, <1>13 DEF Moves

LEMMA EndMoves ==
  ASSUME TypeOK, InPlace, NEW p \in Procs,
         RefuseText(p) \/ SaveProfile(p) \/ LookAtPointers(p) \/ Validate(p) \/ StoreMarks(p)
  PROVE  Moves(p) /\ Stops(p)
<1>1. job[p] \in Arguments /\ job[p].of \in Candidates /\ draft[p] \in Profiles /\ sheet[p] \in Sheets
  BY DEF TypeOK, Arguments
<1>2. CASE RefuseText(p)
  <2>1. pc[p] # "idle" /\ Exit(p, 2) /\ raced' = raced
        /\ UNCHANGED <<registry, profiles, dirs, marks, seen>>
    BY <1>2 DEF RefuseText
  <2>2. First(job[p].todo) \in Kinds
    BY <1>1, <1>2, FirstIn DEF RefuseText, Arguments
  <2>3. job[p].number \in 1 .. MaxCommands
    BY <1>1, <2>1, EditorsAssumption DEF InPlace, Arguments, Texts
  <2>4. artifacts' \subseteq Artifacts
    BY <1>1, <1>2, <2>2, <2>3 DEF RefuseText, ArtifactOf, Artifacts, TypeOK
  <2> QED
    BY <2>1, <2>4, ExitMoves DEF Moves, Marked, TypeOK, seen
<1>3. CASE SaveProfile(p)
  <2>1. pc[p] # "idle" /\ Exit(p, 0) /\ Replaces(p, "profile")
        /\ UNCHANGED <<registry, dirs, artifacts, marks, seen>>
        /\ profiles' = [profiles EXCEPT ![job[p].of] = draft[p]]
    BY <1>3 DEF SaveProfile
  <2>2. profiles' \in [Candidates -> Profiles]
    BY <1>1, <2>1 DEF TypeOK
  <2> QED
    BY <2>1, <2>2, ExitMoves, RacedType DEF Moves, Marked, TypeOK, seen
<1>4. CASE LookAtPointers(p) \/ Validate(p)
  <2>1. pc[p] # "idle" /\ raced' = raced /\ UNCHANGED <<files, seen>>
        /\ \E code \in 0 .. 2 : Exit(p, code)
    <3>1. /\ pc[p] \in {"pointers", "check"} /\ raced' = raced /\ UNCHANGED <<files, seen>>
          /\ Exit(p, 0) \/ Exit(p, 2)
      BY ZenonT(60), <1>4 DEF LookAtPointers, Validate
    <3>2. 0 \in 0 .. 2 /\ 2 \in 0 .. 2
      OBVIOUS
    <3> QED
      BY <3>1, <3>2
  <2> QED
    BY <2>1, ExitMoves DEF Moves, Marked, TypeOK, files, seen
<1>5. CASE StoreMarks(p)
  <2>1. pc[p] # "idle" /\ Exit(p, 0) /\ Replaces(p, "marks")
        /\ UNCHANGED <<registry, profiles, dirs, artifacts, seen>>
        /\ marks' = [is |-> "valid", of |-> [sheet[p] EXCEPT ![job[p].at] = job[p].to]]
    BY <1>5 DEF StoreMarks
  <2>2. marks' \in Marks
    BY <1>1, <2>1 DEF Marks, Sheets, Arguments
  <2> QED
    BY <2>1, <2>2, ExitMoves, RacedType DEF Moves, Marked, TypeOK, seen
<1> QED
  BY <1>2, <1>3, <1>4, <1>5

LEMMA LookMoves ==
  ASSUME TypeOK, NEW p \in Procs, LookAtDirs(p)
  PROVE  Moves(p) /\ UNCHANGED <<files, seen, raced>>
<1>1. pc[p] # "idle" /\ UNCHANGED <<files, seen, raced>>
  BY DEF LookAtDirs
<1>2. CASE dirs[job[p].of] = {"base", "proofs"}
  <2>1. Goto(p, "pointers") /\ UNCHANGED <<job, copies, exit>>
    BY <1>2 DEF LookAtDirs
  <2>2. pc' \in [Procs -> Steps] /\ pc'[p] = "pointers" /\ \A q \in Procs \ {p} : pc'[q] = pc[q]
    BY <2>1, GotoType DEF Steps
  <2> QED
    BY <1>1, <2>1, <2>2 DEF Moves, Goes, Others, Marked, TypeOK, files, seen, copies
<1>3. CASE dirs[job[p].of] # {"base", "proofs"}
  <2>1. Exit(p, 2)
    BY <1>3 DEF LookAtDirs
  <2> QED
    BY <1>1, <2>1, ExitMoves DEF Moves, Marked, TypeOK, files, seen
<1> QED
  BY <1>2, <1>3

LEMMA ReadMarksMoves ==
  ASSUME TypeOK, NEW p \in Procs, ReadMarks(p)
  PROVE  /\ Moves(p) /\ Goes(p) /\ UNCHANGED <<files, mine, draft, seen>>
         /\ pc'[p] = "store" /\ (job'[p].blind <=> marks.is = "invalid")
         /\ sheet'[p] = IF marks.is = "valid" THEN marks.of ELSE EmptySheet
<1> DEFINE blind == marks.is = "invalid"
           new == IF marks.is = "valid" THEN marks.of ELSE EmptySheet
           j == [job[p] EXCEPT !.blind = blind]
<1>1. /\ pc[p] # "idle" /\ Reads(p) /\ Goto(p, "store") /\ UNCHANGED <<files, mine, draft, exit, seen>>
      /\ sheet' = [sheet EXCEPT ![p] = new] /\ job' = [job EXCEPT ![p] = j]
  BY DEF ReadMarks
<1>2. blind \in BOOLEAN /\ job[p] \in Arguments /\ new \in Sheets
  BY ConstantTypes DEF TypeOK, Marks
<1> HIDE DEF blind, new
<1>3. /\ j \in Arguments /\ j.op = job[p].op /\ j.of = job[p].of
      /\ j.number = job[p].number /\ j.sure = job[p].sure /\ j.blind = blind
  BY <1>2 DEF Arguments
<1> HIDE DEF j
<1>4. /\ job' \in [Procs -> Arguments] /\ job'[p] = j
      /\ sheet' \in [Procs -> Sheets] /\ sheet'[p] = new
      /\ \A q \in Procs \ {p} : job'[q] = job[q] /\ sheet'[q] = sheet[q]
  BY <1>1, <1>2, <1>3 DEF TypeOK
<1>5. pc' \in [Procs -> Steps] /\ pc'[p] = "store" /\ \A q \in Procs \ {p} : pc'[q] = pc[q]
  BY <1>1, GotoType DEF Steps
<1>6. raced' \subseteq Procs \X {"registry", "profile", "marks"}
  BY <1>1, RacedType
<1>7. Others(p) /\ Marked(p) /\ Goes(p)
  BY <1>1, <1>3, <1>4, <1>5, RacedType DEF Others, Marked, Goes, files
<1>8. TypeOK'
  BY <1>1, <1>4, <1>5, <1>6 DEF TypeOK, files, seen
<1> QED
  BY <1>1, <1>3, <1>4, <1>5, <1>7, <1>8 DEF Moves, blind, new

LEMMA StepMoves ==
  ASSUME TypeOK, InPlace, NEW p \in Procs, Step(p)
  PROVE  Moves(p)
  BY LoadMoves, PlainMoves, RegisterMoves, OpenMoves, WriteArtifactMoves, EndMoves, LookMoves,
     ReadMarksMoves DEF Step

LEMMA SpoilMoves ==
  ASSUME TypeOK, Spoil
  PROVE  /\ TypeOK' /\ UNCHANGED <<registry, profiles, dirs, artifacts, process, bootstrapped, raced>>
         /\ marks'.is = "invalid" /\ marks.is = "valid" /\ marks'.of = marks.of
  BY EditorsAssumption DEF Spoil, TypeOK, Marks, process, copies

\* A step is one of these.
LEMMA Shapes ==
  ASSUME TypeOK, InPlace, [Next]_vars
  PROVE  \/ vars' = vars
         \/ Spoil
         \/ \E p \in Procs : Others(p) /\ Marked(p) /\ Command(p) /\ Starts(p)
         \/ \E p \in Procs : Others(p) /\ Marked(p) /\ Kill(p) /\ Stops(p)
         \/ \E p \in Procs : Others(p) /\ Marked(p) /\ Step(p) /\ (Goes(p) \/ Stops(p))
  BY CommandMoves, KillMoves, StepMoves DEF Next, Moves

LEMMA TypeStep ==
  ASSUME TypeOK, InPlace, [Next]_vars
  PROVE  TypeOK'
<1>1. CASE vars' = vars
  BY <1>1 DEF TypeOK, vars, files, process, copies, seen
<1> QED
  BY <1>1, CommandMoves, KillMoves, StepMoves, SpoilMoves DEF Next, Moves

-----------------------------------------------------------------------------
(* Where each command is. *)

LEMMA StepsTable ==
  /\ StepsOf.list = {"load", "default"}
  /\ StepsOf.validate = {"load", "default", "check"}
  /\ StepsOf.add = {"load", "default", "dirs", "write", "register"}
  /\ StepsOf.bootstrap = {"load", "default", "dirs", "proofs", "look", "write", "register"}
  /\ StepsOf.ingest = {"open", "ingest"}
  /\ StepsOf.doctor = {"doctor", "pointers"}
  /\ StepsOf.mark = {"read", "store"}
  BY DEF StepsOf, Registering

LEMMA CommandOf ==
  ASSUME TypeOK, InPlace, NEW p \in Procs
  PROVE  /\ pc[p] \in {"load", "default"} => job[p].op \in {"list", "validate", "add", "bootstrap"}
         /\ pc[p] = "check" => job[p].op = "validate"
         /\ pc[p] \in {"dirs", "write", "register"} => job[p].op \in {"add", "bootstrap"}
         /\ pc[p] \in {"proofs", "look"} => job[p].op = "bootstrap"
         /\ pc[p] \in {"open", "ingest"} => job[p].op = "ingest"
         /\ pc[p] \in {"doctor", "pointers"} => job[p].op = "doctor"
         /\ pc[p] \in {"read", "store"} => job[p].op = "mark"
<1>1. job[p].op \in {"list", "validate", "add", "bootstrap", "ingest", "doctor", "mark"}
  BY DEF TypeOK, Arguments, Ops
<1>2. pc[p] # "idle" => pc[p] \in StepsOf[job[p].op]
  BY DEF InPlace
<1> QED
  BY <1>1, <1>2, StepsTable

\* The step that a command takes next.
LEMMA NextSteps ==
  ASSUME TypeOK, InPlace, NEW p \in Procs, Step(p)
  PROVE  \/ Stops(p)
         \/ pc[p] = "load" /\ pc'[p] = "default"
         \/ /\ pc[p] \in {"load", "default"}
            /\ pc'[p] = IF job[p].op = "validate" THEN "check" ELSE "dirs"
            /\ job[p].op # "list"
         \/ pc[p] = "dirs" /\ pc'[p] = IF job[p].op = "add" THEN "write" ELSE "proofs"
         \/ pc[p] = "proofs" /\ pc'[p] = "look"
         \/ pc[p] = "look" /\ pc'[p] \in {"register", "write"}
         \/ pc[p] = "write" /\ pc'[p] = "register"
         \/ pc[p] = "open" /\ pc'[p] = "ingest"
         \/ pc[p] = "ingest" /\ pc'[p] = "ingest"
         \/ pc[p] = "doctor" /\ pc'[p] = "pointers"
         \/ pc[p] = "read" /\ pc'[p] = "store"
<1>1. CASE Load(p) \/ SaveDefault(p)
  <2>1. \E ids \in SUBSET Candidates : AfterLoad(p, ids) /\ pc[p] \in {"load", "default"}
    BY <1>1, EditorsAssumption DEF Load, SaveDefault, TypeOK
  <2> QED
    BY <2>1, AfterLoadMoves
<1>2. CASE LoadFindsNone(p) \/ MakeDirs(p) \/ MakeProofs(p) \/ LookForProfile(p) \/ WriteProfile(p)
  BY <1>2 DEF LoadFindsNone, MakeDirs, MakeProofs, LookForProfile, WriteProfile, Goto, TypeOK
<1>3. CASE Open(p)
  BY <1>3, OpenMoves, GoneType DEF Open, Exit, Goto, TypeOK, Stops
<1>4. CASE LookAtDirs(p)
  BY <1>4, GoneType DEF LookAtDirs, Exit, Goto, TypeOK, Stops
<1>5. CASE Register(p) \/ RefuseText(p) \/ SaveProfile(p) \/ LookAtPointers(p) \/ Validate(p) \/ StoreMarks(p)
  BY <1>5, RegisterMoves, EndMoves
<1>6. CASE WriteArtifact(p)
  BY <1>6 DEF WriteArtifact
<1>7. CASE ReadMarks(p)
  BY <1>7, ReadMarksMoves DEF ReadMarks
<1> QED
  BY <1>1, <1>2, <1>3, <1>4, <1>5, <1>6, <1>7 DEF Step

LEMMA InPlaceStays ==
  ASSUME TypeOK, InPlace, [Next]_vars
  PROVE  InPlace'
<1>1. CASE vars' = vars
  BY <1>1 DEF InPlace, vars, process
<1>2. CASE Spoil
  BY <1>2 DEF Spoil, InPlace, process
<1>3. ASSUME NEW p \in Procs, Others(p), Starts(p) \/ Stops(p)
      PROVE  InPlace'
  BY <1>3 DEF InPlace, Others, Starts, Stops
<1>4. ASSUME NEW p \in Procs, Others(p), Step(p), Goes(p)
      PROVE  InPlace'
  <2>1. pc[p] # "idle" /\ job[p].number # 0 /\ exit[p] = 1 /\ pc[p] \in StepsOf[job[p].op]
    BY <1>4 DEF Goes, InPlace
  <2>2. pc'[p] \in StepsOf[job[p].op]
    <3>1. ~Stops(p)
      BY <1>4 DEF Goes, Stops
    <3>2. job[p].op \in Ops
      BY DEF TypeOK, Arguments
    <3> QED
      BY <1>4, <3>1, <3>2, NextSteps, CommandOf, StepsTable DEF Ops
  <2> QED
    BY <1>4, <2>1, <2>2 DEF Goes, InPlace, Others
<1> QED
  BY <1>1, <1>2, <1>3, <1>4, Shapes

-----------------------------------------------------------------------------
(* What bootstrap has made is there, and stays. *)

\* The directories that a command has made by the step at which it is.
DirsMade ==
    \A p \in Procs :
        /\ pc[p] \in {"proofs", "look", "write"} => "base" \in dirs[job[p].of]
        /\ job[p].op = "bootstrap" /\ pc[p] \in {"look", "write", "register"} =>
              dirs[job[p].of] = {"base", "proofs"}

\* The profile that a command goes on with is there, and so is what a
\* bootstrap that returned has made.
ProfileMade ==
    /\ \A p \in Procs : /\ pc[p] = "register" => profiles[job[p].of].is
                        /\ pc[p] = "ingest" => draft[p].is
                        /\ job[p].sure => job[p].of \in bootstrapped
    /\ \A c \in bootstrapped : profiles[c].is /\ dirs[c] = {"base", "proofs"}

\* A pointer names an artifact that was written before it.
Backed(c, profile) ==
    \A k \in Kinds : profile.points[k] # 0 =>
        [of |-> c, kind |-> k, text |-> profile.points[k]] \in artifacts
PointersBacked ==
    /\ \A c \in Candidates : Backed(c, profiles[c])
    /\ \A p \in Procs : pc[p] = "ingest" => Backed(job[p].of, draft[p])

\* Which step writes which file.
LEMMA Writers ==
  ASSUME NEW p \in Procs, Step(p)
  PROVE  /\ dirs' = dirs \/ MakeDirs(p) \/ MakeProofs(p)
         /\ profiles' = profiles \/ WriteProfile(p) \/ SaveProfile(p)
         /\ registry' = registry \/ SaveDefault(p) \/ Register(p)
         /\ artifacts' = artifacts \/ WriteArtifact(p) \/ RefuseText(p)
         /\ marks' = marks \/ StoreMarks(p)
         /\ bootstrapped' = bootstrapped \/ Register(p)
  BY DEF Step, Load, LoadFindsNone, SaveDefault, MakeDirs, MakeProofs, LookForProfile, WriteProfile,
         Register, Open, WriteArtifact, RefuseText, SaveProfile, LookAtDirs, LookAtPointers,
         Validate, ReadMarks, StoreMarks, Done, files, seen

\* Which step a command takes from where it is.
LEMMA StepAt ==
  ASSUME NEW p \in Procs, Step(p)
  PROVE  /\ pc[p] # "idle"
         /\ pc[p] = "load" => Load(p) \/ LoadFindsNone(p)
         /\ pc[p] = "default" => SaveDefault(p)
         /\ pc[p] = "dirs" => MakeDirs(p)
         /\ pc[p] = "proofs" => MakeProofs(p)
         /\ pc[p] = "look" => LookForProfile(p)
         /\ pc[p] = "write" => WriteProfile(p)
         /\ pc[p] = "register" => Register(p)
         /\ pc[p] = "open" => Open(p)
         /\ pc[p] = "ingest" => WriteArtifact(p) \/ RefuseText(p) \/ SaveProfile(p)
         /\ pc[p] = "doctor" => LookAtDirs(p)
         /\ pc[p] = "pointers" => LookAtPointers(p)
         /\ pc[p] = "read" => ReadMarks(p)
         /\ pc[p] = "store" => StoreMarks(p)
  BY DEF Step, Load, LoadFindsNone, SaveDefault, MakeDirs, MakeProofs, LookForProfile, WriteProfile,
         Register, Open, WriteArtifact, RefuseText, SaveProfile, LookAtDirs, LookAtPointers,
         Validate, ReadMarks, StoreMarks

LEMMA Quiet ==
  ASSUME NEW p \in Procs, Command(p) \/ Kill(p)
  PROVE  UNCHANGED files /\ UNCHANGED <<bootstrapped, raced>>
  BY DEF Command, Kill, List, Add, Bootstrap, Ingest, Doctor, Mark, Give, seen

LEMMA FilesGrow ==
  ASSUME TypeOK, InPlace, ProfileMade, [Next]_vars
  PROVE  /\ \A c \in Candidates : dirs[c] \subseteq dirs'[c] /\ (profiles[c].is => profiles'[c].is)
         /\ artifacts \subseteq artifacts' /\ bootstrapped \subseteq bootstrapped'
<1>1. ASSUME NEW p \in Procs, Step(p)
      PROVE  /\ \A c \in Candidates : dirs[c] \subseteq dirs'[c] /\ (profiles[c].is => profiles'[c].is)
             /\ artifacts \subseteq artifacts' /\ bootstrapped \subseteq bootstrapped'
  <2>1. \A c \in Candidates : dirs[c] \subseteq dirs'[c]
    BY <1>1, Writers DEF MakeDirs, MakeProofs, TypeOK
  <2>2. \A c \in Candidates : profiles[c].is => profiles'[c].is
    BY <1>1, Writers, ConstantTypes DEF WriteProfile, SaveProfile, TypeOK, ProfileMade
  <2>3. artifacts \subseteq artifacts' /\ bootstrapped \subseteq bootstrapped'
    BY <1>1, Writers DEF WriteArtifact, RefuseText, Register, Done
  <2> QED
    BY <2>1, <2>2, <2>3
<1>2. CASE Spoil
  BY <1>2 DEF Spoil
<1>3. CASE vars' = vars
  BY <1>3 DEF vars, files, seen
<1>4. ASSUME NEW p \in Procs, Command(p) \/ Kill(p)
      PROVE  dirs' = dirs /\ profiles' = profiles /\ artifacts' = artifacts /\ bootstrapped' = bootstrapped
  BY <1>4, Quiet DEF files
<1> QED
  BY <1>1, <1>2, <1>3, <1>4 DEF Next

LEMMA DirsStay ==
  ASSUME TypeOK, InPlace, ProfileMade, DirsMade, [Next]_vars
  PROVE  DirsMade'
<1>0. /\ \A c \in Candidates : dirs[c] \subseteq dirs'[c] /\ dirs'[c] \subseteq {"base", "proofs"}
      /\ \A p \in Procs : job[p].of \in Candidates
  BY FilesGrow, TypeStep DEF TypeOK, Arguments
<1>1. CASE vars' = vars \/ Spoil
  BY <1>1 DEF DirsMade, Spoil, vars, files, process, copies
<1>2. ASSUME NEW p \in Procs, Others(p), Starts(p) \/ Stops(p)
      PROVE  DirsMade'
  BY <1>0, <1>2 DEF DirsMade, Others, Starts, Stops
<1>3. ASSUME NEW p \in Procs, Others(p), Step(p), Goes(p)
      PROVE  DirsMade'
  <2> DEFINE c == job[p].of
  <2>1. ~Stops(p) /\ job'[p].op = job[p].op /\ job'[p].of = c
    BY <1>3 DEF Goes, Stops
  <2>2. CASE pc'[p] \in {"proofs", "look", "write", "register"}
    <3>1. pc[p] = "dirs" => MakeDirs(p)
      BY <1>3, StepAt
    <3>2. pc[p] = "proofs" => MakeProofs(p)
      BY <1>3, StepAt
    <3>3. pc[p] = "dirs" => "base" \in dirs'[c]
      BY <1>0, <3>1 DEF MakeDirs, TypeOK
    <3>4. pc[p] = "proofs" => "proofs" \in dirs'[c]
      BY <1>0, <3>2 DEF MakeProofs, TypeOK
    <3>5. pc'[p] \in {"proofs", "look", "write"} => "base" \in dirs'[c]
      BY <1>0, <1>3, <2>1, <2>2, <3>3, NextSteps DEF DirsMade
    <3>6. job[p].op = "bootstrap" /\ pc'[p] \in {"look", "write", "register"} => dirs'[c] = {"base", "proofs"}
      BY <1>0, <1>3, <2>1, <2>2, <3>4, <3>5, NextSteps DEF DirsMade
    <3> QED
      BY <1>0, <1>3, <2>1, <3>5, <3>6 DEF DirsMade, Others
  <2>3. CASE pc'[p] \notin {"proofs", "look", "write", "register"}
    <3>1. \A q \in Procs \ {p} : pc'[q] = pc[q] /\ job'[q] = job[q]
      BY <1>3 DEF Others
    <3> QED
      BY <1>0, <2>3, <3>1 DEF DirsMade
  <2> QED
    BY <2>2, <2>3
<1> QED
  BY <1>1, <1>2, <1>3, Shapes

LEMMA ProfileStays ==
  ASSUME TypeOK, InPlace, DirsMade, ProfileMade, [Next]_vars
  PROVE  ProfileMade'
<1>0. /\ \A c \in Candidates : /\ dirs[c] \subseteq dirs'[c] /\ dirs'[c] \subseteq {"base", "proofs"}
                               /\ profiles[c].is => profiles'[c].is
      /\ bootstrapped \subseteq bootstrapped' /\ bootstrapped' \subseteq Candidates
      /\ \A p \in Procs : job[p].of \in Candidates
  BY FilesGrow, TypeStep DEF TypeOK, Arguments
<1>1. CASE vars' = vars \/ Spoil
  BY <1>1 DEF ProfileMade, Spoil, vars, files, process, copies, seen
<1>2. ASSUME NEW c \in bootstrapped' PROVE profiles'[c].is /\ dirs'[c] = {"base", "proofs"}
  <2>1. CASE c \in bootstrapped
    BY <1>0, <2>1 DEF ProfileMade
  <2>2. CASE c \notin bootstrapped
    <3>1. PICK p \in Procs : Register(p) /\ c = job[p].of /\ job[p].op = "bootstrap"
      <4>1. ~(vars' = vars) /\ ~Spoil
        BY <2>2 DEF vars, seen, Spoil
      <4>2. PICK p \in Procs : Step(p)
        BY <2>2, <4>1, Quiet DEF Next
      <4> QED
        BY <2>2, <4>2, Writers DEF Register, Done
    <3>2. pc[p] = "register"
      BY <3>1 DEF Register
    <3> QED
      BY <1>0, <3>1, <3>2 DEF ProfileMade, DirsMade
  <2> QED
    BY <2>1, <2>2
<1>3. ASSUME NEW p \in Procs, Others(p), Starts(p) \/ Stops(p)
      PROVE  ProfileMade'
  BY <1>0, <1>2, <1>3, ConstantTypes DEF ProfileMade, Others, Starts, Stops
<1>4. ASSUME NEW p \in Procs, Others(p), Step(p), Goes(p)
      PROVE  ProfileMade'
  <2>1. job'[p].sure = job[p].sure /\ job'[p].of = job[p].of /\ ~Stops(p)
    BY <1>4 DEF Goes, Stops
  <2>2. pc'[p] = "register" => profiles'[job[p].of].is
    <3> SUFFICES ASSUME pc'[p] = "register" PROVE profiles'[job[p].of].is
      OBVIOUS
    <3>1. pc[p] \in {"look", "write"}
      BY <1>4, <2>1, NextSteps
    <3>2. LookForProfile(p) \/ WriteProfile(p)
      BY <1>4, <3>1, StepAt
    <3>3. CASE LookForProfile(p)
      BY <1>0, <3>3 DEF LookForProfile, Goto, TypeOK
    <3>4. CASE WriteProfile(p)
      BY <1>0, <3>4, ConstantTypes DEF WriteProfile, TypeOK
    <3> QED
      BY <3>2, <3>3, <3>4
  <2>3. pc'[p] = "ingest" => draft'[p].is
    <3> SUFFICES ASSUME pc'[p] = "ingest" PROVE draft'[p].is
      OBVIOUS
    <3>1. pc[p] \in {"open", "ingest"}
      BY <1>4, <2>1, NextSteps
    <3>2. CASE pc[p] = "open"
      <4>1. Open(p)
        BY <1>4, <3>2, StepAt
      <4>2. draft' = [draft EXCEPT ![p] = IF profiles[job[p].of].is THEN profiles[job[p].of] ELSE Blank]
        BY <2>1, <4>1, GoneType DEF Open, Exit, Stops
      <4> QED
        BY <4>2, ConstantTypes DEF TypeOK
    <3>3. CASE pc[p] = "ingest"
      <4>1. ~RefuseText(p) /\ ~SaveProfile(p)
        BY <2>1, EndMoves
      <4>2. WriteArtifact(p)
        BY <1>4, <3>3, <4>1, StepAt
      <4> QED
        BY <3>3, <4>2, WriteArtifactMoves DEF ProfileMade
    <3> QED
      BY <3>1, <3>2, <3>3
  <2> QED
    BY <1>0, <1>2, <1>4, <2>1, <2>2, <2>3 DEF ProfileMade, Others
<1> QED
  BY <1>1, <1>3, <1>4, Shapes

LEMMA PointersStay ==
  ASSUME TypeOK, InPlace, ProfileMade, PointersBacked, [Next]_vars
  PROVE  PointersBacked'
<1>0. /\ artifacts \subseteq artifacts' /\ \A p \in Procs : job[p].of \in Candidates
      /\ \A c, profile : Backed(c, profile) => Backed(c, profile)'
  BY FilesGrow DEF TypeOK, Arguments, Backed
<1>1. CASE vars' = vars \/ Spoil
  BY <1>1 DEF PointersBacked, Backed, Spoil, vars, files, process, copies
<1>2. ASSUME NEW p \in Procs, Others(p), (Command(p) /\ Starts(p)) \/ (Kill(p) /\ Stops(p))
      PROVE  PointersBacked'
  <2>1. profiles' = profiles /\ artifacts' = artifacts
    BY <1>2, Quiet DEF files
  <2> QED
    BY <1>2, <2>1 DEF PointersBacked, Backed, Others, Starts, Stops
<1>3. ASSUME NEW p \in Procs, Others(p), Step(p)
      PROVE  \A q \in Procs \ {p} : pc'[q] = "ingest" => Backed(job[q].of, draft[q])' /\ job'[q] = job[q]
  <2> TAKE q \in Procs \ {p}
  <2>1. draft'[q] = draft[q] /\ job'[q] = job[q] /\ pc'[q] = pc[q]
    BY <1>3 DEF Others
  <2> QED
    BY <1>0, <2>1 DEF PointersBacked, Backed
<1>4. ASSUME NEW p \in Procs, Step(p), NEW c \in Candidates
      PROVE  Backed(c, profiles[c])'
  <2>1. CASE profiles'[c] = profiles[c]
    BY <1>0, <2>1 DEF PointersBacked, Backed
  <2>2. CASE profiles'[c] # profiles[c]
    <3>1. \/ WriteProfile(p) /\ profiles'[c] = Blank
          \/ SaveProfile(p) /\ profiles'[c] = draft[p] /\ c = job[p].of
      BY <1>4, <2>2, Writers DEF WriteProfile, SaveProfile, TypeOK
    <3>2. CASE WriteProfile(p) /\ profiles'[c] = Blank
      BY <3>2, ConstantTypes DEF Backed
    <3>3. CASE SaveProfile(p) /\ profiles'[c] = draft[p] /\ c = job[p].of
      <4>1. Backed(c, draft[p])
        BY <3>3 DEF SaveProfile, PointersBacked
      <4> QED
        BY <1>0, <3>3, <4>1 DEF Backed
    <3> QED
      BY <3>1, <3>2, <3>3
  <2> QED
    BY <2>1, <2>2
<1>5. ASSUME NEW p \in Procs, Step(p), Goes(p), pc'[p] = "ingest"
      PROVE  Backed(job[p].of, draft[p])' /\ job'[p].of = job[p].of
  <2>1. pc[p] \in {"open", "ingest"} /\ ~Stops(p) /\ job'[p].of = job[p].of
    BY <1>5, NextSteps DEF Goes, Stops
  <2>2. CASE Open(p)
    <3>1. draft' = [draft EXCEPT ![p] = IF profiles[job[p].of].is THEN profiles[job[p].of] ELSE Blank]
      BY <2>1, <2>2, GoneType DEF Open, Exit, Stops
    <3>2. draft'[p] \in {profiles[job[p].of], Blank}
      BY <3>1 DEF TypeOK
    <3> QED
      BY <1>0, <2>1, <3>2, ConstantTypes DEF PointersBacked, Backed
  <2>3. CASE WriteArtifact(p)
    <3>1. pc[p] = "ingest" /\ artifacts \subseteq artifacts'
      BY <2>3, WriteArtifactMoves DEF WriteArtifact
    <3>2. PICK k \in Kinds :
            /\ [of |-> job[p].of, kind |-> k, text |-> job[p].number] \in artifacts'
            /\ draft'[p].points = [draft[p].points EXCEPT ![k] = job[p].number]
      BY <2>3, WriteArtifactMoves
    <3>3. Backed(job[p].of, draft[p]) /\ draft[p].points \in [Kinds -> Texts]
      BY <3>1 DEF PointersBacked, TypeOK, Profiles
    <3> QED
      BY <2>1, <3>1, <3>2, <3>3 DEF Backed
  <2>4. ~RefuseText(p) /\ ~SaveProfile(p)
    BY <2>1, EndMoves
  <2> QED
    BY <1>5, <2>1, <2>2, <2>3, <2>4, StepAt
<1>6. ASSUME NEW p \in Procs, Others(p), Step(p), Goes(p) \/ Stops(p)
      PROVE  PointersBacked'
  BY <1>3, <1>4, <1>5, <1>6 DEF PointersBacked, Stops
<1> QED
  BY <1>1, <1>2, <1>6, Shapes

\* doctor finds fault with none of it.
LEMMA DoctorFindsNothing ==
  ASSUME TypeOK, InPlace, ProfileMade, PointersBacked, [Next]_vars,
         NEW p \in Procs, job[p].op = "doctor", job[p].sure
  PROVE  exit'[p] # 2
<1>1. pc[p] # "idle" /\ pc[p] \in {"doctor", "pointers"} /\ exit[p] = 1
  BY ConstantTypes, StepsTable DEF InPlace
<1>2. /\ job[p].of \in Candidates /\ profiles[job[p].of].is
      /\ dirs[job[p].of] = {"base", "proofs"} /\ Backed(job[p].of, profiles[job[p].of])
  BY DEF ProfileMade, PointersBacked, TypeOK, Arguments
<1>3. CASE Step(p)
  <2>1. CASE pc[p] = "doctor"
    BY <1>1, <1>2, <1>3, <2>1, StepAt DEF LookAtDirs
  <2>2. CASE pc[p] = "pointers"
    <3>1. LookAtPointers(p)
      BY <1>3, <2>2, StepAt
    <3>2. Exit(p, 0)
      BY <1>2, <3>1 DEF LookAtPointers, Readable, Backed
    <3> QED
      BY <3>2, ExitType
  <2> QED
    BY <1>1, <2>1, <2>2
<1>4. CASE vars' = vars \/ Spoil \/ Kill(p) \/ \E q \in Procs \ {p} : Others(q)
  BY <1>1, <1>4 DEF vars, process, Spoil, Kill, Others
<1>5. ~Command(p)
  BY <1>1, CommandMoves DEF Starts
<1> QED
  BY <1>3, <1>4, <1>5, Shapes

-----------------------------------------------------------------------------
(* What a command holds is the file, unless it is marked. *)

\* A registry that was read and one that was not there.
RegistryHeld ==
    \A p \in Procs : <<p, "registry">> \notin raced =>
        /\ pc[p] = "default" => registry = {}
        /\ pc[p] \in Registering => registry \subseteq mine[p]

LEMMA RegistryStays ==
  ASSUME TypeOK, InPlace, RegistryHeld, [Next]_vars
  PROVE  RegistryHeld'
<1>1. CASE vars' = vars \/ Spoil
  BY <1>1 DEF RegistryHeld, Spoil, vars, files, process, copies
<1>2. ASSUME NEW p \in Procs, Others(p), Marked(p), NEW q \in Procs \ {p}, <<q, "registry">> \notin raced'
      PROVE  /\ pc'[q] = "default" => registry' = {}
             /\ pc'[q] \in Registering => registry' \subseteq mine'[q]
  <2>1. pc'[q] = pc[q] /\ mine'[q] = mine[q] /\ <<q, "registry">> \notin raced
    BY <1>2 DEF Others
  <2>2. pc[q] # "idle" => registry' = registry
    BY <1>2 DEF Marked
  <2> QED
    BY <2>1, <2>2 DEF RegistryHeld, Registering
<1>3. ASSUME NEW p \in Procs, Others(p), Marked(p), Starts(p) \/ Stops(p)
      PROVE  RegistryHeld'
  BY <1>2, <1>3 DEF RegistryHeld, Starts, Stops, Registering
<1>4. ASSUME NEW p \in Procs, Step(p), ~Stops(p), <<p, "registry">> \notin raced'
      PROVE  /\ pc'[p] = "default" => registry' = {}
             /\ pc'[p] \in Registering => registry' \subseteq mine'[p]
  <2>1. CASE pc'[p] = "default"
    <3>1. pc[p] = "load"
      BY <1>4, <2>1, NextSteps
    <3>2. LoadFindsNone(p)
      <4>1. ASSUME Load(p) PROVE FALSE
        BY <1>4, <2>1, <3>1, <4>1, AfterLoadMoves DEF Load, TypeOK
      <4> QED
        BY <1>4, <3>1, <4>1, StepAt
    <3> QED
      BY <2>1, <3>2 DEF LoadFindsNone, files, Registering
  <2>2. CASE pc'[p] \in Registering
    <3>1. CASE pc[p] \in {"load", "default"}
      <4>1. Load(p) \/ SaveDefault(p)
        BY <1>4, <2>2, <3>1, StepAt DEF LoadFindsNone, Goto, TypeOK, Registering
      <4>2. \E ids \in SUBSET Candidates : AfterLoad(p, ids) /\ registry' = ids
        BY <4>1, EditorsAssumption DEF Load, SaveDefault, TypeOK, files
      <4>3. mine'[p] = registry'
        BY <1>4, <3>1, <4>2, AfterLoadMoves
      <4> QED
        BY <2>2, <4>3 DEF Registering
    <3>2. CASE pc[p] \in {"dirs", "proofs", "look", "write"}
      <4>1. MakeDirs(p) \/ MakeProofs(p) \/ LookForProfile(p) \/ WriteProfile(p)
        BY <1>4, <3>2, StepAt
      <4>2. registry' = registry /\ mine' = mine
        BY <4>1 DEF MakeDirs, MakeProofs, LookForProfile, WriteProfile, files, copies
      <4>3. <<p, "registry">> \notin raced
        BY <1>4, <4>1, RacedType DEF MakeDirs, MakeProofs, LookForProfile, WriteProfile, Replaces
      <4> QED
        BY <2>2, <3>2, <4>2, <4>3 DEF RegistryHeld, Registering
    <3> QED
      BY <1>4, <2>2, <3>1, <3>2, NextSteps DEF Registering
  <2> QED
    BY <2>1, <2>2
<1>5. ASSUME NEW p \in Procs, Others(p), Marked(p), Step(p), ~Stops(p)
      PROVE  RegistryHeld'
  BY <1>2, <1>4, <1>5 DEF RegistryHeld
<1> QED
  BY <1>1, <1>3, <1>5, Shapes DEF Goes, Stops

\* Who drops a candidate has read the registry before another step wrote it.
LEMMA RegistryLoses ==
  ASSUME TypeOK, InPlace, RegistryHeld, [Next]_vars, NEW c \in registry \ registry'
  PROVE  \E p \in Procs : pc[p] \in {"default", "register"} /\ <<p, "registry">> \in raced
<1>1. registry' # registry
  OBVIOUS
<1>2. PICK p \in Procs : Step(p)
  BY <1>1, Quiet DEF Next, vars, files, Spoil
<1>3. CASE SaveDefault(p)
  BY <1>3 DEF SaveDefault, RegistryHeld
<1>4. CASE Register(p)
  <2>1. registry' = mine[p] \cup {job[p].of} /\ pc[p] = "register"
    BY <1>1, <1>4 DEF Register
  <2> QED
    BY <2>1 DEF RegistryHeld, Registering
<1> QED
  BY <1>1, <1>2, <1>3, <1>4, Writers

\* The user state that was read.
MarksHeld ==
    /\ marks.is = "missing" => marks.of = EmptySheet
    /\ \A p \in Procs : pc[p] = "store" /\ <<p, "marks">> \notin raced =>
          job[p].blind \/ sheet[p] = marks.of

LEMMA MarksStay ==
  ASSUME TypeOK, InPlace, MarksHeld, [Next]_vars
  PROVE  MarksHeld'
<1>1. CASE vars' = vars
  BY <1>1 DEF MarksHeld, vars, files, process, copies
<1>2. CASE Spoil
  <2>1. UNCHANGED <<pc, job, sheet, raced>> /\ marks'.is = "invalid" /\ marks'.of = marks.of
    BY <1>2, SpoilMoves DEF process, copies
  <2> QED
    BY <2>1 DEF MarksHeld
<1>3. ASSUME NEW p \in Procs, Others(p), Marked(p), NEW q \in Procs \ {p},
             pc'[q] = "store", <<q, "marks">> \notin raced'
      PROVE  job'[q].blind \/ sheet'[q] = marks'.of
  <2>1. pc'[q] = pc[q] /\ job'[q] = job[q] /\ sheet'[q] = sheet[q] /\ <<q, "marks">> \notin raced
    BY <1>3 DEF Others
  <2>2. marks' = marks
    BY <1>3, <2>1 DEF Marked
  <2> QED
    BY <1>3, <2>1, <2>2 DEF MarksHeld
<1>4. ASSUME NEW p \in Procs, Command(p) \/ Kill(p) \/ Step(p)
      PROVE  marks'.is = "missing" => marks'.of = EmptySheet
  BY <1>4, Quiet, Writers DEF MarksHeld, StoreMarks, files
<1>5. ASSUME NEW p \in Procs, Step(p), ~Stops(p), pc'[p] = "store"
      PROVE  job'[p].blind \/ sheet'[p] = marks'.of
  <2>1. pc[p] = "read"
    BY <1>5, NextSteps
  <2>2. ReadMarks(p)
    BY <1>5, <2>1, StepAt
  <2> QED
    BY <2>2, ReadMarksMoves DEF MarksHeld, TypeOK, Marks, files
<1>6. ASSUME NEW p \in Procs, Others(p), Marked(p), Command(p) \/ Kill(p) \/ Step(p), Starts(p) \/ Stops(p)
      PROVE  MarksHeld'
  BY <1>3, <1>4, <1>6 DEF MarksHeld, Starts, Stops
<1>7. ASSUME NEW p \in Procs, Others(p), Marked(p), Step(p), ~Stops(p)
      PROVE  MarksHeld'
  BY <1>3, <1>4, <1>5, <1>7 DEF MarksHeld
<1> QED
  BY <1>1, <1>2, <1>6, <1>7, Shapes DEF Goes, Stops

\* Who changes the entry of another command had an old copy or none.
LEMMA MarksLost ==
  ASSUME TypeOK, InPlace, MarksHeld, [Next]_vars, NEW j \in Jobs, marks'.of[j] # marks.of[j]
  PROVE  \E p \in Procs : pc[p] = "store" /\ (job[p].at = j \/ job[p].blind \/ <<p, "marks">> \in raced)
<1>1. ~Spoil /\ marks' # marks
  BY SpoilMoves
<1>2. PICK p \in Procs : Step(p)
  BY <1>1, Quiet DEF Next, vars, files
<1>3. StoreMarks(p)
  BY <1>1, <1>2, Writers
<1>4. pc[p] = "store" /\ marks'.of = [sheet[p] EXCEPT ![job[p].at] = job[p].to] /\ sheet[p] \in Sheets
  BY <1>3 DEF StoreMarks, TypeOK
<1> QED
  BY <1>4 DEF MarksHeld, Sheets

\* The profile that was read, apart from the texts ingested since; and the
\* profile that was not there.
NothingThere == \A c \in Candidates : ~profiles[c].is => \A k \in Kinds : profiles[c].texts[k] = 0
ProfileHeld ==
    \A p \in Procs : <<p, "profile">> \notin raced =>
        /\ pc[p] = "ingest" =>
              \A k \in Kinds : draft[p].texts[k] \in {profiles[job[p].of].texts[k], job[p].number}
        /\ pc[p] = "write" \/ (pc[p] = "dirs" /\ job[p].op = "add") =>
              job[p].orphan \/ ~profiles[job[p].of].is

LEMMA NothingStays ==
  ASSUME TypeOK, InPlace, ProfileMade, NothingThere, [Next]_vars
  PROVE  NothingThere'
<1>1. ASSUME NEW c \in Candidates, ~profiles'[c].is
      PROVE  profiles'[c] = profiles[c]
  <2>1. CASE profiles' = profiles
    BY <2>1
  <2>2. CASE profiles' # profiles
    <3>1. PICK p \in Procs : Step(p)
      BY <2>2, Quiet DEF Next, vars, files, Spoil
    <3> QED
      BY <1>1, <2>2, <3>1, Writers, ConstantTypes DEF WriteProfile, SaveProfile, ProfileMade, TypeOK
  <2> QED
    BY <2>1, <2>2
<1> QED
  BY <1>1 DEF NothingThere

LEMMA ProfileHolds ==
  ASSUME TypeOK, InPlace, NothingThere, ProfileHeld, [Next]_vars
  PROVE  ProfileHeld'
<1> DEFINE Held(p) ==
      /\ pc[p] = "ingest" =>
            \A k \in Kinds : draft[p].texts[k] \in {profiles[job[p].of].texts[k], job[p].number}
      /\ pc[p] = "write" \/ (pc[p] = "dirs" /\ job[p].op = "add") =>
            job[p].orphan \/ ~profiles[job[p].of].is
<1>1. CASE vars' = vars \/ Spoil
  BY <1>1 DEF ProfileHeld, Spoil, vars, files, process, copies
<1>2. ASSUME NEW p \in Procs, Others(p), Marked(p), NEW q \in Procs \ {p}, <<q, "profile">> \notin raced'
      PROVE  Held(q)'
  <2>1. pc'[q] = pc[q] /\ job'[q] = job[q] /\ draft'[q] = draft[q] /\ <<q, "profile">> \notin raced
    BY <1>2 DEF Others
  <2>2. pc[q] # "idle" => profiles' = profiles
    BY <1>2 DEF Marked
  <2> QED
    BY <2>1, <2>2 DEF ProfileHeld
<1>3. ASSUME NEW p \in Procs, Others(p), Marked(p), Starts(p) \/ Stops(p)
      PROVE  ProfileHeld'
  <2>1. Held(p)'
    BY <1>3 DEF Starts, Stops
  <2> HIDE DEF Held
  <2>2. \A q \in Procs : <<q, "profile">> \notin raced' => Held(q)'
    BY <1>2, <1>3, <2>1
  <2> QED
    BY <2>2 DEF Held, ProfileHeld
<1>4. ASSUME NEW p \in Procs, Step(p), ~Stops(p), <<p, "profile">> \notin raced', pc'[p] = "ingest"
      PROVE  Held(p)'
  <2>1. pc[p] \in {"open", "ingest"} /\ ~RefuseText(p) /\ ~SaveProfile(p)
    BY <1>4, NextSteps, EndMoves
  <2>2. CASE Open(p)
    <3>1. /\ draft' = [draft EXCEPT ![p] = IF profiles[job[p].of].is THEN profiles[job[p].of] ELSE Blank]
          /\ job' = job /\ profiles' = profiles
      BY <1>4, <2>2, GoneType DEF Open, Exit, Stops, files
    <3>2. draft'[p] = IF profiles[job[p].of].is THEN profiles[job[p].of] ELSE Blank
      BY <3>1 DEF TypeOK
    <3>3. job[p].of \in Candidates
      BY DEF TypeOK, Arguments
    <3> QED
      <4>1. \A k \in Kinds : draft'[p].texts[k] = profiles[job[p].of].texts[k]
        <5>1. CASE profiles[job[p].of].is
          BY <3>2, <5>1
        <5>2. CASE ~profiles[job[p].of].is
          BY <3>2, <3>3, <5>2, ConstantTypes DEF NothingThere
        <5> QED
          BY <5>1, <5>2
      <4>2. \A k \in Kinds : draft'[p].texts[k] = profiles'[job'[p].of].texts[k]
        BY <3>1, <4>1
      <4>3. pc'[p] = "ingest"
        BY <1>4
      <4> QED
        BY <4>2, <4>3
  <2>3. CASE WriteArtifact(p)
    <3>1. PICK k \in Kinds : draft'[p].texts = [draft[p].texts EXCEPT ![k] = job[p].number]
      BY <2>3, WriteArtifactMoves
    <3>2. /\ draft[p].texts \in [Kinds -> Texts] /\ profiles' = profiles /\ raced' = raced
          /\ job'[p].of = job[p].of /\ job'[p].number = job[p].number /\ pc[p] = "ingest"
      BY <2>3, WriteArtifactMoves DEF TypeOK, Profiles, Goes, WriteArtifact
    <3>3. \A l \in Kinds : draft[p].texts[l] \in {profiles[job[p].of].texts[l], job[p].number}
      BY <1>4, <3>2 DEF ProfileHeld
    <3>4. \A l \in Kinds : draft'[p].texts[l] \in {profiles[job[p].of].texts[l], job[p].number}
      BY <3>1, <3>2, <3>3
    <3> QED
      BY <1>4, <3>2, <3>4
  <2> QED
    BY <1>4, <2>1, <2>2, <2>3, StepAt
<1>5. ASSUME NEW p \in Procs, Step(p), ~Stops(p), <<p, "profile">> \notin raced', pc'[p] \in {"dirs", "write"}
      PROVE  Held(p)'
  <2>1. CASE pc'[p] = "dirs"
    <3>1. Load(p) \/ SaveDefault(p)
      BY <1>5, <2>1, NextSteps, StepAt DEF LoadFindsNone, Goto, TypeOK
    <3>2. \E ids \in SUBSET Candidates : AfterLoad(p, ids) /\ profiles' = profiles /\ pc[p] # "idle"
      BY <3>1, EditorsAssumption DEF Load, SaveDefault, TypeOK, files
    <3>3. Goes(p) /\ (job'[p].orphan <=> (job[p].op = "add" /\ profiles[job[p].of].is)) /\ profiles' = profiles
      BY <1>5, <3>2, AfterLoadMoves
    <3> QED
      BY <2>1, <3>3 DEF Goes
  <2>2. CASE pc'[p] = "write" /\ MakeDirs(p)
    <3>1. job' = job /\ profiles' = profiles /\ raced' = raced /\ pc[p] = "dirs"
      BY <2>2 DEF MakeDirs
    <3>2. job[p].op = "add"
      BY <1>5, <2>2, <3>1, NextSteps
    <3> QED
      BY <1>5, <2>2, <3>1, <3>2 DEF ProfileHeld
  <2>3. CASE pc'[p] = "write" /\ LookForProfile(p)
    <3>1. job' = job /\ profiles' = profiles /\ ~profiles[job[p].of].is
      BY <2>3 DEF LookForProfile, Goto, TypeOK, files
    <3> QED
      BY <2>3, <3>1
  <2> QED
    BY <1>5, <2>1, <2>2, <2>3, NextSteps, StepAt
<1>6. ASSUME NEW p \in Procs, Step(p), ~Stops(p), <<p, "profile">> \notin raced'
      PROVE  Held(p)'
  BY <1>4, <1>5, <1>6
<1> HIDE DEF Held
<1>7. ASSUME NEW p \in Procs, Others(p), Marked(p), Step(p), ~Stops(p)
      PROVE  ProfileHeld'
  <2>1. \A q \in Procs : <<q, "profile">> \notin raced' => Held(q)'
    BY <1>2, <1>6, <1>7
  <2> QED
    BY <2>1 DEF Held, ProfileHeld
<1> QED
  BY <1>1, <1>3, <1>7, Shapes DEF Goes, Stops

\* Who loses a text had an old profile, or made one where one was.
LEMMA TextsLost ==
  ASSUME TypeOK, InPlace, NothingThere, ProfileHeld, [Next]_vars,
         NEW c \in Candidates, NEW k \in Kinds, profiles'[c].texts[k] # profiles[c].texts[k]
  PROVE  \E p \in Procs :
            /\ pc[p] \in {"write", "ingest"} /\ job[p].of = c
            /\ \/ profiles'[c].texts[k] = job[p].number
               \/ <<p, "profile">> \in raced
               \/ job[p].orphan
<1>1. profiles' # profiles
  OBVIOUS
<1>2. PICK p \in Procs : Step(p)
  BY <1>1, Quiet DEF Next, vars, files, Spoil
<1>3. CASE WriteProfile(p)
  <2>1. pc[p] = "write" /\ c = job[p].of /\ profiles'[c] = Blank
    BY <1>3 DEF WriteProfile, TypeOK
  <2>2. profiles[c].is
    BY <2>1, ConstantTypes DEF NothingThere
  <2> QED
    BY <2>1, <2>2 DEF ProfileHeld
<1>4. CASE SaveProfile(p)
  <2>1. pc[p] = "ingest" /\ c = job[p].of /\ profiles'[c] = draft[p]
    BY <1>4 DEF SaveProfile, TypeOK
  <2> QED
    BY <2>1 DEF ProfileHeld
<1> QED
  BY <1>1, <1>2, <1>3, <1>4, Writers

-----------------------------------------------------------------------------
EditorsInv ==
    /\ TypeOK /\ InPlace
    /\ DirsMade /\ ProfileMade /\ PointersBacked
    /\ RegistryHeld /\ NothingThere /\ ProfileHeld /\ MarksHeld

\* What a command has made, and that what it holds is the file as it stands
\* unless another one has replaced it: the invariant behind the other theorems.
THEOREM EditorsAlways == Spec => []EditorsInv
<1>1. Init => EditorsInv
  <2> SUFFICES ASSUME Init PROVE EditorsInv
    OBVIOUS
  <2>1. TypeOK
    BY InitTypes
  <2>2. InPlace /\ DirsMade /\ ProfileMade
    BY ConstantTypes DEF Init, InPlace, DirsMade, ProfileMade
  <2>3. PointersBacked /\ NothingThere
    BY ConstantTypes DEF Init, PointersBacked, Backed, NothingThere
  <2>4. RegistryHeld /\ ProfileHeld /\ MarksHeld
    BY DEF Init, RegistryHeld, ProfileHeld, MarksHeld, Registering
  <2> QED
    BY <2>1, <2>2, <2>3, <2>4 DEF EditorsInv
<1>2. EditorsInv /\ [Next]_vars => EditorsInv'
  BY TypeStep, InPlaceStays, DirsStay, ProfileStays, PointersStay, RegistryStays,
     NothingStays, ProfileHolds, MarksStay DEF EditorsInv
<1> QED
  BY <1>1, <1>2, PTL DEF Spec

\* Every variable keeps its type, whatever the commands are.
THEOREM TypeCorrect == Spec => []TypeOK
  BY EditorsAlways, PTL DEF EditorsInv

\* doctor passes a candidate whose bootstrap had returned before, whatever
\* other commands are under way, refused or killed.
THEOREM DoctorPasses == Spec => DoctorPassesBootstrapped
<1>1. EditorsInv /\ [Next]_vars
      => [\A p \in Procs : job[p].op = "doctor" /\ job[p].sure => exit'[p] # 2]_vars
  BY DoctorFindsNothing DEF EditorsInv
<1> QED
  BY <1>1, EditorsAlways, PTL DEF Spec, DoctorPassesBootstrapped

\* A candidate drops out of the registry only when a command that read it
\* earlier replaces it.
THEOREM RegistryLossNeedsRace == Spec => RegistryLosesOnlyToRaces
<1>1. EditorsInv /\ [Next]_vars
      => [\A c \in registry \ registry' :
             \E p \in Procs : pc[p] \in {"default", "register"} /\ <<p, "registry">> \in raced]_vars
  BY RegistryLoses DEF EditorsInv
<1> QED
  BY <1>1, EditorsAlways, PTL DEF Spec, RegistryLosesOnlyToRaces

\* A text of a profile is lost only to a command that read the profile earlier
\* or to an add of a candidate whose profile was there without an entry.
THEOREM TextLossIsKnown == Spec => TextsLostOnlyInKnownWays
<1>1. EditorsInv /\ [Next]_vars
      => [\A c \in Candidates, k \in Kinds :
             profiles'[c].texts[k] # profiles[c].texts[k] =>
                 \E p \in Procs :
                     /\ pc[p] \in {"write", "ingest"} /\ job[p].of = c
                     /\ \/ profiles'[c].texts[k] = job[p].number
                        \/ <<p, "profile">> \in raced
                        \/ job[p].orphan]_vars
  BY TextsLost DEF EditorsInv
<1> QED
  BY <1>1, EditorsAlways, PTL DEF Spec, TextsLostOnlyInKnownWays

\* A command changes an entry of the user state that is not its own only if it
\* had an old copy of the file, or could not read it.
THEOREM MarkLossIsKnown == Spec => MarksLostOnlyInKnownWays
<1>1. EditorsInv /\ [Next]_vars
      => [\A j \in Jobs : marks'.of[j] # marks.of[j] =>
             \E p \in Procs : pc[p] = "store" /\ (job[p].at = j \/ job[p].blind \/ <<p, "marks">> \in raced)]_vars
  BY MarksLost DEF EditorsInv
<1> QED
  BY <1>1, EditorsAlways, PTL DEF Spec, MarksLostOnlyInKnownWays
=============================================================================
