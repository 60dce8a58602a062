---------------------------- MODULE StateEditors ----------------------------
(***************************************************************************)
(* The command-line tools that edit the state directory by hand:           *)
(* scripts/candidates.py over ji_engine/candidates/registry.py, and        *)
(* scripts/user_state.py and set_job_status.py over ji_engine/utils/       *)
(* user_state.py.                                                          *)
(*                                                                         *)
(* A command reads a JSON file, changes what it has read and replaces the  *)
(* file (atomic_write_text): a reader finds the old content or the new.    *)
(* Nothing locks, so that commands overlap; each may be killed between any *)
(* two of its steps, which leaves what it has replaced so far.             *)
(*                                                                         *)
(* A text is the number of the command that ingested it.  Left out: ids    *)
(* that are refused, display names, profiles broken by hand, and the dates *)
(* and notes of a mark.                                                    *)
(***************************************************************************)
EXTENDS Naturals, FiniteSets

CONSTANTS
    Procs,        \* the shells in which commands are given
    Candidates,   \* candidate ids
    Local,        \* DEFAULT_CANDIDATE_ID
    Legacy,       \* candidates with a profile at its former place, without texts
    Kinds,        \* resume_text, linkedin_text, summary_text: numbers in this order
    Jobs,         \* the job ids of one user state file
    Statuses,     \* USER_STATE_STATUSES
    NoStatus,     \* no entry, or --status none
    MaxCommands,  \* a bound on the commands, of the model only
    MaxSpoils     \* a bound on user state files broken by hand, of the model only

ASSUME EditorsAssumption ==
    /\ Local \in Candidates
    /\ Legacy \subseteq Candidates
    /\ Kinds \subseteq 1 .. 3
    /\ Jobs # {}
    /\ NoStatus \notin Statuses
    /\ MaxCommands \in Nat
    /\ MaxSpoils \in Nat

VARIABLES
    registry,     \* candidates/registry.json: its ids; {} while there is no
                  \* file, for whatever is written has Local among them
    profiles,     \* inputs/candidate_profile.json of each candidate
    dirs,         \* its directories: those that add makes, and proofs
    artifacts,    \* inputs/artifacts: the texts kept, never written twice
    marks,        \* user_state/<profile>.json
    pc,           \* the step of each command
    job,          \* its arguments, and what it finds out
    mine,         \* the registry as it has read it
    draft,        \* the profile as it has read and changed it
    sheet,        \* the user state as it has read it
    exit,         \* the exit code of the last command, 1 while it runs
    given,        \* how many commands have been given
    spoils,       \* how often a user state file has been broken by hand
    bootstrapped, \* observation: candidates whose bootstrap has returned
    raced         \* observation: the commands of which another one has replaced
                  \* a file since they read it, with that file

files == <<registry, profiles, dirs, artifacts, marks>>
copies == <<mine, draft, sheet>>
process == <<pc, job, copies, exit>>
seen == <<given, spoils, bootstrapped>>
vars == <<files, process, seen, raced>>

Texts == 0 .. MaxCommands

\* is: whether there is a file; texts, points: the text and the artifact of a
\* kind, 0 for none.
Profiles == [is : BOOLEAN, texts : [Kinds -> Texts], points : [Kinds -> Texts]]
Blank == [is |-> TRUE, texts |-> [k \in Kinds |-> 0], points |-> [k \in Kinds |-> 0]]
NoProfile == [Blank EXCEPT !.is = FALSE]

Artifacts == [of : Candidates, kind : Kinds, text : 1 .. MaxCommands]

Sheets == [Jobs -> Statuses \cup {NoStatus}]
EmptySheet == [j \in Jobs |-> NoStatus]
Marks == [is : {"missing", "valid", "invalid"}, of : Sheets]

Ops == {"list", "validate", "add", "bootstrap", "ingest", "doctor", "mark"}
Steps == {"idle", "load", "default", "check", "dirs", "proofs", "look", "write",
          "register", "open", "ingest", "save", "doctor", "pointers", "read", "store"}

\* of, todo, bad: the candidate, the kinds still to ingest and those whose
\* text is refused; at, to: the entry of the user state and its new status;
\* number: which command it is; orphan: that a profile was there of a
\* candidate that the registry did not have; sure: observation, that a
\* bootstrap had returned before it; blind: that the user state it read was
\* not readable.
Arguments == [op : Ops, of : Candidates, todo : SUBSET Kinds, bad : SUBSET Kinds,
              at : Jobs, to : Statuses \cup {NoStatus}, number : Texts,
              orphan : BOOLEAN, sure : BOOLEAN, blind : BOOLEAN]

TypeOK ==
    /\ registry \subseteq Candidates
    /\ profiles \in [Candidates -> Profiles]
    /\ dirs \in [Candidates -> SUBSET {"base", "proofs"}]
    /\ artifacts \subseteq Artifacts
    /\ marks \in Marks
    /\ pc \in [Procs -> Steps]
    /\ job \in [Procs -> Arguments]
    /\ mine \in [Procs -> SUBSET Candidates]
    /\ draft \in [Procs -> Profiles]
    /\ sheet \in [Procs -> Sheets]
    /\ exit \in [Procs -> 0 .. 2]
    /\ given \in 0 .. MaxCommands
    /\ spoils \in 0 .. MaxSpoils
    /\ bootstrapped \subseteq Candidates
    /\ raced \subseteq Procs \X {"registry", "profile", "marks"}

AnyJob == CHOOSE j \in Jobs : TRUE

NewJob(op, c) ==
    [op |-> op, of |-> c, todo |-> {}, bad |-> {}, at |-> AnyJob, to |-> NoStatus,
     number |-> given + 1, orphan |-> FALSE, sure |-> c \in bootstrapped, blind |-> FALSE]
NoJob ==
    [op |-> "list", of |-> Local, todo |-> {}, bad |-> {}, at |-> AnyJob, to |-> NoStatus,
     number |-> 0, orphan |-> FALSE, sure |-> FALSE, blind |-> FALSE]

Init ==
    /\ registry = {}
    /\ profiles = [c \in Candidates |-> NoProfile]
    /\ dirs = [c \in Candidates |-> {}]
    /\ artifacts = {}
    /\ marks = [is |-> "missing", of |-> EmptySheet]
    /\ pc = [p \in Procs |-> "idle"]
    /\ job = [p \in Procs |-> NoJob]
    /\ mine = [p \in Procs |-> {}]
    /\ draft = [p \in Procs |-> NoProfile]
    /\ sheet = [p \in Procs |-> EmptySheet]
    /\ exit = [p \in Procs |-> 1]
    /\ given = 0
    /\ spoils = 0
    /\ bootstrapped = {}
    /\ raced = {}

Goto(p, step) == pc' = [pc EXCEPT ![p] = step]

\* The process is gone, and what it had in memory.
Gone(p) ==
    /\ Goto(p, "idle")
    /\ job' = [job EXCEPT ![p] = NoJob]
    /\ mine' = [mine EXCEPT ![p] = {}]
    /\ draft' = [draft EXCEPT ![p] = NoProfile]
    /\ sheet' = [sheet EXCEPT ![p] = EmptySheet]

Exit(p, code) == Gone(p) /\ exit' = [exit EXCEPT ![p] = code]

\* p replaces a file: whoever else has read it holds an old copy from now on.
\* A command that has not read it yet loses the mark when it does.
Replaces(p, file) ==
    raced' = raced \cup {<<q, file>> : q \in {q \in Procs \ {p} : pc[q] # "idle"}}
Reads(p) == raced' = raced \ ({p} \X {"registry", "profile", "marks"})

-----------------------------------------------------------------------------
(* A command is given. *)

Give(p, step, arguments) ==
    /\ pc[p] = "idle"
    /\ given < MaxCommands
    /\ given' = given + 1
    /\ job' = [job EXCEPT ![p] = arguments]
    /\ exit' = [exit EXCEPT ![p] = 1]
    /\ Goto(p, step)
    /\ UNCHANGED <<files, copies, spoils, bootstrapped, raced>>

List(p) == \E op \in {"list", "validate"} : Give(p, "load", NewJob(op, Local))

Add(p, c) == Give(p, "load", NewJob("add", c))

Bootstrap(p, c) == Give(p, "load", NewJob("bootstrap", c))

Ingest(p, c, todo, bad) ==
    Give(p, "open", [NewJob("ingest", c) EXCEPT !.todo = todo, !.bad = bad])

Doctor(p, c) == Give(p, "doctor", NewJob("doctor", c))

\* user_state add-status, and set_job_status, which may also remove an entry.
Mark(p, j, status) == Give(p, "read", [NewJob("mark", Local) EXCEPT !.at = j, !.to = status])

-----------------------------------------------------------------------------
(* load_registry. *)

\* Where a command that has the registry goes on: it keeps its copy, but list
\* is done, and add refuses an id that is there; neither touches a file more.
AfterLoad(p, ids) ==
    LET j == job[p] IN
    IF j.op = "list" \/ (j.op = "add" /\ j.of \in ids)
    THEN Exit(p, IF j.op = "list" THEN 0 ELSE 2)
    ELSE /\ Goto(p, IF j.op = "validate" THEN "check" ELSE "dirs")
         /\ mine' = [mine EXCEPT ![p] = ids]
         /\ job' = [job EXCEPT ![p].orphan = j.op = "add" /\ profiles[j.of].is]
         /\ UNCHANGED <<draft, sheet, exit>>

\* The file is there and is read.
Load(p) ==
    /\ pc[p] = "load"
    /\ registry # {}
    /\ Reads(p)
    /\ AfterLoad(p, registry)
    /\ UNCHANGED <<files, seen>>

LoadFindsNone(p) ==
    /\ pc[p] = "load"
    /\ registry = {}
    /\ Goto(p, "default")
    /\ Reads(p)
    /\ UNCHANGED <<files, job, copies, exit, seen>>

\* save_registry of the default, whatever has been written since.
SaveDefault(p) ==
    /\ pc[p] = "default"
    /\ registry' = {Local}
    /\ Replaces(p, "registry")
    /\ AfterLoad(p, {Local})
    /\ UNCHANGED <<profiles, dirs, artifacts, marks, seen>>

-----------------------------------------------------------------------------
(* add_candidate and bootstrap_candidate. *)

\* The directories; those of bootstrap include proofs.
MakeDirs(p) ==
    /\ pc[p] = "dirs"
    /\ dirs' = [dirs EXCEPT ![job[p].of] = @ \cup {"base"}]
    /\ Goto(p, IF job[p].op = "add" THEN "write" ELSE "proofs")
    /\ UNCHANGED <<registry, profiles, artifacts, marks, job, copies, exit, seen, raced>>

\* Mutant: bootstrap makes the directories of add.
MakeNoProofs(p) ==
    /\ pc[p] = "proofs"
    /\ Goto(p, "look")
    /\ UNCHANGED <<files, job, copies, exit, seen, raced>>

MakeProofs(p) ==
    /\ pc[p] = "proofs"
    /\ dirs' = [dirs EXCEPT ![job[p].of] = @ \cup {"proofs"}]
    /\ Goto(p, "look")
    /\ UNCHANGED <<registry, profiles, artifacts, marks, job, copies, exit, seen, raced>>

\* Mutant: bootstrap writes its template over any profile.
LookForNothing(p) ==
    /\ pc[p] = "look"
    /\ Goto(p, "write")
    /\ UNCHANGED <<files, job, copies, exit, seen, raced>>

\* bootstrap keeps a profile that is there, and writes none.
LookForProfile(p) ==
    /\ pc[p] = "look"
    /\ Goto(p, IF profiles[job[p].of].is THEN "register" ELSE "write")
    /\ UNCHANGED <<files, job, copies, exit, seen, raced>>

\* The skeleton, the template or the legacy profile: none has a text.
WriteProfile(p) ==
    /\ pc[p] = "write"
    /\ profiles' = [profiles EXCEPT ![job[p].of] = Blank]
    /\ Replaces(p, "profile")
    /\ Goto(p, "register")
    /\ UNCHANGED <<registry, dirs, artifacts, marks, job, copies, exit, seen>>

Done(p) ==
    /\ Exit(p, 0)
    /\ bootstrapped' = IF job[p].op = "bootstrap" THEN bootstrapped \cup {job[p].of}
                       ELSE bootstrapped
    /\ UNCHANGED <<given, spoils>>

\* Mutant: the candidate is added to the default registry.
RegisterAfresh(p) ==
    /\ pc[p] = "register"
    /\ registry' = {Local, job[p].of}
    /\ Replaces(p, "registry")
    /\ Done(p)
    /\ UNCHANGED <<profiles, dirs, artifacts, marks>>

\* The registry as it was read, with the candidate.
Register(p) ==
    /\ pc[p] = "register"
    /\ IF job[p].of \in mine[p]
       THEN UNCHANGED <<registry, raced>>
       ELSE /\ registry' = mine[p] \cup {job[p].of}
            /\ Replaces(p, "registry")
    /\ Done(p)
    /\ UNCHANGED <<profiles, dirs, artifacts, marks>>

-----------------------------------------------------------------------------
(* set_profile_text. *)

\* load_candidate_profile: the canonical profile, or the legacy one.
Open(p) ==
    LET c == job[p].of IN
    /\ pc[p] = "open"
    /\ IF profiles[c].is \/ c \in Legacy
       THEN /\ Goto(p, "ingest")
            /\ draft' = [draft EXCEPT ![p] = IF profiles[c].is THEN profiles[c] ELSE Blank]
            /\ UNCHANGED <<job, mine, sheet, exit>>
       ELSE Exit(p, 2)
    /\ Reads(p)
    /\ UNCHANGED <<files, seen>>

First(S) == CHOOSE k \in S : \A l \in S : k <= l

ArtifactOf(p) == [of |-> job[p].of, kind |-> First(job[p].todo), text |-> job[p].number]

\* _ingest_one_text: the artifact is there before the draft names it.
WriteArtifact(p) ==
    LET k == First(job[p].todo) IN
    /\ pc[p] = "ingest"
    /\ job[p].todo # {}
    /\ k \notin job[p].bad
    /\ artifacts' = artifacts \cup {ArtifactOf(p)}
    /\ draft' = [draft EXCEPT ![p] = [@ EXCEPT !.texts[k] = job[p].number, !.points[k] = job[p].number]]
    /\ job' = [job EXCEPT ![p].todo = @ \ {k}]
    /\ UNCHANGED <<registry, profiles, dirs, marks, pc, mine, sheet, exit, seen, raced>>

\* A text that is too long is refused before its artifact is written, an empty
\* one when its pointer is made, after it.  The profile is not written.
RefuseText(p) ==
    /\ pc[p] = "ingest"
    /\ job[p].todo # {}
    /\ First(job[p].todo) \in job[p].bad
    /\ artifacts' \in {artifacts, artifacts \cup {ArtifactOf(p)}}
    /\ Exit(p, 2)
    /\ UNCHANGED <<registry, profiles, dirs, marks, seen, raced>>

SaveProfile(p) ==
    /\ pc[p] = "ingest"
    /\ job[p].todo = {}
    /\ profiles' = [profiles EXCEPT ![job[p].of] = draft[p]]
    /\ Replaces(p, "profile")
    /\ Exit(p, 0)
    /\ UNCHANGED <<registry, dirs, artifacts, marks, seen>>

-----------------------------------------------------------------------------
(* doctor_candidate, and validate_candidate_profiles once it has the registry. *)

Readable(c) == profiles[c].is \/ c \in Legacy

\* The directories of doctor.
LookAtDirs(p) ==
    /\ pc[p] = "doctor"
    /\ IF dirs[job[p].of] = {"base", "proofs"}
       THEN Goto(p, "pointers") /\ UNCHANGED <<job, copies, exit>>
       ELSE Exit(p, 2)
    /\ UNCHANGED <<files, seen, raced>>

\* Its profile and the artifacts that it points to.
LookAtPointers(p) ==
    LET c == job[p].of
        backed(k) == [of |-> c, kind |-> k, text |-> profiles[c].points[k]] \in artifacts
    IN  /\ pc[p] = "pointers"
        /\ Exit(p, IF Readable(c) /\ \A k \in Kinds : profiles[c].points[k] # 0 => backed(k) THEN 0 ELSE 2)
        /\ UNCHANGED <<files, seen, raced>>

Validate(p) ==
    /\ pc[p] = "check"
    /\ Exit(p, IF \A c \in mine[p] : Readable(c) THEN 0 ELSE 2)
    /\ UNCHANGED <<files, seen, raced>>

-----------------------------------------------------------------------------
(* user_state.cmd_add_status and set_job_status.main. *)

\* load_user_state_checked: a file that cannot be read is a warning and {}.
ReadMarks(p) ==
    /\ pc[p] = "read"
    /\ sheet' = [sheet EXCEPT ![p] = IF marks.is = "valid" THEN marks.of ELSE EmptySheet]
    /\ job' = [job EXCEPT ![p].blind = marks.is = "invalid"]
    /\ Goto(p, "store")
    /\ Reads(p)
    /\ UNCHANGED <<files, mine, draft, exit, seen>>

\* Mutant: the file starts again from the entry that is set.
StoreMarksAlone(p) ==
    /\ pc[p] = "store"
    /\ marks' = [is |-> "valid", of |-> [EmptySheet EXCEPT ![job[p].at] = job[p].to]]
    /\ Replaces(p, "marks")
    /\ Exit(p, 0)
    /\ UNCHANGED <<registry, profiles, dirs, artifacts, seen>>

\* The whole file is replaced by what was read, with the one entry.
StoreMarks(p) ==
    /\ pc[p] = "store"
    /\ marks' = [is |-> "valid", of |-> [sheet[p] EXCEPT ![job[p].at] = job[p].to]]
    /\ Replaces(p, "marks")
    /\ Exit(p, 0)
    /\ UNCHANGED <<registry, profiles, dirs, artifacts, seen>>

\* Somebody edits the file and leaves it so that it cannot be read.
Spoil ==
    /\ marks.is = "valid"
    /\ spoils < MaxSpoils
    /\ spoils' = spoils + 1
    /\ marks' = [marks EXCEPT !.is = "invalid"]
    /\ UNCHANGED <<registry, profiles, dirs, artifacts, process, given, bootstrapped, raced>>

-----------------------------------------------------------------------------
\* The command is killed; what it has replaced stays.
Kill(p) ==
    /\ pc[p] # "idle"
    /\ Gone(p)
    /\ UNCHANGED <<files, exit, seen, raced>>

Command(p) ==
    \/ List(p)
    \/ \E c \in Candidates :
          \/ Add(p, c) \/ Bootstrap(p, c) \/ Doctor(p, c)
          \/ \E todo \in SUBSET Kinds \ {{}} : \E bad \in SUBSET todo : Ingest(p, c, todo, bad)
    \/ \E j \in Jobs, status \in Statuses \cup {NoStatus} : Mark(p, j, status)

Step(p) ==
    \/ Load(p) \/ LoadFindsNone(p) \/ SaveDefault(p)
    \/ MakeDirs(p) \/ MakeProofs(p) \/ LookForProfile(p) \/ WriteProfile(p) \/ Register(p)
    \/ Open(p) \/ WriteArtifact(p) \/ RefuseText(p) \/ SaveProfile(p)
    \/ LookAtDirs(p) \/ LookAtPointers(p) \/ Validate(p)
    \/ ReadMarks(p) \/ StoreMarks(p)

Next == Spoil \/ \E p \in Procs : Command(p) \/ Step(p) \/ Kill(p)

Spec == Init /\ [][Next]_vars

-----------------------------------------------------------------------------
\* doctor passes a candidate whose bootstrap had returned before, whatever
\* other commands are under way, refused or killed.
DoctorPassesBootstrapped ==
    [][\A p \in Procs : job[p].op = "doctor" /\ job[p].sure => exit'[p] # 2]_vars

\* A candidate drops out of the registry only when a command that read it
\* earlier replaces it: a second command's step lay in between.
RegistryLosesOnlyToRaces ==
    [][\A c \in registry \ registry' :
          \E p \in Procs : pc[p] \in {"default", "register"} /\ <<p, "registry">> \in raced]_vars

\* Apart from the texts that ingest-text is given, a text of a profile changes
\* only when a command that read the profile earlier replaces it, or when add is given the
\* id of a candidate that had a profile and was not in the registry: one whose
\* add was killed halfway or whose entry was lost.
TextsLostOnlyInKnownWays ==
    [][\A c \in Candidates, k \in Kinds :
          profiles'[c].texts[k] # profiles[c].texts[k] =>
              \E p \in Procs :
                  /\ pc[p] \in {"write", "ingest"} /\ job[p].of = c
                  /\ \/ profiles'[c].texts[k] = job[p].number
                     \/ <<p, "profile">> \in raced
                     \/ job[p].orphan]_vars

\* A command changes no entry of the user state but its own, unless another
\* one has replaced the file since it read it or it could not read it.
MarksLostOnlyInKnownWays ==
    [][\A j \in Jobs : marks'.of[j] # marks.of[j] =>
          \E p \in Procs : pc[p] = "store" /\ (job[p].at = j \/ job[p].blind \/ <<p, "marks">> \in raced)]_vars
=============================================================================
