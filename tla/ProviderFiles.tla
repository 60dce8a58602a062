----------------------------- MODULE ProviderFiles -----------------------------
(***************************************************************************)
(* config/providers.json, the snapshot fixtures it names and the manifest  *)
(* that pins their bytes, with the programs that edit them side by side:   *)
(* scripts/provider_authoring.py, scripts/update_snapshots.py, and a daily *)
(* run that reads the configuration twice (registry.py).                   *)
(*                                                                         *)
(* No program takes a lock.  The configuration and the manifest are read,  *)
(* changed and replaced as a whole; the fixture of a provider is named by  *)
(* the provider, and its hash and size are the page it holds.              *)
(***************************************************************************)
EXTENDS Naturals, Sequences, SequencesExt

CONSTANTS
    Programs,      \* places a program can run in
    Providers,     \* provider ids
    Pages,         \* what the career sites answer
    Configs,       \* what the configuration may be at first
    Commands,      \* the command lines
    MaxStarts,     \* bound of the model: number of programs started
    Placeholder,   \* the page scaffold writes
    Cut,           \* a page cut short by a kill
    Nothing

ASSUME ProviderFilesAssumption ==
    /\ Commands \subseteq
          [do : {"append", "pin", "run"}, of : Providers]
          \cup [do : {"enable"}, of : Providers, meant : BOOLEAN]
          \cup [do : {"scaffold"}, of : Providers, force : BOOLEAN]
          \cup [do : {"update"}, of : Seq(Providers), out : Providers, pins : BOOLEAN,
                force : BOOLEAN]
    /\ Configs \subseteq [Providers -> [enabled : BOOLEAN, needs : BOOLEAN, complete : BOOLEAN]
                                 \cup {Nothing}]
    /\ \A q \in Commands : q.do = "update" => Len(q.of) > 0
    /\ MaxStarts \in Nat
    /\ Placeholder \notin Pages /\ Cut \notin Pages /\ Nothing \notin Pages
    /\ Placeholder # Cut /\ Placeholder # Nothing /\ Cut # Nothing

VARIABLES
    config,        \* providers.json: the entry of each provider, or Nothing
    fixture,       \* the page of each snapshot_path, or Nothing
    manifest,      \* snapshot_bytes.manifest.json: the pin of each path, or Nothing
    job, line,     \* each program: its arguments and its line
    held,          \* its memory: what it is about to write, or compares with
    at,            \* its place in --providers
    known,         \* the providers listed when it loaded the configuration
    starts,
    reads,         \* observation: the files each program goes by
    overtaken,     \* observation: programs that go by a file another one wrote since
    loosened       \* observation: paths left unlike their pin in a known way

files == <<config, fixture, manifest>>
memory == <<job, held, at, known>>
fileVars == <<files, memory, line, starts, reads, overtaken, loosened>>

\* needs: mode snapshot or auto, with snapshot_enabled; complete: its pages and
\* domains are lists and its extraction mode is one of the schema.
Entry == [enabled : BOOLEAN, needs : BOOLEAN, complete : BOOLEAN]
Contents == Pages \cup {Placeholder, Cut}
\* A pin without bytes is the one of a forced update that got no data.
Pin == [sha : Contents \cup {Nothing}, bytes : Contents \cup {Nothing}]

ASSUME NothingAssumption == Nothing \notin Entry /\ Nothing \notin Pin /\ Nothing \notin Commands

Begin == [append |-> "config", enable |-> "resolve", pin |-> "resolve", run |-> "choose",
          scaffold |-> "look", update |-> "resolve"]
Lines == {"config", "resolve", "look", "pinned", "compare", "choose", "edit", "again",
          "store", "write", "hash", "pins", "repin", "fetch", "next"}

FilesTypeOK ==
    /\ config \in [Providers -> Entry \cup {Nothing}]
    /\ fixture \in [Providers -> Contents \cup {Nothing}]
    /\ manifest \in [Providers -> Pin \cup {Nothing}]
    /\ job \in [Programs -> Commands \cup {Nothing}]
    /\ line \in [Programs -> Lines \cup {"idle"}]
    /\ at \in [Programs -> Nat]
    /\ known \in [Programs -> SUBSET Providers]
    /\ starts \in 0 .. MaxStarts
    /\ reads \in [Programs -> SUBSET ({"config", "manifest"} \cup Providers)]
    /\ overtaken \in SUBSET Programs
    /\ loosened \in SUBSET Providers

PinOf(page) == [sha |-> page, bytes |-> page]

\* validate_provider and verify_snapshots_immutable: a fixture is as pinned.
AsPinned(p) == /\ fixture[p] # Nothing
               /\ manifest[p] = PinOf(fixture[p])

\* The checks of the repository pass: every pin holds and every enabled
\* snapshot provider has one.
Immutable ==
    \A p \in Providers :
        /\ manifest[p] # Nothing => AsPinned(p)
        /\ config[p] # Nothing => (config[p].enabled /\ config[p].needs => manifest[p] # Nothing)

FilesInit ==
    /\ config \in Configs
    /\ fixture \in [Providers -> Pages \cup {Nothing}]
    /\ manifest = [p \in Providers |-> IF fixture[p] = Nothing THEN Nothing ELSE PinOf(fixture[p])]
    /\ Immutable
    /\ job = [e \in Programs |-> Nothing]
    /\ line = [e \in Programs |-> "idle"]
    /\ held = [e \in Programs |-> Nothing]
    /\ at = [e \in Programs |-> 1]
    /\ known = [e \in Programs |-> {}]
    /\ starts = 0
    /\ reads = [e \in Programs |-> {}]
    /\ overtaken = {}
    /\ loosened = {}

-----------------------------------------------------------------------------
(* Reading and writing.                                                    *)

Read(e, file) == reads' = [reads EXCEPT ![e] = @ \cup {file}]

\* The programs that go by what e now writes.
Overtakes(e, file) ==
    overtaken' = overtaken \cup {o \in Programs \ {e} : file \in reads[o]}

Goto(e, to) == line' = [line EXCEPT ![e] = to]
Hold(e, value) == held' = [held EXCEPT ![e] = value]

Unwatched(e) == /\ reads' = [reads EXCEPT ![e] = {}]
                /\ overtaken' = overtaken \ {e}

Leave(e) ==
    /\ Goto(e, "idle")
    /\ job' = [job EXCEPT ![e] = Nothing]
    /\ Hold(e, Nothing)
    /\ at' = [at EXCEPT ![e] = 1]
    /\ known' = [known EXCEPT ![e] = {}]
    /\ Unwatched(e)

Start(e, q) ==
    /\ line[e] = "idle"
    /\ starts < MaxStarts
    /\ starts' = starts + 1
    /\ job' = [job EXCEPT ![e] = q]
    /\ Goto(e, Begin[q.do])
    /\ UNCHANGED <<files, held, at, known, reads, overtaken, loosened>>

Of(e) == job[e].of
Does(e, do) == job[e] # Nothing /\ job[e].do = do

-----------------------------------------------------------------------------
(* provider_authoring.py: append-template and enable.                      *)

\* append_template_provider_entry reads the file, refuses an id that is there
\* and adds a disabled snapshot provider.
AppendEntry(e) ==
    /\ line[e] = "config"
    /\ IF config[Of(e)] # Nothing
       THEN Leave(e)
       ELSE /\ Hold(e, [config EXCEPT ![Of(e)] = [enabled |-> FALSE, needs |-> TRUE,
                                                  complete |-> TRUE]])
            /\ Read(e, "config")
            /\ Goto(e, "store")
            /\ UNCHANGED <<job, at, known, overtaken>>
    /\ UNCHANGED <<files, starts, loosened>>

\* Mutant: the contract is that of the entry as it stands.
NeedsFixtureAsItStands(entry) == entry.needs /\ entry.enabled

\* requires_snapshot_contract, with for_enable: as if it were enabled.
NeedsFixture(entry) == entry.needs

Listed == {p \in Providers : config[p] # Nothing}

\* load_providers_config; the one provider of an authoring command must be
\* there, and enable fails the checks of an entry that is not complete.
Resolve(e) ==
    /\ line[e] = "resolve"
    /\ IF \/ ~Does(e, "update") /\ Of(e) \notin Listed
          \/ Does(e, "enable") /\ ~config[Of(e)].complete
       THEN Leave(e)
       ELSE /\ Goto(e, CASE Does(e, "update") -> "fetch"
                         [] Does(e, "pin") -> "hash"
                         [] Does(e, "enable") /\ NeedsFixture(config[Of(e)]) -> "look"
                         [] Does(e, "enable") /\ ~NeedsFixture(config[Of(e)]) -> "edit")
            /\ known' = [known EXCEPT ![e] = IF Does(e, "update") THEN Listed ELSE {}]
            /\ Read(e, "config")
            /\ UNCHANGED <<job, held, at, overtaken>>
    /\ UNCHANGED <<files, starts, loosened>>

\* fixture_exists: without the fixture every way on is a failed check.
LookForFixture(e) ==
    /\ line[e] = "look" /\ Does(e, "enable")
    /\ IF fixture[Of(e)] = Nothing
       THEN Leave(e)
       ELSE Goto(e, "pinned") /\ UNCHANGED <<memory, reads, overtaken>>
    /\ UNCHANGED <<files, starts, loosened>>

ReadPin(e) ==
    /\ line[e] = "pinned"
    /\ IF manifest[Of(e)] = Nothing
       THEN Leave(e)
       ELSE /\ Hold(e, manifest[Of(e)])
            /\ Read(e, "manifest")
            /\ Goto(e, "compare")
            /\ UNCHANGED <<job, at, known, overtaken>>
    /\ UNCHANGED <<files, starts, loosened>>

ComparePin(e) ==
    /\ line[e] = "compare"
    /\ IF held[e] # PinOf(fixture[Of(e)])
       THEN Leave(e)
       ELSE /\ Read(e, Of(e))
            /\ Goto(e, "edit")
            /\ UNCHANGED <<memory, overtaken>>
    /\ UNCHANGED <<files, starts, loosened>>

\* All checks have passed: without --i-mean-it nothing is written; otherwise
\* _enable_provider_in_config reads the file again.
EditEntry(e) ==
    /\ line[e] = "edit"
    /\ IF ~job[e].meant \/ config[Of(e)] = Nothing \/ config[Of(e)].enabled
       THEN Leave(e)
       ELSE /\ Hold(e, [config EXCEPT ![Of(e)].enabled = TRUE])
            /\ Goto(e, "store")
            /\ UNCHANGED <<job, at, known, reads, overtaken>>
    /\ UNCHANGED <<files, starts, loosened>>

\* _write_payload.
StoreConfig(e) ==
    /\ line[e] = "store"
    /\ config' = held[e]
    /\ Goto(e, "idle")
    /\ job' = [job EXCEPT ![e] = Nothing]
    /\ Hold(e, Nothing)
    /\ reads' = [reads EXCEPT ![e] = {}]
    /\ overtaken' = (overtaken \cup {o \in Programs : "config" \in reads[o]}) \ {e}
    /\ UNCHANGED <<fixture, manifest, at, known, starts, loosened>>

-----------------------------------------------------------------------------
(* A daily run: run_daily.py resolves --providers all and hands the ids to *)
(* run_scrape.py, which reads the configuration anew.                      *)

EnabledIn(c) == {p \in Providers : c[p] # Nothing /\ c[p].enabled}

\* resolve_provider_ids: an unknown or a disabled id is refused.
Refused(ids, c) == ids \ EnabledIn(c)

\* "No enabled providers configured" ends the run at once.
ChooseProviders(e) ==
    /\ line[e] = "choose"
    /\ IF EnabledIn(config) = {}
       THEN Leave(e)
       ELSE /\ Hold(e, EnabledIn(config))
            /\ Goto(e, "again")
            /\ UNCHANGED <<job, at, known, reads, overtaken>>
    /\ UNCHANGED <<files, starts, loosened>>

\* The scrape of the run starts, or refuses the ids and fails the run.
ResolveAgain(e) ==
    /\ line[e] = "again"
    /\ Leave(e)
    /\ UNCHANGED <<files, starts, loosened>>

-----------------------------------------------------------------------------
(* scaffold.                                                               *)

\* scaffold_snapshot refuses a fixture that is there, unless --force; open
\* for writing empties the file.
Scaffold(e) ==
    /\ line[e] = "look" /\ Does(e, "scaffold")
    /\ IF fixture[Of(e)] # Nothing /\ ~job[e].force
       THEN Leave(e) /\ UNCHANGED <<fixture, loosened>>
       ELSE /\ fixture' = [fixture EXCEPT ![Of(e)] = Cut]
            /\ loosened' = loosened \cup {Of(e)}
            /\ Overtakes(e, Of(e))
            /\ Goto(e, "write")
            /\ UNCHANGED <<memory, reads>>
    /\ UNCHANGED <<config, manifest, starts>>

WritePlaceholder(e) ==
    /\ line[e] = "write" /\ Does(e, "scaffold")
    /\ fixture' = [fixture EXCEPT ![Of(e)] = Placeholder]
    /\ loosened' = loosened \cup {Of(e)}
    /\ Goto(e, "idle")
    /\ job' = [job EXCEPT ![e] = Nothing]
    /\ reads' = [reads EXCEPT ![e] = {}]
    /\ overtaken' = (overtaken \cup {o \in Programs : Of(e) \in reads[o]}) \ {e}
    /\ UNCHANGED <<config, manifest, held, at, known, starts>>

-----------------------------------------------------------------------------
(* update-snapshot-manifest and update_snapshots.py.                       *)

\* Mutant: the pin is filed under the provider at hand.
PathOfProvider(e) == IF Does(e, "update") THEN Of(e)[at[e]] ELSE Of(e)

\* The path a program pins: that of the provider, or of --out_dir.
Path(e) == IF Does(e, "update") THEN job[e].out ELSE Of(e)

\* An id that is not listed ends the program in the middle of its list.
UnknownProvider(e) ==
    /\ line[e] = "fetch"
    /\ Of(e)[at[e]] \notin known[e]
    /\ Leave(e)
    /\ UNCHANGED <<files, starts, loosened>>

\* The answer of the site: a page, an error (with or without a body), or no
\* connection.  An error is only noted beside the snapshot, unless --force.
Fetch(e) ==
    /\ line[e] = "fetch"
    /\ Of(e)[at[e]] \in known[e]
    /\ \/ \E page \in Pages : Hold(e, page) /\ Goto(e, "write")
       \/ job[e].force /\ Hold(e, Nothing) /\ Goto(e, "hash")
       \/ ~job[e].force /\ Goto(e, "next") /\ UNCHANGED held
    /\ UNCHANGED <<files, job, at, known, starts, reads, overtaken, loosened>>

\* The page replaces index.html.
WritePage(e) ==
    /\ line[e] = "write" /\ Does(e, "update")
    /\ fixture' = [fixture EXCEPT ![job[e].out] = held[e]]
    /\ loosened' = IF job[e].pins THEN loosened ELSE loosened \cup {job[e].out}
    /\ Overtakes(e, job[e].out)
    /\ Read(e, job[e].out)
    /\ Goto(e, "hash")
    /\ UNCHANGED <<config, manifest, memory, starts>>

\* update_snapshots.py takes the hash from the file, and the size from what it
\* got; update-snapshot-manifest takes both from the file.
Hashed(e) ==
    IF Does(e, "update") THEN [sha |-> fixture[job[e].out], bytes |-> held[e]]
    ELSE PinOf(fixture[Of(e)])

HashFile(e) ==
    /\ line[e] = "hash"
    /\ IF Does(e, "pin") /\ fixture[Of(e)] = Nothing
       THEN Leave(e)
       ELSE /\ Hold(e, Hashed(e))
            /\ Goto(e, IF Does(e, "update") /\ ~job[e].pins THEN "next" ELSE "pins")
            /\ Read(e, Path(e))
            /\ UNCHANGED <<job, at, known, overtaken>>
    /\ UNCHANGED <<files, starts, loosened>>

\* Mutant: the manifest starts empty.
RepinnedAlone(e) == [p \in Providers |-> IF p = Path(e) THEN held[e] ELSE Nothing]

Repinned(e) == [manifest EXCEPT ![Path(e)] = held[e]]

ReadPins(e) ==
    /\ line[e] = "pins"
    /\ Hold(e, Repinned(e))
    /\ Read(e, "manifest")
    /\ Goto(e, "repin")
    /\ UNCHANGED <<files, job, at, known, starts, overtaken, loosened>>

\* A pin taken from a file that changed, or of a size that is not its own.
Unsafe(e) == e \in overtaken \/ held[e][Path(e)].bytes = Nothing

StorePins(e) ==
    /\ line[e] = "repin"
    /\ manifest' = held[e]
    /\ loosened' = IF Unsafe(e) THEN loosened \cup {p \in Providers : held[e][p] # manifest[p]}
                   ELSE loosened \ {Path(e)}
    /\ Overtakes(e, "manifest")
    /\ Goto(e, "next")
    /\ UNCHANGED <<config, fixture, memory, starts, reads>>

\* The next of --providers, all of them into one --out_dir, or the end.
NextProvider(e) ==
    /\ line[e] = "next"
    /\ IF Does(e, "update") /\ at[e] < Len(Of(e))
       THEN /\ at' = [at EXCEPT ![e] = @ + 1]
            /\ Hold(e, Nothing)
            /\ Goto(e, "fetch")
            /\ Unwatched(e)
            /\ UNCHANGED <<job, known>>
       ELSE Leave(e)
    /\ UNCHANGED <<files, starts, loosened>>

\* A program is killed: an update after its page and before its pin, a
\* scaffold in the middle of its write.
Kill(e) ==
    /\ line[e] # "idle"
    /\ Leave(e)
    /\ loosened' = IF Does(e, "update") /\ line[e] \in {"hash", "pins", "repin"}
                   THEN loosened \cup {job[e].out} ELSE loosened
    /\ UNCHANGED <<files, starts>>

FilesNext == \E e \in Programs :
    \/ \E q \in Commands : Start(e, q)
    \/ AppendEntry(e) \/ Resolve(e) \/ LookForFixture(e) \/ ReadPin(e) \/ ComparePin(e)
    \/ EditEntry(e) \/ StoreConfig(e)
    \/ ChooseProviders(e) \/ ResolveAgain(e)
    \/ Scaffold(e) \/ WritePlaceholder(e)
    \/ UnknownProvider(e) \/ Fetch(e) \/ WritePage(e) \/ HashFile(e)
    \/ ReadPins(e) \/ StorePins(e) \/ NextProvider(e) \/ Kill(e)

FilesSpec == FilesInit /\ [][FilesNext]_fileVars

-----------------------------------------------------------------------------
(* Properties.                                                             *)

\* A provider is enabled over a fixture that is not as pinned only when
\* another program wrote the configuration, the manifest or that fixture
\* between the checks of enable and its own write.
EnabledOnlyChecked ==
    [][\A e \in Programs, p \in Providers :
          line[e] = "store" /\ line'[e] = "idle" /\ config'[p] # Nothing /\ config[p] # Nothing
             /\ config'[p].enabled /\ ~config[p].enabled /\ e \notin overtaken
          => (config[p].needs => AsPinned(p))]_fileVars

Undone(p, before, after) ==
    before[p] # Nothing /\ (after[p] = Nothing \/ (before[p].enabled /\ ~after[p].enabled))

\* An entry that was appended, a provider that was enabled and a pin that was
\* taken are lost only to a program that read the file before they were
\* written and wrote it after.
EditsLostOnlyToRaces ==
    [][\A e \in Programs : line'[e] # line[e] /\ e \notin overtaken =>
          \A p \in Providers :
              /\ ~Undone(p, config, config')
              /\ manifest'[p] # manifest[p] => line[e] = "repin" /\ Path(e) = p]_fileVars

\* A fixture is unlike its pin while an update is at it, and otherwise only
\* after a scaffold, an update without a manifest, a kill between the page and
\* its pin, a race on the fixture or the manifest, or a forced update without
\* data.
PinsBreakInKnownWays ==
    \A p \in Providers :
        manifest[p] # Nothing /\ ~AsPinned(p) =>
            \/ p \in loosened
            \/ \E e \in Programs : /\ Does(e, "update") /\ job[e].out = p
                                   /\ line[e] \in {"hash", "pins", "repin"}
=============================================================================
