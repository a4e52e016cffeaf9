------------------------------ MODULE Settings ------------------------------
(***************************************************************************)
(* What Overwatch writes into the settings of other programs, and takes    *)
(* out again: the status line of Claude Code, a single slot whose former   *)
(* command goes to the chain file, and the hooks of Claude Code and Codex, *)
(* lists in which ours stands beside others.  Markers remember what was    *)
(* written, since the text of a command does not say whose it is.          *)
(*                                                                         *)
(* The files are read and written by the command line, by the watchdog of  *)
(* the daemon, which puts the status line back, and by their owners; no    *)
(* lock is held from a load to its save.  Overwatch was once Blink, and    *)
(* the first command of a new program moves what that left behind.         *)
(*                                                                         *)
(* A command of ours is known by how it spells the path of its shim: as    *)
(* Blink did, as an older release, as the newest one.  One event stands    *)
(* for all those a program has hooks for; of its list it is said how many  *)
(* hooks of ours it has in each spelling, and nothing of their order.      *)
(***************************************************************************)
EXTENDS Integers, FiniteSets

CONSTANTS
  Owners,     \* the status lines the owner chooses from
  Files,      \* the programs with hooks: "claude", and "codex" if it is there
  MaxTries,   \* MAX_REINSTATEMENTS
  Acts,       \* bound: what the owner and other programs do
  Faults      \* bound: kills and failing saves

ASSUME Parts == /\ "claude" \in Files /\ Files \subseteq {"claude", "codex"}
                /\ {MaxTries, Acts, Faults} \subseteq Nat
ASSUME OwnersAreOthers == Owners \cap {"none", "blink", "old", "new"} = {}

VARIABLES
  line, entries, readable,  \* the settings: the status line, our hooks, whether a file parses
  chain, marker, noted,     \* ~/.overwatch: the chain file and the markers
  moved, newest, service,   \* it is there; the installed program; its registration
  at, prog, copy,           \* each process: its step, its spelling, what it has loaded
  cmd, file, whole,         \* the command line: its command, the hooks it is at, undisturbed
  tries,                    \* the watchdog's _reinstatements
  own, excused,             \* history: the owner's status line, and what may be lost
  acts, faults

settings == <<line, entries, readable>>
home == <<chain, marker, noted>>
machine == <<moved, newest, service>>
process == <<at, prog, copy>>
command == <<cmd, file, whole>>
history == <<own, excused>>
bounds == <<acts, faults>>
vars == <<settings, home, machine, process, command, tries, history, bounds>>

None == "none"
Spellings == {"blink", "old", "new"}
Process == {"cli", "daemon"}
NoHooks == [s \in Spellings |-> 0]
Only(s) == [NoHooks EXCEPT ![s] = 1]
NoCopy == [line |-> None, entries |-> NoHooks]
Unnoted == [f \in Files |-> {}]

Fresh == /\ line \in Owners \cup {None} /\ chain = None /\ marker = None
         /\ entries = [f \in Files |-> NoHooks] /\ noted = Unnoted
         /\ moved = TRUE /\ newest \in {"old", "new"} /\ own = line
Blink == /\ line = "blink" /\ chain \in Owners \cup {None} /\ marker = "blink"
         /\ entries = [f \in Files |-> IF f = "claude" THEN Only("blink") ELSE NoHooks]
         /\ noted = [f \in Files |-> IF f = "claude" THEN {"blink"} ELSE {}]
         /\ moved = FALSE /\ newest = "new" /\ own = chain

Init == /\ Fresh \/ Blink
        /\ readable = [f \in Files |-> TRUE] /\ service = FALSE
        /\ at = [p \in Process |-> "off"] /\ prog = [p \in Process |-> newest]
        /\ copy = [p \in Process |-> NoCopy]
        /\ cmd = None /\ file = "claude" /\ whole = TRUE /\ tries = 0
        /\ excused = {} /\ acts = 0 /\ faults = 0

Go(p, step) == at' = [at EXCEPT ![p] = step]
Loads(p, c) == copy' = [copy EXCEPT ![p] = c]
Ended == cmd' = None /\ file' = "claude" /\ whole' = TRUE

\* What the properties leave out: a file edited between a load and its save, one
\* that two programs write at once, and a program that is stopped after its save
\* and before its marker.
If(c, things) == IF c THEN things ELSE {}
Excuse(things) == excused' = excused \cup things
Midway == \E p \in Process : at[p] \in {"chain", "save", "restore", "merge"}
Overlap == \A p \in Process : at[p] \in {"chain", "save", "mark", "restore", "merge"}
Torn == at["daemon"] = "mark" /\ at'["daemon"] # "mark"

-----------------------------------------------------------------------------
(* The status line.                                                        *)

\* _is_ours, of what has been loaded
Ours(p) == copy[p].line # None /\ copy[p].line \in {marker, prog[p]}
Foreign(p) == copy[p].line # None /\ ~Ours(p)

\* A process that gives up here: the watchdog counts it, a command is over.
Stops(p) == IF p = "cli" THEN Go(p, "off") /\ Ended /\ UNCHANGED tries
            ELSE Go(p, "idle") /\ tries' = tries + 1 /\ UNCHANGED command

\* MUTANT of Look: a line that has been replaced is taken for a choice.
LookIfGone ==
  /\ at["daemon"] = "idle" /\ tries < MaxTries
  /\ marker # None /\ readable["claude"] /\ line = None
  /\ Go("daemon", "load")
  /\ UNCHANGED <<settings, home, machine, prog, copy, command, tries, history, bounds>>

\* drift_check, as far as its install
Look ==
  /\ at["daemon"] = "idle" /\ tries < MaxTries
  /\ marker # None /\ readable["claude"] /\ line # prog["daemon"]
  /\ Go("daemon", "load")
  /\ UNCHANGED <<settings, home, machine, prog, copy, command, tries, history, bounds>>

Load(p) ==
  /\ at[p] = "load"
  /\ \/ /\ readable["claude"] /\ Loads(p, [line |-> line, entries |-> entries["claude"]])
        /\ Go(p, IF cmd = "uninstall" /\ p = "cli" THEN "restore" ELSE "chain")
        /\ UNCHANGED <<command, tries>>
     \/ /\ ~readable["claude"] /\ cmd = "uninstall" /\ p = "cli"
        /\ Go(p, "hooks") /\ whole' = FALSE /\ UNCHANGED <<copy, cmd, file, tries>>
     \/ /\ ~readable["claude"] /\ ~(cmd = "uninstall" /\ p = "cli")
        /\ Stops(p) /\ UNCHANGED copy
  /\ Excuse(If(Overlap', {"line", "claude"}))
  /\ UNCHANGED <<settings, home, machine, prog, own, bounds>>

\* MUTANT of Chained: no status line is taken as proof that there is nothing to keep.
ChainedAnew(p) == IF Foreign(p) THEN copy[p].line ELSE IF copy[p].line = None THEN None ELSE chain

\* install: a command that is not ours goes to the chain file; with neither a
\* command nor a marker that file is nobody's.
Chained(p) == IF Foreign(p) THEN copy[p].line
              ELSE IF copy[p].line = None /\ marker = None THEN None ELSE chain
Chain(p) ==
  /\ at[p] = "chain" /\ chain' = Chained(p) /\ Go(p, "save")
  /\ UNCHANGED <<settings, marker, noted, machine, prog, copy, command, tries, history, bounds>>

\* The file is written back as it was loaded, but for the line.
Save(p) ==
  /\ at[p] = "save" /\ Go(p, "mark")
  /\ line' = prog[p] /\ entries' = [entries EXCEPT !["claude"] = copy[p].entries]
  /\ UNCHANGED <<readable, home, machine, prog, copy, command, tries, history, bounds>>

Mark(p) ==
  /\ at[p] = "mark" /\ marker' = prog[p] /\ Loads(p, NoCopy)
  /\ IF p = "cli" THEN Go(p, "hooks") /\ UNCHANGED <<command, tries>> ELSE Stops(p)
  /\ UNCHANGED <<settings, chain, noted, machine, prog, history, bounds>>

\* uninstall: a line that is not ours is left alone, with the chain and the marker.
Restore ==
  /\ at["cli"] = "restore"
  /\ IF Ours("cli")
     THEN /\ line' = chain /\ entries' = [entries EXCEPT !["claude"] = copy["cli"].entries]
          /\ Go("cli", "unchain")
     ELSE Go("cli", "hooks") /\ UNCHANGED <<line, entries>>
  /\ Loads("cli", NoCopy)
  /\ UNCHANGED <<readable, home, machine, prog, command, tries, history, bounds>>

Unchain ==
  /\ at["cli"] = "unchain" /\ chain' = None /\ Go("cli", "unmark")
  /\ UNCHANGED <<settings, marker, noted, machine, prog, copy, command, tries, history, bounds>>

Unmark ==
  /\ at["cli"] = "unmark" /\ marker' = None /\ Go("cli", "hooks")
  /\ UNCHANGED <<settings, chain, noted, machine, prog, copy, command, tries, history, bounds>>

-----------------------------------------------------------------------------
(* The hooks, in one file after the other.                                 *)

Mine == noted[file] \cup {prog["cli"]}

\* MUTANT of Merged: what is there is known by its text alone.
MergedByText(es) == {IF es[prog["cli"]] > 0 THEN es ELSE [es EXCEPT ![prog["cli"]] = @ + 1]}

\* install: the first entry of ours is pointed at the shim, or one is added.
Merged(es) ==
  LET ours == {s \in Mine : es[s] > 0}
  IN IF ours = {} THEN {[es EXCEPT ![prog["cli"]] = @ + 1]}
     ELSE {[[es EXCEPT ![s] = @ - 1] EXCEPT ![prog["cli"]] = @ + 1] : s \in ours}

\* MUTANT of Cleared: the marker is not asked.
ClearedByText(es) == [es EXCEPT ![prog["cli"]] = 0]

\* uninstall
Cleared(es) == [s \in Spellings |-> IF s \in Mine THEN 0 ELSE es[s]]

\* The next file, or the end: an install registers the service, which starts the
\* program anew.
Onward(undisturbed) ==
  /\ Loads("cli", NoCopy)
  /\ \/ /\ file = "claude" /\ "codex" \in Files
        /\ file' = "codex" /\ whole' = undisturbed /\ Go("cli", "hooks")
        /\ UNCHANGED <<cmd, service, prog, tries>>
     \/ /\ file = "codex" \/ Files = {"claude"}
        /\ Ended
        /\ IF cmd = "install"
           THEN /\ service' = TRUE /\ tries' = 0
                /\ prog' = [prog EXCEPT !["daemon"] = prog["cli"]]
                /\ at' = [cli |-> "off", daemon |-> "idle"]
           ELSE Go("cli", "off") /\ UNCHANGED <<service, prog, tries>>
  /\ Excuse(If(Torn, {"line"}))

\* A file that cannot be read is left alone.
LoadHooks ==
  /\ at["cli"] = "hooks"
  /\ \/ /\ readable[file] /\ Loads("cli", [line |-> line, entries |-> entries[file]])
        /\ Go("cli", "merge") /\ Excuse(If(Overlap', {"line", "claude"}))
        /\ UNCHANGED <<command, service, prog, tries>>
     \/ ~readable[file] /\ Onward(FALSE)
  /\ UNCHANGED <<settings, home, moved, newest, own, bounds>>

SaveHooks ==
  /\ at["cli"] = "merge" /\ Go("cli", "note")
  /\ LET es == copy["cli"].entries
     IN \E hooks \in (IF cmd = "install" THEN Merged(es) ELSE {Cleared(es)}) :
          entries' = [entries EXCEPT ![file] = hooks]
  /\ line' = (IF file = "claude" THEN copy["cli"].line ELSE line)
  /\ UNCHANGED <<readable, home, machine, prog, copy, command, tries, history, bounds>>

NoteHooks ==
  /\ at["cli"] = "note"
  /\ noted' = [noted EXCEPT ![file] = IF cmd = "install" THEN {prog["cli"]} ELSE {}]
  /\ Onward(whole)
  /\ UNCHANGED <<settings, chain, marker, moved, newest, own, bounds>>

-----------------------------------------------------------------------------
(* The command line and the service.                                       *)

\* An install may come from a newer release than the one that is installed.
Start(c) ==
  /\ at["cli"] = "off" /\ cmd' = c /\ Go("cli", IF moved THEN "begin" ELSE "move")
  /\ \E s \in {newest} \cup If(c = "install", {"new"}) : prog' = [prog EXCEPT !["cli"] = s]
  /\ UNCHANGED <<settings, home, machine, copy, file, whole, tries, history, bounds>>

\* migrate.run: the directory, the two markers, the settings.
Renamed(c) == IF c = "blink" THEN "new" ELSE c
AllRenamed(es) == [es EXCEPT !["new"] = @ + es["blink"], !["blink"] = 0]
Move ==
  /\ at["cli"] = "move" /\ moved' = TRUE /\ Go("cli", "remark")
  /\ UNCHANGED <<settings, home, newest, service, prog, copy, command, tries, history, bounds>>
Remark ==
  /\ at["cli"] = "remark" /\ marker' = Renamed(marker) /\ Go("cli", "renote")
  /\ UNCHANGED <<settings, chain, noted, machine, prog, copy, command, tries, history, bounds>>
Renote ==
  /\ at["cli"] = "renote" /\ Go("cli", "repoint")
  /\ noted' = [noted EXCEPT !["claude"] = {Renamed(c) : c \in @}]
  /\ UNCHANGED <<settings, chain, marker, machine, prog, copy, command, tries, history, bounds>>
Repoint ==
  /\ at["cli"] = "repoint" /\ Go("cli", "begin")
  /\ line' = Renamed(line)
  /\ entries' = [entries EXCEPT !["claude"] = AllRenamed(@)]
  /\ UNCHANGED <<readable, home, machine, prog, copy, command, tries, history, bounds>>

\* uninstall begins by removing the service; an install from a download by halting
\* it and putting its program in place, unless it sees at once that it could not
\* read the settings.
Halts == at' = [cli |-> "load", daemon |-> "off"] /\ Loads("daemon", NoCopy)
Begin ==
  /\ at["cli"] = "begin"
  /\ \/ cmd = "uninstall" /\ Halts /\ service' = FALSE /\ UNCHANGED <<newest, cmd>>
     \/ /\ cmd = "install" /\ readable["claude"] /\ UNCHANGED <<service, cmd>>
        /\ \/ Halts /\ newest' = prog["cli"]
           \/ newest = prog["cli"] /\ Go("cli", "load") /\ UNCHANGED <<newest, copy>>
     \/ /\ cmd = "other" \/ (cmd = "install" /\ ~readable["claude"])
        /\ Go("cli", "off") /\ cmd' = None /\ UNCHANGED <<newest, service, copy>>
  /\ Excuse(If(Torn, {"line"}))
  /\ whole' = (whole \/ cmd' = None)
  /\ UNCHANGED <<settings, home, moved, prog, file, tries, own, bounds>>

Starts(s) == /\ Go("daemon", "idle") /\ tries' = 0 /\ Loads("daemon", NoCopy)
             /\ prog' = [prog EXCEPT !["daemon"] = s]

ServiceStart ==
  /\ service /\ at["daemon"] = "off" /\ Starts(newest)
  /\ UNCHANGED <<settings, home, machine, command, history, bounds>>

\* overwatch update: the program is replaced and the service started anew.
Update ==
  /\ at["cli"] = "off" /\ service /\ newest = "old"
  /\ newest' = "new" /\ Starts("new") /\ Excuse(If(Torn, {"line"}))
  /\ UNCHANGED <<settings, home, moved, service, command, own, bounds>>

-----------------------------------------------------------------------------
(* Others, and what goes wrong.                                            *)

Act == /\ acts < Acts /\ acts' = acts + 1 /\ whole' = (whole /\ at["cli"] = "off")
       /\ UNCHANGED <<machine, process, cmd, file, tries, faults>>

SetsLine ==
  /\ Act /\ readable["claude"]
  /\ \E u \in Owners \ {line} : line' = u /\ own' = u
  /\ excused' = (excused \ If(chain \notin Spellings, {"line"})) \cup If(Midway, {"line"})
  /\ UNCHANGED <<entries, readable, home>>

\* By the owner, or by an update of Claude Code
DropsLine ==
  /\ Act /\ readable["claude"] /\ line # None /\ line' = None
  /\ own' = (IF line \in Owners THEN None ELSE own)
  /\ Excuse(If(marker = None \/ Midway, {"line"}))
  /\ UNCHANGED <<entries, readable, home>>

Breaks ==
  /\ Act /\ \E f \in Files : readable[f] /\ readable' = [readable EXCEPT ![f] = FALSE]
  /\ UNCHANGED <<line, entries, home, history>>
Mends ==
  /\ \E f \in Files : ~readable[f] /\ readable' = [readable EXCEPT ![f] = TRUE]
  /\ UNCHANGED <<line, entries, home, machine, process, command, tries, history, bounds>>

\* ~/.overwatch is deleted, and what it had of the owner's.
Wipes ==
  /\ Act /\ moved /\ home # <<None, None, Unnoted>>
  /\ chain' = None /\ marker' = None /\ noted' = Unnoted
  /\ own' = (IF line = own THEN own ELSE None)
  /\ Excuse(Files \cup If(Midway \/ line \in Spellings, {"line"}))
  /\ UNCHANGED settings

Fault == faults < Faults /\ faults' = faults + 1

\* A file that was being written is left empty, and reads as none.
Kill(p) ==
  /\ Fault /\ at[p] # "off" /\ Go(p, "off") /\ Loads(p, NoCopy)
  /\ IF p = "cli" THEN Ended ELSE UNCHANGED command
  /\ chain' \in {chain} \cup If(at[p] = "chain" /\ Foreign(p), {None})
  /\ marker' \in {marker} \cup If(at[p] = "mark", {None})
  /\ noted' \in {noted} \cup If(at[p] = "note", {[noted EXCEPT ![file] = {}]})
  /\ Excuse(UNION {If(at[p] = "mark", {"line"}), If(at[p] = "note", {file}),
                   If(at[p] \in {"remark", "renote", "repoint"}, {"line", "claude"})})
  /\ UNCHANGED <<settings, machine, prog, tries, own, acts>>

\* A full disk: _save raises, which ends a command, but for Codex's file.
SaveFails(p) ==
  /\ Fault /\ at[p] \in {"save", "restore", "merge"}
  /\ IF at[p] = "merge" /\ file = "codex" THEN Onward(FALSE)
     ELSE Stops(p) /\ Loads(p, NoCopy) /\ UNCHANGED <<excused, service, prog>>
  /\ UNCHANGED <<settings, home, moved, newest, own, acts>>

Install(p) == Load(p) \/ Chain(p) \/ Save(p) \/ Mark(p)
Daemon == Look \/ Install("daemon") \/ ServiceStart
Command == \/ \E c \in {"install", "uninstall", "other"} : Start(c)
           \/ Move \/ Remark \/ Renote \/ Repoint \/ Begin
           \/ Install("cli") \/ Restore \/ Unchain \/ Unmark \/ LoadHooks \/ SaveHooks \/ NoteHooks
Others == \/ Update \/ SetsLine \/ DropsLine \/ Breaks \/ Mends \/ Wipes
          \/ \E p \in Process : Kill(p) \/ SaveFails(p)

Next == Daemon \/ Command \/ Others
Spec == Init /\ [][Next]_vars /\ WF_vars(Daemon)

-----------------------------------------------------------------------------
(* Properties.                                                             *)

Installs == {"load", "chain", "save", "mark"}
Commands == {"install", "uninstall", "other"}
CliSteps == {"off", "move", "remark", "renote", "repoint", "begin", "restore", "unchain", "unmark",
             "hooks", "merge", "note"} \cup Installs
DaemonSteps == {"off", "idle"} \cup Installs
Lines == Owners \cup Spellings \cup {None}
Counts == [Spellings -> Nat]
Copies == [line : Lines, entries : Counts]

\* Each variable has its type; the watchdog gives up at its cap (drift_check is
\* not called any more).
TypeOK ==
  /\ line \in Lines /\ chain \in Lines
  /\ marker \in Spellings \cup {None} /\ noted \in [Files -> SUBSET Spellings]
  /\ entries \in [Files -> Counts] /\ readable \in [Files -> BOOLEAN]
  /\ moved \in BOOLEAN /\ newest \in {"old", "new"} /\ service \in BOOLEAN
  /\ at \in [Process -> CliSteps \cup DaemonSteps]
  /\ at["cli"] \in CliSteps /\ at["daemon"] \in DaemonSteps
  /\ prog \in [Process -> {"old", "new"}]
  /\ copy \in [Process -> Copies]
  /\ cmd \in Commands \cup {None} /\ file \in Files /\ whole \in BOOLEAN
  /\ tries \in 0 .. MaxTries /\ own \in Owners \cup {None}
  /\ excused \subseteq Files \cup {"line"}
  /\ acts \in 0 .. Acts /\ faults \in 0 .. Faults

\* The owner's status line is never lost: through installs, repairs by the watchdog,
\* updates that spell the shim anew, kills, a full disk and the migration, it is in
\* the settings or in the chain file.
Kept == "line" \notin excused /\ own # None => own \in {line, chain}

\* A command that ends, with no step skipped and nothing else done meanwhile
Ends(c) == cmd = c /\ whole /\ at["cli"] = "note" /\ at'["cli"] = "off" /\ faults' = faults

\* However the machine came to be as it is, an uninstall leaves nothing of ours in the
\* files, and the owner's line is back, or still in the chain file if there was no line.
GivenBack ==
  [][Ends("uninstall") =>
       /\ "line" \in excused' \/ line' \in Owners \cup {None}
       /\ "line" \in excused' \/ own \in {None, line'} \/ (line' = None /\ chain' = own)
       /\ \A f \in Files \ excused' : entries'[f] = NoHooks]_vars

\* And an install leaves our status line, and one hook in each file that points at
\* the shim it installed, whatever older releases and Blink had put there.
OnceEach ==
  [][Ends("install") => /\ "line" \in excused' \/ line' = prog'["cli"]
                        /\ \A f \in Files \ excused' : entries'[f] = Only(prog'["cli"])]_vars

\* While it has not given up, the watchdog of a daemon that runs puts back the
\* status line that another program took out, replaced or left at an old path.
PutBack ==
  at["daemon"] # "off" /\ marker # None /\ line # prog["daemon"]
    ~> \/ line = prog["daemon"] \/ at["daemon"] = "off"
       \/ marker = None \/ ~readable["claude"] \/ tries = MaxTries
=============================================================================
