--------------------------- MODULE SettingsProof ---------------------------
(***************************************************************************)
(* What holds of the settings of other programs for any status lines an    *)
(* owner may choose from, any number of acts and faults, with or without   *)
(* Codex: types, that the owner's status line is kept, and what an install *)
(* and an uninstall that end have done.                                    *)
(*                                                                         *)
(* Kept speaks of the files alone, and an install is five steps.  The      *)
(* invariant says what each file holds at each of them (Safe, Known,       *)
(* Done), and that nothing else has written what a process has loaded and  *)
(* is about to write back, unless that is excused (Apart, LineCopied,      *)
(* HooksCopied).                                                           *)
(***************************************************************************)
EXTENDS Settings, TLAPS

-----------------------------------------------------------------------------
(* The invariant.                                                          *)

\* The steps of a command after it has begun, and those of the migration.
Begun == {"load", "chain", "save", "mark", "restore", "unchain", "unmark", "hooks", "merge", "note"}
Moving == {"remark", "renote", "repoint"}

\* A process at one of these will write back what it has loaded.
Holding == {"chain", "save", "restore", "merge"}
Other(p) == IF p = "cli" THEN "daemon" ELSE "cli"

\* Which command goes through which steps, and on which files.
Steps ==
  /\ at["cli"] = "off" => cmd = None /\ whole
  /\ at["cli"] # "off" => cmd # None
  /\ at["cli"] \in Begun => cmd \in {"install", "uninstall"}
  /\ at["cli"] \in {"restore", "unchain", "unmark"} => cmd = "uninstall"
  /\ at["cli"] \in {"chain", "save", "mark"} => cmd = "install"
  /\ file = "codex" => at["cli"] \in {"hooks", "merge", "note"}
  /\ at["daemon"] \in Installs => tries < MaxTries
  /\ ~moved => at["cli"] \in {"off", "move"}
  /\ at["cli"] = "move" => ~moved

\* There is no daemon before the migration is over, nor while an uninstall goes on.
Quiet == ~moved \/ at["cli"] \in Moving \/ (cmd = "uninstall" /\ at["cli"] \in Begun)
           => ~service /\ at["daemon"] = "off"

\* The daemon and an install that has begun are of the same program.
Same == /\ at["daemon"] # "off" => prog["daemon"] = newest
        /\ cmd = "install" /\ at["cli"] \in Begun => prog["cli"] = newest

\* No two processes write the same file at once, or it is excused.
Apart ==
  ~({"line", "claude"} \subseteq excused) =>
    \A p \in Process : at[p] \in Holding => at[Other(p)] \notin Holding \cup {"mark"}

\* What a process has loaded is still what the files hold.
LineCopied == "line" \notin excused => \A p \in Process : at[p] \in Holding => copy[p].line = line
HooksCopied ==
  /\ "claude" \notin excused =>
       \A p \in Process : at[p] \in Holding \ {"merge"} => copy[p].entries = entries["claude"]
  /\ at["cli"] = "merge" /\ file \notin excused => copy["cli"].entries = entries[file]

\* The marker tells a status line of ours, except between the save and the marker,
\* and in the middle of the migration.
Marked ==
  line \in Spellings =>
    IF \E p \in Process : at[p] = "mark" THEN \A p \in Process : at[p] = "mark" => line = prog[p]
    ELSE marker = IF at["cli"] \in {"renote", "repoint"} THEN Renamed(line) ELSE line

\* Where the owner's line is: in the settings, or in the chain file and remembered
\* there by the marker; in the chain file alone once a save is next, and in the
\* settings alone once an uninstall has put it back.
Safe == "line" \notin excused =>
  /\ line \in Owners => own \in {None, line}
  /\ own # None /\ line \notin Owners => chain = own
  /\ own # None /\ line = None => marker # None
  /\ chain \notin Spellings
  /\ Marked
  /\ \A p \in Process : at[p] = "save" /\ own # None => chain = own
  /\ at["cli"] \in {"unchain", "unmark"} => line \notin Spellings /\ own \in {None, line}

\* What a command leaves of our hooks in a file.
Given == IF cmd = "install" THEN Only(prog["cli"]) ELSE NoHooks

\* A file has one hook of ours at most, and its marker knows it.
Known == \A f \in Files \ excused :
  IF at["cli"] = "note" /\ file = f THEN entries[f] = Given
  ELSE \/ entries[f] = NoHooks
       \/ \E s \in Spellings :
            /\ entries[f] = Only(s)
            /\ (IF f = "claude" /\ at["cli"] = "repoint" THEN Renamed(s) ELSE s) \in noted[f]

\* What an undisturbed command has done so far.
Done == whole =>
  /\ at["cli"] \in {"hooks", "merge", "note"} /\ file = "codex" /\ "claude" \notin excused =>
       entries["claude"] = Given
  /\ at["cli"] \in {"mark", "hooks", "merge", "note"} /\ "line" \notin excused =>
       IF cmd = "install" THEN line = prog["cli"]
       ELSE line \notin Spellings /\ (own \in {None, line} \/ (line = None /\ chain = own))

IInv == /\ TypeOK /\ Steps /\ Quiet /\ Same /\ Apart /\ LineCopied /\ HooksCopied
        /\ Safe /\ Known /\ Done

USE DEF settings, home, machine, process, command, history, bounds,
        Process, None, Spellings, Go, Loads, Installs

-----------------------------------------------------------------------------
(* The operators.                                                          *)

LEMMA HooksType == NoCopy \in Copies /\ NoHooks \in Counts /\ \A s \in Spellings : Only(s) \in Counts
  BY DEF NoCopy, Copies, Counts, NoHooks, Only, Lines

LEMMA EditsType ==
  ASSUME TypeOK, NEW es \in Counts
  PROVE  Merged(es) \subseteq Counts /\ Cleared(es) \in Counts /\ AllRenamed(es) \in Counts
  <1>1. Cleared(es) \in Counts  BY DEF Cleared, Counts
  <1>2. AllRenamed(es) \in Counts  BY DEF AllRenamed, Counts
  <1>3. prog["cli"] \in Spellings  BY DEF TypeOK
  <1>4. [es EXCEPT ![prog["cli"]] = @ + 1] \in Counts  BY <1>3 DEF Counts
  <1>5. ASSUME NEW s \in Spellings, es[s] > 0
        PROVE  [[es EXCEPT ![s] = @ - 1] EXCEPT ![prog["cli"]] = @ + 1] \in Counts
    BY <1>3, <1>5 DEF Counts
  <1>6. Mine \subseteq Spellings  BY <1>3 DEF Mine, TypeOK
  <1> QED  BY <1>1, <1>2, <1>4, <1>5, <1>6 DEF Merged

LEMMA OnwardType ==
  ASSUME TypeOK, NEW w \in BOOLEAN, Onward(w)
  PROVE  /\ at' \in [Process -> CliSteps \cup DaemonSteps]
         /\ at'["cli"] \in CliSteps /\ at'["daemon"] \in DaemonSteps
         /\ prog' \in [Process -> {"old", "new"}] /\ copy' \in [Process -> Copies]
         /\ cmd' \in Commands \cup {None} /\ file' \in Files /\ whole' \in BOOLEAN
         /\ service' \in BOOLEAN /\ tries' \in 0 .. MaxTries /\ excused' \subseteq Files \cup {"line"}
  <1>1. copy' \in [Process -> Copies]
    BY HooksType DEF TypeOK, Onward
  <1>2. excused' \subseteq Files \cup {"line"}
    BY DEF TypeOK, Onward, Excuse, If
  <1>3. CASE file' = "codex" /\ whole' = w /\ Go("cli", "hooks") /\ "codex" \in Files
             /\ UNCHANGED <<cmd, service, prog, tries>>
    BY <1>1, <1>2, <1>3 DEF TypeOK, CliSteps, DaemonSteps
  <1>4. CASE Ended /\ at' = [cli |-> "off", daemon |-> "idle"] /\ service' = TRUE /\ tries' = 0
                /\ prog' = [prog EXCEPT !["daemon"] = prog["cli"]]
    BY <1>1, <1>2, <1>4, Parts DEF TypeOK, Ended, CliSteps, DaemonSteps, Commands
  <1>5. CASE Ended /\ Go("cli", "off") /\ UNCHANGED <<service, prog, tries>>
    BY <1>1, <1>2, <1>5, Parts DEF TypeOK, Ended, CliSteps, DaemonSteps, Commands
  <1> QED  BY <1>3, <1>4, <1>5 DEF Onward

LEMMA OneOfMine ==
  ASSUME TypeOK, NEW es, es = NoHooks \/ \E s \in Mine \cap Spellings : es = Only(s)
  PROVE  Merged(es) = {Only(prog["cli"])} /\ Cleared(es) = NoHooks
  <1>1. prog["cli"] \in Spellings  BY DEF TypeOK
  <1>2. Cleared(es) = NoHooks  BY DEF Cleared, NoHooks, Only
  <1>3. CASE es = NoHooks
    <2>1. {t \in Mine : es[t] > 0} = {}
      BY <1>1, <1>3 DEF NoHooks, Mine, TypeOK
    <2>2. Merged(es) = {[es EXCEPT ![prog["cli"]] = @ + 1]}
      BY <2>1 DEF Merged
    <2>3. [es EXCEPT ![prog["cli"]] = @ + 1] = [s \in Spellings |-> IF s = prog["cli"] THEN 1 ELSE 0]
      BY <1>1, <1>3 DEF NoHooks
    <2>4. Only(prog["cli"]) = [s \in Spellings |-> IF s = prog["cli"] THEN 1 ELSE 0]
      BY <1>1 DEF Only, NoHooks
    <2> QED  BY <1>2, <2>2, <2>3, <2>4
  <1>4. ASSUME NEW s \in Mine \cap Spellings, es = Only(s)
        PROVE  Merged(es) = {Only(prog["cli"])}
    <2>1. {t \in Mine : es[t] > 0} = {s}
      BY <1>1, <1>4 DEF Only, NoHooks, Mine, TypeOK
    <2>2. [[es EXCEPT ![s] = @ - 1] EXCEPT ![prog["cli"]] = @ + 1] = Only(prog["cli"])
      BY <1>1, <1>4 DEF Only, NoHooks
    <2> QED  BY <2>1, <2>2 DEF Merged
  <1> QED  BY <1>2, <1>3, <1>4

LEMMA LookStep ==
  ASSUME IInv, Look
  PROVE  IInv'
  <1>1. TypeOK'
    BY DEF IInv, TypeOK, DaemonSteps, Look
  <1>2. Steps'
    BY DEF IInv, Steps, Look
  <1>3. Quiet'
    BY DEF IInv, Quiet, Look
  <1>4. Same'
    BY DEF IInv, Same, Look
  <1>5. Apart'
    BY DEF IInv, Apart, Holding, Look
  <1>6. LineCopied'
    BY DEF IInv, LineCopied, Holding, Look
  <1>7. HooksCopied'
    BY DEF IInv, HooksCopied, Holding, Look
  <1>8. Safe'
    BY DEF IInv, Safe, Marked, Look
  <1>9. Known'
    BY DEF IInv, Known, Given, Look
  <1>10. Done'
    BY DEF IInv, Done, Given, Look
  <1> QED  BY <1>1, <1>2, <1>3, <1>4, <1>5, <1>6, <1>7, <1>8, <1>9, <1>10 DEF IInv

LEMMA LoadStep ==
  ASSUME IInv, NEW p \in Process, Load(p)
  PROVE  IInv'
  <1>1. TypeOK'
    <2>1. [line |-> line, entries |-> entries["claude"]] \in Copies
      BY Parts DEF IInv, TypeOK, Copies
    <2>2. copy' \in [Process -> Copies]
      BY <2>1 DEF IInv, TypeOK, Load
    <2>5. excused' \subseteq Files \cup {"line"}
      BY Parts DEF IInv, TypeOK, Load, Excuse, If
    <2>3. CASE p = "cli"
      <3>1. /\ at' \in [Process -> CliSteps \cup DaemonSteps]
            /\ at'["cli"] \in CliSteps /\ at'["daemon"] \in DaemonSteps
        BY <2>3 DEF IInv, TypeOK, Load, Stops, CliSteps
      <3>2. cmd' \in Commands \cup {None} /\ file' \in Files /\ whole' \in BOOLEAN /\ tries' = tries
        BY <2>3, Parts DEF IInv, TypeOK, Load, Stops, Ended
      <3> QED  BY <2>2, <2>5, <3>1, <3>2 DEF IInv, TypeOK, Load
    <2>4. CASE p = "daemon"
      BY <2>2, <2>5, <2>4, Parts DEF IInv, TypeOK, Steps, Load, DaemonSteps, Stops
    <2> QED  BY <2>3, <2>4
  <1>2. Steps'
    BY DEF IInv, TypeOK, Steps, Begun, Load, Stops, Ended
  <1>3. Quiet'
    BY DEF IInv, TypeOK, Quiet, Begun, Moving, Load, Stops
  <1>4. Same'
    BY DEF IInv, TypeOK, Same, Begun, Load, Stops
  <1>5. Apart'
    BY DEF IInv, Apart, Holding, Other, Load, Excuse, If, Overlap
  <1>6. LineCopied'
    BY DEF IInv, TypeOK, LineCopied, Holding, Load, Excuse, If, Stops
  <1>7. HooksCopied'
    BY DEF IInv, TypeOK, HooksCopied, Holding, Load, Excuse, If, Stops
  <1>8. Safe'
    BY DEF IInv, TypeOK, Safe, Marked, Load, Excuse, If, Stops
  <1>9. Known'
    BY DEF IInv, TypeOK, Known, Given, Load, Excuse, If, Stops
  <1>10. Done'
    <2>1. CASE p = "cli"
      BY <2>1 DEF IInv, TypeOK, Done, Load, Stops
    <2>2. CASE p = "daemon"
      BY <2>2 DEF IInv, TypeOK, Done, Given, Load, Excuse, Stops
    <2> QED  BY <2>1, <2>2
  <1> QED  BY <1>1, <1>2, <1>3, <1>4, <1>5, <1>6, <1>7, <1>8, <1>9, <1>10 DEF IInv

LEMMA ChainStep ==
  ASSUME IInv, NEW p \in Process, Chain(p)
  PROVE  IInv'
  <1>1. TypeOK'
    BY DEF IInv, TypeOK, CliSteps, DaemonSteps, Chain, Chained, Copies
  <1>2. Steps'
    BY DEF IInv, Steps, Chain
  <1>3. Quiet'
    BY DEF IInv, Quiet, Begun, Moving, Chain
  <1>4. Same'
    BY DEF IInv, Same, Begun, Chain
  <1>5. Apart'
    BY DEF IInv, Apart, Holding, Chain
  <1>6. LineCopied'
    BY DEF IInv, LineCopied, Holding, Chain
  <1>7. HooksCopied'
    BY DEF IInv, HooksCopied, Holding, Chain
  <1>8. Safe'
    <2> SUFFICES ASSUME "line" \notin excused
                 PROVE  /\ own # None => chain' = own
                        /\ chain' \notin Spellings
                        /\ Marked'
      BY DEF IInv, Safe, Chain
    <2>1. copy[p].line = line /\ prog[p] \in Spellings
      BY DEF IInv, TypeOK, LineCopied, Holding, Chain
    <2>2. line \in Spellings => marker = line
      BY DEF IInv, Apart, Other, Holding, Quiet, Moving, Safe, Marked, Chain
    <2>3. Foreign(p) => line \in Owners
      BY <2>1, <2>2 DEF IInv, TypeOK, Lines, Foreign, Ours
    <2>4. Foreign(p) => chain' = line /\ chain' \in Owners /\ own \in {None, line}
      BY <2>1, <2>3 DEF IInv, Safe, Chain, Chained
    <2>5. ~Foreign(p) => (own # None => chain' = own) /\ chain' \notin Spellings
      BY <2>1, OwnersAreOthers DEF IInv, TypeOK, Safe, Chain, Chained, Foreign, Ours
    <2>6. Marked'
      BY DEF IInv, Safe, Marked, Chain
    <2> QED  BY <2>4, <2>5, <2>6, OwnersAreOthers
  <1>9. Known'
    BY DEF IInv, Known, Given, Chain
  <1>10. Done'
    BY DEF IInv, Done, Quiet, Steps, Given, Begun, Chain
  <1> QED  BY <1>1, <1>2, <1>3, <1>4, <1>5, <1>6, <1>7, <1>8, <1>9, <1>10 DEF IInv

LEMMA SaveStep ==
  ASSUME IInv, NEW p \in Process, Save(p)
  PROVE  IInv'
  <1>1. TypeOK'
    BY Parts DEF IInv, TypeOK, CliSteps, DaemonSteps, Lines, Save, Copies
  <1>2. Steps'
    BY DEF IInv, Steps, Save
  <1>3. Quiet'
    BY DEF IInv, Quiet, Begun, Moving, Save
  <1>4. Same'
    BY DEF IInv, Same, Begun, Save
  <1>5. Apart'
    BY DEF IInv, Apart, Holding, Save
  <1>6. LineCopied'
    BY DEF IInv, TypeOK, LineCopied, Apart, Holding, Other, Save
  <1>7. HooksCopied'
    BY DEF IInv, HooksCopied, Holding, Save
  <1>8. Safe'
    BY OwnersAreOthers DEF IInv, TypeOK, Safe, Apart, Quiet, Steps, Marked, Holding, Other, Begun, Save
  <1>9. Known'
    BY DEF IInv, Known, HooksCopied, Given, Holding, Save
  <1>10. Done'
    BY DEF IInv, Done, HooksCopied, Quiet, Same, Steps, Given, Holding, Begun, Save
  <1> QED  BY <1>1, <1>2, <1>3, <1>4, <1>5, <1>6, <1>7, <1>8, <1>9, <1>10 DEF IInv

LEMMA MarkStep ==
  ASSUME IInv, NEW p \in Process, Mark(p)
  PROVE  IInv'
  <1>1. TypeOK'
    BY HooksType, Parts DEF IInv, TypeOK, Steps, CliSteps, DaemonSteps, Mark, Stops
  <1>2. Steps'
    BY DEF IInv, TypeOK, Steps, Mark, Stops
  <1>3. Quiet'
    BY DEF IInv, TypeOK, Quiet, Begun, Moving, Mark, Stops
  <1>4. Same'
    BY DEF IInv, TypeOK, Same, Begun, Mark, Stops
  <1>5. Apart'
    BY DEF IInv, TypeOK, Apart, Holding, Other, Mark, Stops
  <1>6. LineCopied'
    BY DEF IInv, TypeOK, LineCopied, Holding, Mark, Stops
  <1>7. HooksCopied'
    BY DEF IInv, TypeOK, HooksCopied, Holding, Mark, Stops
  <1>8. Safe'
    BY DEF IInv, TypeOK, Safe, Marked, Renamed, Mark, Stops
  <1>9. Known'
    BY DEF IInv, TypeOK, Known, Given, Mark, Stops
  <1>10. Done'
    <2>1. CASE p = "cli"
      BY <2>1 DEF IInv, Steps, Done, Mark
    <2>2. CASE p = "daemon"
      BY <2>2 DEF IInv, TypeOK, Done, Given, Mark, Stops
    <2> QED  BY <2>1, <2>2
  <1> QED  BY <1>1, <1>2, <1>3, <1>4, <1>5, <1>6, <1>7, <1>8, <1>9, <1>10 DEF IInv

LEMMA RestoreStep ==
  ASSUME IInv, Restore
  PROVE  IInv'
  <1>1. TypeOK'
    BY HooksType DEF IInv, TypeOK, CliSteps, Restore, Copies
  <1>2. Steps'
    BY DEF IInv, TypeOK, Steps, Restore
  <1>3. Quiet'
    BY DEF IInv, TypeOK, Quiet, Begun, Moving, Restore
  <1>4. Same'
    BY DEF IInv, TypeOK, Same, Begun, Restore
  <1>5. Apart'
    BY DEF IInv, TypeOK, Apart, Holding, Other, Restore
  <1>6. LineCopied'
    BY DEF IInv, TypeOK, LineCopied, Quiet, Steps, Holding, Begun, Restore
  <1>7. HooksCopied'
    BY DEF IInv, TypeOK, HooksCopied, Holding, Restore
  <1>8. Safe'
    BY OwnersAreOthers DEF IInv, TypeOK, Safe, LineCopied, Marked, Holding, Restore, Ours
  <1>9. Known'
    BY DEF IInv, TypeOK, Known, HooksCopied, Holding, Restore
  <1>10. Done'
    <2>1. "line" \notin excused /\ ~Ours("cli") =>
            line \notin Spellings /\ (own \in {None, line} \/ (line = None /\ chain = own))
      BY DEF IInv, TypeOK, Lines, LineCopied, Holding, Apart, Other, Safe, Marked, Restore, Ours
    <2> QED  BY <2>1 DEF IInv, TypeOK, Steps, Done, Restore
  <1> QED  BY <1>1, <1>2, <1>3, <1>4, <1>5, <1>6, <1>7, <1>8, <1>9, <1>10 DEF IInv

LEMMA UnchainStep ==
  ASSUME IInv, Unchain
  PROVE  IInv'
  <1>1. TypeOK'
    BY DEF IInv, TypeOK, CliSteps, Lines, Unchain
  <1>2. Steps'
    BY DEF IInv, Steps, Unchain
  <1>3. Quiet'
    BY DEF IInv, Quiet, Begun, Moving, Unchain
  <1>4. Same'
    BY DEF IInv, Same, Begun, Unchain
  <1>5. Apart'
    BY DEF IInv, Apart, Holding, Unchain
  <1>6. LineCopied'
    BY DEF IInv, LineCopied, Holding, Unchain
  <1>7. HooksCopied'
    BY DEF IInv, HooksCopied, Holding, Unchain
  <1>8. Safe'
    BY DEF IInv, TypeOK, Safe, Quiet, Steps, Marked, Begun, Unchain
  <1>9. Known'
    BY DEF IInv, Known, Unchain
  <1>10. Done'
    BY DEF IInv, Done, Unchain
  <1> QED  BY <1>1, <1>2, <1>3, <1>4, <1>5, <1>6, <1>7, <1>8, <1>9, <1>10 DEF IInv

LEMMA UnmarkStep ==
  ASSUME IInv, Unmark
  PROVE  IInv'
  <1>1. TypeOK'
    BY DEF IInv, TypeOK, CliSteps, Unmark
  <1>2. Steps'
    BY DEF IInv, Steps, Unmark
  <1>3. Quiet'
    BY DEF IInv, Quiet, Begun, Moving, Unmark
  <1>4. Same'
    BY DEF IInv, Same, Begun, Unmark
  <1>5. Apart'
    BY DEF IInv, Apart, Holding, Unmark
  <1>6. LineCopied'
    BY DEF IInv, LineCopied, Holding, Unmark
  <1>7. HooksCopied'
    BY DEF IInv, HooksCopied, Holding, Unmark
  <1>8. Safe'
    BY DEF IInv, Safe, Marked, Unmark
  <1>9. Known'
    BY DEF IInv, Known, Unmark
  <1>10. Done'
    BY DEF IInv, Done, Steps, Safe, Unmark
  <1> QED  BY <1>1, <1>2, <1>3, <1>4, <1>5, <1>6, <1>7, <1>8, <1>9, <1>10 DEF IInv

LEMMA LoadHooksStep ==
  ASSUME IInv, LoadHooks
  PROVE  IInv'
  <1>1. TypeOK'
    <2>1. [line |-> line, entries |-> entries[file]] \in Copies
      BY DEF IInv, TypeOK, Copies
    <2>2. copy' \in [Process -> Copies]
      BY <2>1, HooksType DEF IInv, TypeOK, LoadHooks, Onward
    <2>3. CASE readable[file] /\ at' = [at EXCEPT !["cli"] = "merge"]
      <3>1. /\ at' \in [Process -> CliSteps \cup DaemonSteps]
            /\ at'["cli"] \in CliSteps /\ at'["daemon"] \in DaemonSteps
        BY <2>3 DEF IInv, TypeOK, CliSteps, DaemonSteps
      <3>2. excused' \subseteq Files \cup {"line"} /\ UNCHANGED <<command, service, prog, tries>>
        BY <2>3, Parts DEF IInv, TypeOK, LoadHooks, Onward, Excuse, If
      <3> QED  BY <2>2, <3>1, <3>2 DEF IInv, TypeOK, LoadHooks
    <2>4. CASE Onward(FALSE)
      BY <2>4, OnwardType DEF IInv, TypeOK, LoadHooks
    <2> QED  BY <2>3, <2>4 DEF LoadHooks
  <1>2. Steps'
    BY DEF IInv, TypeOK, Steps, Begun, LoadHooks, Onward, If, Ended
  <1>3. Quiet'
    BY DEF IInv, TypeOK, Steps, Quiet, Begun, Moving, LoadHooks, Onward, If
  <1>4. Same'
    BY DEF IInv, TypeOK, Same, Begun, LoadHooks, Onward
  <1>5. Apart'
    BY DEF IInv, TypeOK, Apart, Holding, Other, LoadHooks, Onward, Excuse, If, Overlap
  <1>6. LineCopied'
    <2>1. CASE readable[file] /\ at' = [at EXCEPT !["cli"] = "merge"]
      BY <2>1 DEF IInv, TypeOK, LineCopied, LoadHooks, Excuse
    <2>2. CASE Onward(FALSE)
      BY <2>2 DEF IInv, TypeOK, LineCopied, Holding, LoadHooks, Onward, Excuse
    <2> QED  BY <2>1, <2>2 DEF LoadHooks
  <1>7. HooksCopied'
    <2>1. CASE /\ readable[file] /\ at' = [at EXCEPT !["cli"] = "merge"]
               /\ copy' = [copy EXCEPT !["cli"] = [line |-> line, entries |-> entries[file]]]
      BY <2>1 DEF IInv, TypeOK, HooksCopied, LoadHooks, Excuse
    <2>2. CASE Onward(FALSE)
      BY <2>2 DEF IInv, TypeOK, HooksCopied, Holding, LoadHooks, Onward, Excuse
    <2> QED  BY <2>1, <2>2 DEF LoadHooks
  <1>8. Safe'
    BY DEF IInv, TypeOK, Safe, Marked, LoadHooks, Onward, Excuse, If, Torn
  <1>9. Known'
    BY DEF IInv, TypeOK, Known, LoadHooks, Onward, Excuse, If
  <1>10. Done'
    <2>1. CASE at' = [at EXCEPT !["cli"] = "merge"] /\ UNCHANGED <<cmd, file, whole, service, prog>>
               /\ excused \subseteq excused'
      BY <2>1 DEF IInv, Done, Given, LoadHooks
    <2>2. CASE Onward(FALSE)
      BY <2>2 DEF IInv, TypeOK, Done, Onward
    <2> QED  BY <2>1, <2>2 DEF LoadHooks, Excuse
  <1> QED  BY <1>1, <1>2, <1>3, <1>4, <1>5, <1>6, <1>7, <1>8, <1>9, <1>10 DEF IInv

LEMMA SaveHooksStep ==
  ASSUME IInv, SaveHooks
  PROVE  IInv'
  <1>1. TypeOK'
    <2>1. copy["cli"].line \in Lines /\ copy["cli"].entries \in Counts
      BY DEF IInv, TypeOK, Copies
    <2> QED  BY <2>1, EditsType DEF IInv, TypeOK, SaveHooks, CliSteps
  <1>2. Steps'
    BY DEF IInv, Steps, Begun, SaveHooks
  <1>3. Quiet'
    BY DEF IInv, Quiet, Begun, Moving, SaveHooks
  <1>4. Same'
    BY DEF IInv, Same, Begun, SaveHooks
  <1>5. Apart'
    BY DEF IInv, Apart, Holding, SaveHooks
  <1>6. LineCopied'
    BY DEF IInv, LineCopied, Holding, SaveHooks
  <1>7. HooksCopied'
    BY DEF IInv, TypeOK, HooksCopied, Apart, Holding, Other, SaveHooks
  <1>8. Safe'
    BY DEF IInv, Safe, LineCopied, Marked, Holding, SaveHooks
  <1>9. Known'
    <2> DEFINE es == copy["cli"].entries
    <2> SUFFICES ASSUME file \notin excused
                 PROVE  entries'[file] = Given
      BY DEF IInv, TypeOK, Known, Given, SaveHooks
    <2>1. es = NoHooks \/ \E s \in Mine \cap Spellings : es = Only(s)
      BY DEF IInv, TypeOK, Known, HooksCopied, SaveHooks, Mine
    <2>2. Merged(es) = {Only(prog["cli"])} /\ Cleared(es) = NoHooks
      BY <2>1, OneOfMine DEF IInv
    <2> QED  BY <2>2 DEF IInv, TypeOK, SaveHooks, Given
  <1>10. Done'
    BY DEF IInv, Done, LineCopied, Given, Holding, SaveHooks
  <1> QED  BY <1>1, <1>2, <1>3, <1>4, <1>5, <1>6, <1>7, <1>8, <1>9, <1>10 DEF IInv

LEMMA NoteHooksStep ==
  ASSUME IInv, NoteHooks
  PROVE  IInv'
  <1>1. TypeOK'
    <2>1. noted' \in [Files -> SUBSET Spellings]
      BY DEF IInv, TypeOK, NoteHooks
    <2> QED  BY <2>1, OnwardType DEF IInv, TypeOK, NoteHooks
  <1>2. Steps'
    BY DEF IInv, TypeOK, Steps, Begun, NoteHooks, Onward, Ended
  <1>3. Quiet'
    BY DEF IInv, TypeOK, Steps, Quiet, Begun, Moving, NoteHooks, Onward
  <1>4. Same'
    BY DEF IInv, TypeOK, Same, Begun, NoteHooks, Onward
  <1>5. Apart'
    BY DEF IInv, TypeOK, Apart, Holding, Other, NoteHooks, Onward
  <1>6. LineCopied'
    BY DEF IInv, TypeOK, LineCopied, Holding, NoteHooks, Onward, Excuse
  <1>7. HooksCopied'
    BY DEF IInv, TypeOK, HooksCopied, Holding, NoteHooks, Onward, Excuse
  <1>8. Safe'
    BY DEF IInv, TypeOK, Safe, Marked, NoteHooks, Onward, Excuse, If, Torn
  <1>9. Known'
    <2> SUFFICES ASSUME NEW f \in Files \ excused
                 PROVE  \/ entries[f] = NoHooks
                        \/ \E s \in Spellings : entries[f] = Only(s) /\ s \in noted'[f]
      BY DEF IInv, TypeOK, Known, NoteHooks, Onward, Excuse
    <2>1. CASE f = file
      BY <2>1 DEF IInv, TypeOK, Known, Given, NoteHooks
    <2>2. CASE f # file
      BY <2>2 DEF IInv, Known, NoteHooks
    <2> QED  BY <2>1, <2>2
  <1>10. Done'
    <2>1. CASE file = "claude" /\ file' = "codex"
      BY <2>1 DEF IInv, TypeOK, Known, Done, Given, NoteHooks, Onward, Ended, Excuse
    <2>2. CASE at'["cli"] = "off"
      BY <2>2 DEF Done
    <2> QED  BY <2>1, <2>2 DEF IInv, TypeOK, NoteHooks, Onward
  <1> QED  BY <1>1, <1>2, <1>3, <1>4, <1>5, <1>6, <1>7, <1>8, <1>9, <1>10 DEF IInv

LEMMA StartStep ==
  ASSUME IInv, NEW c \in {"install", "uninstall", "other"}, Start(c)
  PROVE  IInv'
  <1>1. TypeOK'
    BY DEF IInv, TypeOK, CliSteps, Commands, Start, If
  <1>2. Steps'
    BY DEF IInv, TypeOK, Steps, Begun, Start
  <1>3. Quiet'
    BY DEF IInv, Quiet, Begun, Moving, Start
  <1>4. Same'
    BY DEF IInv, Same, Begun, Start
  <1>5. Apart'
    BY DEF IInv, Apart, Holding, Start
  <1>6. LineCopied'
    BY DEF IInv, LineCopied, Holding, Start
  <1>7. HooksCopied'
    BY DEF IInv, HooksCopied, Holding, Start
  <1>8. Safe'
    BY DEF IInv, Safe, Marked, Start
  <1>9. Known'
    BY DEF IInv, Known, Start
  <1>10. Done'
    BY DEF IInv, Done, Start
  <1> QED  BY <1>1, <1>2, <1>3, <1>4, <1>5, <1>6, <1>7, <1>8, <1>9, <1>10 DEF IInv

LEMMA MoveStep ==
  ASSUME IInv, Move
  PROVE  IInv'
  <1>1. TypeOK'
    BY DEF IInv, TypeOK, CliSteps, Move
  <1>2. Steps'
    BY DEF IInv, TypeOK, Steps, Begun, Move
  <1>3. Quiet'
    BY DEF IInv, Steps, Quiet, Move
  <1>4. Same'
    BY DEF IInv, Same, Begun, Move
  <1>5. Apart'
    BY DEF IInv, Apart, Holding, Move
  <1>6. LineCopied'
    BY DEF IInv, LineCopied, Holding, Move
  <1>7. HooksCopied'
    BY DEF IInv, HooksCopied, Holding, Move
  <1>8. Safe'
    BY DEF IInv, Safe, Marked, Move
  <1>9. Known'
    BY DEF IInv, Known, Move
  <1>10. Done'
    BY DEF IInv, Done, Move
  <1> QED  BY <1>1, <1>2, <1>3, <1>4, <1>5, <1>6, <1>7, <1>8, <1>9, <1>10 DEF IInv

LEMMA RemarkStep ==
  ASSUME IInv, Remark
  PROVE  IInv'
  <1>1. TypeOK'
    BY DEF IInv, TypeOK, CliSteps, Remark, Renamed
  <1>2. Steps'
    BY DEF IInv, Steps, Begun, Remark
  <1>3. Quiet'
    BY DEF IInv, Quiet, Moving, Remark
  <1>4. Same'
    BY DEF IInv, Same, Begun, Remark
  <1>5. Apart'
    BY DEF IInv, Apart, Holding, Remark
  <1>6. LineCopied'
    BY DEF IInv, LineCopied, Holding, Remark
  <1>7. HooksCopied'
    BY DEF IInv, HooksCopied, Holding, Remark
  <1>8. Safe'
    BY DEF IInv, TypeOK, Safe, Marked, Renamed, Remark
  <1>9. Known'
    BY DEF IInv, Known, Remark
  <1>10. Done'
    BY DEF IInv, Done, Remark
  <1> QED  BY <1>1, <1>2, <1>3, <1>4, <1>5, <1>6, <1>7, <1>8, <1>9, <1>10 DEF IInv

LEMMA RenoteStep ==
  ASSUME IInv, Renote
  PROVE  IInv'
  <1>1. TypeOK'
    BY Parts DEF IInv, TypeOK, CliSteps, Renote, Renamed
  <1>2. Steps'
    BY DEF IInv, Steps, Begun, Renote
  <1>3. Quiet'
    BY DEF IInv, Quiet, Moving, Renote
  <1>4. Same'
    BY DEF IInv, Same, Begun, Renote
  <1>5. Apart'
    BY DEF IInv, Apart, Holding, Renote
  <1>6. LineCopied'
    BY DEF IInv, LineCopied, Holding, Renote
  <1>7. HooksCopied'
    BY DEF IInv, HooksCopied, Holding, Renote
  <1>8. Safe'
    BY DEF IInv, Safe, Marked, Renote
  <1>9. Known'
    BY DEF IInv, TypeOK, Known, Renote
  <1>10. Done'
    BY DEF IInv, Done, Renote
  <1> QED  BY <1>1, <1>2, <1>3, <1>4, <1>5, <1>6, <1>7, <1>8, <1>9, <1>10 DEF IInv

LEMMA RepointStep ==
  ASSUME IInv, Repoint
  PROVE  IInv'
  <1>1. TypeOK'
    <2>1. Renamed(line) \in Lines
      BY DEF IInv, TypeOK, Renamed, Lines
    <2>2. entries' \in [Files -> Counts]
      BY EditsType DEF IInv, TypeOK, Repoint
    <2>3. /\ at' \in [Process -> CliSteps \cup DaemonSteps]
          /\ at'["cli"] \in CliSteps /\ at'["daemon"] \in DaemonSteps
      BY DEF IInv, TypeOK, Repoint, CliSteps, DaemonSteps
    <2>4. line' \in Lines
      BY <2>1 DEF Repoint
    <2> QED  BY <2>2, <2>3, <2>4 DEF IInv, TypeOK, Repoint
  <1>2. Steps'
    BY DEF IInv, Steps, Begun, Repoint
  <1>3. Quiet'
    BY DEF IInv, Quiet, Moving, Repoint
  <1>4. Same'
    BY DEF IInv, Same, Begun, Repoint
  <1>5. Apart'
    BY DEF IInv, Apart, Holding, Repoint
  <1>6. LineCopied'
    BY DEF IInv, LineCopied, Quiet, Holding, Moving, Repoint
  <1>7. HooksCopied'
    BY DEF IInv, HooksCopied, Quiet, Holding, Moving, Repoint
  <1>8. Safe'
    BY OwnersAreOthers DEF IInv, Safe, Quiet, Marked, Renamed, Moving, Repoint
  <1>9. Known'
    <2>1. AllRenamed(NoHooks) = NoHooks /\ \A s \in Spellings : AllRenamed(Only(s)) = Only(Renamed(s)) /\ Renamed(s) \in Spellings
      BY DEF AllRenamed, NoHooks, Only
    <2> QED  BY <2>1 DEF IInv, TypeOK, Known, Repoint
  <1>10. Done'
    BY DEF IInv, Done, Repoint
  <1> QED  BY <1>1, <1>2, <1>3, <1>4, <1>5, <1>6, <1>7, <1>8, <1>9, <1>10 DEF IInv

LEMMA BeginStep ==
  ASSUME IInv, Begin
  PROVE  IInv'
  <1>1. TypeOK'
    <2>1. copy' \in [Process -> Copies]
      BY HooksType DEF IInv, TypeOK, Begin, Halts
    <2>2. excused' \subseteq Files \cup {"line"}
      BY DEF IInv, TypeOK, Begin, Excuse, If
    <2>3. /\ at' \in [Process -> CliSteps \cup DaemonSteps]
          /\ at'["cli"] \in CliSteps /\ at'["daemon"] \in DaemonSteps
      BY DEF IInv, TypeOK, Begin, Halts, CliSteps, DaemonSteps
    <2>4. cmd' \in Commands \cup {None} /\ newest' \in {"old", "new"} /\ service' \in BOOLEAN
          /\ whole' \in BOOLEAN
      BY DEF IInv, TypeOK, Begin
    <2> QED  BY <2>1, <2>2, <2>3, <2>4 DEF IInv, TypeOK, Begin
  <1>2. Steps'
    BY DEF IInv, TypeOK, Steps, Begun, Begin, Halts
  <1>3. Quiet'
    BY DEF IInv, TypeOK, Quiet, Moving, Begin, Halts
  <1>4. Same'
    BY DEF IInv, TypeOK, Same, Begin, Halts
  <1>5. Apart'
    BY DEF IInv, TypeOK, Apart, Holding, Other, Begin, Halts
  <1>6. LineCopied'
    BY DEF IInv, TypeOK, LineCopied, Holding, Begin, Halts, Excuse
  <1>7. HooksCopied'
    BY DEF IInv, TypeOK, HooksCopied, Holding, Begin, Halts, Excuse
  <1>8. Safe'
    BY DEF IInv, TypeOK, Safe, Marked, Begin, Halts, Excuse, If, Torn
  <1>9. Known'
    BY DEF IInv, TypeOK, Known, Begin, Halts, Excuse
  <1>10. Done'
    BY DEF IInv, TypeOK, Done, Begin, Halts
  <1> QED  BY <1>1, <1>2, <1>3, <1>4, <1>5, <1>6, <1>7, <1>8, <1>9, <1>10 DEF IInv

LEMMA ServiceStartStep ==
  ASSUME IInv, ServiceStart
  PROVE  IInv'
  <1>1. TypeOK'
    BY HooksType, Parts DEF IInv, TypeOK, DaemonSteps, ServiceStart, Starts
  <1>2. Steps'
    BY DEF IInv, Steps, ServiceStart, Starts
  <1>3. Quiet'
    BY DEF IInv, Quiet, ServiceStart, Starts
  <1>4. Same'
    BY DEF IInv, TypeOK, Same, ServiceStart, Starts
  <1>5. Apart'
    BY DEF IInv, Apart, Holding, ServiceStart, Starts
  <1>6. LineCopied'
    BY DEF IInv, LineCopied, Holding, ServiceStart, Starts
  <1>7. HooksCopied'
    BY DEF IInv, HooksCopied, Holding, ServiceStart, Starts
  <1>8. Safe'
    BY DEF IInv, Safe, Marked, ServiceStart, Starts
  <1>9. Known'
    BY DEF IInv, Known, Given, ServiceStart, Starts
  <1>10. Done'
    BY DEF IInv, Done, Given, ServiceStart, Starts
  <1> QED  BY <1>1, <1>2, <1>3, <1>4, <1>5, <1>6, <1>7, <1>8, <1>9, <1>10 DEF IInv

LEMMA UpdateStep ==
  ASSUME IInv, Update
  PROVE  IInv'
  <1>1. TypeOK'
    BY HooksType, Parts DEF IInv, TypeOK, DaemonSteps, Update, Starts, Excuse, If
  <1>2. Steps'
    BY DEF IInv, TypeOK, Steps, Update, Starts
  <1>3. Quiet'
    BY DEF IInv, Quiet, Update, Starts
  <1>4. Same'
    BY DEF IInv, TypeOK, Same, Begun, Update, Starts
  <1>5. Apart'
    BY DEF IInv, Apart, Holding, Update, Starts, Excuse
  <1>6. LineCopied'
    BY DEF IInv, TypeOK, LineCopied, Holding, Update, Starts
  <1>7. HooksCopied'
    BY DEF IInv, TypeOK, HooksCopied, Holding, Update, Starts
  <1>8. Safe'
    BY DEF IInv, TypeOK, Safe, Marked, Update, Starts, Excuse, If, Torn
  <1>9. Known'
    BY DEF IInv, Known, Update, Starts, Excuse
  <1>10. Done'
    BY DEF IInv, Done, Update, Starts
  <1> QED  BY <1>1, <1>2, <1>3, <1>4, <1>5, <1>6, <1>7, <1>8, <1>9, <1>10 DEF IInv

LEMMA SetsLineStep ==
  ASSUME IInv, SetsLine
  PROVE  IInv'
  <1>1. TypeOK'
    BY Parts DEF IInv, TypeOK, Lines, SetsLine, Act, If
  <1>2. Steps'
    BY DEF IInv, Steps, SetsLine, Act
  <1>3. Quiet'
    BY DEF IInv, Quiet, SetsLine, Act
  <1>4. Same'
    BY DEF IInv, Same, SetsLine, Act
  <1>5. Apart'
    BY DEF IInv, Apart, Holding, SetsLine, Act, If, Midway
  <1>6. LineCopied'
    BY DEF IInv, LineCopied, Holding, SetsLine, Act, If, Midway
  <1>7. HooksCopied'
    BY DEF IInv, HooksCopied, SetsLine, Act, If, Midway
  <1>8. Safe'
    BY OwnersAreOthers DEF IInv, Safe, Marked, SetsLine, Act, If, Midway
  <1>9. Known'
    BY Parts DEF IInv, Known, Given, SetsLine, Act, If
  <1>10. Done'
    BY DEF IInv, Done, SetsLine, Act
  <1> QED  BY <1>1, <1>2, <1>3, <1>4, <1>5, <1>6, <1>7, <1>8, <1>9, <1>10 DEF IInv

LEMMA DropsLineStep ==
  ASSUME IInv, DropsLine
  PROVE  IInv'
  <1>1. TypeOK'
    BY Parts DEF IInv, TypeOK, Lines, DropsLine, Act, If, Excuse
  <1>2. Steps'
    BY DEF IInv, Steps, DropsLine, Act
  <1>3. Quiet'
    BY DEF IInv, Quiet, DropsLine, Act
  <1>4. Same'
    BY DEF IInv, Same, DropsLine, Act
  <1>5. Apart'
    BY DEF IInv, Apart, DropsLine, Act, Excuse
  <1>6. LineCopied'
    BY DEF IInv, LineCopied, Holding, DropsLine, Act, If, Midway, Excuse
  <1>7. HooksCopied'
    BY DEF IInv, HooksCopied, DropsLine, Act, Excuse
  <1>8. Safe'
    BY OwnersAreOthers DEF IInv, TypeOK, Safe, Marked, DropsLine, Act, If, Excuse
  <1>9. Known'
    BY DEF IInv, Known, Given, DropsLine, Act, Excuse
  <1>10. Done'
    BY DEF IInv, Done, DropsLine, Act
  <1> QED  BY <1>1, <1>2, <1>3, <1>4, <1>5, <1>6, <1>7, <1>8, <1>9, <1>10 DEF IInv

LEMMA BreaksStep ==
  ASSUME IInv, Breaks
  PROVE  IInv'
  <1>1. TypeOK'
    BY Parts DEF IInv, TypeOK, Breaks, Act
  <1>2. Steps'
    BY DEF IInv, Steps, Breaks, Act
  <1>3. Quiet'
    BY DEF IInv, Quiet, Breaks, Act
  <1>4. Same'
    BY DEF IInv, Same, Breaks, Act
  <1>5. Apart'
    BY DEF IInv, Apart, Breaks, Act
  <1>6. LineCopied'
    BY DEF IInv, LineCopied, Breaks, Act
  <1>7. HooksCopied'
    BY DEF IInv, HooksCopied, Breaks, Act
  <1>8. Safe'
    BY DEF IInv, Safe, Marked, Breaks, Act
  <1>9. Known'
    <2>1. UNCHANGED <<at, file, cmd, prog, entries, noted, excused>>
      BY DEF Breaks, Act
    <2> QED  BY <2>1 DEF IInv, Known, Given
  <1>10. Done'
    BY DEF IInv, Done, Breaks, Act
  <1> QED  BY <1>1, <1>2, <1>3, <1>4, <1>5, <1>6, <1>7, <1>8, <1>9, <1>10 DEF IInv

LEMMA MendsStep ==
  ASSUME IInv, Mends
  PROVE  IInv'
  <1>1. TypeOK'
    BY DEF IInv, TypeOK, Mends
  <1>2. Steps'
    BY DEF IInv, Steps, Mends
  <1>3. Quiet'
    BY DEF IInv, Quiet, Mends
  <1>4. Same'
    BY DEF IInv, Same, Mends
  <1>5. Apart'
    BY DEF IInv, Apart, Mends
  <1>6. LineCopied'
    BY DEF IInv, LineCopied, Mends
  <1>7. HooksCopied'
    BY DEF IInv, HooksCopied, Mends
  <1>8. Safe'
    BY DEF IInv, Safe, Marked, Mends
  <1>9. Known'
    <2>1. UNCHANGED <<at, file, cmd, prog, entries, noted, excused>>
      BY DEF Mends
    <2> QED  BY <2>1 DEF IInv, Known, Given
  <1>10. Done'
    BY DEF IInv, Done, Given, Mends
  <1> QED  BY <1>1, <1>2, <1>3, <1>4, <1>5, <1>6, <1>7, <1>8, <1>9, <1>10 DEF IInv

LEMMA WipesStep ==
  ASSUME IInv, Wipes
  PROVE  IInv'
  <1>1. TypeOK'
    BY Parts DEF IInv, TypeOK, Lines, Wipes, Act, Excuse, If, Unnoted
  <1>2. Steps'
    BY DEF IInv, Steps, Wipes, Act
  <1>3. Quiet'
    BY DEF IInv, Quiet, Wipes, Act
  <1>4. Same'
    BY DEF IInv, Same, Wipes, Act
  <1>5. Apart'
    BY DEF IInv, Apart, Wipes, Act, Excuse
  <1>6. LineCopied'
    BY DEF IInv, LineCopied, Wipes, Act, Excuse
  <1>7. HooksCopied'
    BY DEF IInv, HooksCopied, Wipes, Act, Excuse
  <1>8. Safe'
    BY DEF IInv, TypeOK, Safe, Marked, Wipes, Act, Excuse, If, Midway
  <1>9. Known'
    BY DEF IInv, Known, Wipes, Excuse
  <1>10. Done'
    BY DEF IInv, Done, Wipes, Act
  <1> QED  BY <1>1, <1>2, <1>3, <1>4, <1>5, <1>6, <1>7, <1>8, <1>9, <1>10 DEF IInv

LEMMA KillStep ==
  ASSUME IInv, NEW p \in Process, Kill(p)
  PROVE  IInv'
  <1>1. TypeOK'
    <2>1. copy' \in [Process -> Copies]
      BY HooksType DEF IInv, TypeOK, Kill
    <2>2. /\ noted' \in [Files -> SUBSET Spellings] /\ chain' \in Lines /\ marker' \in Spellings \cup {None}
      BY DEF IInv, TypeOK, Kill, If, Lines
    <2>3. excused' \subseteq Files \cup {"line"}
      BY Parts DEF IInv, TypeOK, Kill, Excuse, If
    <2>4. CASE p = "cli"
      BY <2>1, <2>2, <2>3, <2>4, Parts DEF IInv, TypeOK, Kill, Fault, CliSteps, Ended
    <2>5. CASE p = "daemon"
      BY <2>1, <2>2, <2>3, <2>5, Parts DEF IInv, TypeOK, Kill, Fault, DaemonSteps
    <2> QED  BY <2>4, <2>5
  <1>2. Steps'
    BY DEF IInv, TypeOK, Steps, Begun, Kill, Ended
  <1>3. Quiet'
    BY DEF IInv, Quiet, Moving, Kill, Ended
  <1>4. Same'
    BY DEF IInv, Same, Kill, Ended
  <1>5. Apart'
    BY DEF IInv, Apart, Holding, Kill, Excuse
  <1>6. LineCopied'
    BY DEF IInv, TypeOK, LineCopied, Holding, Kill, Excuse
  <1>7. HooksCopied'
    BY DEF IInv, TypeOK, HooksCopied, Holding, Kill, Excuse
  <1>8. Safe'
    <2> SUFFICES ASSUME "line" \notin excused', "line" \notin excused
                 PROVE  Safe'
      BY DEF Safe, Kill, Excuse
    <2>1. at[p] \notin {"mark"} \cup Moving /\ marker' = marker
      BY DEF IInv, Kill, Excuse, If, Moving
    <2>2. Marked'
      BY <2>1 DEF IInv, Safe, Marked, Kill, Moving
    <2>3. chain' # chain => own \in {None, line} /\ line \in Owners /\ chain' = None /\ at[p] = "chain"
      <3>1. SUFFICES ASSUME at[p] = "chain", Foreign(p)
                     PROVE  line \in Owners
        BY DEF IInv, Safe, Kill, If
      <3>2. copy[p].line = line /\ (line \in Spellings => marker = line)
        BY <3>1 DEF IInv, LineCopied, Apart, Other, Holding, Quiet, Moving, Safe, Marked
      <3> QED  BY <3>1, <3>2 DEF IInv, TypeOK, Lines, Foreign, Ours
    <2>4. \A q \in Process : at'[q] = "save" => at[q] = "save" /\ chain' = chain
      BY <2>3 DEF IInv, Kill, Apart, Other, Holding
    <2> QED  BY <2>1, <2>2, <2>3, <2>4 DEF IInv, Safe, Kill
  <1>9. Known'
    BY DEF IInv, TypeOK, Known, Given, Kill, If, Excuse
  <1>10. Done'
    <2>1. CASE p = "cli"
      BY <2>1 DEF IInv, TypeOK, Done, Kill
    <2>2. CASE p = "daemon"
      BY <2>2 DEF IInv, TypeOK, Steps, Quiet, Begun, Done, Given, Kill, Excuse
    <2> QED  BY <2>1, <2>2
  <1> QED  BY <1>1, <1>2, <1>3, <1>4, <1>5, <1>6, <1>7, <1>8, <1>9, <1>10 DEF IInv

LEMMA SaveFailsStep ==
  ASSUME IInv, NEW p \in Process, SaveFails(p)
  PROVE  IInv'
  <1>1. TypeOK'
    <2>1. CASE Onward(FALSE)
      <3>1. faults' \in 0 .. Faults
        BY Parts DEF IInv, TypeOK, SaveFails, Fault
      <3> QED  BY <2>1, <3>1, OnwardType DEF IInv, TypeOK, SaveFails
    <2>2. CASE Stops(p) /\ Loads(p, NoCopy) /\ UNCHANGED <<excused, service, prog>>
      <3>1. copy' \in [Process -> Copies]
        BY <2>2, HooksType DEF IInv, TypeOK
      <3>2. CASE p = "cli"
        BY <2>2, <3>1, <3>2, Parts DEF IInv, TypeOK, SaveFails, Fault, Stops, Ended, CliSteps
      <3>3. CASE p = "daemon"
        BY <2>2, <3>1, <3>3, Parts DEF IInv, TypeOK, Steps, SaveFails, Fault, Stops, DaemonSteps
      <3> QED  BY <3>2, <3>3
    <2> QED  BY <2>1, <2>2 DEF SaveFails
  <1>2. Steps'
    BY DEF IInv, TypeOK, Steps, Begun, SaveFails, Onward, Stops, Ended
  <1>3. Quiet'
    BY DEF IInv, TypeOK, Steps, Quiet, Moving, SaveFails, Onward, Stops, Ended
  <1>4. Same'
    BY DEF IInv, TypeOK, DaemonSteps, Same, Begun, SaveFails, Onward, Stops
  <1>5. Apart'
    BY DEF IInv, TypeOK, Apart, Holding, Other, SaveFails, Onward, Stops
  <1>6. LineCopied'
    BY DEF IInv, TypeOK, LineCopied, Holding, SaveFails, Onward, Stops, Excuse
  <1>7. HooksCopied'
    <2>1. CASE Onward(FALSE) /\ at[p] = "merge" /\ p = "cli" /\ file = "codex"
      BY <2>1 DEF IInv, TypeOK, HooksCopied, Holding, SaveFails, Onward, Excuse
    <2>2. CASE Stops(p) /\ Loads(p, NoCopy) /\ UNCHANGED <<excused, service, prog>>
      BY <2>2 DEF IInv, TypeOK, HooksCopied, Holding, SaveFails, Stops
    <2> QED  BY <2>1, <2>2 DEF IInv, TypeOK, SaveFails, DaemonSteps
  <1>8. Safe'
    BY DEF IInv, TypeOK, DaemonSteps, Safe, Marked, SaveFails, Onward, Stops, Excuse, If, Torn
  <1>9. Known'
    <2>1. CASE Onward(FALSE) /\ at[p] = "merge" /\ p = "cli" /\ file = "codex"
      <3>1. at["cli"] = "merge" /\ at'["cli"] \in {"hooks", "off"}
        BY <2>1 DEF IInv, TypeOK, Onward
      <3>2. UNCHANGED <<entries, noted>> /\ excused \subseteq excused'
        BY <2>1 DEF SaveFails, Onward, Excuse
      <3> QED  BY <3>1, <3>2 DEF IInv, Known
    <2>2. CASE Stops(p) /\ Loads(p, NoCopy) /\ UNCHANGED <<excused, service, prog>>
      BY <2>2 DEF IInv, TypeOK, Known, Given, SaveFails, Stops
    <2> QED  BY <2>1, <2>2 DEF IInv, TypeOK, SaveFails, DaemonSteps
  <1>10. Done'
    <2>1. CASE Onward(FALSE) /\ at[p] = "merge" /\ p = "cli" /\ file = "codex"
      BY <2>1 DEF IInv, TypeOK, Done, Onward
    <2>2. CASE Stops(p) /\ Loads(p, NoCopy) /\ UNCHANGED <<excused, service, prog>>
      BY <2>2 DEF IInv, TypeOK, Done, Given, SaveFails, Stops
    <2> QED  BY <2>1, <2>2 DEF IInv, TypeOK, SaveFails, DaemonSteps
  <1> QED  BY <1>1, <1>2, <1>3, <1>4, <1>5, <1>6, <1>7, <1>8, <1>9, <1>10 DEF IInv

LEMMA StutterStep ==
  ASSUME IInv, UNCHANGED vars
  PROVE  IInv'
  <1>1. TypeOK' /\ Steps' /\ Quiet' /\ Same'
    BY DEF IInv, TypeOK, Steps, Quiet, Same, vars
  <1>2. Apart' /\ LineCopied' /\ HooksCopied'
    BY DEF IInv, Apart, LineCopied, HooksCopied, vars
  <1>3. Safe' /\ Done'
    BY DEF IInv, Safe, Marked, Done, Given, vars
  <1>4. Known'
    BY DEF IInv, Known, Given, vars
  <1> QED  BY <1>1, <1>2, <1>3, <1>4 DEF IInv

-----------------------------------------------------------------------------
(* The theorems.                                                           *)

LEMMA InitInv == Init => IInv
  <1> SUFFICES ASSUME Init PROVE IInv
    OBVIOUS
  <1>1. /\ own \in Owners \cup {None} /\ line \in Lines /\ chain \in Lines /\ marker \in {None, "blink"}
        /\ line \in Owners => own = line
        /\ own # None /\ line \notin Owners => chain = own
        /\ own # None /\ line = None => marker # None
        /\ chain \notin Spellings
        /\ line \in Spellings => marker = line
    BY OwnersAreOthers DEF Init, Fresh, Blink, Lines
  <1>2. /\ entries \in [Files -> Counts] /\ noted \in [Files -> SUBSET Spellings]
        /\ \A f \in Files : entries[f] = NoHooks \/ (entries[f] = Only("blink") /\ "blink" \in noted[f])
    BY HooksType DEF Init, Fresh, Blink, Unnoted
  <1>3. moved \in BOOLEAN /\ newest \in {"old", "new"}
    BY DEF Init, Fresh, Blink
  <1>4. TypeOK
    <2>1. copy \in [Process -> Copies] /\ prog \in [Process -> {"old", "new"}]
          /\ readable \in [Files -> BOOLEAN]
      BY <1>3, HooksType DEF Init
    <2>2. at \in [Process -> CliSteps \cup DaemonSteps] /\ at["cli"] \in CliSteps
          /\ at["daemon"] \in DaemonSteps
      BY DEF Init, CliSteps, DaemonSteps
    <2>3. tries \in 0 .. MaxTries /\ acts \in 0 .. Acts /\ faults \in 0 .. Faults
      BY Parts DEF Init
    <2>4. cmd \in Commands \cup {None} /\ file \in Files /\ whole \in BOOLEAN /\ service \in BOOLEAN
          /\ excused = {}
      BY Parts DEF Init
    <2> QED  BY <1>1, <1>2, <1>3, <2>1, <2>2, <2>3, <2>4 DEF TypeOK
  <1>5. Steps /\ Quiet /\ Same
    BY DEF Init, Steps, Quiet, Same, Begun, Moving
  <1>6. Apart /\ LineCopied /\ HooksCopied /\ Done
    BY DEF Init, Apart, LineCopied, HooksCopied, Done, Holding
  <1>7. Safe
    BY <1>1 DEF Init, Safe, Marked
  <1>8. Known
    BY <1>2 DEF Init, Known
  <1> QED  BY <1>4, <1>5, <1>6, <1>7, <1>8 DEF IInv

\* Every step of the command line, the watchdog, the owner and the faults keeps the
\* invariant.
THEOREM Inductive == IInv /\ [Next]_vars => IInv'
  <1> SUFFICES ASSUME IInv, [Next]_vars PROVE IInv'
    OBVIOUS
  <1>1. CASE Daemon
    BY <1>1, LookStep, LoadStep, ChainStep, SaveStep, MarkStep, ServiceStartStep DEF Daemon, Install
  <1>2. CASE Command
    BY <1>2, StartStep, MoveStep, RemarkStep, RenoteStep, RepointStep, BeginStep, LoadStep, ChainStep,
       SaveStep, MarkStep, RestoreStep, UnchainStep, UnmarkStep, LoadHooksStep, SaveHooksStep, NoteHooksStep
       DEF Command, Install
  <1>3. CASE Others
    BY <1>3, UpdateStep, SetsLineStep, DropsLineStep, BreaksStep, MendsStep, WipesStep, KillStep,
    SaveFailsStep
       DEF Others
  <1>4. CASE UNCHANGED vars
    BY <1>4, StutterStep
  <1> QED  BY <1>1, <1>2, <1>3, <1>4 DEF Next

\* The invariant holds in every reachable state.
THEOREM Invariance == Spec => []IInv
  BY InitInv, Inductive, PTL DEF Spec

\* Every variable keeps its type, and the watchdog never tries more often than it may.
THEOREM TypeCorrect == Spec => []TypeOK
  <1>1. IInv => TypeOK
    BY DEF IInv
  <1> QED  BY <1>1, Invariance, PTL

\* The owner's status line is never lost: whatever is installed, repaired, updated,
\* killed or migrated, it is in the settings or in the chain file (install, uninstall
\* and drift_check of install_statusline.py, migrate.run).
THEOREM LineKept == Spec => []Kept
  <1>1. IInv => Kept
    BY DEF IInv, TypeOK, Lines, Safe, Kept
  <1> QED  BY <1>1, Invariance, PTL

\* A command ends where its last hooks have been noted.
LEMMA EndsNoting ==
  ASSUME IInv, Next, NEW c \in {"install", "uninstall"}, Ends(c)
  PROVE  /\ cmd = c /\ whole /\ at["cli"] = "note" /\ UNCHANGED <<settings, chain, own>>
         /\ excused \subseteq excused' /\ prog'["cli"] = prog["cli"]
         /\ file = "codex" \/ Files = {"claude"}
  <1>1. NoteHooks
    <2>1. at["cli"] # at'["cli"] /\ at["cli"] = "note" /\ at'["cli"] = "off"
      BY DEF Ends
    <2>2. ~\E p \in Process : Kill(p) \/ SaveFails(p)
      <3>1. faults \in Int /\ faults' = faults
        BY DEF IInv, TypeOK, Ends
      <3>2. ~Fault
        BY <3>1 DEF Fault
      <3> QED  BY <3>2 DEF Kill, SaveFails
    <2>3. ~(Update \/ SetsLine \/ DropsLine \/ Breaks \/ Mends \/ Wipes)
      BY <2>1 DEF IInv, TypeOK, Update, SetsLine, DropsLine, Breaks, Mends, Wipes, Act
    <2>4. ~Daemon
      BY <2>1 DEF IInv, TypeOK, Daemon, Look, Install, Load, Chain, Save, Mark, ServiceStart, Starts, Stops
    <2>5. Command
      BY <2>2, <2>3, <2>4 DEF Next, Others
    <2> QED  BY <2>1, <2>5 DEF Command, Install, Start, Move, Remark, Renote, Repoint, Begin, Load, Chain,
                               Save, Mark, Restore, Unchain, Unmark, LoadHooks, SaveHooks
  <1>2. file = "codex" \/ Files = {"claude"}
    BY <1>1 DEF IInv, TypeOK, Ends, NoteHooks, Onward
  <1>3. excused \subseteq excused' /\ prog'["cli"] = prog["cli"]
    BY <1>1 DEF IInv, TypeOK, NoteHooks, Onward, Excuse
  <1> QED  BY <1>1, <1>2, <1>3 DEF Ends, NoteHooks

\* However the machine came to be as it is, an uninstall that ends undisturbed leaves
\* nothing of ours in the files, and the owner's line is back, or in the chain file if
\* there was no line (uninstall, of the status line and of both hook files).
THEOREM AllGivenBack == Spec => GivenBack
  <1> DEFINE Back ==
        Ends("uninstall") =>
          /\ "line" \in excused' \/ line' \in Owners \cup {None}
          /\ "line" \in excused' \/ own \in {None, line'} \/ (line' = None /\ chain' = own)
          /\ \A f \in Files \ excused' : entries'[f] = NoHooks
  <1>1. IInv /\ [Next]_vars => [Back]_vars
    <2> SUFFICES ASSUME IInv, Next, Ends("uninstall") PROVE Back
      OBVIOUS
    <2>1. /\ cmd = "uninstall" /\ whole /\ at["cli"] = "note" /\ UNCHANGED <<settings, chain, own>>
          /\ excused \subseteq excused' /\ (file = "codex" \/ Files = {"claude"})
      BY EndsNoting
    <2>2. "line" \notin excused =>
             line \notin Spellings /\ (own \in {None, line} \/ (line = None /\ chain = own))
      BY <2>1 DEF IInv, Done
    <2>3. \A f \in Files \ excused : entries[f] = NoHooks
      BY <2>1, Parts DEF IInv, TypeOK, Known, Done, Given
    <2> QED  BY <2>1, <2>2, <2>3 DEF IInv, TypeOK, Lines
  <1> QED  BY <1>1, Invariance, PTL DEF Spec, GivenBack

\* An install that ends undisturbed leaves our status line and one hook in each file,
\* as the shim it installed is spelt (install, of the status line and of both hook files).
THEOREM AllInstalledOnce == Spec => OnceEach
  <1> DEFINE Once ==
        Ends("install") =>
          /\ "line" \in excused' \/ line' = prog'["cli"]
          /\ \A f \in Files \ excused' : entries'[f] = Only(prog'["cli"])
  <1>1. IInv /\ [Next]_vars => [Once]_vars
    <2> SUFFICES ASSUME IInv, Next, Ends("install") PROVE Once
      OBVIOUS
    <2>1. /\ cmd = "install" /\ whole /\ at["cli"] = "note" /\ UNCHANGED <<settings, chain, own>>
          /\ excused \subseteq excused' /\ prog'["cli"] = prog["cli"]
          /\ file = "codex" \/ Files = {"claude"}
      BY EndsNoting
    <2>2. "line" \notin excused => line = prog["cli"]
      BY <2>1 DEF IInv, Done
    <2>3. \A f \in Files \ excused : entries[f] = Only(prog["cli"])
      BY <2>1, Parts DEF IInv, TypeOK, Known, Done, Given
    <2> QED  BY <2>1, <2>2, <2>3
  <1> QED  BY <1>1, Invariance, PTL DEF Spec, OnceEach
=============================================================================
