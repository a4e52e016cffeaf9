----------------------------- MODULE AppProgram -----------------------------
(***************************************************************************)
(* The installed program and its replacement (pc/update.py, pc/cli.py, and *)
(* the parts of the daemon's main that use them).  The program is a        *)
(* directory, <bin>; a new one is unpacked into <bin>.new, made to run     *)
(* once, and rotated in: <bin> goes to <bin>.old, <bin>.new to <bin>.      *)
(* <bin>.old is put back if that fails, and dropped once the new program   *)
(* has heard its board.                                                    *)
(*                                                                         *)
(* Three actors work on these directories without a lock, also at the same *)
(* time: the daemon, which recovers, cleans up and replaces itself; the    *)
(* command line (update, install); and a guest, a copy of the program run  *)
(* from somewhere else, whose start recovers the installed one too (what   *)
(* more it does is left out).  Each may be killed between any two file     *)
(* operations.                                                             *)
(*                                                                         *)
(* Removing and unpacking are not atomic: cut short, or refused by         *)
(* Windows, they leave part of a directory.  A rename is; Windows may      *)
(* refuse one for longer than _replace tries.                              *)
(***************************************************************************)
EXTENDS Naturals

CONSTANTS MaxVer,      \* releases are 1 .. MaxVer; 1 is installed at first
          Guests,      \* whether copies are run from somewhere else
          MaxInstalls, \* bound on the installs that are begun
          MaxCrashes   \* bound on the processes that are killed

ASSUME VerAssumption == MaxVer \in Nat \ {0}
ASSUME CountAssumption == MaxInstalls \in Nat /\ MaxCrashes \in Nat /\ Guests \in BOOLEAN

VARIABLES
  windows,   \* which kind of computer this is
  feed,      \* the newest published release
  dir,       \* the directories "bin", "old" and "new"
  at,        \* what each actor does next
  want,      \* the version it installs
  ver,       \* the version the daemon's process is
  proven,    \* main's proven: that process has heard its board
  cmd,       \* the command of the command line
  broken,    \* history: bin may lack a program, after a kill in the middle of a
             \* swap, an undo that Windows refused or that found nothing whole,
             \* a copy that was spoilt, or a bin.old dropped by the other installer
  spoilt,    \* history: the installers whose copy somebody else has changed
             \* since its self-test
  installs, crashes

daemon == <<ver, proven>>
vars == <<windows, feed, dir, at, want, daemon, cmd, broken, spoilt, installs, crashes>>

Actors == {"daemon", "cli", "guest"}
Installers == {"daemon", "cli"}
Versions == 1 .. MaxVer

\* A directory: "none" there; "hollow" without its executable (or with an
\* empty one); a "husk" with it, but not all that it needs; or "whole".
\* tested: this very copy has passed _self_test.
Kinds == {"none", "hollow", "husk", "whole"}
Copy(kind, v) == [kind |-> kind, ver |-> v, tested |-> FALSE]
Gone == Copy("none", 0)

Exists(d) == d.kind # "none"
HasExe(d) == d.kind \in {"husk", "whole"}
Runs(d) == d.kind = "whole"

Init == /\ windows \in BOOLEAN
        /\ feed \in Versions
        /\ dir = [d \in {"bin", "old", "new"} |->
                    IF d = "bin" THEN [kind |-> "whole", ver |-> 1, tested |-> TRUE] ELSE Gone]
        /\ at = [a \in Actors |-> "off"] /\ want = [a \in Installers |-> 1]
        /\ ver = 1 /\ proven = FALSE
        /\ cmd = "none"
        /\ broken = FALSE /\ spoilt = {} /\ installs = 0 /\ crashes = 0

Publish == /\ feed < MaxVer /\ feed' = feed + 1
           /\ UNCHANGED <<windows, dir, at, want, daemon, cmd, broken, spoilt, installs, crashes>>

Go(a, step) == at' = [at EXCEPT ![a] = step]

\* What half a removal leaves, and what rmtree(ignore_errors) leaves: on
\* Windows a file in use stays.
Remains(d) == IF HasExe(d) THEN {d, Copy("husk", d.ver), Copy("hollow", 0)} ELSE {d}
Removed(d) == {Gone} \cup IF windows THEN Remains(d) ELSE {}

Remove(d) == \E left \in Removed(dir[d]) : dir' = [dir EXCEPT ![d] = left]

\* os.replace of a directory, and when it may be refused.
Move(from, to) == /\ Exists(dir[from]) /\ ~Exists(dir[to])
                  /\ dir' = [dir EXCEPT ![to] = dir[from], ![from] = Gone]
MayRefuse(from, to) == windows \/ ~Exists(dir[from]) \/ Exists(dir[to])
Refused(from, to) == MayRefuse(from, to) /\ UNCHANGED dir

\* From its self-test until its rename an installer relies on bin.new.
Holding == {"drop", "out", "in"}
Noted == spoilt' = {a \in Installers :
                      /\ at'[a] \in Holding
                      /\ a \in spoilt \/ (at'[a] = at[a] /\ dir'["new"] # dir["new"])}

FileStep == Noted /\ UNCHANGED <<windows, feed, want, daemon, cmd, installs, crashes>>

-----------------------------------------------------------------------------
(* The daemon's life.  Only one runs: a second one waits for its lock.     *)

\* launchd, systemd, or the next logon; nothing is seen here of a program
\* that cannot start, however often it is tried.
ServiceStart ==
  /\ at["daemon"] = "off" /\ Runs(dir["bin"])
  /\ Go("daemon", "look")
  /\ ver' = dir["bin"].ver /\ proven' = FALSE
  /\ UNCHANGED <<windows, feed, dir, want, cmd, broken, spoilt, installs, crashes>>

\* Somebody runs a copy that is somewhere else: a checkout, a fresh download.
GuestStart == Guests /\ at["guest"] = "off" /\ Go("guest", "look") /\ UNCHANGED <<dir, broken>> /\ FileStep

\* The user logs out, between two things the daemon does.
LogOut == /\ at["daemon"] = "running"
          /\ Go("daemon", "off")
          /\ UNCHANGED <<windows, feed, dir, want, daemon, cmd, broken, spoilt, installs, crashes>>

\* Where an actor is when it has done what it started: a daemon goes on, a
\* command ends.
Rest(a) == IF a = "daemon" THEN "running" ELSE "off"

\* recover, at the start: if bin has no program and old has one, what is left
\* of bin is removed, and old is put there.
Look(a) == /\ at[a] = "look"
           /\ Go(a, IF ~HasExe(dir["bin"]) /\ HasExe(dir["old"]) THEN "rescue" ELSE Rest(a))
           /\ UNCHANGED <<dir, broken>>
           /\ FileStep

Rescue(a) == /\ at[a] = "rescue"
             /\ Remove("bin")
             /\ Go(a, "restore")
             /\ UNCHANGED broken
             /\ FileStep

Restore(a) == /\ at[a] = "restore"
              /\ Move("old", "bin") \/ Refused("old", "bin")
              /\ broken' = ~Runs(dir'["bin"])
              /\ Go(a, Rest(a))
              /\ FileStep

Recover(a) == Look(a) \/ Rescue(a) \/ Restore(a)

\* An installer other than a has moved bin away.
Stranded(a) == ~Exists(dir["bin"]) /\ \E b \in Installers \ {a} : at[b] \in {"in", "back"}

\* The board's first message, and the cleanup behind it.  In the middle of the
\* command's swap it takes away what a failed rename would put back.
Prove == /\ at["daemon"] = "running" /\ ~proven
         /\ proven' = TRUE
         /\ Go("daemon", "cleanup")
         /\ UNCHANGED <<windows, feed, dir, want, ver, cmd, broken, spoilt, installs, crashes>>

Cleanup == /\ at["daemon"] = "cleanup"
           /\ Remove("old")
           /\ Go("daemon", "running")
           /\ broken' = (broken \/ Stranded("daemon"))
           /\ FileStep

-----------------------------------------------------------------------------
(* A process is gone, whatever it was doing.                               *)

\* What an actor removes, by its place.
Removing == [clear |-> "new", undo |-> "new", drop |-> "old", cleanup |-> "old", rescue |-> "bin"]

Torn(a) ==
  IF at[a] \in DOMAIN Removing
    THEN LET d == Removing[at[a]]
         IN  \E left \in Remains(dir[d]) : dir' = [dir EXCEPT ![d] = left]
    ELSE UNCHANGED dir

\* Between its two renames an actor leaves bin as it is.
Killed(a) ==
  /\ Torn(a)
  /\ broken' = (broken \/ (at[a] \in {"in", "back", "rescue", "restore"} /\ ~Runs(dir'["bin"])))

Kill(a) == /\ at[a] # "off" /\ crashes < MaxCrashes
           /\ crashes' = crashes + 1
           /\ Killed(a)
           /\ Go(a, "off")
           /\ Noted /\ UNCHANGED <<windows, feed, want, daemon, cmd, installs>>

-----------------------------------------------------------------------------
(* Installing: apply and swap_in, by either actor.                         *)

Installing == {"halt", "clear", "unpack", "fill", "stop", "test", "drop", "out", "in", "back", "undo"}

Begin(a, v, first) ==
  /\ installs < MaxInstalls
  /\ installs' = installs + 1
  /\ want' = [want EXCEPT ![a] = v]
  /\ Go(a, first)
  /\ UNCHANGED <<windows, feed, dir, daemon, broken, spoilt, crashes>>

\* main.self_update, for an update tapped on the board.
SelfUpdate == /\ at["daemon"] = "running" /\ feed > ver
              /\ Begin("daemon", feed, "clear")
              /\ UNCHANGED cmd

\* cmd_update, run from the installed program.
Update == /\ at["cli"] = "off" /\ Runs(dir["bin"]) /\ feed > dir["bin"].ver
          /\ cmd' = "update"
          /\ Begin("cli", feed, "halt")

\* cmd_install, run from an unpacked download of any release.
Install == /\ at["cli"] = "off"
           /\ cmd' = "install"
           /\ \E v \in 1 .. feed : Begin("cli", v, "clear")

\* halt_service: on Windows the daemon is stopped, if it can be; elsewhere
\* nothing is done.  update halts first, install once its copy is staged.
Halt == /\ at["cli"] \in {"halt", "stop"}
        /\ LET next == IF at["cli"] = "halt" THEN "clear" ELSE "test"
           IN  \/ /\ windows /\ at["daemon"] # "off"
                  /\ Killed("daemon")
                  /\ at' = [at EXCEPT !["daemon"] = "off", !["cli"] = next]
               \/ Go("cli", next) /\ UNCHANGED <<dir, broken>>
        /\ Noted /\ UNCHANGED <<windows, feed, want, daemon, cmd, installs, crashes>>

Clear(a) == /\ at[a] = "clear"
            /\ Remove("new")
            /\ Go(a, "unpack")
            /\ UNCHANGED broken
            /\ FileStep

\* unpack, or copytree: some of the files, then the rest.  A copytree that
\* fails, as it does on a directory that is there, ends the command, and
\* stays.  What is published, or what is copied, may not run on this computer;
\* nor may what is left of it where the other installer clears away the first
\* half.
Copying(a) == a = "cli" /\ cmd = "install"

Unpack(a) == /\ at[a] = "unpack"
             /\ \/ /\ ~(Copying(a) /\ Exists(dir["new"]))
                   /\ \E half \in {Copy("husk", want[a]), Copy("hollow", 0)} : dir' = [dir EXCEPT !["new"] = half]
                   /\ Go(a, "fill")
                \/ Copying(a) /\ Exists(dir["new"]) /\ UNCHANGED dir /\ Go(a, "off")
             /\ UNCHANGED broken
             /\ FileStep

Fill(a) == /\ at[a] = "fill"
           /\ \/ /\ \E full \in {Copy("husk", want[a]), IF Exists(dir["new"]) THEN Copy("whole", want[a]) ELSE Copy("hollow", 0)} :
                      dir' = [dir EXCEPT !["new"] = full]
                 /\ Go(a, IF Copying(a) THEN "stop" ELSE "test")
              \/ UNCHANGED dir /\ Go(a, IF Copying(a) THEN "off" ELSE "undo")
           /\ UNCHANGED broken
           /\ FileStep

\* Mutant: a program that is there is taken for one that runs.
PassesUnrun(d, v) == HasExe(d)

\* _self_test: the program runs and says the version that is wanted.  A slow
\* computer may fail it for a good one.
Passes(d, v) == Runs(d) /\ d.ver = v

Test(a) == /\ at[a] = "test"
           /\ \/ /\ Passes(dir["new"], want[a])
                 /\ dir' = [dir EXCEPT !["new"].tested = Runs(dir["new"])]
                 /\ Go(a, "drop")
              \/ UNCHANGED dir /\ Go(a, "undo")
           /\ UNCHANGED broken
           /\ FileStep

Drop(a) == /\ at[a] = "drop"
           /\ Remove("old")
           /\ Go(a, "out")
           /\ broken' = (broken \/ Stranded(a))
           /\ FileStep

Out(a) == /\ at[a] = "out"
          /\ \/ ~Exists(dir["bin"]) /\ Go(a, "in") /\ UNCHANGED dir
             \/ Move("bin", "old") /\ Go(a, "in")
             \/ Exists(dir["bin"]) /\ Refused("bin", "old") /\ Go(a, "back")
          /\ UNCHANGED broken
          /\ FileStep

In(a) == /\ at[a] = "in"
         /\ \/ /\ Move("new", "bin")
               /\ broken' = (a \in spoilt /\ ~Runs(dir'["bin"]))
               /\ Go(a, "restart")
            \/ Refused("new", "bin") /\ Go(a, "back") /\ UNCHANGED broken
         /\ FileStep

\* Mutant: nothing is put back.
LeavesIt == UNCHANGED <<dir, broken>>

\* The handler of a refused rename puts back what it moved.
PutBack == IF ~Exists(dir["bin"]) /\ Exists(dir["old"])
             THEN \/ Move("old", "bin") /\ broken' = (broken \/ ~Runs(dir["old"]))
                  \/ Refused("old", "bin") /\ broken' = TRUE
             ELSE UNCHANGED <<dir, broken>>

Back(a) == at[a] = "back" /\ PutBack /\ Go(a, "undo") /\ FileStep

\* The install has failed: the daemon goes on, the command exits.
Undo(a) == /\ at[a] = "undo"
           /\ Remove("new")
           /\ Go(a, Rest(a))
           /\ UNCHANGED broken
           /\ FileStep

\* restart_from_daemon: the daemon exits, to be started again; on Windows it
\* starts its successor itself, and stays if it cannot.
HandOver == /\ at["daemon"] = "restart"
            /\ Go("daemon", "off") \/ (windows /\ Go("daemon", "running"))
            /\ UNCHANGED <<dir, broken>>
            /\ FileStep

\* restart_service, and install's: the daemon there is goes, the program in
\* bin is started.
Restart == /\ at["cli"] = "restart"
           /\ Killed("daemon")
           /\ proven' = FALSE
           /\ at' = [at EXCEPT !["daemon"] = IF Runs(dir'["bin"]) THEN "look" ELSE "off",
                             !["cli"] = "off"]
           /\ ver' = IF Runs(dir'["bin"]) THEN dir'["bin"].ver ELSE ver
           /\ Noted /\ UNCHANGED <<windows, feed, want, cmd, installs, crashes>>

Swap(a) == Clear(a) \/ Unpack(a) \/ Fill(a) \/ Test(a) \/ Drop(a)
             \/ Out(a) \/ In(a) \/ Back(a) \/ Undo(a)

Next == \/ Publish \/ ServiceStart \/ GuestStart \/ LogOut \/ Prove \/ Cleanup
        \/ SelfUpdate \/ Update \/ Install \/ Halt \/ Restart \/ HandOver
        \/ \E a \in {"daemon", "guest"} : Recover(a)
        \/ \E a \in Installers : Swap(a)
        \/ \E a \in Actors : Kill(a)

Spec == Init /\ [][Next]_vars

-----------------------------------------------------------------------------
Places ==
  [daemon |-> (Installing \ {"halt", "stop"})
                \cup {"off", "look", "rescue", "restore", "running", "cleanup", "restart"},
   cli    |-> Installing \cup {"off", "restart"},
   guest  |-> {"off", "look", "rescue", "restore"}]

AtOK == /\ at \in [Actors -> UNION {Places[a] : a \in Actors}]
        /\ \A a \in Actors : at[a] \in Places[a]

Dir == [kind : Kinds, ver : 0 .. MaxVer, tested : BOOLEAN]
Dirs == [{"bin", "old", "new"} -> Dir]

TypeOK ==
  /\ windows \in BOOLEAN /\ feed \in Versions
  /\ dir \in Dirs /\ AtOK
  /\ want \in [Installers -> Versions] /\ ver \in 0 .. MaxVer
  /\ proven \in BOOLEAN /\ broken \in BOOLEAN /\ spoilt \subseteq Installers
  /\ cmd \in {"none", "update", "install"}

\* Somebody is about to put a program into bin.
Moving == \E a \in Actors : at[a] \in {"in", "back", "rescue", "restore"}

\* The login service finds a program that runs, whatever the actors are doing,
\* both installers at once included, after every staging, self-test or rename
\* that failed (swap_in's order and its handler), unless a kill fell between the
\* two renames, Windows refused the undo as well, a cleanup, a removal or the other
\* installer's left nothing to undo with, or what was moved in had been spoilt.
BinRuns == Runs(dir["bin"]) \/ Moving \/ broken

\* What an install rotates into bin is a copy that has itself been run and has
\* said its version (update.py: "SELF-TESTED before it becomes the service's
\* target"), while recover, cleanup and the other installer work beside it, and
\* whatever an install that was killed or overtaken has left there; all that can
\* put another in its place is the other installer, between test and rename.
TestedOnly ==
  [][\A a \in Installers \ spoilt :
       at[a] = "in" /\ at'[a] = "restart"
         => dir'["bin"].tested /\ dir'["bin"].ver = want[a]]_vars
=============================================================================
