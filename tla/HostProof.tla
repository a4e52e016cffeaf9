------------------------------ MODULE HostProof ------------------------------
(***************************************************************************)
(* What holds on the computer's side of what is installed there, and of    *)
(* what it does first: of the installed program (AppProgram) and of the    *)
(* search for the board (Search).                                          *)
(*                                                                         *)
(* The program: that one which runs is there to start, and that what is    *)
(* rotated in has run, for any number of releases, installs and kills,     *)
(* with both installers at work at the same time or not.                   *)
(*                                                                         *)
(* The search, on a desk of any number of ports: types, that a board is    *)
(* not reset while it boots, that nothing else is reset while the board    *)
(* could have been found, and that a layout is gone through twice at most. *)
(***************************************************************************)
EXTENDS AppProgram, Search, WellFoundedInduction, TLAPS

-----------------------------------------------------------------------------
(* The installed program.                                                  *)

\* What was seen to run is still whole: any damage to it leaves another copy.
TestedRuns == dir["new"].tested => Runs(dir["new"])

\* From its self-test until it moves, the staged copy is the one tested, unless
\* somebody else has changed it.
Staged == \A a \in Installers \ spoilt :
            at[a] \in Holding => dir["new"].tested /\ dir["new"].ver = want[a]

Recovering == \E a \in {"daemon", "guest"} : at[a] \in {"rescue", "restore"}

\* An installer that has moved bin away can still put it back.
CanUndo == \E a \in Installers : /\ at[a] \in {"in", "back"}
                                 /\ ~Exists(dir["bin"]) /\ Exists(dir["old"])

BinSafe == Runs(dir["bin"]) \/ broken \/ Recovering \/ CanUndo

Sound == TestedRuns /\ Staged

IInv == TypeOK /\ Sound /\ BinSafe

-----------------------------------------------------------------------------
(* What the file operations leave.                                         *)

\* A fresh copy is a directory, and has not been tested.
LEMMA CopyType ==
  ASSUME NEW kind \in Kinds, NEW v \in 0 .. MaxVer
  PROVE  Copy(kind, v) \in Dir /\ ~Copy(kind, v).tested
BY DEF Copy, Dir

LEMMA GoneType == Gone \in Dir /\ ~Gone.tested /\ ~Exists(Gone)
BY VerAssumption DEF Gone, Copy, Dir, Kinds, Exists

\* A removal that is cut short leaves something, and nothing that was tested
\* but the copy itself.
LEMMA RemainsType ==
  ASSUME NEW d \in Dir, NEW left \in Remains(d)
  PROVE  left \in Dir /\ (Exists(d) => Exists(left)) /\ (left.tested => left = d)
<1>1. CASE left = d
  BY <1>1
<1>2. CASE left = Copy("husk", d.ver)
  <2>1. left \in Dir /\ ~left.tested
    BY <1>2, CopyType DEF Dir, Kinds
  <2> QED BY <2>1, <1>2 DEF Copy, Exists
<1>3. CASE left = Copy("hollow", 0)
  <2>1. left \in Dir /\ ~left.tested
    BY <1>3, CopyType, VerAssumption DEF Kinds
  <2> QED BY <2>1, <1>3 DEF Copy, Exists
<1> QED BY <1>1, <1>2, <1>3 DEF Remains

\* The same of one that ends, except that nothing may be left.
LEMMA RemovedType ==
  ASSUME NEW d \in Dir, NEW left \in Removed(d)
  PROVE  left \in Dir /\ (left.tested => left = d)
BY RemainsType, GoneType DEF Removed

\* A removal touches the directory removed.
LEMMA RemoveEffect ==
  ASSUME dir \in Dirs, NEW d \in {"bin", "old", "new"}, Remove(d)
  PROVE  /\ dir' \in Dirs
         /\ \A e \in {"bin", "old", "new"} \ {d} : dir'[e] = dir[e]
         /\ dir'[d].tested => dir'[d] = dir[d]
<1>1. PICK left \in Removed(dir[d]) : dir' = [dir EXCEPT ![d] = left]
  BY DEF Remove
<1>2. dir[d] \in Dir
  BY DEF Dirs
<1>3. left \in Dir /\ (left.tested => left = dir[d])
  BY <1>2, RemovedType
<1> QED BY <1>1, <1>3 DEF Dirs

\* A rename moves the copy as it is.
LEMMA MoveEffect ==
  ASSUME dir \in Dirs, NEW from \in {"bin", "old", "new"}, NEW to \in {"bin", "old", "new"},
         Move(from, to)
  PROVE  /\ dir' \in Dirs
         /\ from # to /\ dir'[to] = dir[from] /\ dir'[from] = Gone
         /\ \A e \in {"bin", "old", "new"} \ {from, to} : dir'[e] = dir[e]
<1>1. from # to
  BY DEF Move
<1> QED BY <1>1, GoneType DEF Move, Dirs

\* A kill tears at most what its victim was removing.
LEMMA TornEffect ==
  ASSUME dir \in Dirs, NEW a \in Actors, Torn(a)
  PROVE  /\ dir' \in Dirs
         /\ Exists(dir["old"]) => Exists(dir'["old"])
         /\ dir'["new"].tested => dir'["new"] = dir["new"]
         /\ at[a] # "rescue" => dir'["bin"] = dir["bin"]
         /\ at[a] \notin {"clear", "undo"} => dir'["new"] = dir["new"]
<1>1. CASE at[a] \in DOMAIN Removing
  <2> DEFINE d == Removing[at[a]]
  <2>1. PICK left \in Remains(dir[d]) : dir' = [dir EXCEPT ![d] = left]
    BY <1>1 DEF Torn
  <2>2. /\ d \in {"bin", "old", "new"}
        /\ at[a] # "rescue" => d # "bin"
        /\ at[a] \notin {"clear", "undo"} => d # "new"
    BY <1>1 DEF Removing
  <2>3. dir[d] \in Dir
    BY <2>2 DEF Dirs
  <2>4. left \in Dir /\ (Exists(dir[d]) => Exists(left)) /\ (left.tested => left = dir[d])
    BY <2>1, <2>3, RemainsType
  <2> HIDE DEF d
  <2> QED BY <2>1, <2>2, <2>4 DEF Dirs
<1>2. CASE at[a] \notin DOMAIN Removing
  BY <1>2 DEF Torn
<1> QED BY <1>1, <1>2

-----------------------------------------------------------------------------
(* Type correctness.                                                       *)

\* An actor goes to one of its places, the others stay.
LEMMA GoEffect ==
  ASSUME AtOK, NEW a \in Actors, NEW step \in Places[a], Go(a, step)
  PROVE  AtOK' /\ at'[a] = step /\ \A b \in Actors \ {a} : at'[b] = at[b]
<1>1. step \in UNION {Places[b] : b \in Actors}
  OBVIOUS
<1>2. at' = [at EXCEPT ![a] = step]
  BY DEF Go
<1>3. at' \in [Actors -> UNION {Places[b] : b \in Actors}]
  BY <1>1, <1>2 DEF AtOK
<1>4. at'[a] = step /\ \A b \in Actors \ {a} : at'[b] = at[b]
  BY <1>2 DEF AtOK
<1> QED BY <1>3, <1>4 DEF AtOK

\* The places of an installer's steps, and where everybody rests.
LEMMA PlacesOf ==
  /\ \A a \in Installers : /\ a \in Actors
                          /\ {"clear", "unpack", "fill", "test", "drop", "out", "in",
                              "back", "undo", "off", "restart"} \subseteq Places[a]
                          /\ Rest(a) \in Places[a] /\ Rest(a) \notin Installing
  /\ \A a \in {"daemon", "guest"} : /\ a \in Actors
                                    /\ {"off", "look", "rescue", "restore"} \subseteq Places[a]
                                    /\ Rest(a) \in Places[a]
  /\ {"running", "cleanup"} \subseteq Places["daemon"]
  /\ {"halt", "stop"} \subseteq Places["cli"]
  /\ \A a \in Actors : "off" \in Places[a]
BY DEF Installers, Actors, Places, Installing, Rest

\* Initially.
LEMMA InitType == Init => TypeOK
<1> SUFFICES ASSUME Init PROVE TypeOK
  OBVIOUS
<1>1. 1 \in Versions /\ 1 \in 0 .. MaxVer
  BY VerAssumption DEF Versions
<1>2. dir \in Dirs
  <2>1. [kind |-> "whole", ver |-> 1, tested |-> TRUE] \in Dir
    BY <1>1 DEF Dir, Kinds
  <2> QED BY <2>1, GoneType DEF Init, Dirs
<1>3. AtOK
  BY PlacesOf DEF Init, AtOK
<1> QED BY <1>1, <1>2, <1>3 DEF Init, TypeOK

\* recover.
LEMMA RecoverType ==
  ASSUME TypeOK, NEW a \in {"daemon", "guest"}, Recover(a)
  PROVE  TypeOK'
<1>1. dir \in Dirs /\ AtOK /\ a \in Actors
  BY PlacesOf DEF TypeOK
<1>2. dir' \in Dirs
  <2>1. CASE Look(a)
    BY <2>1, <1>1 DEF Look
  <2>2. CASE Rescue(a)
    BY <2>2, <1>1, RemoveEffect DEF Rescue
  <2>3. CASE Restore(a)
    BY <2>3, <1>1, MoveEffect DEF Restore, Refused
  <2> QED BY <2>1, <2>2, <2>3 DEF Recover
<1>3. AtOK'
  <2>1. PICK step \in Places[a] : Go(a, step)
    BY PlacesOf DEF Recover, Look, Rescue, Restore
  <2> QED BY <1>1, <2>1, GoEffect
<1>4. broken' \in BOOLEAN
  BY DEF Recover, Look, Rescue, Restore, TypeOK
<1> QED BY <1>2, <1>3, <1>4 DEF Recover, Look, Rescue, Restore, FileStep, Noted, daemon, TypeOK

\* apply and swap_in.
LEMMA SwapType ==
  ASSUME TypeOK, NEW a \in Installers, Swap(a)
  PROVE  TypeOK'
<1>1. dir \in Dirs /\ AtOK /\ a \in Actors /\ want[a] \in 0 .. MaxVer
  BY PlacesOf, VerAssumption DEF TypeOK, Versions
<1>2. dir' \in Dirs
  <2>1. CASE Clear(a) \/ Drop(a) \/ Undo(a)
    BY <2>1, <1>1, RemoveEffect DEF Clear, Drop, Undo
  <2>2. CASE Unpack(a) \/ Fill(a)
    <3>1. \A kind \in Kinds : Copy(kind, want[a]) \in Dir /\ Copy(kind, 0) \in Dir
      BY <1>1, VerAssumption, CopyType
    <3> QED BY <2>2, <3>1, <1>1 DEF Unpack, Fill, Dirs, Kinds
  <2>3. CASE Test(a)
    <3>1. Runs(dir["new"]) \in BOOLEAN
      BY DEF Runs
    <3>2. [dir["new"] EXCEPT !.tested = Runs(dir["new"])] \in Dir
      BY <3>1, <1>1 DEF Dirs, Dir
    <3>3. dir' = dir \/ dir' = [dir EXCEPT !["new"] = [dir["new"] EXCEPT !.tested = Runs(dir["new"])]]
      BY <2>3, <1>1 DEF Test, Dirs
    <3> QED BY <3>2, <3>3, <1>1 DEF Dirs
  <2>4. CASE Out(a) \/ In(a) \/ Back(a)
    BY <2>4, <1>1, MoveEffect DEF Out, In, Back, PutBack, Refused
  <2> QED BY <2>1, <2>2, <2>3, <2>4 DEF Swap
<1>3. AtOK'
  <2>1. PICK step \in Places[a] : Go(a, step)
    BY PlacesOf DEF Swap, Clear, Unpack, Fill, Copying, Test, Drop, Out, In, Back, Undo, Installers, Places, Installing
  <2> QED BY <1>1, <2>1, GoEffect
<1>4. broken' \in BOOLEAN
  BY DEF Swap, Clear, Unpack, Fill, Test, Drop, Out, In, Back, PutBack, Undo, TypeOK
<1> QED BY <1>2, <1>3, <1>4
        DEF Swap, Clear, Unpack, Fill, Test, Drop, Out, In, Back, Undo, FileStep, Noted, daemon, TypeOK

\* A kill, also the one by a command that halts or restarts the service.
LEMMA KilledType ==
  ASSUME TypeOK, NEW a \in Actors, Killed(a)
  PROVE  dir' \in Dirs /\ broken' \in BOOLEAN
<1>1. dir' \in Dirs
  BY TornEffect DEF Killed, TypeOK
<1>2. broken' \in BOOLEAN
  BY DEF Killed, TypeOK, Runs
<1> QED BY <1>1, <1>2

\* An install is begun.
LEMMA BeginType ==
  ASSUME TypeOK, NEW a \in Installers, NEW v \in Versions, NEW first \in Places[a],
         Begin(a, v, first), cmd' \in {"none", "update", "install"}
  PROVE  TypeOK'
<1>1. AtOK'
  BY PlacesOf, GoEffect DEF Begin, TypeOK
<1> QED BY <1>1 DEF Begin, daemon, TypeOK

\* Every step keeps the types.
LEMMA TypeStep == TypeOK /\ [Next]_vars => TypeOK'
<1> SUFFICES ASSUME TypeOK, [Next]_vars PROVE TypeOK'
  OBVIOUS
<1> USE DEF daemon
<1>0. /\ dir \in Dirs /\ AtOK
      /\ {"daemon", "cli", "guest"} \subseteq Actors /\ {"daemon", "cli"} \subseteq Installers
  BY DEF TypeOK, Actors, Installers
<1>1. CASE Publish
  <2>1. feed' \in Versions
    BY <1>1, VerAssumption DEF Publish, TypeOK, Versions
  <2>2. AtOK'
    BY <1>0, <1>1 DEF Publish, AtOK
  <2> QED BY <2>1, <2>2, <1>1 DEF Publish, TypeOK
<1>2. CASE ServiceStart
  <2>1. AtOK'
    BY <1>0, <1>2, PlacesOf, GoEffect DEF ServiceStart
  <2>2. dir["bin"].ver \in 0 .. MaxVer
    BY <1>0 DEF Dirs, Dir
  <2> QED BY <2>1, <2>2, <1>2 DEF ServiceStart, TypeOK
<1>3. CASE GuestStart
  <2>1. AtOK'
    BY <1>0, <1>3, PlacesOf, GoEffect DEF GuestStart
  <2> QED BY <2>1, <1>3 DEF GuestStart, FileStep, Noted, TypeOK
<1>4. CASE LogOut
  <2>1. AtOK'
    BY <1>0, <1>4, PlacesOf, GoEffect DEF LogOut
  <2> QED BY <2>1, <1>4 DEF LogOut, TypeOK
<1>5. CASE Prove
  <2>1. AtOK'
    BY <1>0, <1>5, PlacesOf, GoEffect DEF Prove
  <2> QED BY <2>1, <1>5 DEF Prove, TypeOK
<1>6. CASE Cleanup
  <2>1. AtOK'
    BY <1>0, <1>6, PlacesOf, GoEffect DEF Cleanup
  <2>2. dir' \in Dirs
    BY <1>0, <1>6, RemoveEffect DEF Cleanup
  <2> QED BY <2>1, <2>2, <1>6 DEF Cleanup, FileStep, Noted, TypeOK
<1>7. CASE SelfUpdate
  BY <1>0, <1>7, PlacesOf, BeginType DEF SelfUpdate, TypeOK
<1>8. CASE Update
  BY <1>0, <1>8, PlacesOf, BeginType DEF Update, TypeOK
<1>9. CASE Install
  <2>1. PICK v \in 1 .. feed : Begin("cli", v, "clear")
    BY <1>9 DEF Install
  <2>2. v \in Versions
    BY <2>1, VerAssumption DEF TypeOK, Versions
  <2> QED BY <1>0, <1>9, <2>1, <2>2, PlacesOf, BeginType DEF Install
<1>10. CASE Halt
  <2> DEFINE next == IF at["cli"] = "halt" THEN "clear" ELSE "test"
  <2>1. next \in Places["cli"]
    BY <1>0, PlacesOf
  <2>2. /\ \/ Killed("daemon")
           \/ UNCHANGED <<dir, broken>>
        /\ \/ at' = [at EXCEPT !["daemon"] = "off", !["cli"] = next]
           \/ Go("cli", next)
        /\ UNCHANGED <<windows, feed, want, daemon, cmd, installs, crashes>>
    BY <1>10 DEF Halt, TypeOK
  <2> HIDE DEF next
  <2>3. AtOK'
    <3>1. CASE at' = [at EXCEPT !["daemon"] = "off", !["cli"] = next]
      BY <3>1, <2>1, <1>0, PlacesOf DEF AtOK
    <3>2. CASE Go("cli", next)
      BY <3>2, <2>1, <1>0, GoEffect
    <3> QED BY <3>1, <3>2, <2>2
  <2>4. dir' \in Dirs /\ broken' \in BOOLEAN
    BY <1>0, <2>2, KilledType DEF TypeOK
  <2>5. spoilt' \subseteq Installers
    BY <1>10 DEF Halt, Noted
  <2> QED BY <2>2, <2>3, <2>4, <2>5 DEF TypeOK
<1>11. CASE Restart
  <2>1. AtOK'
    BY <1>0, <1>11, PlacesOf DEF Restart, AtOK
  <2>2. dir' \in Dirs /\ broken' \in BOOLEAN
    BY <1>0, <1>11, KilledType DEF Restart
  <2>3. ver' \in 0 .. MaxVer
    BY <1>0, <1>11, <2>2 DEF Restart, TypeOK, Dirs, Dir
  <2> QED BY <1>11, <2>1, <2>2, <2>3 DEF Restart, Noted, TypeOK
<1>12. CASE HandOver
  <2>1. AtOK'
    BY <1>0, <1>12, PlacesOf, GoEffect DEF HandOver
  <2> QED BY <2>1, <1>12 DEF HandOver, FileStep, Noted, TypeOK
<1>13. ASSUME NEW a \in {"daemon", "guest"}, Recover(a) PROVE TypeOK'
  BY <1>13, RecoverType
<1>14. ASSUME NEW a \in Installers, Swap(a) PROVE TypeOK'
  BY <1>14, SwapType
<1>15. ASSUME NEW a \in Actors, Kill(a) PROVE TypeOK'
  <2>1. AtOK'
    BY <1>0, <1>15, PlacesOf, GoEffect DEF Kill
  <2> QED BY <2>1, <1>15, KilledType DEF Kill, Noted, TypeOK
<1>16. CASE UNCHANGED vars
  BY <1>16 DEF vars, TypeOK, AtOK, Dirs, Dir
<1> QED BY <1>1, <1>2, <1>3, <1>4, <1>5, <1>6, <1>7, <1>8, <1>9, <1>10, <1>11, <1>12,
           <1>13, <1>14, <1>15, <1>16 DEF Next

\* Every variable keeps its type, whoever is at work at the same time.
THEOREM TypeCorrect == Spec => []TypeOK
<1>1. Init => TypeOK
  BY InitType
<1>2. TypeOK /\ [Next]_vars => TypeOK'
  BY TypeStep
<1> QED BY <1>1, <1>2, PTL DEF Spec

-----------------------------------------------------------------------------
(* What each part of the invariant stands on.                              *)

\* Whose copy is not noted as spoilt finds it as it was.
LEMMA NotedEffect ==
  ASSUME Noted, NEW b \in Installers \ spoilt', at'[b] \in Holding
  PROVE  b \notin spoilt /\ (at'[b] = at[b] => dir'["new"] = dir["new"])
BY DEF Noted

\* A step of which it is noted whose copy it spoils: nobody comes to hold a copy,
\* or he who goes on with his leaves it alone.
LEMMA SoundKept ==
  ASSUME Sound, Noted, want' = want,
         dir'["new"].tested => dir'["new"] = dir["new"],
         \A b \in Installers : at'[b] \in Holding
                                => at'[b] = at[b] \/ (at[b] \in Holding /\ dir'["new"] = dir["new"])
  PROVE  Sound'
<1>1. TestedRuns'
  BY DEF Sound, TestedRuns, Runs
<1>2. ASSUME NEW b \in Installers \ spoilt', at'[b] \in Holding
      PROVE  dir'["new"].tested /\ dir'["new"].ver = want'[b]
  <2>1. b \notin spoilt /\ dir'["new"] = dir["new"] /\ at[b] \in Holding
    BY <1>2, NotedEffect
  <2> QED BY <2>1 DEF Sound, Staged
<1>3. Staged'
  BY <1>2 DEF Staged, Holding
<1> QED BY <1>1, <1>3 DEF Sound

\* A step that leaves the directories, and in their place those who hold a copy.
LEMMA SoundStill ==
  ASSUME Sound, dir' = dir, spoilt' = spoilt,
         \A b \in Installers : at'[b] \in Holding => at'[b] = at[b] /\ want'[b] = want[b]
  PROVE  Sound'
<1>1. TestedRuns'
  BY DEF Sound, TestedRuns, Runs
<1>2. Staged'
  BY DEF Sound, Staged, Holding
<1> QED BY <1>1, <1>2 DEF Sound

\* bin is left alone, old is not lost, and nobody leaves a place that counts.
LEMMA BinKept ==
  ASSUME BinSafe, dir'["bin"] = dir["bin"], broken => broken',
         Exists(dir["old"]) => Exists(dir'["old"]),
         \A a \in Actors : at[a] \in {"in", "back", "rescue", "restore"} => at'[a] = at[a]
  PROVE  BinSafe'
<1>1. Recovering => Recovering'
  BY DEF Recovering, Actors
<1>2. CanUndo => CanUndo'
  BY DEF CanUndo, Actors, Installers
<1>3. Runs(dir["bin"]) => Runs(dir'["bin"])
  OBVIOUS
<1> QED BY <1>1, <1>2, <1>3 DEF BinSafe

\* A kill is noted when it fell where bin was away.
LEMMA BinKilled ==
  ASSUME TypeOK, BinSafe, NEW a \in Actors, Killed(a),
         \A b \in Actors \ {a} : at[b] \in {"in", "back", "rescue", "restore"} => at'[b] = at[b]
  PROVE  BinSafe'
<1>1. /\ Exists(dir["old"]) => Exists(dir'["old"])
      /\ at[a] # "rescue" => dir'["bin"] = dir["bin"]
  BY TornEffect DEF Killed, TypeOK
<1>2. CASE at[a] \in {"in", "back", "rescue", "restore"}
  BY <1>2 DEF Killed, BinSafe
<1>3. CASE at[a] \notin {"in", "back", "rescue", "restore"}
  <2>1. broken => broken'
    BY DEF Killed
  <2>2. dir'["bin"] = dir["bin"]
    BY <1>1, <1>3
  <2>3. \A b \in Actors : at[b] \in {"in", "back", "rescue", "restore"} => at'[b] = at[b]
    BY <1>3
  <2> QED BY <1>1, <2>1, <2>2, <2>3, BinKept
<1> QED BY <1>2, <1>3

\* What a kill leaves of a staged copy is noted.
LEMMA SoundKilled ==
  ASSUME TypeOK, Sound, NEW a \in Actors, Killed(a), Noted, want' = want,
         \A b \in Installers : at'[b] \in Holding => at'[b] = at[b]
  PROVE  Sound'
<1>1. dir'["new"].tested => dir'["new"] = dir["new"]
  BY TornEffect DEF Killed, TypeOK
<1> QED BY <1>1, SoundKept

-----------------------------------------------------------------------------
(* The steps of an install.                                                *)

\* An installer leaves in <bin>.new what it has tested until it moves it, and
\* spoils the copy of the other at most.
LEMMA SwapSound ==
  ASSUME TypeOK, Sound, NEW a \in Installers, Swap(a)
  PROVE  Sound'
<1>1. /\ dir \in Dirs /\ AtOK /\ a \in Actors /\ want' = want /\ Noted
      /\ \A b \in Installers \ {a} : at'[b] = at[b]
  BY PlacesOf DEF TypeOK, AtOK, Go, Swap, Clear, Unpack, Fill, Test, Drop, Out, In, Back, Undo, FileStep
<1>2. Holding \subseteq Installing
  BY DEF Holding, Installing
<1>3. ASSUME at'[a] \notin Holding,
             dir'["new"].tested => dir'["new"] = dir["new"]
      PROVE  Sound'
  <2>1. \A b \in Installers : at'[b] \in Holding => at'[b] = at[b]
    BY <1>1, <1>3
  <2> QED BY <1>1, <1>3, <2>1, SoundKept
<1>4. CASE Clear(a) \/ Undo(a)
  <2>1. dir'["new"].tested => dir'["new"] = dir["new"]
    BY <1>1, <1>4, RemoveEffect DEF Clear, Undo
  <2>2. at'[a] \in {"unpack", Rest(a)}
    BY <1>1, <1>4 DEF Clear, Undo, Go, AtOK
  <2> QED BY <1>2, <1>3, <2>1, <2>2, PlacesOf DEF Holding
<1>5. CASE Unpack(a) \/ Fill(a)
  <2>1. dir'["new"].tested => dir'["new"] = dir["new"]
    BY <1>1, <1>5 DEF Unpack, Fill, Copy, Dirs
  <2>2. at'[a] \in {"fill", "stop", "test", "off", "undo"}
    BY <1>1, <1>5 DEF Unpack, Fill, Go, AtOK
  <2> QED BY <1>3, <2>1, <2>2 DEF Holding
<1>6. CASE Test(a)
  <2>1. CASE dir' = dir /\ Go(a, "undo")
    <3>1. at'[a] = "undo"
      BY <1>1, <2>1 DEF Go, AtOK
    <3> QED BY <1>3, <2>1, <3>1 DEF Holding
  <2>2. CASE /\ Passes(dir["new"], want[a])
             /\ dir' = [dir EXCEPT !["new"].tested = Runs(dir["new"])]
    <3>1. /\ Runs(dir["new"]) /\ dir["new"].ver = want[a]
          /\ dir'["new"] = [dir["new"] EXCEPT !.tested = Runs(dir["new"])]
          /\ dir["new"] \in Dir
      BY <1>1, <2>2 DEF Passes, Dirs
    <3>2. dir'["new"].tested /\ Runs(dir'["new"]) /\ dir'["new"].ver = want[a]
      BY <3>1 DEF Dir, Runs
    <3>3. TestedRuns'
      BY <3>2 DEF TestedRuns
    <3>4. Staged'
      <4>1. ASSUME NEW b \in Installers \ spoilt', at'[b] \in Holding, b # a
            PROVE  dir'["new"].tested /\ dir'["new"].ver = want'[b]
        <5>1. b \notin spoilt /\ dir'["new"] = dir["new"] /\ at[b] \in Holding
          BY <1>1, <4>1, NotedEffect
        <5> QED BY <1>1, <5>1 DEF Sound, Staged
      <4> QED BY <1>1, <3>2, <4>1 DEF Staged, Holding
    <3> QED BY <3>3, <3>4 DEF Sound
  <2> QED BY <1>6, <2>1, <2>2 DEF Test
<1>7. CASE Drop(a) \/ Out(a)
  <2>1. dir'["new"] = dir["new"]
    BY <1>1, <1>7, RemoveEffect, MoveEffect DEF Drop, Out, Refused
  <2>2. at[a] \in Holding
    BY <1>7 DEF Drop, Out, Holding
  <2> QED BY <1>1, <2>1, <2>2, SoundKept
<1>8. CASE In(a) \/ Back(a)
  <2>1. dir'["new"].tested => dir'["new"] = dir["new"]
    BY <1>1, <1>8, MoveEffect, GoneType DEF In, Back, PutBack, Refused
  <2>2. at'[a] \in {"restart", "back", "undo"}
    BY <1>1, <1>8 DEF In, Back, Go, AtOK
  <2> QED BY <1>3, <2>1, <2>2 DEF Holding
<1> QED BY <1>4, <1>5, <1>6, <1>7, <1>8 DEF Swap

\* Whatever an install does, a program that runs is there, or is moved back.
LEMMA SwapBin ==
  ASSUME TypeOK, Sound, BinSafe, NEW a \in Installers, Swap(a)
  PROVE  BinSafe'
<1>1. /\ dir \in Dirs /\ AtOK /\ a \in Actors /\ broken \in BOOLEAN
      /\ \A b \in Actors \ {a} : at'[b] = at[b]
  BY PlacesOf DEF TypeOK, AtOK, Go, Swap, Clear, Unpack, Fill, Test, Drop, Out, In, Back, Undo, FileStep
<1>2. at[a] \in Installing
  BY DEF Swap, Clear, Unpack, Fill, Test, Drop, Out, In, Back, Undo, Installing
<1>4. Recovering => Recovering'
  BY <1>1, <1>2 DEF Recovering, Installing, Actors
<1>5. ASSUME CanUndo, dir'["bin"] = dir["bin"], dir'["old"] = dir["old"],
             at[a] \in {"in", "back"} => at'[a] \in {"in", "back"}
      PROVE  CanUndo'
  BY <1>1, <1>5 DEF CanUndo, Installers, Actors
<1>6. CASE Clear(a) \/ Unpack(a) \/ Fill(a) \/ Test(a) \/ Undo(a)
  <2>1. dir'["bin"] = dir["bin"] /\ dir'["old"] = dir["old"]
    <3>1. CASE Clear(a) \/ Undo(a)
      BY <1>1, <3>1, RemoveEffect DEF Clear, Undo
    <3>2. CASE Unpack(a) \/ Fill(a) \/ Test(a)
      BY <1>1, <3>2 DEF Unpack, Fill, Test, Dirs
    <3> QED BY <1>6, <3>1, <3>2
  <2>2. broken' = broken /\ at[a] \notin {"in", "back"}
    BY <1>6 DEF Clear, Unpack, Fill, Test, Undo
  <2> QED BY <1>4, <1>5, <2>1, <2>2 DEF BinSafe
<1>7. CASE Drop(a)
  <2>1. dir'["bin"] = dir["bin"] /\ (broken => broken') /\ (Stranded(a) => broken')
    BY <1>1, <1>7, RemoveEffect DEF Drop
  <2>2. CanUndo => Stranded(a)
    BY <1>7 DEF CanUndo, Drop, Stranded, Installers
  <2> QED BY <1>4, <2>1, <2>2 DEF BinSafe
<1>8. CASE Out(a)
  <2>1. broken' = broken /\ at[a] \notin {"in", "back"}
    BY <1>8 DEF Out
  <2>2. CASE dir' = dir
    BY <1>4, <1>5, <2>1, <2>2 DEF BinSafe
  <2>3. CASE Move("bin", "old") /\ Go(a, "in")
    <3>1. Exists(dir'["old"]) /\ ~Exists(dir'["bin"])
      BY <1>1, <2>3, MoveEffect, GoneType DEF Move
    <3>2. at'[a] = "in"
      BY <1>1, <2>3 DEF Go, AtOK
    <3> QED BY <3>1, <3>2 DEF BinSafe, CanUndo
  <2> QED BY <1>8, <2>2, <2>3 DEF Out, Refused
<1>9. CASE In(a)
  <2>1. CASE Move("new", "bin")
    <3>1. CASE a \notin spoilt
      <4>1. dir["new"].tested
        BY <1>9, <3>1 DEF In, Sound, Staged, Holding
      <4>2. Runs(dir'["bin"])
        BY <1>1, <2>1, <4>1, MoveEffect DEF Sound, TestedRuns, Runs
      <4> QED BY <4>2 DEF BinSafe
    <3>2. CASE a \in spoilt
      <4>1. dir' # dir
        BY <1>1, <2>1, MoveEffect, GoneType DEF Move
      <4>2. broken' = (a \in spoilt /\ ~Runs(dir'["bin"]))
        BY <1>9, <4>1 DEF In, Refused
      <4> QED BY <3>2, <4>2 DEF BinSafe
    <3> QED BY <3>1, <3>2
  <2>2. CASE dir' = dir /\ broken' = broken /\ Go(a, "back")
    <3>1. at'[a] = "back"
      BY <1>1, <2>2 DEF Go, AtOK
    <3> QED BY <1>4, <1>5, <2>2, <3>1 DEF BinSafe
  <2> QED BY <1>9, <2>1, <2>2 DEF In, Refused
<1>10. CASE Back(a)
  <2>1. CASE ~Exists(dir["bin"]) /\ Exists(dir["old"])
    <3>1. CASE Move("old", "bin") /\ broken' = (broken \/ ~Runs(dir["old"]))
      <4>1. dir'["bin"] = dir["old"]
        BY <1>1, <3>1, MoveEffect
      <4> QED BY <3>1, <4>1 DEF BinSafe
    <3>2. CASE broken' = TRUE
      BY <3>2 DEF BinSafe
    <3> QED BY <1>10, <2>1, <3>1, <3>2 DEF Back, PutBack
  <2>2. CASE ~(~Exists(dir["bin"]) /\ Exists(dir["old"]))
    <3>1. dir' = dir /\ broken' = broken
      BY <1>10, <2>2 DEF Back, PutBack
    <3>2. ~CanUndo
      BY <2>2 DEF CanUndo
    <3> QED BY <1>4, <3>1, <3>2 DEF BinSafe
  <2> QED BY <2>1, <2>2
<1> QED BY <1>6, <1>7, <1>8, <1>9, <1>10 DEF Swap

-----------------------------------------------------------------------------
(* Every step keeps the invariant.                                         *)

\* An install begins, with whatever another has left or is at.
LEMMA BeginStep ==
  ASSUME TypeOK, Sound, BinSafe,
         NEW a \in Installers, NEW v, NEW first \in {"clear", "halt"}, Begin(a, v, first),
         at[a] \notin {"in", "back", "rescue", "restore"}
  PROVE  Sound' /\ BinSafe'
<1>1. /\ dir' = dir /\ broken' = broken /\ spoilt' = spoilt /\ a \in Actors /\ AtOK
      /\ at' = [at EXCEPT ![a] = first] /\ want' = [want EXCEPT ![a] = v]
  BY PlacesOf DEF Begin, Go, TypeOK
<1>2. at'[a] = first /\ \A b \in Actors \ {a} : at'[b] = at[b]
  BY <1>1 DEF AtOK
<1>3. \A b \in Installers : at'[b] \in Holding => at'[b] = at[b] /\ want'[b] = want[b]
  <2>1. at'[a] \notin Holding
    BY <1>2 DEF Holding
  <2>2. \A b \in Installers \ {a} : at'[b] = at[b] /\ want'[b] = want[b]
    BY <1>1, <1>2, PlacesOf DEF TypeOK, Installers, Actors
  <2> QED BY <2>1, <2>2
<1>4. Sound'
  BY <1>1, <1>3, SoundStill
<1>5. BinSafe'
  BY <1>1, <1>2, BinKept
<1> QED BY <1>4, <1>5

\* A step that leaves the directories and everybody in their place, except
\* one who is not at an install, nor on the way to put something into bin.
LEMMA QuietStep ==
  ASSUME AtOK, Sound, BinSafe, dir' = dir, broken' = broken, want' = want, spoilt' = spoilt \/ Noted,
         NEW a \in Actors, NEW step, Go(a, step),
         at[a] \notin {"in", "back", "rescue", "restore"}, step \notin Installing
  PROVE  Sound' /\ BinSafe'
<1>1. at'[a] = step /\ \A b \in Actors \ {a} : at'[b] = at[b]
  BY DEF Go, AtOK
<1>2. BinSafe'
  BY <1>1, BinKept
<1>3. step \notin Holding
  BY DEF Installing, Holding
<1>4. \A b \in Installers : at'[b] \in Holding => at'[b] = at[b] /\ want'[b] = want[b]
  BY <1>1, <1>3 DEF Installers, Actors
<1>5. Sound'
  BY <1>4, SoundKept, SoundStill
<1> QED BY <1>2, <1>5

\* recover.
LEMMA RecoverStep ==
  ASSUME TypeOK, Sound, BinSafe, NEW a \in {"daemon", "guest"}, Recover(a)
  PROVE  Sound' /\ BinSafe'
<1>1. dir \in Dirs /\ AtOK /\ a \in Actors
  BY PlacesOf DEF TypeOK
<1>2. {"rescue", "restore", Rest(a)} \cap Installing = {}
  BY DEF Rest, Installing
<1>3. CASE Look(a)
  <2>1. PICK step \in {"rescue", Rest(a)} : Go(a, step)
    BY <1>3 DEF Look
  <2>2. step \notin Installing
    BY <1>2
  <2> QED BY <1>1, <1>3, <2>1, <2>2, QuietStep DEF Look, FileStep
<1>4. CASE Rescue(a) \/ Restore(a)
  <2>1. /\ want' = want
        /\ at'[a] \in {"restore", Rest(a)} /\ \A b \in Actors \ {a} : at'[b] = at[b]
    BY <1>1, <1>4 DEF Rescue, Restore, FileStep, Go, AtOK
  <2>2. dir'["new"] = dir["new"]
    BY <1>1, <1>4, RemoveEffect, MoveEffect DEF Rescue, Restore, Refused
  <2>3. at'[a] \notin Holding
    BY <1>2, <2>1 DEF Holding, Installing
  <2>4. \A b \in Installers : at'[b] \in Holding => at'[b] = at[b]
    BY <1>1, <2>1, <2>3 DEF Installers, Actors
  <2>5. Sound'
    BY <1>4, <2>1, <2>2, <2>4, SoundKept DEF Rescue, Restore, FileStep
  <2>6. CASE Rescue(a)
    BY <1>1, <2>5, <2>6 DEF Rescue, Go, AtOK, BinSafe, Recovering
  <2>7. CASE Restore(a)
    BY <2>5, <2>7 DEF Restore, BinSafe
  <2> QED BY <1>4, <2>6, <2>7
<1> QED BY <1>3, <1>4 DEF Recover

\* The daemon's cleanup, which is noted when it fell into the command's swap.
LEMMA CleanupStep ==
  ASSUME TypeOK, Sound, BinSafe, Cleanup
  PROVE  Sound' /\ BinSafe'
<1>1. /\ dir \in Dirs /\ AtOK /\ want' = want
      /\ dir'["new"] = dir["new"] /\ dir'["bin"] = dir["bin"]
  BY RemoveEffect DEF Cleanup, TypeOK, FileStep
<1>2. at'["daemon"] = "running" /\ \A b \in Actors \ {"daemon"} : at'[b] = at[b]
  BY <1>1 DEF Cleanup, Go, AtOK, Actors
<1>3. \A b \in Installers : at'[b] \in Holding => at'[b] = at[b]
  BY <1>2 DEF Installers, Actors, Holding
<1>4. Sound'
  BY <1>1, <1>3, SoundKept DEF Cleanup, FileStep
<1>5. CanUndo => broken'
  BY DEF CanUndo, Cleanup, Stranded, Installers
<1>6. Recovering => Recovering'
  BY <1>2 DEF Recovering, Cleanup, Actors
<1>7. broken => broken'
  BY DEF Cleanup
<1> QED BY <1>1, <1>4, <1>5, <1>6, <1>7 DEF BinSafe

\* halt_service.
LEMMA HaltStep ==
  ASSUME TypeOK, Sound, BinSafe, Halt
  PROVE  Sound' /\ BinSafe'
<1> DEFINE next == IF at["cli"] = "halt" THEN "clear" ELSE "test"
<1>1. /\ AtOK /\ want' = want /\ Noted /\ at["cli"] \in {"halt", "stop"}
      /\ next \notin Holding /\ "off" \notin Holding
      /\ "daemon" \in Actors /\ "cli" \in Actors
  BY DEF Halt, TypeOK, Holding, Actors
<1>2. CASE Killed("daemon") /\ at' = [at EXCEPT !["daemon"] = "off", !["cli"] = next]
  <2>1. at'["daemon"] = "off" /\ at'["cli"] = next /\ at'["guest"] = at["guest"]
    BY <1>1, <1>2 DEF AtOK, Actors
  <2>2. Sound'
    BY <1>1, <1>2, <2>1, SoundKilled DEF Installers
  <2>3. BinSafe'
    BY <1>1, <1>2, <2>1, BinKilled DEF Actors
  <2> QED BY <2>2, <2>3
<1>3. CASE Go("cli", next) /\ dir' = dir /\ broken' = broken
  <2>1. at'["cli"] = next /\ \A b \in Actors \ {"cli"} : at'[b] = at[b]
    BY <1>1, <1>3 DEF Go, AtOK
  <2>2. Sound'
    BY <1>1, <1>3, <2>1, SoundKept DEF Installers, Actors
  <2>3. BinSafe'
    BY <1>1, <1>3, <2>1, BinKept
  <2> QED BY <2>2, <2>3
<1> HIDE DEF next
<1> QED BY <1>2, <1>3 DEF Halt, next

\* restart_service.
LEMMA RestartStep ==
  ASSUME TypeOK, Sound, BinSafe, Restart
  PROVE  Sound' /\ BinSafe'
<1>1. /\ AtOK /\ want' = want /\ Noted /\ at["cli"] = "restart" /\ Killed("daemon")
      /\ "daemon" \in Actors
      /\ at'["daemon"] \in {"look", "off"} /\ at'["cli"] = "off" /\ at'["guest"] = at["guest"]
  BY DEF Restart, TypeOK, AtOK, Actors
<1>2. Sound'
  BY <1>1, SoundKilled DEF Holding, Installers
<1>3. BinSafe'
  BY <1>1, BinKilled DEF Actors
<1> QED BY <1>2, <1>3

\* A process is killed.
LEMMA KillStep ==
  ASSUME TypeOK, Sound, BinSafe, NEW a \in Actors, Kill(a)
  PROVE  Sound' /\ BinSafe'
<1>1. /\ AtOK /\ want' = want /\ Noted /\ Killed(a)
      /\ at'[a] = "off" /\ \A b \in Actors \ {a} : at'[b] = at[b]
  BY DEF Kill, TypeOK, AtOK, Go
<1>2. Sound'
  BY <1>1, SoundKilled DEF Holding, Installers, Actors
<1>3. BinSafe'
  BY <1>1, BinKilled
<1> QED BY <1>2, <1>3

\* All of them.
LEMMA InvStep == IInv /\ [Next]_vars => IInv'
<1> SUFFICES ASSUME TypeOK, Sound, BinSafe, [Next]_vars PROVE IInv'
  BY DEF IInv
<1>1. TypeOK'
  BY TypeStep
<1>2. AtOK /\ {"daemon", "cli", "guest"} \subseteq Actors /\ {"daemon", "cli"} \subseteq Installers
  BY DEF TypeOK, Actors, Installers
<1>3. /\ {"running", "look", "cleanup", "off"} \cap Installing = {}
  BY DEF Installing
<1>4. CASE Publish \/ UNCHANGED vars
  <2>1. dir' = dir /\ at' = at /\ want' = want /\ broken' = broken /\ spoilt' = spoilt
    BY <1>4 DEF Publish, vars
  <2>2. Sound' /\ BinSafe'
    BY <2>1 DEF Sound, TestedRuns, Staged, Holding, Runs, BinSafe, Recovering, CanUndo
  <2> QED BY <1>1, <2>2 DEF IInv
<1>5. CASE ServiceStart \/ LogOut \/ Prove \/ HandOver
  <2>1. PICK step \in {"running", "look", "cleanup", "off"} : Go("daemon", step)
    BY <1>5 DEF ServiceStart, LogOut, Prove, HandOver
  <2>2. /\ dir' = dir /\ broken' = broken /\ want' = want /\ (spoilt' = spoilt \/ Noted)
        /\ at["daemon"] \notin {"in", "back", "rescue", "restore"}
    BY <1>5 DEF ServiceStart, LogOut, Prove, HandOver, FileStep
  <2> QED BY <1>1, <1>2, <1>3, <2>1, <2>2, QuietStep DEF IInv
<1>6. CASE GuestStart
  BY <1>1, <1>2, <1>3, <1>6, QuietStep DEF GuestStart, FileStep, IInv
<1>7. CASE Cleanup
  BY <1>1, <1>7, CleanupStep DEF IInv
<1>8. CASE SelfUpdate
  BY <1>1, <1>2, <1>8, BeginStep DEF SelfUpdate, IInv
<1>9. CASE Update
  BY <1>1, <1>2, <1>9, BeginStep DEF Update, IInv
<1>10. CASE Install
  BY <1>1, <1>2, <1>10, BeginStep DEF Install, IInv
<1>11. CASE Halt
  BY <1>1, <1>11, HaltStep DEF IInv
<1>12. CASE Restart
  BY <1>1, <1>12, RestartStep DEF IInv
<1>13. ASSUME NEW a \in {"daemon", "guest"}, Recover(a) PROVE IInv'
  BY <1>1, <1>13, RecoverStep DEF IInv
<1>14. ASSUME NEW a \in Installers, Swap(a) PROVE IInv'
  BY <1>1, <1>14, SwapSound, SwapBin DEF IInv
<1>15. ASSUME NEW a \in Actors, Kill(a) PROVE IInv'
  BY <1>1, <1>15, KillStep DEF IInv
<1> QED BY <1>4, <1>5, <1>6, <1>7, <1>8, <1>9, <1>10, <1>11, <1>12, <1>13, <1>14, <1>15 DEF Next

\* Initially the installed program is whole and nobody is at work.
LEMMA InvInit == Init => IInv
<1> SUFFICES ASSUME Init PROVE IInv
  OBVIOUS
<1>1. TypeOK
  BY InitType
<1>2. Sound
  BY DEF Init, Sound, TestedRuns, Staged, Holding, Installers, Actors, Gone, Copy
<1>3. BinSafe
  BY DEF Init, BinSafe, Runs
<1> QED BY <1>1, <1>2, <1>3 DEF IInv

-----------------------------------------------------------------------------
(* The theorems.                                                           *)

\* The strengthened invariant holds in every reachable state.
THEOREM Invariance == Spec => []IInv
<1>1. Init => IInv
  BY InvInit
<1>2. IInv /\ [Next]_vars => IInv'
  BY InvStep
<1> QED BY <1>1, <1>2, PTL DEF Spec

\* A program that runs is there to start, whatever fails and whoever recovers or
\* installs beside the install, but for the excused.
THEOREM ProgramRuns == Spec => []BinRuns
<1>1. IInv => BinRuns
  BY DEF IInv, BinSafe, BinRuns, Moving, Recovering, CanUndo, Actors, Installers
<1> QED BY <1>1, Invariance, PTL

\* What an install rotates into bin has run, and has the version it wanted, unless
\* the other installer has changed it between the self-test and the rename.
THEOREM RotatedHasRun == Spec => TestedOnly
<1> DEFINE Rotated == \A a \in Installers \ spoilt :
                        at[a] = "in" /\ at'[a] = "restart"
                          => dir'["bin"].tested /\ dir'["bin"].ver = want[a]
<1>1. IInv /\ [Next]_vars => [Rotated]_vars
  <2> SUFFICES ASSUME IInv, Next, NEW a \in Installers \ spoilt, at[a] = "in", at'[a] = "restart"
               PROVE  dir'["bin"].tested /\ dir'["bin"].ver = want[a]
    OBVIOUS
  <2>1. /\ dir \in Dirs /\ AtOK /\ a \in Actors
        /\ dir["new"].tested /\ dir["new"].ver = want[a]
    BY PlacesOf DEF IInv, TypeOK, Sound, Staged, Holding
  <2>2. Move("new", "bin")
    <3>1. ASSUME NEW b \in Actors, NEW step, Go(b, step), at[b] # "in"
          PROVE  FALSE
      BY <2>1, <3>1 DEF Go, AtOK
    <3>2. ~(Publish \/ ServiceStart \/ GuestStart \/ LogOut \/ Prove \/ Cleanup \/ HandOver)
      BY <3>1, <2>1 DEF Publish, ServiceStart, GuestStart, LogOut, Prove, Cleanup, HandOver, Actors
    <3>3. ~(SelfUpdate \/ Update \/ Install)
      BY <3>1, <2>1 DEF SelfUpdate, Update, Install, Begin, Actors
    <3>4. ~(Halt \/ Restart)
      BY <3>1, <2>1 DEF Halt, Restart, Go, AtOK, Actors, Installers
    <3>5. ASSUME NEW b \in {"daemon", "guest"}, Recover(b)
          PROVE  FALSE
      BY <3>1, <3>5, PlacesOf DEF Recover, Look, Rescue, Restore
    <3>6. ASSUME NEW b \in Actors, Kill(b)
          PROVE  FALSE
      BY <2>1, <3>6 DEF Kill, Go, AtOK
    <3>7. PICK b \in Installers : Swap(b)
      BY <3>2, <3>3, <3>4, <3>5, <3>6 DEF Next
    <3>8. In(b)
      BY <3>1, <3>7, PlacesOf DEF Swap, Clear, Unpack, Fill, Test, Drop, Out, In, Back, Undo
    <3>9. b = a
      BY <2>1, <3>8, PlacesOf DEF In, Go, AtOK
    <3> QED BY <2>1, <3>8, <3>9 DEF In, Go, AtOK
  <2> QED BY <2>1, <2>2, MoveEffect
<1> QED BY <1>1, Invariance, PTL DEF Spec, TestedOnly

-----------------------------------------------------------------------------
(* The search for the board.                                               *)


-----------------------------------------------------------------------------
(* The first port of a list is one of it.                                  *)

LEMMA FirstIsIn ==
  ASSUME NEW S \in SUBSET Ports, S # {}
  PROVE  First(S) \in S
<1>1. S \subseteq Nat
  BY PortsAreNumbered DEF Ports
<1> DEFINE Less == {ss \in Nat \X Nat : ss[1] < ss[2]}
<1>2. IsWellFoundedOn(Less, Nat)
  BY NatLessThanWellFounded, Zenon DEF OpToRel
<1>3. \E x \in S : \A y \in S : ~(<<y, x>> \in Less)
  <2> HIDE DEF Less
  <2> QED BY <1>1, <1>2, WFMin, Zenon
<1>4. PICK x \in S : \A y \in S : ~(<<y, x>> \in Less)
  BY <1>3
<1>5. ASSUME NEW y \in S PROVE x <= y
  <2>1. x \in Nat /\ y \in Nat
    BY <1>1
  <2>2. y < x => <<y, x>> \in Less
    <3>1. <<y, x>> \in Nat \X Nat /\ <<y, x>>[1] = y /\ <<y, x>>[2] = x
      BY <2>1
    <3> QED BY <3>1
  <2> QED BY <2>1, <2>2, <1>4
<1> QED
  BY <1>5 DEF First

LEMMA NextPortType ==
  ASSUME SearchTypeOK, NEW t \in BOOLEAN
  PROVE  /\ NextPort(searched, t).port \in {None, explicit} \cup Candidates
         /\ NextPort(searched, t).port \in 0 .. N
         /\ NextPort(searched, t).patient \in BOOLEAN
         /\ NextPort(searched, t).searched \in {Unsearched} \cup [Ports -> {"none", "board", "stranger"}]
<1>1. Candidates # {} => First(Candidates) \in Candidates
  BY FirstIsIn DEF Candidates
<1>2. explicit \in 0 .. N /\ 0 \in 0 .. N /\ Candidates \subseteq 0 .. N
  BY PortsAreNumbered DEF SearchTypeOK, Candidates, Ports
<1> QED
  BY <1>1, <1>2 DEF NextPort, SearchTypeOK, Here, None

-----------------------------------------------------------------------------
(* Types.                                                                  *)

USE DEF Ports, None, Candidates

LEMMA TypeInit == SearchInit => SearchTypeOK
<1> SUFFICES ASSUME SearchInit PROVE SearchTypeOK
  OBVIOUS
<1>1. 0 \in 0 .. N /\ 0 \in 0 .. Moves /\ 0 \in 0 .. 3
  BY PortsAreNumbered
<1> QED
  BY <1>1 DEF SearchInit, SearchTypeOK

Layouts == [Ports -> {"none", "board", "stranger"}]

\* A layout that was looked at is not the note that none was.
LEMMA Looked ==
  /\ Ports # {} => \A d \in Layouts : d # Unsearched
  /\ \A d \in Layouts : d # Unsearched => Ports # {}
<1>1. ASSUME NEW p \in Ports, NEW d \in Layouts PROVE d # Unsearched
  <2>1. d[p] # Unsearched[p]
    BY DEF Layouts, Unsearched
  <2> QED BY <2>1
<1>2. ASSUME Ports = {}, NEW d \in Layouts PROVE d = Unsearched
  <2>1. d = [p \in Ports |-> d[p]]
    BY DEF Layouts
  <2> QED BY <2>1, <1>2 DEF Unsearched
<1> QED BY <1>1, <1>2

DeskMoves == Plug \/ Unplug \/ Hold \/ DaemonRestarts \/ Hang \/ Boots \/ Settle

LEMMA TypeOfDesk ==
  ASSUME SearchTypeOK, DeskMoves
  PROVE  SearchTypeOK'
<1> USE PortsAreNumbered DEF SearchTypeOK
<1>0. moves < Moves => moves + 1 \in 0 .. Moves
  OBVIOUS
<1>z. [p \in Ports |-> 0] \in [Ports -> 0 .. 3]
  OBVIOUS
<1>1. CASE Plug
  BY <1>1, <1>0, <1>z DEF Plug, Stir, Rearranged, search, BoardAt, Unsearched
<1>2. CASE Unplug
  BY <1>2, <1>0, <1>z DEF Unplug, Stir, Rearranged, search, Unsearched
<1>3. CASE Hold
  BY <1>3, <1>0, <1>z DEF Hold, Stir, Rearranged, search, Unsearched
<1>4. CASE DaemonRestarts
  <2>1. 0 \in 0 .. N /\ moves' \in 0 .. Moves
    BY <1>4 DEF DaemonRestarts
  <2>2. searched' = Unsearched /\ Unsearched' = Unsearched
    BY <1>4 DEF DaemonRestarts, Unsearched
  <2> QED
    BY <1>4, <1>z, <2>1, <2>2 DEF DaemonRestarts, Rearranged
<1>5. CASE Hang
  BY <1>5, <1>0 DEF Hang, Stir, search, Unsearched
<1>6. CASE Boots
  BY <1>6 DEF Boots, search, Unsearched
<1>7. CASE Settle
  BY <1>7 DEF Settle, search, Unsearched
<1> QED
  BY <1>1, <1>2, <1>3, <1>4, <1>5, <1>6, <1>7 DEF DeskMoves

LEMMA TypeOfDaemon ==
  ASSUME SearchTypeOK, Daemon
  PROVE  SearchTypeOK'
<1> USE PortsAreNumbered DEF SearchTypeOK
<1>0. \A S \in SUBSET Ports : S # {} => First(S) \in S
  BY FirstIsIn
<1>u. Unsearched' = Unsearched
  BY DEF Unsearched
<1>1. CASE WaitForPort
  <2>1. port' \in Ports
    BY <1>1, <1>0 DEF WaitForPort
  <2> QED
    BY <1>1, <2>1, <1>u DEF WaitForPort, desk
<1>2. CASE Open
  <2>1. UNCHANGED <<dev, board, held, still, moves, dead, explicit, known, port, patient, asked, searched>>
    BY <1>2 DEF Open, desk, search
  <2>2. pc' \in {"wait", "probe"} /\ port' # None
    BY <1>2, <2>1 DEF Open
  <2>3. since' \in {"no", "plugged", "up"}
    BY <1>2 DEF Open, NewRound, SameRound
  <2>4. /\ dev' \in [Ports -> {"none", "board", "stranger"}] /\ board' \in {"booting", "up", "hung"}
        /\ held' \subseteq Candidates' /\ {still', patient', dead'} \subseteq BOOLEAN
        /\ explicit' \in Explicits /\ known' \in 0 .. N /\ port' \in 0 .. N
        /\ asked' \subseteq Ports /\ moves' \in 0 .. Moves
    BY <2>1
  <2>5. searched' \in {Unsearched'} \cup [Ports -> {"none", "board", "stranger"}]
    BY <2>1, <1>u
  <2>6. ~dead
    BY <1>2 DEF Open
  <2>7. opens' \in [Ports -> 0 .. 3]
    BY <1>2 DEF Open
  <2> QED BY <2>1, <2>2, <2>3, <2>4, <2>5, <2>6, <2>7
<1>3. CASE Answered
  <2>1. port \in Ports
    BY <1>3 DEF Answered, ProbeOver
  <2>2. /\ UNCHANGED <<dev, board, held, still, moves, dead, explicit, known, port, patient, searched, opens, since>>
        /\ asked' = asked \cup {port} /\ pc' = "talk"
    BY <1>3 DEF Answered, desk
  <2>3. /\ dev' \in [Ports -> {"none", "board", "stranger"}] /\ board' \in {"booting", "up", "hung"}
        /\ held' \subseteq Candidates' /\ {still', patient', dead'} \subseteq BOOLEAN
    BY <2>2
  <2>4. /\ explicit' \in Explicits /\ known' \in 0 .. N /\ port' \in 0 .. N /\ port' # None
        /\ since' \in {"no", "plugged", "up"} /\ moves' \in 0 .. Moves /\ opens' \in [Ports -> 0 .. 3]
    BY <2>1, <2>2
  <2>5. searched' \in {Unsearched'} \cup [Ports -> {"none", "board", "stranger"}]
    BY <2>2, <1>u
  <2>6. asked' \subseteq Ports
    BY <2>1, <2>2
  <2> QED BY <2>2, <2>3, <2>4, <2>5, <2>6
<1>4. CASE Reset
  <2>1. port \in Ports /\ asked' \subseteq Ports
    BY <1>4 DEF Reset, ProbeOver
  <2>2. pc' \in {"wait", "talk"} /\ board' \in {"booting", "up", "hung"} /\ dead' = FALSE
    BY <1>4 DEF Reset, ProbeOver
  <2>3. UNCHANGED <<dev, held, still, moves, explicit, known, port, patient, searched, opens, since>>
    BY <1>4 DEF Reset
  <2>4. held' \subseteq Candidates'
    BY <2>3
  <2>5. {still', patient', dead'} \subseteq BOOLEAN
    BY <2>3, <2>2
  <2>6. searched' \in {Unsearched'} \cup [Ports -> {"none", "board", "stranger"}]
    BY <2>3, <1>u
  <2>7. opens' \in [Ports -> 0 .. 3] /\ dev' \in [Ports -> {"none", "board", "stranger"}]
    BY <2>3
  <2>8. pc' \in {"wait", "open", "probe", "talk", "idle"} /\ asked' \subseteq Ports
    BY <2>1, <2>2
  <2>9. pc' \in {"open", "probe", "talk"} => port' # None
    BY <2>1, <2>2, <2>3
  <2>10. explicit' \in Explicits /\ known' \in 0 .. N /\ port' \in 0 .. N /\ moves' \in 0 .. Moves
    BY <2>3
  <2> QED
    BY <2>2, <2>3, <2>4, <2>5, <2>6, <2>7, <2>8, <2>9, <2>10
<1>5. CASE TryAnother
  <2>1. port' \in Ports /\ port \in Ports
    <3>1. Unasked \in SUBSET Ports
      BY DEF Unasked
    <3>2. Unasked # {} /\ port' = First(Unasked) /\ pc = "probe"
      BY <1>5 DEF TryAnother, Silent, ProbeOver
    <3>3. First(Unasked) \in Unasked
      BY <3>1, <3>2, FirstIsIn
    <3>4. port \in Ports
      BY <3>2
    <3> QED
      BY <3>1, <3>2, <3>3, <3>4
  <2>2. asked' = asked \cup {port} /\ pc' = "open" /\ dead' = FALSE
    BY <1>5 DEF TryAnother
  <2>3. UNCHANGED <<dev, board, held, still, moves, explicit, known, patient, searched, opens, since>>
    BY <1>5 DEF TryAnother
  <2>4. held' \subseteq Candidates'
    BY <2>3
  <2>5. {still', patient', dead'} \subseteq BOOLEAN
    BY <2>3, <2>2
  <2>6. searched' \in {Unsearched'} \cup [Ports -> {"none", "board", "stranger"}]
    BY <2>3, <1>u
  <2>7. opens' \in [Ports -> 0 .. 3] /\ dev' \in [Ports -> {"none", "board", "stranger"}]
    BY <2>3
  <2>8. pc' \in {"wait", "open", "probe", "talk", "idle"} /\ asked' \subseteq Ports
    BY <2>1, <2>2
  <2>9. explicit' \in Explicits /\ known' \in 0 .. N /\ port' \in 0 .. N /\ port' # None /\ moves' \in 0 .. Moves
    BY <2>1, <2>3
  <2> QED
    BY <2>2, <2>3, <2>4, <2>5, <2>6, <2>7, <2>8, <2>9
<1>6. CASE ListenLonger
  <2>1. /\ NextPort(searched, TRUE).port \in 0 .. N
        /\ NextPort(searched, TRUE).patient \in BOOLEAN
        /\ NextPort(searched, TRUE).searched \in {Unsearched} \cup [Ports -> {"none", "board", "stranger"}]
    BY NextPortType
  <2> QED
    BY <1>6, <2>1 DEF ListenLonger, Silent, ProbeOver, Unsearched
<1>7. CASE GiveUp
  <2>1. dev # Unsearched
    BY <1>7, Looked DEF GiveUp, Silent, ProbeOver, Layouts
  <2> QED
    BY <1>7, <2>1, <1>u DEF GiveUp, GivenUp, Here
<1>8. CASE LookAround
  <2>1. /\ NextPort(searched, patient).port \in 0 .. N
        /\ NextPort(searched, patient).patient \in BOOLEAN
        /\ NextPort(searched, patient).searched \in {Unsearched} \cup [Ports -> {"none", "board", "stranger"}]
    BY NextPortType
  <2>2. pc = "idle" /\ searched # Unsearched /\ dev # Unsearched
    BY <1>8, Looked DEF LookAround, Layouts
  <2>3. NextPort(searched, patient).port = None => NextPort(searched, patient).searched # Unsearched
    <3>1. Candidates # {} => First(Candidates) \in Ports
      BY <1>0
    <3> QED
      BY <2>2, <3>1 DEF NextPort, Here
  <2> QED
    BY <1>8, <2>1, <2>2, <2>3, <1>u DEF LookAround, desk
<1>9. CASE Hears
  BY <1>9 DEF Hears, desk, search, Unsearched
<1>10. CASE Lost
  BY <1>10 DEF Lost, Unsearched
<1> QED
  BY <1>1, <1>2, <1>3, <1>4, <1>5, <1>6, <1>7, <1>8, <1>9, <1>10 DEF Daemon

-----------------------------------------------------------------------------
(* The board that has been up since the round began.                       *)

\* It is in its place, and the round, still quick, has not asked there.
Findable ==
  since = "up" =>
    /\ board = "up" /\ ~dead
    /\ pc # "talk" => ~patient /\ \E p \in Ports : BoardAt(p) /\ p \notin asked

\* So a silence that is to be reckoned with is some other port's.
LEMMA SilentElsewhere ==
  ASSUME SearchTypeOK, Findable, since = "up", ProbeOver, ~Heard
  PROVE  \E p \in Ports : BoardAt(p) /\ p \notin asked \cup {port}
<1>1. pc = "probe"
  BY DEF ProbeOver
<1>2. board = "up" /\ ~dead
  BY DEF Findable
<1>3. PICK p \in Ports : BoardAt(p) /\ p \notin asked
  BY <1>1 DEF Findable
<1>4. p # port
  BY <1>2, <1>3 DEF Heard, Up
<1> QED
  BY <1>3, <1>4

LEMMA FindableOfDesk ==
  ASSUME SearchTypeOK, Findable, DeskMoves
  PROVE  Findable'
<1>1. CASE Plug \/ Unplug \/ Hold \/ DaemonRestarts \/ Hang
  <2>1. since' = "no"
    BY <1>1 DEF Plug, Unplug, Hold, DaemonRestarts, Hang, Rearranged
  <2> QED
    BY <2>1 DEF Findable
<1>2. CASE Boots
  BY <1>2 DEF Boots, search, Findable
<1>3. CASE Settle
  BY <1>3 DEF Settle, search, Findable, BoardAt
<1> QED
  BY <1>1, <1>2, <1>3 DEF DeskMoves

LEMMA FindableOfDaemon ==
  ASSUME SearchTypeOK, Findable, Daemon
  PROVE  Findable'
<1> USE DEF Findable, BoardAt
<1>1. CASE WaitForPort
  BY <1>1 DEF WaitForPort, desk
<1>2. CASE Open
  <2>1. CASE asked = {} /\ ~patient
    <3>1. since' = "up" => board = "up" /\ \E p \in Ports : BoardAt(p)
      BY <1>2, <2>1 DEF Open, NewRound, Reach
    <3>2. pc = "open" /\ ~dead
      BY <1>2 DEF Open, SearchTypeOK
    <3> QED
      BY <1>2, <2>1, <3>1, <3>2 DEF Open, desk, search
  <2>2. CASE ~(asked = {} /\ ~patient)
    BY <1>2, <2>2 DEF Open, desk, search, SameRound
  <2> QED
    BY <2>1, <2>2
<1>3. CASE Answered
  BY <1>3 DEF Answered, desk
<1>4. CASE Reset
  <2>1. CASE since = "up"
    <3>1. PICK p \in Ports : BoardAt(p) /\ p \notin asked \cup {port}
      BY <1>4, <2>1, SilentElsewhere DEF Reset
    <3>2. ~BoardAt(port) /\ ~dead
      BY <1>4, <2>1 DEF Reset, Heard, Up
    <3> QED
      BY <1>4, <2>1, <3>2 DEF Reset
  <2>2. CASE since # "up"
    BY <1>4, <2>2 DEF Reset
  <2> QED
    BY <2>1, <2>2
<1>5. CASE TryAnother
  <2>1. since = "up" => \E p \in Ports : BoardAt(p) /\ p \notin asked \cup {port}
    BY <1>5, SilentElsewhere DEF TryAnother, Silent
  <2> QED
    BY <1>5, <2>1 DEF TryAnother, Silent, ProbeOver
<1>6. CASE ListenLonger \/ GiveUp
  <2>1. ProbeOver /\ ~Heard /\ Unasked = {} /\ since' = since
    BY <1>6 DEF ListenLonger, GiveUp, Silent
  <2>2. since # "up"
    BY <2>1, SilentElsewhere DEF Unasked
  <2> QED
    BY <2>1, <2>2
<1>7. CASE LookAround
  <2>1. pc = "idle" /\ pc' # "talk"
    BY <1>7 DEF LookAround
  <2>2. ~patient => ~NextPort(searched, patient).patient
    BY DEF NextPort
  <2> QED
    BY <1>7, <2>1, <2>2 DEF LookAround, desk
<1>8. CASE Hears
  BY <1>8 DEF Hears, desk, search
<1>9. CASE Lost
  BY <1>9 DEF Lost
<1> QED
  BY <1>1, <1>2, <1>3, <1>4, <1>5, <1>6, <1>7, <1>8, <1>9 DEF Daemon

-----------------------------------------------------------------------------
(* How often a port is opened under one layout.                            *)

\* A port in hand that has nothing any more is known to have gone.
GoneIsDead == pc \in {"probe", "talk"} /\ dev[port] = "none" => dead

LEMMA GoneOfDesk ==
  ASSUME SearchTypeOK, GoneIsDead, DeskMoves
  PROVE  GoneIsDead'
<1> USE DEF GoneIsDead
<1>p. pc \in {"probe", "talk"} => port \in Ports
  BY PortsAreNumbered DEF SearchTypeOK
<1>d. \A p \in Ports : \A v : [dev EXCEPT ![p] = v] = [q \in Ports |-> IF q = p THEN v ELSE dev[q]]
  BY DEF SearchTypeOK
<1>1. CASE Plug
  <2>1. UNCHANGED <<pc, port, dead>>
    BY <1>1 DEF Plug, Stir, search
  <2>2. PICK p \in Ports, v \in {"board", "stranger"} : dev' = [dev EXCEPT ![p] = v]
    BY <1>1 DEF Plug
  <2>3. port \in Ports /\ dev'[port] = "none" => dev[port] = "none"
    BY <2>2, <1>d
  <2> QED
    BY <2>1, <2>3, <1>p
<1>2. CASE Unplug
  <2>1. UNCHANGED <<pc, port>>
    BY <1>2 DEF Unplug, Stir, search
  <2>2. PICK p \in Ports : dev' = [dev EXCEPT ![p] = "none"] /\ dead' = (dead \/ (p = port /\ pc \in {"probe", "talk"}))
    BY <1>2 DEF Unplug
  <2>3. port \in Ports /\ port # p => dev'[port] = dev[port]
    BY <2>2, <1>d
  <2> QED
    BY <2>1, <2>2, <2>3, <1>p
<1>3. CASE Hold \/ DaemonRestarts \/ Hang \/ Boots \/ Settle
  BY <1>3 DEF Hold, DaemonRestarts, Hang, Boots, Settle, Stir, search
<1> QED
  BY <1>1, <1>2, <1>3 DEF DeskMoves

LEMMA GoneOfDaemon ==
  ASSUME SearchTypeOK, GoneIsDead, Daemon
  PROVE  GoneIsDead'
<1> USE DEF GoneIsDead
<1>1. CASE Open
  BY <1>1 DEF Open, desk, search
<1>2. CASE Answered \/ Reset
  BY <1>2 DEF Answered, Reset, desk, ProbeOver
<1>3. CASE WaitForPort \/ TryAnother \/ ListenLonger \/ GiveUp \/ LookAround \/ Lost
  <2>1. pc' \in {"open", "idle", "wait"}
    BY <1>3 DEF WaitForPort, TryAnother, ListenLonger, GiveUp, LookAround, Lost
  <2> QED
    BY <2>1
<1>4. CASE Hears
  BY <1>4 DEF Hears, desk, search
<1> QED
  BY <1>1, <1>2, <1>3, <1>4 DEF Daemon

Untouched == \A p \in Ports : opens[p] = 0
One(b) == IF b THEN 1 ELSE 0
Visited(p) == p \in asked \/ (pc \in {"probe", "talk"} /\ p = port)

\* Where the layout has just changed, or nothing is counted.
Anew ==
  \/ dead \/ pc = "wait" \/ held # {}
  \/ pc = "open" /\ dev[port] = "none"
  \/ pc = "idle" /\ searched # dev

\* A quick pass opens each port once, and so does the patient pass that follows it,
\* which ends with the layout noted.
Counted ==
  /\ Anew => Untouched
  /\ explicit # None => pc # "idle"
  /\ pc = "idle" => asked = {} /\ ~patient /\ \A p \in Ports : opens[p] <= 2
  /\ pc # "idle" => \A p \in Ports : opens[p] <= One(patient) + One(Visited(p))
  /\ pc = "open" => opens[port] <= One(patient)
  /\ (pc # "idle" /\ searched # Unsearched) => patient

\* Whatever sets the counters back keeps the count.
LEMMA CountedAnew ==
  ASSUME SearchTypeOK, SearchTypeOK', Untouched', (explicit # None => pc # "idle")',
         (pc = "idle" => asked = {} /\ ~patient)',
         (pc # "idle" /\ searched # Unsearched => patient)'
  PROVE  Counted'
<1>1. \A p \in Ports : opens'[p] = 0
  BY DEF Untouched
<1>2. One(patient)' \in {0, 1} /\ \A p \in Ports : One(Visited(p))' \in {0, 1}
  BY DEF One
<1>3. pc' = "open" => port' \in Ports
  BY PortsAreNumbered DEF SearchTypeOK
<1> QED
  BY <1>1, <1>2, <1>3 DEF Counted, Untouched

LEMMA CountedOfDesk ==
  ASSUME SearchTypeOK, SearchTypeOK', Counted, DeskMoves
  PROVE  Counted'
<1>1. CASE Plug \/ Unplug \/ Hold
  <2>1. Untouched'
    BY <1>1 DEF Plug, Unplug, Hold, Rearranged, Untouched
  <2>2. UNCHANGED <<explicit, pc, asked, patient, searched>> /\ Unsearched' = Unsearched
    BY <1>1 DEF Plug, Unplug, Hold, Stir, search, Unsearched
  <2> QED
    BY <2>1, <2>2, CountedAnew DEF Counted
<1>2. CASE DaemonRestarts
  <2>1. Untouched'
    BY <1>2 DEF DaemonRestarts, Rearranged, Untouched
  <2> QED
    BY <1>2, <2>1, CountedAnew DEF DaemonRestarts, Unsearched
<1>3. CASE Hang \/ Boots \/ Settle
  <2>1. UNCHANGED <<dev, held, dead, opens, explicit, pc, port, asked, patient, searched>> /\ Unsearched' = Unsearched
    BY <1>3 DEF Hang, Boots, Settle, Stir, search, Unsearched
  <2> QED
    BY <2>1 DEF Counted, Anew, Untouched, Visited, One
<1> QED
  BY <1>1, <1>2, <1>3 DEF DeskMoves

LEMMA CountedOfDaemon ==
  ASSUME SearchTypeOK, SearchTypeOK', GoneIsDead, Counted, Daemon
  PROVE  Counted'
<1>u. Unsearched' = Unsearched
  BY DEF Unsearched
<1>b. opens \in [Ports -> 0 .. 3] /\ \A b \in BOOLEAN : One(b) \in {0, 1}
  BY DEF SearchTypeOK, One
<1>1. CASE WaitForPort
  <2>1. Untouched /\ Untouched'
    BY <1>1 DEF WaitForPort, Counted, Anew, Untouched
  <2> QED
    BY <1>1, <1>u, <2>1, CountedAnew DEF WaitForPort, Counted, desk
<1>2. CASE Open
  <2>1. CASE dev[port] = "none" \/ port \in held
    <3>1. Untouched /\ Untouched'
      BY <1>2, <2>1 DEF Open, Counted, Anew, Untouched
    <3> QED
      BY <1>2, <2>1, <1>u, <3>1, CountedAnew DEF Open, Counted, desk, search
  <2>2. CASE ~(dev[port] = "none" \/ port \in held)
    <3>1. /\ pc = "open" /\ pc' = "probe" /\ port \in Ports
          /\ UNCHANGED <<dev, held, dead, explicit, port, asked, patient, searched>>
          /\ opens' = [opens EXCEPT ![port] = IF @ < 3 /\ held = {} THEN @ + 1 ELSE @]
      BY <1>2, <2>2, PortsAreNumbered DEF Open, desk, search, SearchTypeOK
    <3>2. CASE held = {}
      <4>0. One(Visited(port))' = 1
        BY <3>1 DEF One, Visited
      <4>1. opens'[port] <= One(patient) + 1
        <5>1. opens[port] <= One(patient) /\ opens[port] \in 0 .. 3 /\ One(patient) \in {0, 1}
          BY <3>1, <1>b DEF Counted, SearchTypeOK
        <5>2. opens'[port] \in {opens[port], opens[port] + 1}
          BY <3>1, <1>b
        <5> QED
          BY <5>1, <5>2
      <4>2. ASSUME NEW p \in Ports, p # port PROVE opens'[p] <= One(patient) + One(Visited(p))'
        BY <3>1, <4>2, <1>b DEF Counted, One, Visited, SearchTypeOK
      <4>3. ~dead
        BY <3>1 DEF SearchTypeOK
      <4> QED
        BY <3>1, <3>2, <4>0, <4>1, <4>2, <4>3, <1>u DEF Counted, Anew, One
    <3>3. CASE held # {}
      <4>1. Untouched'
        BY <3>1, <3>3 DEF Counted, Anew, Untouched, SearchTypeOK
      <4> QED
        BY <3>1, <4>1, <1>u, CountedAnew DEF Counted
    <3> QED
      BY <3>2, <3>3
  <2> QED
    BY <2>1, <2>2
<1>3. CASE Answered
  <2>1. pc = "probe" /\ pc' = "talk" /\ asked' = asked \cup {port}
        /\ UNCHANGED <<dev, held, dead, opens, explicit, port, patient, searched>>
    BY <1>3 DEF Answered, ProbeOver, desk
  <2>2. \A p \in Ports : Visited(p)' <=> Visited(p)
    BY <2>1 DEF Visited
  <2> QED
    BY <2>1, <2>2, <1>u DEF Counted, Anew, Untouched, One
<1>4. CASE Reset
  <2>1. pc = "probe" /\ asked' = asked \cup {port}
        /\ UNCHANGED <<dev, held, opens, explicit, port, patient, searched>>
    BY <1>4 DEF Reset, ProbeOver
  <2>2. CASE dead
    <3>1. Untouched' /\ pc' = "wait"
      BY <1>4, <2>1, <2>2 DEF Reset, Counted, Anew, Untouched
    <3> QED
      BY <2>1, <3>1, <1>u, CountedAnew DEF Counted
  <2>3. CASE ~dead
    <3>1. pc' = "talk" /\ dead' = FALSE
      BY <1>4, <2>3 DEF Reset
    <3>2. \A p \in Ports : Visited(p)' <=> Visited(p)
      BY <2>1, <3>1 DEF Visited
    <3> QED
      BY <2>1, <2>3, <3>1, <3>2, <1>u DEF Counted, Anew, Untouched, One
  <2> QED
    BY <2>2, <2>3
<1>5. CASE TryAnother
  <2>1. /\ pc = "probe" /\ pc' = "open" /\ asked' = asked \cup {port} /\ dead' = FALSE
        /\ UNCHANGED <<dev, held, opens, explicit, patient, searched>>
        /\ port' = First(Unasked) /\ Unasked # {}
    BY <1>5 DEF TryAnother, Silent, ProbeOver
  <2>2. port' \in Unasked
    BY <2>1, FirstIsIn DEF Unasked
  <2>3. \A p \in Ports : Visited(p)' <=> Visited(p)
    BY <2>1 DEF Visited
  <2>4. port' \in Ports /\ dev[port'] # "none" /\ ~Visited(port')
    BY <2>1, <2>2 DEF Unasked, Visited
  <2>5. opens[port'] <= One(patient)
    BY <2>1, <2>4, <1>b DEF Counted, One, SearchTypeOK
  <2>6. Anew' => Anew
    BY <2>1, <2>4 DEF Anew
  <2> QED
    BY <2>1, <2>3, <2>5, <2>6, <1>u DEF Counted, Untouched, One
<1>6. CASE ListenLonger
  <2>1. /\ pc = "probe" /\ pc' = "open" /\ asked' = {} /\ dead' = FALSE /\ ~patient
        /\ UNCHANGED <<dev, held, opens, explicit>> /\ explicit = None
        /\ searched' = NextPort(searched, TRUE).searched /\ patient' = NextPort(searched, TRUE).patient
        /\ port' = (IF NextPort(searched, TRUE).port = None THEN port ELSE NextPort(searched, TRUE).port)
    BY <1>6 DEF ListenLonger, Silent, ProbeOver, MayReset
  <2>2. searched = Unsearched
    BY <2>1 DEF Counted
  <2>3. \A p \in Ports : opens[p] <= 1
    BY <2>1, <1>b DEF Counted, One, SearchTypeOK
  <2>4. port \in Ports
    BY <2>1, PortsAreNumbered DEF SearchTypeOK
  <2>5. dev # Unsearched
    BY <2>4, Looked DEF SearchTypeOK, Layouts
  <2>6. patient'
    BY <2>1, <2>2, <2>5 DEF NextPort, Here
  <2>7. One(patient)' = 1 /\ \A p \in Ports : One(Visited(p))' \in {0, 1}
    BY <2>6 DEF One
  <2>8. CASE Candidates = {}
    <3>1. dev[port] = "none"
      BY <2>4, <2>8
    <3>2. Untouched'
      BY <2>1, <3>1 DEF GoneIsDead, Counted, Anew, Untouched
    <3> QED
      BY <2>1, <2>6, <3>2, <1>u, CountedAnew
  <2>9. CASE Candidates # {}
    <3>1. NextPort(searched, TRUE).port \in Candidates
      <4>1. First(Candidates) \in Candidates
        BY <2>9, FirstIsIn
      <4> QED
        BY <2>1, <2>2, <2>5, <2>9, <4>1 DEF NextPort, Here
    <3>2. port' \in Candidates
      <4>1. NextPort(searched, TRUE).port # None
        <5>1. \A p \in Candidates : p # None
          BY PortsAreNumbered
        <5> QED
          BY <3>1, <5>1, Zenon
      <4> QED
        BY <2>1, <3>1, <4>1
    <3>3. Anew' => Anew
      BY <2>1, <3>2 DEF Anew
    <3>4. ASSUME NEW p \in Ports PROVE opens'[p] <= One(patient)' + One(Visited(p))'
      <4>1. opens'[p] <= 1 /\ opens'[p] \in 0 .. 3
        BY <2>1, <2>3, <1>b
      <4>2. One(patient)' = 1 /\ One(Visited(p))' \in {0, 1}
        BY <2>7
      <4> QED
        BY <4>1, <4>2
    <3>5. port' \in Ports /\ opens'[port'] <= One(patient)'
      BY <2>1, <2>3, <2>7, <3>2, <1>b
    <3>6. Anew' => Untouched'
      BY <2>1, <3>3 DEF Counted, Untouched
    <3> QED
      BY <2>1, <2>6, <3>4, <3>5, <3>6 DEF Counted
  <2> QED
    BY <2>8, <2>9
<1>7. CASE GiveUp
  <2>1. /\ pc = "probe" /\ pc' = "idle" /\ asked' = {} /\ patient' = FALSE /\ dead' = FALSE /\ explicit = None
        /\ searched' = dev /\ UNCHANGED <<dev, held, opens, explicit>>
    BY <1>7 DEF GiveUp, GivenUp, Here, Silent, ProbeOver, MayReset
  <2>2. ASSUME NEW p \in Ports PROVE opens[p] <= 2
    <3>1. opens[p] <= One(patient) + One(Visited(p)) /\ opens[p] \in 0 .. 3
      BY <2>1, <1>b DEF Counted
    <3>2. One(patient) \in {0, 1} /\ One(Visited(p)) \in {0, 1}
      BY DEF One
    <3> QED
      BY <3>1, <3>2
  <2> QED
    BY <2>1, <2>2, <1>u DEF Counted, Anew, Untouched
<1>8. CASE LookAround
  <2>1. /\ pc = "idle" /\ UNCHANGED <<dev, held, dead, opens, explicit, asked>> /\ explicit = None
        /\ searched' = NextPort(searched, patient).searched /\ patient' = NextPort(searched, patient).patient
        /\ IF NextPort(searched, patient).port = None THEN UNCHANGED <<pc, port>>
           ELSE pc' = "open" /\ port' = NextPort(searched, patient).port
    BY <1>8 DEF LookAround, desk, Counted
  <2>2. ~patient /\ ~patient' /\ asked = {}
    BY <2>1 DEF Counted, NextPort
  <2>3. CASE searched = dev
    BY <2>1, <2>2, <2>3, <1>u DEF Counted, Anew, Untouched, NextPort, Here
  <2>4. CASE searched # dev
    <3>1. Untouched'
      BY <2>1, <2>4 DEF Counted, Anew, Untouched
    <3>2. NextPort(searched, patient).port # None => searched' = Unsearched
      BY <2>1, <2>4 DEF NextPort, Here
    <3> QED
      BY <2>1, <2>2, <3>1, <3>2, <1>u, CountedAnew
  <2> QED
    BY <2>3, <2>4
<1>9. CASE Hears
  BY <1>9, <1>u DEF Hears, desk, search, Counted, Anew, Untouched, Visited, One
<1>10. CASE Lost
  <2>1. Untouched'
    BY <1>10 DEF Lost, Counted, Anew, Untouched
  <2> QED
    BY <1>10, <2>1, <1>u, CountedAnew DEF Lost
<1> QED
  BY <1>1, <1>2, <1>3, <1>4, <1>5, <1>6, <1>7, <1>8, <1>9, <1>10 DEF Daemon

-----------------------------------------------------------------------------
(* Every reachable state.                                                  *)

SearchInv == SearchTypeOK /\ Findable /\ GoneIsDead /\ Counted

LEMMA SearchInvInit == SearchInit => SearchInv
<1> SUFFICES ASSUME SearchInit PROVE SearchInv
  OBVIOUS
<1>1. SearchTypeOK
  BY TypeInit
<1>2. Findable /\ GoneIsDead
  BY DEF SearchInit, Findable, GoneIsDead
<1>3. Counted
  BY DEF SearchInit, Counted, Anew, Untouched, Visited, One
<1> QED
  BY <1>1, <1>2, <1>3 DEF SearchInv

\* The strengthened invariant holds at first and is kept by every step of desk and daemon.
THEOREM SearchInductive == SearchInv /\ [SearchNext]_searchVars => SearchInv'
<1> SUFFICES ASSUME SearchInv, [SearchNext]_searchVars PROVE SearchInv'
  OBVIOUS
<1>1. CASE DeskMoves
  BY <1>1, TypeOfDesk, FindableOfDesk, GoneOfDesk, CountedOfDesk DEF SearchInv
<1>2. CASE Daemon
  BY <1>2, TypeOfDaemon, FindableOfDaemon, GoneOfDaemon, CountedOfDaemon DEF SearchInv
<1>3. CASE UNCHANGED searchVars
  BY <1>3 DEF searchVars, desk, search, SearchInv, SearchTypeOK, Findable, GoneIsDead, Counted, Anew, Untouched, Visited,
              One, BoardAt, Unsearched
<1> QED
  BY <1>1, <1>2, <1>3 DEF SearchNext, DeskMoves

\* The strengthened invariant holds in every reachable state.
THEOREM SearchInvariance == SearchSpec => []SearchInv
BY SearchInvInit, SearchInductive, PTL DEF SearchSpec

\* Every variable of desk and daemon keeps its type, for any number of ports.
THEOREM SearchTypeCorrect == SearchSpec => []SearchTypeOK
<1>1. SearchInv => SearchTypeOK
  BY DEF SearchInv
<1> QED
  BY <1>1, SearchInvariance, PTL

\* While nothing is plugged or unplugged, each port is opened twice at most, for any
\* number of ports: next_port and `asked' leave no circle to go round in.
THEOREM AskedTwiceAtMost == SearchSpec => []AskedOnce
<1>1. SearchInv => AskedOnce
  <2> SUFFICES ASSUME SearchInv, NEW p \in Ports PROVE opens[p] <= 2
    BY DEF AskedOnce
  <2>1. One(patient) \in {0, 1} /\ One(Visited(p)) \in {0, 1} /\ opens[p] \in 0 .. 3
    BY DEF One, SearchInv, SearchTypeOK
  <2>2. opens[p] <= 2 \/ opens[p] <= One(patient) + One(Visited(p))
    BY DEF SearchInv, Counted
  <2> QED
    BY <2>1, <2>2
<1> QED
  BY <1>1, SearchInvariance, PTL

\* A board that is only still booting is never reset for being silent: the patient
\* probe that may_reset_port asks for outlasts the boot.
THEOREM BootsInPeace == SearchSpec => NoBootLoop
<1>1. SearchInv /\ [SearchNext]_searchVars => [(Reset /\ ~dead /\ BoardAt(port) /\ explicit = None) => board = "hung"]_searchVars
  <2> SUFFICES ASSUME SearchInv, Reset, ~dead, BoardAt(port), explicit = None PROVE board = "hung"
    OBVIOUS
  <2>1. patient /\ board # "up"
    BY DEF Reset, MayReset, Heard, Up
  <2>2. board # "booting"
    BY <2>1 DEF Reset, ProbeOver
  <2> QED
    BY <2>1, <2>2 DEF SearchInv, SearchTypeOK
<1> QED
  BY <1>1, SearchInvariance, PTL DEF SearchSpec, NoBootLoop

\* No one else's device is reset while the board could have been found since the
\* search began.
THEOREM OthersSpared == SearchSpec => SparedWhileUp
<1>1. SearchInv /\ [SearchNext]_searchVars => [(Reset /\ ~dead /\ dev[port] = "stranger" /\ explicit = None) => since # "up"]_searchVars
  <2> SUFFICES ASSUME SearchInv, Reset, explicit = None PROVE since # "up"
    OBVIOUS
  <2>1. patient /\ pc = "probe"
    BY DEF Reset, MayReset, ProbeOver
  <2> QED
    BY <2>1 DEF SearchInv, Findable
<1> QED
  BY <1>1, SearchInvariance, PTL DEF SearchSpec, SparedWhileUp

=============================================================================
