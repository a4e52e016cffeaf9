---------------------------- MODULE StoredRecord ----------------------------
(***************************************************************************)
(* What the board's configuration store promises its callers, with the two *)
(* flash sectors, the sequence numbers and the erase-then-write left out:  *)
(* one record in memory (mem) and the one a power cut leaves behind (disk).*)
(*                                                                         *)
(*   - a change reaches the durable record whole or not at all;            *)
(*   - a power cut costs at most what was never sealed;                    *)
(*   - an edition whose latch is durable is never changed again, by a      *)
(*     factory reset that ends well either.                                *)
(*                                                                         *)
(* A factory reset promises nothing of the durable record while it runs    *)
(* ("busy"), nor afterwards if it was cut or a flash operation failed in   *)
(* it ("dirty").  CfgStore implements this specification.                  *)
(***************************************************************************)
CONSTANTS Conf,        \* the values of everything the user sets
          NoConf,      \* the value a factory reset leaves
          Editions     \* the edition byte, the unset one included

VARIABLES mem, disk, reset

vars == <<mem, disk, reset>>

Content == [conf : Conf, edition : Editions, locked : BOOLEAN]

Init == /\ mem \in Content
        /\ disk = mem
        /\ reset = "clean"

KeepsStamp(r, s) == r.locked => s.locked /\ s.edition = r.edition

\* A setter writes the copy in memory; nothing is promised of it yet.
Change == /\ reset = "clean"
          /\ mem' \in Content
          /\ KeepsStamp(disk, mem')
          /\ UNCHANGED <<disk, reset>>

\* The durable record becomes the one in memory, all of it at once.
Seal == /\ reset = "clean"
        /\ disk' = mem
        /\ UNCHANGED <<mem, reset>>

\* A power cut, and the boot after it: memory is what was durable.
Cut == /\ reset = "clean"
       /\ mem' = disk
       /\ UNCHANGED <<disk, reset>>

StartReset == /\ reset # "busy"
              /\ reset' = "busy"
              /\ mem' = [mem EXCEPT !.conf = NoConf]
              /\ UNCHANGED disk

Erasing == /\ reset = "busy"
           /\ disk' \in Content
           /\ UNCHANGED <<mem, reset>>

EndReset == /\ reset = "busy"
            /\ reset' = "clean"
            /\ disk' = mem
            /\ UNCHANGED mem

\* The reset is cut, or a flash operation fails in it.
GoWrong == /\ reset = "busy"
           /\ reset' = "dirty"
           /\ mem' \in Content
           /\ disk' \in Content

Unreliable == /\ reset = "dirty"
              /\ mem' \in Content
              /\ disk' \in Content
              /\ UNCHANGED reset

Next == \/ Change \/ Seal \/ Cut
        \/ StartReset \/ Erasing \/ EndReset \/ GoWrong \/ Unreliable

Spec == Init /\ [][Next]_vars
=============================================================================
