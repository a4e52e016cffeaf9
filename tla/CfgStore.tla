------------------------------ MODULE CfgStore ------------------------------
(***************************************************************************)
(* The board's configuration store, firmware/src/cfg_store.c: one record,  *)
(* kept twice.  A save raises the sequence number, erases the sector the   *)
(* current record is NOT in, writes the record there, and only then makes  *)
(* that sector current; at boot the valid record with the highest number   *)
(* wins.  Power may go at any point, and an erase or a write may fail.     *)
(*                                                                         *)
(* A record is abstracted to                                               *)
(*   conf     what the user sets (mode, network, token, brightness, ...),  *)
(*            one function from Fields to Values; Zero is what memset and  *)
(*            a field absent from an older layout leave;                   *)
(*   edition, locked   the stamp of the enclosure and its one-way latch;   *)
(*            the byte that says nothing is also that of one edition, so   *)
(*            that only the latch tells a stamped unit from a blank one.   *)
(* A sector holds a record in some layout, or Blank: erased, torn, or      *)
(* anything else whose checksum fails.  Flash reads do not fail here, and  *)
(* cfg_lock serialises the operations, so one of them runs at a time.      *)
(***************************************************************************)
EXTENDS Naturals

CONSTANTS Fields, Values, Zero,
          Editions,     \* the editions a unit can be stamped with
          EditionBytes, \* the bytes a caller may ask to be stamped
          Unset,        \* the edition byte of an unstamped record, which is CFG_EDITION_CLAUDE's
          FirstSeqs,    \* sequence numbers of records found at power-on
          MaxSeq        \* bound on the sequence number

ASSUME ConfAssumption == Zero \in Values
ASSUME EditionAssumption == Unset \in Editions
ASSUME SeqAssumption == FirstSeqs \subseteq Nat /\ MaxSeq \in Nat

VARIABLES slot,     \* the two sectors
          ram,      \* cfg, the copy in memory
          cur,      \* cur_slot
          pc,       \* where the running operation is; "off" without power
          op,       \* which operation that is
          was,      \* was_edition, cfg_set_edition's undo
          acked,    \* history: the content last reported as stored
          reset     \* history: how the last factory reset went

storeVars == <<slot, ram, cur, pc, op, was, acked, reset>>

Conf == [Fields -> Values]
NoConf == [f \in Fields |-> Zero]

Rec == [seq : Nat, conf : Conf, edition : Editions, locked : BOOLEAN]
Content == [conf : Conf, edition : Editions, locked : BOOLEAN]
Empty == [seq |-> 0, conf |-> NoConf, edition |-> Unset, locked |-> FALSE]

Layouts == {"current", "pre_dark", "pre_lock", "pre_edition", "pre_src", "legacy"}
Blank == [layout |-> "blank", rec |-> Empty]
Image == [layout : Layouts, rec : Rec]

Slots == {"A", "B"}
Other(s) == IF s = "A" THEN "B" ELSE "A"

-----------------------------------------------------------------------------
(* Boot: slot_load and cfg_init.                                           *)

Valid(img) == img.layout # "blank"

\* Records from just before the latch arrive latched; older ones do not.
Loaded(img) == IF img.layout \in {"pre_lock", "pre_edition"}
                 THEN [img.rec EXCEPT !.locked = TRUE] ELSE img.rec

\* The sector cfg_init makes current, "none" if neither holds a record.
BootSlot(s) ==
  LET A == Loaded(s["A"])  B == Loaded(s["B"])
  IN  IF Valid(s["A"]) /\ (Valid(s["B"]) => A.seq >= B.seq) THEN "A"
      ELSE IF Valid(s["B"]) THEN "B" ELSE "none"

BootRec(s) == IF BootSlot(s) = "none" THEN Empty ELSE Loaded(s[BootSlot(s)])

Stored(r) == [conf |-> r.conf, edition |-> r.edition, locked |-> r.locked]

\* What the layouts can hold: no edition before the edition, no latch before
\* the latch, and an edition never sealed without its latch after it.
Plausible(img) ==
  /\ img.layout \in {"pre_edition", "pre_src", "legacy"} => img.rec.edition = Unset
  /\ img.layout \in Layouts \ {"current", "pre_dark"} => ~img.rec.locked
  /\ img.layout \in {"current", "pre_dark"} /\ img.rec.edition # Unset => img.rec.locked

StoreInit == /\ slot \in [Slots -> {Blank} \cup
                          {img \in [layout : Layouts,
                                    rec : [seq : FirstSeqs, conf : Conf,
                                           edition : Editions, locked : BOOLEAN]] :
                             Plausible(img)}]
             /\ Valid(slot["A"]) /\ Valid(slot["B"]) =>
                  slot["A"].rec.seq # slot["B"].rec.seq
             /\ ram = Empty /\ cur = "none" /\ pc = "off" /\ op = "none" /\ was = Unset
             /\ acked = Stored(BootRec(slot))
             /\ reset = "clean"

Boot == /\ pc = "off"
        /\ pc' = "idle"
        /\ ram' = BootRec(slot)
        /\ cur' = BootSlot(slot)
        /\ acked' = IF reset = "dirty" THEN Stored(BootRec(slot)) ELSE acked
        /\ UNCHANGED <<slot, op, was, reset>>

PowerCut == /\ pc # "off"
            /\ pc' = "off"
            /\ ram' = Empty /\ cur' = "none" /\ op' = "none" /\ was' = Unset
            /\ reset' = IF reset = "busy" THEN "dirty" ELSE reset
            /\ UNCHANGED <<slot, acked>>

-----------------------------------------------------------------------------
(* persist(): the number is raised in memory before anything is written.   *)

Numbered(r) == [r EXCEPT !.seq = @ + 1]

\* Mutant: saves over the sector the current record is in.
TargetInPlace == IF cur = "B" THEN "B" ELSE "A"

Target == IF cur = "A" THEN "B" ELSE "A"

\* Mutant: the undo of a stamp lifts the latch and leaves the edition.
UndoLatchOnly(r) == [r EXCEPT !.locked = FALSE]

\* cfg_set_edition's undo of a stamp whose save failed.
UndoStamp(r) == [r EXCEPT !.edition = was, !.locked = FALSE]

\* What follows a flash operation that failed: the caller gets the error.
\* Only cfg_set_edition undoes its change in memory.  cfg_reset ignores it.
GiveUp == /\ pc' = "idle"
          /\ ram' = IF op = "stamp" THEN UndoStamp(ram) ELSE ram
          /\ reset' = IF op = "reset" THEN "dirty" ELSE reset
          /\ op' = "none" /\ was' = Unset

Erase == /\ pc = "erase"
         /\ slot' = [slot EXCEPT ![Target] = Blank]
         /\ pc' = "write"
         /\ UNCHANGED <<ram, cur, op, was, acked, reset>>

EraseFails == /\ pc = "erase"
              /\ \E img \in {slot[Target], Blank} : slot' = [slot EXCEPT ![Target] = img]
              /\ GiveUp
              /\ UNCHANGED <<cur, acked>>

Write == /\ pc = "write"
         /\ slot' = [slot EXCEPT ![Target] = [layout |-> "current", rec |-> ram]]
         /\ cur' = Target
         /\ pc' = "idle" /\ op' = "none" /\ was' = Unset
         /\ acked' = Stored(ram)
         /\ reset' = IF op = "reset" /\ reset = "busy" THEN "clean" ELSE reset
         /\ UNCHANGED ram

WriteFails == /\ pc = "write"
              /\ GiveUp
              /\ UNCHANGED <<slot, cur, acked>>

-----------------------------------------------------------------------------
(* The operations.                                                         *)

\* cfg_set_mode, _wifi, _token, _main_src, ..., cfg_clear_token, _wifi: the
\* field is changed in memory and stays changed if the save then fails.
SetField(f, v) ==
  /\ pc = "idle" /\ ram.seq < MaxSeq
  /\ ram' = Numbered([ram EXCEPT !.conf[f] = v])
  /\ pc' = "erase" /\ op' = "set"
  /\ UNCHANGED <<slot, cur, was, acked, reset>>

\* Mutant: without the latch check.
MayStampAgain(e) == e \in Editions

\* cfg_set_edition refuses an unknown edition with -EINVAL, and any once the
\* record is latched with -EPERM.
MayStamp(e) == e \in Editions /\ ~ram.locked

\* cfg_set_edition, once it may.
SetEdition(e) ==
  /\ pc = "idle" /\ ram.seq < MaxSeq
  /\ MayStamp(e)
  /\ was' = ram.edition
  /\ ram' = Numbered([ram EXCEPT !.edition = e, !.locked = TRUE])
  /\ pc' = "erase" /\ op' = "stamp"
  /\ UNCHANGED <<slot, cur, acked, reset>>

\* cfg_reset: everything but the stamp is zeroed, the sequence number too.
Reset ==
  /\ pc = "idle"
  /\ ram' = [Empty EXCEPT !.edition = ram.edition, !.locked = ram.locked]
  /\ pc' = "wipeA" /\ op' = "reset"
  /\ reset' = "busy"
  /\ UNCHANGED <<slot, cur, was, acked>>

WipeA == /\ pc = "wipeA"
         /\ \/ slot' = [slot EXCEPT !["A"] = Blank] /\ UNCHANGED reset
            \/ reset' = "dirty" /\ UNCHANGED slot
         /\ pc' = "wipeB"
         /\ UNCHANGED <<ram, cur, op, was, acked>>

\* Both erases are done, with or without success; the stamp, if there is
\* one, is saved again at once.
WipeB == /\ pc = "wipeB"
         /\ cur' = "none"
         /\ LET done == IF reset = "busy" THEN "clean" ELSE reset
            IN  \/ /\ slot' = [slot EXCEPT !["B"] = Blank]
                   /\ reset' = IF ram.locked THEN reset ELSE done
                   /\ acked' = IF ram.locked THEN acked ELSE Stored(ram)
                \/ /\ reset' = "dirty"
                   /\ UNCHANGED <<slot, acked>>
         /\ IF ram.locked
              THEN pc' = "erase" /\ op' = op /\ ram' = Numbered(ram)
              ELSE pc' = "idle" /\ op' = "none" /\ ram' = ram
         /\ UNCHANGED was

StoreNext == \/ Boot \/ PowerCut
             \/ Erase \/ EraseFails \/ Write \/ WriteFails
             \/ \E f \in Fields, v \in Values : SetField(f, v)
             \/ \E e \in EditionBytes : SetEdition(e)
             \/ Reset \/ WipeA \/ WipeB

StoreSpec == StoreInit /\ [][StoreNext]_storeVars

-----------------------------------------------------------------------------
StoreTypeOK == /\ slot \in [Slots -> Image \cup {Blank}]
               /\ ram \in Rec
               /\ cur \in Slots \cup {"none"}
               /\ pc \in {"off", "idle", "erase", "write", "wipeA", "wipeB"}
               /\ op \in {"none", "set", "stamp", "reset"}
               /\ was \in Editions
               /\ acked \in Content
               /\ reset \in {"clean", "busy", "dirty"}

\* Whatever was last reported as stored is what a boot would find, in every
\* state a power cut can strike: between the erase and the write, after a
\* save that failed, after a stamp that was undone.  Only a factory reset,
\* while it runs or once one went wrong, is excepted.  (persist's two slots,
\* cfg_set_token's "only report success once it is durable".)
DurableOnSuccess == reset = "clean" => Stored(BootRec(slot)) = acked

\* No boot ever finds an edition other than a blank unit's without its latch: a
\* stamp whose save failed leaves nothing in memory that a later, unrelated save
\* could seal (cfg_set_edition's undo of BOTH fields).  The layouts before the
\* latch are read as latched.
StampIsWhole == BootRec(slot).edition # Unset => BootRec(slot).locked

\* A stamp reported as stored stays, through every setter, failed save, power
\* cut and boot, and through a factory reset that ends well (cfg_reset's
\* carried edition).
StampOnce == [][reset # "dirty" /\ acked.locked
                  => acked'.locked /\ acked'.edition = acked.edition]_storeVars

\* Between operations the current sector holds the newest valid record, so
\* that the next save erases the other one.
CurIsNewest == pc \notin {"off", "wipeA", "wipeB"} /\ reset = "clean" => cur = BootSlot(slot)

\* The store implements the record it promises.
Abstract == INSTANCE StoredRecord WITH
              Conf <- Conf, NoConf <- NoConf, Editions <- Editions,
              mem <- IF pc = "off" THEN Stored(BootRec(slot)) ELSE Stored(ram),
              disk <- Stored(BootRec(slot)),
              reset <- reset

ImplementsStoredRecord == Abstract!Spec
=============================================================================
