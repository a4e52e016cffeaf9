----------------------------- MODULE BoardProof -----------------------------
(***************************************************************************)
(* What holds of what the board keeps, for any values of the constants:    *)
(* of its configuration store (CfgStore) and of the Wi-Fi mode that lives  *)
(* by it (Standalone).  The one is proved where the other needs it: each   *)
(* assignment to `flash` in Standalone is a save of CfgStore, atomic       *)
(* because what was last reported as stored is what a boot finds.          *)
(*                                                                         *)
(* The store: type correctness, the durability of what was reported as     *)
(* stored, and the one-way latch of the edition.  The inductive invariant  *)
(* says where the current record is in every state of a save, what the     *)
(* undo value can be, and that the stamp in memory is the acknowledged one *)
(* except while a first stamp is being saved.                              *)
(*                                                                         *)
(* The Wi-Fi mode: types, and that the login is kept.                      *)
(***************************************************************************)
EXTENDS CfgStore, Standalone, TLAPS

-----------------------------------------------------------------------------
(* The configuration store.                                                *)


Saving == pc \in {"erase", "write"}

OpInv ==
  /\ pc = "off" \/ pc = "idle" => op = "none"
  /\ pc \in {"wipeA", "wipeB"} => op = "reset"
  /\ Saving => op # "none"
  /\ reset = "clean" => op # "reset"
  /\ reset = "busy" => op = "reset"

\* An edition is never without its latch, in memory or on flash, so that the
\* only value cfg_set_edition can have to restore is Unset.
LatchInv ==
  /\ was = Unset
  /\ ram.edition # Unset => ram.locked
  /\ \A s \in Slots : slot[s].rec.edition # Unset => Loaded(slot[s]).locked

\* Of the two sectors s, c holds the newest record.
NewestIn(s, c) == /\ Valid(s[c])
                  /\ Valid(s[Other(c)]) => s[Other(c)].rec.seq < s[c].rec.seq

Newest(c) == NewestIn(slot, c)

NothingIn(s) == \A c \in Slots : s[c] = Blank

NothingStored == NothingIn(slot)

SlotInv ==
  /\ reset = "clean" /\ pc # "off" =>
       /\ cur \in Slots => /\ Newest(cur)
                           /\ slot[cur].rec.seq <= ram.seq
                           /\ Saving => slot[cur].rec.seq < ram.seq
       /\ cur = "none" => NothingStored
  /\ reset = "clean" /\ pc = "off" => NothingStored \/ Newest("A") \/ Newest("B")
  /\ reset = "busy" /\ pc = "wipeB" => slot["A"] = Blank
  /\ reset = "busy" /\ Saving => cur = "none" /\ NothingStored

StampInv ==
  /\ pc # "off" /\ op # "stamp" => /\ ram.edition = acked.edition
                                   /\ ram.locked = acked.locked
  /\ op = "stamp" => ~acked.locked /\ acked.edition = Unset

\* Until its stamp is saved, a reset holds an empty record and the stamp.
WipeInv == pc \in {"wipeA", "wipeB"} => ram.conf = NoConf

StoreInv == StoreTypeOK /\ OpInv /\ LatchInv /\ SlotInv /\ StampInv /\ WipeInv /\ DurableOnSuccess
-----------------------------------------------------------------------------
Sectors == [Slots -> Image \cup {Blank}]

\* What is empty is typed: the record that memset leaves, and a blank sector.
LEMMA EmptyTyped == Empty \in Rec /\ Blank.rec = Empty /\ ~Valid(Blank)
  BY ConfAssumption, EditionAssumption DEF Empty, Rec, NoConf, Conf, Blank, Valid

\* slot_load migrates a record into a record, whatever its layout, and keeps
\* its number, its edition and what the user set.
LEMMA LoadTyped ==
  ASSUME NEW im \in Image \cup {Blank}
  PROVE  /\ im.rec \in Rec /\ Loaded(im) \in Rec
         /\ Loaded(im).seq = im.rec.seq
         /\ Loaded(im).edition = im.rec.edition
  <1>1. im.rec \in Rec  BY EmptyTyped DEF Image
  <1>2. QED  BY <1>1 DEF Loaded, Rec

\* cfg_init finds a record or nothing.
LEMMA BootTyped ==
  ASSUME NEW s \in Sectors
  PROVE  BootSlot(s) \in Slots \cup {"none"} /\ BootRec(s) \in Rec
                                             /\ Stored(BootRec(s)) \in Content
  <1>1. BootSlot(s) \in Slots \cup {"none"}  BY DEF BootSlot, Slots
  <1>2. BootRec(s) \in Rec
    BY <1>1, EmptyTyped, LoadTyped DEF BootRec, Sectors
  <1>3. QED  BY <1>1, <1>2 DEF Stored, Rec, Content

\* cfg_init picks the sector with the higher number.
LEMMA BootNewest ==
  ASSUME NEW s \in Sectors, NEW c \in Slots, NewestIn(s, c)
  PROVE  BootSlot(s) = c /\ BootRec(s) = Loaded(s[c])
  <1>1. /\ s["A"] \in Image \cup {Blank} /\ s["B"] \in Image \cup {Blank}
    BY DEF Sectors, Slots
  <1>2. /\ Loaded(s["A"]).seq = s["A"].rec.seq /\ s["A"].rec.seq \in Nat
        /\ Loaded(s["B"]).seq = s["B"].rec.seq /\ s["B"].rec.seq \in Nat
    BY <1>1, LoadTyped DEF Rec
  <1>3. BootSlot(s) = c
    <2>1. CASE c = "A"  BY <2>1, <1>2 DEF NewestIn, BootSlot, Other
    <2>2. CASE c = "B"  BY <2>2, <1>2 DEF NewestIn, BootSlot, Other
    <2>3. QED  BY <2>1, <2>2 DEF Slots
  <1>4. QED  BY <1>3 DEF BootRec, Slots

\* Two blank sectors boot to the record that memset leaves.
LEMMA BootNothing ==
  ASSUME NEW s, NothingIn(s)
  PROVE  BootSlot(s) = "none" /\ BootRec(s) = Empty
  BY EmptyTyped DEF NothingIn, Slots, BootSlot, BootRec

\* What counts as stored of a record is the content of that record.
LEMMA Saved ==
  ASSUME NEW r \in Rec
  PROVE  /\ [layout |-> "current", rec |-> r] \in Image
         /\ Valid([layout |-> "current", rec |-> r])
         /\ Loaded([layout |-> "current", rec |-> r]) = r
         /\ Stored(r) \in Content
  BY DEF Image, Layouts, Valid, Loaded, Stored, Content, Rec

-----------------------------------------------------------------------------
\* Whatever records a boot may find, the board without power is in order.
LEMMA InitIInv == StoreInit => StoreInv
  <1> SUFFICES ASSUME StoreInit PROVE StoreInv
    OBVIOUS
  <1>1. slot \in Sectors
    BY SeqAssumption DEF StoreInit, Sectors, Image, Rec
  <1>2. BootRec(slot) \in Rec /\ acked \in Content
    BY <1>1, BootTyped DEF StoreInit
  <1>3. StoreTypeOK
    BY <1>1, <1>2, EmptyTyped, EditionAssumption DEF StoreInit, StoreTypeOK, Sectors
  <1>4. OpInv
    BY DEF StoreInit, OpInv, Saving
  <1>5. LatchInv
    <2>1. ASSUME NEW c \in Slots, slot[c].rec.edition # Unset
          PROVE  Loaded(slot[c]).locked
      <3>1. CASE slot[c] = Blank  BY <3>1, <2>1 DEF Blank, Empty
      <3>2. CASE slot[c] # Blank
        <4>1. slot[c] \in Image /\ Plausible(slot[c])
          BY <3>2, <1>1 DEF StoreInit, Sectors
        <4>2. slot[c].layout \in {"pre_lock", "pre_edition"} \/ slot[c].rec.locked
          BY <4>1, <2>1 DEF Plausible, Image, Layouts
        <4>3. slot[c].rec \in Rec  BY <4>1 DEF Image
        <4>4. QED  BY <4>2, <4>3 DEF Loaded, Rec
      <3>3. QED  BY <3>1, <3>2
    <2>2. QED  BY <2>1 DEF LatchInv, StoreInit, Empty
  <1>6. SlotInv
    <2>1. slot["A"] \in Image \cup {Blank} /\ slot["B"] \in Image \cup {Blank}
      BY <1>1 DEF Sectors, Slots
    <2>2. slot["A"].rec.seq \in Nat /\ slot["B"].rec.seq \in Nat
      BY <2>1, LoadTyped DEF Rec
    <2>3. NothingStored \/ Newest("A") \/ Newest("B")
      <3>1. CASE ~Valid(slot["A"]) /\ ~Valid(slot["B"])
        BY <3>1, <2>1 DEF NothingStored, NothingIn, Valid, Image, Layouts, Slots
      <3>2. CASE Valid(slot["A"]) /\ (Valid(slot["B"]) => slot["B"].rec.seq < slot["A"].rec.seq)
        BY <3>2 DEF Newest, NewestIn, Other
      <3>3. CASE Valid(slot["B"]) /\ (Valid(slot["A"]) => slot["A"].rec.seq < slot["B"].rec.seq)
        BY <3>3 DEF Newest, NewestIn, Other
      <3>4. QED  BY <2>2, <3>1, <3>2, <3>3 DEF StoreInit
    <2>4. QED  BY <2>3 DEF SlotInv, StoreInit, Saving
  <1>7. StampInv /\ WipeInv /\ DurableOnSuccess
    BY DEF StoreInit, StampInv, WipeInv, DurableOnSuccess
  <1>8. QED  BY <1>3, <1>4, <1>5, <1>6, <1>7 DEF StoreInv

\* The current sector, after a clean run of operations, is the one a boot finds.
LEMMA CurrentBoots ==
  ASSUME StoreInv, reset = "clean", pc # "off"
  PROVE  cur = BootSlot(slot) /\ (cur = "none" => BootRec(slot) = Empty)
  <1>1. slot \in Sectors /\ cur \in Slots \cup {"none"}
    BY DEF StoreInv, StoreTypeOK, Sectors
  <1>2. CASE cur = "none"
    BY <1>2, BootNothing DEF StoreInv, SlotInv, NothingStored
  <1>3. CASE cur \in Slots
    <2>1. NewestIn(slot, cur)  BY <1>3 DEF StoreInv, SlotInv, Newest
    <2>2. QED  BY <1>1, <1>3, <2>1, BootNewest DEF Slots
  <1>4. QED  BY <1>1, <1>2, <1>3

\* A save never goes to the sector in use (persist).
LEMMA TargetIsOther ==
  ASSUME cur \in Slots \cup {"none"}
  PROVE  /\ Target \in Slots /\ Target # cur
         /\ cur \in Slots => Other(cur) = Target /\ Other(Target) = cur
         /\ cur = "none" => Target = "A"
  BY DEF Target, Slots, Other

\* cfg_init: what it reads becomes the copy in memory.
LEMMA BootStep == StoreInv /\ Boot => StoreInv'
  <1> SUFFICES ASSUME StoreInv, Boot PROVE StoreInv'
    OBVIOUS
  <1>1. slot \in Sectors  BY DEF StoreInv, StoreTypeOK, Sectors
  <1>2. BootRec(slot) \in Rec /\ BootSlot(slot) \in Slots \cup {"none"}
        /\ Stored(BootRec(slot)) \in Content
    BY <1>1, BootTyped
  <1>3. StoreTypeOK'  BY <1>2 DEF StoreInv, StoreTypeOK, Boot
  <1>4. OpInv'  BY DEF StoreInv, OpInv, Boot, Saving
  <1>5. LatchInv'
    <2>1. CASE BootSlot(slot) = "none"
      BY <2>1 DEF StoreInv, LatchInv, Boot, BootRec, Empty
    <2>2. CASE BootSlot(slot) \in Slots
      <3>1. BootRec(slot) = Loaded(slot[BootSlot(slot)])  BY <2>2 DEF BootRec, Slots
      <3>2. slot[BootSlot(slot)] \in Image \cup {Blank}  BY <2>2, <1>1 DEF Sectors
      <3>3. QED  BY <3>1, <3>2, <2>2, LoadTyped DEF StoreInv, LatchInv, Boot
    <2>3. QED  BY <1>2, <2>1, <2>2
  <1>6. SlotInv'
    <2>1. CASE reset = "clean"
      <3>1. CASE NothingStored
        <4>1. cur' = "none"  BY <3>1, BootNothing DEF Boot, NothingStored
        <4>2. QED
          BY <4>1, <3>1, <2>1 DEF SlotInv, Boot, Saving, NothingStored, Slots
      <3>2. ASSUME NEW c \in Slots, Newest(c) PROVE SlotInv'
        <4>1. cur' = c /\ ram' = Loaded(slot[c])
          BY <3>2, <1>1, BootNewest DEF Boot, Newest
        <4>2. slot[c] \in Image \cup {Blank}  BY <1>1 DEF Sectors
        <4>3. ram'.seq = slot'[cur'].rec.seq /\ ram'.seq \in Nat
          BY <4>1, <4>2, LoadTyped DEF Boot, Rec
        <4>4. Newest(c)'  BY <3>2 DEF Boot, Newest, NewestIn
        <4>5. QED
          BY <4>1, <4>3, <4>4, <2>1 DEF SlotInv, Boot, Saving, Slots
      <3>3. QED  BY <2>1, <3>1, <3>2 DEF StoreInv, SlotInv, Boot, Slots
    <2>2. CASE reset # "clean"
      BY <2>2 DEF SlotInv, Boot, Saving
    <2>3. QED  BY <2>1, <2>2
  <1>7. StampInv'
    <2>1. op = "none" /\ reset # "busy"  BY DEF StoreInv, OpInv, Boot
    <2>2. acked' = Stored(BootRec(slot))
      BY <2>1 DEF StoreInv, StoreTypeOK, DurableOnSuccess, Boot
    <2>3. QED  BY <2>1, <2>2 DEF StampInv, Boot, Stored
  <1>8. WipeInv' /\ DurableOnSuccess'
    BY DEF StoreInv, WipeInv, DurableOnSuccess, Boot
  <1>9. QED  BY <1>3, <1>4, <1>5, <1>6, <1>7, <1>8 DEF StoreInv

\* A power cut leaves the sectors as they are.
LEMMA PowerCutStep == StoreInv /\ PowerCut => StoreInv'
  <1> SUFFICES ASSUME StoreInv, PowerCut PROVE StoreInv'
    OBVIOUS
  <1>1. StoreTypeOK'  BY EmptyTyped, EditionAssumption DEF StoreInv, StoreTypeOK, PowerCut
  <1>2. OpInv'  BY DEF StoreInv, StoreTypeOK, OpInv, PowerCut, Saving
  <1>3. LatchInv'  BY DEF StoreInv, LatchInv, PowerCut, Empty
  <1>4. SlotInv'
    <2>1. ASSUME reset = "clean"
          PROVE  NothingStored \/ Newest("A") \/ Newest("B")
      BY <2>1 DEF StoreInv, StoreTypeOK, SlotInv, PowerCut, Slots
    <2>2. QED
      BY <2>1 DEF StoreInv, StoreTypeOK, SlotInv, PowerCut, Saving, Newest, NewestIn,
                  NothingStored, NothingIn
  <1>5. StampInv' /\ WipeInv' /\ DurableOnSuccess'
    BY DEF StoreInv, StampInv, WipeInv, DurableOnSuccess, PowerCut
  <1>6. QED  BY <1>1, <1>2, <1>3, <1>4, <1>5 DEF StoreInv

\* Blanking the sector the next save goes to leaves the newest record, and
\* so what a boot finds, where it is.
LEMMA BlankTarget ==
  ASSUME StoreInv, Saving,
         NEW im \in {slot[Target], Blank},
         slot' = [slot EXCEPT ![Target] = im]
  PROVE  /\ slot' \in Sectors
         /\ \A s \in Slots : slot'[s].rec.edition # Unset => Loaded(slot'[s]).locked
         /\ reset = "clean" /\ cur \in Slots =>
              slot'[cur] = slot[cur] /\ NewestIn(slot', cur)
         /\ reset \in {"clean", "busy"} /\ cur = "none" => NothingIn(slot')
         /\ reset = "clean" => BootRec(slot') = BootRec(slot)
  <1>1. slot \in Sectors /\ cur \in Slots \cup {"none"}
    BY DEF StoreInv, StoreTypeOK, Sectors
  <1>2. /\ Target \in Slots /\ Target # cur
        /\ cur \in Slots => Other(cur) = Target /\ Other(Target) = cur
    BY <1>1, TargetIsOther
  <1>3. im \in Image \cup {Blank}  BY <1>1, <1>2 DEF Sectors
  <1>4. slot' \in Sectors  BY <1>1, <1>2, <1>3 DEF Sectors
  <1>5. \A s \in Slots : slot'[s] = IF s = Target THEN im ELSE slot[s]
    BY <1>1, <1>2 DEF Sectors
  <1>6. \A s \in Slots : slot'[s].rec.edition # Unset => Loaded(slot'[s]).locked
    BY <1>5, <1>2 DEF StoreInv, LatchInv, Blank, Empty
  <1>7. ASSUME reset = "clean", cur \in Slots
        PROVE  slot'[cur] = slot[cur] /\ NewestIn(slot', cur)
    <2>1. slot'[cur] = slot[cur] /\ slot'[Target] = im  BY <1>2, <1>5, <1>7
    <2>2. NewestIn(slot, cur)  BY <1>7 DEF StoreInv, SlotInv, Saving, Newest
    <2>3. QED  BY <2>1, <2>2, <1>2, <1>7, EmptyTyped DEF NewestIn
  <1>8. ASSUME reset \in {"clean", "busy"}, cur = "none" PROVE NothingIn(slot')
    <2>1. NothingIn(slot)  BY <1>8 DEF StoreInv, SlotInv, Saving, NothingStored
    <2>2. QED  BY <2>1, <1>2, <1>5 DEF NothingIn
  <1>9. ASSUME reset = "clean" PROVE BootRec(slot') = BootRec(slot)
    <2>1. CASE cur = "none"
      BY <2>1, <1>8, <1>9, BootNothing, CurrentBoots DEF Saving
    <2>2. CASE cur \in Slots
      <3>1. BootRec(slot') = Loaded(slot'[cur])  BY <2>2, <1>4, <1>7, <1>9, BootNewest
      <3>2. BootRec(slot) = Loaded(slot[cur])
        <4>1. NewestIn(slot, cur)  BY <2>2, <1>9 DEF StoreInv, SlotInv, Saving, Newest
        <4>2. QED  BY <4>1, <2>2, <1>1, BootNewest
      <3>3. QED  BY <3>1, <3>2, <2>2, <1>7, <1>9
    <2>3. QED  BY <2>1, <2>2, <1>1
  <1>10. QED  BY <1>4, <1>6, <1>7, <1>8, <1>9

\* persist, the erase.
LEMMA EraseStep == StoreInv /\ Erase => StoreInv'
  <1> SUFFICES ASSUME StoreInv, Erase PROVE StoreInv'
    OBVIOUS
  <1>0. Saving /\ slot' = [slot EXCEPT ![Target] = Blank]
    BY DEF Erase, Saving
  <1>1. /\ slot' \in Sectors
        /\ \A s \in Slots : slot'[s].rec.edition # Unset => Loaded(slot'[s]).locked
        /\ reset = "clean" /\ cur \in Slots =>
             slot'[cur] = slot[cur] /\ NewestIn(slot', cur)
        /\ reset \in {"clean", "busy"} /\ cur = "none" => NothingIn(slot')
        /\ reset = "clean" => BootRec(slot') = BootRec(slot)
    BY <1>0, BlankTarget
  <1>2. StoreTypeOK'  BY <1>1 DEF StoreInv, StoreTypeOK, Erase, Sectors
  <1>3. OpInv'  BY DEF StoreInv, OpInv, Erase, Saving
  <1>4. LatchInv'  BY <1>1 DEF StoreInv, LatchInv, Erase
  <1>5. SlotInv'
    BY <1>0, <1>1 DEF StoreInv, SlotInv, Erase, Saving, Newest, NothingStored
  <1>6. StampInv' /\ WipeInv' /\ DurableOnSuccess'
    BY <1>1 DEF StoreInv, StampInv, WipeInv, DurableOnSuccess, Erase
  <1>7. QED  BY <1>2, <1>3, <1>4, <1>5, <1>6 DEF StoreInv

\* A save that fails, in its erase or in its write, hands the error back.
LEMMA GiveUpStep ==
  ASSUME StoreInv, Saving, GiveUp, cur' = cur, acked' = acked,
         NEW im \in {slot[Target], Blank},
         slot' = [slot EXCEPT ![Target] = im]
  PROVE  StoreInv'
  <1>1. /\ slot' \in Sectors
        /\ \A s \in Slots : slot'[s].rec.edition # Unset => Loaded(slot'[s]).locked
        /\ reset = "clean" /\ cur \in Slots =>
             slot'[cur] = slot[cur] /\ NewestIn(slot', cur)
        /\ reset \in {"clean", "busy"} /\ cur = "none" => NothingIn(slot')
        /\ reset = "clean" => BootRec(slot') = BootRec(slot)
    BY BlankTarget
  <1>2. /\ ram' \in Rec /\ ram'.seq = ram.seq
        /\ op # "stamp" => ram' = ram
        /\ op = "stamp" => ram'.edition = Unset /\ ram'.locked = FALSE
    BY DEF StoreInv, StoreTypeOK, LatchInv, GiveUp, UndoStamp, Rec
  <1>3. StoreTypeOK'  BY <1>1, <1>2, EditionAssumption DEF StoreInv, StoreTypeOK, GiveUp, Sectors
  <1>4. OpInv'  BY DEF StoreInv, StoreTypeOK, OpInv, GiveUp, Saving
  <1>5. LatchInv'  BY <1>1, <1>2 DEF StoreInv, LatchInv, GiveUp
  <1>6. SlotInv'
    <2>1. reset' = "clean" => reset = "clean"  BY DEF GiveUp
    <2>2. reset' # "busy"  BY DEF StoreInv, OpInv, GiveUp
    <2>3. pc' = "idle"  BY DEF GiveUp
    <2>4. QED
      BY <1>1, <1>2, <2>1, <2>2, <2>3 DEF StoreInv, SlotInv, Saving, Newest, NothingStored
  <1>7. StampInv'
    BY <1>2 DEF StoreInv, OpInv, StoreTypeOK, StampInv, GiveUp, Saving, Content
  <1>8. WipeInv' /\ DurableOnSuccess'
    BY <1>1 DEF StoreInv, WipeInv, DurableOnSuccess, GiveUp
  <1>9. QED  BY <1>3, <1>4, <1>5, <1>6, <1>7, <1>8 DEF StoreInv

\* persist, the erase that fails: the sector is blank or as it was.
LEMMA EraseFailsStep == StoreInv /\ EraseFails => StoreInv'
  <1> SUFFICES ASSUME StoreInv, EraseFails PROVE StoreInv'
    OBVIOUS
  <1>1. PICK im \in {slot[Target], Blank} : slot' = [slot EXCEPT ![Target] = im]
    BY DEF EraseFails
  <1>2. QED  BY <1>1, GiveUpStep DEF EraseFails, Saving

\* persist, the write that fails: the sector stays blank.
LEMMA WriteFailsStep == StoreInv /\ WriteFails => StoreInv'
  <1> SUFFICES ASSUME StoreInv, WriteFails PROVE StoreInv'
    OBVIOUS
  <1>1. slot' = [slot EXCEPT ![Target] = slot[Target]]
    BY DEF StoreInv, StoreTypeOK, WriteFails
  <1>2. QED  BY <1>1, GiveUpStep DEF WriteFails, Saving

\* persist, the write: the record in memory is now the newest one.
LEMMA WriteStep == StoreInv /\ Write => StoreInv'
  <1> SUFFICES ASSUME StoreInv, Write PROVE StoreInv'
    OBVIOUS
  <1> DEFINE new == [layout |-> "current", rec |-> ram]
  <1>1. slot \in Sectors /\ cur \in Slots \cup {"none"} /\ ram \in Rec
    BY DEF StoreInv, StoreTypeOK, Sectors
  <1>2. /\ Target \in Slots /\ Target # cur
        /\ cur \in Slots => Other(cur) = Target /\ Other(Target) = cur
        /\ Other(Target) \in Slots /\ Other(Target) # Target
    BY <1>1, TargetIsOther DEF Other, Slots
  <1>3. new \in Image /\ Valid(new) /\ Loaded(new) = ram /\ Stored(ram) \in Content
    BY <1>1, Saved
  <1>4. slot' \in Sectors /\ \A s \in Slots : slot'[s] = IF s = Target THEN new ELSE slot[s]
    BY <1>1, <1>2, <1>3 DEF Write, Sectors
  <1>5. StoreTypeOK'
    BY <1>2, <1>3, <1>4, EditionAssumption DEF StoreInv, StoreTypeOK, Write, Sectors
  <1>6. OpInv'  BY DEF StoreInv, StoreTypeOK, OpInv, Write, Saving
  <1>7. LatchInv'
    <2>1. \A s \in Slots : slot'[s].rec.edition # Unset => Loaded(slot'[s]).locked
      BY <1>3, <1>4 DEF StoreInv, LatchInv
    <2>2. QED  BY <2>1 DEF StoreInv, LatchInv, Write
  <1>8. ASSUME reset' = "clean" PROVE NewestIn(slot', Target)
    <2>1. reset \in {"clean", "busy"}  BY <1>8 DEF StoreInv, StoreTypeOK, Write
    <2>2. CASE cur = "none"
      <3>1. NothingIn(slot)
        BY <2>1, <2>2 DEF StoreInv, SlotInv, Write, Saving, NothingStored
      <3>2. slot'[Other(Target)] = Blank  BY <3>1, <1>2, <1>4 DEF NothingIn
      <3>3. QED  BY <3>2, <1>2, <1>3, <1>4, EmptyTyped DEF NewestIn
    <2>3. CASE cur \in Slots
      <3>1. reset = "clean"  BY <2>1, <2>3 DEF StoreInv, SlotInv, Write, Saving, Slots
      <3>2. slot[cur].rec.seq < ram.seq
        BY <3>1, <2>3 DEF StoreInv, SlotInv, Write, Saving
      <3>3. slot'[Other(Target)] = slot[cur] /\ slot'[Target].rec = ram
        BY <2>3, <1>2, <1>4
      <3>4. QED  BY <3>2, <3>3, <1>2, <1>3, <1>4 DEF NewestIn
    <2>4. QED  BY <1>1, <2>2, <2>3
  <1>9. SlotInv'
    <2>1. slot'[Target].rec.seq = ram.seq /\ ram.seq \in Nat
      BY <1>1, <1>2, <1>4 DEF Rec
    <2>2. cur' = Target /\ pc' = "idle" /\ ram' = ram  BY DEF Write
    <2>3. reset' # "busy"  BY DEF StoreInv, OpInv, Write
    <2>4. QED
      BY <1>2, <1>8, <2>1, <2>2, <2>3 DEF SlotInv, Saving, Newest, Slots
  <1>10. StampInv' /\ WipeInv'
    BY <1>1 DEF StampInv, WipeInv, Write, Stored
  <1>11. DurableOnSuccess'
    <2>1. ASSUME reset' = "clean" PROVE BootRec(slot') = ram
      BY <2>1, <1>2, <1>3, <1>4, <1>8, BootNewest
    <2>2. QED  BY <2>1 DEF DurableOnSuccess, Write
  <1>12. QED  BY <1>5, <1>6, <1>7, <1>9, <1>10, <1>11 DEF StoreInv

-----------------------------------------------------------------------------
\* persist() raises the number and leaves the rest of the record alone.
LEMMA NumberedTyped ==
  ASSUME NEW r \in Rec
  PROVE  /\ Numbered(r) \in Rec /\ r.seq \in Nat
         /\ Numbered(r).seq = r.seq + 1
         /\ Stored(Numbered(r)) = Stored(r)
         /\ Numbered(r).edition = r.edition /\ Numbered(r).locked = r.locked
  BY DEF Numbered, Rec, Stored

\* A setter changes memory only, and raises the number above all on flash.
LEMMA SetFieldStep ==
  ASSUME StoreInv, NEW f \in Fields, NEW v \in Values, SetField(f, v)
  PROVE  StoreInv'
  <1>1. /\ ram' \in Rec
        /\ ram'.seq = ram.seq + 1 /\ ram.seq \in Nat
        /\ ram'.edition = ram.edition /\ ram'.locked = ram.locked
    <2>1. ram \in Rec  BY DEF StoreInv, StoreTypeOK
    <2> DEFINE r == [ram EXCEPT !.conf[f] = v]
    <2>2. r \in Rec /\ r.seq = ram.seq /\ r.edition = ram.edition /\ r.locked = ram.locked
      BY <2>1 DEF Rec, Conf
    <2>3. ram' = Numbered(r)  BY DEF SetField
    <2>4. QED  BY <2>2, <2>3, NumberedTyped
  <1>2. StoreTypeOK'  BY <1>1 DEF StoreInv, StoreTypeOK, SetField
  <1>3. OpInv'  BY DEF StoreInv, OpInv, SetField, Saving
  <1>4. LatchInv'  BY <1>1 DEF StoreInv, LatchInv, SetField
  <1>5. SlotInv'
    <2>1. \A c \in Slots : slot[c].rec.seq \in Nat
      BY LoadTyped DEF StoreInv, StoreTypeOK, Rec
    <2>2. reset # "busy"  BY DEF StoreInv, OpInv, SetField
    <2>3. QED
      BY <1>1, <2>1, <2>2 DEF StoreInv, SlotInv, SetField, Saving, Newest, NewestIn,
                              NothingStored, NothingIn
  <1>6. StampInv' /\ WipeInv' /\ DurableOnSuccess'
    BY <1>1 DEF StoreInv, OpInv, StampInv, WipeInv, DurableOnSuccess, SetField
  <1>7. QED  BY <1>2, <1>3, <1>4, <1>5, <1>6 DEF StoreInv

\* cfg_set_edition, once it may: edition and latch together.
LEMMA SetEditionStep ==
  ASSUME StoreInv, NEW e \in EditionBytes, SetEdition(e)
  PROVE  StoreInv'
  <1>1. /\ ram' \in Rec
        /\ ram'.seq = ram.seq + 1 /\ ram.seq \in Nat
        /\ ram'.edition = e /\ ram'.locked = TRUE
    <2>1. ram \in Rec  BY DEF StoreInv, StoreTypeOK
    <2> DEFINE r == [ram EXCEPT !.edition = e, !.locked = TRUE]
    <2>2. r \in Rec /\ r.seq = ram.seq /\ r.edition = e /\ r.locked = TRUE
      BY <2>1 DEF Rec, SetEdition, MayStamp
    <2>3. ram' = Numbered(r)  BY DEF SetEdition, MayStamp
    <2>4. QED  BY <2>2, <2>3, NumberedTyped
  <1>2. ram.edition = Unset /\ ram.locked = FALSE
    BY DEF StoreInv, StoreTypeOK, LatchInv, SetEdition, MayStamp, Rec
  <1>3. StoreTypeOK'  BY <1>1, <1>2 DEF StoreInv, StoreTypeOK, SetEdition, MayStamp, Rec
  <1>4. OpInv'  BY DEF StoreInv, OpInv, SetEdition, MayStamp, Saving
  <1>5. LatchInv'  BY <1>1, <1>2 DEF StoreInv, LatchInv, SetEdition, MayStamp
  <1>6. SlotInv'
    <2>1. \A c \in Slots : slot[c].rec.seq \in Nat
      BY LoadTyped DEF StoreInv, StoreTypeOK, Rec
    <2>2. reset # "busy"  BY DEF StoreInv, OpInv, SetEdition, MayStamp
    <2>3. QED
      BY <1>1, <2>1, <2>2 DEF StoreInv, SlotInv, SetEdition, MayStamp, Saving, Newest, NewestIn,
                              NothingStored, NothingIn
  <1>7. StampInv' /\ WipeInv' /\ DurableOnSuccess'
    BY <1>1, <1>2 DEF StoreInv, OpInv, StampInv, WipeInv, DurableOnSuccess, SetEdition, MayStamp
  <1>8. QED  BY <1>3, <1>4, <1>5, <1>6, <1>7 DEF StoreInv

\* cfg_reset, the memset that carries the stamp.
LEMMA ResetStep == StoreInv /\ Reset => StoreInv'
  <1> SUFFICES ASSUME StoreInv, Reset PROVE StoreInv'
    OBVIOUS
  <1>1. /\ ram' \in Rec
        /\ ram'.edition = ram.edition /\ ram'.locked = ram.locked
    BY EmptyTyped DEF StoreInv, StoreTypeOK, Reset, Rec
  <1>2. StoreTypeOK'  BY <1>1 DEF StoreInv, StoreTypeOK, Reset
  <1>3. OpInv' /\ LatchInv'
    BY <1>1 DEF StoreInv, OpInv, LatchInv, Reset, Saving
  <1>4. SlotInv'  BY DEF SlotInv, Reset, Saving
  <1>5. StampInv' /\ WipeInv' /\ DurableOnSuccess'
    BY <1>1 DEF StoreInv, OpInv, StampInv, WipeInv, DurableOnSuccess, Reset, Empty
  <1>6. QED  BY <1>2, <1>3, <1>4, <1>5 DEF StoreInv

\* Erasing a sector in a reset.
LEMMA WipeTyped ==
  ASSUME StoreInv, NEW c \in Slots, slot' \in {slot, [slot EXCEPT ![c] = Blank]}
  PROVE  /\ slot' \in Sectors
         /\ \A s \in Slots : slot'[s].rec.edition # Unset => Loaded(slot'[s]).locked
  BY DEF StoreInv, StoreTypeOK, LatchInv, Sectors, Blank, Empty

\* cfg_reset, the first erase, which may fail unnoticed.
LEMMA WipeAStep == StoreInv /\ WipeA => StoreInv'
  <1> SUFFICES ASSUME StoreInv, WipeA PROVE StoreInv'
    OBVIOUS
  <1>1. slot' \in {slot, [slot EXCEPT !["A"] = Blank]}
    BY DEF WipeA
  <1>2. /\ slot' \in Sectors
        /\ \A s \in Slots : slot'[s].rec.edition # Unset => Loaded(slot'[s]).locked
    BY <1>1, WipeTyped DEF Slots
  <1>3. reset # "clean" /\ op = "reset"  BY DEF StoreInv, OpInv, WipeA
  <1>4. StoreTypeOK'  BY <1>2 DEF StoreInv, StoreTypeOK, WipeA, Sectors
  <1>5. OpInv' /\ LatchInv'
    BY <1>2, <1>3 DEF StoreInv, OpInv, LatchInv, WipeA, Saving
  <1>6. SlotInv'
    BY <1>3 DEF StoreInv, StoreTypeOK, SlotInv, WipeA, Saving, Slots
  <1>7. StampInv' /\ WipeInv' /\ DurableOnSuccess'
    BY <1>3 DEF StoreInv, StampInv, WipeInv, DurableOnSuccess, WipeA
  <1>8. QED  BY <1>4, <1>5, <1>6, <1>7 DEF StoreInv

\* cfg_reset, the second erase, and the stamp that is saved again.
LEMMA WipeBStep == StoreInv /\ WipeB => StoreInv'
  <1> SUFFICES ASSUME StoreInv, WipeB PROVE StoreInv'
    OBVIOUS
  <1>1. slot' \in {slot, [slot EXCEPT !["B"] = Blank]}
    BY DEF WipeB
  <1>2. /\ slot' \in Sectors
        /\ \A s \in Slots : slot'[s].rec.edition # Unset => Loaded(slot'[s]).locked
    BY <1>1, WipeTyped DEF Slots
  <1>3. reset \in {"busy", "dirty"} /\ op = "reset"
    BY DEF StoreInv, StoreTypeOK, OpInv, WipeB
  <1>4. /\ ram' \in Rec
        /\ ram'.edition = ram.edition /\ ram'.locked = ram.locked
    BY NumberedTyped DEF StoreInv, StoreTypeOK, WipeB
  <1>5. Stored(ram) \in Content /\ ram.locked \in BOOLEAN
    BY Saved DEF StoreInv, StoreTypeOK, Rec
  <1>6. StoreTypeOK'  BY <1>2, <1>3, <1>4, <1>5 DEF StoreInv, StoreTypeOK, WipeB, Sectors
  <1>7. OpInv' /\ LatchInv'
    BY <1>2, <1>3, <1>4 DEF StoreInv, OpInv, LatchInv, WipeB, Saving
  <1>8. ASSUME reset' \in {"clean", "busy"} PROVE NothingIn(slot') /\ cur' = "none"
    <2>1. reset = "busy" /\ slot' = [slot EXCEPT !["B"] = Blank] /\ cur' = "none"
      BY <1>3, <1>8 DEF WipeB
    <2>2. slot["A"] = Blank  BY <2>1 DEF StoreInv, SlotInv, WipeB
    <2>3. QED  BY <2>1, <2>2 DEF StoreInv, StoreTypeOK, NothingIn, Slots
  <1>9. SlotInv'
    BY <1>8 DEF SlotInv, WipeB, Saving, Slots, NothingStored
  <1>10. StampInv' /\ WipeInv'
    BY <1>3, <1>4 DEF StoreInv, StampInv, WipeInv, WipeB, Stored
  <1>11. DurableOnSuccess'
    <2>1. ASSUME reset' = "clean" PROVE Stored(BootRec(slot')) = acked'
      <3>1. ~ram.locked /\ acked' = Stored(ram)
        BY <1>3, <2>1 DEF WipeB
      <3>2. BootRec(slot') = Empty  BY <1>8, <2>1, BootNothing
      <3>3. ram.edition = Unset /\ ram.conf = NoConf /\ ram.locked = FALSE
        BY <3>1, <1>5 DEF StoreInv, LatchInv, WipeInv, WipeB
      <3>4. Stored(ram) = Stored(Empty)  BY <3>3 DEF Stored, Empty
      <3>5. QED  BY <3>1, <3>2, <3>4
    <2>2. QED  BY <2>1 DEF DurableOnSuccess
  <1>12. QED  BY <1>6, <1>7, <1>9, <1>10, <1>11 DEF StoreInv

\* The invariant is about the variables of the store only.
LEMMA Stutter == StoreInv /\ UNCHANGED storeVars => StoreInv'
  BY DEF StoreInv, StoreTypeOK, OpInv, LatchInv, SlotInv, StampInv, WipeInv, DurableOnSuccess,
         storeVars, Saving, Newest, NewestIn, NothingStored, NothingIn

\* Every step of the store keeps the invariant: one case to an action.
THEOREM Inductive == StoreInv /\ [StoreNext]_storeVars => StoreInv'
  <1> SUFFICES ASSUME StoreInv, [StoreNext]_storeVars PROVE StoreInv'
    OBVIOUS
  <1>1. CASE Boot  BY <1>1, BootStep
  <1>2. CASE PowerCut  BY <1>2, PowerCutStep
  <1>3. CASE Erase  BY <1>3, EraseStep
  <1>4. CASE EraseFails  BY <1>4, EraseFailsStep
  <1>5. CASE Write  BY <1>5, WriteStep
  <1>6. CASE WriteFails  BY <1>6, WriteFailsStep
  <1>7. ASSUME NEW f \in Fields, NEW v \in Values, SetField(f, v) PROVE StoreInv'
    BY <1>7, SetFieldStep
  <1>8. ASSUME NEW e \in EditionBytes, SetEdition(e) PROVE StoreInv'
    BY <1>8, SetEditionStep
  <1>9. CASE Reset  BY <1>9, ResetStep
  <1>10. CASE WipeA  BY <1>10, WipeAStep
  <1>11. CASE WipeB  BY <1>11, WipeBStep
  <1>12. CASE UNCHANGED storeVars  BY <1>12, Stutter
  <1>13. QED
    BY <1>1, <1>2, <1>3, <1>4, <1>5, <1>6, <1>7, <1>8, <1>9, <1>10, <1>11, <1>12
       DEF StoreNext

\* The inductive invariant holds in every reachable state.
THEOREM StoreInvariance == StoreSpec => []StoreInv
  BY InitIInv, Inductive, PTL DEF StoreSpec

\* The variables of the store keep their types.
THEOREM StoreTypeCorrect == StoreSpec => []StoreTypeOK
  <1>1. StoreInv => StoreTypeOK  BY DEF StoreInv
  <1>2. QED  BY <1>1, StoreInvariance, PTL

\* What cfg_store.c last reported as stored is what a boot finds, however a
\* save is interrupted or fails, for any fields, values and flash behaviour.
THEOREM Durable == StoreSpec => []DurableOnSuccess
  <1>1. StoreInv => DurableOnSuccess  BY DEF StoreInv
  <1>2. QED  BY <1>1, StoreInvariance, PTL

\* No boot ever finds an edition without its latch.
THEOREM StampWhole == StoreSpec => []StampIsWhole
  <1>1. StoreInv => StampIsWhole
    <2> SUFFICES ASSUME StoreInv, BootRec(slot).edition # Unset
                 PROVE  BootRec(slot).locked
      BY DEF StampIsWhole
    <2>1. slot \in Sectors  BY DEF StoreInv, StoreTypeOK, Sectors
    <2>2. BootSlot(slot) \in Slots
      BY <2>1, BootTyped DEF BootRec, Empty
    <2>3. BootRec(slot) = Loaded(slot[BootSlot(slot)])  BY <2>2 DEF BootRec, Slots
    <2>4. slot[BootSlot(slot)] \in Image \cup {Blank}  BY <2>1, <2>2 DEF Sectors
    <2>5. QED  BY <2>2, <2>3, <2>4, LoadTyped DEF StoreInv, LatchInv
  <1>2. QED  BY <1>1, StoreInvariance, PTL

\* Between operations the sector in use is the one a boot would pick.
THEOREM CurrentSector == StoreSpec => []CurIsNewest
  <1>1. StoreInv => CurIsNewest  BY CurrentBoots DEF CurIsNewest
  <1>2. QED  BY <1>1, StoreInvariance, PTL

\* A stamp that was reported as stored is never changed or lost.
THEOREM StampIsKept == StoreSpec => StampOnce
  <1>1. StoreInv /\ [StoreNext]_storeVars
          => [reset # "dirty" /\ acked.locked
                => acked'.locked /\ acked'.edition = acked.edition]_storeVars
    <2> SUFFICES ASSUME StoreInv, [StoreNext]_storeVars, reset # "dirty", acked.locked
                 PROVE  acked'.locked /\ acked'.edition = acked.edition
      OBVIOUS
    <2>1. CASE acked' = acked  BY <2>1
    <2>2. CASE Write
      BY <2>2 DEF StoreInv, OpInv, StampInv, Write, Saving, Stored
    <2>3. CASE WipeB
      BY <2>3 DEF StoreInv, OpInv, StampInv, WipeB, Stored
    <2>4. CASE Boot
      BY <2>4 DEF Boot
    <2>5. QED
      BY <2>1, <2>2, <2>3, <2>4
         DEF StoreNext, storeVars, PowerCut, Erase, EraseFails, WriteFails, SetField, SetEdition, MayStamp,
             Reset, WipeA
  <1>2. QED  BY <1>1, StoreInvariance, PTL DEF StoreSpec, StampOnce

-----------------------------------------------------------------------------
(* The refinement.                                                         *)

MemNow == IF pc = "off" THEN Stored(BootRec(slot)) ELSE Stored(ram)

\* What StoredRecord sees of the store has the types it asks for.
LEMMA MemTyped == StoreInv => MemNow \in Content /\ Stored(BootRec(slot)) \in Content
  <1> SUFFICES ASSUME StoreInv PROVE MemNow \in Content /\ Stored(BootRec(slot)) \in Content
    OBVIOUS
  <1>1. slot \in Sectors /\ ram \in Rec  BY DEF StoreInv, StoreTypeOK, Sectors
  <1>2. QED  BY <1>1, BootTyped, Saved DEF MemNow

\* The store starts where StoredRecord starts.
LEMMA InitMaps == StoreInit /\ StoreInv => Abstract!Init
  <1> SUFFICES ASSUME StoreInit, StoreInv PROVE Abstract!Init
    OBVIOUS
  <1>1. pc = "off" /\ reset = "clean"  BY DEF StoreInit
  <1>2. QED  BY <1>1, MemTyped DEF Abstract!Init, Abstract!Content, Content, MemNow

\* MemTyped after a step.
LEMMA MemTypedNext == StoreInv' => MemNow' \in Content /\ Stored(BootRec(slot))' \in Content
  <1>1. (StoreInv => MemNow \in Content /\ Stored(BootRec(slot)) \in Content)'
    BY MemTyped, PTL
  <1>2. Content' = Content  BY DEF Content, Conf
  <1>3. QED  BY <1>1, <1>2

\* Whatever a step does once a reset has gone wrong.
LEMMA DirtyMaps ==
  ASSUME StoreInv, StoreInv', reset' = "dirty", reset \in {"busy", "dirty"}
  PROVE  Abstract!Next
  <1>1. MemNow' \in Content /\ Stored(BootRec(slot))' \in Content
    BY MemTypedNext
  <1>2. CASE reset = "busy"
    <2>1. Abstract!GoWrong
      BY <1>1, <1>2 DEF Abstract!GoWrong, Abstract!Content, Content, MemNow
    <2>2. QED  BY <2>1 DEF Abstract!Next
  <1>3. CASE reset = "dirty"
    <2>1. Abstract!Unreliable
      BY <1>1, <1>3 DEF Abstract!Unreliable, Abstract!Content, Content, MemNow
    <2>2. QED  BY <2>1 DEF Abstract!Next
  <1>4. QED  BY <1>2, <1>3

\* A step of the erases of a reset that goes well.
LEMMA BusyMaps ==
  ASSUME StoreInv, StoreInv', reset = "busy", reset' = "busy", MemNow' = MemNow
  PROVE  Abstract!Next
  <1>1. Stored(BootRec(slot))' \in Content  BY MemTypedNext
  <1>2. Abstract!Erasing
    BY <1>1 DEF Abstract!Erasing, Abstract!Content, Content, MemNow
  <1>3. QED  BY <1>2 DEF Abstract!Next

\* The save or the erase that ends a reset well.
LEMMA EndMaps ==
  ASSUME StoreInv', reset = "busy", reset' = "clean", MemNow' = MemNow,
         acked' = MemNow
  PROVE  Abstract!Next
  <1>1. Stored(BootRec(slot))' = MemNow  BY DEF StoreInv, DurableOnSuccess
  <1>2. Abstract!EndReset  BY <1>1 DEF Abstract!EndReset, MemNow
  <1>3. QED  BY <1>2 DEF Abstract!Next

\* A setter, or the undo of one, over a record that is not stamped or whose
\* stamp it leaves alone.
LEMMA ChangeMaps ==
  ASSUME StoreInv, StoreInv', reset = "clean", reset' = "clean",
         Stored(BootRec(slot))' = Stored(BootRec(slot)),
         acked.locked => MemNow'.locked /\ MemNow'.edition = acked.edition
  PROVE  Abstract!Next
  <1>1. MemNow' \in Content  BY MemTypedNext
  <1>2. Stored(BootRec(slot)) = acked  BY DEF StoreInv, DurableOnSuccess
  <1>3. Abstract!Change
    BY <1>1, <1>2 DEF Abstract!Change, Abstract!KeepsStamp, Abstract!Content, Content, MemNow
  <1>4. QED  BY <1>3 DEF Abstract!Next

AbstractUnchanged == UNCHANGED <<MemNow, Stored(BootRec(slot)), reset>>

\* Every step of the store is one of StoredRecord, or leaves it unchanged.
LEMMA StepMaps ==
  ASSUME StoreInv, StoreInv', StoreNext
  PROVE  Abstract!Next \/ AbstractUnchanged
  <1>1. CASE Boot
    BY <1>1 DEF Boot, AbstractUnchanged, MemNow
  <1>2. CASE PowerCut
    <2>1. CASE reset = "clean"
      <3>1. Abstract!Cut  BY <1>2, <2>1 DEF PowerCut, Abstract!Cut, MemNow
      <3>2. QED  BY <3>1 DEF Abstract!Next
    <2>2. CASE reset \in {"busy", "dirty"}
      BY <1>2, <2>2, DirtyMaps DEF PowerCut
    <2>3. QED  BY <2>1, <2>2 DEF StoreInv, StoreTypeOK
  <1>3. CASE Erase
    <2>1. MemNow' = MemNow  BY <1>3 DEF Erase, MemNow
    <2>2. CASE reset = "clean"
      <3>1. BootRec(slot') = BootRec(slot)
        BY <1>3, <2>2, BlankTarget DEF Erase, Saving
      <3>2. QED  BY <1>3, <2>1, <3>1 DEF Erase, AbstractUnchanged
    <2>3. CASE reset = "busy"  BY <1>3, <2>1, <2>3, BusyMaps DEF Erase
    <2>4. CASE reset = "dirty"  BY <1>3, <2>4, DirtyMaps DEF Erase
    <2>5. QED  BY <2>2, <2>3, <2>4 DEF StoreInv, StoreTypeOK
  <1>4. CASE EraseFails \/ WriteFails
    <2>1. GiveUp /\ Saving  BY <1>4 DEF EraseFails, WriteFails, Saving
    <2>2. CASE reset = "clean"
      <3>1. Stored(BootRec(slot))' = Stored(BootRec(slot))
        <4>1. reset' = "clean" /\ acked' = acked
          BY <1>4, <2>1, <2>2 DEF GiveUp, EraseFails, WriteFails, StoreInv, OpInv
        <4>2. QED  BY <2>2, <4>1 DEF StoreInv, DurableOnSuccess
      <3>2. reset' = "clean"  BY <2>1, <2>2 DEF GiveUp, StoreInv, OpInv
      <3>3. acked.locked => MemNow'.locked /\ MemNow'.edition = acked.edition
        <4>1. acked.locked => op # "stamp"  BY DEF StoreInv, StampInv
        <4>2. acked.locked => ram' = ram /\ ram.locked /\ ram.edition = acked.edition
          BY <2>1, <4>1 DEF GiveUp, StoreInv, StampInv, Saving
        <4>3. MemNow' = Stored(ram')  BY <2>1 DEF GiveUp, MemNow
        <4>4. QED  BY <4>2, <4>3 DEF Stored
      <3>4. QED  BY <2>2, <3>1, <3>2, <3>3, ChangeMaps
    <2>3. CASE reset \in {"busy", "dirty"}
      <3>1. reset' = "dirty"  BY <2>1, <2>3 DEF GiveUp, StoreInv, OpInv
      <3>2. QED  BY <2>3, <3>1, DirtyMaps
    <2>4. QED  BY <2>2, <2>3 DEF StoreInv, StoreTypeOK
  <1>5. CASE Write
    <2>1. MemNow = Stored(ram) /\ MemNow' = MemNow /\ acked' = MemNow
      BY <1>5 DEF Write, MemNow
    <2>2. CASE reset = "clean"
      <3>1. reset' = "clean"  BY <1>5, <2>2 DEF Write
      <3>2. Stored(BootRec(slot))' = MemNow
        BY <2>1, <3>1 DEF StoreInv, DurableOnSuccess
      <3>3. Abstract!Seal  BY <2>1, <2>2, <3>1, <3>2 DEF Abstract!Seal, MemNow
      <3>4. QED  BY <3>3 DEF Abstract!Next
    <2>3. CASE reset = "busy"
      BY <1>5, <2>1, <2>3, EndMaps DEF Write, StoreInv, OpInv
    <2>4. CASE reset = "dirty"  BY <1>5, <2>4, DirtyMaps DEF Write
    <2>5. QED  BY <2>2, <2>3, <2>4 DEF StoreInv, StoreTypeOK
  <1>6. ASSUME NEW f \in Fields, NEW v \in Values, SetField(f, v)
        PROVE  Abstract!Next
    <2>1. reset' = reset /\ acked' = acked /\ slot' = slot /\ reset # "busy"
      BY <1>6 DEF SetField, StoreInv, OpInv
    <2>2. CASE reset = "clean"
      <3>1. ram'.edition = ram.edition /\ ram'.locked = ram.locked
        <4>1. ram \in Rec  BY DEF StoreInv, StoreTypeOK
        <4> DEFINE r == [ram EXCEPT !.conf[f] = v]
        <4>2. r \in Rec /\ r.edition = ram.edition /\ r.locked = ram.locked
          BY <4>1 DEF Rec, Conf
        <4>3. ram' = Numbered(r)  BY <1>6 DEF SetField
        <4>4. QED  BY <4>2, <4>3, NumberedTyped
      <3>2. MemNow' = Stored(ram')  BY <1>6 DEF SetField, MemNow
      <3>3. acked.locked => MemNow'.locked /\ MemNow'.edition = acked.edition
        BY <1>6, <3>1, <3>2 DEF SetField, StoreInv, OpInv, StampInv, Stored
      <3>4. QED  BY <2>1, <2>2, <3>3, ChangeMaps
    <2>3. CASE reset = "dirty"  BY <2>1, <2>3, DirtyMaps
    <2>4. QED  BY <2>1, <2>2, <2>3 DEF StoreInv, StoreTypeOK
  <1>7. ASSUME NEW e \in EditionBytes, SetEdition(e)
        PROVE  Abstract!Next
    <2>1. reset' = reset /\ slot' = slot /\ reset # "busy"
      BY <1>7 DEF SetEdition, MayStamp, StoreInv, OpInv
    <2>2. ~acked.locked
      BY <1>7 DEF SetEdition, MayStamp, StoreInv, OpInv, StampInv
    <2>3. CASE reset = "clean"  BY <2>1, <2>2, <2>3, ChangeMaps
    <2>4. CASE reset = "dirty"  BY <2>1, <2>4, DirtyMaps
    <2>5. QED  BY <2>1, <2>3, <2>4 DEF StoreInv, StoreTypeOK
  <1>8. CASE Reset
    <2>1. ram \in Rec /\ Empty \in Rec  BY EmptyTyped DEF StoreInv, StoreTypeOK
    <2>2. ram' = [Empty EXCEPT !.edition = ram.edition, !.locked = ram.locked]
          /\ pc = "idle" /\ pc' = "wipeA" /\ slot' = slot
      BY <1>8 DEF Reset
    <2>3. MemNow = Stored(ram) /\ MemNow' = Stored(ram')  BY <2>2 DEF MemNow
    <2>4. ram'.conf = NoConf /\ ram'.edition = ram.edition /\ ram'.locked = ram.locked
      BY <2>1, <2>2 DEF Empty
    <2>5. MemNow' = [MemNow EXCEPT !.conf = NoConf]
      BY <2>3, <2>4 DEF Stored
    <2>6. Abstract!StartReset
      BY <1>8, <2>2, <2>5 DEF Reset, StoreInv, OpInv, Abstract!StartReset, MemNow
    <2>7. QED  BY <2>6 DEF Abstract!Next
  <1>9. CASE WipeA
    <2>1. MemNow' = MemNow /\ reset # "clean"  BY <1>9 DEF WipeA, MemNow, StoreInv, OpInv
    <2>2. CASE reset' = "busy"
      BY <1>9, <2>1, <2>2, BusyMaps DEF WipeA
    <2>3. CASE reset' = "dirty"
      BY <2>1, <2>3, DirtyMaps DEF StoreInv, StoreTypeOK
    <2>4. QED  BY <1>9, <2>1, <2>2, <2>3 DEF WipeA, StoreInv, StoreTypeOK
  <1>10. CASE WipeB
    <2>1. Stored(ram') = Stored(ram)
      BY <1>10, NumberedTyped DEF WipeB, StoreInv, StoreTypeOK
    <2>2. MemNow = Stored(ram) /\ MemNow' = MemNow
      BY <1>10, <2>1 DEF WipeB, MemNow
    <2>3. reset \in {"busy", "dirty"}  BY <1>10 DEF WipeB, StoreInv, StoreTypeOK, OpInv
    <2>4. CASE reset' = "clean"
      BY <1>10, <2>2, <2>3, <2>4, EndMaps DEF WipeB
    <2>5. CASE reset' = "busy"
      BY <1>10, <2>2, <2>3, <2>5, BusyMaps DEF WipeB
    <2>6. CASE reset' = "dirty"  BY <2>3, <2>6, DirtyMaps
    <2>7. QED  BY <2>4, <2>5, <2>6 DEF StoreInv, StoreTypeOK
  <1>11. QED
    BY <1>1, <1>2, <1>3, <1>4, <1>5, <1>6, <1>7, <1>8, <1>9, <1>10 DEF StoreNext

\* The store implements the record it promises: a save is atomic, a power cut
\* costs only what was not sealed, and a latched stamp is kept, with the one
\* exception of a factory reset that is cut or fails.
THEOREM Refinement == StoreSpec => ImplementsStoredRecord
  <1>1. StoreInv /\ StoreInv' /\ [StoreNext]_storeVars => [Abstract!Next]_(Abstract!vars)
    <2> SUFFICES ASSUME StoreInv, StoreInv', [StoreNext]_storeVars
                 PROVE  [Abstract!Next]_(Abstract!vars)
      OBVIOUS
    <2>1. CASE StoreNext
      BY <2>1, StepMaps DEF AbstractUnchanged, Abstract!vars, MemNow
    <2>2. CASE UNCHANGED storeVars
      BY <2>2 DEF storeVars, Abstract!vars
    <2>3. QED  BY <2>1, <2>2
  <1>2. QED
    BY <1>1, InitIInv, InitMaps, StoreInvariance, PTL DEF StoreSpec, ImplementsStoredRecord, Abstract!Spec


-----------------------------------------------------------------------------
(* Types.                                                                  *)

Toks == Nat
Flashes == [wifi: {"none", "good", "bad"}, tok: Toks, trail: Nat]
Noinits == [blind: Nat, mark: BOOLEAN]
Images == [runs: Nat, sure: BOOLEAN, spare: Nat, asked: BOOLEAN]
Health == [deaf: BOOLEAN, test: BOOLEAN, health: BOOLEAN]
Replies == [kind: {"none", "granted", "refused", "failed"}, tok: Toks]
Nets == [at: {"off", "top", "asked", "told", "load", "sealed", "gone"},
         for: {"none", "code", "start", "ahead", "401"}, first: Toks, tok: Toks, reply: Replies,
         authed: BOOLEAN, acc: BOOLEAN, had: BOOLEAN, rejects: Nat, old: BOOLEAN, churn: Nat]
Uis == [last: Nat, avail: BOOLEAN, want: BOOLEAN]
Worlds == [up: BOOLEAN, live: Toks, wrong: Nat, long: BOOLEAN, feed: Nat, plugged: BOOLEAN, acts: Nat,
           excused: BOOLEAN]

TypeOK ==
  /\ flash \in Flashes /\ noinit \in Noinits /\ img \in Images /\ main \in {"start"} \cup Waits
  /\ boot \in Health /\ ip \in BOOLEAN /\ net \in Nets /\ post \in BOOLEAN /\ ui \in Uis /\ world \in Worlds

LEMMA OffType == NetOff \in Nets /\ NoReply \in Replies /\ NoUi \in Uis
BY LimitsArePlural DEF NetOff, NoReply, NoUi, Nets, Replies, Uis, Toks

LEMMA ActType ==
  ASSUME NEW w \in Worlds, Act(w)
  PROVE  world' \in Worlds
BY DEF Act, Worlds

LEMMA SwappedType == ASSUME NEW i \in Images PROVE Swapped(i) \in Images
BY DEF Swapped, Images

LEMMA RestartedType ==
  ASSUME TypeOK, Restarted
  PROVE  /\ flash' \in Flashes /\ img' \in Images /\ main' = "start" /\ boot' \in Health
         /\ ip' = FALSE /\ net' = NetOff /\ post' = FALSE /\ ui' = NoUi /\ flash' = flash
<1>1. Swapped(img) \in Images
  BY SwappedType DEF TypeOK
<1>2. Swapped(img).sure \in BOOLEAN
  BY <1>1 DEF Images
<1> QED BY <1>1, <1>2 DEF Restarted, TypeOK, Health

\* What a reboot leaves.
LEMMA RebootType ==
  ASSUME TypeOK, NEW keep \in Noinits, Reboot(keep)
  PROVE  TypeOK'
<1>1. world' \in Worlds
  <2>1. InFlight \in BOOLEAN
    BY DEF InFlight
  <2> QED BY <2>1 DEF Reboot, TypeOK, Worlds
<1> QED BY <1>1, RestartedType, OffType DEF Reboot, TypeOK

LEMMA PowerOnType ==
  ASSUME TypeOK, PowerOn
  PROVE  TypeOK'
<1>1. Cold \in Noinits
  BY DEF Cold, Noinits
<1>2. world' \in Worlds
  <2>1. PICK p \in BOOLEAN : Act([world EXCEPT !.excused = @ \/ InFlight, !.plugged = p])
    BY DEF PowerOn
  <2>2. [world EXCEPT !.excused = @ \/ InFlight, !.plugged = p] \in Worlds
    BY DEF InFlight, TypeOK, Worlds
  <2> QED BY <2>1, <2>2, ActType
<1> QED BY <1>1, <1>2, RestartedType, OffType DEF PowerOn, TypeOK

LEMMA NoinitType ==
  ASSUME TypeOK
  PROVE  /\ Warm \in Noinits /\ Unmarked \in Noinits /\ Counted \in Noinits
         /\ [noinit EXCEPT !.blind = 0] \in Noinits /\ Reported \in Flashes
<1>1. Warm \in Noinits /\ Unmarked \in Noinits /\ [noinit EXCEPT !.blind = 0] \in Noinits
  BY DEF TypeOK, Warm, Unmarked, Noinits
<1>2. Counted \in Noinits
  <2>1. Warm.blind \in Nat
    BY <1>1 DEF Noinits
  <2> QED BY <1>1, <2>1 DEF Counted, Noinits
<1>3. Reported \in Flashes
  BY DEF TypeOK, Reported, Flashes
<1> QED BY <1>1, <1>2, <1>3

LEMMA TypeInit == Init => TypeOK
<1> SUFFICES ASSUME Init PROVE TypeOK
  OBVIOUS
<1>1. flash \in Flashes /\ world \in Worlds
  <2>1. PICK tok \in {0, 1} :
          /\ flash = [wifi |-> IF tok = 0 THEN "none" ELSE "good", tok |-> tok, trail |-> 0]
          /\ world = [up |-> TRUE, live |-> tok, wrong |-> 0, long |-> FALSE, feed |-> 2, plugged |-> FALSE,
                      acts |-> 0, excused |-> FALSE]
    BY DEF Init
  <2> QED BY <2>1, LimitsArePlural DEF Flashes, Worlds, Toks
<1>2. noinit \in Noinits /\ img \in Images /\ boot \in Health
  BY DEF Init, Noinits, Images, Health
<1>3. main \in {"start"} /\ ip \in BOOLEAN /\ net \in Nets /\ post \in BOOLEAN /\ ui \in Uis
  BY OffType DEF Init
<1> QED BY <1>1, <1>2, <1>3 DEF TypeOK

\* The main thread.
LEMMA TypeOfMain ==
  ASSUME TypeOK, MainStep
  PROVE  TypeOK'
<1> USE NoinitType
<1>p. \A b \in BOOLEAN : Provision(b) \in Waits
  BY DEF Provision, Waits
<1>w. \A w \in Worlds : Act(w) => world' \in Worlds
  BY ActType
<1>1. CASE Start
  BY <1>1, <1>p DEF Start, TypeOK, Waits
<1>2. CASE Splash
  BY <1>2, <1>p DEF Splash, TypeOK, Waits
<1>3. CASE BootScan
  BY <1>3, <1>p, RebootType DEF BootScan, Reroll, TypeOK, Waits
<1>4. CASE Join
  <2>1. [NetOff EXCEPT !.at = "top", !.first = flash.tok] \in Nets
    BY OffType DEF TypeOK, Nets, Flashes
  <2> QED BY <1>4, <1>p, <1>w, <2>1 DEF Join, Fails, TypeOK, Waits
<1>5. CASE Resume
  BY <1>5, <1>w DEF Resume, Fails, TypeOK, Waits, Flashes
<1>6. CASE SetupScan
  BY <1>6, <1>w, RebootType DEF SetupScan, Reroll, ApStarts, TypeOK, Waits
<1>7. CASE PortalEnds
  BY <1>7 DEF PortalEnds, TypeOK, Waits
<1>8. CASE Bye
  BY <1>8, RebootType DEF Bye
<1>9. CASE Drain
  BY <1>9 DEF Drain, Proven, TypeOK, Health
<1> QED
  BY <1>1, <1>2, <1>3, <1>4, <1>5, <1>6, <1>7, <1>8, <1>9 DEF MainStep

\* The network thread and what it is told.
LEMMA RightedType == ASSUME TypeOK, NEW t \in Toks PROVE Righted(t) \in Worlds
BY DEF Righted, TypeOK, Worlds

LEMMA ReplyType ==
  ASSUME TypeOK, NEW k \in {"granted", "refused", "failed"}, NEW t \in Toks, Reply(k, t), world' \in Worlds
  PROVE  TypeOK'
<1>1. [kind |-> k, tok |-> t] \in Replies
  BY DEF Replies
<1>2. net' \in Nets
  BY <1>1 DEF Reply, TypeOK, Nets
<1> QED BY <1>2 DEF Reply, onNet, TypeOK

LEMMA TypeOfAnswers ==
  ASSUME TypeOK, Answers
  PROVE  TypeOK'
<1>l. world.live \in Toks /\ world.live + 1 \in Toks /\ 0 \in Toks /\ world \in Worlds
  BY DEF TypeOK, Worlds, Toks
<1>w. \A w \in Worlds : Act(w) => world' \in Worlds
  BY ActType
<1>1. CASE Grants
  <2>1. PICK t \in {world.live, world.live + 1} : world' = Righted(t) /\ Reply("granted", t)
    BY <1>1 DEF Grants
  <2> QED BY <1>l, <2>1, RightedType, ReplyType
<1>2. CASE LogsIn
  <2>1. PICK t \in {0, world.live + 1} : world' = Righted(t) /\ Reply("granted", t)
    BY <1>2 DEF LogsIn
  <2> QED BY <1>l, <2>1, RightedType, ReplyType
<1>3. CASE Refuses
  BY <1>3, <1>l, RightedType, ReplyType DEF Refuses
<1>4. CASE Misjudges
  <2> DEFINE excused == world.excused \/ (world.wrong + 1 >= REFRESH_REJECT_LIMIT /\ world.long)
             wrong == world.wrong + 1
  <2>0. excused \in BOOLEAN /\ wrong \in Nat
    BY <1>l DEF Worlds
  <2>1. [world EXCEPT !.wrong = wrong, !.excused = excused] \in Worlds
    <3> HIDE DEF excused, wrong
    <3> QED BY <1>l, <2>0 DEF Worlds
  <2> QED BY <1>4, <1>l, <1>w, <2>1, ReplyType DEF Misjudges
<1>5. CASE Unheard
  BY <1>5, <1>l, <1>w, RightedType, ReplyType DEF Unheard
<1>6. CASE Lost
  <2>1. [Righted(world.live + 1) EXCEPT !.excused = TRUE] \in Worlds
    BY <1>l, RightedType DEF Worlds
  <2> QED BY <1>6, <1>l, <1>w, <2>1, ReplyType DEF Lost
<1> QED BY <1>1, <1>2, <1>3, <1>4, <1>5, <1>6 DEF Answers

LEMMA BackType == ASSUME TypeOK PROVE Back \in Nets /\ Signed \in Nets
<1>1. Back \in Nets
  BY OffType DEF Back, TypeOK, Nets
<1>2. net.reply.tok \in Toks
  BY DEF TypeOK, Nets, Replies
<1>3. Signed \in Nets
  <2> DEFINE churn == IF net.for = "401" THEN net.churn + 1 ELSE net.churn
  <2>1. churn \in Nat
    BY DEF TypeOK, Nets
  <2>2. [net EXCEPT !.at = "top", !.for = "none", !.tok = net.reply.tok, !.reply = NoReply, !.authed = TRUE,
                    !.acc = TRUE, !.rejects = 0, !.churn = churn] \in Nets
    <3> HIDE DEF churn
    <3> QED BY <1>2, <2>1, OffType DEF TypeOK, Nets
  <2> QED BY <2>2, OffType DEF Signed
<1> QED BY <1>1, <1>3

LEMMA TypeOfHears ==
  ASSUME TypeOK, Hears
  PROVE  TypeOK'
<1>b. Back \in Nets /\ Signed \in Nets /\ net.reply.tok \in Toks /\ 0 \in Toks
  BY BackType DEF TypeOK, Nets, Replies, Toks
<1>1. CASE Saves
  <2>1. world' \in Worlds
    <3>1. [world EXCEPT !.excused = TRUE] \in Worlds
      BY DEF TypeOK, Worlds
    <3>2. [world EXCEPT !.excused = @ /\ net.reply.tok # world.live] \in Worlds
      BY DEF TypeOK, Worlds
    <3> QED BY <1>1, <3>1, <3>2, ActType DEF Saves
  <2>2. flash' \in Flashes
    BY <1>1, <1>b DEF Saves, TypeOK, Flashes
  <2>3. main' \in {"start"} \cup Waits
    BY <1>1 DEF Saves, TypeOK, Waits
  <2> QED BY <1>1, <1>b, <2>1, <2>2, <2>3 DEF Saves, TypeOK
<1>2. CASE Shrugs
  <2>0. [Back EXCEPT !.rejects = 0, !.old = FALSE] \in Nets
    BY <1>b DEF Nets
  <2>1. net' \in Nets
    BY <1>2, <1>b, <2>0 DEF Shrugs
  <2> QED BY <1>2, <2>1 DEF Shrugs, onNet, TypeOK
<1>3. CASE Keeps
  <2>1. net' \in Nets
    <3>1. Back.rejects \in Nat /\ Back.old \in BOOLEAN
      BY <1>b DEF Nets
    <3>2. net' = [Back EXCEPT !.rejects = IF @ < REFRESH_REJECT_LIMIT THEN @ + 1 ELSE @, !.old = @ /\ net.rejects > 0]
      BY <1>3 DEF Keeps
    <3> DEFINE rejects == IF Back.rejects < REFRESH_REJECT_LIMIT THEN Back.rejects + 1 ELSE Back.rejects
               old == Back.old /\ net.rejects > 0
    <3>3. rejects \in Nat /\ old \in BOOLEAN
      BY <3>1
    <3>4. net' = [Back EXCEPT !.rejects = rejects, !.old = old]
      BY <3>2
    <3> HIDE DEF rejects, old
    <3> QED BY <1>b, <3>3, <3>4 DEF Nets
  <2> QED BY <1>3, <2>1 DEF Keeps, onNet, TypeOK
<1>4. CASE Wipes
  BY <1>4, <1>b DEF Wipes, onNet, TypeOK, Flashes, Nets
<1> QED BY <1>1, <1>2, <1>3, <1>4 DEF Hears

Works == Rejoin \/ SignIn \/ RefreshAhead \/ Fetch \/ Unauthorized
Updates == Check \/ Load \/ LoadFails \/ Seal \/ Noted \/ Leaves

LEMMA TypeOfWorks ==
  ASSUME TypeOK, Works
  PROVE  TypeOK'
<1>w. Act(world) => world' \in Worlds
  BY ActType DEF TypeOK
<1>a. ASSUME NEW for \in {"start", "ahead", "401"}, Asks(for), world' \in Worlds
      PROVE  TypeOK'
  BY <1>a DEF Asks, onNet, TypeOK, Nets
<1>1. CASE Rejoin
  BY <1>1 DEF Rejoin, TypeOK
<1>2. CASE SignIn
  BY <1>2, <1>a DEF SignIn, TypeOK
<1>3. CASE RefreshAhead
  BY <1>3, <1>a DEF RefreshAhead, TypeOK
<1>4. CASE Fetch
  <2>1. net' \in Nets
    BY <1>4 DEF Fetch, TypeOK, Nets
  <2> QED BY <1>4, <2>1 DEF Fetch, onNet, TypeOK
<1>5. CASE Unauthorized
  <2>1. world' \in Worlds
    BY <1>5, <1>w DEF Unauthorized, TypeOK
  <2> QED BY <1>5, <1>a, <2>1 DEF Unauthorized
<1> QED BY <1>1, <1>2, <1>3, <1>4, <1>5 DEF Works

LEMMA TypeOfUpdates ==
  ASSUME TypeOK, Updates
  PROVE  TypeOK'
<1>w. Act(world) => world' \in Worlds
  BY ActType DEF TypeOK
<1>1. CASE Check
  <2>1. ui' \in Uis
    <3>1. world.feed \in Nat /\ Newer(world.feed) \in BOOLEAN
      BY DEF TypeOK, Worlds, Newer
    <3> QED BY <1>1, <3>1 DEF Check, TypeOK, Uis
  <2> QED BY <1>1, <2>1 DEF Check, onNet, TypeOK
<1>2. CASE Load
  <2>1. net' \in Nets /\ ui' \in Uis
    BY <1>2 DEF Load, TypeOK, Nets, Uis
  <2>2. img' \in Images
    BY <1>2 DEF Load, TypeOK, Images
  <2> QED BY <1>2, <2>1, <2>2 DEF Load, TypeOK
<1>3. CASE LoadFails
  <2>1. world' \in Worlds
    BY <1>3, <1>w DEF LoadFails, TypeOK
  <2>2. net' \in Nets
    BY <1>3 DEF LoadFails, TypeOK, Nets
  <2> QED BY <1>3, <2>1, <2>2 DEF LoadFails, onNet, TypeOK
<1>4. CASE Seal
  <2>1. net' \in Nets /\ img' \in Images
    BY <1>4 DEF Seal, TypeOK, Nets, Images, Uis
  <2> QED BY <1>4, <2>1 DEF Seal, TypeOK
<1>5. CASE Noted
  <2>1. net' \in Nets /\ flash' \in Flashes
    BY <1>5 DEF Noted, Trail, TypeOK, Nets, Flashes, Uis
  <2> QED BY <1>5, <2>1 DEF Noted, onNet, TypeOK
<1>6. CASE Leaves
  BY <1>6, NoinitType, RebootType DEF Leaves
<1> QED BY <1>1, <1>2, <1>3, <1>4, <1>5, <1>6 DEF Updates

\* The trial, and everybody else.
LEMMA TypeOfTrial ==
  ASSUME TypeOK, Trial
  PROVE  TypeOK'
<1>1. CASE Confirm
  BY <1>1 DEF Confirm, TypeOK, Health, Images
<1>2. CASE Deadline
  BY <1>2, NoinitType, RebootType DEF Deadline
<1> QED BY <1>1, <1>2 DEF Trial

LEMMA TypeOfWorld ==
  ASSUME TypeOK, World
  PROVE  TypeOK'
<1>w. \A w \in Worlds : Act(w) => world' \in Worlds
  BY ActType
<1>0. world \in Worlds /\ [world EXCEPT !.up = FALSE] \in Worlds /\ [world EXCEPT !.up = TRUE] \in Worlds
  BY DEF TypeOK, Worlds
<1>1. CASE PowerOn
  BY <1>1, PowerOnType
<1>2. CASE Tethered
  BY <1>2 DEF Tethered, Proven, TypeOK, Health
<1>3. CASE Posts
  <2>1. world' \in Worlds
    BY <1>3, <1>0, <1>w DEF Posts
  <2>2. flash' \in Flashes
    BY <1>3 DEF Posts, TypeOK, Flashes
  <2> QED BY <1>3, <2>1, <2>2 DEF Posts, TypeOK, Waits
<1>4. CASE Pastes
  BY <1>4 DEF Pastes, onNet, TypeOK, Nets
<1>5. CASE LinkDrops
  BY <1>5, <1>0, <1>w DEF LinkDrops, Else, TypeOK
<1>6. CASE RouterDown
  BY <1>6, <1>0, <1>w DEF RouterDown, Else, TypeOK
<1>7. CASE RouterUp
  BY <1>7, <1>0 DEF RouterUp, Else, TypeOK
<1>8. CASE AccessEnds
  BY <1>8 DEF AccessEnds, Else, TypeOK, Nets
<1>9. CASE Revoke
  <2>1. world' \in Worlds
    <3>0. world.live + 1 \in Toks
      BY <1>0 DEF Worlds, Toks
    <3>1. [world EXCEPT !.live = @ + 1, !.excused = TRUE] \in Worlds
      BY <1>0, <3>0 DEF Worlds
    <3> QED BY <1>9, <1>w, <3>1 DEF Revoke
  <2> QED BY <1>9, <2>1 DEF Revoke, Else, TypeOK, Nets
<1>10. CASE HalfHour
  <2> DEFINE excused == world.excused \/ world.wrong >= REFRESH_REJECT_LIMIT
             long == world.wrong > 0
             old == net.rejects > 0
  <2>0. {excused, long, old} \subseteq BOOLEAN
    BY <1>0 DEF Worlds
  <2>3. world' = [world EXCEPT !.long = long, !.excused = excused] /\ net' = [net EXCEPT !.old = old]
    BY <1>10 DEF HalfHour
  <2> HIDE DEF excused, long, old
  <2>1. world' \in Worlds
    BY <1>0, <2>0, <2>3 DEF Worlds
  <2>2. net' \in Nets
    BY <2>0, <2>3 DEF TypeOK, Nets
  <2> QED BY <1>10, <2>1, <2>2 DEF HalfHour, Else, TypeOK
<1>11. CASE Publish
  <2>1. [world EXCEPT !.feed = @ + 1] \in Worlds
    BY <1>0 DEF Worlds
  <2> QED BY <1>11, <1>w, <2>1 DEF Publish, Else, TypeOK
<1>12. CASE Tap
  BY <1>12, <1>0, <1>w DEF Tap, Else, TypeOK, Uis
<1> QED
  BY <1>1, <1>2, <1>3, <1>4, <1>5, <1>6, <1>7, <1>8, <1>9, <1>10, <1>11, <1>12 DEF World

LEMMA TypeStep == TypeOK /\ [Next]_vars => TypeOK'
<1>1. TypeOK /\ UNCHANGED vars => TypeOK'
  BY DEF vars, TypeOK
<1>2. NetStep => Works \/ Updates \/ Hears
  BY DEF NetStep, Works, Updates
<1> QED
  BY <1>1, <1>2, TypeOfMain, TypeOfTrial, TypeOfWorks, TypeOfUpdates, TypeOfHears, TypeOfAnswers, TypeOfWorld DEF Next

\* Types, for any limits and any number of tokens, releases and faults.
THEOREM TypeCorrect == Spec => []TypeOK
<1>1. Init => TypeOK
  BY TypeInit
<1>2. TypeOK /\ [Next]_vars => TypeOK'
  BY TypeStep
<1> QED BY <1>1, <1>2, PTL DEF Spec

-----------------------------------------------------------------------------
(* The login.                                                              *)

\* Which thread does what: the setup exchanges codes, the network thread runs under
\* the gauges only.
Threads ==
  /\ net.at = "off" => net.for # "code"
  /\ net.for = "code" => net.at \in {"asked", "told"} /\ main \in {"ask", "bye"} /\ flash.wifi # "none"
  /\ net.at # "off" /\ net.for # "code" <=> main = "run"

\* A network is there wherever a token is or may come.
Networked ==
  /\ flash.tok # 0 \/ main \in {"ask", "run"} => flash.wifi # "none"
  /\ main = "resume" => flash.tok = 0

\* The token the endpoint takes next is in its reply, or in flash.
Kept == ~world.excused => world.live = IF Told("granted") THEN net.reply.tok ELSE flash.tok

\* The token in RAM, if the network thread has one to use, is that one.
Working == net.at \in {"top", "asked", "told", "load", "sealed"} /\ net.for # "code"
Carried ==
  /\ net.at \in {"asked", "told"} /\ net.for # "code" => (net.for = "start" <=> ~net.authed)
  /\ ~world.excused /\ Working /\ ~Told("granted") => world.live = IF net.authed THEN net.tok ELSE net.first

\* The refusals the board counts are wrong ones, and its half hour is theirs; a row of
\* them that has lasted as long is excused; and a grant ends it.
Wronged ==
  /\ ~world.excused /\ Working /\ net.at # "told" => net.rejects <= world.wrong
  /\ ~world.excused /\ Working /\ Told("refused") => net.rejects + 1 <= world.wrong
Timed ==
  ~world.excused /\ Working /\ (net.at # "told" \/ Told("refused")) /\ net.old /\ net.rejects > 0 => world.long
Endured == world.wrong >= REFRESH_REJECT_LIMIT /\ world.long => world.excused
Cleared == Told("granted") => world.wrong = 0
Row == Wronged /\ Timed /\ Endured /\ Cleared

Inv == Threads /\ Networked /\ Kept /\ Carried /\ Row
IInv == TypeOK /\ Inv

USE DEF Told

\* What the invariant says of each part.
WorldKept == /\ world'.live = world.live /\ world'.wrong = world.wrong
             /\ world'.long = world.long /\ world'.excused = world.excused
FlashKept == flash'.tok = flash.tok /\ flash'.wifi = flash.wifi
TokenKept == /\ net'.first = net.first /\ net'.tok = net.tok /\ net'.authed = net.authed
             /\ net'.rejects = net.rejects /\ net'.old = net.old

LEMMA ActKeeps ==
  ASSUME NEW w \in Worlds, Act(w)
  PROVE  /\ world'.live = w.live /\ world'.wrong = w.wrong
         /\ world'.long = w.long /\ world'.excused = w.excused
BY DEF Act, Worlds

LEMMA WorldActs == ASSUME TypeOK, Act(world) \/ UNCHANGED world PROVE WorldKept
BY ActKeeps DEF TypeOK, WorldKept

\* A step that leaves all of it alone.
LEMMA Untouched ==
  ASSUME Inv, WorldKept, FlashKept, TokenKept, net'.at = net.at, net'.for = net.for, net'.reply = net.reply,
         main' = main
  PROVE  Inv'
BY DEF Inv, Threads, Networked, Kept, Working, Carried, Row, Wronged, Timed, Endured, Cleared, WorldKept,
       FlashKept, TokenKept

\* A step of the main thread between its waits, with no network thread.
LEMMA Moves ==
  ASSUME TypeOK, Inv, WorldKept, FlashKept, UNCHANGED net,
         net.at = "off" \/ net.for = "code", main # "run", main' # "run",
         main' = "ask" => flash.wifi # "none", main' = "resume" => flash.tok = 0,
         net.for = "code" => main' = "bye"
  PROVE  Inv'
BY DEF Inv, Threads, Networked, Kept, Working, Carried, Row, Wronged, Timed, Endured, Cleared, WorldKept, FlashKept

\* After a reboot the token in flash is all there is.
LEMMA Rebooted ==
  ASSUME TypeOK, Inv, Restarted, world'.live = world.live, world'.wrong = world.wrong, world'.long = world.long,
         world'.excused = (world.excused \/ InFlight)
  PROVE  Inv'
<1>1. flash' = flash /\ net' = NetOff /\ main' = "start"
  BY RestartedType
<1>2. NetOff.at = "off" /\ NetOff.for = "none"
  BY DEF NetOff
<1>3. Kept'
  <2> SUFFICES ASSUME ~world'.excused PROVE world'.live = flash'.tok
    BY <1>1, <1>2 DEF Kept
  <2>1. ~world.excused /\ ~InFlight
    OBVIOUS
  <2> QED BY <1>1, <2>1 DEF Inv, Kept, InFlight
<1> QED BY <1>1, <1>2, <1>3 DEF Inv, Threads, Networked, Working, Carried, Row, Wronged, Timed, Endured, Cleared

LEMMA RebootKeeps == ASSUME TypeOK, Inv, NEW keep, Reboot(keep) PROVE Inv'
<1>1. Restarted /\ world' = [world EXCEPT !.excused = @ \/ InFlight]
  BY DEF Reboot
<1> DEFINE e == world.excused \/ InFlight
<1>2. e \in BOOLEAN
  BY DEF InFlight
<1>3. /\ world'.live = world.live /\ world'.wrong = world.wrong /\ world'.long = world.long
      /\ world'.excused = e
  <2>1. world' = [world EXCEPT !.excused = e]
    BY <1>1
  <2> HIDE DEF e
  <2> QED BY <1>2, <2>1 DEF TypeOK, Worlds
<1> QED BY <1>1, <1>3, Rebooted

LEMMA PowerOnKeeps == ASSUME TypeOK, Inv, PowerOn PROVE Inv'
<1> DEFINE e == world.excused \/ InFlight
<1>1. PICK p \in BOOLEAN : Act([world EXCEPT !.excused = e, !.plugged = p])
  BY DEF PowerOn
<1>2. e \in BOOLEAN
  BY DEF InFlight
<1> DEFINE w == [world EXCEPT !.excused = e, !.plugged = p]
<1>3. w \in Worlds /\ w.live = world.live /\ w.wrong = world.wrong /\ w.long = world.long /\ w.excused = e
  <2> HIDE DEF e
  <2> QED BY <1>2 DEF TypeOK, Worlds
<1>4. /\ world'.live = world.live /\ world'.wrong = world.wrong /\ world'.long = world.long
      /\ world'.excused = e
  <2>1. Act(w)
    BY <1>1
  <2> HIDE DEF w
  <2> QED BY <1>3, <2>1, ActKeeps
<1>5. Restarted
  BY DEF PowerOn
<1> QED BY <1>4, <1>5, Rebooted

LEMMA InitHolds == Init => Inv
<1> SUFFICES ASSUME Init PROVE Inv
  OBVIOUS
<1>1. PICK tok \in {0, 1} :
        /\ flash = [wifi |-> IF tok = 0 THEN "none" ELSE "good", tok |-> tok, trail |-> 0]
        /\ world = [up |-> TRUE, live |-> tok, wrong |-> 0, long |-> FALSE, feed |-> 2, plugged |-> FALSE,
                    acts |-> 0, excused |-> FALSE]
  BY DEF Init
<1>2. net.at = "off" /\ net.for = "none" /\ main = "start"
  BY DEF Init, NetOff
<1>3. world.live = flash.tok /\ world.long = FALSE /\ (flash.tok # 0 => flash.wifi # "none")
  BY <1>1
<1> QED BY <1>2, <1>3 DEF Inv, Threads, Networked, Kept, Working, Carried, Row, Wronged, Timed, Endured, Cleared

LEMMA MainKeeps ==
  ASSUME TypeOK, Inv, MainStep
  PROVE  Inv'
<1>o. main \notin {"run", "ask", "bye"} => net.at = "off" /\ net.for # "code"
  BY DEF Inv, Threads, TypeOK, Nets
<1>p. \A b \in BOOLEAN : /\ Provision(b) \in {"resume", "air"}
                         /\ Provision(b) = "resume" => ~b /\ flash.wifi # "none"
  BY DEF Provision
<1>1. CASE Start
  <2>1. /\ main = "start" /\ main' \in {"resume", "air", "splash"} /\ (main' = "resume" => flash.tok = 0)
        /\ UNCHANGED <<flash, net, world>>
    BY <1>1, <1>p DEF Start
  <2> QED BY <1>o, <2>1, Moves DEF WorldKept, FlashKept
<1>2. CASE Splash
  <2>1. /\ main = "splash" /\ main' \in {"usb", "sky", "resume", "air"} /\ UNCHANGED <<net, world>>
        /\ flash' \in {flash, Reported}
    BY <1>2, <1>p DEF Splash
  <2>2. main' = "resume" => flash.tok = 0
    BY <1>2, <1>p DEF Splash
  <2>3. FlashKept
    BY <2>1 DEF Reported, TypeOK, Flashes, FlashKept
  <2> QED BY <1>o, <2>1, <2>2, <2>3, Moves DEF WorldKept
<1>3. CASE BootScan
  <2>1. CASE Reroll
    BY <2>1, RebootKeeps DEF Reroll
  <2>2. CASE ~Reroll
    <3>1. main = "sky" /\ main' \in {"air", "join"} /\ UNCHANGED <<flash, net, world>>
      BY <1>3, <1>p, <2>2 DEF BootScan
    <3> QED BY <1>o, <3>1, Moves DEF WorldKept, FlashKept
  <2> QED BY <2>1, <2>2
<1>4. CASE Join
  <2>1. main \in {"join", "again"} /\ UNCHANGED flash
    BY <1>4 DEF Join
  <2>2. CASE main' = "run"
    <3>1. /\ flash.wifi = "good" /\ UNCHANGED world
          /\ net' = [NetOff EXCEPT !.at = "top", !.first = flash.tok]
      BY <1>4, <1>p, <2>2 DEF Join, Joinable
    <3>2. net'.at = "top" /\ net'.for = "none" /\ net'.first = flash.tok /\ net'.authed = FALSE /\ net'.rejects = 0
      BY <3>1 DEF NetOff
    <3>3. world.wrong \in Nat /\ net.at = "off"
      BY <1>o, <2>1 DEF TypeOK, Worlds
    <3> QED BY <2>1, <2>2, <3>1, <3>2, <3>3
          DEF Inv, Threads, Networked, Kept, Working, Carried, Row, Wronged, Timed, Endured, Cleared
  <2>3. CASE main' # "run"
    <3>1. main' \in {"again", "air"} /\ UNCHANGED net /\ (Act(world) \/ UNCHANGED world)
      BY <1>4, <1>p, <2>3 DEF Join, Fails
    <3> QED BY <1>o, <2>1, <3>1, WorldActs, Moves DEF FlashKept
  <2> QED BY <2>2, <2>3
<1>5. CASE Resume
  <2>1. main = "resume" /\ UNCHANGED net /\ (Act(world) \/ UNCHANGED world)
    BY <1>5 DEF Resume, Fails
  <2>2. CASE main' = "ask"
    BY <1>5, <1>o, <2>1, <2>2, WorldActs, Moves DEF Resume, Joinable, FlashKept
  <2>3. CASE main' # "ask"
    <3>1. main' = "air" /\ flash' = [flash EXCEPT !.wifi = "none"]
      BY <1>5, <2>3 DEF Resume
    <3>2. flash'.tok = flash.tok /\ flash.tok = 0
      BY <2>1, <3>1 DEF Inv, Networked, TypeOK, Flashes
    <3>3. WorldKept
      BY <2>1, WorldActs
    <3> QED BY <1>o, <2>1, <3>1, <3>2, <3>3
          DEF Inv, Threads, Networked, Kept, Working, Carried, Row, Wronged, Timed, Endured, Cleared, WorldKept
  <2> QED BY <2>2, <2>3
<1>6. CASE SetupScan
  <2>1. CASE Reroll
    BY <2>1, RebootKeeps DEF Reroll
  <2>2. CASE ~Reroll
    <3>1. main = "air" /\ main' \in {"ap", "bye"} /\ UNCHANGED <<flash, net>> /\ (Act(world) \/ UNCHANGED world)
      BY <1>6, <2>2 DEF SetupScan, ApStarts
    <3> QED BY <1>o, <3>1, WorldActs, Moves DEF FlashKept
  <2> QED BY <2>1, <2>2
<1>7. CASE PortalEnds
  <2>1. main \in {"ap", "ask"} /\ main' = "bye" /\ UNCHANGED <<flash, net, world>>
    BY <1>7 DEF PortalEnds
  <2>2. net.at = "off" \/ net.for = "code"
    BY <2>1 DEF Inv, Threads
  <2> QED BY <2>1, <2>2, Moves DEF WorldKept, FlashKept
<1>8. CASE Bye
  BY <1>8, RebootKeeps DEF Bye
<1>9. CASE Drain
  BY <1>9, Untouched DEF Drain, WorldKept, FlashKept, TokenKept
<1> QED
  BY <1>1, <1>2, <1>3, <1>4, <1>5, <1>6, <1>7, <1>8, <1>9 DEF MainStep

LEMMA TrialKeeps ==
  ASSUME TypeOK, Inv, Trial
  PROVE  Inv'
<1>1. CASE Confirm
  BY <1>1, Untouched DEF Confirm, WorldKept, FlashKept, TokenKept
<1>2. CASE Deadline
  BY <1>2, RebootKeeps DEF Deadline
<1> QED BY <1>1, <1>2 DEF Trial

\* A question of the network thread's, which has nothing else under way.
LEMMA AsksKeeps ==
  ASSUME TypeOK, Inv, NEW for \in {"start", "ahead", "401"}, Asks(for), WorldKept, for = "start" <=> ~net.authed
  PROVE  Inv'
<1>1. net.at = "top" /\ UNCHANGED <<flash, main>> /\ net' = [net EXCEPT !.at = "asked", !.for = for]
  BY DEF Asks, Online, AtTop, onNet
<1>2. net'.at = "asked" /\ net'.for = for /\ TokenKept
  BY <1>1 DEF TypeOK, Nets, TokenKept
<1>3. net.for # "code" /\ main = "run"
  BY <1>1 DEF Inv, Threads
<1> QED
  BY <1>1, <1>2, <1>3
      DEF Inv, Threads, Networked, Kept, Working, Carried, Row, Wronged, Timed, Endured, Cleared, WorldKept, TokenKept

LEMMA WorksKeeps ==
  ASSUME TypeOK, Inv, Works
  PROVE  Inv'
<1>1. CASE Rejoin
  BY <1>1, Untouched DEF Rejoin, WorldKept, FlashKept, TokenKept
<1>2. CASE SignIn
  BY <1>2, AsksKeeps DEF SignIn, WorldKept
<1>3. CASE RefreshAhead
  BY <1>3, AsksKeeps DEF RefreshAhead, WorldKept
<1>4. CASE Fetch
  <2>1. UNCHANGED <<flash, main, world>> /\ net' = [net EXCEPT !.had = TRUE, !.churn = 0]
    BY <1>4 DEF Fetch, onNet
  <2>2. TokenKept /\ net'.at = net.at /\ net'.for = net.for /\ net'.reply = net.reply
    BY <2>1 DEF TypeOK, Nets, TokenKept
  <2> QED BY <2>1, <2>2, Untouched DEF WorldKept, FlashKept
<1>5. CASE Unauthorized
  BY <1>5, WorldActs, AsksKeeps DEF Unauthorized
<1> QED BY <1>1, <1>2, <1>3, <1>4, <1>5 DEF Works

\* In an install the thread goes from one step to the next, and out.
LEMMA Installs ==
  ASSUME TypeOK, Inv, WorldKept, FlashKept, NEW to \in {"top", "load", "sealed", "gone"}, net' = [net EXCEPT !.at = to],
         net.at \in {"top", "load", "sealed"}, main' = main
  PROVE  Inv'
<1>1. net'.at = to /\ net'.for = net.for /\ TokenKept
  BY DEF TypeOK, Nets, TokenKept
<1>2. net.for # "code" /\ main = "run"
  BY DEF Inv, Threads
<1> QED
  BY <1>1, <1>2
      DEF Inv, Threads, Networked, Kept, Working, Carried, Row, Wronged, Timed, Endured, Cleared,
          WorldKept, FlashKept, TokenKept

LEMMA UpdatesKeep ==
  ASSUME TypeOK, Inv, Updates
  PROVE  Inv'
<1>1. CASE Check
  BY <1>1, Untouched DEF Check, onNet, WorldKept, FlashKept, TokenKept
<1>2. CASE Load
  BY <1>2, Installs DEF Load, Online, AtTop, WorldKept, FlashKept
<1>3. CASE LoadFails
  BY <1>3, WorldActs, Installs DEF LoadFails, onNet, FlashKept
<1>4. CASE Seal
  BY <1>4, Installs DEF Seal, WorldKept, FlashKept
<1>5. CASE Noted
  <2>1. flash' = [flash EXCEPT !.trail = Trail]
    BY <1>5 DEF Noted
  <2>2. FlashKept
    BY <2>1 DEF TypeOK, Flashes, FlashKept
  <2> QED BY <1>5, <2>2, Installs DEF Noted, onNet, WorldKept
<1>6. CASE Leaves
  BY <1>6, RebootKeeps DEF Leaves
<1> QED BY <1>1, <1>2, <1>3, <1>4, <1>5, <1>6 DEF Updates

\* What a reply changes: the question is answered, by the world as it is then.
LEMMA Replied ==
  ASSUME TypeOK, NEW k \in {"granted", "refused", "failed"}, NEW t \in Toks, Reply(k, t)
  PROVE  /\ net'.at = "told" /\ net'.for = net.for /\ net'.reply.kind = k /\ net'.reply.tok = t
         /\ TokenKept /\ FlashKept /\ main' = main
<1>1. net' = [net EXCEPT !.at = "told", !.reply = [kind |-> k, tok |-> t]]
  BY DEF Reply
<1> QED BY <1>1 DEF Reply, onNet, TypeOK, Nets, TokenKept, FlashKept

LEMMA RightedIs ==
  ASSUME TypeOK, NEW t \in Toks
  PROVE  /\ Righted(t).live = t /\ Righted(t).wrong = 0 /\ Righted(t).long = FALSE
         /\ Righted(t).excused = world.excused
BY DEF Righted, TypeOK, Worlds

LEMMA AnswersKeep ==
  ASSUME TypeOK, Inv, Answers
  PROVE  Inv'
<1>l. world.live \in Toks /\ world.live + 1 \in Toks /\ 0 \in Toks /\ world \in Worlds
  BY DEF TypeOK, Worlds, Toks
<1>n. world.wrong \in Nat /\ net.rejects \in Nat /\ REFRESH_REJECT_LIMIT \in Nat /\ REFRESH_REJECT_LIMIT > 0
  BY LimitsArePlural DEF TypeOK, Worlds, Nets
<1>a. net.at = "asked"
  BY DEF Answers, Grants, LogsIn, Refuses, Misjudges, Unheard, Lost, Reached, Asked
<1>s. ~world.excused /\ net.for # "code" => Sent = world.live
  BY <1>a DEF Sent, Inv, Carried, Working
<1>g. ASSUME NEW t \in Toks, world' = Righted(t), Reply("granted", t)
      PROVE  Inv'
  <2>1. world'.live = t /\ world'.wrong = 0 /\ world'.long = FALSE /\ world'.excused = world.excused
    BY <1>g, RightedIs
  <2> QED
    BY <1>a, <1>n, <1>g, <2>1, Replied
        DEF Inv, Threads, Networked, Kept, Working, Carried, Row, Wronged, Timed, Endured, Cleared, TokenKept, FlashKept
<1>f. ASSUME NEW t \in Toks, NEW k \in {"refused", "failed"}, Reply(k, 0),
             world'.wrong = 0, world'.live = t, world'.long = FALSE,
             world'.excused \/ (t = world.live /\ world'.excused = world.excused
                                /\ (k = "failed" \/ net.for = "code"))
      PROVE  Inv'
  BY <1>a, <1>l, <1>n, <1>f, Replied
      DEF Inv, Threads, Networked, Kept, Working, Carried, Row, Wronged, Timed, Endured, Cleared, TokenKept, FlashKept
<1>1. CASE Grants
  <2>1. PICK t \in {world.live, world.live + 1} : world' = Righted(t) /\ Reply("granted", t)
    BY <1>1 DEF Grants
  <2> QED BY <1>l, <1>g, <2>1
<1>2. CASE LogsIn
  <2>1. PICK t \in {0, world.live + 1} : world' = Righted(t) /\ Reply("granted", t)
    BY <1>2 DEF LogsIn
  <2> QED BY <1>l, <1>g, <2>1
<1>3. CASE Refuses
  <2>1. world' = Righted(world.live) /\ Reply("refused", 0) /\ (net.for = "code" \/ Sent # world.live)
    BY <1>3 DEF Refuses
  <2>2. world'.live = world.live /\ world'.wrong = 0 /\ world'.long = FALSE /\ world'.excused = world.excused
    BY <1>l, <2>1, RightedIs
  <2>3. world.excused \/ net.for = "code"
    BY <2>1, <1>s
  <2> QED BY <1>l, <1>f, <2>1, <2>2, <2>3
<1>4. CASE Misjudges
  <2> DEFINE excused == world.excused \/ (world.wrong + 1 >= REFRESH_REJECT_LIMIT /\ world.long)
             wrong == world.wrong + 1
             w == [world EXCEPT !.wrong = wrong, !.excused = excused]
  <2>1. Act(w) /\ Reply("refused", 0) /\ net.for # "code"
    BY <1>4 DEF Misjudges
  <2>2. excused \in BOOLEAN /\ wrong \in Nat
    BY <1>l DEF Worlds
  <2>3. w \in Worlds /\ w.live = world.live /\ w.wrong = wrong /\ w.long = world.long /\ w.excused = excused
    <3> HIDE DEF excused, wrong
    <3> QED BY <1>l, <2>2 DEF Worlds
  <2>4. world'.live = world.live /\ world'.wrong = wrong /\ world'.long = world.long /\ world'.excused = excused
    <3> HIDE DEF w
    <3> QED BY <2>1, <2>3, ActKeeps
  <2> HIDE DEF w
  <2>5. Told("refused")' /\ TokenKept /\ FlashKept /\ main' = main /\ net'.for = net.for
    BY <2>1, <1>l, Replied
  <2>6. (Threads /\ Networked /\ Kept /\ Carried)'
    BY <1>a, <2>1, <2>4, <2>5 DEF Inv, Threads, Networked, Kept, Working, Carried, TokenKept, FlashKept
  <2>7. ~world.excused => net.rejects <= world.wrong /\ (net.old /\ net.rejects > 0 => world.long)
    BY <1>a, <2>1 DEF Inv, Row, Wronged, Timed, Endured, Cleared, Working
  <2>8. net'.at = "told" /\ net'.reply.kind = "refused" /\ net'.rejects = net.rejects /\ net'.old = net.old
    BY <2>5 DEF TokenKept
  <2>9. /\ world.excused => world'.excused
        /\ world.wrong + 1 >= REFRESH_REJECT_LIMIT /\ world.long => world'.excused
    <3>1. (world.excused => excused) /\ (world.wrong + 1 >= REFRESH_REJECT_LIMIT /\ world.long => excused)
      OBVIOUS
    <3> HIDE DEF excused
    <3> QED BY <2>4, <3>1
  <2>10. world'.wrong = world.wrong + 1 /\ world'.long = world.long
    BY <2>4
  <2> HIDE DEF excused, wrong
  <2>11. Row'
    BY <1>n, <2>7, <2>8, <2>9, <2>10 DEF Row, Wronged, Timed, Endured, Cleared, Working
  <2> QED BY <2>6, <2>11 DEF Inv
<1>5. CASE Unheard
  <2>1. (world' = Righted(world.live) \/ Act(Righted(world.live))) /\ Reply("failed", 0)
    BY <1>5 DEF Unheard
  <2>2. world'.live = world.live /\ world'.wrong = 0 /\ world'.long = FALSE /\ world'.excused = world.excused
    <3> DEFINE w == Righted(world.live)
    <3>1. /\ w \in Worlds /\ w.live = world.live /\ w.wrong = 0 /\ w.long = FALSE /\ w.excused = world.excused
          /\ world' = w \/ Act(w)
      BY <1>l, <2>1, RightedIs, RightedType
    <3> HIDE DEF w
    <3> QED BY <3>1, ActKeeps
  <2> QED BY <1>l, <1>f, <2>1, <2>2
<1>6. CASE Lost
  <2> DEFINE w == [Righted(world.live + 1) EXCEPT !.excused = TRUE]
  <2>1. Act(w) /\ Reply("failed", 0)
    BY <1>6 DEF Lost
  <2>2. w \in Worlds /\ w.live = world.live + 1 /\ w.wrong = 0 /\ w.long = FALSE /\ w.excused = TRUE
    BY <1>l, RightedIs, RightedType DEF Worlds
  <2> HIDE DEF w
  <2>3. world'.live = world.live + 1 /\ world'.wrong = 0 /\ world'.long = FALSE /\ world'.excused = TRUE
    BY <2>1, <2>2, ActKeeps
  <2> QED BY <1>l, <1>f, <2>1, <2>3
<1> QED BY <1>1, <1>2, <1>3, <1>4, <1>5, <1>6 DEF Answers

LEMMA BackIs ==
  ASSUME TypeOK
  PROVE  /\ Back.at = (IF net.for = "code" THEN "off" ELSE "top") /\ Back.for = "none"
         /\ Back.first = net.first /\ Back.tok = net.tok /\ Back.authed = net.authed
         /\ Back.rejects = net.rejects /\ Back.old = net.old
BY DEF Back, TypeOK, Nets

\* The thread goes on with the token it had.
LEMMA GoesOn ==
  ASSUME Inv, UNCHANGED <<flash, main, world>>, net.at = "told", ~Told("granted"),
         net'.at = IF net.for = "code" THEN "off" ELSE "top", net'.for = "none",
         net'.first = net.first, net'.tok = net.tok, net'.authed = net.authed, net'.rejects \in Nat, world.wrong \in Nat,
         ~world.excused /\ net.for # "code" =>
           net'.rejects <= world.wrong /\ (net'.old /\ net'.rejects > 0 => world.long)
  PROVE  Inv'
BY DEF Inv, Threads, Networked, Kept, Working, Carried, Row, Wronged, Timed, Endured, Cleared

LEMMA HearsKeep ==
  ASSUME TypeOK, Inv, Hears
  PROVE  Inv'
<1>n. world.wrong \in Nat /\ net.rejects \in Nat /\ REFRESH_REJECT_LIMIT \in Nat /\ REFRESH_REJECT_LIMIT > 0
  BY LimitsArePlural DEF TypeOK, Worlds, Nets
<1>b. Back \in Nets
  BY BackType
<1>1. CASE Saves
  <2>1. Told("granted") /\ net' = Signed /\ main' = IF net.for = "code" THEN "bye" ELSE main
    BY <1>1 DEF Saves
  <2>2. flash'.wifi = flash.wifi /\ flash'.tok \in {flash.tok, net.reply.tok}
    BY <1>1 DEF Saves, TypeOK, Flashes
  <2>3. /\ world'.live = world.live /\ world'.wrong = world.wrong /\ world'.long = world.long
        /\ ~world'.excused => flash'.tok = net.reply.tok /\ (net.reply.tok = world.live \/ ~world.excused)
    <3>1. CASE Act([world EXCEPT !.excused = TRUE])
      <4> DEFINE w == [world EXCEPT !.excused = TRUE]
      <4>1. /\ w \in Worlds /\ w.live = world.live /\ w.wrong = world.wrong /\ w.long = world.long
            /\ w.excused = TRUE
        BY DEF TypeOK, Worlds
      <4>2. Act(w)
        BY <3>1
      <4> HIDE DEF w
      <4> QED BY <4>1, <4>2, ActKeeps
    <3>2. CASE /\ flash' = [flash EXCEPT !.tok = net.reply.tok]
               /\ world' = [world EXCEPT !.excused = @ /\ net.reply.tok # world.live]
      BY <3>2 DEF TypeOK, Flashes, Worlds
    <3> QED BY <1>1, <3>1, <3>2 DEF Saves
  <2>4. world.wrong = 0 /\ (~world.excused => world.live = net.reply.tok)
    BY <2>1 DEF Inv, Kept, Row, Wronged, Timed, Endured, Cleared
  <2>5. ~world'.excused => flash'.tok = net.reply.tok /\ net.reply.tok = world.live
    BY <2>3, <2>4
  <2>6. CASE net.for = "code"
    <3>1. net'.at = "off" /\ net'.for = "none"
      BY <2>1, <2>6 DEF Signed, NetOff
    <3>2. flash.wifi # "none" /\ main' = "bye"
      BY <2>1, <2>6 DEF Inv, Threads
    <3> QED BY <1>n, <2>2, <2>3, <2>4, <2>5, <3>1, <3>2
          DEF Inv, Threads, Networked, Kept, Working, Carried, Row, Wronged, Timed, Endured, Cleared
  <2>7. CASE net.for # "code"
    <3>1. /\ net'.at = "top" /\ net'.for = "none" /\ net'.tok = net.reply.tok /\ net'.authed = TRUE
          /\ net'.rejects = 0
      BY <2>1, <2>7 DEF Signed, TypeOK, Nets
    <3>2. main = "run" /\ main' = "run" /\ flash.wifi # "none"
      BY <2>1, <2>7 DEF Inv, Threads, Networked
    <3> QED BY <1>n, <2>2, <2>3, <2>4, <2>5, <3>1, <3>2
          DEF Inv, Threads, Networked, Kept, Working, Carried, Row, Wronged, Timed, Endured, Cleared
  <2> QED BY <2>6, <2>7
<1>2. CASE Shrugs
  <2>1. UNCHANGED <<flash, main, world>> /\ net.at = "told" /\ ~Told("granted")
    BY <1>2 DEF Shrugs, onNet
  <2>2. /\ net'.at = (IF net.for = "code" THEN "off" ELSE "top") /\ net'.for = "none"
        /\ net'.first = net.first /\ net'.tok = net.tok /\ net'.authed = net.authed
        /\ net'.rejects \in Nat /\ (net.for # "code" => net'.rejects = 0)
    <3>1. CASE net' = [Back EXCEPT !.rejects = 0, !.old = FALSE]
      BY <1>b, <3>1, BackIs DEF Nets
    <3>2. CASE net' = Back /\ net.for = "code"
      BY <1>n, <3>2, BackIs
    <3> QED BY <1>2, <3>1, <3>2 DEF Shrugs
  <2> QED BY <1>n, <2>1, <2>2, GoesOn
<1>3. CASE Keeps
  <2> DEFINE rejects == IF Back.rejects < REFRESH_REJECT_LIMIT THEN Back.rejects + 1 ELSE Back.rejects
             old == Back.old /\ net.rejects > 0
  <2>1. /\ UNCHANGED <<flash, main, world>> /\ Told("refused") /\ net.for # "code"
        /\ net' = [Back EXCEPT !.rejects = rejects, !.old = old]
    BY <1>3 DEF Keeps, onNet
  <2>2. rejects \in Nat /\ rejects <= net.rejects + 1 /\ old \in BOOLEAN /\ (old => net.old /\ net.rejects > 0)
    BY <1>n, BackIs
  <2> HIDE DEF rejects, old
  <2>3. /\ net'.at = "top" /\ net'.for = "none" /\ net'.first = net.first /\ net'.tok = net.tok
        /\ net'.authed = net.authed /\ net'.rejects = rejects /\ net'.old = old
    BY <1>b, <2>1, BackIs DEF Nets
  <2>4. ~world.excused => rejects <= world.wrong /\ (old => world.long)
    <3>1. ~world.excused => net.rejects + 1 <= world.wrong /\ (net.old /\ net.rejects > 0 => world.long)
      BY <2>1 DEF Inv, Row, Wronged, Timed, Endured, Cleared, Working
    <3> QED BY <1>n, <2>2, <3>1
  <2> QED BY <1>n, <2>1, <2>2, <2>3, <2>4, GoesOn
<1>4. CASE Wipes
  <2>1. /\ Told("refused") /\ net.for # "code" /\ UNCHANGED <<main, world>>
        /\ flash' = [flash EXCEPT !.tok = 0] /\ net' = [net EXCEPT !.at = "gone"]
    BY <1>4 DEF Wipes, onNet
  <2>2. net.rejects > 0 /\ net.rejects + 1 >= REFRESH_REJECT_LIMIT /\ net.old
    BY <1>4 DEF Wipes, Broken
  <2>3. world.excused
    <3>1. ~world.excused => net.rejects + 1 <= world.wrong /\ world.long
      BY <2>1, <2>2 DEF Inv, Row, Wronged, Timed, Endured, Cleared, Working
    <3>2. world.wrong >= REFRESH_REJECT_LIMIT /\ world.long => world.excused
      BY DEF Inv, Row, Wronged, Timed, Endured, Cleared
    <3> QED BY <1>n, <2>2, <3>1, <3>2
  <2>4. net'.at = "gone" /\ net'.for = net.for /\ flash'.tok = 0 /\ flash'.wifi = flash.wifi
    BY <2>1 DEF TypeOK, Nets, Flashes
  <2> QED BY <2>1, <2>3, <2>4
        DEF Inv, Threads, Networked, Kept, Working, Carried, Row, Wronged, Timed, Endured, Cleared
<1> QED BY <1>1, <1>2, <1>3, <1>4 DEF Hears

LEMMA WorldKeeps ==
  ASSUME TypeOK, Inv, World
  PROVE  Inv'
<1>0. world \in Worlds
  BY DEF TypeOK
<1>n. world.wrong \in Nat /\ net.rejects \in Nat /\ REFRESH_REJECT_LIMIT \in Nat /\ REFRESH_REJECT_LIMIT > 0
  BY LimitsArePlural DEF TypeOK, Worlds, Nets
<1>u. ASSUME NEW w \in Worlds, w.live = world.live, w.wrong = world.wrong, w.long = world.long, w.excused = world.excused,
             Act(w) \/ world' = w
      PROVE  WorldKept
  BY <1>u, ActKeeps DEF WorldKept
<1>1. CASE PowerOn
  BY <1>1, PowerOnKeeps
<1>2. CASE Tethered
  BY <1>2, Untouched DEF Tethered, Proven, WorldKept, FlashKept, TokenKept
<1>3. CASE Posts
  <2>1. main = "ap" /\ main' = "bye" /\ UNCHANGED net /\ flash'.tok = flash.tok /\ flash'.wifi # "none"
    BY <1>3 DEF Posts, TypeOK, Flashes
  <2>2. WorldKept
    BY <1>3, WorldActs DEF Posts
  <2> QED BY <2>1, <2>2
        DEF Inv, Threads, Networked, Kept, Working, Carried, Row, Wronged, Timed, Endured, Cleared, WorldKept
<1>4. CASE Pastes
  <2>1. main = "ask" /\ UNCHANGED <<flash, main, world>> /\ net' = [net EXCEPT !.at = "asked", !.for = "code"]
    BY <1>4 DEF Pastes, MayPaste, onNet
  <2>2. net'.at = "asked" /\ net'.for = "code" /\ net.at = "off"
    BY <1>4, <2>1 DEF Pastes, MayPaste, TypeOK, Nets
  <2> QED BY <2>1, <2>2 DEF Inv, Threads, Networked, Kept, Working, Carried, Row, Wronged, Timed, Endured, Cleared
<1>5. CASE LinkDrops
  BY <1>5, WorldActs, Untouched DEF LinkDrops, Else, FlashKept, TokenKept
<1>6. CASE RouterDown
  <2>1. WorldKept
    BY <1>0, <1>6, <1>u DEF RouterDown, Worlds
  <2> QED BY <1>6, <2>1, Untouched DEF RouterDown, Else, FlashKept, TokenKept
<1>7. CASE RouterUp
  <2>1. WorldKept
    BY <1>0, <1>7, <1>u DEF RouterUp, Worlds
  <2> QED BY <1>7, <2>1, Untouched DEF RouterUp, Else, FlashKept, TokenKept
<1>8. CASE AccessEnds
  <2>1. TokenKept /\ net'.at = net.at /\ net'.for = net.for /\ net'.reply = net.reply
    BY <1>8 DEF AccessEnds, TypeOK, Nets, TokenKept
  <2> QED BY <1>8, <2>1, Untouched DEF AccessEnds, Else, WorldKept, FlashKept
<1>9. CASE Revoke
  <2> DEFINE w == [world EXCEPT !.live = @ + 1, !.excused = TRUE]
  <2>1. Act(w) /\ UNCHANGED <<flash, main>> /\ net' = [net EXCEPT !.acc = FALSE]
    BY <1>9 DEF Revoke, Else
  <2>2. w \in Worlds /\ w.wrong = world.wrong /\ w.long = world.long /\ w.excused = TRUE
    <3>1. world.live + 1 \in Toks
      BY <1>0 DEF Worlds, Toks
    <3> QED BY <1>0, <3>1 DEF Worlds
  <2> HIDE DEF w
  <2>3. world'.wrong = world.wrong /\ world'.long = world.long /\ world'.excused = TRUE
    BY <2>1, <2>2, ActKeeps
  <2>4. TokenKept /\ net'.at = net.at /\ net'.for = net.for /\ net'.reply = net.reply
    BY <2>1 DEF TypeOK, Nets, TokenKept
  <2> QED BY <2>1, <2>3, <2>4
        DEF Inv, Threads, Networked, Kept, Working, Carried, Row, Wronged, Timed, Endured, Cleared, TokenKept
<1>10. CASE HalfHour
  <2> DEFINE excused == world.excused \/ world.wrong >= REFRESH_REJECT_LIMIT
             long == world.wrong > 0
             old == net.rejects > 0
  <2>0. {excused, long, old} \subseteq BOOLEAN
    BY <1>0 DEF Worlds
  <2>1. /\ world' = [world EXCEPT !.long = long, !.excused = excused] /\ net' = [net EXCEPT !.old = old]
        /\ UNCHANGED <<flash, main>>
    BY <1>10 DEF HalfHour, Else
  <2>2. /\ excused <=> world.excused \/ world.wrong >= REFRESH_REJECT_LIMIT
        /\ long <=> world.wrong > 0
    OBVIOUS
  <2> HIDE DEF excused, long, old
  <2>3. world'.live = world.live /\ world'.wrong = world.wrong /\ world'.long = long /\ world'.excused = excused
    BY <1>0, <2>0, <2>1 DEF Worlds
  <2>4. /\ net'.at = net.at /\ net'.for = net.for /\ net'.reply = net.reply /\ net'.first = net.first
        /\ net'.tok = net.tok /\ net'.authed = net.authed /\ net'.rejects = net.rejects
    BY <2>0, <2>1 DEF TypeOK, Nets
  <2>5. (Threads /\ Networked /\ Kept /\ Carried)'
    BY <2>1, <2>2, <2>3, <2>4 DEF Inv, Threads, Networked, Kept, Working, Carried
  <2>6. Wronged' /\ Cleared'
    BY <1>n, <2>2, <2>3, <2>4 DEF Inv, Row, Wronged, Cleared, Working
  <2>7. Endured'
    BY <1>n, <2>2, <2>3 DEF Endured
  <2>8. Timed'
    <3>1. SUFFICES ASSUME ~world'.excused, Working, net.at # "told" \/ Told("refused"), net.rejects > 0
          PROVE  long
      BY <2>3, <2>4 DEF Timed, Working
    <3>2. ~world.excused
      BY <2>2, <2>3, <3>1
    <3>3. net.rejects <= world.wrong
      BY <1>n, <3>1, <3>2 DEF Inv, Row, Wronged
    <3> QED BY <1>n, <2>2, <3>1, <3>3
  <2> QED BY <2>5, <2>6, <2>7, <2>8 DEF Inv, Row
<1>11. CASE Publish
  <2>1. WorldKept
    <3> DEFINE w == [world EXCEPT !.feed = @ + 1]
    <3>1. /\ w \in Worlds /\ w.live = world.live /\ w.wrong = world.wrong /\ w.long = world.long
          /\ w.excused = world.excused
      BY <1>0 DEF Worlds
    <3>2. Act(w)
      BY <1>11 DEF Publish
    <3> HIDE DEF w
    <3> QED BY <1>u, <3>1, <3>2
  <2> QED BY <1>11, <2>1, Untouched DEF Publish, Else, FlashKept, TokenKept
<1>12. CASE Tap
  BY <1>12, WorldActs, Untouched DEF Tap, Else, FlashKept, TokenKept
<1> QED
  BY <1>1, <1>2, <1>3, <1>4, <1>5, <1>6, <1>7, <1>8, <1>9, <1>10, <1>11, <1>12 DEF World

\* A login is lost to what is excused only: for any limits, any number of tokens, releases
\* and reboots, and whatever reply comes in between.
THEOREM LoginKept == Spec => []SetupKept
<1>1. Init => IInv
  BY TypeInit, InitHolds DEF IInv
<1>2. IInv /\ [Next]_vars => IInv'
  <2>1. ASSUME IInv, UNCHANGED vars PROVE Inv'
    BY <2>1, Untouched DEF IInv, vars, WorldKept, FlashKept, TokenKept
  <2>2. ASSUME IInv, Next PROVE Inv'
    <3>1. NetStep => Works \/ Updates \/ Hears
      BY DEF NetStep, Works, Updates
    <3> QED
      BY <2>2, <3>1, MainKeeps, TrialKeeps, WorksKeeps, UpdatesKeep, HearsKeep, AnswersKeep, WorldKeeps DEF IInv, Next
  <2> QED BY <2>1, <2>2, TypeStep DEF IInv
<1>3. IInv => SetupKept
  BY DEF IInv, Inv, Kept, Networked, SetupKept, InFlight
<1> QED BY <1>1, <1>2, <1>3, PTL DEF Spec
=============================================================================
