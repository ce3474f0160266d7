--------------------------- MODULE EnvFlashProofs ---------------------------
(***************************************************************************)
(* EnvFlash keeps every durable value, for any set of environments, any    *)
(* set of reported failures Reliable allows, shared sectors or not.        *)
(***************************************************************************)
EXTENDS EnvFlash, TLAPS

\* With atomic byte programming a flag is erased, active or obsolete.
LEMMA ThreeFlags ==
    ASSUME Reliable PROVE FlagBytes = {0, 1, 255}
BY DEF Reliable, FlagBytes, ACTIVE_FLAG, OBSOLETE_FLAG, ERASED_FLAG

\* Programming stays within those three bytes.
LEMMA ProgrammedByte ==
    ASSUME Reliable, NEW old \in FlagBytes, NEW byte \in {0, 1}
    PROVE  /\ Programmed(old, byte) \in FlagBytes
           /\ Programmed(old, 0) = 0
           /\ Programmed(255, 1) = 1
BY ThreeFlags, SMT DEF Programmed, OBSOLETE_FLAG

\* A flag write touches one flag byte and nothing else, done or cut off.
LEMMA FlagWrite ==
    ASSUME Reliable, NEW fl \in [Copies -> Sector], NEW c \in Copies,
           NEW byte \in {0, 1}, NEW f \in TornFlag(fl, c, byte)
    PROVE  /\ f \in [Copies -> Sector]
           /\ f[Other(c)] = fl[Other(c)]
           /\ f[c].data = fl[c].data
           /\ f[c].crc = fl[c].crc
           /\ f[c].flags \in {fl[c].flags, Programmed(fl[c].flags, byte)}
           /\ \A d \in Copies : CrcOk(f, d) <=> CrcOk(fl, d)
<1>1. PICK b \in TornFlagValues(fl[c].flags, byte) : f = SetFlag(fl, c, b)
  BY Zenon DEF TornFlag
<1>2. b \in {fl[c].flags, Programmed(fl[c].flags, byte)}
  BY <1>1 DEF Reliable, TornFlagValues
<1>3. b \in FlagBytes
  BY <1>2, ProgrammedByte DEF Sector
<1>4. Other(c) \in Copies /\ Other(c) # c /\ Copies = {c, Other(c)}
  BY DEF Other, Copies
<1>5. /\ f \in [Copies -> Sector]
      /\ f[Other(c)] = fl[Other(c)]
      /\ f[c].data = fl[c].data
      /\ f[c].crc = fl[c].crc
      /\ f[c].flags = b
  BY <1>1, <1>3, <1>4 DEF SetFlag, Sector
<1> QED
  BY <1>2, <1>4, <1>5 DEF CrcOk

\* A flag write that completes is one of the outcomes of one that may not.
LEMMA FlagWriteCompletes ==
    ASSUME NEW fl, NEW c, NEW byte
    PROVE  /\ WriteFlag(fl, c, byte) \in TornFlag(fl, c, byte)
           /\ fl \in [Copies -> Sector] /\ c \in Copies =>
                 WriteFlag(fl, c, byte)[c].flags = Programmed(fl[c].flags, byte)
<1>1. Programmed(fl[c].flags, byte) \in TornFlagValues(fl[c].flags, byte)
  BY DEF TornFlagValues
<1>2. WriteFlag(fl, c, byte) \in TornFlag(fl, c, byte)
  BY <1>1, Zenon DEF WriteFlag, TornFlag
<1> QED
  BY <1>2 DEF WriteFlag, SetFlag

\* env_init takes a copy whose checksum holds, or the default when none does.
LEMMA ChoiceCases ==
    ASSUME Reliable, NEW fl \in [Copies -> Sector]
    PROVE  /\ EnvInitChoice(fl) \in {0, 1, 2}
           /\ EnvInitChoice(fl) = 0 <=> \A c \in Copies : ~CrcOk(fl, c)
           /\ EnvInitChoice(fl) # 0 => CrcOk(fl, EnvInitChoice(fl))
<1>1. fl[1].flags \in {0, 1, 255} /\ fl[2].flags \in {0, 1, 255}
  BY ThreeFlags DEF Sector, Copies
<1>2. /\ EnvInitChoice(fl) \in {0, 1, 2}
      /\ EnvInitChoice(fl) = 0 <=> ~CrcOk(fl, 1) /\ ~CrcOk(fl, 2)
      /\ EnvInitChoice(fl) = 1 => CrcOk(fl, 1)
      /\ EnvInitChoice(fl) = 2 => CrcOk(fl, 2)
  BY <1>1, SMT DEF EnvInitChoice, CrcOk, ACTIVE_FLAG, OBSOLETE_FLAG, ERASED_FLAG
<1> QED
  BY <1>2, Zenon DEF Copies

\* Hence a boot finds what some valid copy holds, or the default.
LEMMA BootValueCases ==
    ASSUME Reliable, NEW fl \in [Copies -> Sector], NEW c \in Copies
    PROVE  /\ BootValue(fl) \in Values
           /\ ~CrcOk(fl, Other(c)) =>
                 BootValue(fl) = IF CrcOk(fl, c) THEN fl[c].data ELSE DefaultEnv
           /\ CrcOk(fl, Other(c)) =>
                 \/ BootValue(fl) = fl[Other(c)].data
                 \/ CrcOk(fl, c) /\ BootValue(fl) = fl[c].data
<1>1. Other(c) \in Copies /\ Copies = {c, Other(c)} /\ 0 \notin Copies
  BY DEF Copies, Other
<1> QED
  BY <1>1, ChoiceCases, EnvFlashAssumption DEF BootValue, CrcOk, Copies

\* Marking the loser obsolete, or the winner active, never changes the choice.
LEMMA RepairKeepsChoice ==
    ASSUME Reliable, NEW fl \in [Copies -> Sector], NEW c \in Copies,
           EnvInitChoice(fl) = c, NEW f
    PROVE  /\ f \in TornFlag(fl, Other(c), OBSOLETE_FLAG) => EnvInitChoice(f) = c
           /\ /\ CrcOk(fl, Other(c)) => fl[Other(c)].flags = OBSOLETE_FLAG
              /\ fl[c].flags % 2 = 1
              /\ f \in TornFlag(fl, c, ACTIVE_FLAG)
              => EnvInitChoice(f) = c
<1>1. /\ fl[1].flags \in {0, 1, 255} /\ fl[2].flags \in {0, 1, 255}
      /\ Other(1) = 2 /\ Other(2) = 1 /\ c \in {1, 2} /\ Other(c) \in Copies
  BY ThreeFlags DEF Sector, Copies, Other
<1>2. ASSUME f \in TornFlag(fl, Other(c), OBSOLETE_FLAG)
      PROVE  EnvInitChoice(f) = c
  <2>1. /\ \A d \in Copies : CrcOk(f, d) <=> CrcOk(fl, d)
        /\ f[c] = fl[c]
        /\ f[Other(c)].flags \in {fl[Other(c)].flags, 0}
    BY <1>1, <1>2, FlagWrite, ProgrammedByte DEF OBSOLETE_FLAG, Sector, Copies
  <2> QED
    BY <1>1, <2>1 DEF EnvInitChoice, Copies, ACTIVE_FLAG, OBSOLETE_FLAG, ERASED_FLAG
<1>3. ASSUME /\ CrcOk(fl, Other(c)) => fl[Other(c)].flags = OBSOLETE_FLAG
             /\ fl[c].flags % 2 = 1
             /\ f \in TornFlag(fl, c, ACTIVE_FLAG)
      PROVE  EnvInitChoice(f) = c
  <2>1. /\ \A d \in Copies : CrcOk(f, d) <=> CrcOk(fl, d)
        /\ f[Other(c)] = fl[Other(c)]
        /\ f[c].flags \in {1, 255}
    <3>1. f[c].flags \in {fl[c].flags, Programmed(fl[c].flags, 1)}
      BY <1>1, <1>3, FlagWrite DEF ACTIVE_FLAG
    <3>2. fl[c].flags \in {1, 255} /\ Programmed(fl[c].flags, 1) = 1
      BY <1>1, <1>3 DEF Programmed, OBSOLETE_FLAG
    <3> QED
      BY <1>1, <1>3, <3>1, <3>2, FlagWrite DEF ACTIVE_FLAG, Copies, Other
  <2> QED
    BY <1>1, <1>3, <2>1 DEF EnvInitChoice, Copies, ACTIVE_FLAG, OBSOLETE_FLAG, ERASED_FLAG
<1> QED
  BY <1>2, <1>3
-----------------------------------------------------------------------------
(* Type correctness, for every choice of the constants. *)

\* Each flash operation, done or cut off, leaves two well-formed sectors.
LEMMA OperationsTyped ==
    ASSUME NEW fl \in [Copies -> Sector], NEW c \in Copies,
           NEW byte \in {0, 1}, NEW v \in Fields
    PROVE  /\ SetCrc(fl, c, v) \in [Copies -> Sector]
           /\ SetData(fl, c, v) \in [Copies -> Sector]
           /\ Erase(fl, c) \in [Copies -> Sector]
           /\ TornErase(fl, c) \subseteq [Copies -> Sector]
           /\ TornFlag(fl, c, byte) \subseteq [Copies -> Sector]
           /\ WriteFlag(fl, c, byte) \in [Copies -> Sector]
           /\ \A f \in TornFlag(fl, c, byte), d \in Copies : f[d].data = fl[d].data
<1>1. /\ fl[c].crc \in Fields
      /\ fl[c].data \in Fields
      /\ fl[c].flags \in FlagBytes
  BY DEF Sector
<1>2. SetCrc(fl, c, v) \in [Copies -> Sector] /\ SetData(fl, c, v) \in [Copies -> Sector]
  BY <1>1 DEF SetCrc, SetData, Sector
<1>3. Erase(fl, c) \in [Copies -> Sector]
  BY DEF Erase, ErasedSector, Sector, FlagBytes, Fields
<1>4. TornErase(fl, c) \subseteq [Copies -> Sector]
  BY DEF TornErase, Sector, Fields
<1>5. ASSUME NEW b \in FlagBytes PROVE SetFlag(fl, c, b) \in [Copies -> Sector]
  BY <1>1 DEF SetFlag, Sector
<1>6. Programmed(fl[c].flags, byte) \in {0, 1}
  <2>0. \A b \in TornFlagBytes : b \in 2..254
    BY EnvFlashAssumption, Zenon
  <2>1. fl[c].flags \in Nat
    BY <1>1, <2>0 DEF FlagBytes, ACTIVE_FLAG, OBSOLETE_FLAG, ERASED_FLAG
  <2> QED
    BY <2>1 DEF Programmed, OBSOLETE_FLAG
<1>7. TornFlagValues(fl[c].flags, byte) \subseteq FlagBytes
  BY <1>1, <1>6 DEF TornFlagValues, FlagBytes, ACTIVE_FLAG, OBSOLETE_FLAG
<1>8. /\ TornFlag(fl, c, byte) \subseteq [Copies -> Sector]
      /\ \A f \in TornFlag(fl, c, byte), d \in Copies : f[d].data = fl[d].data
  <2>1. ASSUME NEW f \in TornFlag(fl, c, byte)
        PROVE  f \in [Copies -> Sector] /\ \A d \in Copies : f[d].data = fl[d].data
    <3>1. PICK b \in TornFlagValues(fl[c].flags, byte) : f = SetFlag(fl, c, b)
      BY <2>1, Zenon DEF TornFlag
    <3>2. \A d \in Copies : f[d].data = fl[d].data
      BY <3>1 DEF SetFlag
    <3> QED BY <1>5, <1>7, <3>1, <3>2
  <2> QED BY <2>1
<1>9. WriteFlag(fl, c, byte) \in [Copies -> Sector]
  BY <1>8, FlagWriteCompletes
<1> QED
  BY <1>2, <1>3, <1>4, <1>8, <1>9

\* The value a boot finds is an environment.
LEMMA BootValueTyped == ASSUME NEW fl PROVE BootValue(fl) \in Values
BY EnvFlashAssumption DEF BootValue, EnvInitChoice, CrcOk

\* Every variable keeps its type: the two sectors are always well-formed, a
\* saved or booted value is always an environment, and saveenv and
\* env_relocate_spec (env_flash.c) never lose track of their place.
THEOREM TypeCorrect == Spec => []TypeOK
<1> DEFINE Loadable == pc \in {"fixold", "fixnew", "load"} =>
                           flash[flash_addr].data \in Values
<1>1. Init => TypeOK /\ Loadable
  BY EnvFlashAssumption DEF Init, TypeOK, Sector, ErasedSector, Fields, FlagBytes,
     Copies
<1>2. TypeOK /\ Loadable /\ [Next]_vars => TypeOK' /\ Loadable'
  <2> SUFFICES ASSUME TypeOK, Loadable, [Next]_vars PROVE TypeOK' /\ Loadable'
    OBVIOUS
  <2>a. flash \in [Copies -> Sector] /\ flash_addr \in Copies /\ flash_addr_new \in Copies
    BY DEF TypeOK, flash_addr_new, Other, Copies
  <2>b. ram \in Values /\ ram \in Fields /\ TORN \in Fields /\ DefaultEnv \in Values
        /\ OBSOLETE_FLAG \in {0, 1} /\ ACTIVE_FLAG \in {0, 1}
    BY EnvFlashAssumption DEF TypeOK, Fields, OBSOLETE_FLAG, ACTIVE_FLAG
  <2>s. ASSUME NEW op, NEW done \in [Copies -> Sector],
               NEW torn \in SUBSET [Copies -> Sector], NEW next \in SaveSteps,
               SaveStep(op, done, torn, next)
        PROVE  TypeOK' /\ Loadable'
    BY <2>a, <2>b, <2>s DEF SaveStep, TypeOK, SaveSteps
  <2>f. ASSUME NEW op \in {"fixold", "fixnew"}, NEW needed, NEW byte \in {0, 1}, NEW c \in Copies,
               NEW next \in {"fixnew", "load"},
               FixStep(op, needed, byte, c, next)
        PROVE  TypeOK' /\ Loadable'
    <3>1. flash' \in [Copies -> Sector] /\ flash'[flash_addr].data = flash[flash_addr].data
      BY <2>a, <2>b, <2>f, OperationsTyped, FlagWriteCompletes DEF FixStep
    <3>2. pc \in {"fixold", "fixnew"}
      BY <2>f DEF FixStep
    <3> QED
      BY <2>b, <3>1, <3>2, <2>f DEF FixStep, TypeOK, FixSteps
  <2>1. CASE EnvInit
    <3>1. EnvInitChoice(flash) # 0 =>
             EnvInitChoice(flash) \in Copies /\ flash[EnvInitChoice(flash)].data \in Values
      BY DEF EnvInitChoice, CrcOk, Copies
    <3> QED
      BY <2>1, <3>1, BootValueTyped DEF EnvInit, TypeOK, FixSteps, Copies
  <2>2. CASE RelocateObsolete
    BY <2>2, <2>a, <2>b, <2>f DEF RelocateObsolete
  <2>3. CASE RelocateActive
    BY <2>3, <2>a, <2>b, <2>f DEF RelocateActive
  <2>4. CASE RelocateLoad
    BY <2>4, <2>a DEF RelocateLoad, TypeOK
  <2>5. CASE SetDefaultEnv
    BY <2>5, <2>b DEF SetDefaultEnv, TypeOK
  <2>6. CASE SetEnv
    BY <2>6 DEF SetEnv, TypeOK
  <2>7. CASE SaveBegin
    BY <2>7 DEF SaveBegin, TypeOK, SaveSteps
  <2>8. CASE SaveProtect
    BY <2>8, <2>a, <2>s DEF SaveProtect, SaveSteps
  <2>9. CASE SaveErase
    BY <2>9, <2>a, <2>b, <2>s, OperationsTyped DEF SaveErase, SaveSteps
  <2>10. CASE SaveData
    <3>1. /\ SetData(flash, flash_addr_new, ram) \in [Copies -> Sector]
          /\ {flash, SetData(flash, flash_addr_new, TORN)} \subseteq [Copies -> Sector]
      BY <2>a, <2>b, OperationsTyped
    <3> QED
      BY <2>10, <2>s, <3>1 DEF SaveData, SaveSteps
  <2>11. CASE SaveCrc
    <3>1. /\ SetCrc(flash, flash_addr_new, ram) \in [Copies -> Sector]
          /\ {flash, SetCrc(flash, flash_addr_new, TORN)} \subseteq [Copies -> Sector]
      BY <2>a, <2>b, OperationsTyped
    <3> QED
      BY <2>11, <2>s, <3>1 DEF SaveCrc, SaveSteps
  <2>12. CASE SaveOldFlag
    BY <2>12, <2>a, <2>b, <2>s, OperationsTyped DEF SaveOldFlag, SaveSteps
  <2>13. CASE SaveNewFlag
    BY <2>13, <2>a, <2>b, <2>s, OperationsTyped DEF SaveNewFlag, SaveSteps
  <2>14. CASE SaveRest
    BY <2>14, <2>a DEF SaveRest, TypeOK
  <2>15. CASE PowerFail
    BY <2>15, <2>b DEF PowerFail, TypeOK
  <2>16. CASE UNCHANGED vars
    BY <2>16 DEF vars, TypeOK
  <2> QED
    BY <2>1, <2>2, <2>3, <2>4, <2>5, <2>6, <2>7, <2>8, <2>9, <2>10, <2>11,
       <2>12, <2>13, <2>14, <2>15, <2>16 DEF Next
<1> QED
  BY <1>1, <1>2, PTL DEF Spec
-----------------------------------------------------------------------------
(* Durability. *)

\* As long as the copy in use is left alone and the other one holds nothing or
\* an attempted value, a boot finds one of the candidates.
LEMMA Survives ==
    ASSUME Reliable, NEW fl \in [Copies -> Sector], NEW c \in Copies,
           NEW dur, NEW att,
           dur = IF CrcOk(fl, c) THEN fl[c].data ELSE DefaultEnv,
           CrcOk(fl, Other(c)) => fl[Other(c)].data \in att
    PROVE  BootValue(fl) \in {dur} \cup att
BY BootValueCases

\* The erase and the writes of data and checksum leave the copy in use alone.
LEMMA OtherCopyUntouched ==
    ASSUME NEW fl \in [Copies -> Sector], NEW c \in Copies, NEW v \in Fields, NEW f,
           f \in {Erase(fl, Other(c)), SetCrc(fl, Other(c), v), SetData(fl, Other(c), v)}
                 \cup TornErase(fl, Other(c))
    PROVE  f[c] = fl[c] /\ (CrcOk(f, c) <=> CrcOk(fl, c))
<1>1. Other(c) # c
  BY DEF Other, Copies
<1>2. CASE f \in TornErase(fl, Other(c))
  BY <1>1, <1>2 DEF TornErase, CrcOk
<1>3. CASE f \in {Erase(fl, Other(c)), SetCrc(fl, Other(c), v), SetData(fl, Other(c), v)}
  BY <1>1, <1>3 DEF Erase, SetCrc, SetData, CrcOk
<1> QED
  BY <1>2, <1>3

\* One step of the system preserves the inductive invariant.
LEMMA InductiveStep ==
    ASSUME Reliable, IndInv, TypeOK', Next PROVE IndInv'
<1>a. /\ flash \in [Copies -> Sector] /\ flash' \in [Copies -> Sector]
      /\ flash_addr \in Copies /\ flash_addr_new = Other(flash_addr)
      /\ flash_addr_new \in Copies /\ flash_addr_new # flash_addr
      /\ Other(flash_addr_new) = flash_addr
      /\ \A d \in Copies : d \in {flash_addr, flash_addr_new}
  BY DEF IndInv, TypeOK, flash_addr_new, Other, Copies
<1>b. /\ ram \in Values /\ ram \in Fields /\ TORN \in Fields /\ ERASED \notin Values
      /\ TORN \notin Values /\ ERASED # TORN
  BY EnvFlashAssumption DEF IndInv, TypeOK, Fields, ERASED, TORN
<1>c. ACTIVE_FLAG = 1 /\ OBSOLETE_FLAG = 0 /\ ERASED_FLAG = 255
  BY DEF ACTIVE_FLAG, OBSOLETE_FLAG, ERASED_FLAG
\* Outside the boot the three step invariants say nothing but this:
<1>run. ASSUME pc' = "run",
               durable' = IF CrcOk(flash, flash_addr)' THEN flash'[flash_addr'].data
                          ELSE DefaultEnv,
               Durability'
        PROVE  IndInv'
  BY <1>run DEF IndInv, FallbackIsDurable, NewCopyProgress, ChoiceIsSettled, SaveSteps
<1>off. ASSUME pc' = "off", Durability' PROVE IndInv'
  BY <1>off DEF IndInv, FallbackIsDurable, NewCopyProgress, ChoiceIsSettled, SaveSteps
<1>1. CASE EnvInit
  <2>1. EnvInitChoice(flash) \in {0, 1, 2}
    BY <1>a, ChoiceCases
  <2>2. Durability'
    BY <1>1 DEF EnvInit, Durability
  <2>3. CASE EnvInitChoice(flash) = 0
    <3>1. \A d \in Copies : ~CrcOk(flash, d)
      BY <2>3, <1>a, ChoiceCases
    <3> QED
      BY <1>1, <2>2, <2>3, <3>1 DEF EnvInit, IndInv, FallbackIsDurable, NewCopyProgress,
         ChoiceIsSettled, SaveSteps, BootValue, CrcOk
  <2>4. CASE EnvInitChoice(flash) # 0
    <3>1. flash_addr' = EnvInitChoice(flash) /\ CrcOk(flash, flash_addr') /\ pc' = "fixold"
          /\ flash' = flash /\ durable' = flash[flash_addr'].data
      BY <1>1, <1>a, <2>1, <2>4, ChoiceCases DEF EnvInit, BootValue
    <3> QED
      BY <2>2, <3>1 DEF IndInv, FallbackIsDurable, NewCopyProgress,
         ChoiceIsSettled, SaveSteps, CrcOk
  <2> QED BY <2>3, <2>4
\* A repair that keeps the choice keeps everything a boot relies on.
<1>fix. ASSUME pc \in {"fixold", "fixnew"}, UNCHANGED <<flash_addr, durable, attempts>>,
               EnvInitChoice(flash') = flash_addr,
               flash'[flash_addr].data = flash[flash_addr].data,
               CrcOk(flash', flash_addr) <=> CrcOk(flash, flash_addr)
        PROVE  /\ Durability'
               /\ pc' = "load" => IndInv'
               /\ /\ pc' = "fixnew"
                  /\ CrcOk(flash', flash_addr_new) => flash'[flash_addr_new].flags = 0
                  => IndInv'
  <2>1. /\ CrcOk(flash', flash_addr)
        /\ durable' = flash'[flash_addr].data
    BY <1>fix DEF IndInv, ChoiceIsSettled
  <2>2. Durability'
    BY <1>a, <1>fix, <2>1 DEF Durability, BootValue, Copies
  <2>3. EnvInitChoice(flash)' = flash_addr' /\ CrcOk(flash, flash_addr)'
    BY <1>fix, <2>1 DEF EnvInitChoice, CrcOk
  <2>4. CASE pc' = "load"
    BY <1>fix, <2>1, <2>2, <2>3, <2>4 DEF IndInv, FallbackIsDurable, NewCopyProgress,
       ChoiceIsSettled, SaveSteps
  <2>5. CASE pc' = "fixnew" /\ (CrcOk(flash', flash_addr_new) =>
                                flash'[flash_addr_new].flags = 0)
    <3>1. flash_addr_new' = flash_addr_new
      BY <1>fix DEF flash_addr_new
    <3>2. CrcOk(flash, flash_addr_new)' => flash'[flash_addr_new'].flags = OBSOLETE_FLAG
      BY <1>c, <2>5, <3>1 DEF CrcOk
    <3> QED
      BY <1>fix, <2>1, <2>2, <2>3, <2>5, <3>1, <3>2 DEF IndInv, FallbackIsDurable,
         NewCopyProgress, ChoiceIsSettled, SaveSteps
  <2> QED BY <2>2, <2>4, <2>5
<1>2. CASE RelocateObsolete
  <2>1. pc = "fixold" /\ UNCHANGED <<flash_addr, durable, attempts>>
    BY <1>2 DEF RelocateObsolete, FixStep
  <2>2. flash' = flash \/ flash' \in TornFlag(flash, flash_addr_new, OBSOLETE_FLAG)
    BY <1>2, FlagWriteCompletes DEF RelocateObsolete, FixStep
  <2>3. EnvInitChoice(flash) = flash_addr
    BY <2>1 DEF IndInv, ChoiceIsSettled
  <2>4. /\ EnvInitChoice(flash') = flash_addr
        /\ flash'[flash_addr].data = flash[flash_addr].data
        /\ CrcOk(flash', flash_addr) <=> CrcOk(flash, flash_addr)
    BY <1>a, <1>c, <2>2, <2>3, RepairKeepsChoice, FlagWrite
  <2>5. CASE pc' = "off"
    BY <1>off, <1>fix, <2>1, <2>4, <2>5
  <2>6. CASE pc' = "fixnew"
    <3>1. CASE flash[flash_addr_new].flags # OBSOLETE_FLAG /\ CrcOk(flash, flash_addr_new)
      <4>1. flash' = WriteFlag(flash, flash_addr_new, OBSOLETE_FLAG)
        BY <1>2, <2>6, <3>1 DEF RelocateObsolete, FixStep, Reliable
      <4> QED
        BY <1>a, <1>c, <1>fix, <2>1, <2>4, <2>6, <4>1, FlagWriteCompletes DEF Programmed
    <3>2. CASE ~(flash[flash_addr_new].flags # OBSOLETE_FLAG /\ CrcOk(flash, flash_addr_new))
      <4>1. flash' = flash
        BY <1>2, <3>2 DEF RelocateObsolete, FixStep
      <4> QED
        BY <1>c, <1>fix, <2>1, <2>4, <2>6, <3>2, <4>1
    <3> QED BY <3>1, <3>2
  <2>7. pc' \in {"off", "fixnew"}
    BY <1>2 DEF RelocateObsolete, FixStep
  <2> QED BY <2>5, <2>6, <2>7
<1>3. CASE RelocateActive
  <2>1. pc = "fixnew" /\ UNCHANGED <<flash_addr, durable, attempts>>
        /\ pc' \in {"off", "load"}
    BY <1>3 DEF RelocateActive, FixStep
  <2>2. \/ flash' = flash
        \/ flash[flash_addr].flags % 2 = 1 /\ flash' \in TornFlag(flash, flash_addr, ACTIVE_FLAG)
    BY <1>3, FlagWriteCompletes DEF RelocateActive, FixStep
  <2>3. /\ EnvInitChoice(flash) = flash_addr
        /\ CrcOk(flash, Other(flash_addr)) => flash[Other(flash_addr)].flags = OBSOLETE_FLAG
    BY <1>a, <2>1 DEF IndInv, ChoiceIsSettled
  <2>4. /\ EnvInitChoice(flash') = flash_addr
        /\ flash'[flash_addr].data = flash[flash_addr].data
        /\ CrcOk(flash', flash_addr) <=> CrcOk(flash, flash_addr)
    BY <1>a, <1>c, <2>2, <2>3, RepairKeepsChoice, FlagWrite
  <2> QED
    BY <1>off, <1>fix, <2>1, <2>4
<1>4. CASE RelocateLoad
  <2>1. Durability'
    BY <1>4 DEF IndInv, RelocateLoad, Durability, BootValue, EnvInitChoice, CrcOk
  <2>2. CrcOk(flash, flash_addr)' /\ durable' = flash'[flash_addr'].data /\ pc' = "run"
    BY <1>4 DEF IndInv, RelocateLoad, ChoiceIsSettled, CrcOk
  <2> QED BY <1>run, <2>1, <2>2
<1>5. CASE SetDefaultEnv
  <2>1. Durability'
    BY <1>5 DEF IndInv, SetDefaultEnv, Durability, BootValue, EnvInitChoice, CrcOk
  <2>2. ~CrcOk(flash, flash_addr)' /\ durable' = DefaultEnv /\ pc' = "run"
    BY <1>5, <1>a DEF IndInv, SetDefaultEnv, ChoiceIsSettled, CrcOk
  <2> QED BY <1>run, <2>1, <2>2
<1>6. CASE SetEnv
  <2>1. Durability'
    BY <1>6 DEF IndInv, SetEnv, Durability, BootValue, EnvInitChoice, CrcOk
  <2>2. /\ pc' = "run"
        /\ durable' = IF CrcOk(flash, flash_addr)' THEN flash'[flash_addr'].data
                      ELSE DefaultEnv
    BY <1>6 DEF IndInv, SetEnv, FallbackIsDurable, CrcOk
  <2> QED BY <1>run, <2>1, <2>2
<1>7. CASE SaveBegin
  <2>1. Durability'
    BY <1>7 DEF IndInv, SaveBegin, Durability, BootValue, EnvInitChoice, CrcOk
  <2>2. /\ pc' = "protect" /\ ram' \in attempts'
        /\ durable' = IF CrcOk(flash, flash_addr)' THEN flash'[flash_addr'].data
                      ELSE DefaultEnv
    BY <1>7 DEF IndInv, SaveBegin, FallbackIsDurable, CrcOk
  <2> QED
    BY <2>1, <2>2 DEF IndInv, FallbackIsDurable, NewCopyProgress, ChoiceIsSettled
\* A step of saveenv that leaves the copy in use valid, and the other one as it
\* was, invalid, or holding an attempted value.
<1>save. ASSUME pc \in SaveSteps, UNCHANGED <<flash_addr, durable, attempts>>,
                flash'[flash_addr].data = flash[flash_addr].data,
                CrcOk(flash', flash_addr) <=> CrcOk(flash, flash_addr),
                \/ flash' = flash
                \/ CrcOk(flash', flash_addr_new) => flash'[flash_addr_new].data \in attempts
         PROVE  /\ Durability'
                /\ durable' = IF CrcOk(flash, flash_addr)' THEN flash'[flash_addr'].data
                              ELSE DefaultEnv
                /\ pc' \in {"run", "off"} => IndInv'
  <2>1. durable' = IF CrcOk(flash, flash_addr)' THEN flash'[flash_addr'].data ELSE DefaultEnv
    BY <1>save DEF IndInv, FallbackIsDurable, CrcOk
  <2>2. durable = IF CrcOk(flash', flash_addr) THEN flash'[flash_addr].data ELSE DefaultEnv
    BY <1>save, <2>1 DEF CrcOk
  <2>3. Durability'
    <3>1. CASE flash' = flash
      BY <1>save, <3>1 DEF IndInv, Durability, BootValue, EnvInitChoice, CrcOk
    <3>2. CASE CrcOk(flash', flash_addr_new) => flash'[flash_addr_new].data \in attempts
      <4>1. BootValue(flash') \in {durable} \cup attempts
        BY <1>a, <2>2, <3>2, Survives
      <4> QED
        BY <1>save, <4>1 DEF Durability, BootValue, EnvInitChoice, CrcOk
    <3> QED BY <1>save, <3>1, <3>2
  <2> QED
    BY <1>run, <1>off, <2>1, <2>3
\* What saveenv has done so far, once its step is done.
<1>next. ASSUME Durability', pc' \in SaveSteps, UNCHANGED <<ram, flash_addr, attempts>>,
                pc \in SaveSteps,
                durable' = IF CrcOk(flash, flash_addr)' THEN flash'[flash_addr'].data
                           ELSE DefaultEnv,
                NewCopyProgress'
         PROVE  IndInv'
  BY <1>next DEF IndInv, FallbackIsDurable, ChoiceIsSettled, SaveSteps
<1>8. CASE SaveProtect
  <2>1. /\ pc = "protect" /\ pc' \in {"run", "off", "erase"} /\ flash' = flash
        /\ UNCHANGED <<flash_addr, durable, attempts>>
        /\ pc' = "erase" => ram' = ram
    BY <1>8 DEF SaveProtect, SaveStep
  <2>2. pc' = "erase" => NewCopyProgress'
    BY <2>1 DEF IndInv, NewCopyProgress, SaveSteps
  <2> QED
    BY <1>save, <1>next, <2>1, <2>2 DEF SaveSteps
<1>9. CASE SaveErase
  <2>1. /\ pc = "erase" /\ pc' \in {"run", "off", "data"}
        /\ UNCHANGED <<flash_addr, durable, attempts>>
        /\ flash' \in {Erase(flash, flash_addr_new)} \cup TornErase(flash, flash_addr_new)
        /\ pc' = "data" => ram' = ram /\ flash' = Erase(flash, flash_addr_new)
    BY <1>9 DEF SaveErase, SaveStep
  <2>2. /\ flash'[flash_addr].data = flash[flash_addr].data
        /\ CrcOk(flash', flash_addr) <=> CrcOk(flash, flash_addr)
    BY <1>a, <1>b, <2>1, OtherCopyUntouched
  <2>3. flash' = flash \/ ~CrcOk(flash', flash_addr_new)
    BY <1>a, <1>b, <2>1 DEF Erase, TornErase, ErasedSector, CrcOk
  <2>4. pc' = "data" => NewCopyProgress'
    BY <1>a, <2>1 DEF IndInv, NewCopyProgress, SaveSteps, Erase, ErasedSector, flash_addr_new
  <2> QED
    BY <1>save, <1>next, <2>1, <2>2, <2>3, <2>4 DEF SaveSteps
<1>10. CASE SaveData
  <2>1. /\ pc = "data" /\ pc' \in {"run", "off", "crc"}
        /\ UNCHANGED <<flash_addr, durable, attempts>>
        /\ \/ flash' = flash
           \/ flash' = SetData(flash, flash_addr_new, ram)
           \/ flash' = SetData(flash, flash_addr_new, TORN)
        /\ pc' = "crc" => ram' = ram /\ flash' = SetData(flash, flash_addr_new, ram)
    BY <1>10 DEF SaveData, SaveStep
  <2>2. /\ flash'[flash_addr].data = flash[flash_addr].data
        /\ CrcOk(flash', flash_addr) <=> CrcOk(flash, flash_addr)
    BY <1>a, <1>b, <2>1, OtherCopyUntouched
  <2>3. /\ flash[flash_addr_new].crc = ERASED /\ flash[flash_addr_new].flags = ERASED_FLAG
        /\ ram \in attempts
    BY <2>1 DEF IndInv, NewCopyProgress, SaveSteps
  <2>4. flash' = flash \/ ~CrcOk(flash', flash_addr_new)
    BY <1>a, <1>b, <2>1, <2>3 DEF SetData, CrcOk
  <2>5. pc' = "crc" => NewCopyProgress'
    BY <1>a, <2>1, <2>3 DEF NewCopyProgress, SaveSteps, SetData, flash_addr_new
  <2> QED
    BY <1>save, <1>next, <2>1, <2>2, <2>4, <2>5 DEF SaveSteps
<1>11. CASE SaveCrc
  <2>1. /\ pc = "crc" /\ pc' \in {"run", "off", "oldflag"}
        /\ UNCHANGED <<flash_addr, durable, attempts>>
        /\ \/ flash' = flash
           \/ flash' = SetCrc(flash, flash_addr_new, ram)
           \/ flash' = SetCrc(flash, flash_addr_new, TORN)
        /\ pc' = "oldflag" => ram' = ram /\ flash' = SetCrc(flash, flash_addr_new, ram)
    BY <1>11 DEF SaveCrc, SaveStep
  <2>2. /\ flash'[flash_addr].data = flash[flash_addr].data
        /\ CrcOk(flash', flash_addr) <=> CrcOk(flash, flash_addr)
    BY <1>a, <1>b, <2>1, OtherCopyUntouched
  <2>3. /\ flash[flash_addr_new].data = ram /\ flash[flash_addr_new].flags = ERASED_FLAG
        /\ ram \in attempts
    BY <2>1 DEF IndInv, NewCopyProgress, SaveSteps
  <2>4. flash'[flash_addr_new].data \in attempts
    BY <1>a, <2>1, <2>3 DEF SetCrc
  <2>5. pc' = "oldflag" => NewCopyProgress'
    BY <1>a, <2>1, <2>3 DEF NewCopyProgress, SaveSteps, SetCrc, flash_addr_new
  <2> QED
    BY <1>save, <1>next, <2>1, <2>2, <2>4, <2>5 DEF SaveSteps
<1>12. CASE SaveOldFlag
  <2>1. /\ pc = "oldflag" /\ pc' \in {"run", "off", "newflag"}
        /\ UNCHANGED <<flash_addr, durable, attempts>>
        /\ flash' \in TornFlag(flash, flash_addr, OBSOLETE_FLAG)
        /\ pc' = "newflag" =>
              ram' = ram /\ flash' = WriteFlag(flash, flash_addr, OBSOLETE_FLAG)
    BY <1>12, FlagWriteCompletes DEF SaveOldFlag, SaveStep
  <2>2. /\ flash'[flash_addr].data = flash[flash_addr].data
        /\ CrcOk(flash', flash_addr) <=> CrcOk(flash, flash_addr)
        /\ flash'[flash_addr_new] = flash[flash_addr_new]
    BY <1>a, <1>c, <2>1, FlagWrite
  <2>3. /\ flash[flash_addr_new].data = ram /\ flash[flash_addr_new].crc = ram
        /\ flash[flash_addr_new].flags = ERASED_FLAG /\ ram \in attempts
    BY <2>1 DEF IndInv, NewCopyProgress, SaveSteps
  <2>4. pc' = "newflag" => flash'[flash_addr].flags = OBSOLETE_FLAG
    BY <1>a, <1>c, <2>1, FlagWriteCompletes DEF Programmed
  <2>5. pc' = "newflag" => NewCopyProgress'
    BY <1>a, <2>1, <2>2, <2>3, <2>4 DEF NewCopyProgress, SaveSteps, flash_addr_new
  <2> QED
    BY <1>save, <1>next, <2>1, <2>2, <2>3, <2>5 DEF SaveSteps
<1>13. CASE SaveNewFlag
  <2>1. /\ pc = "newflag" /\ pc' \in {"run", "off", "rest"}
        /\ UNCHANGED <<flash_addr, durable, attempts>>
        /\ flash' \in TornFlag(flash, flash_addr_new, ACTIVE_FLAG)
        /\ pc' = "rest" =>
              ram' = ram /\ flash' = WriteFlag(flash, flash_addr_new, ACTIVE_FLAG)
    BY <1>13, FlagWriteCompletes DEF SaveNewFlag, SaveStep
  <2>2. /\ flash'[flash_addr] = flash[flash_addr]
        /\ CrcOk(flash', flash_addr) <=> CrcOk(flash, flash_addr)
        /\ flash'[flash_addr_new].data = flash[flash_addr_new].data
        /\ flash'[flash_addr_new].crc = flash[flash_addr_new].crc
    BY <1>a, <1>c, <2>1, FlagWrite
  <2>3. /\ flash[flash_addr_new].data = ram /\ flash[flash_addr_new].crc = ram
        /\ flash[flash_addr_new].flags = ERASED_FLAG /\ ram \in attempts
        /\ flash[flash_addr].flags = OBSOLETE_FLAG
    BY <2>1 DEF IndInv, NewCopyProgress, SaveSteps
  <2>4. pc' = "rest" => flash'[flash_addr_new].flags = ACTIVE_FLAG
    BY <1>a, <1>c, <2>1, <2>3, FlagWriteCompletes DEF Programmed
  <2>5. pc' = "rest" => NewCopyProgress'
    BY <1>a, <2>1, <2>2, <2>3, <2>4 DEF NewCopyProgress, SaveSteps, flash_addr_new
  <2> QED
    BY <1>save, <1>next, <2>1, <2>2, <2>3, <2>5 DEF SaveSteps
<1>14. CASE SaveRest
  <2>1. /\ pc = "rest" /\ pc' = "run" /\ flash' = flash
        /\ durable' = ram /\ attempts' = {} /\ flash_addr' = flash_addr_new
    BY <1>14 DEF SaveRest, Reliable
  <2>2. /\ flash[flash_addr_new].data = ram /\ flash[flash_addr_new].crc = ram
        /\ flash[flash_addr_new].flags = ACTIVE_FLAG
        /\ flash[flash_addr].flags = OBSOLETE_FLAG
    BY <2>1 DEF IndInv, NewCopyProgress, SaveSteps
  <2>3. EnvInitChoice(flash) = flash_addr_new
    BY <1>a, <1>b, <1>c, <2>2 DEF EnvInitChoice, CrcOk, Copies
  <2>4. Durability'
    <3>1. BootValue(flash) = ram
      BY <1>a, <2>2, <2>3 DEF BootValue, Copies
    <3> QED
      BY <2>1, <3>1 DEF Durability, BootValue, EnvInitChoice, CrcOk
  <2>5. durable' = IF CrcOk(flash, flash_addr)' THEN flash'[flash_addr'].data ELSE DefaultEnv
    BY <1>a, <1>b, <2>1, <2>2 DEF CrcOk
  <2> QED
    BY <1>run, <2>1, <2>4, <2>5
<1>15. CASE PowerFail
  <2>1. Durability' /\ pc' = "off"
    BY <1>15 DEF IndInv, PowerFail, Durability, BootValue, EnvInitChoice, CrcOk
  <2> QED BY <1>off, <2>1
<1> QED
  BY <1>1, <1>2, <1>3, <1>4, <1>5, <1>6, <1>7, <1>8, <1>9, <1>10, <1>11,
     <1>12, <1>13, <1>14, <1>15 DEF Next

\* The inductive invariant holds throughout.
LEMMA Inductive == ASSUME Reliable PROVE Spec => []IndInv
<1>1. Init => IndInv
  <2> SUFFICES ASSUME Init PROVE IndInv
    OBVIOUS
  <2>1. TypeOK
    BY EnvFlashAssumption DEF Init, TypeOK, Sector, ErasedSector, Fields, FlagBytes,
       Copies
  <2>2. ~CrcOk(flash, 1) /\ ~CrcOk(flash, 2)
    BY EnvFlashAssumption DEF Init, CrcOk, ErasedSector, Copies
  <2>3. Durability
    BY <2>2 DEF Init, Durability, BootValue, EnvInitChoice
  <2> QED
    BY <2>1, <2>3 DEF Init, IndInv, FallbackIsDurable, NewCopyProgress, ChoiceIsSettled,
       SaveSteps
<1>2. IndInv /\ TypeOK' /\ [Next]_vars => IndInv'
  <2> SUFFICES ASSUME IndInv, TypeOK', [Next]_vars PROVE IndInv'
    OBVIOUS
  <2>1. CASE Next
    BY <2>1, InductiveStep
  <2>2. CASE UNCHANGED vars
    BY <2>2, ZenonT(30) DEF vars, IndInv, TypeOK, Durability, BootValue, EnvInitChoice, CrcOk,
       FallbackIsDurable, NewCopyProgress, ChoiceIsSettled, flash_addr_new
  <2> QED BY <2>1, <2>2
<1> QED
  BY <1>1, <1>2, TypeCorrect, PTL DEF Spec

\* The redundant environment (env_flash.c) does what its second copy is for: a
\* power failure at any point of saveenv or of the boot, and any reported
\* failure that Reliable allows, leaves an environment that was saved with
\* success or booted from, or one whose saving was under way.
THEOREM Durable == ASSUME Reliable PROVE Spec => []Durability
BY Inductive, PTL DEF IndInv

\* The copy env_init settled on is still the one that env_relocate_spec loads:
\* neither the flag repairs in between nor any earlier failure takes it away.
THEOREM ChoiceSettled == ASSUME Reliable PROVE Spec => []ChoiceIsSettled
BY Inductive, PTL DEF IndInv

\* Every step of the two-sector environment is a step of the store its users
\* rely on, or invisible to them: a boot settles on one of the candidates and
\* loads exactly that, a save that reports success is durable, and one that
\* fails or is cut off changes nothing that was durable.
THEOREM Implements == ASSUME Reliable PROVE Spec => ImplementsStore
<1>1. Init => Store!Init
  BY DEF Init, Store!Init, AbstractPhase, SaveSteps
<1>2. IndInv /\ [Next]_vars => [Store!Next]_(Store!vars)
  <2> SUFFICES ASSUME IndInv, [Next]_vars PROVE [Store!Next]_(Store!vars)
    OBVIOUS
  <2> USE DEF Store!vars, AbstractPhase, SaveSteps
  <2>s. ASSUME NEW op \in SaveSteps, NEW done, NEW torn, NEW next \in SaveSteps,
               SaveStep(op, done, torn, next)
        PROVE  Store!PowerFail \/ Store!SaveFails \/ UNCHANGED Store!vars
    BY <2>s DEF SaveStep, Store!PowerFail, Store!SaveFails
  <2>f. ASSUME NEW op \in {"fixold", "fixnew"}, NEW needed, NEW byte, NEW c,
               NEW next \in {"fixnew", "load"},
               FixStep(op, needed, byte, c, next)
        PROVE  Store!PowerFail \/ UNCHANGED Store!vars
    BY <2>f DEF FixStep, Store!PowerFail
  <2>1. CASE EnvInit
    BY <2>1 DEF EnvInit, IndInv, Durability, Store!Next, Store!Select
  <2>2. CASE RelocateObsolete
    BY <2>2, <2>f DEF RelocateObsolete, Store!Next
  <2>3. CASE RelocateActive
    BY <2>3, <2>f DEF RelocateActive, Store!Next
  <2>4. CASE RelocateLoad
    BY <2>4 DEF RelocateLoad, IndInv, ChoiceIsSettled, Store!Next, Store!Load
  <2>5. CASE SetDefaultEnv
    BY <2>5 DEF SetDefaultEnv, IndInv, ChoiceIsSettled, Store!Next, Store!Load
  <2>6. CASE SetEnv
    BY <2>6 DEF SetEnv, Store!Next, Store!SetEnv
  <2>7. CASE SaveBegin
    BY <2>7 DEF SaveBegin, Store!Next, Store!BeginSave
  <2>8. CASE SaveProtect
    BY <2>8, <2>s DEF SaveProtect, Store!Next
  <2>9. CASE SaveErase
    BY <2>9, <2>s DEF SaveErase, Store!Next
  <2>10. CASE SaveData
    BY <2>10, <2>s DEF SaveData, Store!Next
  <2>11. CASE SaveCrc
    BY <2>11, <2>s DEF SaveCrc, Store!Next
  <2>12. CASE SaveOldFlag
    BY <2>12, <2>s DEF SaveOldFlag, Store!Next
  <2>13. CASE SaveNewFlag
    BY <2>13, <2>s DEF SaveNewFlag, Store!Next
  <2>14. CASE SaveRest
    BY <2>14 DEF SaveRest, Store!Next, Store!SaveSucceeds
  <2>15. CASE PowerFail
    BY <2>15 DEF PowerFail, Store!Next, Store!PowerFail
  <2>16. CASE UNCHANGED vars
    BY <2>16 DEF vars
  <2> QED
    BY <2>1, <2>2, <2>3, <2>4, <2>5, <2>6, <2>7, <2>8, <2>9, <2>10, <2>11,
       <2>12, <2>13, <2>14, <2>15, <2>16 DEF Next
<1> QED
  BY <1>1, <1>2, Inductive, PTL DEF Spec, ImplementsStore, Store!Spec
=============================================================================
