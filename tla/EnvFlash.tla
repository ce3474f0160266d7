------------------------------ MODULE EnvFlash ------------------------------
(***************************************************************************)
(* common/env_flash.c with CONFIG_ENV_ADDR_REDUND: the environment kept in *)
(* two NOR flash sectors, each a structure {crc, flags, data}.             *)
(*                                                                         *)
(* Programming NOR flash can only clear bits, so a flag byte goes          *)
(* 0xFF (erased) -> 1 (ACTIVE_FLAG) -> 0 (OBSOLETE_FLAG) and comes back    *)
(* only through an erase of the whole sector.  Every erase and every       *)
(* flash_write is a step: it succeeds, it reports an error, or the power   *)
(* fails while it is under way.                                            *)
(*                                                                         *)
(* The crc field holds the value whose checksum it is: crc32 is taken to   *)
(* tell environments apart.                                                *)
(***************************************************************************)
EXTENDS Naturals

CONSTANTS
    Values,          \* environments
    DefaultEnv,      \* default_environment[]
    FailingOps,      \* the flash operations that may report an error
    TornFlagBytes,   \* bytes a flag write cut off by a power failure may leave
    SharedSector     \* CONFIG_ENV_SECT_SIZE > CONFIG_ENV_SIZE

ACTIVE_FLAG   == 1
OBSOLETE_FLAG == 0
ERASED_FLAG   == 255
ERASED == "erased"      \* a field just erased
TORN   == "torn"        \* a field whose erasing or programming was cut off

Copies == {1, 2}
Other(c) == 3 - c
Fields == Values \cup {ERASED, TORN}
FlagBytes == {ACTIVE_FLAG, OBSOLETE_FLAG, ERASED_FLAG} \cup TornFlagBytes
Sector == [crc: Fields, flags: FlagBytes, data: Fields]
ErasedSector == [crc |-> ERASED, flags |-> ERASED_FLAG, data |-> ERASED]

SaveSteps == {"protect", "erase", "data", "crc", "oldflag", "newflag", "rest"}
FixSteps  == {"fixold", "fixnew"}

ASSUME EnvFlashAssumption ==
    /\ DefaultEnv \in Values
    /\ ERASED \notin Values /\ TORN \notin Values
    /\ FailingOps \subseteq SaveSteps \cup FixSteps
    /\ TornFlagBytes \subseteq 2..254
    /\ SharedSector \in BOOLEAN

VARIABLES
    flash,       \* the two sectors
    flash_addr,  \* the copy in use; flash_addr_new is always the other one
    pc,          \* "off", "run", "load", "default", or the flash operation to do next
    ram,         \* the environment in RAM, *env_ptr
    durable,     \* history: the last value saved with success or booted from
    attempts     \* history: values whose saving was begun after that

vars == <<flash, flash_addr, pc, ram, durable, attempts>>

flash_addr_new == Other(flash_addr)

TypeOK ==
    /\ flash \in [Copies -> Sector]
    /\ flash_addr \in Copies
    /\ pc \in {"off", "run", "load", "default"} \cup FixSteps \cup SaveSteps
    /\ ram \in Values
    /\ durable \in Values
    /\ attempts \subseteq Values

Init ==
    /\ flash = [c \in Copies |-> ErasedSector]
    /\ flash_addr = 1
    /\ pc = "off"
    /\ ram = DefaultEnv
    /\ durable = DefaultEnv
    /\ attempts = {}
-----------------------------------------------------------------------------
(* Which copy a boot takes: env_init. *)

CrcOk(fl, c) == fl[c].data \in Values /\ fl[c].crc = fl[c].data

\* What gd->env_addr and gd->env_valid come to: a copy, or 0 for the default
\* environment.  The last case is the one no branch of env_init matches:
\* env_valid keeps the zero it had.
EnvInitChoice(fl) ==
    LET ok1   == CrcOk(fl, 1)
        ok2   == CrcOk(fl, 2)
        flag1 == fl[1].flags
        flag2 == fl[2].flags
    IN  IF ok1 /\ ~ok2 THEN 1
        ELSE IF ~ok1 /\ ok2 THEN 2
        ELSE IF ~ok1 /\ ~ok2 THEN 0
        ELSE IF flag1 = ACTIVE_FLAG /\ flag2 = OBSOLETE_FLAG THEN 1
        ELSE IF flag1 = OBSOLETE_FLAG /\ flag2 = ACTIVE_FLAG THEN 2
        ELSE IF flag1 = flag2 THEN 1
        ELSE IF flag1 = ERASED_FLAG THEN 1
        ELSE IF flag2 = ERASED_FLAG THEN 2
        ELSE 0

\* The environment a boot would come up with, were the power cut now.
BootValue(fl) ==
    LET c == EnvInitChoice(fl)
    IN  IF c = 0 THEN DefaultEnv ELSE fl[c].data
-----------------------------------------------------------------------------
(* Flash operations: the sector they leave, and what they can leave behind *)
(* when they are cut off.                                                  *)

Programmed(old, byte) == IF byte = OBSOLETE_FLAG THEN OBSOLETE_FLAG ELSE old % 2

SetCrc(fl, c, v) ==
    [fl EXCEPT ![c] = [crc |-> v, flags |-> @.flags, data |-> @.data]]
SetFlag(fl, c, byte) ==
    [fl EXCEPT ![c] = [crc |-> @.crc, flags |-> byte, data |-> @.data]]
SetData(fl, c, v) ==
    [fl EXCEPT ![c] = [crc |-> @.crc, flags |-> @.flags, data |-> v]]

WriteFlag(fl, c, byte) == SetFlag(fl, c, Programmed(fl[c].flags, byte))

\* A byte under programming passes only through values between the old one and
\* the new one; an erased byte alone has bits enough for anything in between.
TornFlagValues(old, byte) ==
    {old, Programmed(old, byte)} \cup
    (IF old = ERASED_FLAG THEN {t \in TornFlagBytes : t % 2 >= byte} ELSE {})

TornFlag(fl, c, byte) ==
    {SetFlag(fl, c, b) : b \in TornFlagValues(fl[c].flags, byte)}

Erase(fl, c) == [fl EXCEPT ![c] = ErasedSector]

TornErase(fl, c) ==
    {fl} \cup {[fl EXCEPT ![c] = [crc |-> TORN, flags |-> b, data |-> TORN]] :
                 b \in FlagBytes}

\* One flash operation of saveenv: what it leaves when it succeeds, what it may
\* leave when it does not, and the operation that follows.
SaveStep(op, done, torn, next) ==
    /\ pc = op
    /\ \/ /\ flash' = done
          /\ pc' = next
          /\ UNCHANGED ram
       \/ /\ op \in FailingOps            \* goto Done with rc # 0
          /\ flash' \in torn \cup {done}
          /\ pc' = "run"
          /\ UNCHANGED ram
       \/ /\ flash' \in torn              \* the power fails meanwhile
          /\ pc' = "off"
          /\ ram' = DefaultEnv
    /\ UNCHANGED <<flash_addr, durable, attempts>>

\* One flag repair of env_relocate_spec, whose result is not looked at.
FixStep(op, needed, byte, c, next) ==
    /\ pc = op
    /\ \/ /\ flash' = IF needed THEN WriteFlag(flash, c, byte) ELSE flash
          /\ pc' = next
          /\ UNCHANGED ram
       \/ /\ needed
          /\ op \in FailingOps
          /\ flash' \in TornFlag(flash, c, byte)
          /\ pc' = next
          /\ UNCHANGED ram
       \/ /\ needed
          /\ flash' \in TornFlag(flash, c, byte)
          /\ pc' = "off"
          /\ ram' = DefaultEnv
    /\ UNCHANGED <<flash_addr, durable, attempts>>
-----------------------------------------------------------------------------
(* Booting: env_init, then env_relocate and env_relocate_spec. *)

\* Mutant: the pointer set from the choice unseen, 0 for the default included.
EnvInitUnseen ==
    /\ pc = "off"
    /\ flash_addr' = EnvInitChoice(flash)
    /\ pc' = IF EnvInitChoice(flash) = 0 THEN "default" ELSE "fixold"
    /\ durable' = BootValue(flash)
    /\ attempts' = {}
    /\ UNCHANGED <<flash, ram>>

\* The static pointers come up as copy 1 and copy 2.  env_relocate_spec swaps
\* them when the other copy was chosen; with env_valid = 0 env_relocate calls
\* set_default_env instead.
EnvInit ==
    /\ pc = "off"
    /\ LET c == EnvInitChoice(flash)
       IN  /\ flash_addr' = IF c = 2 THEN 2 ELSE 1
           /\ pc' = IF c = 0 THEN "default" ELSE "fixold"
    /\ durable' = BootValue(flash)
    /\ attempts' = {}
    /\ UNCHANGED <<flash, ram>>

\* Mutant: the winner marked obsolete in place of the loser.
RelocateObsoleteWinner ==
    FixStep("fixold",
            flash[flash_addr].flags # OBSOLETE_FLAG /\ CrcOk(flash, flash_addr),
            OBSOLETE_FLAG, flash_addr, "fixnew")

RelocateObsolete ==
    FixStep("fixold",
            flash[flash_addr_new].flags # OBSOLETE_FLAG /\ CrcOk(flash, flash_addr_new),
            OBSOLETE_FLAG, flash_addr_new, "fixnew")

RelocateActive ==
    FixStep("fixnew",
            flash[flash_addr].flags # ACTIVE_FLAG /\ flash[flash_addr].flags % 2 = 1,
            ACTIVE_FLAG, flash_addr, "load")

\* Mutant: the copy not chosen is loaded.
RelocateLoadOther ==
    /\ pc = "load"
    /\ pc' = "run"
    /\ ram' = flash[flash_addr_new].data
    /\ UNCHANGED <<flash, flash_addr, durable, attempts>>

RelocateLoad ==
    /\ pc = "load"
    /\ pc' = "run"
    /\ ram' = flash[flash_addr].data
    /\ UNCHANGED <<flash, flash_addr, durable, attempts>>

SetDefaultEnv ==
    /\ pc = "default"
    /\ pc' = "run"
    /\ ram' = DefaultEnv
    /\ UNCHANGED <<flash, flash_addr, durable, attempts>>
-----------------------------------------------------------------------------
(* The running system: setenv, and the steps of saveenv. *)

SetEnv ==
    /\ pc = "run"
    /\ ram' \in Values
    /\ UNCHANGED <<flash, flash_addr, pc, durable, attempts>>

SaveBegin ==
    /\ pc = "run"
    /\ pc' = "protect"
    /\ attempts' = attempts \cup {ram}
    /\ UNCHANGED <<flash, flash_addr, ram, durable>>

\* flash_sect_protect of both sectors and the copy of the rest of the sector.
SaveProtect == SaveStep("protect", flash, {flash}, "erase")

SaveErase == SaveStep("erase", Erase(flash, flash_addr_new),
                      TornErase(flash, flash_addr_new), "data")

SaveData ==
    SaveStep("data", SetData(flash, flash_addr_new, ram),
             {flash, SetData(flash, flash_addr_new, TORN)}, "crc")

SaveCrc ==
    SaveStep("crc", SetCrc(flash, flash_addr_new, ram),
             {flash, SetCrc(flash, flash_addr_new, TORN)}, "oldflag")

\* Mutant: the old copy is not marked obsolete.
SaveOldFlagSkipped == SaveStep("oldflag", flash, {flash}, "newflag")

SaveOldFlag ==
    SaveStep("oldflag", WriteFlag(flash, flash_addr, OBSOLETE_FLAG),
             TornFlag(flash, flash_addr, OBSOLETE_FLAG), "newflag")

SaveNewFlag ==
    SaveStep("newflag", WriteFlag(flash, flash_addr_new, ACTIVE_FLAG),
             TornFlag(flash, flash_addr_new, ACTIVE_FLAG), "rest")

\* Restoring the rest of a shared sector and swapping the pointers.  When the
\* restoring fails, rc still holds the 0 of the last flag write: saveenv
\* reports success but has not swapped the pointers.
SaveRest ==
    /\ pc = "rest"
    /\ pc' = "run"
    /\ durable' = ram
    /\ attempts' = {}
    /\ \/ flash_addr' = flash_addr_new
       \/ SharedSector /\ "rest" \in FailingOps /\ UNCHANGED flash_addr
    /\ UNCHANGED <<flash, ram>>

PowerFail ==
    /\ pc # "off"
    /\ pc' = "off"
    /\ ram' = DefaultEnv
    /\ UNCHANGED <<flash, flash_addr, durable, attempts>>

Next ==
    \/ EnvInit \/ RelocateObsolete \/ RelocateActive
    \/ RelocateLoad \/ SetDefaultEnv
    \/ SetEnv
    \/ SaveBegin \/ SaveProtect \/ SaveErase \/ SaveData \/ SaveCrc
    \/ SaveOldFlag \/ SaveNewFlag \/ SaveRest
    \/ PowerFail

Spec == Init /\ [][Next]_vars
-----------------------------------------------------------------------------
(* What the two copies are for. *)

\* The conditions under which the redundant copy does its job: a byte program is
\* atomic, marking the losing copy at boot does not fail, and neither does
\* restoring the rest of a shared sector.
Reliable ==
    /\ TornFlagBytes = {}
    /\ "fixold" \notin FailingOps
    /\ SharedSector => "rest" \notin FailingOps

\* Whenever the power goes, the boot that follows comes up with the value last
\* saved or booted from, or with one whose saving was begun since: saveenv
\* (env_flash.c) keeps a valid copy through its erase and its four writes, and
\* the flag repair of env_relocate_spec never changes the choice of env_init.
Durability == BootValue(flash) \in {durable} \cup attempts

\* What the copy in use, and the copy being written, hold at each step.  The
\* strengthening that makes Durability inductive.
FallbackIsDurable ==
    pc \in {"run"} \cup SaveSteps =>
        durable = IF CrcOk(flash, flash_addr) THEN flash[flash_addr].data
                  ELSE DefaultEnv

NewCopyProgress ==
    /\ pc \in SaveSteps => ram \in attempts
    /\ pc \in {"data", "crc"} =>
          /\ flash[flash_addr_new].crc = ERASED
          /\ flash[flash_addr_new].flags = ERASED_FLAG
    /\ pc \in {"crc", "oldflag", "newflag", "rest"} =>
          flash[flash_addr_new].data = ram
    /\ pc \in {"oldflag", "newflag", "rest"} =>
          flash[flash_addr_new].crc = ram
    /\ pc \in {"oldflag", "newflag"} => flash[flash_addr_new].flags = ERASED_FLAG
    /\ pc \in {"newflag", "rest"} => flash[flash_addr].flags = OBSOLETE_FLAG
    /\ pc = "rest" => flash[flash_addr_new].flags = ACTIVE_FLAG

ChoiceIsSettled ==
    /\ pc \in {"fixold", "fixnew", "load"} =>
          /\ EnvInitChoice(flash) = flash_addr
          /\ CrcOk(flash, flash_addr)
          /\ durable = flash[flash_addr].data
    /\ pc = "fixnew" /\ CrcOk(flash, flash_addr_new) =>
          flash[flash_addr_new].flags = OBSOLETE_FLAG
    /\ pc = "default" =>
          /\ durable = DefaultEnv
          /\ \A c \in Copies : ~CrcOk(flash, c)

IndInv == /\ TypeOK
          /\ Durability
          /\ FallbackIsDurable
          /\ NewCopyProgress
          /\ ChoiceIsSettled

\* EnvFlash implements the store its users rely on.
AbstractPhase ==
    IF pc \in {"fixold", "fixnew", "load", "default"} THEN "boot"
    ELSE IF pc \in SaveSteps THEN "save" ELSE pc

Store == INSTANCE EnvStore WITH phase <- AbstractPhase

\* Every step of saveenv, env_init and env_relocate_spec is a step of EnvStore,
\* or changes nothing its users can see.
ImplementsStore == Store!Spec
=============================================================================
