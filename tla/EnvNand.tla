------------------------------- MODULE EnvNand -------------------------------
(***************************************************************************)
(* common/env_nand.c with CONFIG_ENV_OFFSET_REDUND: the environment kept   *)
(* in two NAND areas.  A NAND page is written whole, so there are no flag  *)
(* bytes to flip in place: each copy carries an 8-bit serial number        *)
(* (flags), incremented by every call of saveenv, and a boot takes the     *)
(* copy with the later one.                                                *)
(***************************************************************************)
EXTENDS Naturals

CONSTANTS
    Values,       \* environments
    DefaultEnv,   \* default_environment[]
    MaxSerial,    \* the largest value of the serial number: 255 in the code
    FailingOps    \* the operations that may report an error

ASSUME EnvNandAssumption ==
    /\ DefaultEnv \in Values
    /\ MaxSerial \in Nat /\ MaxSerial >= 2
    /\ FailingOps \subseteq {"read", "erase", "write"}

SuccNoWrap(s) == s + 1      \* Mutant: a serial number wider than a byte

Copies  == {1, 2}
Other(c) == 3 - c
Serials == 0..MaxSerial
Succ(s) == IF s = MaxSerial THEN 0 ELSE s + 1      \* flags++ on a uchar
Copy    == [ok: BOOLEAN, data: Values, flags: Serials]
BadCopy == [ok |-> FALSE, data |-> DefaultEnv, flags |-> 0]

VARIABLES
    nand,        \* the two areas; ok says that the checksum holds
    env_valid,   \* gd->env_valid: the copy in use
    pc,          \* "off", "run", "erase" or "write"
    ram,         \* the environment in RAM, env_ptr->data
    flags,       \* its serial number, env_ptr->flags
    durable,     \* history: the last value saved with success or booted from
    attempts     \* history: values whose saving was begun after that

vars == <<nand, env_valid, pc, ram, flags, durable, attempts>>

TypeOK ==
    /\ nand \in [Copies -> Copy]
    /\ env_valid \in Copies
    /\ pc \in {"off", "run", "erase", "write"}
    /\ ram \in Values
    /\ flags \in Serials
    /\ durable \in Values
    /\ attempts \subseteq Values

Init ==
    /\ nand = [c \in Copies |-> BadCopy]
    /\ env_valid = 1
    /\ pc = "off"
    /\ ram = DefaultEnv
    /\ flags = 0
    /\ durable = DefaultEnv
    /\ attempts = {}
-----------------------------------------------------------------------------
\* Mutant: the wrap of the serial number forgotten.
LaterCopyNoWrap(f1, f2) == IF f2 > f1 THEN 2 ELSE 1

\* Which of two valid copies is the later one: only the step from the largest
\* serial number to 0 is recognised as an increment across the wrap.
LaterCopy(f1, f2) ==
    IF f1 = MaxSerial /\ f2 = 0 THEN 2
    ELSE IF f2 = MaxSerial /\ f1 = 0 THEN 1
    ELSE IF f1 > f2 THEN 1
    ELSE IF f2 > f1 THEN 2
    ELSE 1

\* The copy env_relocate_spec takes; 0 when no checksum holds.
RelocateChoice(n) ==
    IF ~n[1].ok /\ ~n[2].ok THEN 0
    ELSE IF n[1].ok /\ ~n[2].ok THEN 1
    ELSE IF ~n[1].ok /\ n[2].ok THEN 2
    ELSE LaterCopy(n[1].flags, n[2].flags)

BootValue(n) ==
    LET c == RelocateChoice(n) IN IF c = 0 THEN DefaultEnv ELSE n[c].data

\* What readenv makes of the areas when those in bad cannot be read.
AsRead(bad) == [c \in Copies |-> IF c \in bad THEN BadCopy ELSE nand[c]]
-----------------------------------------------------------------------------
\* env_relocate_spec: read both areas, take the later copy, or use_default,
\* which is set_default_env with serial number 0xFF and env_valid = 1.
Relocate(bad) ==
    /\ pc = "off"
    /\ pc' = "run"
    /\ bad = {} \/ "read" \in FailingOps
    /\ LET c == RelocateChoice(AsRead(bad))
       IN  /\ env_valid' = IF c = 2 THEN 2 ELSE 1
           /\ flags' = IF c = 0 THEN MaxSerial ELSE nand[c].flags
    /\ ram' = BootValue(AsRead(bad))
    /\ durable' = BootValue(AsRead(bad))
    /\ attempts' = {}
    /\ UNCHANGED nand

SetEnv ==
    /\ pc = "run"
    /\ ram' \in Values
    /\ UNCHANGED <<nand, env_valid, pc, flags, durable, attempts>>

\* Mutant: the serial number not incremented.
SaveBeginUncounted ==
    /\ pc = "run"
    /\ pc' = "erase"
    /\ attempts' = attempts \cup {ram}
    /\ UNCHANGED <<nand, env_valid, ram, flags, durable>>

\* saveenv counts the attempt before it has done anything.
SaveBegin ==
    /\ pc = "run"
    /\ pc' = "erase"
    /\ flags' = Succ(flags)
    /\ attempts' = attempts \cup {ram}
    /\ UNCHANGED <<nand, env_valid, ram, durable>>

Erased  == [nand EXCEPT ![Other(env_valid)] = BadCopy]
Written == [nand EXCEPT ![Other(env_valid)] =
               [ok |-> TRUE, data |-> ram, flags |-> flags]]

\* Mutant: the area in use erased before the other one is written.
SaveEraseInUse ==
    /\ pc = "erase"
    /\ nand' = [nand EXCEPT ![env_valid] = BadCopy]
    /\ pc' = "write"
    /\ UNCHANGED <<env_valid, ram, flags, durable, attempts>>

\* nand_erase_opts on the area not in use.  An error is reported before or after
\* the old contents are gone.
SaveErase ==
    /\ pc = "erase"
    /\ \/ /\ nand' = Erased
          /\ pc' = "write"
       \/ /\ "erase" \in FailingOps
          /\ nand' \in {nand, Erased}
          /\ pc' = "run"
    /\ UNCHANGED <<env_valid, ram, flags, durable, attempts>>

\* writeenv into that area, block by block past the bad blocks; the copy is
\* valid only once its last block is written.
SaveWrite ==
    /\ pc = "write"
    /\ pc' = "run"
    /\ \/ /\ nand' = Written
          /\ env_valid' = Other(env_valid)
          /\ durable' = ram
          /\ attempts' = {}
       \/ /\ "write" \in FailingOps
          /\ nand' \in {nand, Written}
          /\ UNCHANGED <<env_valid, durable, attempts>>
    /\ UNCHANGED <<ram, flags>>

\* The power fails: RAM is lost, an erase under way has or has not destroyed the
\* old contents, a write under way has or has not reached its last block.
PowerFail ==
    /\ pc # "off"
    /\ pc' = "off"
    /\ \/ UNCHANGED nand
       \/ pc = "erase" /\ nand' = Erased
       \/ pc = "write" /\ nand' = Written
    /\ ram' = DefaultEnv
    /\ flags' = 0
    /\ env_valid' = 1
    /\ UNCHANGED <<durable, attempts>>

Next ==
    \/ \E bad \in SUBSET Copies : Relocate(bad)
    \/ SetEnv \/ SaveBegin \/ SaveErase \/ SaveWrite
    \/ PowerFail

Spec == Init /\ [][Next]_vars
-----------------------------------------------------------------------------
\* Whenever the power goes, the boot that follows comes up with the value last
\* saved or booted from, or with one whose saving was begun since: saveenv
\* (env_nand.c) only ever erases the older copy, and the serial numbers tell
\* which one that is, across their wrap too.
Durability == BootValue(nand) \in {durable} \cup attempts

\* The serial numbers of two valid copies are consecutive, so that the comparison
\* of env_relocate_spec is never asked about anything else.
ConsecutiveSerials ==
    (\A c \in Copies : nand[c].ok) =>
        \E c \in Copies : nand[c].flags = Succ(nand[Other(c)].flags)

\* The strengthening that makes Durability inductive.
CopyInUse ==
    pc # "off" =>
        /\ IF nand[env_valid].ok
           THEN /\ nand[env_valid].data = durable
                /\ flags = IF pc = "run" THEN nand[env_valid].flags
                           ELSE Succ(nand[env_valid].flags)
           ELSE ~nand[Other(env_valid)].ok /\ durable = DefaultEnv
        /\ nand[env_valid].ok /\ nand[Other(env_valid)].ok =>
              nand[env_valid].flags = Succ(nand[Other(env_valid)].flags)
        /\ pc = "write" => ~nand[Other(env_valid)].ok
        /\ pc # "run" => ram \in attempts

IndInv == TypeOK /\ Durability /\ ConsecutiveSerials /\ CopyInUse

AbstractPhase == IF pc \in {"erase", "write"} THEN "save" ELSE pc

Store == INSTANCE EnvStore WITH phase <- AbstractPhase

\* Every step of saveenv and env_relocate_spec is a step of EnvStore, or changes
\* nothing its users can see.
ImplementsStore == Store!Spec
=============================================================================
