------------------------------- MODULE EnvAuto -------------------------------
(***************************************************************************)
(* The environment of the iTop-4412 build: setenv and getenv on the block  *)
(* of bytes in RAM (common/cmd_nvedit.c), its checksum and the default     *)
(* (common/env_common.c), and saveenv and the loading at boot on the boot  *)
(* device (common/env_auto.c).                                             *)
(*                                                                         *)
(* The block is ENV_SIZE bytes: "name=value" strings, each ended by a zero *)
(* byte, and one more zero byte.  What earlier definitions leave behind    *)
(* that end stays in the block, is part of its checksum and is saved too.  *)
(* A checksum is represented by the bytes it was computed of, so two       *)
(* different blocks never share one.  saveenv writes the only copy there   *)
(* is, in place and a sector at a time; the device may refuse or power may *)
(* fail after any sector, and no result is looked at.                      *)
(*                                                                         *)
(* Left out: printing, env_id, and what the console, the baud rate,        *)
(* ipaddr, loadaddr and bootfile do with a value once it is stored.        *)
(* CONFIG_ENV_OVERWRITE is defined, so no variable is write-once.          *)
(***************************************************************************)
EXTENDS Integers, Sequences, FiniteSetsExt, SequencesExt

CONSTANTS ENV_SIZE,     \* bytes of env_ptr->data
          SECTOR,       \* bytes of a sector of the device; the checksum in
          CRC_LEN,      \*   front of the data takes CRC_LEN of the first
          Names,        \* names setenv is called with, sequences of bytes
          Consoles,     \* those that are stdin, stdout or stderr
          Baudrate,     \* the one that is baudrate
          Args,         \* argv[2..argc-1], sequences of strings
          default_environment,  \* [name, value] definitions
          MaxSets, MaxSaves, MaxFaults      \* bounds of the exploration

NUL == 0
SP  == 32
EQ  == 61

VARIABLES dev,       \* INF_REG3_REG: 1 OneNAND, 2 NAND, 3 SD/MMC, 7 eMMC 4.41
          mshc,      \* the build defines CONFIG_S5P_MSHC
          on,        \* the machine runs
          data,      \* env_ptr->data
          crc,       \* env_ptr->crc
          disk,      \* [crc, data] on the SD card or eMMC
          attempts,  \* history: the blocks saveenv was called with
          kept,      \* history: what the last saveenv wrote in full
          spoiled,   \* history: the last setenv overflowed and deleted
          sets, saves, faults

vars == <<dev, mshc, on, data, crc, disk, attempts, kept, spoiled,
          sets, saves, faults>>

Block == 1 .. ENV_SIZE          \* env_data[i] of the code is data[i + 1]
Zeros == [i \in Block |-> NUL]
NoCrc == [i \in Block |-> -1]   \* the checksum of no block
None  == <<>>
-----------------------------------------------------------------------------
(* Reading the block. *)

(* The end of the string that starts at i. *)
StringEnd(d, i) ==
  CHOOSE j \in Block : j >= i /\ d[j] = NUL /\ \A k \in i .. j - 1 : d[k] # NUL

(* The first of the two zero bytes that end the block. *)
EnvEnd(d) ==
  LET Ends(j) == d[j] = NUL /\ d[j + 1] = NUL
  IN  CHOOSE j \in 1 .. ENV_SIZE - 1 : Ends(j) /\ \A k \in 1 .. j - 1 : ~Ends(k)

(* Where each string starts, in order. *)
Starts(d) ==
  LET scan[i \in Block] == IF d[i] = NUL
                           THEN <<>>
                           ELSE <<i>> \o scan[StringEnd(d, i) + 1]
  IN  scan[1]

StringAt(d, i) == SubSeq(d, i, StringEnd(d, i) - 1)

(* Mutant: the byte behind the name is not looked at. *)
envmatchPrefix(d, name, i) ==
  LET eq == i + Len(name)
  IN  IF /\ eq \in Block
         /\ \A k \in 1 .. Len(name) : d[i + k - 1] = name[k]
      THEN eq + 1
      ELSE -1

(* The index of the value when the string at i defines the name. *)
envmatch(d, name, i) ==
  LET eq == i + Len(name)
  IN  IF /\ eq \in Block
         /\ \A k \in 1 .. Len(name) : d[i + k - 1] = name[k]
         /\ d[eq] = EQ
      THEN eq + 1
      ELSE -1

Matching(d, name) == SelectSeq(Starts(d), LAMBDA i : envmatch(d, name, i) >= 0)

getenv(d, name) ==
  LET m == Matching(d, name)
  IN  IF m = <<>> THEN None ELSE <<StringAt(d, envmatch(d, name, m[1]))>>
-----------------------------------------------------------------------------
(* Changing it. *)

(* Mutant: the block is moved down without the zero byte that ends it. *)
CutShort(d, i) ==
  LET nxt  == StringEnd(d, i) + 1
      rest == EnvEnd(d) - nxt
  IN  [k \in Block |-> IF k \in i .. i + rest THEN d[k - i + nxt] ELSE d[k]]

(* The definition at i goes: when it is the last one its place is cut off, *)
(* otherwise the rest moves down over it, up to the two zero bytes.        *)
Cut(d, i) ==
  LET nxt  == StringEnd(d, i) + 1
      rest == EnvEnd(d) - nxt
  IN  IF d[nxt] = NUL
      THEN IF i > 1 THEN [d EXCEPT ![i] = NUL]
                    ELSE [d EXCEPT ![1] = NUL, ![2] = NUL]
      ELSE [k \in Block |-> IF k \in i .. i + rest THEN d[k - i + nxt]
                            ELSE IF k = i + rest + 1 THEN NUL
                            ELSE d[k]]

Deleted(d, name) ==
  LET m == Matching(d, name) IN IF m = <<>> THEN d ELSE Cut(d, m[1])

(* The arguments, joined by spaces. *)
Joined(args) == FoldLeft(LAMBDA s, a : s \o <<SP>> \o a, args[1], Tail(args))

AppendAt(d) == IF EnvEnd(d) > 1 THEN EnvEnd(d) + 1 ELSE 1

Overflows(d, name, args) ==
  FoldLeft(LAMBDA len, a : len + Len(a) + 1, Len(name) + 2, args)
    > ENV_SIZE + 1 - AppendAt(d)

Appended(d, name, args) ==
  LET at == AppendAt(d)
      s  == name \o <<EQ>> \o Joined(args) \o <<NUL, NUL>>
      to == at .. at + Len(s) - 1
  IN  [k \in Block \cup to |-> IF k \in to THEN s[k - at + 1] ELSE d[k]]

(* default_environment as the block that use_default makes of it. *)
DefaultBlock ==
  FoldLeft(LAMBDA d, e : Appended(d, e.name, <<e.value>>), Zeros,
           default_environment)

env_crc_update == crc' = data'
-----------------------------------------------------------------------------
Init == /\ dev \in {1, 2, 3, 7}
        /\ mshc \in BOOLEAN
        /\ on = FALSE /\ spoiled = FALSE
        /\ data = Zeros /\ crc = NoCrc
        /\ disk = [crc |-> NoCrc, data |-> Zeros]
        /\ attempts = {} /\ kept = None
        /\ sets = 0 /\ saves = 0 /\ faults = 0

(* What _do_setenv refuses before it changes anything: an illegal name, a  *)
(* console that is to be deleted or that the device layer rejects, and for *)
(* an existing baudrate a value that is not supported.                     *)
Refused(name, args) ==
  \/ EQ \in Range(name)
  \/ name \in Consoles /\ args = <<>>

MayBeRefused(name) ==
  \/ name \in Consoles
  \/ name = Baudrate /\ Matching(data, name) # <<>>

(* The new definition, when it fits behind what the deletion left.  An     *)
(* overflow returns before the checksum is brought up to date.             *)
Store(name, args) ==
  LET d == Deleted(data, name)
  IN  IF Overflows(d, name, args)
      THEN /\ data' = d
           /\ spoiled' = (spoiled \/ d # data)
           /\ UNCHANGED crc
      ELSE /\ data' = Appended(d, name, args)
           /\ spoiled' = FALSE
           /\ env_crc_update

(* Mutant: a deletion returns without the new checksum. *)
UndefineOnly(name) == /\ data' = Deleted(data, name)
                      /\ spoiled' = FALSE
                      /\ UNCHANGED crc

Undefine(name) == /\ data' = Deleted(data, name)
                  /\ spoiled' = FALSE
                  /\ env_crc_update

SetEnv == /\ on /\ sets < MaxSets
          /\ \E name \in Names, args \in Args :
               \/ /\ Refused(name, args) \/ MayBeRefused(name)
                  /\ UNCHANGED <<data, crc, spoiled>>
               \/ /\ ~Refused(name, args)
                  /\ IF args = <<>> THEN Undefine(name) ELSE Store(name, args)
          /\ sets' = sets + 1
          /\ UNCHANGED <<dev, mshc, on, disk, attempts, kept, saves, faults>>
-----------------------------------------------------------------------------
(* The device after its first n sectors of the block were written; the     *)
(* checksum is in the first one.                                           *)
Sectors == (CRC_LEN + ENV_SIZE + SECTOR - 1) \div SECTOR

movi_write_env(n) ==
  IF n = 0 THEN disk
  ELSE [crc  |-> crc,
        data |-> [i \in Block |-> IF i <= n * SECTOR - CRC_LEN
                                  THEN data[i] ELSE disk.data[i]]]

Written(n) ==
  /\ disk' = movi_write_env(n)
  /\ attempts' = attempts \cup {data}
  /\ kept' = IF n = Sectors THEN <<[data |-> data, clean |-> ~spoiled]>>
             ELSE IF n = 0 THEN kept ELSE None

(* saveenv_movinand, with what the device made of the write: whatever that *)
(* was, the command says "done".  Other boot devices only print a message. *)
saveenv ==
  /\ on /\ saves < MaxSaves
  /\ \/ /\ dev # 3
        /\ UNCHANGED <<disk, attempts, kept, faults>>
     \/ /\ dev = 3
        /\ Written(Sectors)
        /\ UNCHANGED faults
     \/ /\ dev = 3 /\ faults < MaxFaults
        /\ \E n \in 0 .. Sectors - 1 : Written(n)
        /\ faults' = faults + 1
  /\ saves' = saves + 1
  /\ UNCHANGED <<dev, mshc, on, data, crc, spoiled, sets>>

Off == /\ on' = FALSE /\ spoiled' = FALSE
       /\ data' = Zeros /\ crc' = NoCrc

(* Power fails while the sectors are written, *)
SaveCut ==
  /\ on /\ saves < MaxSaves /\ faults < MaxFaults
  /\ dev = 3
  /\ \E n \in 0 .. Sectors - 1 : Written(n)
  /\ Off
  /\ saves' = saves + 1 /\ faults' = faults + 1
  /\ UNCHANGED <<dev, mshc, sets>>

(* or at any other time, which includes the reset command. *)
PowerOff == /\ on
            /\ Off
            /\ UNCHANGED <<dev, mshc, disk, attempts, kept, sets, saves, faults>>
-----------------------------------------------------------------------------
use_default == data' = DefaultBlock /\ env_crc_update

(* env_relocate_spec_movinand: env_ptr is a fresh zeroed buffer; it is     *)
(* filled from the device unless CONFIG_S5P_MSHC compiles that out.  When  *)
(* the memory holds the magic words of a downloaded image, or the read     *)
(* fails, it stays as it is (counted as a fault).                          *)
env_relocate_spec_movinand ==
  \/ /\ ~mshc
     /\ IF disk.crc = disk.data
        THEN data' = disk.data /\ crc' = disk.crc
        ELSE use_default
     /\ UNCHANGED faults
  \/ /\ mshc
     /\ use_default
     /\ UNCHANGED faults
  \/ /\ ~mshc /\ faults < MaxFaults
     /\ use_default
     /\ faults' = faults + 1

(* Without CONFIG_CMD_ONENAND the OneNAND case does nothing at all. *)
Boot == /\ ~on /\ on' = TRUE
        /\ CASE dev = 3 -> env_relocate_spec_movinand
             [] dev = 1 -> UNCHANGED <<data, crc, faults>>
             [] OTHER   -> use_default /\ UNCHANGED faults
        /\ UNCHANGED <<dev, mshc, disk, attempts, kept, spoiled, sets, saves>>

Next == SetEnv \/ saveenv \/ SaveCut \/ PowerOff \/ Boot

Spec == Init /\ [][Next]_vars
-----------------------------------------------------------------------------
(* The list of definitions that a block stands for. *)
Definition(s) == LET eq == CHOOSE k \in DOMAIN s : s[k] = EQ
                 IN  [name  |-> SubSeq(s, 1, eq - 1),
                      value |-> SubSeq(s, eq + 1, Len(s))]

Entries(d) ==
  LET scan[i \in Block] == IF d[i] = NUL
                           THEN <<>>
                           ELSE <<Definition(StringAt(d, i))>>
                                  \o scan[StringEnd(d, i) + 1]
  IN  scan[1]

Values == {Joined(args) : args \in Args \ {<<>>}}

Vars == INSTANCE EnvVars
          WITH Default  <- default_environment,
               env      <- Entries(data),
               attempts <- {Entries(d) : d \in attempts}

(***************************************************************************)
(* Properties.                                                             *)
(***************************************************************************)

(* The block and every copy of it are ENV_SIZE bytes, and the counters     *)
(* respect their bounds.                                                   *)
TypeOK == LET Bytes == {-1, NUL, SP, EQ} \cup UNION {Range(n) : n \in Names}
                       \cup UNION {Range(v) : v \in Values}
              IsBlock(d) == DOMAIN d = Block /\ Range(d) \subseteq Bytes
          IN  /\ dev \in {1, 2, 3, 7}
              /\ {mshc, on, spoiled} \subseteq BOOLEAN
              /\ IsBlock(data) /\ -1 \notin Range(data)
              /\ IsBlock(crc)
              /\ IsBlock(disk.crc) /\ IsBlock(disk.data)
              /\ \A d \in attempts : IsBlock(d)
              /\ sets \in 0 .. MaxSets
              /\ saves \in 0 .. MaxSaves
              /\ faults \in 0 .. MaxFaults

(* Byte-level editing, saving by sectors and loading implement the list of *)
(* definitions of EnvVars: no name twice, a deletion that leaves its       *)
(* neighbours alone, an overflow exactly when the strings do not fit, and  *)
(* a boot that never brings up a part of an environment or a mixture.      *)
ImplementsEnvVars == Vars!Spec

(* getenv, which walks the raw block, finds for every name the value its   *)
(* definition has, also next to names that begin alike and with the        *)
(* remains of deleted definitions behind the end.                          *)
GetenvFinds ==
  \A n \in Names :
    LET l == SelectSeq(Entries(data), LAMBDA e : e.name = n)
    IN  getenv(data, n) = IF l = <<>> THEN None ELSE <<l[1].value>>

(* A completed saveenv is what the next boot comes up with, when the build *)
(* reads the device at all and the read succeeds, unless an overflowing    *)
(* setenv had left the checksum behind.                                     *)
SavedSurvives ==
  [][Boot /\ dev = 3 /\ ~mshc /\ faults' = faults /\ kept # None
       => (kept[1].clean => data' = kept[1].data)]_vars
=============================================================================
