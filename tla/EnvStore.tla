------------------------------ MODULE EnvStore ------------------------------
(***************************************************************************)
(* What the persistent environment promises to its users, whatever medium  *)
(* holds it.  A value is DURABLE once saveenv has reported success or a    *)
(* boot has loaded it.  A save that was cut off or that reported an error  *)
(* leaves its value as a mere attempt: the next boot may find the durable  *)
(* value or any value attempted since, and whichever it finds is durable   *)
(* from then on.  In particular a boot never falls back to anything else.  *)
(*                                                                         *)
(* EnvFlash (NOR flash) and EnvNand (NAND flash) implement it.             *)
(***************************************************************************)
CONSTANTS Values, DefaultEnv

VARIABLES phase,     \* "off", "boot", "run" or "save"
          ram,       \* the environment in RAM that commands read and change
          durable,   \* the last value known to be stored
          attempts   \* values whose saving was begun after that

vars == <<phase, ram, durable, attempts>>

TypeOK == /\ phase \in {"off", "boot", "run", "save"}
          /\ ram \in Values
          /\ durable \in Values
          /\ attempts \subseteq Values

Init == /\ phase = "off"
        /\ ram = DefaultEnv
        /\ durable = DefaultEnv
        /\ attempts = {}
-----------------------------------------------------------------------------
(* A boot settles which of the candidates it has found ... *)
Select == /\ phase = "off"
          /\ phase' = "boot"
          /\ durable' \in {durable} \cup attempts
          /\ attempts' = {}
          /\ UNCHANGED ram

(* ... and hands exactly that value to the running system. *)
Load == /\ phase = "boot"
        /\ phase' = "run"
        /\ ram' = durable
        /\ UNCHANGED <<durable, attempts>>

(* A boot during which the medium is not written may do both at once. *)
Boot == /\ phase = "off"
        /\ phase' = "run"
        /\ durable' \in {durable} \cup attempts
        /\ ram' = durable'
        /\ attempts' = {}

SetEnv == /\ phase = "run"
          /\ ram' \in Values
          /\ UNCHANGED <<phase, durable, attempts>>

BeginSave == /\ phase = "run"
             /\ phase' = "save"
             /\ attempts' = attempts \cup {ram}
             /\ UNCHANGED <<ram, durable>>

SaveSucceeds == /\ phase = "save"
                /\ phase' = "run"
                /\ durable' = ram
                /\ attempts' = {}
                /\ UNCHANGED ram

SaveFails == /\ phase = "save"
             /\ phase' = "run"
             /\ UNCHANGED <<ram, durable, attempts>>

PowerFail == /\ phase # "off"
             /\ phase' = "off"
             /\ ram' = DefaultEnv
             /\ UNCHANGED <<durable, attempts>>

Next == \/ Select \/ Load \/ Boot \/ SetEnv
        \/ BeginSave \/ SaveSucceeds \/ SaveFails
        \/ PowerFail

Spec == Init /\ [][Next]_vars
=============================================================================
