----------------------------- MODULE MCFastboot -----------------------------
(***************************************************************************)
(* The instance of Fastboot that TLC checks.  Of the images, "a" fits      *)
(* everywhere, the ramdisk of "b" is too large for its partition and "c"   *)
(* for the transfer buffer.  Neither the sizes nor the command are whole   *)
(* pages or packets.                                                       *)
(***************************************************************************)
EXTENDS Fastboot

MCImages == {"a", "b", "c"}
MCKernel == [i \in MCImages |-> CASE i = "a" -> 3 [] i = "b" -> 1 [] i = "c" -> 7]
MCRamdisk == [i \in MCImages |-> IF i = "b" THEN 3 ELSE 1]

\* As in set_partition_table_sdmmc, movi writes kernel and ramdisk and mmc the others.
MCLength == [p \in {"kernel", "ramdisk", "userdata"} |->
                CASE p = "kernel" -> 0 [] p = "ramdisk" -> 1 [] p = "userdata" -> 8]
MCMmcPartitions == {"userdata"}
MCMoviCount == [p \in {"kernel", "ramdisk"} |-> IF p = "kernel" THEN 2 ELSE 0]
=============================================================================
