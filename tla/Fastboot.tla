------------------------------ MODULE Fastboot ------------------------------
(***************************************************************************)
(* The fastboot command: common/cmd_fastboot.c over the USB polling loop   *)
(* of cpu/arm_cortexa9/s5pc210/fastboot.c, against a host that sends one   *)
(* command at a time and a cable that may be unplugged.                    *)
(*                                                                         *)
(* Data is counted in units of 16 bytes, the least that tells the fields   *)
(* of the boot image header apart: unit 0 has the magic and the size of    *)
(* the kernel, unit 1 the size of the ramdisk.  An image is a header page, *)
(* the kernel and the ramdisk, each padded to pages of PAGE units, as      *)
(* mkbootimg lays it out; <<i, n>> is unit n of image i.  A USB packet     *)
(* carries at most PACKET units; a command packet that is taken for data   *)
(* is CommandLength units of JUNK.                                         *)
(***************************************************************************)
EXTENDS Naturals, Sequences, FiniteSets, TLC

CONSTANTS
    Images,              \* the images the host may send
    Kernel, Ramdisk,     \* image -> the sizes of its kernel and ramdisk
    PAGE,                \* CFG_FASTBOOT_MKBOOTIMAGE_PAGE_SIZE
    PACKET,              \* the size of a full USB packet
    CommandLength,       \* the size of a command packet
    Length,              \* partition -> its length, 0 when it is not limited
    MmcPartitions,       \* the partitions with FASTBOOT_PTENTRY_FLAGS_USE_MMC_CMD; the
                         \* others have FASTBOOT_PTENTRY_FLAGS_USE_MOVI_CMD
    MoviCount,           \* partition -> what movi writes to it, 0 for the size it is told
    Formatted,           \* the partitions that erase: can format
    transfer_buffer_size,
    Unplugs,             \* bound: how often the cable is unplugged
    Failing,             \* bound: the partitions that writing to may fail
    JUNK, ZERO,          \* a unit of anything else, a cleared unit
    BROKEN,              \* what a failed write leaves behind
    NONE                 \* no image

Partitions == DOMAIN Length
Least(a, b) == IF a <= b THEN a ELSE b
Padded(n) == ((n + PAGE - 1) \div PAGE) * PAGE
Size(i) == PAGE + Padded(Kernel[i]) + Padded(Ramdisk[i])

ASSUME FastbootAssumption ==
    /\ Kernel \in [Images -> Nat] /\ Ramdisk \in [Images -> Nat]
    /\ PAGE \in Nat \ {0, 1} /\ PACKET \in Nat \ {0} /\ CommandLength \in 1..PACKET
    /\ \A p \in Partitions : Length[p] \in Nat
    /\ {"kernel", "ramdisk"} \subseteq Partitions /\ "boot" \notin Partitions
    /\ MmcPartitions \subseteq Partitions \ {"kernel", "ramdisk"}
    /\ Formatted \subseteq MmcPartitions
    /\ MoviCount \in [Partitions \ MmcPartitions -> Nat]
    /\ transfer_buffer_size \in Nat /\ transfer_buffer_size >= PAGE
    /\ Unplugs \in Nat /\ Failing \subseteq Partitions
    /\ NONE \notin Images
    /\ ZERO \notin {<<i, 0>> : i \in Images}

Unit == (UNION {{<<i, n>> : n \in 0..Size(i) - 1} : i \in Images}) \cup {JUNK, ZERO}
Targets == Partitions \cup {"boot", "unknown"}
Commands ==
    [op: {"getvar", "oem", "boot", "reboot"}, arg: {NONE}]
        \cup [op: {"download"}, arg: Images]
        \cup [op: {"flash"}, arg: Targets] \cup [op: {"erase"}, arg: Partitions]

\* A packet of data is given by the image and the first unit that it carries.
Data == [op: {"data"}, arg: UNION {{<<i, n>> : n \in 0..Size(i) - 1} : i \in Images}]
Packets == Commands \cup Data
NoCommand == [op |-> "none", arg |-> NONE]
Replies == [kind: {"OKAY", "FAIL", "DATA"}, size: Nat]
Okay == [kind |-> "OKAY", size |-> 0]
Fail == [kind |-> "FAIL", size |-> 0]

VARIABLES
    download_size,       \* what is to be downloaded; 0 when a command is expected
    download_bytes,      \* what was downloaded
    buffer,              \* the transfer buffer
    flash,               \* partition -> its units
    fboot_response_flag, \* a reply is to be sent
    reply_msg,
    waiting,             \* the commands that wait in fastboot_tx_status for their
                         \* reply to be sent, innermost first
    fifo,                \* fastboot_bulk_fifo: the packet handled last, as far as a boot
                         \* command that waits has to know it
    phase,               \* "poll", "init", "prompt", "reset" or "kernel"
    connected, unplugs,
    out,                 \* the packet in the receive FIFO: <<>> or <<packet>>
    hstate,              \* the host: "idle", "sending" or "waiting"
    hcmd, hsent,         \* its command, and how much data it has sent
    loaded,              \* the image whose download the device acknowledged
    flashed,             \* partition -> what it holds, according to the replies
    swallowed            \* history: the device has taken the host's command for data

deviceVars == <<download_size, download_bytes, buffer, flash, fboot_response_flag,
                reply_msg, waiting, fifo, phase>>
hostVars == <<hstate, hcmd, hsent, loaded, flashed, swallowed>>
vars == <<deviceVars, connected, unplugs, out, hostVars>>

\* What the host may believe of a partition: nothing, or that it holds a part of an
\* image (of NONE if it was told so without having downloaded one).
Belief == [image: Images \cup {NONE}, part: {"unknown", "whole", "kernel", "ramdisk"}]
Unknown == [image |-> NONE, part |-> "unknown"]

TypeOK ==
    /\ download_size \in 0..transfer_buffer_size
    /\ download_bytes \in 0..transfer_buffer_size
    /\ buffer \in [0..transfer_buffer_size - 1 -> Unit]
    /\ DOMAIN flash = Partitions
    /\ fboot_response_flag \in BOOLEAN
    /\ reply_msg \in Replies
    /\ waiting \in Seq({"boot", "reboot"})
    /\ fifo \in Commands \cup {NoCommand}
    /\ phase \in {"poll", "init", "prompt", "reset", "kernel"}
    /\ connected \in BOOLEAN /\ unplugs \in 0..Unplugs
    /\ out \in {<<>>} \cup {<<packet>> : packet \in Packets}
    /\ hstate \in {"idle", "sending", "waiting"}
    /\ hcmd \in Commands \cup {NoCommand}
    /\ hsent \in Nat
    /\ loaded \in Images \cup {NONE}
    /\ flashed \in [Partitions -> Belief]
    /\ swallowed \in BOOLEAN

Init ==
    /\ download_size = 0 /\ download_bytes = 0
    /\ buffer = [n \in 0..transfer_buffer_size - 1 |-> IF n = 0 THEN ZERO ELSE JUNK]
    /\ flash = [p \in Partitions |-> <<>>]
    /\ fboot_response_flag = FALSE /\ reply_msg = Okay
    /\ waiting = <<>> /\ fifo = NoCommand /\ phase = "poll"
    /\ connected = TRUE /\ unplugs = 0 /\ out = <<>>
    /\ hstate = "idle" /\ hcmd = NoCommand /\ hsent = 0
    /\ loaded = NONE /\ flashed = [p \in Partitions |-> Unknown]
    /\ swallowed = FALSE
-----------------------------------------------------------------------------
(* The device: rx_handler. *)

\* fastboot_tx_status, FASTBOOT_TX_ASYNC: a reply not sent yet is replaced.
TxStatus(reply) ==
    /\ reply_msg' = reply
    /\ fboot_response_flag' = TRUE

\* The size of a packet, and what its unit n holds.
PacketSize(packet) ==
    IF packet.op = "data" THEN Least(PACKET, Size(packet.arg[1]) - packet.arg[2])
    ELSE CommandLength
PacketUnit(packet, n) ==
    IF packet.op = "data" THEN <<packet.arg[1], packet.arg[2] + n>> ELSE JUNK

\* What of a packet is still expected.
TransferSize(packet) == Least(PacketSize(packet), download_size - download_bytes)

\* Mutant: the packet is saved one unit too far.
SavePacketShifted(packet) ==
    buffer' = [n \in 0..transfer_buffer_size - 1 |->
                  IF n \in download_bytes + 1..download_bytes + TransferSize(packet)
                  THEN PacketUnit(packet, n - 1 - download_bytes) ELSE buffer[n]]

SavePacket(packet) ==
    buffer' = [n \in 0..transfer_buffer_size - 1 |->
                  IF n \in download_bytes..download_bytes + TransferSize(packet) - 1
                  THEN PacketUnit(packet, n - download_bytes) ELSE buffer[n]]

\* Mutant: one unit more is expected.
CompleteStrict(bytes) == bytes > download_size

Complete(bytes) == bytes >= download_size

\* rx_handler while something is being downloaded: whatever arrives is data.
ReceiveData(packet) ==
    /\ download_size # 0
    /\ SavePacket(packet)
    /\ download_bytes' = download_bytes + TransferSize(packet)
    /\ IF Complete(download_bytes')
       THEN download_size' = 0 /\ TxStatus(Okay)
       ELSE UNCHANGED <<download_size, reply_msg, fboot_response_flag>>
    /\ UNCHANGED <<flash, waiting, phase>>

CommandDownload(size) ==
    /\ download_bytes' = 0
    /\ IF size = 0 \/ size > transfer_buffer_size
       THEN download_size' = 0 /\ TxStatus(Fail)
       ELSE download_size' = size /\ TxStatus([kind |-> "DATA", size |-> size])
    /\ UNCHANGED <<buffer, flash, waiting, phase>>

TooLarge(p, size) == Length[p] # 0 /\ size > Length[p]

\* The size units from the given one on of the transfer buffer.
BufferAt(first, size) ==
    [n \in 1..size |-> IF first + n - 1 < transfer_buffer_size THEN buffer[first + n - 1]
                       ELSE JUNK]

\* write_to_ptn_sdmmc: mmc write fills the whole partition, movi writes what it is told
\* or a count of its own.
Written(p, first, size) ==
    BufferAt(first, IF p \in MmcPartitions THEN Length[p]
                    ELSE IF MoviCount[p] # 0 THEN MoviCount[p] ELSE size)
Failed == <<BROKEN>>
WriteResults(p, first, size) ==
    {Written(p, first, size)} \cup (IF p \in Failing THEN {Failed} ELSE {})

\* Only mmc says that it failed: do_movi drops what its mmc commands return.
WriteReply(p, units) == IF p \in MmcPartitions /\ units = Failed THEN Fail ELSE Okay

CommandFlashPartition(p) ==
    \/ /\ download_bytes = 0 \/ p \notin Partitions
       /\ TxStatus(Fail) /\ UNCHANGED flash
    \/ /\ download_bytes # 0 /\ p \in Partitions /\ TooLarge(p, download_bytes)
       /\ TxStatus(Fail) /\ UNCHANGED flash
    \/ /\ download_bytes # 0 /\ p \in Partitions /\ ~TooLarge(p, download_bytes)
       /\ \E units \in WriteResults(p, 0, download_bytes) :
             /\ flash' = [flash EXCEPT ![p] = units]
             /\ TxStatus(WriteReply(p, units))

\* The sizes that the header at the start of the buffer says.
AnySize == {0, 1, transfer_buffer_size}
KernelSizes ==
    IF buffer[0] = ZERO THEN {0}
    ELSE IF buffer[0] \in {<<i, 0>> : i \in Images} THEN {Kernel[buffer[0][1]]}
    ELSE AnySize
RamdiskSizes ==
    IF buffer[1] \in {<<i, 1>> : i \in Images} THEN {Ramdisk[buffer[1][1]]} ELSE AnySize

\* Mutant: a last page that is not full is not counted.
RamdiskOffsetDown(k) == (1 + k \div PAGE) * PAGE

\* Where the ramdisk of an image begins, after a kernel of size k.
RamdiskOffset(k) == (1 + (k + PAGE - 1) \div PAGE) * PAGE

\* flash:boot.  The kernel is written before the size of the ramdisk is looked at.
CommandFlashBoot ==
    \/ /\ download_bytes = 0
       /\ TxStatus(Fail) /\ UNCHANGED flash
    \/ /\ download_bytes # 0
       /\ \E k \in KernelSizes, r \in RamdiskSizes :
             \/ /\ TooLarge("kernel", k)
                /\ TxStatus(Fail) /\ UNCHANGED flash
             \/ /\ ~TooLarge("kernel", k)
                /\ \E kernel \in WriteResults("kernel", PAGE, k) :
                      \/ /\ TooLarge("ramdisk", r)
                         /\ flash' = [flash EXCEPT !["kernel"] = kernel]
                         /\ TxStatus(Fail)
                      \/ /\ ~TooLarge("ramdisk", r)
                         /\ \E ramdisk \in WriteResults("ramdisk", RamdiskOffset(k), r) :
                               flash' = [flash EXCEPT !["kernel"] = kernel,
                                                      !["ramdisk"] = ramdisk]
                         /\ TxStatus(Okay)

CommandFlash(p) == IF p = "boot" THEN CommandFlashBoot ELSE CommandFlashPartition(p)

CommandErase(p) ==
    \/ /\ p \notin Formatted
       /\ TxStatus(Fail) /\ UNCHANGED flash
    \/ /\ p \in Formatted
       /\ \E units \in {<<ZERO>>} \cup (IF p \in Failing THEN {Failed} ELSE {}) :
             /\ flash' = [flash EXCEPT ![p] = units]
             /\ TxStatus(WriteReply(p, units))

\* Mutant: boot clears the place of the reboot magic too.
CommandSyncClearing(op) ==
    /\ buffer' = [buffer EXCEPT ![0] = ZERO]
    /\ TxStatus(Okay)
    /\ waiting' = <<op>> \o waiting
    /\ UNCHANGED <<download_size, download_bytes, flash, phase>>

\* reboot and boot answer with FASTBOOT_TX_SYNC: they go on polling, in the middle of
\* the handler, until the reply was sent.  reboot clears the place of the reboot magic.
CommandSync(op) ==
    /\ buffer' = IF op = "reboot" THEN [buffer EXCEPT ![0] = ZERO] ELSE buffer
    /\ TxStatus(Okay)
    /\ waiting' = <<op>> \o waiting
    /\ UNCHANGED <<download_size, download_bytes, flash, phase>>

\* rx_handler, when no download is going on.
ReceiveCommand(c) ==
    /\ download_size = 0
    /\ \/ /\ c.op = "download" /\ CommandDownload(Size(c.arg))
       \/ /\ \/ c.op = "flash" /\ CommandFlash(c.arg)
             \/ c.op = "erase" /\ CommandErase(c.arg)
          /\ UNCHANGED <<download_size, download_bytes, buffer, waiting, phase>>
       \/ /\ c.op = "reboot" \/ (c.op = "boot" /\ download_bytes > PAGE)
          /\ CommandSync(c.op)
       \/ /\ c.op \in {"getvar", "oem", "data"} \/ (c.op = "boot" /\ download_bytes <= PAGE)
          /\ TxStatus(IF c.op \in {"getvar", "oem"} THEN Okay ELSE Fail)
          /\ UNCHANGED <<download_size, download_bytes, buffer, flash, waiting, phase>>
-----------------------------------------------------------------------------
(* The device: do_fastboot and fastboot_poll. *)

\* The loop of fastboot_tx_status ends as soon as the reply was sent.
Returning == waiting # <<>> /\ ~fboot_response_flag
Polling == phase = "poll" /\ connected /\ ~Returning
BootWaits == \E n \in 1..Len(waiting) : waiting[n] = "boot"

\* fastboot_poll with a packet in the receive FIFO.
PollOut ==
    /\ Polling /\ out # <<>>
    /\ out' = <<>>
    /\ ReceiveData(out[1]) \/ ReceiveCommand(out[1])
    /\ fifo' = IF BootWaits' /\ out[1].op \in {"flash", "oem"} THEN out[1] ELSE NoCommand
    /\ swallowed' = (swallowed \/ (/\ hstate # "idle"
                                   /\ download_size # 0 /\ out[1].op # "data"))
    /\ UNCHANGED <<connected, unplugs, hstate, hcmd, hsent, loaded, flashed>>

\* bootm has failed: rx_handler goes on comparing cmdbuf, which is the shared FIFO, with
\* flash: and oem.  If another packet was handled meanwhile, it is handled again.
BootFailed ==
    \/ fifo.op = "flash" /\ CommandFlash(fifo.arg)
    \/ /\ fifo.op # "flash"
       /\ TxStatus(IF fifo.op = "oem" THEN Okay ELSE Fail) /\ UNCHANGED flash

\* What follows a FASTBOOT_TX_SYNC: a reset, or the kernel, unless bootm fails.
SyncReturns ==
    /\ phase = "poll" /\ Returning
    /\ waiting' = Tail(waiting)
    /\ fifo' = IF BootWaits' THEN fifo ELSE NoCommand
    /\ \/ /\ phase' = IF Head(waiting) = "reboot" THEN "reset" ELSE "kernel"
          /\ UNCHANGED <<flash, reply_msg, fboot_response_flag>>
       \/ /\ Head(waiting) = "boot"
          /\ BootFailed /\ UNCHANGED phase
    /\ UNCHANGED <<download_size, download_bytes, buffer, connected, unplugs, out,
                   hostVars>>

\* fastboot_poll finds the cable unplugged: fastboot_shutdown.  Inside the loop of
\* fastboot_tx_status nobody looks at what fastboot_poll returns.
PollDisconnect ==
    /\ phase = "poll" /\ ~connected /\ waiting = <<>>
    /\ phase' = "init"
    /\ out' = <<>>
    /\ UNCHANGED <<download_size, download_bytes, buffer, flash, fboot_response_flag,
                   reply_msg, waiting, fifo, connected, unplugs, hostVars>>

\* fastboot_init waits for the cable and clears the place of the reboot magic.
FastbootInit ==
    /\ phase = "init" /\ connected
    /\ phase' = "poll"
    /\ buffer' = [buffer EXCEPT ![0] = ZERO]
    /\ UNCHANGED <<download_size, download_bytes, flash, fboot_response_flag, reply_msg,
                   waiting, fifo, connected, unplugs, out, hostVars>>
-----------------------------------------------------------------------------
(* The host, the cable and the user. *)

HostDone == hstate' = "idle" /\ hcmd' = NoCommand /\ hsent' = 0 /\ swallowed' = FALSE
HostGivesUp == HostDone /\ UNCHANGED <<loaded, flashed>>

\* The user stops the command with ^C, which ends the host's connection too.
Quit ==
    /\ phase = "poll" /\ waiting = <<>> /\ unplugs < Unplugs
    /\ phase' = "prompt" /\ unplugs' = unplugs + 1 /\ out' = <<>>
    /\ HostGivesUp
    /\ UNCHANGED <<download_size, download_bytes, buffer, flash, fboot_response_flag,
                   reply_msg, waiting, fifo, connected>>

\* The user starts it again, having perhaps used the memory for something else.
Again ==
    /\ phase = "prompt"
    /\ phase' = "init"
    /\ \/ UNCHANGED buffer
       \/ buffer' = [n \in DOMAIN buffer |-> JUNK]
    /\ UNCHANGED <<download_size, download_bytes, flash, fboot_response_flag, reply_msg,
                   waiting, fifo, connected, unplugs, out, hostVars>>

Unplug ==
    /\ connected /\ phase \in {"poll", "init"} /\ unplugs < Unplugs
    /\ connected' = FALSE /\ unplugs' = unplugs + 1
    /\ HostGivesUp
    /\ UNCHANGED <<deviceVars, out>>

Plug ==
    /\ ~connected
    /\ connected' = TRUE
    /\ UNCHANGED <<deviceVars, unplugs, out, hostVars>>

CanSend == connected /\ phase = "poll" /\ out = <<>>

\* A partition that a command changes holds nothing known until the reply.
HostCommand ==
    /\ hstate = "idle" /\ CanSend
    /\ \E c \in Commands :
          LET changed == IF c.op \notin {"flash", "erase"} THEN {}
                         ELSE IF c.arg = "boot" THEN {"kernel", "ramdisk"} ELSE {c.arg}
          IN  /\ hcmd' = c
              /\ out' = <<c>>
              /\ loaded' = IF c.op = "download" THEN NONE ELSE loaded
              /\ flashed' = [p \in Partitions |-> IF p \in changed THEN Unknown
                                                  ELSE flashed[p]]
    /\ hstate' = "waiting" /\ hsent' = 0 /\ swallowed' = FALSE
    /\ UNCHANGED <<deviceVars, connected, unplugs>>

HostSend ==
    /\ hstate = "sending" /\ CanSend
    /\ out' = <<[op |-> "data", arg |-> <<hcmd.arg, hsent>>]>>
    /\ hsent' = hsent + PacketSize(out'[1])
    /\ hstate' = IF hsent' = Size(hcmd.arg) THEN "waiting" ELSE "sending"
    /\ UNCHANGED <<deviceVars, connected, unplugs, hcmd, loaded, flashed, swallowed>>

\* What the host makes of a reply.
HostReceives(r) ==
    \/ /\ hcmd.op = "download" /\ hsent = 0
       /\ r = [kind |-> "DATA", size |-> Size(hcmd.arg)]
       /\ hstate' = "sending"
       /\ UNCHANGED <<hcmd, hsent, loaded, flashed, swallowed>>
    \/ /\ hcmd.op = "download" /\ hsent # 0 /\ r = Okay
       /\ loaded' = hcmd.arg
       /\ HostDone /\ UNCHANGED flashed
    \/ /\ hcmd.op = "flash" /\ r = Okay
       /\ flashed' = [p \in Partitions |->
                         IF p = hcmd.arg THEN [image |-> loaded, part |-> "whole"]
                         ELSE IF hcmd.arg = "boot" /\ p \in {"kernel", "ramdisk"}
                              THEN [image |-> loaded, part |-> p]
                         ELSE flashed[p]]
       /\ HostDone /\ UNCHANGED loaded
    \/ /\ ~(hcmd.op = "download" /\ hsent = 0 /\ r = [kind |-> "DATA", size |-> Size(hcmd.arg)])
       /\ ~(hcmd.op = "download" /\ hsent # 0 /\ r = Okay)
       /\ ~(hcmd.op = "flash" /\ r = Okay)
       /\ HostGivesUp

\* fboot_usb_int_bulkin: the host, having sent all it has to send, asks for the reply.
PollIn ==
    /\ Polling /\ out = <<>> /\ hstate = "waiting"
    /\ fboot_response_flag
    /\ fboot_response_flag' = FALSE
    /\ HostReceives(reply_msg)
    /\ UNCHANGED <<download_size, download_bytes, buffer, flash, reply_msg, waiting, fifo,
                   phase, connected, unplugs, out>>
-----------------------------------------------------------------------------
Next ==
    \/ PollOut \/ PollIn \/ SyncReturns \/ PollDisconnect \/ FastbootInit
    \/ HostCommand \/ HostSend
    \/ Quit \/ Again \/ Unplug \/ Plug

Spec == Init /\ [][Next]_vars

\* The device polls all the time and the host sends what it announced.
Fairness == WF_vars(PollOut \/ PollIn \/ SyncReturns) /\ WF_vars(HostSend)

FairSpec == Spec /\ Fairness
-----------------------------------------------------------------------------
\* The units of an image that go to a partition.
PartSize(i, part) ==
    CASE part = "whole"   -> Size(i)
      [] part = "kernel"  -> Kernel[i]
      [] part = "ramdisk" -> Ramdisk[i]
PartFirst(i, part) ==
    CASE part = "whole"   -> 0
      [] part = "kernel"  -> PAGE
      [] part = "ramdisk" -> PAGE + Padded(Kernel[i])

\* What was written to partition p begins with them, as far as movi goes.
Reached(p, size) ==
    IF p \in MmcPartitions \/ MoviCount[p] = 0 THEN size ELSE Least(size, MoviCount[p])
Holds(units, p, i, part) ==
    /\ Len(units) >= Reached(p, PartSize(i, part))
    /\ \A n \in 1..Reached(p, PartSize(i, part)) : units[n] = <<i, PartFirst(i, part) + n - 1>>

\* What OKAY says of a partition.
AsTold(units, p, i, part) ==
    \/ Holds(units, p, i, part)
    \/ p \notin MmcPartitions /\ units = Failed

\* A partition whose flashing was answered with OKAY holds the image that the host
\* downloaded, and there was one: the header, the offsets and the sizes that the
\* flash: handler works from are those of the last complete download.  OKAY does not say
\* that movi has written what it was told: it may have failed, and of a kernel it writes
\* MOVI_ZIMAGE_BLKCNT blocks.  An interruption may leave the device with another idea
\* of the download than the host has.
FlashedAsDownloaded ==
    unplugs = 0 =>
        \A p \in Partitions :
            flashed[p].part # "unknown" =>
                /\ flashed[p].image # NONE
                /\ AsTold(flash[p], p, flashed[p].image, flashed[p].part)

\* The image acknowledged last stays in the transfer buffer, and download_bytes with
\* it, for the flash: and boot commands that may follow, however many there are.  (A
\* command that waits for its reply may be reboot, which overwrites the first unit.)
AcknowledgedStays ==
    unplugs = 0 /\ loaded # NONE /\ phase = "poll" /\ waiting = <<>> =>
        /\ download_bytes = Size(loaded)
        /\ \A n \in 0..Size(loaded) - 1 : buffer[n] = <<loaded, n>>

\* A download is acknowledged to the host only when every unit of its image is in the
\* transfer buffer, in its place, and download_bytes says so, whatever was interrupted
\* before it and whatever handler still waits in the middle of another command; unless
\* the device took the download: command itself for data of an earlier download, and
\* with it a DATA reply that nobody had collected answered it.
AcknowledgedIsComplete ==
    [][loaded' # loaded /\ loaded' # NONE /\ ~swallowed =>
          /\ download_size' = 0 /\ download_bytes' = Size(loaded')
          /\ \A n \in 0..Size(loaded') - 1 : buffer'[n] = <<loaded', n>>]_vars

\* Every command is answered: rx_handler sets a reply on each of its paths, or
\* expects the data that the host is about to send.
CommandsAnswered ==
    (unplugs = 0 /\ hstate = "waiting") ~> (hstate # "waiting" \/ phase # "poll")
=============================================================================
