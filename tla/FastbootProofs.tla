--------------------------- MODULE FastbootProofs ---------------------------
(***************************************************************************)
(* Fastboot: what is acknowledged was downloaded completely, whatever was  *)
(* interrupted before, and in a session without an interruption what is    *)
(* flashed is what was downloaded, for any images, partitions, size of the *)
(* transfer buffer and failures of the flash.                              *)
(***************************************************************************)
EXTENDS Fastboot, SequenceTheorems, TLAPS

\* The first k units of the transfer buffer are those of image i.
Prefix(i, k) == \A n \in 0..k - 1 : buffer[n] = <<i, n>>

\* A host that is busy is connected, and the device is in its loop or has left it for good.
HostConnected == hstate # "idle" => connected /\ phase \in {"poll", "reset", "kernel"}

\* The command of the host, and how much of its data it has sent.
HostProgress ==
    /\ hstate = "idle" => hcmd = NoCommand /\ hsent = 0
    /\ hstate = "sending" => /\ hcmd \in Commands /\ hcmd.op = "download"
                             /\ hsent < Size(hcmd.arg)
    /\ hstate = "waiting" => /\ hcmd \in Commands
                             /\ hsent # 0 => hcmd.op = "download" /\ hsent = Size(hcmd.arg)

\* A packet of the host's data, and where it ends.
DataPacket(first) == [op |-> "data", arg |-> <<hcmd.arg, first>>]
DataEnd(first) == first + Least(PACKET, Size(hcmd.arg) - first)

\* What waits in the FIFO is what the host sent last.
OutIsLast ==
    hstate # "idle" =>
        \/ out = <<>>
        \/ hstate = "waiting" /\ hsent = 0 /\ out = <<hcmd>>
        \/ /\ hsent # 0
           /\ \E first \in 0..Size(hcmd.arg) - 1 :
                 out = <<DataPacket(first)>> /\ hsent = DataEnd(first)

\* A download goes on only until all of it is there.
DownloadOpen == download_size # 0 => download_bytes < download_size

\* A device that answers download: with DATA expects that much, and has nothing of it.
DataExpected ==
    hstate = "waiting" /\ hcmd.op = "download" /\ hsent = 0 /\ out = <<>> /\ ~swallowed =>
        /\ download_bytes = 0
        /\ fboot_response_flag /\ reply_msg.kind = "DATA" => download_size = Size(hcmd.arg)

\* The host sends the data of an image, and the device has been given this much of it.
Transferring == hstate = "sending" \/ (hstate = "waiting" /\ hsent # 0)
Got == IF out = <<>> THEN hsent ELSE out[1].arg[2]

\* A transfer whose download: command the device has handled is in step, until it is
\* complete.  (The device is ahead of one whose command it has taken for data, and cuts
\* its last packet.)
TransferInStep ==
    LET i == hcmd.arg
    IN  Transferring /\ ~swallowed =>
            /\ download_bytes = Got /\ Prefix(i, Got)
            /\ download_size = IF Got = Size(i) THEN 0 ELSE Size(i)

\* The inductive invariant of every session.
IndInv ==
    /\ TypeOK
    /\ HostConnected
    /\ HostProgress
    /\ OutIsLast
    /\ DownloadOpen
    /\ DataExpected
    /\ TransferInStep

\* In a session without an interruption the following holds too.

\* A command that waits for its reply to be sent is alone, and until it is sent the host
\* waits for it as well.
OneWaits ==
    /\ fifo = NoCommand
    /\ waiting # <<>> =>
          /\ Len(waiting) = 1
          /\ ~Transferring
          /\ fboot_response_flag => /\ hstate = "waiting" /\ out = <<>>
                                    /\ hcmd.op \in {"boot", "reboot"}

\* The device expects data only from a host that sends it, and has an answer for a host
\* that waits for one.
Answered ==
    /\ connected /\ phase \in {"poll", "reset", "kernel"}
    /\ hstate = "idle" => out = <<>>
    /\ hcmd.op # "download" \/ (hsent = 0 /\ out # <<>>) => download_size = 0
    /\ hstate = "waiting" /\ out = <<>> => fboot_response_flag

\* The reply to download:.
DownloadReply ==
    hstate = "waiting" /\ hcmd.op = "download" /\ hsent = 0 /\ out = <<>> =>
        /\ download_bytes = 0
        /\ \/ download_size = 0 /\ reply_msg = Fail
           \/ /\ download_size = Size(hcmd.arg)
              /\ reply_msg = [kind |-> "DATA", size |-> Size(hcmd.arg)]

\* A transfer is in step, and at its end acknowledged.
Transfer ==
    LET i == hcmd.arg
    IN  Transferring =>
            /\ download_bytes = Got /\ Prefix(i, Got)
            /\ IF Got = Size(i) THEN download_size = 0 /\ reply_msg = Okay
                                ELSE download_size = Size(i)

\* What the host believes to be loaded is, unless the device is about to reset.
LoadedIs ==
    /\ loaded = NONE /\ hcmd.op # "download" => download_bytes = 0
    /\ loaded # NONE =>
          /\ hcmd.op # "download"
          /\ download_bytes = Size(loaded)
          /\ phase = "poll" /\ (waiting # <<>> => Head(waiting) # "reboot") =>
                Prefix(loaded, Size(loaded))

\* The partitions that a command changes.
Changed(c) ==
    IF c.op \notin {"flash", "erase"} THEN {}
    ELSE IF c.arg = "boot" THEN {"kernel", "ramdisk"} ELSE {c.arg}

\* What OKAY says of the partitions.
FlashReply ==
    hcmd.op = "flash" /\ hstate = "waiting" /\ out = <<>> /\ reply_msg = Okay =>
        /\ loaded # NONE
        /\ \A p \in Changed(hcmd) :
              p \in Partitions
                 /\ AsTold(flash[p], p, loaded, IF hcmd.arg = "boot" THEN p ELSE "whole")

\* The host knows nothing of the partitions that its command changes, and what it knows
\* of the others is so.
BeliefIs ==
    /\ \A p \in Partitions : p \in Changed(hcmd) => flashed[p] = Unknown
    /\ \A p \in Partitions :
          flashed[p].part # "unknown" =>
              flashed[p].image # NONE
                 /\ AsTold(flash[p], p, flashed[p].image, flashed[p].part)

LoadInv ==
    unplugs = 0 => OneWaits /\ Answered /\ DownloadReply /\ Transfer /\ LoadedIs

FlashInv == unplugs = 0 => FlashReply /\ BeliefIs
-----------------------------------------------------------------------------
(* Images, units and commands. *)

\* Padding never shortens, and the ramdisk of an image begins where mkbootimg puts it.
LEMMA PaddedIs ==
    ASSUME NEW n \in Nat
    PROVE  /\ Padded(n) \in Nat /\ n <= Padded(n)
           /\ RamdiskOffset(n) = PAGE + Padded(n)
<1> DEFINE d == (n + PAGE - 1) \div PAGE
<1>0. PAGE \in Nat \ {0}
  BY FastbootAssumption
<1>1. d \in Nat /\ d * PAGE <= n + PAGE - 1 /\ n + PAGE - 1 < d * PAGE + PAGE
  BY <1>0
<1>2. Padded(n) = d * PAGE /\ RamdiskOffset(n) = (1 + d) * PAGE
  BY DEF Padded, RamdiskOffset
<1> HIDE DEF d
<1>3. d * PAGE \in Nat /\ (1 + d) * PAGE = PAGE + d * PAGE
  BY <1>0, <1>1
<1> QED
  BY <1>0, <1>1, <1>2, <1>3

LEMMA SizeIs ==
    ASSUME NEW i \in Images
    PROVE  /\ Kernel[i] \in Nat /\ Ramdisk[i] \in Nat
           /\ Padded(Kernel[i]) \in Nat /\ Kernel[i] <= Padded(Kernel[i])
           /\ Padded(Ramdisk[i]) \in Nat /\ Ramdisk[i] <= Padded(Ramdisk[i])
           /\ Size(i) \in Nat /\ Size(i) = PAGE + Padded(Kernel[i]) + Padded(Ramdisk[i])
           /\ PAGE \in Nat /\ PAGE >= 2 /\ Size(i) >= 2
<1>1. Kernel[i] \in Nat /\ Ramdisk[i] \in Nat /\ PAGE \in Nat /\ PAGE >= 2
  BY FastbootAssumption
<1>2. /\ Padded(Kernel[i]) \in Nat /\ Kernel[i] <= Padded(Kernel[i])
      /\ Padded(Ramdisk[i]) \in Nat /\ Ramdisk[i] <= Padded(Ramdisk[i])
  BY <1>1, PaddedIs
<1>3. Size(i) = PAGE + Padded(Kernel[i]) + Padded(Ramdisk[i])
  BY DEF Size
<1> QED
  BY <1>1, <1>2, <1>3

\* The units of the images.
Units == UNION {{<<i, n>> : n \in 0..Size(i) - 1} : i \in Images}

LEMMA UnitIs ==
    /\ JUNK \in Unit /\ ZERO \in Unit
    /\ \A i \in Images : \A n \in 0..Size(i) - 1 : <<i, n>> \in Units
    /\ Units \subseteq Unit
    /\ Data = [op: {"data"}, arg: Units]
<1>1. JUNK \in Unit /\ ZERO \in Unit /\ Units \subseteq Unit
  BY DEF Unit, Units
<1>2. ASSUME NEW i \in Images, NEW n \in 0..Size(i) - 1 PROVE <<i, n>> \in Units
  <2>1. <<i, n>> \in {<<i, m>> : m \in 0..Size(i) - 1}
    OBVIOUS
  <2> QED
    BY <2>1, Zenon DEF Units
<1>3. Data = [op: {"data"}, arg: Units]
  BY DEF Data, Units
<1> QED
  BY <1>1, <1>2, <1>3

\* What the commands and the packets look like.
LEMMA CommandIs ==
    ASSUME NEW c \in Commands
    PROVE  /\ c.op \in {"getvar", "oem", "boot", "reboot", "download", "flash", "erase"}
           /\ c.op = "download" => c.arg \in Images
           /\ c.op \in {"flash", "erase"} => c.arg \in Targets
BY DEF Commands, Targets

LEMMA PacketIs ==
    ASSUME NEW c \in Packets
    PROVE  /\ c \in Commands \/ (c.op = "data" /\ c.arg \in Units)
           /\ c.op = "data" => c.arg \in Units
           /\ c.op = "download" => c.arg \in Images
           /\ c.op \in {"flash", "erase"} => c.arg \in Targets
           /\ c.op \in {"getvar", "oem", "boot", "reboot", "download", "flash", "erase", "data"}
<1>1. c \in Commands \/ c \in [op: {"data"}, arg: Units]
  BY UnitIs DEF Packets
<1> QED
  BY <1>1, CommandIs

\* A packet of an image: the units that follow each other, none of them past its end.
LEMMA DataIs ==
    ASSUME NEW i \in Images, NEW first \in 0..Size(i) - 1
    PROVE  LET packet == [op |-> "data", arg |-> <<i, first>>]
           IN  /\ packet \in Packets
               /\ PacketSize(packet) = Least(PACKET, Size(i) - first)
               /\ PacketSize(packet) \in Nat \ {0} /\ first + PacketSize(packet) <= Size(i)
               /\ \A n \in Nat : PacketUnit(packet, n) = <<i, first + n>>
               /\ \A n \in 0..PacketSize(packet) - 1 : PacketUnit(packet, n) \in Unit
<1> DEFINE packet == [op |-> "data", arg |-> <<i, first>>]
<1>0. PACKET \in Nat \ {0} /\ Size(i) \in Nat
  BY SizeIs, FastbootAssumption
<1>1. packet \in Packets
  BY UnitIs DEF Packets
<1>2. packet.op = "data" /\ packet.arg[1] = i /\ packet.arg[2] = first
  OBVIOUS
<1>3. PacketSize(packet) = Least(PACKET, Size(i) - first)
  BY <1>2 DEF PacketSize
<1>4. PacketSize(packet) \in Nat \ {0} /\ first + PacketSize(packet) <= Size(i)
  BY <1>0, <1>3 DEF Least
<1>5. \A n \in Nat : PacketUnit(packet, n) = <<i, first + n>>
  BY <1>2 DEF PacketUnit
<1>6. ASSUME NEW n \in 0..PacketSize(packet) - 1 PROVE PacketUnit(packet, n) \in Unit
  <2>1. first + n \in 0..Size(i) - 1 /\ n \in Nat
    BY <1>0, <1>4
  <2> QED
    BY <1>5, <2>1, UnitIs
<1> QED
  BY <1>1, <1>3, <1>4, <1>5, <1>6

\* Any packet is taken for data unit by unit.
LEMMA PacketUnits ==
    ASSUME NEW c \in Packets
    PROVE  /\ PacketSize(c) \in Nat \ {0}
           /\ \A n \in 0..PacketSize(c) - 1 : PacketUnit(c, n) \in Unit
<1>1. CASE c.op = "data"
  <2>1. c \in [op: {"data"}, arg: Units]
    <3>1. c \notin Commands
      BY <1>1, CommandIs
    <3> QED
      BY <3>1, UnitIs DEF Packets
  <2>2. PICK i \in Images : c.arg \in {<<i, n>> : n \in 0..Size(i) - 1}
    BY <2>1 DEF Units
  <2>3. PICK n \in 0..Size(i) - 1 : c.arg = <<i, n>>
    BY <2>2
  <2>4. c = [op |-> "data", arg |-> <<i, n>>]
    BY <2>1, <2>3
  <2> QED
    BY <2>4, DataIs
<1>2. CASE c.op # "data"
  BY <1>2, UnitIs, FastbootAssumption DEF PacketSize, PacketUnit
<1> QED
  BY <1>1, <1>2

\* Flashing sets a reply, and writes only to the partitions of Changed.
LEMMA FlashCommand ==
    ASSUME NEW c, c.op = "flash", DOMAIN flash = Partitions, CommandFlash(c.arg)
    PROVE  /\ fboot_response_flag' = TRUE /\ reply_msg' \in {Okay, Fail}
           /\ DOMAIN flash' = Partitions
           /\ \A p \in Partitions : p \notin Changed(c) => flash'[p] = flash[p]
<1>1. CASE c.arg = "boot"
  <2>0. CommandFlashBoot
    BY <1>1 DEF CommandFlash
  <2>1. fboot_response_flag' = TRUE /\ reply_msg' \in {Okay, Fail}
    BY <2>0, Zenon DEF CommandFlashBoot, TxStatus
  <2>2. \/ flash' = flash
        \/ \E k, r : flash' = [flash EXCEPT !["kernel"] = k]
                        \/ flash' = [flash EXCEPT !["kernel"] = k, !["ramdisk"] = r]
    BY <2>0, Zenon DEF CommandFlashBoot
  <2> QED
    BY <1>1, <2>1, <2>2 DEF Changed
<1>2. CASE c.arg # "boot"
  <2>0. CommandFlashPartition(c.arg)
    BY <1>2 DEF CommandFlash
  <2>1. fboot_response_flag' = TRUE /\ reply_msg' \in {Okay, Fail}
    BY <2>0, Zenon DEF CommandFlashPartition, TxStatus, WriteReply
  <2>2. flash' = flash \/ \E u : flash' = [flash EXCEPT ![c.arg] = u]
    BY <2>0, Zenon DEF CommandFlashPartition
  <2> QED
    BY <1>2, <2>1, <2>2 DEF Changed
<1> QED
  BY <1>1, <1>2

\* Every command but a download leaves download_size and download_bytes alone, all set a
\* reply, and only those of Changed write to a partition.
LEMMA CommandEffect ==
    ASSUME TypeOK, NEW c \in Packets, ReceiveCommand(c)
    PROVE  /\ download_size = 0 /\ fboot_response_flag' = TRUE /\ phase' = phase
           /\ c.op = "download" =>
                 /\ download_bytes' = 0 /\ waiting' = waiting
                 /\ \/ download_size' = 0 /\ reply_msg' = Fail
                    \/ /\ download_size' = Size(c.arg) /\ Size(c.arg) \in 1..transfer_buffer_size
                       /\ reply_msg' = [kind |-> "DATA", size |-> Size(c.arg)]
           /\ c.op # "download" =>
                 /\ download_size' = 0 /\ download_bytes' = download_bytes
                 /\ reply_msg' \in {Okay, Fail}
           /\ c.op = "data" => reply_msg' = Fail
           /\ buffer' = buffer
                 \/ (c.op = "reboot" /\ buffer' = [buffer EXCEPT ![0] = ZERO])
           /\ (waiting' = waiting /\ c.op # "reboot")
                 \/ (c.op \in {"boot", "reboot"} /\ waiting' = <<c.op>> \o waiting)
           /\ DOMAIN flash' = Partitions
           /\ \A p \in Partitions : p \notin Changed(c) => flash'[p] = flash[p]
<1>0. /\ c.op \in {"getvar", "oem", "boot", "reboot", "download", "flash", "erase", "data"}
      /\ c.op = "download" => c.arg \in Images
      /\ transfer_buffer_size \in Nat /\ DOMAIN flash = Partitions
  BY PacketIs, FastbootAssumption DEF TypeOK
<1>1. CASE c.op = "download" /\ CommandDownload(Size(c.arg))
  <2>1. Size(c.arg) \in Nat
    BY <1>0, <1>1, SizeIs
  <2> QED
    BY <1>0, <1>1, <2>1 DEF ReceiveCommand, CommandDownload, TxStatus, Fail
<1>2. CASE /\ c.op = "flash" /\ CommandFlash(c.arg)
           /\ UNCHANGED <<download_size, download_bytes, buffer, waiting, phase>>
  BY <1>0, <1>2, FlashCommand DEF ReceiveCommand
<1>4. CASE /\ c.op = "erase" /\ CommandErase(c.arg)
           /\ UNCHANGED <<download_size, download_bytes, buffer, waiting, phase>>
  <2>1. c.arg \in Formatted => c.arg # "boot"
    BY FastbootAssumption
  <2>2. fboot_response_flag' = TRUE /\ reply_msg' \in {Okay, Fail}
    BY <1>4, Zenon DEF CommandErase, TxStatus, WriteReply
  <2>3. flash' = flash \/ (c.arg \in Formatted /\ \E u : flash' = [flash EXCEPT ![c.arg] = u])
    BY <1>4, Zenon DEF CommandErase
  <2> QED
    BY <1>0, <1>4, <2>1, <2>2, <2>3 DEF ReceiveCommand, Changed
<1>5. CASE c.op \in {"boot", "reboot"} /\ CommandSync(c.op)
  BY <1>0, <1>5 DEF ReceiveCommand, CommandSync, TxStatus
<1>6. CASE /\ c.op \in {"getvar", "oem", "data", "boot"}
           /\ TxStatus(IF c.op \in {"getvar", "oem"} THEN Okay ELSE Fail)
           /\ UNCHANGED <<download_size, download_bytes, buffer, flash, waiting, phase>>
  BY <1>0, <1>6 DEF ReceiveCommand, TxStatus
<1> QED
  BY <1>0, <1>1, <1>2, <1>4, <1>5, <1>6 DEF ReceiveCommand

\* One packet of data.
LEMMA DataEffect ==
    ASSUME TypeOK, DownloadOpen, NEW c \in Packets, ReceiveData(c)
    PROVE  /\ download_size # 0 /\ phase' = phase /\ waiting' = waiting /\ flash' = flash
           /\ download_bytes \in Nat /\ download_size \in Nat /\ download_bytes < download_size
           /\ TransferSize(c) = Least(PacketSize(c), download_size - download_bytes)
           /\ TransferSize(c) \in Nat \ {0} /\ TransferSize(c) <= PacketSize(c)
           /\ download_bytes' = download_bytes + TransferSize(c)
           /\ download_bytes' <= download_size /\ download_bytes' <= transfer_buffer_size
           /\ buffer' = [n \in 0..transfer_buffer_size - 1 |->
                            IF n \in download_bytes..download_bytes + TransferSize(c) - 1
                            THEN PacketUnit(c, n - download_bytes) ELSE buffer[n]]
           /\ IF download_bytes' = download_size
              THEN download_size' = 0 /\ reply_msg' = Okay /\ fboot_response_flag' = TRUE
              ELSE UNCHANGED <<download_size, reply_msg, fboot_response_flag>>
<1>1. /\ download_size \in Nat /\ download_bytes \in Nat /\ download_bytes < download_size
      /\ download_size <= transfer_buffer_size /\ transfer_buffer_size \in Nat
  BY FastbootAssumption DEF TypeOK, DownloadOpen, ReceiveData
<1> DEFINE size == TransferSize(c)
<1>2. size = Least(PacketSize(c), download_size - download_bytes)
  BY DEF TransferSize
<1>3. PacketSize(c) \in Nat \ {0}
  BY PacketUnits
<1>4. size \in Nat \ {0} /\ size <= PacketSize(c) /\ download_bytes + size <= download_size
  BY <1>1, <1>2, <1>3 DEF Least
<1>5. /\ download_size # 0 /\ phase' = phase /\ waiting' = waiting /\ flash' = flash
      /\ download_bytes' = download_bytes + size
      /\ buffer' = [n \in 0..transfer_buffer_size - 1 |->
                       IF n \in download_bytes..download_bytes + size - 1
                       THEN PacketUnit(c, n - download_bytes) ELSE buffer[n]]
      /\ IF download_bytes' >= download_size
         THEN download_size' = 0 /\ reply_msg' = Okay /\ fboot_response_flag' = TRUE
         ELSE UNCHANGED <<download_size, reply_msg, fboot_response_flag>>
  BY DEF ReceiveData, SavePacket, Complete, TxStatus
<1> HIDE DEF size
<1>6. download_bytes' <= download_size /\ download_bytes' \in Nat
  BY <1>1, <1>4, <1>5
<1>7. download_bytes' >= download_size <=> download_bytes' = download_size
  BY <1>1, <1>6
<1> QED
  BY <1>1, <1>2, <1>4, <1>5, <1>6, <1>7 DEF size
-----------------------------------------------------------------------------
(* Every session. *)

\* The types of what the device keeps.
DeviceTypes ==
    /\ download_size \in 0..transfer_buffer_size
    /\ download_bytes \in 0..transfer_buffer_size
    /\ buffer \in [0..transfer_buffer_size - 1 -> Unit]
    /\ DOMAIN flash = Partitions
    /\ fboot_response_flag \in BOOLEAN
    /\ reply_msg \in Replies
    /\ waiting \in Seq({"boot", "reboot"})
    /\ fifo \in Commands \cup {NoCommand}
    /\ phase \in {"poll", "init", "prompt", "reset", "kernel"}

\* The types of what the host keeps, and of what is on the cable.
HostTypes ==
    /\ connected \in BOOLEAN /\ unplugs \in 0..Unplugs
    /\ out \in {<<>>} \cup {<<packet>> : packet \in Packets}
    /\ hstate \in {"idle", "sending", "waiting"}
    /\ hcmd \in Commands \cup {NoCommand}
    /\ hsent \in Nat
    /\ loaded \in Images \cup {NONE}
    /\ flashed \in [Partitions -> Belief]
    /\ swallowed \in BOOLEAN

LEMMA TypeParts == TypeOK <=> DeviceTypes /\ HostTypes
BY DEF TypeOK, DeviceTypes, HostTypes

\* The packet in the FIFO.
LEMMA OutIs ==
    ASSUME HostTypes, out # <<>>
    PROVE  out[1] \in Packets /\ out = <<out[1]>>
BY DEF HostTypes

\* A packet is saved at its place, a command keeps the types as they are.
LEMMA PollOutTypes ==
    ASSUME IndInv, PollOut
    PROVE  DeviceTypes' /\ HostTypes'
<1>0. /\ TypeOK /\ DeviceTypes /\ HostTypes /\ DownloadOpen
      /\ out[1] \in Packets
  BY TypeParts, OutIs DEF IndInv, PollOut
<1>1. HostTypes'
  BY <1>0 DEF PollOut, HostTypes
<1>5. fifo' \in Commands \cup {NoCommand}
  <2>1. out[1].op # "data" => out[1] \in Commands
    BY <1>0, PacketIs
  <2> QED
    BY <2>1 DEF PollOut
<1>2. Okay \in Replies /\ Fail \in Replies /\ \A n \in Nat : [kind |-> "DATA", size |-> n] \in Replies
  BY DEF Okay, Fail, Replies
<1>3. CASE ReceiveCommand(out[1])
  <2>1. buffer' \in [0..transfer_buffer_size - 1 -> Unit]
    BY <1>0, <1>3, CommandEffect, UnitIs DEF DeviceTypes
  <2>2. waiting' \in Seq({"boot", "reboot"})
    <3>1. waiting \in Seq({"boot", "reboot"})
      BY <1>0 DEF DeviceTypes
    <3>2. \/ waiting' = waiting
          \/ out[1].op \in {"boot", "reboot"} /\ waiting' = <<out[1].op>> \o waiting
      BY <1>0, <1>3, CommandEffect
    <3>3. CASE out[1].op \in {"boot", "reboot"} /\ waiting' = <<out[1].op>> \o waiting
      <4>1. <<out[1].op>> \in Seq({"boot", "reboot"})
        BY <3>3
      <4> QED
        BY <3>1, <3>3, <4>1, ConcatProperties
    <3> QED
      BY <3>1, <3>2, <3>3
  <2>3. /\ download_size' \in 0..transfer_buffer_size
        /\ download_bytes' \in 0..transfer_buffer_size
        /\ reply_msg' \in Replies
    <3>0. /\ transfer_buffer_size \in Nat /\ download_bytes \in 0..transfer_buffer_size
      BY <1>0, FastbootAssumption DEF DeviceTypes
    <3>1. CASE out[1].op = "download"
      <4>1. /\ download_bytes' = 0
            /\ \/ download_size' = 0 /\ reply_msg' = Fail
               \/ /\ download_size' = Size(out[1].arg)
                  /\ Size(out[1].arg) \in 1..transfer_buffer_size
                  /\ reply_msg' = [kind |-> "DATA", size |-> Size(out[1].arg)]
        BY <1>0, <1>3, <3>1, CommandEffect
      <4> QED
        BY <1>2, <3>0, <4>1
    <3>2. CASE out[1].op # "download"
      <4>1. /\ download_size' = 0 /\ download_bytes' = download_bytes
            /\ reply_msg' \in {Okay, Fail}
        BY <1>0, <1>3, <3>2, CommandEffect
      <4> QED
        BY <1>2, <3>0, <4>1
    <3> QED
      BY <3>1, <3>2
  <2> QED
    BY <1>0, <1>1, <1>3, <1>5, <2>1, <2>2, <2>3, CommandEffect DEF DeviceTypes
<1>4. CASE ReceiveData(out[1])
  <2> DEFINE size == TransferSize(out[1])
  <2>1. /\ size \in Nat /\ size <= PacketSize(out[1]) /\ PacketSize(out[1]) \in Nat
        /\ download_bytes \in Nat
        /\ \A n \in 0..PacketSize(out[1]) - 1 : PacketUnit(out[1], n) \in Unit
        /\ buffer' = [n \in 0..transfer_buffer_size - 1 |->
                         IF n \in download_bytes..download_bytes + size - 1
                         THEN PacketUnit(out[1], n - download_bytes) ELSE buffer[n]]
    BY <1>0, <1>4, DataEffect, PacketUnits
  <2> HIDE DEF size
  <2>3. buffer' \in [0..transfer_buffer_size - 1 -> Unit]
    <3>1. ASSUME NEW n \in download_bytes..download_bytes + size - 1
          PROVE  PacketUnit(out[1], n - download_bytes) \in Unit
      <4>1. n - download_bytes \in 0..PacketSize(out[1]) - 1
        BY <2>1
      <4> QED
        BY <2>1, <4>1
    <3>2. \A n \in 0..transfer_buffer_size - 1 : buffer[n] \in Unit
      BY <1>0 DEF DeviceTypes
    <3> QED
      BY <2>1, <3>1, <3>2
  <2>4. /\ download_size' \in 0..transfer_buffer_size
        /\ download_bytes' \in 0..transfer_buffer_size
        /\ phase' = phase /\ waiting' = waiting /\ flash' = flash
    <3>1. /\ download_bytes' = download_bytes + size /\ download_bytes' <= transfer_buffer_size
          /\ download_size' \in {0, download_size}
          /\ phase' = phase /\ waiting' = waiting /\ flash' = flash
      BY <1>0, <1>4, DataEffect DEF size
    <3> QED
      BY <1>0, <2>1, <3>1, FastbootAssumption DEF DeviceTypes
  <2>5. reply_msg' \in Replies /\ fboot_response_flag' \in BOOLEAN
    <3>1. \/ reply_msg' = Okay /\ fboot_response_flag' = TRUE
          \/ reply_msg' = reply_msg /\ fboot_response_flag' = fboot_response_flag
      BY <1>0, <1>4, DataEffect
    <3> QED
      BY <1>0, <1>2, <3>1 DEF DeviceTypes
  <2> QED
    BY <1>0, <1>1, <1>5, <2>3, <2>4, <2>5 DEF DeviceTypes
<1> QED
  BY <1>3, <1>4 DEF PollOut

\* What the host concludes is of its type.
LEMMA PollInTypes ==
    ASSUME IndInv, PollIn
    PROVE  DeviceTypes' /\ HostTypes'
<1>0. DeviceTypes /\ HostTypes /\ hstate = "waiting" /\ hcmd \in Commands
  BY TypeParts DEF IndInv, PollIn, HostProgress
<1>1. DeviceTypes'
  BY <1>0 DEF PollIn, DeviceTypes
<1>2. /\ connected' \in BOOLEAN /\ unplugs' \in 0..Unplugs
      /\ out' \in {<<>>} \cup {<<packet>> : packet \in Packets}
  BY <1>0 DEF PollIn, HostTypes
<1>3. /\ hstate' \in {"idle", "sending"} /\ hcmd' \in Commands \cup {NoCommand} /\ hsent' \in Nat
      /\ loaded' \in Images \cup {NONE} /\ swallowed' \in BOOLEAN
  <2>0. hcmd.op = "download" => hcmd.arg \in Images
    BY <1>0, CommandIs
  <2>1. \/ /\ hstate' = "idle" /\ hcmd' = NoCommand /\ hsent' = 0 /\ swallowed' = FALSE
           /\ loaded' = loaded \/ (hcmd.op = "download" /\ loaded' = hcmd.arg)
        \/ hstate' = "sending" /\ UNCHANGED <<hcmd, hsent, loaded, swallowed>>
    BY <1>0, Zenon DEF PollIn, HostReceives, HostGivesUp, HostDone
  <2>2. /\ hstate \in {"idle", "sending", "waiting"} /\ hcmd \in Commands \cup {NoCommand}
        /\ hsent \in Nat /\ loaded \in Images \cup {NONE} /\ swallowed \in BOOLEAN
    BY <1>0, Zenon DEF HostTypes
  <2>3. hsent' \in Nat
    BY <2>1, <2>2
  <2>4. swallowed' \in BOOLEAN
    BY <2>1, <2>2, Zenon
  <2> QED
    BY <2>0, <2>1, <2>2, <2>3, <2>4, Zenon
<1>4. flashed' \in [Partitions -> Belief]
  <2>1. CASE flashed' = flashed
    BY <1>0, <2>1 DEF HostTypes
  <2>2. CASE flashed' = [p \in Partitions |->
                         IF p = hcmd.arg THEN [image |-> loaded, part |-> "whole"]
                         ELSE IF hcmd.arg = "boot" /\ p \in {"kernel", "ramdisk"}
                              THEN [image |-> loaded, part |-> p]
                         ELSE flashed[p]]
    <3>1. ASSUME NEW part \in {"whole", "kernel", "ramdisk"}
          PROVE  [image |-> loaded, part |-> part] \in Belief
      BY <1>0 DEF Belief, HostTypes
    <3>2. \A p \in Partitions : flashed[p] \in Belief
      BY <1>0 DEF HostTypes
    <3> QED
      BY <2>2, <3>1, <3>2
  <2> QED
    BY <2>1, <2>2 DEF PollIn, HostReceives, HostGivesUp
<1> QED
  BY <1>1, <1>2, <1>3, <1>4 DEF HostTypes

\* A boot that has failed sets a reply, and may handle the flash: command in the FIFO.
LEMMA SyncEffect ==
    ASSUME DeviceTypes, SyncReturns
    PROVE  /\ ~fboot_response_flag /\ phase = "poll" /\ phase' \in {"poll", "reset", "kernel"}
           /\ reply_msg' \in Replies /\ fboot_response_flag' \in BOOLEAN
           /\ UNCHANGED <<reply_msg, fboot_response_flag>> \/ reply_msg' \in {Okay, Fail}
           /\ DOMAIN flash' = Partitions
           /\ fifo.op # "flash" => flash' = flash
<1>0. Okay \in Replies /\ Fail \in Replies
  BY DEF Okay, Fail, Replies
<1>1. /\ ~fboot_response_flag /\ phase = "poll" /\ phase' \in {"poll", "reset", "kernel"}
      /\ UNCHANGED <<flash, reply_msg, fboot_response_flag>> \/ BootFailed
  BY DEF SyncReturns, Returning
<1>2. CASE UNCHANGED <<flash, reply_msg, fboot_response_flag>>
  BY <1>1, <1>2 DEF DeviceTypes
<1>3. CASE fifo.op = "flash" /\ CommandFlash(fifo.arg)
  <2>1. /\ fboot_response_flag' = TRUE /\ reply_msg' \in {Okay, Fail}
        /\ DOMAIN flash' = Partitions
    BY <1>3, FlashCommand DEF DeviceTypes
  <2> QED
    BY <1>0, <1>1, <1>3, <2>1
<1>4. CASE /\ fifo.op # "flash" /\ flash' = flash
           /\ TxStatus(IF fifo.op = "oem" THEN Okay ELSE Fail)
  BY <1>0, <1>1, <1>4 DEF TxStatus, DeviceTypes
<1> QED
  BY <1>1, <1>2, <1>3, <1>4 DEF BootFailed

\* Types.
LEMMA TypeStep == IndInv /\ [Next]_vars => DeviceTypes' /\ HostTypes'
<1> SUFFICES ASSUME IndInv, [Next]_vars PROVE DeviceTypes' /\ HostTypes'
  OBVIOUS
<1>0. DeviceTypes /\ HostTypes
  BY TypeParts DEF IndInv
<1>z. buffer' = [buffer EXCEPT ![0] = ZERO] => buffer' \in [0..transfer_buffer_size - 1 -> Unit]
  BY <1>0, UnitIs DEF DeviceTypes
<1>n. NoCommand \in Commands \cup {NoCommand} /\ 0 \in Nat
  OBVIOUS
<1>u. unplugs < Unplugs => unplugs + 1 \in 0..Unplugs
  BY <1>0, FastbootAssumption DEF HostTypes
<1>1. CASE PollOut
  BY <1>1, PollOutTypes
<1>2. CASE PollIn
  BY <1>2, PollInTypes
<1>3. CASE SyncReturns
  <2>1. waiting' \in Seq({"boot", "reboot"})
    BY <1>0, <1>3 DEF SyncReturns, Returning, DeviceTypes
  <2>2. /\ reply_msg' \in Replies /\ fboot_response_flag' \in BOOLEAN
        /\ phase' \in {"poll", "reset", "kernel"} /\ DOMAIN flash' = Partitions
    BY <1>0, <1>3, SyncEffect, Zenon DEF DeviceTypes
  <2>3. fifo' \in Commands \cup {NoCommand}
    BY <1>0, <1>3 DEF SyncReturns, DeviceTypes
  <2> QED
    BY <1>0, <1>3, <2>1, <2>2, <2>3 DEF SyncReturns, DeviceTypes, HostTypes, hostVars
<1>4. CASE PollDisconnect
  BY <1>0, <1>4 DEF PollDisconnect, DeviceTypes, HostTypes, hostVars
<1>5. CASE FastbootInit
  BY <1>0, <1>5, <1>z DEF FastbootInit, DeviceTypes, HostTypes, hostVars
<1>6. CASE HostCommand
  <2>1. PICK c \in Commands :
          /\ hcmd' = c /\ out' = <<c>>
          /\ loaded' = IF c.op = "download" THEN NONE ELSE loaded
          /\ flashed' = [p \in Partitions |-> IF p \in Changed(c) THEN Unknown ELSE flashed[p]]
    BY <1>6 DEF HostCommand, Changed
  <2>2. flashed' \in [Partitions -> Belief]
    <3>1. Unknown \in Belief /\ \A p \in Partitions : flashed[p] \in Belief
      BY <1>0 DEF Unknown, Belief, HostTypes
    <3> QED
      BY <2>1, <3>1
  <2>3. c \in Packets
    BY DEF Packets
  <2>4. hcmd' \in Commands /\ out' \in {<<packet>> : packet \in Packets} /\ loaded' \in Images \cup {NONE}
    BY <1>0, <2>1, <2>3 DEF HostTypes
  <2> QED
    BY <1>0, <1>6, <2>2, <2>4 DEF HostCommand, deviceVars, DeviceTypes, HostTypes
<1>7. CASE HostSend
  <2>1. hcmd \in Commands /\ hcmd.op = "download" /\ hsent < Size(hcmd.arg) /\ hsent \in Nat
    BY <1>0, <1>7 DEF HostSend, IndInv, HostProgress, HostTypes
  <2>2. hcmd.arg \in Images /\ Size(hcmd.arg) \in Nat
    BY <2>1, CommandIs, SizeIs
  <2>3. hsent \in 0..Size(hcmd.arg) - 1
    BY <2>1, <2>2
  <2>4. /\ [op |-> "data", arg |-> <<hcmd.arg, hsent>>] \in Packets
        /\ PacketSize([op |-> "data", arg |-> <<hcmd.arg, hsent>>]) \in Nat
    BY <2>2, <2>3, DataIs
  <2>5. out' \in {<<packet>> : packet \in Packets}
    BY <1>7, <2>4 DEF HostSend
  <2>6. hsent' \in Nat /\ hstate' \in {"waiting", "sending"}
    <3>1. hsent' = hsent + PacketSize([op |-> "data", arg |-> <<hcmd.arg, hsent>>])
      BY <1>7 DEF HostSend
    <3> QED
      BY <1>7, <2>1, <2>4, <3>1 DEF HostSend
  <2> QED
    BY <1>0, <1>7, <2>5, <2>6 DEF HostSend, deviceVars, DeviceTypes, HostTypes
<1>8. CASE Quit
  BY <1>0, <1>8, <1>n, <1>u DEF Quit, HostGivesUp, HostDone, DeviceTypes, HostTypes
<1>9. CASE Again
  <2>1. buffer' \in [0..transfer_buffer_size - 1 -> Unit]
    BY <1>0, <1>9, UnitIs DEF Again, DeviceTypes
  <2> QED
    BY <1>0, <1>9, <2>1 DEF Again, DeviceTypes, HostTypes, hostVars
<1>10. CASE Unplug
  BY <1>0, <1>10, <1>n, <1>u DEF Unplug, HostGivesUp, HostDone, deviceVars, DeviceTypes, HostTypes
<1>11. CASE Plug
  BY <1>0, <1>11 DEF Plug, hostVars, deviceVars, DeviceTypes, HostTypes
<1>12. CASE UNCHANGED vars
  BY <1>0, <1>12 DEF vars, hostVars, deviceVars, DeviceTypes, HostTypes
<1> QED
  BY <1>1, <1>2, <1>3, <1>4, <1>5, <1>6, <1>7, <1>8, <1>9, <1>10, <1>11, <1>12 DEF Next

\* A host that transfers an image, and its next packet.
LEMMA TransferIs ==
    ASSUME IndInv, Transferring
    PROVE  /\ hcmd.op = "download" /\ hcmd.arg \in Images /\ Size(hcmd.arg) \in Nat \ {0}
           /\ hsent \in Nat /\ hsent <= Size(hcmd.arg)
           /\ hstate = "waiting" => hsent = Size(hcmd.arg)
           /\ out = <<>> => Got = hsent
           /\ out # <<>> => /\ hsent # 0 /\ hsent = DataEnd(Got)
                            /\ Got \in 0..Size(hcmd.arg) - 1 /\ out = <<DataPacket(Got)>>
<1>1. hcmd \in Commands /\ hcmd.op = "download" /\ hsent \in Nat
  BY DEF IndInv, HostProgress, Transferring, TypeOK
<1>2. hcmd.arg \in Images /\ Size(hcmd.arg) \in Nat \ {0}
  <2>1. hcmd.arg \in Images
    BY <1>1, CommandIs
  <2> QED
    BY <2>1, SizeIs
<1>3. hsent <= Size(hcmd.arg) /\ (hstate = "waiting" => hsent = Size(hcmd.arg))
  BY <1>1, <1>2 DEF IndInv, HostProgress, Transferring
<1>4. ASSUME out # <<>>
      PROVE  /\ hsent # 0 /\ hsent = DataEnd(Got)
             /\ Got \in 0..Size(hcmd.arg) - 1 /\ out = <<DataPacket(Got)>>
  <2>1. hsent # 0
    BY <1>4 DEF IndInv, OutIsLast, Transferring
  <2>2. PICK first \in 0..Size(hcmd.arg) - 1 :
            out = <<DataPacket(first)>> /\ hsent = DataEnd(first)
    BY <1>4, <2>1 DEF IndInv, OutIsLast, Transferring
  <2>3. Got = first
    BY <1>4, <2>2 DEF Got, DataPacket
  <2> QED
    BY <2>1, <2>2, <2>3
<1> QED
  BY <1>1, <1>2, <1>3, <1>4 DEF Got

\* A packet of a transfer that is in step is saved whole, behind the part that is there.
LEMMA PacketSaved ==
    ASSUME IndInv, Transferring, out # <<>>, ReceiveData(out[1]),
           download_size = Size(hcmd.arg), download_bytes = Got, Prefix(hcmd.arg, Got)
    PROVE  /\ download_bytes' = hsent
           /\ \A n \in 0..hsent - 1 : buffer'[n] = <<hcmd.arg, n>>
           /\ IF hsent = Size(hcmd.arg) THEN download_size' = 0 /\ reply_msg' = Okay
                                        ELSE download_size' = Size(hcmd.arg)
<1> DEFINE i == hcmd.arg
           packet == out[1]
           size == TransferSize(packet)
<1>1. /\ i \in Images /\ Size(i) \in Nat /\ hsent \in Nat /\ hsent = DataEnd(Got)
      /\ Got \in 0..Size(i) - 1 /\ packet = [op |-> "data", arg |-> <<i, Got>>]
  BY TransferIs DEF DataPacket
<1>2. /\ packet \in Packets
      /\ PacketSize(packet) = Least(PACKET, Size(i) - Got)
      /\ PacketSize(packet) \in Nat \ {0} /\ Got + PacketSize(packet) <= Size(i)
      /\ \A n \in Nat : PacketUnit(packet, n) = <<i, Got + n>>
  BY <1>1, DataIs
<1>3. /\ size = Least(PacketSize(packet), download_size - download_bytes)
      /\ download_bytes' = download_bytes + size
      /\ buffer' = [n \in 0..transfer_buffer_size - 1 |->
                       IF n \in download_bytes..download_bytes + size - 1
                       THEN PacketUnit(packet, n - download_bytes) ELSE buffer[n]]
      /\ IF download_bytes' = download_size
         THEN download_size' = 0 /\ reply_msg' = Okay
         ELSE download_size' = download_size
  <2>1. packet \in Packets /\ ReceiveData(packet) /\ TypeOK /\ DownloadOpen
    BY <1>2 DEF IndInv
  <2> HIDE DEF packet
  <2> QED
    BY <2>1, DataEffect
<1>b. Size(i) <= transfer_buffer_size /\ transfer_buffer_size \in Nat
  BY FastbootAssumption DEF IndInv, TypeOK
<1>4. hsent = Got + PacketSize(packet)
  BY <1>1, <1>2 DEF DataEnd
<1> HIDE DEF packet, size, i
<1>5. download_size = Size(i) /\ download_bytes = Got /\ Prefix(i, Got)
  BY DEF i
<1>6. size = PacketSize(packet)
  BY <1>1, <1>2, <1>3, <1>5 DEF Least
<1>n. Got \in Nat /\ size \in Nat /\ hsent \in Nat /\ transfer_buffer_size \in Nat
  BY <1>1, <1>2, <1>6, <1>b
<1>7. download_bytes' = hsent
  BY <1>3, <1>4, <1>5, <1>6
<1>8. ASSUME NEW n \in 0..hsent - 1 PROVE buffer'[n] = <<i, n>>
  <2>1. n \in 0..transfer_buffer_size - 1
    BY <1>1, <1>2, <1>b, <1>4
  <2>2. CASE n \in Got..Got + size - 1
    <3>1. buffer'[n] = PacketUnit(packet, n - Got)
      BY <1>3, <1>5, <2>1, <2>2
    <3>2. n - Got \in Nat /\ Got + (n - Got) = n
      BY <1>n, <2>1, <2>2
    <3>3. PacketUnit(packet, n - Got) = <<i, Got + (n - Got)>>
      BY <1>2, <3>2
    <3> QED
      BY <3>1, <3>2, <3>3
  <2>3. CASE n \notin Got..Got + size - 1
    <3>1. n \in 0..Got - 1
      BY <1>n, <1>4, <1>6, <2>3
    <3>2. buffer'[n] = buffer[n]
      BY <1>3, <1>5, <2>1, <2>3
    <3> QED
      BY <1>5, <3>1, <3>2 DEF Prefix
  <2> QED
    BY <2>2, <2>3
<1> QED
  BY <1>3, <1>5, <1>7, <1>8 DEF i

\* A packet of data, or one that is taken for it.
LEMMA PollOutStep == IndInv /\ PollOut => IndInv'
<1> SUFFICES ASSUME IndInv, PollOut PROVE IndInv'
  OBVIOUS
<1>0. /\ DeviceTypes /\ HostTypes /\ TypeOK /\ DownloadOpen
      /\ out # <<>> /\ out' = <<>> /\ out[1] \in Packets
      /\ UNCHANGED <<connected, hstate, hcmd, hsent>>
      /\ ~swallowed' => ~swallowed
  BY TypeParts, OutIs DEF IndInv, PollOut
<1>1. TypeOK'
  BY PollOutTypes DEF TypeOK, DeviceTypes, HostTypes
<1>2. HostProgress' /\ OutIsLast'
  BY <1>0 DEF IndInv, HostProgress, OutIsLast
\* A host that has sent nothing but its command.
<1>w. hstate = "waiting" /\ hsent = 0 => out = <<hcmd>>
  BY <1>0 DEF IndInv, OutIsLast
<1>t. Transferring /\ ~swallowed =>
          /\ download_bytes = Got /\ Prefix(hcmd.arg, Got) /\ download_size = Size(hcmd.arg)
          /\ download_size # 0
  <2> SUFFICES ASSUME Transferring, ~swallowed
               PROVE  /\ download_bytes = Got /\ Prefix(hcmd.arg, Got)
                      /\ download_size = Size(hcmd.arg) /\ download_size # 0
    OBVIOUS
  <2>1. Got \in 0..Size(hcmd.arg) - 1 /\ Size(hcmd.arg) \in Nat \ {0}
    BY <1>0, TransferIs
  <2> QED
    BY <2>1 DEF IndInv, TransferInStep
<1>g. Transferring' = Transferring /\ (Transferring => Got' = hsent)
  BY <1>0 DEF Transferring, Got
<1>3. CASE ReceiveData(out[1])
  <2>1. /\ download_size # 0 /\ phase' = phase
        /\ download_bytes' \in Nat /\ download_size \in Nat /\ download_bytes' <= download_size
        /\ IF download_bytes' = download_size
           THEN download_size' = 0 /\ reply_msg' = Okay /\ fboot_response_flag' = TRUE
           ELSE UNCHANGED <<download_size, reply_msg, fboot_response_flag>>
    <3>1. /\ download_size # 0 /\ phase' = phase
          /\ download_bytes \in Nat /\ download_size \in Nat /\ TransferSize(out[1]) \in Nat
          /\ download_bytes' = download_bytes + TransferSize(out[1])
          /\ download_bytes' <= download_size
          /\ IF download_bytes' = download_size
             THEN download_size' = 0 /\ reply_msg' = Okay /\ fboot_response_flag' = TRUE
             ELSE UNCHANGED <<download_size, reply_msg, fboot_response_flag>>
      BY <1>0, <1>3, DataEffect
    <3>2. download_bytes' \in Nat
      BY <3>1
    <3> QED
      BY <3>1, <3>2
  <2>2. DownloadOpen'
    BY <2>1 DEF DownloadOpen
  <2>3. DataExpected'
    <3>1. ~(hstate' = "waiting" /\ hcmd'.op = "download" /\ hsent' = 0 /\ ~swallowed')
      <4> SUFFICES ASSUME hstate = "waiting", hcmd.op = "download", hsent = 0 PROVE swallowed'
        BY <1>0
      <4>1. out[1].op # "data" /\ hstate # "idle"
        BY <1>w
      <4> QED
        BY <2>1, <4>1 DEF PollOut
    <3> QED
      BY <3>1 DEF DataExpected
  <2>4. HostConnected'
    BY <1>0, <2>1 DEF IndInv, HostConnected
  <2>5. TransferInStep'
    <3> SUFFICES ASSUME Transferring, ~swallowed
                 PROVE  /\ download_bytes' = hsent
                        /\ \A n \in 0..hsent - 1 : buffer'[n] = <<hcmd.arg, n>>
                        /\ download_size' = IF hsent = Size(hcmd.arg) THEN 0 ELSE Size(hcmd.arg)
      BY <1>0, <1>g DEF TransferInStep, Prefix
    <3> QED
      BY <1>0, <1>3, <1>t, PacketSaved
  <2> QED
    BY <1>1, <1>2, <2>2, <2>3, <2>4, <2>5 DEF IndInv
<1>4. CASE ReceiveCommand(out[1])
  <2> DEFINE c == out[1]
  <2>1. /\ download_size = 0 /\ fboot_response_flag' = TRUE /\ phase' = phase
        /\ c.op = "download" =>
              /\ download_bytes' = 0
              /\ \/ download_size' = 0 /\ reply_msg' = Fail
                 \/ /\ download_size' = Size(c.arg) /\ Size(c.arg) \in 1..transfer_buffer_size
                    /\ reply_msg' = [kind |-> "DATA", size |-> Size(c.arg)]
        /\ c.op # "download" => download_size' = 0
    BY <1>0, <1>4, CommandEffect
  <2>2. DownloadOpen'
    <3>0. transfer_buffer_size \in Nat
      BY FastbootAssumption
    <3>1. CASE c.op = "download"
      BY <2>1, <3>0, <3>1 DEF DownloadOpen
    <3>2. CASE c.op # "download"
      BY <2>1, <3>2 DEF DownloadOpen
    <3> QED
      BY <3>1, <3>2
  <2>3. DataExpected'
    <3> SUFFICES ASSUME hstate = "waiting", hcmd.op = "download", hsent = 0
                 PROVE  /\ download_bytes' = 0
                        /\ reply_msg'.kind = "DATA" => download_size' = Size(hcmd.arg)
      BY <1>0 DEF DataExpected
    <3>1. c = hcmd
      BY <1>w
    <3> QED
      BY <2>1, <3>1 DEF Fail
  <2>4. HostConnected'
    BY <1>0, <2>1 DEF IndInv, HostConnected
  <2>5. TransferInStep'
    BY <1>0, <1>g, <1>t, <2>1 DEF TransferInStep
  <2> QED
    BY <1>1, <1>2, <2>2, <2>3, <2>4, <2>5 DEF IndInv
<1> QED
  BY <1>3, <1>4 DEF PollOut

\* The reply to a download is the only one that the host does not stop at.
LEMMA PollInStep == IndInv /\ PollIn => IndInv'
<1> SUFFICES ASSUME IndInv, PollIn PROVE IndInv'
  OBVIOUS
<1>0. /\ DeviceTypes /\ hstate = "waiting" /\ hcmd \in Commands /\ out = <<>> /\ out' = <<>>
      /\ fboot_response_flag /\ ~fboot_response_flag'
      /\ UNCHANGED <<download_size, download_bytes, buffer, reply_msg, phase, connected>>
  BY TypeParts DEF IndInv, PollIn, HostProgress
<1>1. TypeOK'
  BY PollInTypes DEF TypeOK, DeviceTypes, HostTypes
<1>2. DownloadOpen'
  BY <1>0 DEF IndInv, DownloadOpen
<1>3. HostConnected' /\ OutIsLast'
  BY <1>0 DEF IndInv, HostConnected, OutIsLast
<1>6. DataExpected'
  BY <1>0 DEF PollIn, HostReceives, HostGivesUp, HostDone, DataExpected
<1>4. CASE hstate' = "idle" /\ hcmd' = NoCommand /\ hsent' = 0
  BY <1>1, <1>2, <1>3, <1>4, <1>6 DEF IndInv, HostProgress, TransferInStep, Transferring
<1>5. CASE /\ hcmd.op = "download" /\ hsent = 0
           /\ reply_msg = [kind |-> "DATA", size |-> Size(hcmd.arg)]
           /\ hstate' = "sending"
           /\ UNCHANGED <<hcmd, hsent, swallowed>>
  <2>0. hcmd.arg \in Images
    BY <1>0, <1>5, CommandIs
  <2>1. Size(hcmd.arg) \in Nat /\ Size(hcmd.arg) > 0
    BY <2>0, SizeIs
  <2>2. HostProgress'
    BY <1>0, <1>5, <2>1 DEF HostProgress
  <2>4. TransferInStep'
    <3>1. Got' = 0
      BY <1>0, <1>5 DEF Got
    <3>2. ~swallowed => download_bytes = 0 /\ download_size = Size(hcmd.arg)
      BY <1>0, <1>5 DEF IndInv, DataExpected
    <3> QED
      BY <1>0, <1>5, <2>1, <3>1, <3>2 DEF TransferInStep, Prefix
  <2> QED
    BY <1>1, <1>2, <1>3, <1>6, <2>2, <2>4 DEF IndInv
<1> QED
  BY <1>4, <1>5 DEF PollIn, HostReceives, HostGivesUp, HostDone

\* The host sends the next packet.
LEMMA SendIs ==
    ASSUME IndInv, HostSend
    PROVE  /\ out' = <<DataPacket(hsent)>> /\ hsent' = DataEnd(hsent)
           /\ hsent' <= Size(hcmd.arg) /\ hsent' \in Nat \ {0}
           /\ hstate' = IF hsent' = Size(hcmd.arg) THEN "waiting" ELSE "sending"
           /\ hstate = "sending" /\ connected /\ phase = "poll"
           /\ Transferring /\ Transferring' /\ hcmd \in Commands /\ hcmd.op = "download"
           /\ hcmd.arg \in Images /\ Size(hcmd.arg) \in Nat /\ hsent \in 0..Size(hcmd.arg) - 1
           /\ Got' = Got
<1>1. /\ hstate = "sending" /\ out = <<>> /\ hsent \in Nat /\ connected /\ phase = "poll"
      /\ out' = <<DataPacket(hsent)>>
      /\ hsent' = hsent + PacketSize(DataPacket(hsent))
      /\ hstate' = IF hsent' = Size(hcmd.arg) THEN "waiting" ELSE "sending"
  BY DEF HostSend, CanSend, IndInv, TypeOK, DataPacket
<1>2. hcmd \in Commands /\ hcmd.op = "download" /\ hsent < Size(hcmd.arg) /\ Transferring
  BY <1>1 DEF IndInv, Transferring, HostProgress
<1>3. hcmd.arg \in Images /\ Size(hcmd.arg) \in Nat /\ hsent \in 0..Size(hcmd.arg) - 1
  BY <1>1, <1>2, TransferIs
<1>4. /\ PacketSize(DataPacket(hsent)) = Least(PACKET, Size(hcmd.arg) - hsent)
      /\ PacketSize(DataPacket(hsent)) \in Nat \ {0}
      /\ hsent + PacketSize(DataPacket(hsent)) <= Size(hcmd.arg)
  BY <1>3, DataIs DEF DataPacket
<1>5. hsent' = DataEnd(hsent) /\ hsent' <= Size(hcmd.arg) /\ hsent' \in Nat \ {0}
  BY <1>1, <1>4 DEF DataEnd
<1>6. Transferring' /\ Got' = Got
  BY <1>1, <1>5 DEF Transferring, Got, DataPacket
<1> QED
  BY <1>1, <1>2, <1>3, <1>5, <1>6

\* Every step preserves the invariant.
LEMMA InductiveStep == IndInv /\ [Next]_vars => IndInv'
<1> SUFFICES ASSUME IndInv, [Next]_vars PROVE IndInv'
  OBVIOUS
<1>0. TypeOK'
  BY TypeStep DEF TypeOK, DeviceTypes, HostTypes
<1> USE DEF IndInv
<1>1. CASE PollOut
  BY <1>1, PollOutStep
<1>2. CASE PollIn
  BY <1>2, PollInStep
<1>3. CASE SyncReturns
  <2>1. /\ UNCHANGED <<download_size, download_bytes, buffer, connected, out, hstate, hcmd, hsent,
                       swallowed>>
        /\ phase' \in {"poll", "reset", "kernel"}
        /\ UNCHANGED <<reply_msg, fboot_response_flag>> \/ reply_msg' \in {Okay, Fail}
    BY <1>3, TypeParts, SyncEffect DEF SyncReturns, hostVars
  <2>2. HostConnected' /\ HostProgress' /\ OutIsLast' /\ DownloadOpen'
    BY <2>1 DEF HostConnected, HostProgress, OutIsLast, DataPacket, DataEnd, DownloadOpen
  <2>3. DataExpected'
    <3>1. CASE UNCHANGED <<reply_msg, fboot_response_flag>>
      BY <2>1, <3>1 DEF DataExpected
    <3>2. CASE reply_msg' \in {Okay, Fail}
      BY <2>1, <3>2 DEF DataExpected, Okay, Fail
    <3> QED
      BY <2>1, <3>1, <3>2
  <2>4. TransferInStep'
    BY <2>1 DEF TransferInStep, Transferring, Got, Prefix
  <2> QED
    BY <1>0, <2>2, <2>3, <2>4
<1>4. CASE PollDisconnect \/ FastbootInit \/ Again
  <2>1. /\ hstate = "idle" /\ hstate' = "idle" /\ UNCHANGED <<hcmd, hsent>>
        /\ UNCHANGED <<download_size, download_bytes, reply_msg, fboot_response_flag>>
    BY <1>4 DEF PollDisconnect, FastbootInit, Again, hostVars, HostConnected
  <2> QED
    BY <1>0, <2>1 DEF HostConnected, HostProgress, OutIsLast, DownloadOpen, DataExpected,
       TransferInStep, Transferring
<1>5. CASE Quit \/ Unplug
  <2>1. /\ hstate' = "idle" /\ hcmd' = NoCommand /\ hsent' = 0
        /\ UNCHANGED <<download_size, download_bytes, reply_msg, fboot_response_flag>>
    BY <1>5 DEF Quit, Unplug, HostGivesUp, HostDone, deviceVars
  <2> QED
    BY <1>0, <2>1 DEF HostConnected, HostProgress, OutIsLast, DownloadOpen, DataExpected,
       TransferInStep, Transferring
<1>6. CASE HostCommand
  <2>1. /\ hstate' = "waiting" /\ hsent' = 0 /\ hcmd' \in Commands /\ out' = <<hcmd'>>
        /\ connected' /\ phase' = "poll"
        /\ UNCHANGED <<download_size, download_bytes, reply_msg, fboot_response_flag>>
    BY <1>6 DEF HostCommand, CanSend, deviceVars
  <2> QED
    BY <1>0, <2>1 DEF HostConnected, HostProgress, OutIsLast, DownloadOpen, DataExpected,
       TransferInStep, Transferring
<1>7. CASE HostSend
  <2>1. /\ out' = <<DataPacket(hsent)>> /\ hsent' = DataEnd(hsent)
        /\ hsent' <= Size(hcmd.arg) /\ hsent' \in Nat \ {0}
        /\ hstate' = IF hsent' = Size(hcmd.arg) THEN "waiting" ELSE "sending"
        /\ hstate = "sending"
        /\ Transferring /\ Transferring' /\ hcmd \in Commands /\ hcmd.op = "download"
        /\ hcmd.arg \in Images /\ Size(hcmd.arg) \in Nat /\ hsent \in 0..Size(hcmd.arg) - 1
        /\ Got' = Got
        /\ UNCHANGED <<download_size, download_bytes, reply_msg, fboot_response_flag, buffer,
                       connected, phase, hcmd, swallowed>>
    BY <1>7, SendIs DEF HostSend, deviceVars
  <2>5. HostConnected' /\ DownloadOpen' /\ DataExpected'
    BY <2>1 DEF HostConnected, DownloadOpen, DataExpected
  <2>6. HostProgress'
    BY <2>1 DEF HostProgress
  <2>7. OutIsLast'
    <3>1. \E first \in 0..Size(hcmd'.arg) - 1 : out' = <<DataPacket(first)'>> /\ hsent' = DataEnd(first)'
      <4>1. DataPacket(hsent) = [op |-> "data", arg |-> <<hcmd'.arg, hsent>>]
        BY <2>1 DEF DataPacket
      <4>2. DataEnd(hsent) = hsent + Least(PACKET, Size(hcmd'.arg) - hsent)
        BY <2>1 DEF DataEnd
      <4> QED
        BY <2>1, <4>1, <4>2 DEF DataPacket, DataEnd
    <3> QED
      BY <2>1, <3>1 DEF OutIsLast
  <2>9. TransferInStep'
    BY <2>1 DEF TransferInStep, Prefix
  <2> QED
    BY <1>0, <2>5, <2>6, <2>7, <2>9
<1>8. CASE Plug
  <2>1. /\ hstate = "idle" /\ hstate' = "idle" /\ UNCHANGED <<hcmd, hsent>>
        /\ UNCHANGED <<download_size, download_bytes, reply_msg, fboot_response_flag>>
    BY <1>8 DEF Plug, hostVars, deviceVars, HostConnected
  <2> QED
    BY <1>0, <2>1 DEF HostConnected, HostProgress, OutIsLast, DownloadOpen, DataExpected,
       TransferInStep, Transferring
<1>9. CASE UNCHANGED vars
  <2>1. UNCHANGED <<download_size, download_bytes, reply_msg, fboot_response_flag, buffer, phase,
                    connected, out, hstate, hcmd, hsent, swallowed>>
    BY <1>9 DEF vars, hostVars, deviceVars
  <2> QED
    BY <1>0, <2>1 DEF HostConnected, HostProgress, OutIsLast, DataPacket, DataEnd, DownloadOpen,
       DataExpected, TransferInStep, Transferring, Got, Prefix
<1> QED
  BY <1>1, <1>2, <1>3, <1>4, <1>5, <1>6, <1>7, <1>8, <1>9 DEF Next

\* A device that has just entered its loop, and a host that has sent nothing.
LEMMA Inductive == Spec => []IndInv
<1>1. Init => IndInv
  <2> SUFFICES ASSUME Init PROVE IndInv
    OBVIOUS
  <2>1. DeviceTypes
    <3>1. buffer \in [0..transfer_buffer_size - 1 -> Unit]
      BY UnitIs DEF Init
    <3>2. 0 \in 0..transfer_buffer_size /\ Okay \in Replies
      BY FastbootAssumption DEF Okay, Replies
    <3>3. waiting \in Seq({"boot", "reboot"}) /\ DOMAIN flash = Partitions
      BY DEF Init
    <3> QED
      BY <3>1, <3>2, <3>3 DEF Init, DeviceTypes
  <2>2. HostTypes
    <3>1. Unknown \in Belief /\ 0 \in 0..Unplugs
      BY FastbootAssumption DEF Unknown, Belief
    <3> QED
      BY <3>1 DEF Init, HostTypes
  <2> QED
    BY <2>1, <2>2, TypeParts DEF Init, IndInv, HostConnected, HostProgress, OutIsLast,
       DownloadOpen, DataExpected, TransferInStep, Transferring
<1> QED
  BY <1>1, InductiveStep, PTL DEF Spec

\* Types: the counts stay within the transfer buffer, whatever is taken for data and
\* whichever handler is resumed.
THEOREM TypeCorrect == Spec => []TypeOK
BY Inductive, PTL DEF IndInv

\* A download is acknowledged only when all of its image is in the transfer buffer, in its
\* place, however often the cable was unplugged or the command stopped before, unless the
\* device has taken the download: command for data.  Packets may be of any size and need
\* not divide the image: the last one of an image that is in step is never cut.
THEOREM DownloadComplete == Spec => AcknowledgedIsComplete
<1> DEFINE Acknowledged == loaded' # loaded /\ loaded' # NONE /\ ~swallowed
           There == /\ download_size' = 0 /\ download_bytes' = Size(loaded')
                    /\ \A n \in 0..Size(loaded') - 1 : buffer'[n] = <<loaded', n>>
<1>1. IndInv /\ [Next]_vars => [Acknowledged => There]_vars
  <2> SUFFICES ASSUME IndInv, [Next]_vars, Acknowledged PROVE There
    OBVIOUS
  <2>1. /\ hstate = "waiting" /\ out = <<>> /\ hsent # 0 /\ hcmd.op = "download"
        /\ loaded' = hcmd.arg
        /\ UNCHANGED <<download_size, download_bytes, buffer>>
    BY DEF Next, PollOut, PollIn, SyncReturns, PollDisconnect, FastbootInit, HostCommand, HostSend,
       Quit, Again, Unplug, Plug, HostReceives, HostGivesUp, vars, hostVars
  <2>2. Transferring
    BY <2>1 DEF Transferring
  <2>3. Got = Size(hcmd.arg)
    BY <2>1, <2>2, TransferIs
  <2>4. /\ download_size = 0 /\ download_bytes = Size(hcmd.arg)
        /\ Prefix(hcmd.arg, Size(hcmd.arg))
    BY <2>2, <2>3 DEF IndInv, TransferInStep
  <2> QED
    BY <2>1, <2>4 DEF Prefix
<1>2. Spec => [][Acknowledged => There]_vars
  <2> HIDE DEF Acknowledged, There
  <2> QED
    BY <1>1, Inductive, PTL DEF Spec
<1> QED
  BY <1>2 DEF AcknowledgedIsComplete
-----------------------------------------------------------------------------
(* A session without an interruption: what is loaded. *)

\* The steps of a session that was not interrupted, and where it stands before each.
LEMMA Uninterrupted ==
    ASSUME IndInv, LoadInv, [Next]_vars, unplugs' = 0
    PROVE  /\ unplugs = 0 /\ OneWaits /\ Answered /\ DownloadReply /\ Transfer /\ LoadedIs
           /\ \/ PollOut \/ PollIn \/ SyncReturns \/ HostCommand \/ HostSend
              \/ UNCHANGED vars
<1>1. ~Quit /\ ~Unplug
  BY FastbootAssumption DEF Quit, Unplug, IndInv, TypeOK
<1>2. unplugs = 0
  BY <1>1 DEF Next, PollOut, PollIn, SyncReturns, PollDisconnect, FastbootInit, HostCommand,
     HostSend, Again, Plug, vars
<1>3. OneWaits /\ Answered /\ DownloadReply /\ Transfer /\ LoadedIs
  BY <1>2 DEF LoadInv
<1>4. ~PollDisconnect /\ ~FastbootInit /\ ~Again /\ ~Plug
  BY <1>3 DEF Answered, PollDisconnect, FastbootInit, Again, Plug
<1> QED
  BY <1>1, <1>2, <1>3, <1>4 DEF Next

\* The device handles a command, or a packet of a transfer that is in step.
LEMMA LoadPollOut ==
    ASSUME IndInv, OneWaits, Answered, DownloadReply, Transfer, LoadedIs, PollOut
    PROVE  OneWaits' /\ Answered' /\ DownloadReply' /\ Transfer' /\ LoadedIs'
<1>0. /\ TypeOK /\ DownloadOpen /\ HostTypes /\ DeviceTypes
      /\ out # <<>> /\ out' = <<>> /\ out[1] \in Packets
      /\ UNCHANGED <<connected, hstate, hcmd, hsent, loaded>>
      /\ connected /\ phase = "poll" /\ hstate # "idle"
  BY TypeParts, OutIs DEF IndInv, PollOut, Polling, Answered
<1>1. waiting = <<>>
  BY <1>0 DEF PollOut, Polling, Returning, OneWaits
<1>2. CASE hstate = "waiting" /\ hsent = 0 /\ out = <<hcmd>>
  <2>1. download_size = 0 /\ out[1] = hcmd
    BY <1>0, <1>2 DEF Answered
  <2>2. ReceiveCommand(hcmd) /\ hcmd \in Packets
    BY <1>0, <2>1 DEF PollOut, ReceiveData
  <2>3. /\ fboot_response_flag' = TRUE /\ phase' = "poll"
        /\ hcmd.op = "download" =>
              /\ download_bytes' = 0 /\ waiting' = <<>>
              /\ \/ download_size' = 0 /\ reply_msg' = Fail
                 \/ /\ download_size' = Size(hcmd.arg)
                    /\ reply_msg' = [kind |-> "DATA", size |-> Size(hcmd.arg)]
        /\ hcmd.op # "download" => download_size' = 0 /\ download_bytes' = download_bytes
    BY <1>0, <1>1, <2>2, CommandEffect
  <2>4. /\ buffer' = buffer \/ hcmd.op = "reboot"
        /\ \/ waiting' = <<>> /\ hcmd.op # "reboot"
           \/ hcmd.op \in {"boot", "reboot"} /\ waiting' = <<hcmd.op>>
    <3>1. <<hcmd.op>> \o <<>> = <<hcmd.op>>
      OBVIOUS
    <3> QED
      BY <1>0, <1>1, <2>2, <3>1, CommandEffect
  <2>5. ~Transferring'
    BY <1>0, <1>2 DEF Transferring
  <2>6. OneWaits'
    <3>1. fifo' = NoCommand
      <4>1. hcmd.op \in {"flash", "oem"} => ~BootWaits'
        BY <2>4 DEF BootWaits
      <4> QED
        BY <2>1, <4>1 DEF PollOut
    <3> QED
      BY <1>0, <1>2, <2>3, <2>4, <2>5, <3>1 DEF OneWaits
  <2>7. Answered' /\ DownloadReply' /\ Transfer'
    BY <1>0, <1>2, <2>3, <2>5 DEF Answered, DownloadReply, Transfer
  <2>8. LoadedIs'
    <3>1. CASE hcmd.op = "download"
      BY <1>0, <3>1 DEF LoadedIs
    <3>2. CASE hcmd.op = "reboot"
      BY <1>0, <2>3, <2>4, <3>2 DEF LoadedIs
    <3>3. CASE hcmd.op \notin {"download", "reboot"}
      BY <1>0, <1>1, <2>3, <2>4, <3>3 DEF LoadedIs, Prefix
    <3> QED
      BY <3>1, <3>2, <3>3
  <2> QED
    BY <2>6, <2>7, <2>8
<1>3. CASE hsent # 0
  <2> DEFINE i == hcmd.arg
  <2>0. Transferring /\ Transferring'
    BY <1>0, <1>3 DEF Transferring, HostTypes
  <2>1. /\ hcmd.op = "download" /\ i \in Images /\ Size(i) \in Nat /\ Size(i) # 0
        /\ hsent \in Nat /\ hsent <= Size(i)
        /\ Got \in 0..Size(i) - 1 /\ out = <<DataPacket(Got)>>
        /\ hstate = "waiting" => hsent = Size(i)
    BY <1>0, <2>0, TransferIs
  <2>2. Got' = hsent
    BY <1>0 DEF Got
  <2>3. download_size = Size(i) /\ download_bytes = Got /\ Prefix(i, Got)
    BY <2>0, <2>1 DEF Transfer
  <2>4. out[1].op = "data"
    BY <2>1 DEF DataPacket
  <2>5. ReceiveData(out[1]) /\ fifo' = NoCommand
    BY <2>1, <2>3, <2>4 DEF PollOut, ReceiveCommand
  <2>6. /\ phase' = "poll" /\ waiting' = <<>>
        /\ download_bytes' = hsent
        /\ \A n \in 0..hsent - 1 : buffer'[n] = <<i, n>>
        /\ IF hsent = Size(i) THEN download_size' = 0 /\ reply_msg' = Okay
                              ELSE download_size' = Size(i)
    BY <1>0, <1>1, <2>0, <2>3, <2>5, DataEffect, PacketSaved
  <2>7. hsent = Size(i) => fboot_response_flag' = TRUE
    BY <1>0, <2>3, <2>5, <2>6, DataEffect
  <2>9. Transfer'
    BY <1>0, <2>1, <2>2, <2>6 DEF Transfer, Prefix
  <2>10. Answered'
    BY <1>0, <2>1, <2>6, <2>7 DEF Answered
  <2> QED
    BY <1>0, <1>3, <2>1, <2>5, <2>6, <2>9, <2>10 DEF OneWaits, DownloadReply, LoadedIs
<1> QED
  BY <1>0, <1>2, <1>3 DEF IndInv, OutIsLast

\* The host is answered.
LEMMA LoadPollIn ==
    ASSUME IndInv, OneWaits, Answered, DownloadReply, Transfer, LoadedIs, PollIn
    PROVE  OneWaits' /\ Answered' /\ DownloadReply' /\ Transfer' /\ LoadedIs'
<1>0. /\ hstate = "waiting" /\ hcmd \in Commands /\ out = <<>> /\ out' = <<>>
      /\ fboot_response_flag /\ ~fboot_response_flag' /\ phase = "poll"
      /\ UNCHANGED <<download_size, download_bytes, buffer, reply_msg, phase, connected, waiting, fifo>>
      /\ hsent \in Nat
  BY DEF IndInv, PollIn, Polling, HostProgress, TypeOK
<1>n. NoCommand.op = "none"
  BY DEF NoCommand
\* A command that is over.
<1> DEFINE Over == hstate' = "idle" /\ hcmd' = NoCommand /\ hsent' = 0
<1>1. Over /\ download_size = 0 => OneWaits' /\ Answered' /\ DownloadReply' /\ Transfer'
  <2> SUFFICES ASSUME Over, download_size = 0
               PROVE  OneWaits' /\ Answered' /\ DownloadReply' /\ Transfer'
    OBVIOUS
  <2>1. ~Transferring'
    BY DEF Transferring
  <2> QED
    BY <1>0, <1>n, <2>1 DEF OneWaits, Answered, DownloadReply, Transfer
<1>2. CASE hcmd.op = "download" /\ hsent = 0
  <2>0. /\ loaded = NONE /\ download_bytes = 0 /\ waiting = <<>>
    BY <1>0, <1>2 DEF LoadedIs, DownloadReply, OneWaits
  <2>1. CASE download_size = 0 /\ reply_msg = Fail
    <3>1. Over /\ loaded' = NONE
      BY <1>2, <2>0, <2>1 DEF PollIn, HostReceives, HostGivesUp, HostDone, Okay, Fail
    <3> QED
      BY <1>0, <1>1, <2>0, <2>1, <3>1 DEF LoadedIs
  <2>2. CASE /\ download_size = Size(hcmd.arg)
             /\ reply_msg = [kind |-> "DATA", size |-> Size(hcmd.arg)]
    <3>1. /\ hstate' = "sending" /\ UNCHANGED <<hcmd, hsent, loaded>>
      BY <1>2, <2>2 DEF PollIn, HostReceives, Okay
    <3>2. Size(hcmd.arg) # 0 /\ Got' = 0
      <4>1. hcmd.arg \in Images
        BY <1>0, <1>2, CommandIs
      <4> QED
        BY <1>0, <1>2, <3>1, <4>1, SizeIs DEF Got
    <3>3. Transfer'
      BY <1>0, <2>0, <2>2, <3>1, <3>2 DEF Transfer, Prefix
    <3> QED
      BY <1>0, <1>2, <2>0, <3>1, <3>3 DEF OneWaits, Answered, DownloadReply, LoadedIs
  <2> QED
    BY <1>0, <1>2, <2>1, <2>2 DEF DownloadReply
<1>3. CASE hsent # 0
  <2>1. Transferring
    BY <1>0, <1>3 DEF Transferring
  <2>2. hcmd.op = "download" /\ Got = Size(hcmd.arg) /\ hcmd.arg \in Images
    BY <1>0, <2>1, TransferIs
  <2>3. /\ download_size = 0 /\ reply_msg = Okay /\ download_bytes = Size(hcmd.arg)
        /\ Prefix(hcmd.arg, Size(hcmd.arg))
    BY <2>1, <2>2 DEF Transfer
  <2>4. Over /\ loaded' = hcmd.arg
    BY <1>3, <2>2, <2>3 DEF PollIn, HostReceives, HostDone
  <2>5. loaded' # NONE
    BY <2>2, <2>4, FastbootAssumption
  <2> QED
    BY <1>0, <1>1, <1>n, <2>3, <2>4, <2>5 DEF LoadedIs, Prefix
<1>4. CASE hcmd.op # "download"
  <2>1. download_size = 0
    BY <1>4 DEF Answered
  <2>2. Over /\ loaded' = loaded
    BY <1>4 DEF PollIn, HostReceives, HostGivesUp, HostDone
  <2> QED
    BY <1>0, <1>1, <1>4, <1>n, <2>1, <2>2 DEF LoadedIs, Prefix
<1> QED
  BY <1>2, <1>3, <1>4

\* Every step.
LEMMA LoadStep == IndInv /\ LoadInv /\ [Next]_vars => LoadInv'
<1> SUFFICES ASSUME IndInv, LoadInv, [Next]_vars, unplugs' = 0
             PROVE  OneWaits' /\ Answered' /\ DownloadReply' /\ Transfer' /\ LoadedIs'
  BY DEF LoadInv
<1>0. /\ OneWaits /\ Answered /\ DownloadReply /\ Transfer /\ LoadedIs
      /\ PollOut \/ PollIn \/ SyncReturns \/ HostCommand \/ HostSend \/ UNCHANGED vars
  BY Uninterrupted
<1>n. NoCommand.op = "none"
  BY DEF NoCommand
<1>1. CASE PollOut
  BY <1>0, <1>1, LoadPollOut
<1>2. CASE PollIn
  BY <1>0, <1>2, LoadPollIn
<1>3. CASE SyncReturns
  <2>0. /\ waiting # <<>> /\ ~fboot_response_flag /\ phase = "poll" /\ ~Transferring
        /\ UNCHANGED <<download_size, download_bytes, buffer, connected, out, hstate, hcmd,
                       hsent, loaded>>
        /\ phase' \in {"poll", "reset", "kernel"}
        /\ phase' = "poll" => Head(waiting) # "reboot"
        /\ fifo' = NoCommand
    BY <1>0, <1>3 DEF SyncReturns, Returning, OneWaits, hostVars
  <2>1. waiting' = <<>>
    <3>1. waiting \in Seq({"boot", "reboot"}) /\ Len(waiting) = 1
      BY <1>0, <2>0 DEF IndInv, TypeOK, OneWaits
    <3> QED
      BY <1>3, <3>1 DEF SyncReturns
  <2>2. ~(hstate = "waiting" /\ out = <<>>)
    BY <1>0, <2>0 DEF Answered
  <2>3. Transfer' /\ DownloadReply' /\ OneWaits'
    BY <2>0, <2>1, <2>2 DEF Transfer, DownloadReply, OneWaits, Transferring
  <2>4. Answered' /\ LoadedIs'
    BY <1>0, <2>0, <2>1, <2>2 DEF Answered, LoadedIs, Prefix
  <2> QED
    BY <2>3, <2>4
<1>4. CASE HostCommand
  <2>0. /\ hstate = "idle" /\ hcmd.op = "none" /\ hstate' = "waiting" /\ hsent' = 0
        /\ out' # <<>>
        /\ loaded' = IF hcmd'.op = "download" THEN NONE ELSE loaded
        /\ UNCHANGED <<download_size, download_bytes, buffer, fboot_response_flag, connected,
                       phase, waiting, fifo>>
    BY <1>4, <1>n DEF HostCommand, IndInv, HostProgress, deviceVars
  <2>1. ~Transferring'
    BY <2>0 DEF Transferring
  <2>2. Transfer' /\ DownloadReply' /\ OneWaits'
    BY <1>0, <2>0, <2>1 DEF Transfer, DownloadReply, OneWaits
  <2>3. Answered'
    BY <1>0, <2>0 DEF Answered
  <2>4. LoadedIs'
    BY <1>0, <2>0 DEF LoadedIs, Prefix
  <2> QED
    BY <2>2, <2>3, <2>4
<1>5. CASE HostSend
  <2>0. /\ hstate = "sending" /\ out = <<>> /\ out' # <<>> /\ hsent' # 0
        /\ hstate' \in {"sending", "waiting"} /\ hcmd.op = "download"
        /\ UNCHANGED <<download_size, download_bytes, buffer, fboot_response_flag, reply_msg,
                       connected, phase, waiting, fifo, hcmd, loaded>>
    BY <1>5, SendIs DEF HostSend, CanSend, deviceVars
  <2>1. Got' = Got /\ Transferring /\ Transferring'
    BY <1>5, SendIs
  <2>2. Transfer'
    BY <1>0, <2>0, <2>1 DEF Transfer, Prefix
  <2>3. OneWaits' /\ Answered' /\ DownloadReply' /\ LoadedIs'
    BY <1>0, <2>0, <2>1 DEF OneWaits, Answered, DownloadReply, LoadedIs, Prefix
  <2> QED
    BY <2>2, <2>3
<1>6. CASE UNCHANGED vars
  <2>1. UNCHANGED <<download_size, download_bytes, reply_msg, fboot_response_flag, buffer, phase,
                    connected, out, hstate, hcmd, hsent, waiting, fifo, loaded>>
    BY <1>6 DEF vars, hostVars, deviceVars
  <2> QED
    BY <1>0, <2>1 DEF OneWaits, Answered, DownloadReply, Transfer, LoadedIs, Transferring, Got,
       Prefix
<1> QED
  BY <1>0, <1>1, <1>2, <1>3, <1>4, <1>5, <1>6

LEMMA Loaded == Spec => [](IndInv /\ LoadInv)
<1>1. Init => LoadInv
  BY DEF Init, LoadInv, OneWaits, Answered, DownloadReply, Transfer, Transferring, LoadedIs,
     NoCommand
<1> QED
  BY <1>1, Inductive, LoadStep, PTL DEF Spec

\* What was acknowledged stays in the transfer buffer, whatever commands follow.
THEOREM Stays == Spec => []AcknowledgedStays
<1>1. IndInv /\ LoadInv => AcknowledgedStays
  BY DEF LoadInv, LoadedIs, Prefix, AcknowledgedStays
<1> QED
  BY <1>1, Loaded, PTL
-----------------------------------------------------------------------------
(* A session without an interruption: what is flashed. *)

\* The partition table gives the partitions that mmc writes a length: a number of sectors
\* that is not 0, and less than 4 GB.
MmcHaveLength == \A p \in MmcPartitions : Length[p] # 0

\* The parts of an image.
LEMMA PartIs ==
    ASSUME NEW i \in Images
    PROVE  /\ PartSize(i, "whole") = Size(i) /\ PartFirst(i, "whole") = 0
           /\ PartSize(i, "kernel") = Kernel[i] /\ PartFirst(i, "kernel") = PAGE
           /\ PartSize(i, "ramdisk") = Ramdisk[i]
           /\ PartFirst(i, "ramdisk") = PAGE + Padded(Kernel[i])
<1>1. PartSize(i, "whole") = Size(i) /\ PartFirst(i, "whole") = 0
  BY Zenon DEF PartSize, PartFirst
<1>2. PartSize(i, "kernel") = Kernel[i] /\ PartFirst(i, "kernel") = PAGE
  BY Zenon DEF PartSize, PartFirst
<1>3. PartSize(i, "ramdisk") = Ramdisk[i] /\ PartFirst(i, "ramdisk") = PAGE + Padded(Kernel[i])
  BY Zenon DEF PartSize, PartFirst
<1> QED
  BY <1>1, <1>2, <1>3

\* What write_to_ptn_sdmmc writes of an image that is in the transfer buffer.
LEMMA WrittenIs ==
    ASSUME MmcHaveLength, NEW i \in Images, NEW p \in Partitions,
           buffer \in [0..transfer_buffer_size - 1 -> Unit],
           Prefix(i, Size(i)), Size(i) <= transfer_buffer_size,
           NEW part, PartSize(i, part) \in Nat, PartFirst(i, part) \in Nat,
           PartFirst(i, part) + PartSize(i, part) <= Size(i),
           ~TooLarge(p, PartSize(i, part))
    PROVE  Holds(Written(p, PartFirst(i, part), PartSize(i, part)), p, i, part)
<1> DEFINE size    == PartSize(i, part)
           first   == PartFirst(i, part)
           count   == IF p \in MmcPartitions THEN Length[p]
                      ELSE IF MoviCount[p] # 0 THEN MoviCount[p] ELSE size
           reached == Reached(p, size)
           units   == BufferAt(first, count)
<1>1. /\ Length[p] \in Nat /\ transfer_buffer_size \in Nat /\ Size(i) \in Nat
      /\ p \notin MmcPartitions => MoviCount[p] \in Nat
  BY FastbootAssumption, SizeIs
<1>2. size \in Nat /\ first \in Nat /\ first + size <= Size(i)
  OBVIOUS
<1>t. Length[p] = 0 \/ size <= Length[p]
  BY <1>1, <1>2 DEF TooLarge
<1> HIDE DEF size, first
<1>3. count \in Nat /\ reached \in Nat /\ reached <= count /\ reached <= size
  BY <1>1, <1>2, <1>t DEF MmcHaveLength, Reached, Least
<1>7. Written(p, first, size) = units
  BY DEF Written
<1>8. reached = Reached(p, size)
  OBVIOUS
<1> HIDE DEF count, reached
<1>4. units = [n \in 1..count |-> IF first + n - 1 < transfer_buffer_size
                                  THEN buffer[first + n - 1] ELSE JUNK]
  BY DEF BufferAt
<1>5. Len(units) = count
  BY <1>3, <1>4
<1>6. ASSUME NEW n \in 1..reached PROVE units[n] = <<i, first + n - 1>>
  <2>1. n \in 1..count /\ first + n - 1 < transfer_buffer_size /\ first + n - 1 \in 0..Size(i) - 1
    BY <1>1, <1>2, <1>3
  <2>2. units[n] = buffer[first + n - 1]
    BY <1>4, <2>1
  <2> QED
    BY <2>1, <2>2 DEF Prefix
<1> HIDE DEF units
<1> QED
  BY <1>3, <1>5, <1>6, <1>7, <1>8 DEF Holds, size, first

\* A write that is answered OKAY has written that, or it was movi's.
LEMMA AnsweredOkay ==
    ASSUME NEW i \in Images, NEW p \in Partitions, NEW part,
           NEW units \in WriteResults(p, PartFirst(i, part), PartSize(i, part)),
           Holds(Written(p, PartFirst(i, part), PartSize(i, part)), p, i, part),
           WriteReply(p, units) = Okay
    PROVE  AsTold(units, p, i, part)
<1>1. Okay # Fail
  BY DEF Okay, Fail
<1>2. units = Written(p, PartFirst(i, part), PartSize(i, part)) \/ units = Failed
  BY Zenon DEF WriteResults
<1>3. units = Failed => p \notin MmcPartitions
  BY <1>1, Zenon DEF WriteReply
<1> QED
  BY <1>2, <1>3, Zenon DEF AsTold

\* flash: answers OKAY only when the partitions hold what is loaded, as far as it can tell.
LEMMA FlashEffect ==
    ASSUME MmcHaveLength, TypeOK, NEW c, c.op = "flash", CommandFlash(c.arg),
           reply_msg' = Okay,
           loaded = NONE => download_bytes = 0,
           loaded # NONE => download_bytes = Size(loaded) /\ Prefix(loaded, Size(loaded))
    PROVE  /\ loaded # NONE
           /\ \A p \in Changed(c) :
                 p \in Partitions
                    /\ AsTold(flash'[p], p, loaded, IF c.arg = "boot" THEN p ELSE "whole")
<1>f. Okay # Fail
  BY DEF Okay, Fail
<1>0. /\ DOMAIN flash = Partitions /\ transfer_buffer_size \in Nat
      /\ buffer \in [0..transfer_buffer_size - 1 -> Unit]
      /\ loaded \in Images \cup {NONE}
      /\ download_bytes \in 0..transfer_buffer_size
      /\ {"kernel", "ramdisk"} \subseteq Partitions
      /\ "kernel" \notin MmcPartitions /\ "ramdisk" \notin MmcPartitions
      /\ NONE \notin Images
  BY FastbootAssumption DEF TypeOK
<1>d. download_bytes # 0 => /\ loaded # NONE /\ loaded \in Images
                            /\ download_bytes = Size(loaded)
                            /\ Prefix(loaded, Size(loaded)) /\ Size(loaded) <= transfer_buffer_size
  BY <1>0
<1>1. CASE c.arg = "boot"
  <2>1. CommandFlashBoot
    BY <1>1 DEF CommandFlash
  <2>2. /\ download_bytes # 0
        /\ \E k \in KernelSizes, r \in RamdiskSizes :
              /\ ~TooLarge("kernel", k) /\ ~TooLarge("ramdisk", r)
              /\ \E kernel \in WriteResults("kernel", PAGE, k),
                    ramdisk \in WriteResults("ramdisk", RamdiskOffset(k), r) :
                       flash' = [flash EXCEPT !["kernel"] = kernel, !["ramdisk"] = ramdisk]
    BY <1>f, <2>1, Zenon DEF CommandFlashBoot, TxStatus
  <2>3. /\ loaded # NONE /\ loaded \in Images
        /\ Prefix(loaded, Size(loaded)) /\ Size(loaded) <= transfer_buffer_size
    BY <1>d, <2>2
  <2> DEFINE k == Kernel[loaded]
             r == Ramdisk[loaded]
             i == loaded
  <2>4. /\ k \in Nat /\ r \in Nat /\ Size(i) \in Nat /\ PAGE \in Nat /\ Size(i) >= 2
        /\ Padded(k) \in Nat /\ k <= Padded(k) /\ Padded(r) \in Nat /\ r <= Padded(r)
        /\ Size(i) = PAGE + Padded(k) + Padded(r)
        /\ RamdiskOffset(k) = PAGE + Padded(k)
    BY <2>3, SizeIs, PaddedIs
  <2>5. KernelSizes = {k}
    <3>1. buffer[0] = <<i, 0>>
      BY <2>3, <2>4 DEF Prefix
    <3>2. <<i, 0>> \in {<<j, 0>> : j \in Images}
      BY <2>3
    <3>3. buffer[0] # ZERO
      BY <3>1, <3>2, FastbootAssumption
    <3>4. buffer[0][1] = i
      BY <3>1
    <3> QED
      BY <3>1, <3>2, <3>3, <3>4 DEF KernelSizes
  <2>6. RamdiskSizes = {r}
    <3>1. buffer[1] = <<i, 1>>
      BY <2>3, <2>4 DEF Prefix
    <3>2. <<i, 1>> \in {<<j, 1>> : j \in Images}
      BY <2>3
    <3>3. buffer[1][1] = i
      BY <3>1
    <3> QED
      BY <3>1, <3>2, <3>3 DEF RamdiskSizes
  <2>7. /\ PartSize(i, "kernel") = k /\ PartFirst(i, "kernel") = PAGE
        /\ PartSize(i, "ramdisk") = r /\ PartFirst(i, "ramdisk") = RamdiskOffset(k)
    BY <2>3, <2>4, PartIs
  <2> HIDE DEF k, r
  <2>8. /\ ~TooLarge("kernel", k) /\ ~TooLarge("ramdisk", r)
        /\ \E kernel \in WriteResults("kernel", PAGE, k),
              ramdisk \in WriteResults("ramdisk", RamdiskOffset(k), r) :
                 flash' = [flash EXCEPT !["kernel"] = kernel, !["ramdisk"] = ramdisk]
    BY <2>2, <2>5, <2>6, Zenon
  <2>9. PICK kernel \in WriteResults("kernel", PAGE, k),
             ramdisk \in WriteResults("ramdisk", RamdiskOffset(k), r) :
                flash' = [flash EXCEPT !["kernel"] = kernel, !["ramdisk"] = ramdisk]
    BY <2>8
  <2>10. AsTold(kernel, "kernel", i, "kernel")
    <3>1. PAGE + k <= Size(i)
      BY <2>4
    <3>2. Holds(Written("kernel", PAGE, k), "kernel", i, "kernel")
      BY <1>0, <2>3, <2>4, <2>7, <2>8, <3>1, WrittenIs
    <3>3. WriteReply("kernel", kernel) = Okay
      BY <1>0 DEF WriteReply
    <3> QED
      BY <1>0, <2>3, <2>7, <3>2, <3>3, AnsweredOkay
  <2>11. AsTold(ramdisk, "ramdisk", i, "ramdisk")
    <3>1. RamdiskOffset(k) + r <= Size(i) /\ RamdiskOffset(k) \in Nat
      BY <2>4
    <3>2. Holds(Written("ramdisk", RamdiskOffset(k), r), "ramdisk", i, "ramdisk")
      BY <1>0, <2>3, <2>4, <2>7, <2>8, <3>1, WrittenIs
    <3>3. WriteReply("ramdisk", ramdisk) = Okay
      BY <1>0 DEF WriteReply
    <3> QED
      BY <1>0, <2>3, <2>7, <3>2, <3>3, AnsweredOkay
  <2>12. flash'["kernel"] = kernel /\ flash'["ramdisk"] = ramdisk
    BY <1>0, <2>9
  <2>13. Changed(c) = {"kernel", "ramdisk"}
    BY <1>1 DEF Changed
  <2> QED
    BY <1>0, <1>1, <2>3, <2>10, <2>11, <2>12, <2>13
<1>2. CASE c.arg # "boot"
  <2> DEFINE p == c.arg
  <2>1. CommandFlashPartition(p)
    BY <1>2 DEF CommandFlash
  <2>2. /\ download_bytes # 0 /\ p \in Partitions /\ ~TooLarge(p, download_bytes)
        /\ \E units \in WriteResults(p, 0, download_bytes) :
              flash' = [flash EXCEPT ![p] = units] /\ WriteReply(p, units) = Okay
    BY <1>f, <2>1, Zenon DEF CommandFlashPartition, TxStatus
  <2>3. /\ loaded # NONE /\ loaded \in Images /\ download_bytes = Size(loaded)
        /\ Prefix(loaded, Size(loaded)) /\ Size(loaded) <= transfer_buffer_size
        /\ Size(loaded) \in Nat
    BY <1>d, <2>2, SizeIs
  <2>4. PartSize(loaded, "whole") = Size(loaded) /\ PartFirst(loaded, "whole") = 0
    BY <2>3, PartIs
  <2>5. PICK units \in WriteResults(p, 0, Size(loaded)) :
            flash' = [flash EXCEPT ![p] = units] /\ WriteReply(p, units) = Okay
    BY <2>2, <2>3, Zenon
  <2>6. Holds(Written(p, 0, Size(loaded)), p, loaded, "whole")
    <3>1. 0 + Size(loaded) <= Size(loaded) /\ ~TooLarge(p, Size(loaded))
      BY <2>2, <2>3
    <3> QED
      BY <1>0, <2>2, <2>3, <2>4, <3>1, WrittenIs
  <2>7. AsTold(units, p, loaded, "whole")
    BY <2>2, <2>3, <2>4, <2>5, <2>6, AnsweredOkay
  <2>8. Changed(c) = {p} /\ flash'[p] = units
    BY <1>0, <1>2, <2>2, <2>5 DEF Changed
  <2> QED
    BY <1>2, <2>2, <2>3, <2>7, <2>8
<1> QED
  BY <1>1, <1>2

\* Every step.
LEMMA FlashStep ==
    ASSUME MmcHaveLength
    PROVE  IndInv /\ LoadInv /\ FlashInv /\ [Next]_vars => FlashInv'
<1> SUFFICES ASSUME IndInv, LoadInv, FlashInv, [Next]_vars, unplugs' = 0
             PROVE  FlashReply' /\ BeliefIs'
  BY DEF FlashInv
<1>0. /\ OneWaits /\ Answered /\ LoadedIs /\ FlashReply /\ BeliefIs /\ TypeOK
      /\ PollOut \/ PollIn \/ SyncReturns \/ HostCommand \/ HostSend \/ UNCHANGED vars
  BY Uninterrupted DEF FlashInv, IndInv
<1>u. Unknown.part = "unknown"
  BY DEF Unknown
<1>1. CASE PollOut
  <2>0. /\ HostTypes /\ DownloadOpen /\ hstate # "idle" /\ out # <<>> /\ out[1] \in Packets
        /\ out' = <<>> /\ phase = "poll"
        /\ UNCHANGED <<hstate, hcmd, hsent, loaded, flashed>>
    BY <1>0, <1>1, TypeParts, OutIs DEF PollOut, Polling, IndInv, Answered
  <2>1. waiting = <<>>
    BY <1>0, <1>1, <2>0 DEF PollOut, Polling, Returning, OneWaits
  <2>2. CASE ReceiveData(out[1])
    <3>1. download_size # 0 /\ flash' = flash
      BY <1>0, <2>0, <2>2, DataEffect
    <3>2. hcmd.op = "download"
      BY <1>0, <3>1 DEF Answered
    <3> QED
      BY <1>0, <2>0, <3>1, <3>2 DEF FlashReply, BeliefIs
  <2>3. CASE ReceiveCommand(out[1])
    <3>1. /\ \A p \in Partitions : p \notin Changed(out[1]) => flash'[p] = flash[p]
      BY <1>0, <2>0, <2>3, CommandEffect
    <3>2. Changed(out[1]) \subseteq Changed(hcmd) /\ (hcmd.op = "flash" => out[1] = hcmd)
      <4>1. CASE hstate = "waiting" /\ hsent = 0
        BY <2>0, <4>1 DEF IndInv, OutIsLast
      <4>2. CASE ~(hstate = "waiting" /\ hsent = 0)
        <5>1. hsent # 0 /\ Transferring
          BY <2>0, <4>2 DEF IndInv, OutIsLast, Transferring, HostTypes
        <5>2. out[1].op = "data" /\ hcmd.op = "download"
          BY <1>0, <2>0, <5>1, TransferIs DEF DataPacket
        <5> QED
          BY <5>2 DEF Changed
      <4> QED
        BY <4>1, <4>2
    <3>3. BeliefIs'
      BY <1>0, <1>u, <2>0, <3>1, <3>2 DEF BeliefIs
    <3>4. FlashReply'
      <4> SUFFICES ASSUME hcmd.op = "flash", reply_msg' = Okay PROVE FlashReply'
        BY <2>0 DEF FlashReply
      <4>1. /\ loaded = NONE => download_bytes = 0
            /\ loaded # NONE => download_bytes = Size(loaded) /\ Prefix(loaded, Size(loaded))
        BY <1>0, <2>0, <2>1 DEF LoadedIs
      <4>2. /\ loaded # NONE
            /\ \A p \in Changed(hcmd) :
                  p \in Partitions
                     /\ AsTold(flash'[p], p, loaded, IF hcmd.arg = "boot" THEN p ELSE "whole")
        <5>1. CommandFlash(hcmd.arg)
          BY <2>3, <3>2 DEF ReceiveCommand
        <5> QED
          BY <1>0, <4>1, <5>1, FlashEffect
      <4> QED
        BY <2>0, <4>2 DEF FlashReply
    <3> QED
      BY <3>3, <3>4
  <2> QED
    BY <1>1, <2>2, <2>3 DEF PollOut
<1>2. CASE PollIn
  <2>0. /\ hstate = "waiting" /\ out = <<>> /\ flash' = flash /\ hstate' \in {"idle", "sending"}
    BY <1>2 DEF PollIn, HostReceives, HostGivesUp, HostDone
  <2>1. FlashReply'
    BY <2>0 DEF FlashReply
  <2>2. Changed(hcmd') = {}
    BY <1>2 DEF PollIn, HostReceives, HostGivesUp, HostDone, Changed, NoCommand
  <2>3. CASE flashed' = flashed
    BY <1>0, <2>0, <2>1, <2>2, <2>3 DEF BeliefIs
  <2>4. CASE /\ hcmd.op = "flash" /\ reply_msg = Okay
             /\ flashed' = [p \in Partitions |->
                              IF p = hcmd.arg THEN [image |-> loaded, part |-> "whole"]
                              ELSE IF hcmd.arg = "boot" /\ p \in {"kernel", "ramdisk"}
                                   THEN [image |-> loaded, part |-> p]
                              ELSE flashed[p]]
    <3>1. /\ loaded # NONE
          /\ \A p \in Changed(hcmd) :
                p \in Partitions
                   /\ AsTold(flash[p], p, loaded, IF hcmd.arg = "boot" THEN p ELSE "whole")
      BY <1>0, <2>0, <2>4 DEF FlashReply
    <3>2. ASSUME NEW p \in Partitions
          PROVE  flashed'[p].part # "unknown" =>
                    flashed'[p].image # NONE
                       /\ AsTold(flash'[p], p, flashed'[p].image, flashed'[p].part)
      <4>0. p # "boot"
        BY FastbootAssumption
      <4>1. CASE p = hcmd.arg
        <5>1. p \in Changed(hcmd)
          BY <2>4, <4>0, <4>1 DEF Changed
        <5>2. flashed'[p].image = loaded /\ flashed'[p].part = "whole"
          BY <2>4, <4>1
        <5> QED
          BY <2>0, <3>1, <4>0, <4>1, <5>1, <5>2
      <4>2. CASE hcmd.arg = "boot" /\ p \in {"kernel", "ramdisk"}
        <5>1. p \in Changed(hcmd)
          BY <2>4, <4>2 DEF Changed
        <5>2. flashed'[p].image = loaded /\ flashed'[p].part = p
          BY <2>4, <4>0, <4>2
        <5> QED
          BY <2>0, <3>1, <4>2, <5>1, <5>2
      <4>3. CASE p # hcmd.arg /\ ~(hcmd.arg = "boot" /\ p \in {"kernel", "ramdisk"})
        <5>1. flashed'[p] = flashed[p]
          BY <2>4, <4>3
        <5> QED
          BY <1>0, <2>0, <5>1 DEF BeliefIs
      <4> QED
        BY <4>1, <4>2, <4>3
    <3> QED
      BY <2>1, <2>2, <3>2 DEF BeliefIs
  <2> QED
    BY <1>2, <2>3, <2>4 DEF PollIn, HostReceives, HostGivesUp, HostDone
<1>3. CASE SyncReturns
  <2>1. flash' = flash /\ ~fboot_response_flag
    <3>1. fifo.op # "flash"
      BY <1>0 DEF OneWaits, NoCommand
    <3> QED
      BY <1>0, <1>3, <3>1, TypeParts, SyncEffect
  <2>2. UNCHANGED <<out, hstate, hcmd, loaded, flashed>>
    BY <1>3 DEF SyncReturns, hostVars
  <2>3. ~(hstate = "waiting" /\ out = <<>>)
    BY <1>0, <2>1 DEF Answered
  <2> QED
    BY <1>0, <2>1, <2>2, <2>3 DEF FlashReply, BeliefIs
<1>4. CASE HostCommand
  <2>1. /\ out' # <<>> /\ flash' = flash
        /\ flashed' = [p \in Partitions |-> IF p \in Changed(hcmd') THEN Unknown ELSE flashed[p]]
    BY <1>4 DEF HostCommand, Changed, deviceVars
  <2> QED
    BY <1>0, <1>u, <2>1 DEF FlashReply, BeliefIs
<1>5. CASE HostSend
  <2>1. hcmd.op = "download" /\ UNCHANGED <<flash, hcmd, flashed>>
    BY <1>5 DEF HostSend, IndInv, HostProgress, deviceVars
  <2> QED
    BY <1>0, <2>1 DEF FlashReply, BeliefIs
<1>6. CASE UNCHANGED vars
  BY <1>0, <1>6 DEF vars, hostVars, deviceVars, FlashReply, BeliefIs
<1> QED
  BY <1>0, <1>1, <1>2, <1>3, <1>4, <1>5, <1>6

\* What OKAY said is flashed is flashed: the right units of the image downloaded last, in
\* a session that is not interrupted, whatever was flashed, erased or refused before: of
\* a kernel as many as movi writes of one, and unless movi's write failed, which its OKAY
\* does not exclude.
THEOREM Flashed == ASSUME MmcHaveLength PROVE Spec => []FlashedAsDownloaded
<1>1. Init => FlashInv
  BY DEF Init, FlashInv, FlashReply, BeliefIs, NoCommand, Unknown, Changed
<1>2. IndInv /\ LoadInv /\ FlashInv /\ [Next]_vars => FlashInv'
  BY FlashStep
<1>3. FlashInv => FlashedAsDownloaded
  BY DEF FlashInv, BeliefIs, FlashedAsDownloaded
<1> QED
  BY <1>1, <1>2, <1>3, Loaded, PTL DEF Spec
=============================================================================
