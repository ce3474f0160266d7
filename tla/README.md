# U-Boot for the iTop-4412: a TLA+ development

This directory holds a verification development for the boot loader under
`src/iTop4412_uboot_scp` (U-Boot 2010 with Samsung's and TOPEET's additions for
the Exynos-4412 board). TLA+ modules model parts of it, TLC checks them on small
instances, and TLAPS proves the most important facts for every value of the
parameters. All source paths below are relative to `src/iTop4412_uboot_scp`.

## The system

U-Boot is one thread of control. There is no scheduler and there are no locks:
what makes it hard is the outside world. The power can go at any instant; flash
operations fail half way; the network loses, delays and duplicates packets; a
USB host goes away in the middle of a transfer; time-outs run against late
answers; and everything that survives a reset was written by an earlier run that
may not have finished.

### Inventory

| Part | Source | State | Operations | Hard behaviour | What makes it correct |
|---|---|---|---|---|---|
| Redundant NOR environment | `common/env_flash.c`, `common/env_common.c` | two sectors with checksum, flag byte and data; the one in use; the copy in RAM | `env_init`, `env_relocate_spec`, `saveenv` | power failure between and during erases and writes; reported write errors; the repair at boot is itself cut off | a boot finds the last saved value or one that was being saved |
| Redundant NAND environment | `common/env_nand.c` | two areas with checksum, 8-bit serial and data | `env_relocate_spec`, `saveenv`, `readenv`, `writeenv` | the same, and the wrap of the serial | the same; the serials of two valid copies are consecutive |
| TFTP client | `net/tftp.c` | protocol state, block numbers, wraps, block size, ports, time-outs; the memory written | `TftpStart`, `TftpSend`, `TftpHandler`, `TftpTimeout`, `store_block` | loss, delay, repetition, reordering; two sessions for one transfer; 16-bit block numbers | success means the whole file is in place; the command ends |
| Network loop, ARP, interfaces | `net/net.c`, `net/eth.c` | `NetState`, one packet handler, one timer, one packet waiting for ARP; the current interface and the one that failed first | `NetLoop`, `NetStartAgain`, `ArpTimeoutCheck`, `NetReceive`, `eth_init`, `eth_halt`, `eth_try_another` | packet, ARP time-out and time-out in one pass; handlers left over from the last command; interfaces that do not come up | interfaces are tried in turn, no wait without a timer, results stand, commands end |
| Fastboot | `common/cmd_fastboot.c`, `common/cmd_movi.c`, `cpu/arm_cortexa9/s5pc210/fastboot.c` | download size and count, transfer buffer, one packet buffer, one reply slot, partition table | `rx_handler`, `write_to_ptn_sdmmc`, `fastboot_poll`, `fastboot_tx_status`, `fastboot_init`, `do_fastboot` | unplugging at any time; commands taken for data; polling from inside a handler; writes that fail, and whose failure `movi` does not report | what is reported as flashed is what was downloaded; every command is answered |
| Environment variables | `common/cmd_nvedit.c` | strings `name=value` in one block, ended by a double NUL, with a checksum | `_do_setenv`, `getenv` | deleting and appending by shifting bytes; the end of the block; remains of longer environments | look-ups see the last value; a change touches one variable |
| Board environment | `common/env_auto.c`, `cpu/arm_cortexa9/s5pc210/movi.c` | one area on the eMMC | `saveenv`, `env_relocate_spec` | power failure while the only copy is rewritten, ignored errors | a boot finds one environment that was saved, or the default, and never a mixture |
| NFS client | `net/nfs.c` | the call under way, its number, ports, handles, path, offset, time-outs | `NfsStart`, `NfsSend`, `NfsHandler`, `NfsTimeout` | late, repeated and lost replies; links; starting again | success means the whole file; handles belong to the name wanted; the command ends |
| IP reassembly | `net/net.c` | a buffer that holds both data and the list of its own holes | `__NetDefragment` | fragments lost, repeated, reordered, of several packets | what is handed on is complete; what is complete is handed on |
| YMODEM | `common/xyzModem.c`, `common/cmd_load.c` | block number, check mode, tries; the chunk and the memory | `xyzModem_stream_open`, `_read`, `_terminate`, `load_serial_ymodem` | noise, lost and repeated blocks and replies, a sender that cancels or stops | blocks in order, once each; the load ends, and completes if the sender stays |
| BOOTP/DHCP, RARP, DNS, SNTP | `net/*.c` | transaction numbers, retry counts | request, handler, time-out each | late answers to an earlier request | answers are matched to requests |
| SD-card update, recovery | `common/cmd_fastboot.c`, `cpu/arm_cortexa9/s5pc210/recovery.c` | as Fastboot | feeds files to `rx_handler` | one file of several fails | a failure is reported |
| Boot sequence, command line | `common/main.c` | - | count-down, interpreter | - | - |
| eMMC driver, partition table | `common/cmd_mmc_fdisk.c`, `drivers/mmc` | the MBR | create, print | sector arithmetic in 32 bits | partitions do not overlap |
| Third-party code, other boards | `common/dlmalloc.c`, `lib_*`, `fs`, `board`, `cpu` | - | - | - | - |

The parts meet in few places. All network protocols run inside `NetLoop` and talk
to it through `NetState`, `NetSetHandler`, `NetSetTimeout` and `NetStartAgain`.
`rx_handler` of Fastboot is called from the polling loop and, through
`fastboot_tx_status`, polls again from inside. The environment is read by all of
them (`netretry`, `ethact`, `ethaddr`, `tftpblocksize`) and written by some
(`filesize`, `ethact`), in RAM only; `saveenv` alone makes it durable.

The hazards, each at its line, are in `PROJECT.json`.

## Modules

| Module | Models | Checked by | Proved in |
|---|---|---|---|
| `EnvStore` | what an environment store promises its users | as the property `ImplementsStore` of the next two | `Implements` of the next two |
| `EnvFlash` (`MCEnvFlash`) | `env_flash.c` | `env_flash` | `EnvFlashProofs` |
| `EnvNand` | `env_nand.c` | `env_nand` | `EnvNandProofs` |
| `EnvVars` | what `setenv`, `saveenv` and a boot promise of a list of definitions | as the property `ImplementsEnvVars` of the next | |
| `EnvAuto` (`MCEnvAuto`) | `cmd_nvedit.c` and `env_auto.c`, byte by byte | `env_auto` | |
| `Tftp` | `tftp.c`, a server and a network | `tftp`, `tftp_wrap` | `TftpProofs` |
| `Nfs` | `nfs.c`, the three servers and a network | `nfs` | `NfsProofs` |
| `NetLoop` | `net.c`, `eth.c`, with tftp and ping reduced to their requests and answers | `net_loop`, `net_loop_wrap` | `NetLoopProofs` |
| `NetDefrag` (`MCNetDefrag`) | `__NetDefragment` of `net.c` and a network | `net_defrag`, `net_defrag_order` | `NetDefragProofs` |
| `Fastboot` (`MCFastboot`) | `cmd_fastboot.c` and the polling loop, a host and a cable | `fastboot` | `FastbootProofs` |
| `Ymodem` | `xyzModem.c`, `load_serial_ymodem`, a sender and a serial line | `ymodem` | `YmodemProofs` |

The exact lines behind each definition are in the `map` of `PROJECT.json`.
A definition whose comment begins with "Mutant" is an altered version of the one
that follows it; no specification uses it. It is there to show that a property
fails when the code is wrong.

### EnvStore

A value is *durable* once `saveenv` reported success or a boot loaded it. A save
that was cut off or failed leaves its value as an *attempt*. A boot may find the
durable value or any attempt since, and whatever it finds is durable from then
on. That is the strongest promise a two-copy scheme can keep, and the weakest a
user can live with.

### EnvFlash

`flash` is the two sectors, each with its checksum, flag byte and data; `pc` names
the next flash operation of `saveenv` or of `env_relocate_spec`. Each erase and each
`flash_write` is an action with up to three outcomes: it succeeds, it reports an
error (if its name is in `FailingOps`), or the power fails under way and leaves
any state in between. `PowerFail` may also strike between any two steps.
Programming clears bits only, so a flag can go from 0xFF to 1 and to 0, and
never back. A checksum is modelled by the value it belongs to.

### EnvNand

`nand` is the two areas with the outcome of the checksum, the data and the serial
number; `flags` is the serial number in RAM, incremented by each attempt to save.
`Relocate` makes the choice of `env_relocate_spec`, with or without read errors.

### EnvVars and EnvAuto

`EnvVars` is the environment as its users know it: a list of definitions. `setenv`
takes the old definition of a name away and puts the new one at the end, or
refuses, or overflows and leaves only the deletion. A save makes the list an
*attempt*; a boot comes up with an attempt, the default, or (OneNAND) nothing.

`EnvAuto` is the block of bytes in RAM and the one copy on the device. `envmatch`,
the deletion (`Cut`), the search for the end and the appending work on bytes, and
what lies behind the double NUL is kept. `movi_write_env` writes sector by sector,
and a power failure or an ignored error can end it between any two. `dev` is the
boot device (INF_REG3) and `mshc` whether the build defines CONFIG_S5P_MSHC; both
are chosen once. A checksum is modelled by the block it belongs to. The refinement
mapping reads the definitions off the bytes (`Entries`). The board's build defines
CONFIG_ENV_OVERWRITE, so `ethaddr` and `serial#` are names like any other.

### Tftp

The client's static variables keep their names. The server opens a session for
each request, on a port of its own, and may repeat a request's answer or refuse;
the network loses, delays and reorders. Messages carry the true block number and
block size beside the 16-bit one, unseen by the client, so that `memory` can
record which unit of the file was stored at which offset. `NetStartAgain` is
that of one interface. Left out: multicast and writing straight to NOR flash.

### Nfs

The client's static variables keep their names; directories and files are numbers,
file `Links` is the one to load and each smaller one is a link to the next. A
message carries, in place of `rpc_id`, whether it belongs to the newest call; a new
call ages what is under way. `refuses` names the server that answers with an error
and `prompt` says that replies come before the next time-out and once; both are
chosen once. `NetStartAgain` is that of one interface.

### NetDefrag

`buf` is the reassembly buffer by blocks of 8 bytes; a block is a descriptor of a
hole or data of a datagram. Reading data as a descriptor, or writing a descriptor
outside the buffer, is undefined in C: the model sets `wild` and stops. `got` is
history: the fragments that came for the packet now being assembled. The board
does not enable CONFIG_IP_DEFRAG; `include/configs/nhk8815.h` does.

### NetLoop

`pc` is the position in the loop: `EthRx` (any number of packets), `^C`,
`ArpTimeoutCheck`, the time-out handler, and then the `switch` on `NetState`.
`eth` holds the current interface, the one that failed first, `NetRestartWrap`
and the interfaces that are running. `EthInit` is the whole loop of `eth_init`,
with `eth_try_another` for each interface that does not come up. `tried` is
history: the interfaces tried since the command began. The
environment may give the interfaces their addresses before any command. Time is
counted in units of `ARP_TIMEOUT`; a pass takes no time, but may just miss a
time-out that is due. Packets of strangers are left out, so that a packet never
reaches a `packetHandler` that is still NULL (listed as a hazard).

### Ymodem

The file is a sequence of units, with `Pad` behind its end and `Text` for the
information block. `Receive` and `Timeout` are the two results of waiting for a
character, followed by everything the receiver does before it waits again; the
loop of `load_serial_ymodem` is part of `Deliver` and `Finish`. The phase
"undefined" stands for the copy of -1 bytes that follows a failure in the middle of
a chunk (listed as a hazard). The sender is external: it waits for `C`, sends the
information block, blocks of either size, EOT and the final block, repeats on NAK
and on silence, and may cancel or stop.

### Fastboot

Data is counted in units of 16 bytes, the least that keeps the magic and the kernel
size of the boot image header (unit 0) apart from the ramdisk size (unit 1). An image is
a header page, the kernel and the ramdisk, each padded to whole pages. A USB packet has up
to `PACKET` units, and a command packet `CommandLength`: taken for data, it adds its own
length to the download, and the packet that completes a download is cut to fit
(`TransferSize`). `rx_handler` is split by command; `PollOut` and `PollIn` are the two
interrupts the polling loop serves; `waiting` is the stack of handlers that poll from
inside `fastboot_tx_status`. They share one packet buffer, `fastboot_bulk_fifo`: a `boot`
that fails goes on comparing it with `flash:` and `oem`, and handles a newer packet a
second time (`BootFailed`); `fifo` keeps that packet as long as a `boot` waits, and is
cleared otherwise, since nobody reads it then.

`movi` writes kernel and ramdisk, `mmc` the other partitions. `do_movi` drops the results
of the commands it runs, so that a failed write is answered with OKAY, and it writes
`MoviCount` units of a kernel (MOVI_ZIMAGE_BLKCNT), however large it is; `mmc` reports its
failures and fills the partition. `Failing` lists the partitions whose writes may fail.
`loaded` and `flashed` are what the host believes after the replies it got; `swallowed`
is history: the device has taken the host's command for data.

Left out: the control endpoint, registers, OneNAND, the bootloader partition (and the
first byte that `movi` checks of it), writing the environment partition (no table entry
has it), compressed ext4 images and `sdfuse`. Writes are not rounded up to blocks. A packet
of data that comes when a command is expected is answered with FAIL: image data is taken
not to begin like a command. `reboot-bootloader`, which leaves a word instead of zeros in
the first unit, is `reboot`. A reply is taken to be intact when it is sent although its
buffer is in a stack frame that has returned (listed as a hazard).

## Runs

| Run | States | Shows |
|---|---|---|
| `env_flash` | 18 948 | `Durability`, `ChoiceIsSettled` and refinement of `EnvStore` for three environments, a shared sector, every handled failure |
| `env_nand` | 34 575 | `Durability`, `ConsecutiveSerials`, refinement, over the full range of 256 serials |
| `env_auto` | 130 989 | `GetenvFinds`, `SavedSurvives`, refinement of `EnvVars`, on a block that three definitions fill |
| `tftp` | 870 300 | `BlocksInPlace`, `SuccessIsComplete`, `ServerNeverAhead`, `Terminates` under loss, repetition and reordering |
| `tftp_wrap` | 30 126 | the same across two wraps, when the server does not repeat blocks |
| `nfs` | 258 384 | `SuccessIsComplete`, `HandlesAreCurrent`, `Terminates`, `Completes` through a link, with any server refusing |
| `net_loop` | 168 839 | `OnlyCurrentActive`, `HandlerIsCurrent`, `AlwaysTimed`, `SuccessStands`, `RoundIsComplete`, `Terminates` |
| `net_loop_wrap` (violation) | 2 commands | `TriedAll`: a second command waits for a new round with an interface untried |
| `net_defrag` | 29 009 | `ReturnedIsComplete`, `CompleteIsReturned`, `NeverWild`, `HolesAreMissing` when the first fragment comes first |
| `net_defrag_order` (violation) | 3 steps | middle, then last fragment: the packet is handed on without its first one |
| `fastboot` | 2 466 039 | `FlashedAsDownloaded`, `AcknowledgedStays`, `CommandsAnswered` up to the first interruption, with failing writes, and `AcknowledgedIsComplete` after it too |
| `ymodem` | 217 149 | `StoredIsPrefix`, `SenderNeverAhead`, `EofIsComplete`, `Terminates`, `Completes` with three faults |

The two violations are described under `findings` in `PROJECT.json`, with the lines of
the repository that say otherwise: a hole link of 0 means both "none" and "hole 0",
and `NetRestartWrap`, said to mean that all network devices were tried, is also set
when `eth_init` passes the interface that failed first in an earlier command.

Each module has a type invariant `TypeOK`. For `EnvFlash` and `EnvNand` the runs check
it; in the other modules it holds in the instances of the runs (add it to the
INVARIANTS of the cfg to check it). The theorems `TypeCorrect` prove it for all modules
that have a proof module.

### Where the properties stop

The passing runs hold under conditions that the code does not meet everywhere.
TLC finds each of the following properties violated when the named constant is
changed in the run's cfg or MC module; `PROJECT.json` lists them as hazards.

| Property | Change | What the code does |
|---|---|---|
| `Durability` (`env_flash`) | `"rest"` in `FailingOps` | restoring the shared sector fails, `saveenv` reports success without swapping the copies, and the next save erases the one just written |
| `Durability` (`env_flash`) | `TornFlagBytes = {127}` | a flag byte caught between 0xFF and 1 makes `env_init` accept neither copy |
| `Durability` (`env_nand`) | `"erase"` or `"write"` in `FailingOps`, `MaxSerial = 7` | failed saves advance the serial, and the comparison knows only the step from 255 to 0 |
| `SavedSurvives` (`env_auto`) | without `kept[1].clean` | an overflowing `setenv` leaves the checksum behind; a save then costs the whole environment |
| `SuccessIsComplete` (`tftp_wrap`) | `ServerResends = TRUE` | a repeated block 0 counts as another wrap before it is recognised |
| `BlocksInPlace`, `ServerNeverAhead` (`tftp`); `SuccessIsComplete` too with `MaxInFlight = 3` | `Ports = {p1}`, `PortsDiffer = FALSE` | a late packet of the session before is taken into the new one (only where a build fixes the port) |
| `BlocksInPlace` (`tftp`) | `NetRetry = 3` | the same, when a third attempt draws the port of the first again |
| `Terminates` (`nfs`) | `Cyclic = TRUE` | links in a circle are followed for ever |
| `NeverWild` (`net_defrag`) | `LateCopies = TRUE` | a copy that comes after completion reads payload as hole descriptors |
| `NeverWild`, `HolesAreMissing` (`net_defrag`) | `IP_MAXUDP = 20` | the descriptor behind a fragment at the very end lies outside the buffer |
| `CompleteIsReturned`, `HolesAreMissing` (`net_defrag`) | a `Length` of 17 | a last fragment below 8 bytes, in order, counts as a repetition |
| `ReturnedIsComplete`, `CompleteIsReturned`, `HolesAreMissing` (`net_defrag`) | `ip_id = <<11, 11, 13>>` | fragments with the same `ip_id`, of another host too, are mixed into a packet |
| `FlashedAsDownloaded`, `AcknowledgedStays` (`fastboot`) | without `unplugs = 0` | `reset_handler` is never called, and `fastboot_init` clears the start of the buffer |
| `AcknowledgedIsComplete` (`fastboot`) | without `~swallowed` | a `download:` command taken for data of the download before it puts the image that follows 17 bytes too far; its last packet is cut and acknowledged all the same |
| `FlashedAsDownloaded` (`fastboot`) | `AsTold` without its second disjunct | a `movi` write of kernel or ramdisk that failed is answered with OKAY |
| `FlashedAsDownloaded` (`fastboot`) | `Reached(p, size) == size` | of a kernel larger than MOVI_ZIMAGE_BLKCNT only the beginning is written, and answered with OKAY |
| `StoredIsPrefix` (`ymodem`) | `MAX_RETRIES = 6`, or `MAX_RETRIES = 4` and `MaxFaults = 2` | a repeated block on the last try is copied as new data |
| `SenderNeverAhead` (`ymodem`) | `Prompt = FALSE` | a sender that repeats too early takes the second acknowledgement for the next block |
| `EofIsComplete` (`ymodem`) | `"start"` in `Noise`, `EOT = 2` | a block number 4 without its start byte reads as EOT |

Two more have no property: a NAND copy that cannot be read at boot
(`env_nand.c:302`, modelled by `"read"` in `FailingOps`) brings up the other one, and a
failed write of the NOR `saveenv` loses the rest of a shared sector (`env_flash.c:190`).

`netretry=once`, which README:3124-3126 says tries all interfaces once, ends the
command after the first one (`NetTryCount` starts at 1): in `NetLoop` that is
`retrycnt` = 1.

Two limits of `Ymodem` lie in its abstraction. `xyzModem_stream_read` cuts padding only when
the last three characters are ^Z (`xyzModem.c:648-650`); the units of the model are
several characters long, so that one or two ^Z, which stay in the file when the header
had no length, do not appear. And `Terminates` speaks of a line that falls silent when
the sender has stopped: on a line that never does, `xyzModem_get_hdr` goes on reading
characters and no try is counted.

### Bounds

* Environments: three values, so that the default, the last saved and the one
  being saved differ. `MaxSerial` is the real 255 in `env_nand`.
* `EnvAuto`: twelve bytes of data in three sectors, so that a write can be cut in
  two places and three short definitions overflow; the names `a`, `ab` and the
  illegal `a=`, so that one begins like another; values of none, one and two
  words; three `setenv`, two saves and one fault.
* `Nfs`: a link and a file of two units read in one call, one retry and two tries,
  so that a load is started again while replies to the first attempt are under
  way; two messages under way in each direction and one lost.
* `NetDefrag`: blocks of 2 bytes instead of 8 and fragments of two blocks; datagrams
  of five and of two fragments and one that is too long for the buffer; any
  number of copies.
* `Ymodem`: a file of five units, blocks of one and two, and block numbers modulo 3,
  so that they wrap; eight tries instead of twenty and three instead of ten with
  CRC, three faults. `Completes` needs more tries than twice the faults.
* `Tftp`: five units in blocks of two (three blocks, the last one short), two
  attempts, three sessions, two packets under way in each direction: enough for
  a repeated request, a late packet of a dead session and a reordering. For the
  wraps `SEQUENCE_SIZE` is 3 instead of 65536 and block numbers pass it twice.
* `NetLoop`: four interfaces, of which one has no address and one does not come up,
  so that `eth_init` and `net_check_prereq` both move on; six tries, so that a second
  round begins; two commands, so that the second one meets what the first left.
  With `RetryForever` the safety properties are the same; the run
  takes the bounded case, where `Terminates` says something.
* `Fastboot`: pages of two units, packets of four, commands of one, so that a command
  among the data shifts what follows against the packets; images of eight units that fill
  the buffer, with a kernel and a ramdisk that end within a page, and one that is too large; partitions
  that are too small, limited and not limited, and a kernel beyond what `movi` writes; the
  cable is unplugged or the command stopped once, at any time; writes of one partition
  of each kind may fail.

Deadlock is checked for the environments, which never stop, and for `Nfs`
and `Ymodem`, where the end is an explicit step (`Over`). The others do stop: a
transfer ends, the bound on commands or unplugging is reached, every datagram
has been handed on, the board is reset.

### Fairness

* `Tftp`: `NetLoop` polls without pause, so a packet that is there is received, and
  the 10 s before a new start pass. The timer of `TftpTimeout` runs out unless new
  blocks go on starting it anew (`TimerRuns`): weak fairness alone would be too
  much, since every new block sets the timer back.
* `NetLoop`: passes go on; time goes on when nothing is due; a time-out that is
  due again and again is not missed for ever (strong fairness of `Tick`,
  `TimeHandler` and the ARP retry). `^C` and packets are not assumed.
* `Nfs`: as `Tftp`: packets that are there are received, time-outs run out, and the
  server answers what reaches it. `Completes` adds, in its own statement, that
  replies come in time and nothing refuses.
* `Ymodem`: the receiver polls the line and its time-outs run out; a sender that has
  been started and not stopped handles what it hears. Starting, cancelling and
  stopping are not assumed.
* `Fastboot`: the device polls without pause, and the host sends the data it
  announced. Nothing is assumed of the cable; `CommandsAnswered` is checked for
  one session.

## Proofs

| Module | Theorems | Condition |
|---|---|---|
| `EnvFlashProofs` | `TypeCorrect` | |
| | `Durable` (`Durability`), `ChoiceSettled` (`ChoiceIsSettled`), `Implements` (`ImplementsStore`) | `Reliable` |
| `EnvNandProofs` | `TypeCorrect` | |
| | `Durable` (`Durability`), `Consecutive` (`ConsecutiveSerials`), `Implements` (`ImplementsStore`) | `NoErrors` |
| `TftpProofs` | `TypeCorrect`, `InPlace` (`BlocksInPlace`), `WholeFile` (`SuccessIsComplete`), `NeverAhead` (`ServerNeverAhead`) | `NoWrap`, `SizeAgreed` |
| `NfsProofs` | `TypeCorrect`, `Handles` (`HandlesAreCurrent`), `Complete` (`SuccessIsComplete`) | |
| `NetLoopProofs` | `TypeCorrect`, `OneInterface` (`OnlyCurrentActive`), `Handlers` (`HandlerIsCurrent`), `Timed` (`AlwaysTimed`), `Stands` (`SuccessStands`), `Rounds` (`RoundIsComplete`) | |
| `FastbootProofs` | `TypeCorrect`, `DownloadComplete` (`AcknowledgedIsComplete`), `Stays` (`AcknowledgedStays`) | |
| | `Flashed` (`FlashedAsDownloaded`) | `MmcHaveLength` |
| `YmodemProofs` | `TypeCorrect` | |
| | `Prefix` (`StoredIsPrefix`), `NotAhead` (`SenderNeverAhead`), `WholeFile` (`EofIsComplete`) | `Conditions` |
| `NetDefragProofs` | `TypeCorrect`, `StaysInBuffer` (`NeverWild`), `Complete` (`ReturnedIsComplete`), `HandedOn` (`CompleteIsReturned`), `ListIsExact` (`HolesAreMissing`) | `Conditions` |

Each is proved for every value of the constants that meets the assumption of its
module: any files, images, block sizes, numbers of interfaces, sessions and packets
under way, limits, and serial numbers (of at least three). Every invariant
below was checked with TLC before it was proved.

### Conditions

* `Reliable`: a byte is programmed atomically, marking the losing copy at boot does
  not fail, and neither does restoring the rest of a shared sector; all other
  failures are allowed. `NoErrors`: only the power fails.
* `NoWrap`: the file has fewer blocks than there are block numbers. Across a wrap the
  client cannot tell a repeated block 0 from a new one.
* `SizeAgreed`: the server uses the default block size, or new starts get new ports and
  there are at most two attempts, so that no port is used twice. A client that has
  just sent its request takes a data packet from any source port to have blocks of
  the default size; if a session of an earlier attempt on the same port answers
  with the size it had agreed on, the blocks land in the wrong places.
* `MmcHaveLength`: no mmc partition has length 0. `flash:` takes that for no limit, and
  `mmc write`, told to fill the partition, then writes nothing and reports success.
* `Conditions` of `YmodemProofs`: the sender repeats an item only when no answer can still
  come (`Prompt`), there are fewer faults than half of xyzModem_MAX_RETRIES, which is
  20 in the code (`FewFaults`), and the line damages blocks but does not lose their
  start (`StartsHeard`).
* `Conditions` of `NetDefragProofs`: the first fragment of a datagram comes first
  (`FirstFirst`); no copy comes after the packet was handed on (`~LateCopies`); datagrams
  have different `ip_id`; the end of the buffer is below the 65535 that stands for an
  unknown length; a fragment that fits is at least 8 bytes long, and behind one that is
  not the last there is room for a descriptor.

They are necessary: "Where the properties stop" and the run `net_defrag_order` show what
TLC finds without each of them but the limit of 65535, and with a length of 0 in `MCLength` TLC finds `FlashedAsDownloaded` violated.

### Arguments

*EnvFlash, EnvNand.* `Durability` speaks of what a boot *would* find and is not inductive.
For NOR flash `IndInv` adds what the copy in use holds (`FallbackIsDurable`), how far the
new copy has got at each step of `saveenv` (`NewCopyProgress`), and that the repair at
boot does not change the choice (`ChoiceIsSettled`). At every step at most one of the
two copies is not as `durable` or `ram` says, and the flags then decide for the other
one. The lemmas before it say what a completed or torn write changes (`FlagWrite`)
and what `env_init` chooses (`ChoiceCases`, `BootValueCases`). For NAND, `CopyInUse` says that
the copy in use is valid and one ahead of the other, and `LaterIsSuccessor` that the
comparison of serials is right for neighbours, the wrap included. `Implements` maps
`pc` to the phase of the store and shows, action by action, that each step is one of
`EnvStore` or a stutter.

*Tftp.* Several sessions of the server may be alive and answer an attempt they do not
belong to, so an invariant about "the" session would be false. `IndInv` speaks of
memory instead, which only grows: all blocks before the one a session sent last are in
memory (`SessionsFollow`), and so are those before any block under way, and each block
an acknowledgement under way names (`PacketsFollow`) or the client would acknowledge
(`ClientHolds`). It does not matter then who takes which packet. A short block ends at
the end of the file, and with the blocks before it the file is complete
(`ShortIsLast`). `UnitsAre` gives the place of a block, by a lemma about division
(`DivIs`). `PortsClean` carries the second case of `SizeAgreed`: nothing was ever
acknowledged from the port of a new start.

*Nfs.* `NewestIsCurrent` is what `rpc_id` is for: a request under way with the newest
number is the call the client would send now, and a reply with it answers that call.
`ReadIsPrefix` says that while the file is read all up to `nfs_offset` is in memory, and
`SuccessIsEarned` that nothing but the end of such a read sets the success that the
unmounting delays.

*NetLoop.* `IndInv` carries the handlers and the timer to the places where the properties
do not look (`HandlersOfCommand`, `TimerRuns`), and for `SuccessStands` that the last block has
just set the timer, so that neither it nor an ARP retry is due in the same pass
(`ArrivedIsFresh`, `AnsweredMeansSent`). For `RoundIsComplete`, `RingInv` says that once a
command has failed on an interface, all from the one that failed first round the
ring to the current one were tried (`TriedSinceFailure`). The steps of `eth_try_another`
and the loop of `eth_init` are the least number of steps to an interface that will do;
`MinIs` gets it from well-foundedness instead of induction.

*Fastboot.* After an interruption the device may be in the middle of a download whose host
is gone, and the next host begins another one. If the device takes that host's
`download:` for data it is ahead of the host from then on, and nothing holds; if it
handles the command, it starts from nothing, whatever was there before
(`DataExpected`), and from the DATA reply to the end both count the same
(`TransferInStep`): each packet is then saved whole (`PacketSaved`), since only what the
host still has to send is expected, and the count reaches the size with the last one.
Without an interruption no command is taken for data, and `LoadInv` adds that what the
host believes to be loaded is loaded (`LoadedIs`) and that a waiting handler finds the
packet buffer as it left it (`OneWaits`). `FlashInv` adds the same for what the host believes to be
flashed, while the reply is under way and after it (`FlashReply`, `BeliefIs`);
`FlashEffect` is where the header, the page arithmetic (`PaddedIs`) and the results of
the writes come together, and where `AsTold` grants `movi` what its OKAY does not say.

*Ymodem.* Block numbers repeat and replies have none, so that what keeps the ends together
is that only one item is ever on the way (`OneAtATime`): the sender is at the block
expected or at the one accepted last, and an ACK is on the way only in the second
case (`InRead`). A block that is repeated on the last try would be copied again.
`TriesPaid` excludes it by an account: since a block was accepted, each fault can have
cost two tries, one for the repeated block and one for the question before it, less
what the latest fault has not cost yet. `LengthAgrees` and the lemmas about `CutPadding`
say that the units kept are those that the file has left; the units themselves
follow from `InOrder`.

*NetDefrag.* The list of holes lies in the bytes that are missing, and its links lead
through blocks that data may overwrite. `IndInv` states that there is *some* set of
blocks, linked both ways in their order (`Linked`), whose gaps do not touch (`Gaps`) and
together are exactly the bytes missing (`Spans`); blocks outside the set may hold
old descriptors. Filling a hole removes it, shortens it, moves it or splits it
(`Remove`, `Cut`, `Move`, `Split`): each takes the fragment's bytes out of those missing
and writes to missing blocks only. So the first hole that reaches into a fragment is
the one hole that holds all of it (`Fills`), and a fragment that came before meets a
hole behind it or none and changes nothing (`Again`). The walk along the list is a
recursive function. Every descriptor, old ones included, points forward (`Forward`);
a walk that is not defined, or skips a hole, would have a first or a last block at
which it goes wrong, and well-foundedness gives that block where induction over
the list is not available.

### Only model-checked

Liveness (`Terminates`, `Completes`, `CommandsAnswered`), which is out of the prover's reach;
the two violations; and everything about `EnvAuto`. `getenv` and `Entries` walk the same
strings, and that the two walks agree for every block is an induction over the
block; that the arguments of `setenv` fit the length that `Overflows` computes, and so
that the block keeps its size, is one over the arguments (`Joined`). `GetenvFinds`, the
refinement of `EnvVars` and `SavedSurvives` rest on them.

## Not modelled

The parts with the status `not_modelled` in `PROJECT.json` and the reasons given
there: in short, register-level drivers and board code (pure I/O), the command
line (a straight line), and third-party code taken over unchanged. BOOTP, DHCP,
RARP, DNS and SNTP are further request-and-answer protocols over the loop that
`NetLoop` models, and `sdfuse` is a second client of the handler that `Fastboot` models.
Of the modelled parts: overlapping fragments, the raw NAND paths of `env_auto.c` (not
built for the board), `loads` and `loadb`, the USB control endpoint, and the side
effects of setting `ipaddr`, `loadaddr` and `bootfile`. Most of the repository belongs to
other boards and processors.

## Plan

In order of importance:

1. Environment stores: abstract store, NOR, NAND, refinement and proofs. *Done.*
2. TFTP against an unreliable network. *Done,* and proved without wrap; next a proof of
   `BlocksInPlace` across wraps for a server that does not repeat blocks.
3. Fastboot. *Done,* and proved; next `sdfuse` as a second client of `rx_handler` and the
   interrupt register of the USB layer (`FBOOT_USBD_CLEAR_IRQ`).
4. The network loop. *Done* for tftp and ping, and proved; next BOOTP/DHCP as a further
   protocol with transaction numbers and late answers.
5. The variables and the board's own store: `EnvVars`, `EnvAuto`, refinement. *Done.*
6. NFS. *Done,* and proved.
7. IP reassembly. *Done* for fragments that do not overlap, and proved.
8. YMODEM. *Done,* and proved; next `loadb` (Kermit).
9. Partition arithmetic of `set_partition_table_sdmmc` and `cmd_mmc_fdisk.c`: operators with
   32-bit wrap, checked at the boundaries.
