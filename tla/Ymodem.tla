------------------------------- MODULE Ymodem -------------------------------
(***************************************************************************)
(* common/xyzModem.c and load_serial_ymodem of common/cmd_load.c: "loady", *)
(* the receiver of a file that a terminal program sends over the console.  *)
(*                                                                         *)
(* The file is the units 0..FileSize-1, a unit being several characters    *)
(* that do not look like padding.  A block carries SOH_LEN or STX_LEN      *)
(* units, padded with ^Z (Pad); the information block carries Text.  So    *)
(* padding is never shorter than the three ^Z that are looked for before   *)
(* it is cut; in the code one or two ^Z at the end of a file without a     *)
(* length stay.                                                            *)
(* The receiver waits for the line only in xyzModem_get_hdr: a step is     *)
(* what it does from the result of one get_hdr up to the next one.  So     *)
(* tx_ack, the acknowledgement get_hdr sends on entry, is part of the step *)
(* that sets it, and xyz.len is 0 between steps but for the -1 that an     *)
(* error leaves behind (StreamFails).                                      *)
(***************************************************************************)
EXTENDS Naturals, Sequences

CONSTANTS
    FileSize,             \* units in the file
    SOH_LEN, STX_LEN,     \* units in a short and a long block: 128 and 1024 bytes
    BLK_MOD,              \* block numbers are a byte: 256 in the code
    EOT,                  \* the block number that is also the EOT character: 4
    MAX_RETRIES,          \* xyzModem_MAX_RETRIES: 20
    MAX_RETRIES_WITH_CRC, \* xyzModem_MAX_RETRIES_WITH_CRC: 10
    Headers,              \* what senders there are: "length", "nolength", "none"
    Noise,                \* what the line may do to a block: "cksum", "frame", "start"
    SenderTries,          \* times the sender sends a block before it gives up
    SenderStops,          \* the operator may cancel or kill the sender
    Prompt,               \* the sender answers before the receiver's time-out
    MaxFaults             \* bound: blocks and characters lost or damaged

ASSUME YmodemAssumption ==
    /\ FileSize \in Nat
    /\ SOH_LEN \in Nat \ {0} /\ STX_LEN \in Nat /\ SOH_LEN <= STX_LEN
    /\ BLK_MOD \in Nat /\ BLK_MOD >= 3 /\ EOT \in Nat
    /\ MAX_RETRIES \in Nat \ {0} /\ MAX_RETRIES_WITH_CRC \in Nat
    /\ Headers \subseteq {"length", "nolength", "none"}
    /\ Noise \subseteq {"cksum", "frame", "start"}
    /\ SenderTries \in Nat \ {0} /\ MaxFaults \in Nat
    /\ {SenderStops, Prompt} \subseteq BOOLEAN

VARIABLES
    phase,          \* "open", "read" or "final", the get_hdr call waited in; then
                    \* "done", or "undefined" once memory is overwritten at random
    retries,        \* tries left after this one
    crc_retries, crc_mode,
    next_blk,
    file_length, read_length,
    at_eof,
    ymodemBuf,      \* what xyzModem_stream_read has put into the caller's buffer
    memory,         \* what load_serial_ymodem has stored
    header,         \* the sender's kind, of Headers
    sender,         \* the sender: its state, the item it sends, its place in the file
    toReceiver, toSender,
    faults          \* faults so far

receiverVars == <<phase, retries, crc_retries, crc_mode, next_blk, file_length, read_length,
                  at_eof, ymodemBuf, memory>>
vars == <<receiverVars, header, sender, toReceiver, toSender, faults>>

Pad == FileSize
Text == FileSize + 1
Data == {d \in Seq(0..Text) : Len(d) <= STX_LEN}
Block == [type: {"block"}, blk: 0..BLK_MOD - 1, data: Data, crc: BOOLEAN]
Control == [type: {"eot", "can"}]
Sender == [state: {"off", "start", "wait", "waitC", "done", "gone"},
           item: {"header", "data", "eot", "final"},
           blk: 0..BLK_MOD - 1, pos: Nat, size: {SOH_LEN, STX_LEN},
           tries: 0..SenderTries, crc: BOOLEAN]

\* Types; in particular the chunk buffer never holds a whole chunk between two steps,
\* and the try counters never pass zero.
TypeOK ==
    /\ phase \in {"open", "read", "final", "done", "undefined"}
    /\ retries \in 0..MAX_RETRIES - 1
    /\ crc_retries \in 0..MAX_RETRIES_WITH_CRC
    /\ crc_mode \in BOOLEAN /\ at_eof \in BOOLEAN
    /\ next_blk \in 0..BLK_MOD - 1
    /\ file_length \in {0, FileSize}
    /\ read_length \in Nat
    /\ ymodemBuf \in Seq(0..Text) /\ Len(ymodemBuf) < STX_LEN
    /\ memory \in Seq(0..Text)
    /\ header \in Headers
    /\ sender \in Sender
    /\ toReceiver \in Seq(Block \cup Control)
    /\ toSender \in Seq({"ACK", "NAK", "C"})
    /\ faults \in 0..MaxFaults
-----------------------------------------------------------------------------
(* The receiver. *)

Listening == sender.state \in {"start", "wait", "waitC"}
Reply(chars) == toSender' = IF Listening THEN toSender \o chars ELSE toSender

\* Mutant: the bound of the start-up is used for every block.
FreshTriesWithCrc == MAX_RETRIES_WITH_CRC - 1

\* The tries for one block, the first one taken.
FreshTries == MAX_RETRIES - 1

CrcChar(crc) == IF crc THEN "C" ELSE "NAK"

\* xyzModem_get_hdr: the result for what came over the line.  A block of the other
\* check mode is one character short or does not match; one without its start is
\* not found, but for the one whose number then reads as EOT.
GetHdr(m, damage) ==
    CASE m.type = "eot" -> "eof"
      [] m.type = "can" -> "cancel"
      [] damage \in {"cksum", "frame"} -> damage
      [] damage = "start" -> IF m.blk = EOT THEN "eof" ELSE "timeout"
      [] OTHER -> IF m.crc = crc_mode THEN "ok" ELSE IF crc_mode THEN "timeout" ELSE "cksum"

\* What get_hdr itself has sent.
Acked(stat) == IF stat = "eof" THEN <<"ACK">> ELSE <<>>

\* The units of an accepted block that are kept: without a length, those before the
\* padding at its end; with one, as many as the length still allows.
CutPadding(data) ==
    IF file_length = 0
      THEN LET len == CHOOSE n \in 0..Len(data) :
                        /\ \A i \in n + 1..Len(data) : data[i] = Pad
                        /\ n = 0 \/ data[n] # Pad
           IN  SubSeq(data, 1, len)
      ELSE LET over == IF read_length + Len(data) > file_length
                         THEN read_length + Len(data) - file_length ELSE 0
           IN  SubSeq(data, 1, Len(data) - over)

\* The copying loop of xyzModem_stream_read and the loop of load_serial_ymodem: a
\* full buffer goes to memory, the rest of the block into the next one.
Deliver(data) ==
    LET all == ymodemBuf \o data
    IN  IF Len(all) < STX_LEN
          THEN ymodemBuf' = all /\ UNCHANGED memory
          ELSE /\ memory' = memory \o SubSeq(all, 1, STX_LEN)
               /\ ymodemBuf' = SubSeq(all, STX_LEN + 1, Len(all))

\* Mutant: the units read since the last full buffer are not counted at the end.
FinishDropping ==
    /\ phase' = "done"
    /\ ymodemBuf' = <<>>
    /\ toReceiver' = <<>>
    /\ UNCHANGED memory

\* xyzModem_stream_read ends for good with what it has: load_serial_ymodem stores it,
\* the next call returns 0, and xyzModem_stream_terminate empties the line.
Finish ==
    /\ phase' = "done"
    /\ memory' = memory \o ymodemBuf
    /\ ymodemBuf' = <<>>
    /\ toReceiver' = <<>>

\* stat < 0: xyz.len = -1 and what was read is returned.  If it is nothing, the load
\* ends.  If not, load_serial_ymodem stores it and calls again, and the next
\* xyzModem_stream_read takes the -1 for a length and copies 2^32 - 1 bytes.
StreamFails(rest) ==
    IF ymodemBuf = <<>>
      THEN Finish
      ELSE /\ phase' = "undefined"
           /\ memory' = memory \o ymodemBuf
           /\ ymodemBuf' = <<>>
           /\ toReceiver' = rest

\* Mutant: tx_ack is not reset, so that every question is preceded by an ACK.
TryAgainAcks(rest) ==
    /\ Reply(<<"ACK", CrcChar(crc_mode)>>)
    /\ IF retries = 0
         THEN StreamFails(rest) /\ UNCHANGED retries
         ELSE /\ retries' = retries - 1
              /\ toReceiver' = rest
              /\ UNCHANGED <<phase, memory, ymodemBuf>>
    /\ UNCHANGED <<crc_retries, crc_mode, next_blk, file_length, read_length, at_eof>>

\* Mutant: the tries are not counted.
TryAgainForever(rest) ==
    /\ Reply(<<CrcChar(crc_mode)>>)
    /\ toReceiver' = rest
    /\ UNCHANGED <<phase, memory, ymodemBuf, retries, crc_retries, crc_mode, next_blk,
                   file_length, read_length, at_eof>>

\* Ask again, or give up after the last try.
TryAgain(rest) ==
    /\ Reply(<<CrcChar(crc_mode)>>)
    /\ IF retries = 0
         THEN StreamFails(rest) /\ UNCHANGED retries
         ELSE /\ retries' = retries - 1
              /\ toReceiver' = rest
              /\ UNCHANGED <<phase, memory, ymodemBuf>>
    /\ UNCHANGED <<crc_retries, crc_mode, next_blk, file_length, read_length, at_eof>>

\* xyzModem_stream_open after a get_hdr with result stat.
StreamOpen(stat, m, rest) ==
    /\ phase = "open"
    /\ IF stat = "ok"
         THEN /\ file_length' = IF m.blk = 0 /\ header = "length" THEN FileSize ELSE 0
              /\ next_blk' = 1
              /\ phase' = "read" /\ retries' = FreshTries
              /\ Reply(IF m.blk = 0 THEN <<"ACK">> ELSE <<>>)
              /\ toReceiver' = rest
              /\ UNCHANGED <<crc_retries, crc_mode>>
         ELSE /\ IF stat = "timeout"
                   THEN /\ crc_retries' = IF crc_retries = 0 THEN 0 ELSE crc_retries - 1
                        /\ crc_mode' = (crc_retries' > 0 /\ crc_mode)
                        /\ Reply(<<CrcChar(crc_mode')>>)
                   ELSE Reply(Acked(stat)) /\ UNCHANGED <<crc_retries, crc_mode>>
              /\ IF retries = 0 \/ stat = "cancel"
                   THEN phase' = "done" /\ toReceiver' = <<>> /\ UNCHANGED retries
                   ELSE /\ retries' = retries - 1
                        /\ toReceiver' = rest /\ UNCHANGED phase
              /\ UNCHANGED <<next_blk, file_length>>
    /\ UNCHANGED <<read_length, at_eof, ymodemBuf, memory>>

\* The block expected: keep it, copy it, acknowledge it.
AcceptBlock(m, rest) ==
    /\ m.blk = next_blk
    /\ next_blk' = (next_blk + 1) % BLK_MOD
    /\ Deliver(CutPadding(m.data))
    /\ read_length' = IF file_length = 0 THEN 0 ELSE read_length + Len(m.data)
    /\ Reply(<<"ACK">>)
    /\ retries' = FreshTries
    /\ toReceiver' = rest
    /\ UNCHANGED <<phase, crc_retries, crc_mode, file_length, at_eof>>

\* Mutant: a repeated block leaves the loop like a new one.
RepeatedBlockTaken(m, rest) ==
    /\ m.blk # next_blk /\ (m.blk + 1) % BLK_MOD = next_blk
    /\ Reply(<<"ACK">>)
    /\ toReceiver' = rest
    /\ Deliver(CutPadding(m.data)) /\ retries' = FreshTries
    /\ UNCHANGED <<phase, crc_retries, crc_mode, next_blk, file_length, read_length, at_eof>>

\* The last block again: acknowledge it again and wait on; but after the last try
\* stat is 0 and xyz.len the length of this block, which is copied a second time.
RepeatedBlock(m, rest) ==
    /\ m.blk # next_blk /\ (m.blk + 1) % BLK_MOD = next_blk
    /\ Reply(<<"ACK">>)
    /\ toReceiver' = rest
    /\ IF retries = 0
         THEN Deliver(m.data) /\ retries' = FreshTries
         ELSE retries' = retries - 1 /\ UNCHANGED <<memory, ymodemBuf>>
    /\ UNCHANGED <<phase, crc_retries, crc_mode, next_blk, file_length, read_length, at_eof>>

\* The sender has cancelled.
Cancelled(rest) ==
    /\ StreamFails(rest)
    /\ UNCHANGED <<toSender, retries, crc_retries, crc_mode, next_blk, file_length,
                   read_length, at_eof>>

\* EOT, which get_hdr has acknowledged: acknowledge it again and ask for the final
\* information block.
EndOfFile(rest) ==
    /\ phase' = "final"
    /\ Reply(<<"ACK", "ACK", CrcChar(crc_mode)>>)
    /\ toReceiver' = rest
    /\ UNCHANGED <<retries, crc_retries, crc_mode, next_blk, file_length, read_length,
                   at_eof, ymodemBuf, memory>>

\* xyzModem_stream_read after a get_hdr with result stat; what is not a block in
\* sequence is asked for again.
StreamRead(stat, m, rest) ==
    /\ phase = "read"
    /\ \/ stat = "ok" /\ AcceptBlock(m, rest)
       \/ stat = "ok" /\ RepeatedBlock(m, rest)
       \/ stat = "cancel" /\ Cancelled(rest)
       \/ stat = "eof" /\ EndOfFile(rest)
       \/ /\ stat \notin {"cancel", "eof"}
          /\ stat = "ok" => next_blk \notin {m.blk, (m.blk + 1) % BLK_MOD}
          /\ TryAgain(rest)

\* xyzModem_stream_read after the get_hdr for the final information block, whatever
\* its result.
FinalHeader(stat) ==
    /\ phase = "final"
    /\ Reply(Acked(stat) \o <<"ACK">>)
    /\ at_eof' = TRUE
    /\ Finish
    /\ UNCHANGED <<retries, crc_retries, crc_mode, next_blk, file_length, read_length>>

Result(stat, m, rest) ==
    StreamOpen(stat, m, rest) \/ StreamRead(stat, m, rest) \/ FinalHeader(stat)

Receive ==
    /\ toReceiver # <<>>
    /\ LET m == Head(toReceiver)
       IN  \E damage \in {"none"} \cup
                (IF m.type = "block" /\ faults < MaxFaults THEN Noise ELSE {}) :
             LET stat == GetHdr(m, damage)
             IN  /\ faults' = IF damage = "none" THEN faults ELSE faults + 1
                 /\ Result(stat, m, IF stat = "frame" THEN <<>> ELSE Tail(toReceiver))
    /\ UNCHANGED <<header, sender>>

\* Nothing came for xyzModem_CHAR_TIMEOUT.
Timeout ==
    /\ toReceiver = <<>>
    /\ Prompt => toSender = <<>>
    /\ Result("timeout", [type |-> "eot"], <<>>)
    /\ UNCHANGED <<header, sender, faults>>
-----------------------------------------------------------------------------
(* The sender, a terminal program: one item at a time, sent again until it is *)
(* acknowledged.  Without an information block (XMODEM) it starts with data.  *)

Min2(a, b) == IF a < b THEN a ELSE b
Units(pos, size) == [i \in 1..size |-> Min2(pos + i - 1, Pad)]

Item(s) ==
    IF s.item = "eot"
      THEN [type |-> "eot"]
      ELSE [type |-> "block", crc |-> s.crc,
            blk |-> IF s.item = "data" THEN s.blk ELSE 0,
            data |-> IF s.item = "data" THEN Units(s.pos, s.size) ELSE <<Text>>]

\* The item after the current one, with any block size.
NextItems(s) ==
    LET pos == IF s.item = "data" THEN Min2(s.pos + s.size, FileSize) ELSE s.pos
        next == [s EXCEPT !.pos = pos, !.tries = 1, !.state = "wait",
                          !.blk = (s.blk + 1) % BLK_MOD]
    IN  IF s.item = "eot"
          THEN {[next EXCEPT !.item = "final"]}
          ELSE IF pos = FileSize
                 THEN {[next EXCEPT !.item = "eot"]}
                 ELSE {[next EXCEPT !.item = "data", !.size = size] : size \in {SOH_LEN, STX_LEN}}

FirstItems(s) ==
    IF header = "none"
      THEN NextItems([s EXCEPT !.item = "header"])
      ELSE {[s EXCEPT !.item = "header", !.state = "wait", !.tries = 1]}

Transmit(s) == sender' = s /\ toReceiver' = Append(toReceiver, Item(s))

GiveUp == /\ sender' = [sender EXCEPT !.state = "gone"]
          /\ toReceiver' = Append(toReceiver, [type |-> "can"])

Resend(crc) == IF sender.tries < SenderTries
                 THEN Transmit([sender EXCEPT !.tries = @ + 1, !.crc = crc])
                 ELSE GiveUp

\* The operator starts the sender, which takes no notice of what was sent before.
StartSender ==
    /\ sender.state = "off"
    /\ sender' = [sender EXCEPT !.state = "start"]
    /\ UNCHANGED <<receiverVars, header, toReceiver, toSender, faults>>

\* The first request: begin with the information block, or with the file.
BeginFile(c) ==
    /\ sender.state = "start" /\ c # "ACK"
    /\ \E s \in FirstItems([sender EXCEPT !.crc = (c = "C")]) : Transmit(s)

\* An acknowledgement, or a request for what follows: go on with the next item.
SendNext(c) ==
    /\ \/ sender.state = "waitC" /\ c # "ACK"
       \/ sender.state = "wait" /\ c = "ACK" /\ sender.item \in {"header", "data"}
    /\ \E s \in NextItems(sender) : Transmit(s)

SendAgain(c) ==
    /\ sender.state = "wait" /\ c # "ACK"
    /\ Resend(sender.crc \/ c = "C")

\* An acknowledgement after which the sender waits for a request, or is done.
AwaitRequest(c) ==
    /\ sender.state = "wait" /\ c = "ACK" /\ sender.item # "data"
    /\ sender' = [sender EXCEPT !.state =
                     IF sender.item = "final" \/ (sender.item = "eot" /\ header = "none")
                       THEN "done" ELSE "waitC"]
    /\ UNCHANGED toReceiver

Ignore(c) ==
    /\ sender.state \in {"start", "waitC"} => c = "ACK"
    /\ sender.state # "wait"
    /\ UNCHANGED <<sender, toReceiver>>

SenderHears ==
    /\ toSender # <<>>
    /\ LET c == Head(toSender)
       IN  BeginFile(c) \/ SendNext(c) \/ SendAgain(c) \/ AwaitRequest(c) \/ Ignore(c)
    /\ toSender' = Tail(toSender)
    /\ UNCHANGED <<receiverVars, header, faults>>

SenderTimeout ==
    /\ sender.state = "wait"
    /\ toSender = <<>> /\ toReceiver = <<>>
    /\ Resend(sender.crc)
    /\ UNCHANGED <<receiverVars, header, toSender, faults>>

\* The operator cancels, which sends CAN characters, or kills the sender.
StopSender ==
    /\ SenderStops /\ Listening
    /\ \/ GiveUp
       \/ sender' = [sender EXCEPT !.state = "gone"] /\ UNCHANGED toReceiver
    /\ UNCHANGED <<receiverVars, header, toSender, faults>>

\* The line loses something.
Lose ==
    /\ faults < MaxFaults /\ faults' = faults + 1
    /\ \/ toReceiver # <<>> /\ toReceiver' = Tail(toReceiver) /\ UNCHANGED toSender
       \/ toSender # <<>> /\ toSender' = Tail(toSender) /\ UNCHANGED toReceiver
    /\ UNCHANGED <<receiverVars, header, sender>>
-----------------------------------------------------------------------------
\* xyzModem_stream_open up to its first get_hdr; the first 'C' finds no sender yet.
Init ==
    /\ phase = "open" /\ retries = MAX_RETRIES - 1
    /\ crc_retries = MAX_RETRIES_WITH_CRC /\ crc_mode = TRUE
    /\ next_blk = 0 /\ file_length = 0 /\ read_length = 0 /\ at_eof = FALSE
    /\ ymodemBuf = <<>> /\ memory = <<>>
    /\ header \in Headers
    /\ sender = [state |-> "off", item |-> "header", blk |-> 0, pos |-> 0,
                 size |-> SOH_LEN, tries |-> 0, crc |-> TRUE]
    /\ toReceiver = <<>> /\ toSender = <<>>
    /\ faults = 0

\* loady is over; a sender may still be waiting.
Over == phase \in {"done", "undefined"} /\ UNCHANGED vars

Next ==
    \/ Receive \/ Timeout
    \/ StartSender \/ SenderHears \/ SenderTimeout \/ StopSender
    \/ Lose
    \/ Over

\* The polling loops of the receiver run whatever the sender does, and a sender that
\* was started and not stopped handles what it receives.
Fairness ==
    /\ WF_vars(Receive) /\ WF_vars(Timeout)
    /\ WF_vars(SenderHears) /\ WF_vars(SenderTimeout)

Spec == Init /\ [][Next]_vars /\ Fairness
-----------------------------------------------------------------------------
(* Properties. *)

Received == memory \o ymodemBuf

\* What loady has received is the beginning of the file, every unit once and in
\* order, without padding and without the information block, although blocks are
\* repeated, damaged and lost, acknowledgements are lost and the numbers wrap: the
\* tests on next_blk and the cutting of xyzModem_stream_read.
StoredIsPrefix ==
    phase # "undefined" =>
        Len(Received) <= FileSize /\ \A i \in 1..Len(Received) : Received[i] = i - 1

\* The sender goes on to the next block only when the one before has been copied: an
\* acknowledgement without a number is never taken for that of another block.
SenderNeverAhead ==
    phase # "undefined" => sender.pos <= Len(Received)

\* A load that ended with EOT has stored the whole file.
EofIsComplete ==
    phase = "done" /\ at_eof => Len(memory) = FileSize

\* loady ends, whether the sender goes on, cancels or stops and whatever is damaged or
\* lost, on a line that is silent when nobody sends: every get_hdr then has a result,
\* and results that bring nothing new cost tries.
Terminates == <>(phase \in {"done", "undefined"})

\* Once the information block has come, and with fewer faults than retries, a load
\* whose sender does not give up ends with the whole file in memory.
Completes ==
    [](sender.state # "gone") => (phase = "read" ~> (phase = "done" /\ Len(memory) = FileSize))
=============================================================================
