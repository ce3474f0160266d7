-------------------------------- MODULE Tftp --------------------------------
(***************************************************************************)
(* net/tftp.c: the TFTP client of tftpboot, against a server and a network *)
(* that loses, delays and, if Reorder holds, reorders packets.  Duplicates *)
(* come from the retransmissions of both ends.                             *)
(*                                                                         *)
(* A file is FileSize units of data, unit u being the one at offset u.  It *)
(* travels in blocks of TFTP_BLOCK_SIZE units, or of TftpBlkSizeOption if  *)
(* the server honours that option; the first short block ends it.          *)
(* Messages to the client carry, besides their 16-bit block number, the    *)
(* number without the wrap and the block size used by the server, which    *)
(* the client cannot see: they stand for the units in the packet.          *)
(***************************************************************************)
EXTENDS Naturals, Sequences, FiniteSets

CONSTANTS
    FileSize,            \* the size of the file
    TFTP_BLOCK_SIZE,     \* the default block size: 512 in the code
    TftpBlkSizeOption,   \* the block size asked for: 1468 in the code
    SEQUENCE_SIZE,       \* TFTP_SEQUENCE_SIZE: 2^16 in the code
    TIMEOUT_COUNT,       \* time-outs before starting again: 10 in the code
    RRQ_TIMEOUT_COUNT,   \* TftpRRQTimeoutCountMax
    NetRetry,            \* the count "netretry" gives; the first attempt is number 1
    Ports,               \* the ports TftpStart may pick
    PortsDiffer,         \* the pseudo-random port of a new start is a new one
    Oack,                \* the server honours options
    ErrorCodes,          \* subset of {"final", "again"}: errors it may answer with
    ServerResends,       \* the server has a retransmission timer
    Reorder,             \* packets may overtake each other
    MaxSessions,         \* bound: sessions the server opens
    MaxInFlight          \* bound: packets under way in each direction

ASSUME TftpAssumption ==
    /\ FileSize \in Nat
    /\ TFTP_BLOCK_SIZE \in Nat \ {0} /\ TftpBlkSizeOption \in Nat \ {0}
    /\ SEQUENCE_SIZE \in Nat /\ SEQUENCE_SIZE >= 2
    /\ TIMEOUT_COUNT \in Nat /\ RRQ_TIMEOUT_COUNT \in Nat /\ NetRetry \in Nat
    /\ Ports # {}
    /\ ErrorCodes \subseteq {"final", "again"}
    /\ {PortsDiffer, Oack, ServerResends, Reorder} \subseteq BOOLEAN
    /\ MaxSessions \in Nat \ {0} /\ MaxInFlight \in Nat \ {0}

WELL_KNOWN_PORT == 0               \* 69; the server's sessions are 1..MaxSessions
ServerPorts == 1..MaxSessions
BlkSizes == {TFTP_BLOCK_SIZE, TftpBlkSizeOption}
Wire(b) == b % SEQUENCE_SIZE       \* the block number as it is sent
LastBlock(size) == FileSize \div size + 1
Units(b, size) == {u \in 0..FileSize - 1 : u \div size = b - 1}

VARIABLES
    TftpState,             \* "RRQ", "OACK" or "DATA"
    TftpServerPort, TftpOurPort,
    TftpBlock,             \* block number last received
    TftpLastBlock,         \* block number last stored
    TftpBlockWrapOffset,   \* offset due to wrapped block numbers
    TftpBlkSize,
    TftpTimeoutCount, TftpTimeoutCountMax,
    packetHandler,         \* "tftp", or "ignore" while waiting to start again
    NetState,              \* "CONTINUE", "SUCCESS" or "FAIL"
    NetTryCount,
    memory,                \* what was stored: offset -> unit of the file
    NetBootFileXferSize,
    sessions,              \* the server's sessions, one per read request
    toServer, toClient     \* packets under way

clientVars == <<TftpState, TftpServerPort, TftpOurPort, TftpBlock, TftpLastBlock,
                TftpBlockWrapOffset, TftpBlkSize, TftpTimeoutCount,
                TftpTimeoutCountMax, packetHandler, NetState, NetTryCount, memory, NetBootFileXferSize>>
vars == <<clientVars, sessions, toServer, toClient>>
timerVars == <<TftpTimeoutCount, TftpTimeoutCountMax>>
fileVars == <<memory, NetBootFileXferSize>>

ClientMsg == [type: {"rrq", "ack"}, sport: Ports, dport: ServerPorts \cup {WELL_KNOWN_PORT},
              block: 0..SEQUENCE_SIZE - 1]
ServerMsg == [type: {"oack", "data", "final", "again"}, sport: ServerPorts, dport: Ports,
              block: 0..SEQUENCE_SIZE - 1, number: Nat, size: BlkSizes]
\* A session has sent its option acknowledgement (sent = 0) or block sent of the
\* file, and is over once the last block is acknowledged.
Session == [port: Ports, size: BlkSizes, sent: Nat, over: BOOLEAN]

TypeOK ==
    /\ TftpState \in {"RRQ", "OACK", "DATA"}
    /\ TftpServerPort \in ServerPorts \cup {WELL_KNOWN_PORT}
    /\ TftpOurPort \in Ports
    /\ TftpBlock \in 0..SEQUENCE_SIZE - 1
    /\ TftpLastBlock \in 0..SEQUENCE_SIZE - 1
    /\ TftpBlockWrapOffset \in Nat
    /\ TftpBlkSize \in BlkSizes
    /\ TftpTimeoutCount \in 0..TIMEOUT_COUNT + RRQ_TIMEOUT_COUNT + 1
    /\ TftpTimeoutCountMax \in {TIMEOUT_COUNT, RRQ_TIMEOUT_COUNT}
    /\ packetHandler \in {"tftp", "ignore"}
    /\ NetState \in {"CONTINUE", "SUCCESS", "FAIL"}
    /\ NetTryCount \in 1..NetRetry + 1
    /\ DOMAIN memory \subseteq Nat /\ \A o \in DOMAIN memory : memory[o] \in 0..FileSize - 1
    /\ NetBootFileXferSize \in Nat
    /\ sessions \in Seq(Session) /\ Len(sessions) <= MaxSessions
    /\ toServer \in Seq(ClientMsg) /\ Len(toServer) <= MaxInFlight
    /\ toClient \in Seq(ServerMsg) /\ Len(toClient) <= MaxInFlight
-----------------------------------------------------------------------------
(* The network.  A packet that does not fit is lost, as any packet may be. *)

Put(channel, m) == IF Len(channel) < MaxInFlight THEN Append(channel, m) ELSE channel

Deliverable(channel) ==
    {i \in 1..Len(channel) : Reorder \/ i = 1}

Without(channel, i) ==
    SubSeq(channel, 1, i - 1) \o SubSeq(channel, i + 1, Len(channel))

Lose ==
    \/ /\ \E i \in 1..Len(toServer) : toServer' = Without(toServer, i)
       /\ UNCHANGED <<clientVars, sessions, toClient>>
    \/ /\ \E i \in 1..Len(toClient) : toClient' = Without(toClient, i)
       /\ UNCHANGED <<clientVars, sessions, toServer>>
-----------------------------------------------------------------------------
(* The client. *)

\* TftpSend in the state given: the request, or an acknowledgement of TftpBlock.
TftpSend(state, sport, dport, block) ==
    toServer' = Put(toServer,
                    [type |-> IF state = "RRQ" THEN "rrq" ELSE "ack",
                     sport |-> sport, dport |-> dport, block |-> block])

\* TftpStart: NetLoop has reset the size; the memory is whatever it was.
TftpStart(port) ==
    /\ TftpTimeoutCountMax' = RRQ_TIMEOUT_COUNT
    /\ packetHandler' = "tftp"
    /\ TftpServerPort' = WELL_KNOWN_PORT
    /\ TftpTimeoutCount' = 0
    /\ TftpState' = "RRQ"
    /\ TftpOurPort' = port
    /\ TftpBlock' = 0
    /\ TftpBlkSize' = TFTP_BLOCK_SIZE
    /\ NetBootFileXferSize' = 0
    /\ TftpSend("RRQ", port, WELL_KNOWN_PORT, 0)
    /\ UNCHANGED <<TftpLastBlock, TftpBlockWrapOffset, memory, NetState, NetTryCount>>

Init ==
    /\ TftpTimeoutCountMax = RRQ_TIMEOUT_COUNT
    /\ packetHandler = "tftp"
    /\ TftpServerPort = WELL_KNOWN_PORT
    /\ TftpTimeoutCount = 0
    /\ TftpState = "RRQ"
    /\ TftpOurPort \in Ports
    /\ TftpBlock = 0 /\ TftpLastBlock = 0 /\ TftpBlockWrapOffset = 0
    /\ TftpBlkSize = TFTP_BLOCK_SIZE
    /\ NetState = "CONTINUE" /\ NetTryCount = 1
    /\ memory = <<>> /\ NetBootFileXferSize = 0
    /\ sessions = <<>>
    /\ toServer = <<[type |-> "rrq", sport |-> TftpOurPort,
                     dport |-> WELL_KNOWN_PORT, block |-> 0]>>
    /\ toClient = <<>>

\* Mutant: the attempts are compared with the limit, and never counted.
NetStartAgainUncounted ==
    IF NetTryCount >= NetRetry
    THEN NetState' = "FAIL" /\ UNCHANGED <<NetTryCount, packetHandler>>
    ELSE packetHandler' = "ignore" /\ UNCHANGED <<NetTryCount, NetState>>

\* Mutant: the handler is left in place while waiting to start again.
NetStartAgainHandling ==
    IF NetTryCount >= NetRetry
    THEN NetState' = "FAIL" /\ UNCHANGED <<NetTryCount, packetHandler>>
    ELSE NetTryCount' = NetTryCount + 1 /\ UNCHANGED <<NetState, packetHandler>>

\* NetStartAgain with one network device: give up, or ignore every packet until
\* the 10 s of startAgainTimeout are over.
NetStartAgain ==
    IF NetTryCount >= NetRetry
    THEN NetState' = "FAIL" /\ UNCHANGED <<NetTryCount, packetHandler>>
    ELSE /\ NetTryCount' = NetTryCount + 1
         /\ packetHandler' = "ignore"
         /\ UNCHANGED NetState

\* startAgainTimeout: NETLOOP_RESTART, and NetLoop starts the protocol afresh.
StartAgainTimeout ==
    /\ NetState = "CONTINUE" /\ packetHandler = "ignore"
    /\ \E port \in Ports : (PortsDiffer => port # TftpOurPort) /\ TftpStart(port)
    /\ UNCHANGED <<sessions, toClient>>

TftpTimeout ==
    /\ NetState = "CONTINUE" /\ packetHandler = "tftp"
    /\ TftpTimeoutCount' = TftpTimeoutCount + 1
    /\ IF TftpTimeoutCount' > TftpTimeoutCountMax
       THEN NetStartAgain /\ UNCHANGED toServer
       ELSE /\ TftpSend(TftpState, TftpOurPort, TftpServerPort, TftpBlock)
            /\ UNCHANGED <<NetState, NetTryCount, packetHandler>>
    /\ UNCHANGED <<TftpState, TftpServerPort, TftpOurPort, TftpBlock, TftpLastBlock,
                   TftpBlockWrapOffset, TftpBlkSize, TftpTimeoutCountMax, fileVars,
                   sessions, toClient>>

\* Mutant: block numbers taken to start at 0.
StoreBlockFromZero(m, wrapOffset) ==
    LET offset  == wrapOffset + m.block * TftpBlkSize
        newsize == offset + Cardinality(Units(m.number, m.size))
    IN  /\ memory' = [o \in DOMAIN memory \cup offset..newsize - 1 |->
                         IF o < offset \/ o >= newsize THEN memory[o]
                         ELSE o - offset + (m.number - 1) * m.size]
        /\ NetBootFileXferSize' = IF NetBootFileXferSize < newsize THEN newsize
                                  ELSE NetBootFileXferSize

\* Mutant: the size counts what was received, repeated blocks included.
StoreBlockCounting(m, wrapOffset) ==
    LET offset  == wrapOffset + m.block * TftpBlkSize - TftpBlkSize
        newsize == offset + Cardinality(Units(m.number, m.size))
    IN  /\ memory' = [o \in DOMAIN memory \cup offset..newsize - 1 |->
                         IF o < offset \/ o >= newsize THEN memory[o]
                         ELSE o - offset + (m.number - 1) * m.size]
        /\ NetBootFileXferSize' = newsize - offset + NetBootFileXferSize

\* store_block: the units of m go to the place its block number stands for.  (For
\* block number 0 the 32-bit product and sum wrap to the difference used here.)
StoreBlock(m, wrapOffset) ==
    LET offset  == wrapOffset + m.block * TftpBlkSize - TftpBlkSize
        newsize == offset + Cardinality(Units(m.number, m.size))
    IN  /\ memory' = [o \in DOMAIN memory \cup offset..newsize - 1 |->
                         IF o < offset \/ o >= newsize THEN memory[o]
                         ELSE o - offset + (m.number - 1) * m.size]
        /\ NetBootFileXferSize' = IF NetBootFileXferSize < newsize THEN newsize
                                  ELSE NetBootFileXferSize

\* Mutant: the counter taken to wrap to 1.
CountWrapToOne(block) ==
    IF block = 0 THEN TftpBlockWrapOffset + TftpBlkSize * (SEQUENCE_SIZE - 1)
    ELSE TftpBlockWrapOffset

\* Mutant: no wrap.
CountWrapNever(block) == TftpBlockWrapOffset

\* Block number 0 stands for a wrap of the 16-bit counter.
CountWrap(block) ==
    IF block = 0 THEN TftpBlockWrapOffset + TftpBlkSize * SEQUENCE_SIZE
    ELSE TftpBlockWrapOffset

\* The packet is for our port and, once the server is known, from its port.
Accepts(m) ==
    /\ packetHandler = "tftp"
    /\ m.dport = TftpOurPort
    /\ TftpState # "RRQ" => m.sport = TftpServerPort

\* TftpHandler, TFTP_OACK: whatever the state, the transfer is (again) at its start.
HandleOack(m) ==
    /\ m.type = "oack"
    /\ TftpState' = "OACK"
    /\ TftpServerPort' = m.sport
    /\ TftpBlkSize' = m.size
    /\ TftpSend("OACK", TftpOurPort, m.sport, TftpBlock)
    /\ UNCHANGED <<TftpOurPort, TftpBlock, TftpLastBlock, TftpBlockWrapOffset, timerVars,
                   packetHandler, NetState, NetTryCount, fileVars>>

\* TftpHandler, TFTP_DATA.  Block number 0 is taken for a wrap before anything
\* else is looked at.
HandleData(m) ==
    LET starting   == TftpState \in {"RRQ", "OACK"}
        last       == IF starting THEN 0 ELSE TftpLastBlock
        wrapOffset == IF starting THEN 0 ELSE CountWrap(m.block)
    IN  /\ m.type = "data"
        /\ TftpBlock' = m.block
        /\ TftpState' = "DATA"
        /\ TftpServerPort' = IF starting THEN m.sport ELSE TftpServerPort
        /\ TftpBlockWrapOffset' = wrapOffset
        /\ UNCHANGED <<TftpOurPort, TftpBlkSize, TftpTimeoutCount>>
        /\ \/ /\ starting /\ m.block # 1              \* "First block is not block 1"
              /\ TftpLastBlock' = 0
              /\ NetStartAgain
              /\ UNCHANGED <<TftpTimeoutCountMax, fileVars, toServer>>
           \/ /\ ~(starting /\ m.block # 1)
              /\ m.block = last                       \* "Same block again; ignore it"
              /\ TftpLastBlock' = last
              /\ UNCHANGED <<TftpTimeoutCountMax, NetState, NetTryCount, packetHandler,
                             fileVars, toServer>>
           \/ /\ ~(starting /\ m.block # 1)
              /\ m.block # last
              /\ TftpLastBlock' = m.block
              /\ TftpTimeoutCountMax' = TIMEOUT_COUNT
              /\ StoreBlock(m, wrapOffset)
              /\ TftpSend("DATA", TftpOurPort, TftpServerPort', m.block)
              /\ NetState' = IF Cardinality(Units(m.number, m.size)) < TftpBlkSize
                             THEN "SUCCESS" ELSE NetState
              /\ UNCHANGED <<NetTryCount, packetHandler>>

\* TftpHandler, TFTP_ERROR: file not found and access denied are final.
HandleError(m) ==
    /\ m.type \in {"final", "again"}
    /\ IF m.type = "final"
       THEN NetState' = "FAIL" /\ UNCHANGED <<NetTryCount, packetHandler>>
       ELSE NetStartAgain
    /\ UNCHANGED <<TftpState, TftpServerPort, TftpOurPort, TftpBlock, TftpLastBlock,
                   TftpBlockWrapOffset, TftpBlkSize, timerVars, fileVars, toServer>>

ClientReceive ==
    /\ NetState = "CONTINUE"
    /\ \E i \in Deliverable(toClient) :
          /\ toClient' = Without(toClient, i)
          /\ \/ /\ ~Accepts(toClient[i])
                /\ UNCHANGED <<clientVars, toServer>>
             \/ /\ Accepts(toClient[i])
                /\ \/ HandleOack(toClient[i])
                   \/ HandleData(toClient[i])
                   \/ HandleError(toClient[i])
    /\ UNCHANGED sessions
-----------------------------------------------------------------------------
(* The server. *)

SessionMsg(s, sess) ==
    [type |-> IF sess.sent = 0 THEN "oack" ELSE "data", sport |-> s, dport |-> sess.port,
     block |-> Wire(sess.sent), number |-> sess.sent, size |-> sess.size]

\* A read request, be it a retransmission, opens a session on a port of its own,
\* or is refused.
ServerRequest(m) ==
    LET s    == Len(sessions) + 1
        sess == [port |-> m.sport, over |-> FALSE, sent |-> IF Oack THEN 0 ELSE 1,
                 size |-> IF Oack THEN TftpBlkSizeOption ELSE TFTP_BLOCK_SIZE]
    IN  /\ m.type = "rrq"
        /\ \/ /\ Len(sessions) < MaxSessions
              /\ sessions' = Append(sessions, sess)
              /\ toClient' = Put(toClient, SessionMsg(s, sess))
           \/ /\ Len(sessions) < MaxSessions
              /\ \E code \in ErrorCodes :
                    toClient' = Put(toClient, [type |-> code, sport |-> s,
                                               dport |-> m.sport, block |-> 0,
                                               number |-> 0, size |-> TFTP_BLOCK_SIZE])
              /\ UNCHANGED sessions
           \/ Len(sessions) = MaxSessions /\ UNCHANGED <<sessions, toClient>>

\* The acknowledgement of what a session sent last lets it go on; any other is
\* ignored.
ServerAck(m) ==
    /\ m.type = "ack"
    /\ IF /\ m.dport \in 1..Len(sessions)
          /\ sessions[m.dport].port = m.sport
          /\ ~sessions[m.dport].over
          /\ Wire(sessions[m.dport].sent) = m.block
       THEN LET sess == sessions[m.dport]
                next == IF sess.sent = LastBlock(sess.size) THEN [sess EXCEPT !.over = TRUE]
                        ELSE [sess EXCEPT !.sent = @ + 1]
            IN  /\ sessions' = [sessions EXCEPT ![m.dport] = next]
                /\ toClient' = IF next.over THEN toClient
                               ELSE Put(toClient, SessionMsg(m.dport, next))
       ELSE UNCHANGED <<sessions, toClient>>

ServerReceive ==
    /\ \E i \in Deliverable(toServer) :
          /\ toServer' = Without(toServer, i)
          /\ ServerRequest(toServer[i]) \/ ServerAck(toServer[i])
    /\ UNCHANGED clientVars

ServerTimeout ==
    /\ ServerResends
    /\ NetState = "CONTINUE"
    /\ \E s \in 1..Len(sessions) :
          /\ ~sessions[s].over
          /\ toClient' = Put(toClient, SessionMsg(s, sessions[s]))
          /\ toClient' # toClient
    /\ UNCHANGED <<clientVars, sessions, toServer>>
-----------------------------------------------------------------------------
Next ==
    \/ ClientReceive \/ TftpTimeout \/ StartAgainTimeout
    \/ ServerReceive \/ ServerTimeout
    \/ Lose

Spec == Init /\ [][Next]_vars

\* NetLoop polls for packets; the 10 s wait is not disturbed by anything.
Fairness == /\ WF_vars(ClientReceive)
            /\ WF_vars(ServerReceive)
            /\ WF_vars(StartAgainTimeout)

FairSpec == Spec /\ Fairness
-----------------------------------------------------------------------------
\* Every block stored lies where it belongs, so that nothing is written outside
\* the image and no part of it is overwritten: store_block's offset, made of the
\* 16-bit block number and the wraps counted so far, is the true one.
BlocksInPlace == \A o \in DOMAIN memory : memory[o] = o

\* A transfer reported as successful has the whole file in memory, and the right
\* size goes into "filesize": NETLOOP_SUCCESS is set by the short block alone.
SuccessIsComplete ==
    NetState = "SUCCESS" =>
        /\ \A u \in 0..FileSize - 1 : u \in DOMAIN memory /\ memory[u] = u
        /\ NetBootFileXferSize = FileSize

\* The server is never led past a block that is not stored: whatever TftpSend
\* acknowledges, also from a time-out or for a repeated OACK, is in memory.
ServerNeverAhead ==
    \A s \in 1..Len(sessions) : \A u \in 0..FileSize - 1 :
        u \div sessions[s].size + 1 < sessions[s].sent => u \in DOMAIN memory

\* NetSetTimeout in TftpHandler: a new block starts the timer of TftpTimeout anew.
Rearm == ClientReceive /\ TftpState' = "DATA" /\ toServer' # toServer

\* The timer of TftpTimeout runs out, unless new blocks go on starting it anew.
TimerRuns == WF_vars(TftpTimeout) \/ []<><<Rearm>>_vars

\* With a bound on the retries the command ends, whatever the network does and
\* however often the server repeats itself: repeated packets do not start the timer
\* anew, progress does not reset TftpTimeoutCount, and NetStartAgain counts.
Terminates == TimerRuns => <>(NetState # "CONTINUE")
=============================================================================
