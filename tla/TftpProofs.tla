----------------------------- MODULE TftpProofs -----------------------------
(***************************************************************************)
(* Tftp stores every block in its place, acknowledges only what is stored  *)
(* and reports only complete files as loaded: for files of fewer blocks    *)
(* than there are block numbers, of any size, with any block sizes, limits *)
(* and numbers of sessions and packets, reordered or not.                  *)
(***************************************************************************)
EXTENDS Tftp, FiniteSetTheorems, SequenceTheorems, TLAPS

\* The size of the blocks that the server sends.
ServerSize == IF Oack THEN TftpBlkSizeOption ELSE TFTP_BLOCK_SIZE

\* The file has fewer blocks than there are block numbers.
NoWrap == LastBlock(ServerSize) < SEQUENCE_SIZE

\* A client that has not seen an option acknowledgement takes blocks to have the default
\* size.  They have it, or no port is used twice.
SizeAgreed == ServerSize = TFTP_BLOCK_SIZE \/ (PortsDiffer /\ NetRetry <= 2)

File == 0..FileSize - 1

\* Block b, or all blocks before block n, are in memory.
Stored(b) == \A u \in File : u \div ServerSize = b - 1 => u \in DOMAIN memory
Before(n) == \A u \in File : u \div ServerSize + 1 < n => u \in DOMAIN memory

\* The memory is a part of the file.
MemoryIsFile ==
    /\ DOMAIN memory \subseteq File /\ BlocksInPlace
    /\ NetBootFileXferSize <= FileSize
    /\ TftpBlockWrapOffset = 0

\* The server has had acknowledgements for all it has sent but the last block.
SessionsFollow ==
    \A s \in 1..Len(sessions) :
        /\ sessions[s].size = ServerSize
        /\ sessions[s].sent \in 0..LastBlock(ServerSize)
        /\ Before(sessions[s].sent)

\* What is acknowledged is stored, and what is sent follows what is stored.
AckStored(m) == m.type = "ack" => Stored(m.block)
DataFollows(m) ==
    /\ m.type \in {"oack", "data"} => m.size = ServerSize
    /\ m.type = "data" => /\ m.number \in 1..LastBlock(ServerSize) /\ m.block = m.number
                          /\ Before(m.number)
PacketsFollow ==
    /\ \A i \in 1..Len(toServer) : AckStored(toServer[i])
    /\ \A i \in 1..Len(toClient) : DataFollows(toClient[i])

\* The client handles packets and time-outs.
Active == NetState = "CONTINUE" /\ packetHandler = "tftp"

\* What it would acknowledge is stored.
ClientHolds ==
    /\ Active =>
          /\ TftpTimeoutCount <= TIMEOUT_COUNT + RRQ_TIMEOUT_COUNT
          /\ Stored(TftpBlock)
          /\ TftpState = "DATA" => Stored(TftpLastBlock)
          /\ TftpBlkSize = IF TftpState = "RRQ" THEN TFTP_BLOCK_SIZE ELSE ServerSize
    /\ packetHandler = "ignore" => NetTryCount # 1

\* Nothing was acknowledged from port p, and so nothing but option acknowledgements comes
\* to it.
Clean(p) ==
    /\ \A i \in 1..Len(toServer) : toServer[i].type = "ack" => toServer[i].sport # p
    /\ \A i \in 1..Len(toClient) : toClient[i].type = "data" => toClient[i].dport # p
    /\ \A s \in 1..Len(sessions) : sessions[s].port = p => sessions[s].sent = 0

\* The port of a new start is clean.
PortsClean ==
    Oack /\ PortsDiffer /\ NetRetry <= 2 =>
        /\ Active /\ TftpState = "RRQ" => Clean(TftpOurPort)
        /\ NetTryCount = 1 \/ packetHandler = "ignore" =>
              \A p \in Ports : p # TftpOurPort => Clean(p)

\* The inductive invariant.
IndInv ==
    /\ TypeOK
    /\ MemoryIsFile
    /\ SessionsFollow
    /\ PacketsFollow
    /\ ClientHolds
    /\ PortsClean
    /\ SuccessIsComplete
-----------------------------------------------------------------------------
(* Blocks. *)

LEMMA Times ==
    ASSUME NEW a \in Nat, NEW b \in Nat, NEW c \in Nat, a <= b
    PROVE  a * c <= b * c
<1>1. (b - a) * c >= 0
  <2>1. b - a \in Nat
    OBVIOUS
  <2> QED
    BY <2>1
<1>2. (b - a) * c = b * c - a * c
  OBVIOUS
<1>3. a * c \in Nat /\ b * c \in Nat
  OBVIOUS
<1> QED
  BY <1>1, <1>2, <1>3

\* Unit u is in block q + 1.
LEMMA DivIs ==
    ASSUME NEW u \in Nat, NEW c \in Nat \ {0}, NEW q \in Nat
    PROVE  /\ u \div c \in Nat
           /\ u \div c = q <=> q * c <= u /\ u < q * c + c
           /\ u \div c < q <=> u < q * c
           /\ q <= u \div c <=> q * c <= u
<1> DEFINE d == u \div c
<1>1. d \in Nat /\ d * c <= u /\ u < d * c + c
  OBVIOUS
<1>2. d * c \in Nat /\ q * c \in Nat /\ c \in Nat
  OBVIOUS
<1> HIDE DEF d
<1>3. CASE d < q
  <2>1. (d + 1) * c <= q * c
    BY <1>1, <1>3, Times
  <2>2. (d + 1) * c = d * c + c
    BY <1>1
  <2> QED
    BY <1>1, <1>2, <1>3, <2>1, <2>2 DEF d
<1>4. CASE d > q
  <2>1. (q + 1) * c <= d * c
    BY <1>1, <1>4, Times
  <2>2. (q + 1) * c = q * c + c
    BY <1>1
  <2> QED
    BY <1>1, <1>2, <1>4, <2>1, <2>2 DEF d
<1>5. CASE d = q
  BY <1>1, <1>2, <1>5 DEF d
<1> QED
  BY <1>1, <1>3, <1>4, <1>5

LEMMA SizeIs ==
    /\ ServerSize \in Nat \ {0} /\ ServerSize \in BlkSizes
    /\ FileSize \in Nat
    /\ LastBlock(ServerSize) \in Nat /\ LastBlock(ServerSize) >= 1
<1>1. ServerSize \in Nat \ {0} /\ ServerSize \in BlkSizes /\ FileSize \in Nat
  BY TftpAssumption DEF ServerSize, BlkSizes
<1>2. FileSize \div ServerSize \in Nat
  BY <1>1, DivIs
<1> QED
  BY <1>1, <1>2 DEF LastBlock

\* Where block n begins and ends.
First(n) == (n - 1) * ServerSize
End(n) == IF First(n) + ServerSize <= FileSize THEN First(n) + ServerSize ELSE FileSize

\* A block is an interval of the file, and the blocks up to the last cover it.
LEMMA UnitsAre ==
    ASSUME NEW n \in 1..LastBlock(ServerSize)
    PROVE  /\ First(n) \in Nat /\ End(n) \in Nat /\ First(n) <= End(n) /\ End(n) <= FileSize
           /\ \A u \in Nat : u \div ServerSize = n - 1 <=>
                                First(n) <= u /\ u < First(n) + ServerSize
           /\ \A u \in Nat : u \div ServerSize + 1 < n <=> u < First(n)
           /\ Units(n, ServerSize) = First(n)..End(n) - 1
           /\ Cardinality(Units(n, ServerSize)) = End(n) - First(n)
<1> DEFINE c == ServerSize
           q == n - 1
           lo == First(n)
           hi == End(n)
<1>1. c \in Nat \ {0} /\ FileSize \in Nat /\ q \in Nat /\ n \in Nat
  BY SizeIs
<1>2. lo = q * c /\ lo \in Nat
  BY <1>1 DEF First
<1>3. q <= FileSize \div c /\ FileSize \div c \in Nat
  BY <1>1, DivIs DEF LastBlock
<1>4. lo <= FileSize
  BY <1>1, <1>2, <1>3, DivIs
<1>5. ASSUME NEW u \in Nat
      PROVE  /\ u \div c = q <=> lo <= u /\ u < lo + c
             /\ u \div c < q <=> u < lo
             /\ u \div c \in Nat
  <2> HIDE DEF c, q, lo
  <2>1. /\ u \div c = q <=> q * c <= u /\ u < q * c + c
        /\ u \div c < q <=> u < q * c
        /\ u \div c \in Nat
    BY <1>1, DivIs
  <2> QED
    BY <1>2, <2>1
<1> HIDE DEF c, lo
<1>6. /\ hi = IF lo + c <= FileSize THEN lo + c ELSE FileSize
      /\ hi \in Nat /\ lo <= hi /\ hi <= FileSize
  BY <1>1, <1>2, <1>4 DEF End, c, lo
<1> HIDE DEF hi
<1>7. Units(n, c) = lo..hi - 1
  <2>1. ASSUME NEW u PROVE u \in Units(n, c) <=> u \in lo..hi - 1
    <3>1. u \in Units(n, c) <=> u \in 0..FileSize - 1 /\ u \div c = q
      BY DEF Units
    <3>2. u \in 0..FileSize - 1 => (u \div c = q <=> lo <= u /\ u < lo + c)
      BY <1>5
    <3>3. u \in lo..hi - 1 => u \in 0..FileSize - 1
      BY <1>1, <1>2, <1>6
    <3> QED
      BY <1>1, <1>2, <1>6, <3>1, <3>2, <3>3
  <2> QED
    BY <2>1
<1>8. Cardinality(lo..hi - 1) = hi - lo
  <2>1. lo \in Int /\ hi - 1 \in Int
    BY <1>2, <1>6
  <2>2. Cardinality(lo..hi - 1) = IF lo > hi - 1 THEN 0 ELSE hi - 1 - lo + 1
    BY <2>1, FS_Interval
  <2> QED
    BY <1>2, <1>6, <2>2
<1>9. \A u \in Nat : u \div c + 1 < n <=> u < lo
  BY <1>1, <1>5
<1> QED
  BY <1>2, <1>5, <1>6, <1>7, <1>8, <1>9 DEF c, lo, hi

\* Block 0 is no block, and there is nothing before block 1.
LEMMA NoBlock == Stored(0) /\ Before(0) /\ Before(1)
<1>1. ASSUME NEW u \in File PROVE u \div ServerSize \in Nat
  <2>1. u \in Nat
    BY SizeIs DEF File
  <2> QED
    BY <2>1, SizeIs, DivIs
<1> QED
  BY <1>1 DEF Stored, Before

\* The next block.
LEMMA NextBlock ==
    ASSUME NEW n \in Nat, Before(n), Stored(n)
    PROVE  Before(n + 1)
<1>1. ASSUME NEW u \in File, u \div ServerSize + 1 < n + 1 PROVE u \in DOMAIN memory
  <2>1. u \in Nat
    BY SizeIs DEF File
  <2>2. u \div ServerSize \in Nat
    BY <2>1, SizeIs, DivIs
  <2>3. u \div ServerSize + 1 < n \/ u \div ServerSize = n - 1
    BY <1>1, <2>2
  <2> QED
    BY <2>3 DEF Before, Stored
<1> QED
  BY <1>1 DEF Before
-----------------------------------------------------------------------------
(* Channels. *)

\* A packet less, and a packet more.
LEMMA WithoutIs ==
    ASSUME NEW T, NEW channel \in Seq(T), NEW i \in 1..Len(channel)
    PROVE  /\ Without(channel, i) \in Seq(T)
           /\ Len(Without(channel, i)) <= Len(channel)
           /\ \A j \in 1..Len(Without(channel, i)) :
                 \E k \in 1..Len(channel) : Without(channel, i)[j] = channel[k]
<1> DEFINE a == SubSeq(channel, 1, i - 1)
           b == SubSeq(channel, i + 1, Len(channel))
           S == {channel[k] : k \in 1..Len(channel)}
<1>0. Len(channel) \in Nat /\ \A k \in 1..Len(channel) : channel[k] \in T
  OBVIOUS
<1>1. a \in Seq(S) /\ Len(a) = i - 1
  <2>1. 1 \in Int /\ i - 1 \in Int /\ \A k \in 1..i - 1 : channel[k] \in S
    BY <1>0
  <2> HIDE DEF S
  <2>2. a \in Seq(S) /\ Len(a) = IF 1 <= i - 1 THEN (i - 1) - 1 + 1 ELSE 0
    BY <2>1, SubSeqProperties
  <2> HIDE DEF a
  <2> QED
    BY <1>0, <2>2
<1>2. b \in Seq(S) /\ Len(b) = Len(channel) - i
  <2>1. i + 1 \in Int /\ Len(channel) \in Int /\ \A k \in i + 1..Len(channel) : channel[k] \in S
    BY <1>0
  <2> HIDE DEF S
  <2>2. b \in Seq(S) /\ Len(b) = IF i + 1 <= Len(channel) THEN Len(channel) - (i + 1) + 1 ELSE 0
    BY <2>1, SubSeqProperties
  <2> HIDE DEF b
  <2> QED
    BY <1>0, <2>2
<1> HIDE DEF a, b, S
<1>3. a \o b \in Seq(S) /\ Len(a \o b) = Len(a) + Len(b)
  BY <1>1, <1>2, ConcatProperties
<1>4. Without(channel, i) = a \o b
  BY DEF Without, a, b
<1>5. \A x \in S : x \in T /\ \E k \in 1..Len(channel) : x = channel[k]
  BY <1>0 DEF S
<1> HIDE DEF Without
<1>6. Without(channel, i) \in Seq(S) /\ Len(Without(channel, i)) <= Len(channel)
  BY <1>0, <1>1, <1>2, <1>3, <1>4
<1>7. \A j \in 1..Len(Without(channel, i)) : Without(channel, i)[j] \in S
  BY <1>6
<1>8. Without(channel, i) \in Seq(T)
  BY <1>5, <1>6, <1>7
<1> QED
  BY <1>5, <1>6, <1>7, <1>8

LEMMA PutIs ==
    ASSUME NEW T, NEW channel \in Seq(T), NEW m \in T, Len(channel) <= MaxInFlight
    PROVE  Put(channel, m) \in Seq(T) /\ Len(Put(channel, m)) <= MaxInFlight
<1>0. Len(channel) \in Nat /\ MaxInFlight \in Nat
  BY TftpAssumption
<1>1. Append(channel, m) \in Seq(T) /\ Len(Append(channel, m)) = Len(channel) + 1
  BY AppendProperties
<1> QED
  BY <1>0, <1>1 DEF Put
-----------------------------------------------------------------------------
(* What the steps have in common. *)

\* The packets and sessions after a step: those from before, and new ones that keep the
\* invariant because of what is in memory now.
LEMMA FollowStep ==
    ASSUME IndInv, DOMAIN memory \subseteq DOMAIN memory',
           \A j \in 1..Len(toServer') :
               (\E k \in 1..Len(toServer) : toServer'[j] = toServer[k]) \/ AckStored(toServer[j])',
           \A j \in 1..Len(toClient') :
               (\E k \in 1..Len(toClient) : toClient'[j] = toClient[k]) \/ DataFollows(toClient[j])'
    PROVE  PacketsFollow'
<1>1. ASSUME NEW m, AckStored(m) PROVE AckStored(m)'
  BY <1>1 DEF AckStored, Stored
<1>2. ASSUME NEW m, DataFollows(m) PROVE DataFollows(m)'
  BY <1>2 DEF DataFollows, Before
<1>3. ASSUME NEW j \in 1..Len(toServer') PROVE AckStored(toServer[j])'
  <2>1. CASE \E k \in 1..Len(toServer) : toServer'[j] = toServer[k]
    <3>1. PICK k \in 1..Len(toServer) : toServer'[j] = toServer[k]
      BY <2>1
    <3>2. AckStored(toServer[k])
      BY DEF IndInv, PacketsFollow
    <3> QED
      BY <3>1, <3>2 DEF AckStored, Stored
  <2> QED
    BY <2>1
<1>4. ASSUME NEW j \in 1..Len(toClient') PROVE DataFollows(toClient[j])'
  <2>1. CASE \E k \in 1..Len(toClient) : toClient'[j] = toClient[k]
    <3>1. PICK k \in 1..Len(toClient) : toClient'[j] = toClient[k]
      BY <2>1
    <3>2. DataFollows(toClient[k])
      BY DEF IndInv, PacketsFollow
    <3> QED
      BY <3>1, <3>2 DEF DataFollows, Before
  <2> QED
    BY <2>1
<1> QED
  BY <1>3, <1>4 DEF PacketsFollow

LEMMA CleanStep ==
    ASSUME NEW p, Clean(p),
           \A j \in 1..Len(toServer') :
               \/ \E k \in 1..Len(toServer) : toServer'[j] = toServer[k]
               \/ toServer'[j].type # "ack" \/ toServer'[j].sport # p,
           \A j \in 1..Len(toClient') :
               \/ \E k \in 1..Len(toClient) : toClient'[j] = toClient[k]
               \/ toClient'[j].type # "data" \/ toClient'[j].dport # p,
           \A s \in 1..Len(sessions') :
               \/ s \in 1..Len(sessions) /\ sessions'[s] = sessions[s]
               \/ sessions'[s].port # p \/ sessions'[s].sent = 0
    PROVE  Clean(p)'
BY DEF Clean

\* The types, in two parts.
ClientTypes ==
    /\ TftpState \in {"RRQ", "OACK", "DATA"}
    /\ TftpServerPort \in ServerPorts \cup {WELL_KNOWN_PORT}
    /\ TftpOurPort \in Ports
    /\ TftpBlock \in 0..SEQUENCE_SIZE - 1
    /\ TftpLastBlock \in 0..SEQUENCE_SIZE - 1
    /\ TftpBlockWrapOffset \in Nat
    /\ TftpBlkSize \in BlkSizes
    /\ TftpTimeoutCount \in 0..TIMEOUT_COUNT + RRQ_TIMEOUT_COUNT + 1
    /\ TftpTimeoutCountMax \in {TIMEOUT_COUNT, RRQ_TIMEOUT_COUNT}
    /\ packetHandler \in {"tftp", "ignore"}
    /\ NetState \in {"CONTINUE", "SUCCESS", "FAIL"}
    /\ NetTryCount \in 1..NetRetry + 1
    /\ DOMAIN memory \subseteq Nat /\ \A o \in DOMAIN memory : memory[o] \in 0..FileSize - 1
    /\ NetBootFileXferSize \in Nat

NetworkTypes ==
    /\ sessions \in Seq(Session) /\ Len(sessions) <= MaxSessions
    /\ toServer \in Seq(ClientMsg) /\ Len(toServer) <= MaxInFlight
    /\ toClient \in Seq(ServerMsg) /\ Len(toClient) <= MaxInFlight

LEMMA TypeParts == TypeOK <=> ClientTypes /\ NetworkTypes
BY DEF TypeOK, ClientTypes, NetworkTypes

LEMMA Constants ==
    /\ SEQUENCE_SIZE \in Nat /\ SEQUENCE_SIZE >= 2
    /\ TIMEOUT_COUNT \in Nat /\ RRQ_TIMEOUT_COUNT \in Nat /\ NetRetry \in Nat
    /\ MaxSessions \in Nat /\ MaxInFlight \in Nat
    /\ TFTP_BLOCK_SIZE \in BlkSizes
BY TftpAssumption DEF BlkSizes

\* A packet more in either direction.
LEMMA PutServer ==
    ASSUME NetworkTypes, NEW m \in ClientMsg
    PROVE  /\ Put(toServer, m) \in Seq(ClientMsg)
           /\ Len(Put(toServer, m)) <= MaxInFlight
           /\ \A j \in 1..Len(Put(toServer, m)) :
                 Put(toServer, m)[j] = m \/ \E k \in 1..Len(toServer) : Put(toServer, m)[j] = toServer[k]
<1>1. toServer \in Seq(ClientMsg) /\ Len(toServer) <= MaxInFlight
  BY DEF NetworkTypes
<1>2. Put(toServer, m) \in Seq(ClientMsg)
  BY <1>1, PutIs
<1>3. Len(Put(toServer, m)) <= MaxInFlight
  BY <1>1, PutIs
<1>4. \A j \in 1..Len(Put(toServer, m)) :
         Put(toServer, m)[j] = m \/ \E k \in 1..Len(toServer) : Put(toServer, m)[j] = toServer[k]
  <2>1. CASE Put(toServer, m) = Append(toServer, m)
    <3>1. /\ Len(toServer) \in Nat /\ Len(Append(toServer, m)) = Len(toServer) + 1
          /\ \A i \in 1..Len(toServer) : Append(toServer, m)[i] = toServer[i]
          /\ Append(toServer, m)[Len(toServer) + 1] = m
      BY <1>1, AppendProperties
    <3> QED
      BY <2>1, <3>1
  <2>2. CASE Put(toServer, m) = toServer
    BY <2>2
  <2> QED
    BY <2>1, <2>2 DEF Put
<1> QED
  BY <1>2, <1>3, <1>4

LEMMA PutClient ==
    ASSUME NetworkTypes, NEW m \in ServerMsg
    PROVE  /\ Put(toClient, m) \in Seq(ServerMsg)
           /\ Len(Put(toClient, m)) <= MaxInFlight
           /\ \A j \in 1..Len(Put(toClient, m)) :
                 Put(toClient, m)[j] = m \/ \E k \in 1..Len(toClient) : Put(toClient, m)[j] = toClient[k]
<1>1. toClient \in Seq(ServerMsg) /\ Len(toClient) <= MaxInFlight
  BY DEF NetworkTypes
<1>2. Put(toClient, m) \in Seq(ServerMsg)
  BY <1>1, PutIs
<1>3. Len(Put(toClient, m)) <= MaxInFlight
  BY <1>1, PutIs
<1>4. \A j \in 1..Len(Put(toClient, m)) :
         Put(toClient, m)[j] = m \/ \E k \in 1..Len(toClient) : Put(toClient, m)[j] = toClient[k]
  <2>1. CASE Put(toClient, m) = Append(toClient, m)
    <3>1. /\ Len(toClient) \in Nat /\ Len(Append(toClient, m)) = Len(toClient) + 1
          /\ \A i \in 1..Len(toClient) : Append(toClient, m)[i] = toClient[i]
          /\ Append(toClient, m)[Len(toClient) + 1] = m
      BY <1>1, AppendProperties
    <3> QED
      BY <2>1, <3>1
  <2>2. CASE Put(toClient, m) = toClient
    BY <2>2
  <2> QED
    BY <2>1, <2>2 DEF Put
<1> QED
  BY <1>2, <1>3, <1>4

\* A packet less.
LEMMA Received ==
    ASSUME NetworkTypes, NEW i \in 1..Len(toClient), toClient' = Without(toClient, i)
    PROVE  /\ toClient' \in Seq(ServerMsg) /\ Len(toClient') <= MaxInFlight
           /\ \A j \in 1..Len(toClient') : \E k \in 1..Len(toClient) : toClient'[j] = toClient[k]
           /\ toClient[i] \in ServerMsg
<1>1. toClient \in Seq(ServerMsg) /\ Len(toClient) <= MaxInFlight
  BY DEF NetworkTypes
<1>2. /\ toClient' \in Seq(ServerMsg) /\ Len(toClient') <= Len(toClient)
      /\ \A j \in 1..Len(toClient') : \E k \in 1..Len(toClient) : toClient'[j] = toClient[k]
  BY <1>1, WithoutIs
<1>3. Len(toClient) \in Nat /\ Len(toClient') \in Nat /\ MaxInFlight \in Nat
  BY <1>1, <1>2, Constants
<1>4. Len(toClient') <= MaxInFlight
  BY <1>1, <1>2, <1>3
<1>5. toClient[i] \in ServerMsg
  BY <1>1
<1> QED
  BY <1>2, <1>4, <1>5

LEMMA ReceivedByServer ==
    ASSUME NetworkTypes, NEW i \in 1..Len(toServer), toServer' = Without(toServer, i)
    PROVE  /\ toServer' \in Seq(ClientMsg) /\ Len(toServer') <= MaxInFlight
           /\ \A j \in 1..Len(toServer') : \E k \in 1..Len(toServer) : toServer'[j] = toServer[k]
           /\ toServer[i] \in ClientMsg
<1>1. toServer \in Seq(ClientMsg) /\ Len(toServer) <= MaxInFlight
  BY DEF NetworkTypes
<1>2. /\ toServer' \in Seq(ClientMsg) /\ Len(toServer') <= Len(toServer)
      /\ \A j \in 1..Len(toServer') : \E k \in 1..Len(toServer) : toServer'[j] = toServer[k]
  BY <1>1, WithoutIs
<1>3. Len(toServer) \in Nat /\ Len(toServer') \in Nat /\ MaxInFlight \in Nat
  BY <1>1, <1>2, Constants
<1>4. Len(toServer') <= MaxInFlight
  BY <1>1, <1>2, <1>3
<1>5. toServer[i] \in ClientMsg
  BY <1>1
<1> QED
  BY <1>2, <1>4, <1>5

\* What TftpSend sends.
LEMMA SendIs ==
    ASSUME NetworkTypes, NEW state, NEW sport \in Ports,
           NEW dport \in ServerPorts \cup {WELL_KNOWN_PORT}, NEW block \in 0..SEQUENCE_SIZE - 1,
           TftpSend(state, sport, dport, block)
    PROVE  /\ toServer' \in Seq(ClientMsg) /\ Len(toServer') <= MaxInFlight
           /\ \A j \in 1..Len(toServer') :
                 \/ \E k \in 1..Len(toServer) : toServer'[j] = toServer[k]
                 \/ /\ toServer'[j].type = IF state = "RRQ" THEN "rrq" ELSE "ack"
                    /\ toServer'[j].sport = sport /\ toServer'[j].block = block
<1> DEFINE m == [type |-> IF state = "RRQ" THEN "rrq" ELSE "ack",
                 sport |-> sport, dport |-> dport, block |-> block]
<1>1. m \in ClientMsg
  BY DEF ClientMsg
<1>2. /\ m.type = IF state = "RRQ" THEN "rrq" ELSE "ack"
      /\ m.sport = sport /\ m.block = block
  OBVIOUS
<1>3. toServer' = Put(toServer, m)
  BY DEF TftpSend
<1> HIDE DEF m
<1> QED
  BY <1>1, <1>2, <1>3, PutServer

\* Starting again ends the handling of packets; with at most two attempts it is the end
\* of the first one.
LEMMA StartAgainIs ==
    ASSUME ClientTypes, Active, NetStartAgain
    PROVE  /\ ~Active' /\ NetState' \in {"CONTINUE", "FAIL"}
           /\ packetHandler' \in {"tftp", "ignore"} /\ NetTryCount' \in 1..NetRetry + 1
           /\ packetHandler' = "ignore" => NetTryCount' # 1
           /\ NetRetry <= 2 /\ (NetTryCount' = 1 \/ packetHandler' = "ignore") => NetTryCount = 1
<1>1. NetTryCount \in 1..NetRetry + 1 /\ NetRetry \in Nat /\ NetState = "CONTINUE" /\ packetHandler = "tftp"
  BY Constants DEF ClientTypes, Active
<1> QED
  BY <1>1 DEF NetStartAgain, Active

\* A step that leaves the memory and the sessions as they are.
LEMMA MemoryKept ==
    ASSUME IndInv, UNCHANGED <<memory, TftpBlockWrapOffset, sessions>>,
           \/ NetBootFileXferSize' = 0 /\ NetState' = "CONTINUE"
           \/ NetBootFileXferSize' = NetBootFileXferSize
              /\ (NetState' = NetState \/ NetState' \in {"CONTINUE", "FAIL"})
    PROVE  MemoryIsFile' /\ SessionsFollow' /\ SuccessIsComplete'
<1>1. MemoryIsFile'
  BY SizeIs DEF IndInv, MemoryIsFile, BlocksInPlace
<1>2. SessionsFollow'
  BY DEF IndInv, SessionsFollow, Before
<1>3. SuccessIsComplete'
  BY DEF IndInv, SuccessIsComplete
<1> QED
  BY <1>1, <1>2, <1>3

\* A step of the network or the server.
LEMMA NetworkStep ==
    ASSUME IndInv, UNCHANGED clientVars, NetworkTypes', SessionsFollow', PacketsFollow',
           Oack => \A p \in Ports : Clean(p) => Clean(p)'
    PROVE  IndInv'
<1>1. TypeOK'
  BY DEF IndInv, TypeOK, NetworkTypes, clientVars
<1>2. MemoryIsFile'
  BY DEF IndInv, MemoryIsFile, BlocksInPlace, clientVars
<1>3. ClientHolds'
  BY DEF IndInv, ClientHolds, Active, Stored, clientVars
<1>4. PortsClean'
  BY DEF IndInv, TypeOK, PortsClean, Active, clientVars
<1>5. SuccessIsComplete'
  BY DEF IndInv, SuccessIsComplete, clientVars
<1> QED
  BY <1>1, <1>2, <1>3, <1>4, <1>5 DEF IndInv
-----------------------------------------------------------------------------
(* The steps of the network and the server. *)

LEMMA LoseStep ==
    ASSUME IndInv, Lose
    PROVE  IndInv'
<1>0. NetworkTypes
  BY TypeParts DEF IndInv
<1>1. CASE (\E i \in 1..Len(toServer) : toServer' = Without(toServer, i))
           /\ UNCHANGED <<clientVars, sessions, toClient>>
  <2>1. PICK i \in 1..Len(toServer) : toServer' = Without(toServer, i)
    BY <1>1
  <2>2. /\ toServer' \in Seq(ClientMsg) /\ Len(toServer') <= MaxInFlight
        /\ \A j \in 1..Len(toServer') : \E k \in 1..Len(toServer) : toServer'[j] = toServer[k]
    BY <1>0, <2>1, ReceivedByServer
  <2>3. NetworkTypes'
    BY <1>0, <1>1, <2>2 DEF NetworkTypes
  <2>4. memory' = memory
    BY <1>1 DEF clientVars
  <2>5. PacketsFollow'
    BY <1>1, <2>2, <2>4, FollowStep
  <2>6. SessionsFollow'
    BY <1>1, <2>4 DEF IndInv, SessionsFollow, Before
  <2>7. \A p \in Ports : Clean(p) => Clean(p)'
    BY <1>1, <2>2 DEF Clean
  <2> QED
    BY <1>1, <2>3, <2>5, <2>6, <2>7, NetworkStep
<1>2. CASE (\E i \in 1..Len(toClient) : toClient' = Without(toClient, i))
           /\ UNCHANGED <<clientVars, sessions, toServer>>
  <2>1. PICK i \in 1..Len(toClient) : toClient' = Without(toClient, i)
    BY <1>2
  <2>2. /\ toClient' \in Seq(ServerMsg) /\ Len(toClient') <= MaxInFlight
        /\ \A j \in 1..Len(toClient') : \E k \in 1..Len(toClient) : toClient'[j] = toClient[k]
    BY <1>0, <2>1, Received
  <2>3. NetworkTypes'
    BY <1>0, <1>2, <2>2 DEF NetworkTypes
  <2>4. memory' = memory
    BY <1>2 DEF clientVars
  <2>5. PacketsFollow'
    BY <1>2, <2>2, <2>4, FollowStep
  <2>6. SessionsFollow'
    BY <1>2, <2>4 DEF IndInv, SessionsFollow, Before
  <2>7. \A p \in Ports : Clean(p) => Clean(p)'
    BY <1>2, <2>2 DEF Clean
  <2> QED
    BY <1>2, <2>3, <2>5, <2>6, <2>7, NetworkStep
<1> QED
  BY <1>1, <1>2 DEF Lose

\* What a session sends follows what is stored.
LEMMA SessionMsgIs ==
    ASSUME NoWrap, NEW s \in ServerPorts, NEW sess \in Session, sess.size = ServerSize,
           sess.sent \in 0..LastBlock(ServerSize), Before(sess.sent)
    PROVE  /\ SessionMsg(s, sess) \in ServerMsg
           /\ DataFollows(SessionMsg(s, sess))
           /\ SessionMsg(s, sess).type = "data" <=> sess.sent # 0
           /\ SessionMsg(s, sess).dport = sess.port
<1>1. /\ sess.sent \in Nat /\ sess.port \in Ports /\ sess.size \in BlkSizes
      /\ sess.sent \in 0..SEQUENCE_SIZE - 1
  BY SizeIs, Constants DEF NoWrap, Session
<1>2. Wire(sess.sent) = sess.sent
  BY <1>1, Constants DEF Wire
<1> DEFINE m == SessionMsg(s, sess)
<1>3. m = [type |-> IF sess.sent = 0 THEN "oack" ELSE "data", sport |-> s, dport |-> sess.port,
           block |-> sess.sent, number |-> sess.sent, size |-> sess.size]
  BY <1>2 DEF SessionMsg
<1> HIDE DEF m
<1>4. m \in ServerMsg
  BY <1>1, <1>3 DEF ServerMsg
<1>5. /\ m.type = IF sess.sent = 0 THEN "oack" ELSE "data"
      /\ m.dport = sess.port /\ m.block = sess.sent /\ m.number = sess.sent /\ m.size = sess.size
  BY <1>3
<1>6. DataFollows(m)
  BY <1>1, <1>5, SizeIs DEF DataFollows
<1> QED
  BY <1>4, <1>5, <1>6 DEF m

\* A session's answer is a packet more to the client.
LEMMA ServerTimeoutStep ==
    ASSUME NoWrap, IndInv, ServerTimeout
    PROVE  IndInv'
<1>0. NetworkTypes
  BY TypeParts DEF IndInv
<1>1. UNCHANGED <<clientVars, sessions, toServer>> /\ memory' = memory
  BY DEF ServerTimeout, clientVars
<1>2. PICK s \in 1..Len(sessions) : toClient' = Put(toClient, SessionMsg(s, sessions[s]))
  BY DEF ServerTimeout
<1>3. /\ s \in ServerPorts /\ sessions[s] \in Session /\ sessions[s].size = ServerSize
      /\ sessions[s].sent \in 0..LastBlock(ServerSize) /\ Before(sessions[s].sent)
  BY <1>0, Constants DEF NetworkTypes, IndInv, SessionsFollow, ServerPorts
<1> DEFINE m == SessionMsg(s, sessions[s])
<1>4. /\ m \in ServerMsg /\ DataFollows(m) /\ m.dport = sessions[s].port
      /\ m.type = "data" <=> sessions[s].sent # 0
  BY <1>3, SessionMsgIs
<1> HIDE DEF m
<1>5. /\ toClient' \in Seq(ServerMsg) /\ Len(toClient') <= MaxInFlight
      /\ \A j \in 1..Len(toClient') :
            toClient'[j] = m \/ \E k \in 1..Len(toClient) : toClient'[j] = toClient[k]
  <2>1. toClient' = Put(toClient, m)
    BY <1>2 DEF m
  <2> QED
    BY <1>0, <1>4, <2>1, PutClient
<1>6. NetworkTypes'
  BY <1>0, <1>1, <1>5 DEF NetworkTypes
<1>7. SessionsFollow'
  BY <1>1 DEF IndInv, SessionsFollow, Before
<1>8. PacketsFollow'
  <2>1. \A j \in 1..Len(toClient') :
           (\E k \in 1..Len(toClient) : toClient'[j] = toClient[k]) \/ DataFollows(toClient[j])'
    BY <1>1, <1>4, <1>5 DEF DataFollows, Before
  <2> QED
    BY <1>1, <2>1, FollowStep
<1>9. ASSUME NEW p \in Ports, Clean(p) PROVE Clean(p)'
  <2>1. m.type # "data" \/ m.dport # p
    BY <1>4, <1>9 DEF Clean
  <2>2. \A j \in 1..Len(toClient') :
           \/ \E k \in 1..Len(toClient) : toClient'[j] = toClient[k]
           \/ toClient'[j].type # "data" \/ toClient'[j].dport # p
    BY <1>5, <2>1
  <2> QED
    BY <1>1, <1>9, <2>2, CleanStep
<1> QED
  BY <1>1, <1>6, <1>7, <1>8, <1>9, NetworkStep

\* A packet taken by the server, its session and its answer.
LEMMA ServerStep ==
    ASSUME IndInv, UNCHANGED clientVars,
           NEW i \in 1..Len(toServer), toServer' = Without(toServer, i),
           sessions' \in Seq(Session), Len(sessions') <= MaxSessions, SessionsFollow',
           toClient' \in Seq(ServerMsg), Len(toClient') <= MaxInFlight,
           \A j \in 1..Len(toClient') :
               (\E k \in 1..Len(toClient) : toClient'[j] = toClient[k]) \/ DataFollows(toClient[j])',
           Oack => \A p \in Ports : Clean(p) =>
               /\ \A j \in 1..Len(toClient') :
                     \/ \E k \in 1..Len(toClient) : toClient'[j] = toClient[k]
                     \/ toClient'[j].type # "data" \/ toClient'[j].dport # p
               /\ \A s \in 1..Len(sessions') :
                     \/ s \in 1..Len(sessions) /\ sessions'[s] = sessions[s]
                     \/ sessions'[s].port # p \/ sessions'[s].sent = 0
    PROVE  IndInv'
<1>0. NetworkTypes /\ memory' = memory
  BY TypeParts DEF IndInv, clientVars
<1>1. /\ toServer' \in Seq(ClientMsg) /\ Len(toServer') <= MaxInFlight
      /\ \A j \in 1..Len(toServer') : \E k \in 1..Len(toServer) : toServer'[j] = toServer[k]
  BY <1>0, ReceivedByServer
<1>2. NetworkTypes'
  BY <1>1 DEF NetworkTypes
<1>3. PacketsFollow'
  BY <1>0, <1>1, FollowStep
<1>4. ASSUME Oack, NEW p \in Ports, Clean(p) PROVE Clean(p)'
  BY <1>1, <1>4, CleanStep
<1> QED
  BY <1>2, <1>3, <1>4, NetworkStep

LEMMA RequestStep ==
    ASSUME NoWrap, IndInv, UNCHANGED clientVars,
           NEW i \in 1..Len(toServer), toServer' = Without(toServer, i),
           ServerRequest(toServer[i])
    PROVE  IndInv'
<1>0. NetworkTypes /\ memory' = memory
  BY TypeParts DEF IndInv, clientVars
<1>1. toServer[i] \in ClientMsg
  BY <1>0, ReceivedByServer
<1> DEFINE port == toServer[i].sport
           n == Len(sessions) + 1
           sess == [port |-> port, over |-> FALSE, sent |-> IF Oack THEN 0 ELSE 1,
                    size |-> IF Oack THEN TftpBlkSizeOption ELSE TFTP_BLOCK_SIZE]
<1>2. port \in Ports
  BY <1>1 DEF ClientMsg
<1>3. /\ sessions \in Seq(Session) /\ Len(sessions) \in Nat /\ Len(sessions) <= MaxSessions
      /\ toClient \in Seq(ServerMsg) /\ Len(toClient) <= MaxInFlight
  BY <1>0 DEF NetworkTypes
<1>4. CASE Len(sessions) < MaxSessions /\ sessions' = Append(sessions, sess)
           /\ toClient' = Put(toClient, SessionMsg(n, sess))
  <2> DEFINE m == SessionMsg(n, sess)
  <2>1. /\ sess \in Session /\ sess.size = ServerSize /\ sess.port = port
        /\ sess.sent = IF Oack THEN 0 ELSE 1
    BY <1>2, TftpAssumption DEF Session, ServerSize, BlkSizes
  <2>2. n \in ServerPorts
    BY <1>3, <1>4, Constants DEF ServerPorts
  <2> HIDE DEF sess, port
  <2>3. sess.sent \in 0..LastBlock(ServerSize) /\ Before(sess.sent)
    BY <2>1, NoBlock, SizeIs
  <2>4. m \in ServerMsg /\ DataFollows(m) /\ (m.type = "data" <=> sess.sent # 0)
    BY <2>1, <2>2, <2>3, SessionMsgIs
  <2> HIDE DEF m
  <2>5. /\ toClient' \in Seq(ServerMsg) /\ Len(toClient') <= MaxInFlight
        /\ \A j \in 1..Len(toClient') :
              toClient'[j] = m \/ \E k \in 1..Len(toClient) : toClient'[j] = toClient[k]
    <3>1. toClient' = Put(toClient, m)
      BY <1>4 DEF m
    <3> QED
      BY <1>0, <2>4, <3>1, PutClient
  <2>6. /\ sessions' \in Seq(Session) /\ Len(sessions') = n
        /\ \A s \in 1..Len(sessions) : sessions'[s] = sessions[s]
        /\ sessions'[n] = sess
    BY <1>3, <1>4, <2>1, AppendProperties
  <2>7. \A s \in 1..Len(sessions') : sessions'[s] = sess \/ s \in 1..Len(sessions)
    BY <1>3, <2>6
  <2>8. Len(sessions') <= MaxSessions
    BY <1>3, <1>4, <2>6, Constants
  <2>9. SessionsFollow'
    <3>1. ASSUME NEW s \in 1..Len(sessions')
          PROVE  /\ sessions'[s].size = ServerSize
                 /\ sessions'[s].sent \in 0..LastBlock(ServerSize)
                 /\ Before(sessions'[s].sent)
      BY <2>1, <2>3, <2>6, <2>7 DEF IndInv, SessionsFollow
    <3> QED
      BY <1>0, <3>1 DEF SessionsFollow, Before
  <2>10. \A j \in 1..Len(toClient') :
            (\E k \in 1..Len(toClient) : toClient'[j] = toClient[k]) \/ DataFollows(toClient[j])'
    BY <1>0, <2>4, <2>5 DEF DataFollows, Before
  <2>11. ASSUME Oack
         PROVE  /\ \A j \in 1..Len(toClient') :
                      (\E k \in 1..Len(toClient) : toClient'[j] = toClient[k]) \/ toClient'[j].type # "data"
                /\ \A s \in 1..Len(sessions') :
                      (s \in 1..Len(sessions) /\ sessions'[s] = sessions[s]) \/ sessions'[s].sent = 0
    <3>1. sess.sent = 0
      BY <2>1, <2>11
    <3>2. m.type # "data"
      BY <3>1, <2>4
    <3>3. \A j \in 1..Len(toClient') :
             (\E k \in 1..Len(toClient) : toClient'[j] = toClient[k]) \/ toClient'[j].type # "data"
      BY <3>2, <2>5
    <3>4. \A s \in 1..Len(sessions') :
             (s \in 1..Len(sessions) /\ sessions'[s] = sessions[s]) \/ sessions'[s].sent = 0
      BY <3>1, <2>6, <2>7
    <3> QED
      BY <3>3, <3>4
  <2> QED
    BY <2>5, <2>6, <2>8, <2>9, <2>10, <2>11, ServerStep
<1>5. CASE /\ Len(sessions) < MaxSessions
           /\ \E code \in ErrorCodes :
                 toClient' = Put(toClient, [type |-> code, sport |-> n, dport |-> port, block |-> 0,
                                            number |-> 0, size |-> TFTP_BLOCK_SIZE])
           /\ UNCHANGED sessions
  <2>1. PICK code \in ErrorCodes :
           toClient' = Put(toClient, [type |-> code, sport |-> n, dport |-> port, block |-> 0,
                                      number |-> 0, size |-> TFTP_BLOCK_SIZE])
    BY <1>5
  <2> DEFINE m == [type |-> code, sport |-> n, dport |-> port, block |-> 0,
                   number |-> 0, size |-> TFTP_BLOCK_SIZE]
  <2>2. n \in ServerPorts
    BY <1>3, <1>5, Constants DEF ServerPorts
  <2>3. code \in {"final", "again"}
    BY TftpAssumption
  <2> HIDE DEF n, port
  <2>4. m \in ServerMsg /\ m.type = code
    BY <1>2, <2>2, <2>3, Constants DEF ServerMsg
  <2> HIDE DEF m
  <2>5. DataFollows(m)
    BY <2>3, <2>4 DEF DataFollows
  <2>6. /\ toClient' \in Seq(ServerMsg) /\ Len(toClient') <= MaxInFlight
        /\ \A j \in 1..Len(toClient') :
              toClient'[j] = m \/ \E k \in 1..Len(toClient) : toClient'[j] = toClient[k]
    <3>1. toClient' = Put(toClient, m)
      BY <2>1 DEF m
    <3> QED
      BY <1>0, <2>4, <3>1, PutClient
  <2>7. SessionsFollow'
    BY <1>0, <1>5 DEF IndInv, SessionsFollow, Before
  <2>8. \A j \in 1..Len(toClient') :
            (\E k \in 1..Len(toClient) : toClient'[j] = toClient[k]) \/ DataFollows(toClient[j])'
    BY <1>0, <2>5, <2>6 DEF DataFollows, Before
  <2>9. \A j \in 1..Len(toClient') :
            (\E k \in 1..Len(toClient) : toClient'[j] = toClient[k]) \/ toClient'[j].type # "data"
    BY <2>3, <2>4, <2>6
  <2>10. sessions' = sessions
    BY <1>5
  <2> QED
    BY <1>3, <2>6, <2>7, <2>8, <2>9, <2>10, ServerStep
<1>6. CASE UNCHANGED <<sessions, toClient>>
  <2>1. SessionsFollow'
    BY <1>0, <1>6 DEF IndInv, SessionsFollow, Before
  <2> QED
    BY <1>3, <1>6, <2>1, ServerStep
<1> QED
  BY <1>4, <1>5, <1>6 DEF ServerRequest

LEMMA AckStep ==
    ASSUME NoWrap, IndInv, UNCHANGED clientVars,
           NEW i \in 1..Len(toServer), toServer' = Without(toServer, i),
           ServerAck(toServer[i])
    PROVE  IndInv'
<1>0. NetworkTypes /\ memory' = memory
  BY TypeParts DEF IndInv, clientVars
<1>1. toServer[i] \in ClientMsg
  BY <1>0, ReceivedByServer
<1> DEFINE s == toServer[i].dport
           sess == sessions[s]
           next == IF sess.sent = LastBlock(sess.size) THEN [sess EXCEPT !.over = TRUE]
                   ELSE [sess EXCEPT !.sent = @ + 1]
<1>2. /\ sessions \in Seq(Session) /\ Len(sessions) \in Nat /\ Len(sessions) <= MaxSessions
      /\ toClient \in Seq(ServerMsg) /\ Len(toClient) <= MaxInFlight
  BY <1>0 DEF NetworkTypes
<1>3. CASE UNCHANGED <<sessions, toClient>>
  <2>1. SessionsFollow'
    BY <1>0, <1>3 DEF IndInv, SessionsFollow, Before
  <2> QED
    BY <1>2, <1>3, <2>1, ServerStep
<1>4. CASE /\ s \in 1..Len(sessions) /\ sess.port = toServer[i].sport /\ ~sess.over
           /\ Wire(sess.sent) = toServer[i].block
           /\ sessions' = [sessions EXCEPT ![s] = next]
           /\ toClient' = IF next.over THEN toClient ELSE Put(toClient, SessionMsg(s, next))
  <2>1. s \in 1..Len(sessions) /\ s \in ServerPorts
    BY <1>2, <1>4, Constants, SMTT(30) DEF ServerPorts
  <2>2. /\ sess \in Session /\ sess.size = ServerSize
        /\ sess.sent \in 0..LastBlock(ServerSize) /\ Before(sess.sent)
    BY <1>2, <2>1 DEF IndInv, SessionsFollow
  <2>3. Wire(sess.sent) = sess.sent
    <3> HIDE DEF sess
    <3>1. sess.sent \in 0..SEQUENCE_SIZE - 1
      BY <2>2, SizeIs, Constants DEF NoWrap
    <3> QED
      BY <3>1, Constants DEF Wire
  <2>4. toServer[i].type = "ack" /\ Stored(sess.sent)
    BY <1>4, <2>3 DEF ServerAck, IndInv, PacketsFollow, AckStored
  <2>5. Before(sess.sent + 1)
    BY <2>2, <2>4, NextBlock, SizeIs
  <2>6. \A p : Clean(p) => sess.port # p
    BY <1>4, <2>4 DEF Clean
  <2> HIDE DEF sess
  <2>7. /\ next \in Session /\ next.size = ServerSize /\ next.port = sess.port
        /\ next.sent = sess.sent \/ (next.sent = sess.sent + 1 /\ sess.sent # LastBlock(ServerSize))
    <3>1. sess.sent \in Nat
      BY <2>2, SizeIs
    <3>2. CASE sess.sent = LastBlock(ServerSize)
      <4>1. next = [sess EXCEPT !.over = TRUE]
        BY <2>2, <3>2
      <4> QED
        BY <2>2, <4>1 DEF Session
    <3>3. CASE sess.sent # LastBlock(ServerSize)
      <4>1. next = [sess EXCEPT !.sent = sess.sent + 1]
        BY <2>2, <3>3
      <4> QED
        BY <2>2, <3>1, <3>3, <4>1 DEF Session
    <3> QED
      BY <3>2, <3>3
  <2> HIDE DEF next
  <2>8. next.sent \in 0..LastBlock(ServerSize) /\ Before(next.sent)
    BY <2>2, <2>5, <2>7, SizeIs
  <2>9. /\ sessions' \in Seq(Session) /\ Len(sessions') = Len(sessions)
        /\ \A t \in 1..Len(sessions) : sessions'[t] = IF t = s THEN next ELSE sessions[t]
    <3>1. sessions' = [sessions EXCEPT ![s] = next]
      BY <1>4
    <3> HIDE DEF s
    <3> QED
      BY <1>2, <2>1, <2>7, <3>1, ExceptSeq
  <2>10. SessionsFollow'
    <3>1. ASSUME NEW t \in 1..Len(sessions')
          PROVE  /\ sessions'[t].size = ServerSize
                 /\ sessions'[t].sent \in 0..LastBlock(ServerSize)
                 /\ Before(sessions'[t].sent)
      BY <2>7, <2>8, <2>9 DEF IndInv, SessionsFollow
    <3> QED
      BY <1>0, <3>1 DEF SessionsFollow, Before
  <2> DEFINE m == SessionMsg(s, next)
  <2>11. m \in ServerMsg /\ DataFollows(m) /\ m.dport = sess.port
    BY <2>1, <2>7, <2>8, SessionMsgIs
  <2>12. toClient' = toClient \/ toClient' = Put(toClient, m)
    BY <1>4
  <2> HIDE DEF m
  <2>13. /\ toClient' \in Seq(ServerMsg) /\ Len(toClient') <= MaxInFlight
         /\ \A j \in 1..Len(toClient') :
               toClient'[j] = m \/ \E k \in 1..Len(toClient) : toClient'[j] = toClient[k]
    <3>1. CASE toClient' = toClient
      BY <1>2, <3>1
    <3>2. CASE toClient' = Put(toClient, m)
      BY <1>0, <2>11, <3>2, PutClient
    <3> QED
      BY <2>12, <3>1, <3>2
  <2>14. \A j \in 1..Len(toClient') :
            (\E k \in 1..Len(toClient) : toClient'[j] = toClient[k]) \/ DataFollows(toClient[j])'
    BY <1>0, <2>11, <2>13 DEF DataFollows, Before
  <2>15. ASSUME NEW p \in Ports, Clean(p)
         PROVE  /\ \A j \in 1..Len(toClient') :
                      (\E k \in 1..Len(toClient) : toClient'[j] = toClient[k]) \/ toClient'[j].dport # p
                /\ \A t \in 1..Len(sessions') :
                      (t \in 1..Len(sessions) /\ sessions'[t] = sessions[t]) \/ sessions'[t].port # p
    <3>1. sess.port # p
      BY <2>6, <2>15
    <3>2. \A j \in 1..Len(toClient') :
             (\E k \in 1..Len(toClient) : toClient'[j] = toClient[k]) \/ toClient'[j].dport # p
      BY <3>1, <2>11, <2>13
    <3>3. \A t \in 1..Len(sessions') :
             (t \in 1..Len(sessions) /\ sessions'[t] = sessions[t]) \/ sessions'[t].port # p
      BY <3>1, <2>7, <2>9
    <3> QED
      BY <3>2, <3>3
  <2>16. Len(sessions') <= MaxSessions
    BY <1>2, <2>9
  <2> QED
    BY <2>9, <2>10, <2>13, <2>14, <2>15, <2>16, ServerStep
<1> QED
  BY <1>3, <1>4 DEF ServerAck

LEMMA ServerReceiveStep ==
    ASSUME NoWrap, IndInv, ServerReceive
    PROVE  IndInv'
<1>1. PICK i \in Deliverable(toServer) :
         /\ toServer' = Without(toServer, i)
         /\ ServerRequest(toServer[i]) \/ ServerAck(toServer[i])
  BY DEF ServerReceive
<1>2. i \in 1..Len(toServer) /\ UNCHANGED clientVars
  BY DEF Deliverable, ServerReceive
<1> QED
  BY <1>1, <1>2, RequestStep, AckStep
-----------------------------------------------------------------------------
(* The steps of the client. *)

LEMMA TimeoutStep ==
    ASSUME IndInv, TftpTimeout
    PROVE  IndInv'
<1>0. ClientTypes /\ NetworkTypes /\ Active
  BY TypeParts DEF IndInv, TftpTimeout, Active
<1>1. /\ UNCHANGED <<TftpState, TftpServerPort, TftpOurPort, TftpBlock, TftpLastBlock,
                     TftpBlockWrapOffset, TftpBlkSize, TftpTimeoutCountMax, memory,
                     NetBootFileXferSize, sessions, toClient>>
      /\ TftpTimeoutCount' = TftpTimeoutCount + 1
  BY DEF TftpTimeout, fileVars
<1>2. /\ TftpTimeoutCount \in Nat /\ TIMEOUT_COUNT \in Nat /\ RRQ_TIMEOUT_COUNT \in Nat
      /\ TftpTimeoutCount <= TIMEOUT_COUNT + RRQ_TIMEOUT_COUNT
      /\ TftpTimeoutCountMax \in {TIMEOUT_COUNT, RRQ_TIMEOUT_COUNT}
  BY <1>0, Constants DEF ClientTypes, IndInv, ClientHolds
<1>3. TftpTimeoutCount' \in 0..TIMEOUT_COUNT + RRQ_TIMEOUT_COUNT + 1
  BY <1>1, <1>2
<1>4. CASE NetStartAgain /\ UNCHANGED toServer
  <2>1. /\ ~Active' /\ NetState' \in {"CONTINUE", "FAIL"}
        /\ packetHandler' \in {"tftp", "ignore"} /\ NetTryCount' \in 1..NetRetry + 1
        /\ packetHandler' = "ignore" => NetTryCount' # 1
        /\ NetRetry <= 2 /\ (NetTryCount' = 1 \/ packetHandler' = "ignore") => NetTryCount = 1
    BY <1>0, <1>4, StartAgainIs
  <2>2. TypeOK'
    BY <1>0, <1>1, <1>3, <1>4, <2>1 DEF TypeOK, ClientTypes, NetworkTypes
  <2>3. MemoryIsFile' /\ SessionsFollow' /\ SuccessIsComplete'
    BY <1>1, <2>1, MemoryKept
  <2>4. PacketsFollow'
    BY <1>1, <1>4, FollowStep
  <2>5. ClientHolds'
    BY <2>1 DEF ClientHolds
  <2>6. PortsClean'
    BY <1>1, <1>4, <2>1 DEF IndInv, PortsClean, Clean
  <2> QED
    BY <2>2, <2>3, <2>4, <2>5, <2>6 DEF IndInv
<1>5. CASE /\ TftpTimeoutCount' <= TftpTimeoutCountMax
           /\ TftpSend(TftpState, TftpOurPort, TftpServerPort, TftpBlock)
           /\ UNCHANGED <<NetState, NetTryCount, packetHandler>>
  <2>1. /\ toServer' \in Seq(ClientMsg) /\ Len(toServer') <= MaxInFlight
        /\ \A j \in 1..Len(toServer') :
              \/ \E k \in 1..Len(toServer) : toServer'[j] = toServer[k]
              \/ /\ toServer'[j].type = IF TftpState = "RRQ" THEN "rrq" ELSE "ack"
                 /\ toServer'[j].sport = TftpOurPort /\ toServer'[j].block = TftpBlock
    <3>1. /\ TftpOurPort \in Ports /\ TftpServerPort \in ServerPorts \cup {WELL_KNOWN_PORT}
          /\ TftpBlock \in 0..SEQUENCE_SIZE - 1
      BY <1>0 DEF ClientTypes
    <3>2. PICK state, sport, dport, block :
             /\ state = TftpState /\ sport = TftpOurPort /\ dport = TftpServerPort
             /\ block = TftpBlock /\ TftpSend(state, sport, dport, block)
      BY <1>5 DEF TftpSend
    <3>3. /\ sport \in Ports /\ dport \in ServerPorts \cup {WELL_KNOWN_PORT}
          /\ block \in 0..SEQUENCE_SIZE - 1
      BY <3>1, <3>2
    <3>4. /\ toServer' \in Seq(ClientMsg) /\ Len(toServer') <= MaxInFlight
          /\ \A j \in 1..Len(toServer') :
                \/ \E k \in 1..Len(toServer) : toServer'[j] = toServer[k]
                \/ /\ toServer'[j].type = IF state = "RRQ" THEN "rrq" ELSE "ack"
                   /\ toServer'[j].sport = sport /\ toServer'[j].block = block
      BY <1>0, <3>2, <3>3, SendIs
    <3> QED
      BY <3>2, <3>4
  <2>2. TypeOK'
    BY <1>0, <1>1, <1>3, <1>5, <2>1 DEF TypeOK, ClientTypes, NetworkTypes
  <2>3. MemoryIsFile' /\ SessionsFollow' /\ SuccessIsComplete'
    BY <1>1, <1>5, MemoryKept
  <2>4. Stored(TftpBlock)'
    BY <1>0, <1>1 DEF IndInv, ClientHolds, Stored
  <2>5. PacketsFollow'
    <3>1. \A j \in 1..Len(toServer') :
             (\E k \in 1..Len(toServer) : toServer'[j] = toServer[k]) \/ AckStored(toServer[j])'
      BY <1>1, <2>1, <2>4 DEF AckStored
    <3> QED
      BY <1>1, <3>1, FollowStep
  <2>6. ClientHolds'
    <3>1. TftpTimeoutCount' <= TIMEOUT_COUNT + RRQ_TIMEOUT_COUNT
      BY <1>1, <1>2, <1>5
    <3> QED
      BY <1>0, <1>1, <1>5, <2>4, <3>1 DEF IndInv, ClientHolds, Active, Stored
  <2>7. ASSUME NEW p, Clean(p), p # TftpOurPort \/ TftpState = "RRQ"
        PROVE  Clean(p)'
    <3>1. \A j \in 1..Len(toServer') :
             \/ \E k \in 1..Len(toServer) : toServer'[j] = toServer[k]
             \/ toServer'[j].type # "ack" \/ toServer'[j].sport # p
      BY <2>1, <2>7
    <3> QED
      BY <1>1, <2>7, <3>1, CleanStep
  <2>8. PortsClean'
    BY <1>0, <1>1, <1>5, <2>7 DEF IndInv, PortsClean, Active
  <2> QED
    BY <2>2, <2>3, <2>5, <2>6, <2>8 DEF IndInv
<1>6. TftpTimeoutCountMax \in Nat /\ TftpTimeoutCount' \in Nat
  BY <1>1, <1>2
<1> QED
  BY <1>4, <1>5, <1>6 DEF TftpTimeout

LEMMA StartAgainStep ==
    ASSUME IndInv, StartAgainTimeout
    PROVE  IndInv'
<1>0. ClientTypes /\ NetworkTypes /\ NetState = "CONTINUE" /\ packetHandler = "ignore"
  BY TypeParts DEF IndInv, StartAgainTimeout
<1>1. PICK port \in Ports : (PortsDiffer => port # TftpOurPort) /\ TftpStart(port)
  BY DEF StartAgainTimeout
<1>2. /\ UNCHANGED <<TftpLastBlock, TftpBlockWrapOffset, memory, NetState, NetTryCount, sessions, toClient>>
      /\ TftpTimeoutCountMax' = RRQ_TIMEOUT_COUNT /\ TftpTimeoutCount' = 0
      /\ packetHandler' = "tftp" /\ TftpServerPort' = WELL_KNOWN_PORT
      /\ TftpState' = "RRQ" /\ TftpOurPort' = port /\ TftpBlock' = 0
      /\ TftpBlkSize' = TFTP_BLOCK_SIZE /\ NetBootFileXferSize' = 0
  BY <1>1 DEF TftpStart, StartAgainTimeout
<1>3. /\ toServer' \in Seq(ClientMsg) /\ Len(toServer') <= MaxInFlight
      /\ \A j \in 1..Len(toServer') :
            (\E k \in 1..Len(toServer) : toServer'[j] = toServer[k]) \/ toServer'[j].type = "rrq"
  <2>1. TftpSend("RRQ", port, WELL_KNOWN_PORT, 0) /\ 0 \in 0..SEQUENCE_SIZE - 1
    BY <1>1, Constants DEF TftpStart
  <2> QED
    BY <1>0, <2>1, SendIs
<1>4. TypeOK'
  BY <1>0, <1>2, <1>3, Constants DEF TypeOK, ClientTypes, NetworkTypes
<1>5. MemoryIsFile' /\ SessionsFollow' /\ SuccessIsComplete'
  BY <1>0, <1>2, MemoryKept
<1>6. PacketsFollow'
  <2>1. \A j \in 1..Len(toServer') :
           (\E k \in 1..Len(toServer) : toServer'[j] = toServer[k]) \/ AckStored(toServer[j])'
    BY <1>3 DEF AckStored
  <2> QED
    BY <1>2, <2>1, FollowStep
<1>7. ClientHolds'
  <2>1. Stored(0) /\ 0 <= TIMEOUT_COUNT + RRQ_TIMEOUT_COUNT
    BY NoBlock, Constants
  <2> QED
    BY <1>2, <2>1 DEF ClientHolds, Stored
<1>8. PortsClean'
  <2>1. ASSUME Oack, PortsDiffer, NetRetry <= 2 PROVE Clean(port)'
    <3>1. Clean(port)
      BY <1>0, <1>1, <2>1 DEF IndInv, PortsClean
    <3> QED
      BY <1>2, <1>3, <3>1, CleanStep
  <2>2. NetTryCount' # 1
    BY <1>0, <1>2 DEF IndInv, ClientHolds
  <2> QED
    BY <1>2, <2>1, <2>2 DEF PortsClean, Clean
<1> QED
  BY <1>4, <1>5, <1>6, <1>7, <1>8 DEF IndInv

LEMMA IgnoredStep ==
    ASSUME IndInv, NEW i \in 1..Len(toClient), toClient' = Without(toClient, i),
           UNCHANGED <<clientVars, toServer, sessions>>
    PROVE  IndInv'
BY LoseStep DEF Lose

LEMMA OackStep ==
    ASSUME IndInv, Active, NEW i \in 1..Len(toClient), toClient' = Without(toClient, i),
           HandleOack(toClient[i]), UNCHANGED sessions
    PROVE  IndInv'
<1>0. ClientTypes /\ NetworkTypes
  BY TypeParts DEF IndInv
<1>1. /\ toClient' \in Seq(ServerMsg) /\ Len(toClient') <= MaxInFlight
      /\ \A j \in 1..Len(toClient') : \E k \in 1..Len(toClient) : toClient'[j] = toClient[k]
      /\ toClient[i] \in ServerMsg
  BY <1>0, Received
<1>2. PICK m : m = toClient[i]
  OBVIOUS
<1>3. HandleOack(m) /\ m \in ServerMsg /\ DataFollows(m)
  BY <1>1, <1>2 DEF IndInv, PacketsFollow
<1>4. m.type = "oack" /\ m.size = ServerSize /\ m.sport \in ServerPorts /\ m.size \in BlkSizes
  BY <1>3 DEF HandleOack, DataFollows, ServerMsg
<1>5. /\ UNCHANGED <<TftpOurPort, TftpBlock, TftpLastBlock, TftpBlockWrapOffset,
                     TftpTimeoutCount, TftpTimeoutCountMax,
                     packetHandler, NetState, NetTryCount, memory, NetBootFileXferSize>>
      /\ TftpState' = "OACK" /\ TftpServerPort' = m.sport /\ TftpBlkSize' = m.size
  BY <1>3 DEF HandleOack, timerVars, fileVars
<1>6. /\ toServer' \in Seq(ClientMsg) /\ Len(toServer') <= MaxInFlight
      /\ \A j \in 1..Len(toServer') :
            \/ \E k \in 1..Len(toServer) : toServer'[j] = toServer[k]
            \/ toServer'[j].sport = TftpOurPort /\ toServer'[j].block = TftpBlock
  <2>1. /\ TftpOurPort \in Ports /\ TftpBlock \in 0..SEQUENCE_SIZE - 1
        /\ m.sport \in ServerPorts \cup {WELL_KNOWN_PORT}
    BY <1>0, <1>4 DEF ClientTypes
  <2>2. PICK sport, dport, block :
           /\ sport = TftpOurPort /\ dport = m.sport
           /\ block = TftpBlock /\ TftpSend("OACK", sport, dport, block)
    BY <1>3 DEF HandleOack, TftpSend
  <2> QED
    BY <1>0, <2>1, <2>2, SendIs
<1>7. TypeOK'
  BY <1>0, <1>1, <1>4, <1>5, <1>6 DEF TypeOK, ClientTypes, NetworkTypes
<1>8. MemoryIsFile' /\ SessionsFollow' /\ SuccessIsComplete'
  BY <1>5, MemoryKept
<1>9. Stored(TftpBlock)'
  BY <1>5 DEF IndInv, ClientHolds, Stored
<1>10. PacketsFollow'
  <2>1. \A j \in 1..Len(toServer') :
           (\E k \in 1..Len(toServer) : toServer'[j] = toServer[k]) \/ AckStored(toServer[j])'
    BY <1>5, <1>6, <1>9 DEF AckStored
  <2> QED
    BY <1>1, <1>5, <2>1, FollowStep
<1>11. ClientHolds'
  BY <1>4, <1>5, <1>9 DEF IndInv, ClientHolds, Active
<1>12. PortsClean'
  <2>1. ASSUME NEW p, Clean(p), p # TftpOurPort PROVE Clean(p)'
    <3>1. \A j \in 1..Len(toServer') :
             \/ \E k \in 1..Len(toServer) : toServer'[j] = toServer[k]
             \/ toServer'[j].type # "ack" \/ toServer'[j].sport # p
      BY <1>6, <2>1
    <3> QED
      BY <1>1, <2>1, <3>1, CleanStep
  <2> QED
    BY <1>5, <2>1 DEF IndInv, PortsClean, Active
<1> QED
  BY <1>7, <1>8, <1>10, <1>11, <1>12 DEF IndInv

\* A packet that ends the handling of packets and leaves the memory as it is.
LEMMA EndStep ==
    ASSUME IndInv, Active, NEW i \in 1..Len(toClient), toClient' = Without(toClient, i),
           UNCHANGED <<sessions, TftpOurPort, memory, NetBootFileXferSize, toServer>>,
           ClientTypes', TftpBlockWrapOffset' = 0,
           \/ NetStartAgain
           \/ NetState' = "FAIL" /\ UNCHANGED <<NetTryCount, packetHandler>>
    PROVE  IndInv'
<1>0. ClientTypes /\ NetworkTypes
  BY TypeParts DEF IndInv
<1>1. /\ toClient' \in Seq(ServerMsg) /\ Len(toClient') <= MaxInFlight
      /\ \A j \in 1..Len(toClient') : \E k \in 1..Len(toClient) : toClient'[j] = toClient[k]
  BY <1>0, Received
<1>2. /\ ~Active' /\ NetState' \in {"CONTINUE", "FAIL"}
      /\ packetHandler' = "ignore" => NetTryCount' # 1
      /\ NetRetry <= 2 /\ (NetTryCount' = 1 \/ packetHandler' = "ignore") => NetTryCount = 1
  <2>1. CASE NetStartAgain
    BY <1>0, <2>1, StartAgainIs
  <2>2. CASE NetState' = "FAIL" /\ UNCHANGED <<NetTryCount, packetHandler>>
    BY <2>2 DEF Active
  <2> QED
    BY <2>1, <2>2
<1>3. TypeOK'
  BY <1>0, <1>1 DEF TypeOK, ClientTypes, NetworkTypes
<1>4. TftpBlockWrapOffset = 0
  BY DEF IndInv, MemoryIsFile
<1>5. MemoryIsFile' /\ SessionsFollow' /\ SuccessIsComplete'
  BY <1>2, <1>4, MemoryKept
<1>6. PacketsFollow'
  BY <1>1, FollowStep
<1>7. ClientHolds'
  BY <1>2 DEF ClientHolds
<1>8. PortsClean'
  <2>1. ASSUME NEW p, Clean(p) PROVE Clean(p)'
    BY <1>1, <2>1, CleanStep
  <2> QED
    BY <1>2, <2>1 DEF IndInv, PortsClean
<1> QED
  BY <1>3, <1>5, <1>6, <1>7, <1>8 DEF IndInv

LEMMA ErrorStep ==
    ASSUME IndInv, Active, NEW i \in 1..Len(toClient), toClient' = Without(toClient, i),
           HandleError(toClient[i]), UNCHANGED sessions
    PROVE  IndInv'
<1>0. ClientTypes /\ NetworkTypes
  BY TypeParts DEF IndInv
<1>1. /\ UNCHANGED <<TftpState, TftpServerPort, TftpOurPort, TftpBlock, TftpLastBlock,
                     TftpBlockWrapOffset, TftpBlkSize, TftpTimeoutCount, TftpTimeoutCountMax,
                     memory, NetBootFileXferSize, toServer>>
      /\ \/ NetStartAgain
         \/ NetState' = "FAIL" /\ UNCHANGED <<NetTryCount, packetHandler>>
  BY DEF HandleError, timerVars, fileVars
<1>2. /\ NetState' \in {"CONTINUE", "FAIL"} /\ packetHandler' \in {"tftp", "ignore"}
      /\ NetTryCount' \in 1..NetRetry + 1
  BY <1>0, <1>1, StartAgainIs DEF ClientTypes
<1>3. ClientTypes'
  BY <1>0, <1>1, <1>2 DEF ClientTypes
<1>4. TftpBlockWrapOffset' = 0
  BY <1>1 DEF IndInv, MemoryIsFile
<1> QED
  BY <1>1, <1>3, <1>4, EndStep

\* store_block puts block n where it belongs.
LEMMA StoreIs ==
    ASSUME ClientTypes, MemoryIsFile, NEW m, NEW n \in 1..LastBlock(ServerSize),
           m.number = n, m.block = n, m.size = ServerSize, TftpBlkSize = ServerSize,
           StoreBlock(m, 0)
    PROVE  /\ DOMAIN memory' = DOMAIN memory \cup First(n)..End(n) - 1
           /\ DOMAIN memory' \subseteq File /\ BlocksInPlace'
           /\ NetBootFileXferSize' \in Nat /\ NetBootFileXferSize' <= FileSize
           /\ End(n) <= NetBootFileXferSize'
           /\ Stored(n)'
<1> DEFINE lo == First(n)
           hi == End(n)
<1>1. /\ lo \in Nat /\ hi \in Nat /\ lo <= hi /\ hi <= FileSize /\ FileSize \in Nat /\ n \in Nat
      /\ Cardinality(Units(n, ServerSize)) = hi - lo
      /\ Units(n, ServerSize) = lo..hi - 1
  BY UnitsAre, SizeIs
<1>2. 0 + n * ServerSize - ServerSize = lo /\ (n - 1) * ServerSize = lo
  <2>1. ServerSize \in Nat
    BY SizeIs
  <2> QED
    BY <1>1, <2>1 DEF First
<1> HIDE DEF lo, hi
<1>3. /\ memory' = [o \in DOMAIN memory \cup lo..hi - 1 |->
                      IF o < lo \/ o >= hi THEN memory[o] ELSE o - lo + lo]
      /\ NetBootFileXferSize' = IF NetBootFileXferSize < hi THEN hi ELSE NetBootFileXferSize
  <2>1. lo + (hi - lo) = hi
    BY <1>1
  <2> QED
    BY <1>1, <1>2, <2>1 DEF StoreBlock
<1>4. DOMAIN memory \subseteq File /\ (\A o \in DOMAIN memory : memory[o] = o)
  BY DEF MemoryIsFile, BlocksInPlace
<1>5. DOMAIN memory' = DOMAIN memory \cup lo..hi - 1
  BY <1>3
<1>6. DOMAIN memory' \subseteq File
  BY <1>1, <1>4, <1>5 DEF File
<1>7. BlocksInPlace'
  <2>1. ASSUME NEW o \in DOMAIN memory' PROVE memory'[o] = o
    <3>1. o \in Nat
      BY <1>1, <1>6 DEF File
    <3>2. memory'[o] = IF o < lo \/ o >= hi THEN memory[o] ELSE o - lo + lo
      BY <1>3, <1>5
    <3>3. o < lo \/ o >= hi => o \in DOMAIN memory
      BY <1>1, <1>5, <3>1
    <3>4. o - lo + lo = o
      BY <1>1, <3>1
    <3> QED
      BY <1>4, <3>2, <3>3, <3>4
  <2> QED
    BY <2>1 DEF BlocksInPlace
<1>8. /\ NetBootFileXferSize' \in Nat /\ NetBootFileXferSize' <= FileSize
      /\ hi <= NetBootFileXferSize'
  <2>1. NetBootFileXferSize \in Nat /\ NetBootFileXferSize <= FileSize
    BY DEF ClientTypes, MemoryIsFile
  <2> QED
    BY <1>1, <1>3, <2>1
<1>9. Stored(n)'
  <2>1. ASSUME NEW u \in File, u \div ServerSize = n - 1 PROVE u \in DOMAIN memory'
    <3>1. u \in Units(n, ServerSize)
      BY <2>1 DEF Units, File
    <3> QED
      BY <1>1, <1>5, <3>1
  <2> QED
    BY <2>1 DEF Stored
<1> QED
  BY <1>5, <1>6, <1>7, <1>8, <1>9 DEF lo, hi

\* A short block is the last one: with the blocks before it, the file is complete.
LEMMA ShortIsLast ==
    ASSUME NEW n \in 1..LastBlock(ServerSize), Before(n), NEW M,
           M = DOMAIN memory \cup First(n)..End(n) - 1,
           Cardinality(Units(n, ServerSize)) < ServerSize
    PROVE  End(n) = FileSize /\ \A u \in File : u \in M
<1> DEFINE lo == First(n)
           hi == End(n)
<1>1. /\ lo \in Nat /\ hi \in Nat /\ lo <= hi /\ hi <= FileSize /\ FileSize \in Nat
      /\ Cardinality(Units(n, ServerSize)) = hi - lo
      /\ \A u \in Nat : u \div ServerSize + 1 < n <=> u < lo
  BY UnitsAre, SizeIs
<1>2. hi = IF lo + ServerSize <= FileSize THEN lo + ServerSize ELSE FileSize
  BY DEF End
<1> HIDE DEF lo, hi
<1>3. ServerSize \in Nat
  BY SizeIs
<1>4. hi = FileSize
  BY <1>1, <1>2, <1>3
<1>5. ASSUME NEW u \in File PROVE u \in M
  <2>1. u \in Nat /\ u < FileSize
    BY <1>1 DEF File
  <2>2. CASE u < lo
    BY <1>1, <2>1, <2>2 DEF Before
  <2>3. CASE ~(u < lo)
    <3>1. u \in lo..hi - 1
      BY <1>1, <1>4, <2>1, <2>3
    <3> QED
      BY <3>1 DEF lo, hi
  <2> QED
    BY <2>2, <2>3
<1> QED
  BY <1>4, <1>5 DEF hi

\* What is known of a data packet that is accepted: the sizes agree.
LEMMA DataIs ==
    ASSUME NoWrap, SizeAgreed, IndInv, NEW i \in 1..Len(toClient), Accepts(toClient[i]),
           toClient[i].type = "data", NetState = "CONTINUE"
    PROVE  /\ DataFollows(toClient[i]) /\ toClient[i].sport \in ServerPorts
           /\ toClient[i].block \in 1..LastBlock(ServerSize)
           /\ toClient[i].block \in 1..SEQUENCE_SIZE - 1
           /\ TftpBlkSize = ServerSize
<1>1. toClient[i] \in ServerMsg /\ DataFollows(toClient[i])
  BY DEF IndInv, TypeOK, PacketsFollow
<1>2. toClient[i].block \in 1..LastBlock(ServerSize)
  BY <1>1 DEF DataFollows
<1>3. toClient[i].block \in 1..SEQUENCE_SIZE - 1
  BY <1>2, SizeIs, Constants DEF NoWrap
<1>4. toClient[i].sport \in ServerPorts
  BY <1>1 DEF ServerMsg
<1>5. TftpBlkSize = ServerSize
  <2>1. Active /\ toClient[i].dport = TftpOurPort
    BY DEF Accepts, Active
  <2>2. CASE TftpState # "RRQ"
    BY <2>1, <2>2 DEF IndInv, ClientHolds
  <2>3. CASE TftpState = "RRQ"
    <3>1. TftpBlkSize = TFTP_BLOCK_SIZE
      BY <2>1, <2>3 DEF IndInv, ClientHolds
    <3>2. CASE ServerSize # TFTP_BLOCK_SIZE
      <4>1. Oack /\ PortsDiffer /\ NetRetry <= 2
        BY <3>2 DEF SizeAgreed, ServerSize
      <4>2. Clean(TftpOurPort)
        BY <2>1, <2>3, <4>1 DEF IndInv, PortsClean
      <4> QED
        BY <2>1, <4>2 DEF Clean
    <3> QED
      BY <3>1, <3>2
  <2> QED
    BY <2>2, <2>3
<1> QED
  BY <1>1, <1>2, <1>3, <1>4, <1>5

LEMMA DataStep ==
    ASSUME NoWrap, SizeAgreed, IndInv, NetState = "CONTINUE",
           NEW i \in 1..Len(toClient), toClient' = Without(toClient, i),
           Accepts(toClient[i]), HandleData(toClient[i]), UNCHANGED sessions
    PROVE  IndInv'
<1>0. ClientTypes /\ NetworkTypes /\ Active
  BY TypeParts DEF IndInv, Accepts, Active
<1>1. /\ toClient' \in Seq(ServerMsg) /\ Len(toClient') <= MaxInFlight
      /\ \A j \in 1..Len(toClient') : \E k \in 1..Len(toClient) : toClient'[j] = toClient[k]
  BY <1>0, Received
<1>2. PICK m : m = toClient[i]
  OBVIOUS
<1>3. HandleData(m) /\ m.type = "data"
  BY <1>2 DEF HandleData
<1>4. /\ DataFollows(m) /\ m.sport \in ServerPorts
      /\ m.block \in 1..LastBlock(ServerSize) /\ m.block \in 1..SEQUENCE_SIZE - 1
      /\ TftpBlkSize = ServerSize
  BY <1>2, <1>3, DataIs
<1>5. m.number = m.block /\ m.size = ServerSize /\ Before(m.block)
  BY <1>3, <1>4 DEF DataFollows
<1>6. m.block # 0 /\ TftpBlockWrapOffset = 0 /\ CountWrap(m.block) = 0
  BY <1>4 DEF IndInv, MemoryIsFile, CountWrap
<1> DEFINE starting == TftpState \in {"RRQ", "OACK"}
           last == IF starting THEN 0 ELSE TftpLastBlock
<1>7. /\ TftpBlock' = m.block /\ TftpState' = "DATA"
      /\ TftpServerPort' \in ServerPorts \cup {WELL_KNOWN_PORT}
      /\ TftpBlockWrapOffset' = 0
      /\ UNCHANGED <<TftpOurPort, TftpBlkSize, TftpTimeoutCount>>
  BY <1>0, <1>3, <1>4, <1>6 DEF HandleData, ClientTypes
<1>8. TftpBlock' \in 0..SEQUENCE_SIZE - 1
  BY <1>4, <1>7, Constants
<1>9. CASE /\ TftpLastBlock' = 0 /\ NetStartAgain
           /\ UNCHANGED <<TftpTimeoutCountMax, fileVars, toServer>>
  <2>1. /\ NetState' \in {"CONTINUE", "FAIL"} /\ packetHandler' \in {"tftp", "ignore"}
        /\ NetTryCount' \in 1..NetRetry + 1
    BY <1>0, <1>9, StartAgainIs
  <2>2. ClientTypes'
    BY <1>0, <1>7, <1>8, <1>9, <2>1, Constants DEF ClientTypes, fileVars
  <2> QED
    BY <1>0, <1>7, <1>9, <2>2, EndStep DEF fileVars
<1>10. CASE /\ m.block = last /\ TftpLastBlock' = last
            /\ UNCHANGED <<TftpTimeoutCountMax, NetState, NetTryCount, packetHandler, fileVars, toServer>>
  <2>1. TftpState = "DATA" /\ m.block = TftpLastBlock /\ TftpLastBlock' = TftpLastBlock
    BY <1>0, <1>6, <1>10 DEF ClientTypes
  <2>2. /\ UNCHANGED <<TftpTimeoutCountMax, NetState, NetTryCount, packetHandler, memory,
                       NetBootFileXferSize, toServer>>
        /\ UNCHANGED <<TftpState, TftpOurPort, TftpBlkSize, TftpTimeoutCount>>
        /\ TftpBlock' = TftpLastBlock
    BY <1>7, <1>10, <2>1 DEF fileVars
  <2>3. TypeOK'
    BY <1>0, <1>1, <1>7, <1>8, <2>1, <2>2 DEF TypeOK, ClientTypes, NetworkTypes
  <2>4. MemoryIsFile' /\ SessionsFollow' /\ SuccessIsComplete'
    BY <1>6, <1>7, <2>2, MemoryKept
  <2>5. PacketsFollow'
    BY <1>1, <2>2, FollowStep
  <2>6. ClientHolds'
    BY <1>0, <2>1, <2>2 DEF IndInv, ClientHolds, Active, Stored
  <2>7. PortsClean'
    <3>1. ASSUME NEW p, Clean(p) PROVE Clean(p)'
      BY <1>1, <2>2, <3>1, CleanStep
    <3> QED
      BY <2>2, <3>1 DEF IndInv, PortsClean, Active
  <2> QED
    BY <2>3, <2>4, <2>5, <2>6, <2>7 DEF IndInv
<1>11. CASE /\ TftpLastBlock' = m.block /\ TftpTimeoutCountMax' = TIMEOUT_COUNT
            /\ StoreBlock(m, 0)
            /\ TftpSend("DATA", TftpOurPort, TftpServerPort', m.block)
            /\ NetState' = IF Cardinality(Units(m.number, m.size)) < TftpBlkSize
                           THEN "SUCCESS" ELSE NetState
            /\ UNCHANGED <<NetTryCount, packetHandler>>
  <2>1. /\ DOMAIN memory' = DOMAIN memory \cup First(m.block)..End(m.block) - 1
        /\ DOMAIN memory' \subseteq File /\ BlocksInPlace'
        /\ NetBootFileXferSize' \in Nat /\ NetBootFileXferSize' <= FileSize
        /\ End(m.block) <= NetBootFileXferSize'
        /\ Stored(m.block)'
    <3>1. MemoryIsFile
      BY DEF IndInv
    <3> QED
      BY <1>0, <1>4, <1>5, <1>11, <3>1, StoreIs
  <2>2. DOMAIN memory \subseteq DOMAIN memory'
    BY <2>1
  <2>3. /\ toServer' \in Seq(ClientMsg) /\ Len(toServer') <= MaxInFlight
        /\ \A j \in 1..Len(toServer') :
              \/ \E k \in 1..Len(toServer) : toServer'[j] = toServer[k]
              \/ toServer'[j].sport = TftpOurPort /\ toServer'[j].block = m.block
    <3>1. TftpOurPort \in Ports /\ m.block \in 0..SEQUENCE_SIZE - 1
      BY <1>0, <1>7, <1>8 DEF ClientTypes
    <3>2. PICK sport, dport, block :
             /\ sport = TftpOurPort /\ dport = TftpServerPort'
             /\ block = m.block /\ TftpSend("DATA", sport, dport, block)
      BY <1>11 DEF TftpSend
    <3> QED
      BY <1>0, <1>7, <3>1, <3>2, SendIs
  <2>4. TypeOK'
    <3>1. \A o \in DOMAIN memory' : memory'[o] \in 0..FileSize - 1 /\ o \in Nat
      BY <2>1, SizeIs DEF BlocksInPlace, File
    <3> QED
      BY <1>0, <1>1, <1>7, <1>8, <1>11, <2>1, <2>3, <3>1 DEF TypeOK, ClientTypes, NetworkTypes
  <2>5. MemoryIsFile'
    BY <1>7, <2>1 DEF MemoryIsFile
  <2>6. SessionsFollow'
    BY <2>2 DEF IndInv, SessionsFollow, Before
  <2>7. PacketsFollow'
    <3>1. \A j \in 1..Len(toServer') :
             (\E k \in 1..Len(toServer) : toServer'[j] = toServer[k]) \/ AckStored(toServer[j])'
      <4>1. \A b : b = m.block => \A u \in File : u \div ServerSize = b - 1 => u \in DOMAIN memory'
        BY <2>1 DEF Stored
      <4> QED
        BY <2>3, <4>1 DEF AckStored, Stored
    <3> QED
      BY <1>1, <2>2, <3>1, FollowStep
  <2>8. ClientHolds'
    <3>1. Stored(TftpBlock)' /\ Stored(TftpLastBlock)'
      BY <1>7, <1>11, <2>1 DEF Stored
    <3>2. TftpTimeoutCount <= TIMEOUT_COUNT + RRQ_TIMEOUT_COUNT /\ packetHandler = "tftp"
      BY <1>0 DEF IndInv, ClientHolds, Active
    <3> QED
      BY <1>4, <1>7, <1>11, <3>1, <3>2 DEF ClientHolds
  <2>9. PortsClean'
    <3>1. ASSUME NEW p, Clean(p), p # TftpOurPort PROVE Clean(p)'
      <4>1. \A j \in 1..Len(toServer') :
               \/ \E k \in 1..Len(toServer) : toServer'[j] = toServer[k]
               \/ toServer'[j].type # "ack" \/ toServer'[j].sport # p
        BY <2>3, <3>1
      <4> QED
        BY <1>1, <3>1, <4>1, CleanStep
    <3> QED
      BY <1>7, <1>11, <3>1 DEF IndInv, PortsClean
  <2>10. SuccessIsComplete'
    <3>1. CASE Cardinality(Units(m.block, ServerSize)) < ServerSize
      <4>1. End(m.block) = FileSize /\ \A u \in File : u \in DOMAIN memory'
        BY <1>4, <1>5, <2>1, <3>1, ShortIsLast
      <4>2. NetBootFileXferSize' = FileSize
        BY <2>1, <4>1, SizeIs
      <4> QED
        BY <2>1, <4>1, <4>2 DEF SuccessIsComplete, BlocksInPlace, File
    <3>2. CASE ~(Cardinality(Units(m.block, ServerSize)) < ServerSize)
      <4>1. NetState' = "CONTINUE"
        BY <1>4, <1>5, <1>11, <3>2
      <4> QED
        BY <4>1 DEF SuccessIsComplete
    <3> QED
      BY <3>1, <3>2
  <2> QED
    BY <2>4, <2>5, <2>6, <2>7, <2>8, <2>9, <2>10 DEF IndInv
<1> QED
  BY <1>3, <1>6, <1>9, <1>10, <1>11 DEF HandleData

LEMMA ClientReceiveStep ==
    ASSUME NoWrap, SizeAgreed, IndInv, ClientReceive
    PROVE  IndInv'
<1>1. PICK i \in Deliverable(toClient) :
         /\ toClient' = Without(toClient, i)
         /\ \/ ~Accepts(toClient[i]) /\ UNCHANGED <<clientVars, toServer>>
            \/ /\ Accepts(toClient[i])
               /\ \/ HandleOack(toClient[i])
                  \/ HandleData(toClient[i])
                  \/ HandleError(toClient[i])
  BY DEF ClientReceive
<1>2. i \in 1..Len(toClient) /\ NetState = "CONTINUE" /\ UNCHANGED sessions
  BY DEF Deliverable, ClientReceive
<1>3. Accepts(toClient[i]) => Active
  BY <1>2 DEF Accepts, Active
<1>4. CASE ~Accepts(toClient[i]) /\ UNCHANGED <<clientVars, toServer>>
  BY <1>1, <1>2, <1>4, IgnoredStep
<1>5. CASE Accepts(toClient[i]) /\ HandleOack(toClient[i])
  BY <1>1, <1>2, <1>3, <1>5, OackStep
<1>6. CASE Accepts(toClient[i]) /\ HandleData(toClient[i])
  BY <1>1, <1>2, <1>6, DataStep
<1>7. CASE Accepts(toClient[i]) /\ HandleError(toClient[i])
  BY <1>1, <1>2, <1>3, <1>7, ErrorStep
<1> QED
  BY <1>1, <1>4, <1>5, <1>6, <1>7
-----------------------------------------------------------------------------
(* The theorems. *)

LEMMA InitInv == Init => IndInv
<1> SUFFICES ASSUME Init PROVE IndInv
  OBVIOUS
<1>1. /\ sessions = <<>> /\ toClient = <<>> /\ Len(sessions) = 0 /\ Len(toClient) = 0
      /\ DOMAIN memory = {}
  BY DEF Init
<1> DEFINE m == [type |-> "rrq", sport |-> TftpOurPort, dport |-> WELL_KNOWN_PORT, block |-> 0]
<1>2. m \in ClientMsg /\ m.type = "rrq"
  BY Constants DEF Init, ClientMsg
<1>3. toServer = <<m>>
  BY DEF Init
<1> HIDE DEF m
<1>4. toServer \in Seq(ClientMsg) /\ Len(toServer) = 1 /\ toServer[1] = m
  BY <1>2, <1>3
<1>5. MaxInFlight >= 1
  BY TftpAssumption
<1>6. NetworkTypes
  BY <1>1, <1>4, <1>5, Constants DEF NetworkTypes
<1>7. ClientTypes
  BY <1>1, Constants, TftpAssumption DEF Init, ClientTypes
<1>8. TypeOK
  BY <1>6, <1>7, TypeParts
<1>9. MemoryIsFile
  BY <1>1, SizeIs DEF Init, MemoryIsFile, BlocksInPlace
<1>10. SessionsFollow
  BY <1>1 DEF SessionsFollow
<1>11. \A j \in 1..Len(toServer) : toServer[j].type # "ack"
  BY <1>2, <1>4
<1>12. PacketsFollow
  BY <1>1, <1>11 DEF PacketsFollow, AckStored
<1>13. ClientHolds
  BY NoBlock, Constants DEF Init, ClientHolds
<1>14. PortsClean
  BY <1>1, <1>11 DEF PortsClean, Clean
<1>15. SuccessIsComplete
  BY DEF Init, SuccessIsComplete
<1> QED
  BY <1>8, <1>9, <1>10, <1>12, <1>13, <1>14, <1>15 DEF IndInv

LEMMA StutterStep ==
    ASSUME IndInv, UNCHANGED vars
    PROVE  IndInv'
<1>1. UNCHANGED clientVars /\ UNCHANGED <<sessions, toServer, toClient>>
  BY DEF vars
<1>2. memory' = memory /\ NetworkTypes
  BY <1>1, TypeParts DEF clientVars, IndInv
<1>3. NetworkTypes'
  BY <1>1, <1>2 DEF NetworkTypes
<1>4. SessionsFollow'
  BY <1>1, <1>2 DEF IndInv, SessionsFollow, Before
<1>5. PacketsFollow'
  BY <1>1, <1>2, FollowStep
<1>6. \A p \in Ports : Clean(p) => Clean(p)'
  BY <1>1 DEF Clean
<1> QED
  BY <1>1, <1>3, <1>4, <1>5, <1>6, NetworkStep

LEMMA Invariant ==
    ASSUME NoWrap, SizeAgreed
    PROVE  Spec => []IndInv
<1>1. Init => IndInv
  BY InitInv
<1>2. IndInv /\ [Next]_vars => IndInv'
  BY ClientReceiveStep, TimeoutStep, StartAgainStep, ServerReceiveStep, ServerTimeoutStep,
     LoseStep, StutterStep DEF Next
<1> QED
  BY <1>1, <1>2, PTL DEF Spec

\* The types.
THEOREM TypeCorrect ==
    ASSUME NoWrap, SizeAgreed
    PROVE  Spec => []TypeOK
<1>1. IndInv => TypeOK
  BY DEF IndInv
<1> QED
  BY <1>1, Invariant, PTL

\* store_block writes each block where it belongs in the image, whatever was lost,
\* repeated or reordered, and whatever an earlier attempt left in memory.
THEOREM InPlace ==
    ASSUME NoWrap, SizeAgreed
    PROVE  Spec => []BlocksInPlace
<1>1. IndInv => BlocksInPlace
  BY DEF IndInv, MemoryIsFile
<1> QED
  BY <1>1, Invariant, PTL

\* When the short block sets NETLOOP_SUCCESS the whole file is in memory, and its size is
\* the one that is reported.
THEOREM WholeFile ==
    ASSUME NoWrap, SizeAgreed
    PROVE  Spec => []SuccessIsComplete
<1>1. IndInv => SuccessIsComplete
  BY DEF IndInv
<1> QED
  BY <1>1, Invariant, PTL

\* TftpSend acknowledges only blocks that are stored, and so the server never goes past
\* one that is not.
THEOREM NeverAhead ==
    ASSUME NoWrap, SizeAgreed
    PROVE  Spec => []ServerNeverAhead
<1>1. IndInv => ServerNeverAhead
  BY DEF IndInv, SessionsFollow, Before, File, ServerNeverAhead
<1> QED
  BY <1>1, Invariant, PTL
=============================================================================
