---------------------------- MODULE YmodemProofs ----------------------------
(***************************************************************************)
(* Theorems about Ymodem, for every file, block size, modulus of the block *)
(* numbers and number of tries.                                            *)
(*                                                                         *)
(* The types hold without conditions.  What is received is right under the *)
(* conditions named below, each of which is needed: without it TLC finds a *)
(* behaviour that stores a unit twice or loses one.                        *)
(***************************************************************************)
EXTENDS Ymodem, TLAPS, SequenceTheorems, WellFoundedInduction

(***************************************************************************)
(* Short sequences.                                                        *)
(***************************************************************************)

\* What is left of a reply of up to three characters, or of up to three items on the
\* line, when the first one is taken.
LEMMA TailIs ==
  ASSUME NEW a, NEW b, NEW c
  PROVE  Tail(<<a>>) = <<>> /\ Tail(<<a, b>>) = <<b>> /\ Tail(<<a, b, c>>) = <<b, c>>
<1>1. Tail(<<a>>) = <<>>
  <2>1. <<a>> \in Seq({a}) /\ <<a>> # <<>> /\ Len(<<a>>) = 1
    OBVIOUS
  <2>2. Tail(<<a>>) \in Seq({a}) /\ Len(Tail(<<a>>)) = 0
    BY <2>1, HeadTailProperties
  <2> QED BY <2>2, EmptySeq
<1>2. Tail(<<a, b>>) = <<b>>
  <2>1. <<a, b>> \in Seq({a, b}) /\ <<a, b>> # <<>> /\ Len(<<a, b>>) = 2 /\ <<a, b>>[2] = b
    OBVIOUS
  <2>2. Tail(<<a, b>>) \in Seq({a, b}) /\ Len(Tail(<<a, b>>)) = 1 /\ Tail(<<a, b>>)[1] = b
    BY <2>1, HeadTailProperties
  <2>3. <<b>> \in Seq({a, b}) /\ Len(<<b>>) = 1 /\ <<b>>[1] = b
    OBVIOUS
  <2> QED BY <2>2, <2>3, SeqEqual
<1>3. Tail(<<a, b, c>>) = <<b, c>>
  <2> DEFINE S == {a, b, c}
  <2>1. <<a, b, c>> \in Seq(S) /\ <<a, b, c>> # <<>> /\ Len(<<a, b, c>>) = 3 /\ <<a, b, c>>[2] = b /\ <<a, b, c>>[3] = c
    OBVIOUS
  <2>2. /\ Tail(<<a, b, c>>) \in Seq(S) /\ Len(Tail(<<a, b, c>>)) = 2
        /\ Tail(<<a, b, c>>)[1] = b /\ Tail(<<a, b, c>>)[2] = c
    BY <2>1, HeadTailProperties
  <2>3. <<b, c>> \in Seq(S) /\ Len(<<b, c>>) = 2 /\ <<b, c>>[1] = b /\ <<b, c>>[2] = c
    OBVIOUS
  <2> QED BY <2>2, <2>3, SeqEqual
<1> QED BY <1>1, <1>2, <1>3

\* What a reply makes of an empty line, and a transmission of one with up to one item.
LEMMA JoinIs ==
  ASSUME NEW a, NEW b
  PROVE  /\ Append(<<>>, a) = <<a>> /\ Append(<<a>>, b) = <<a, b>>
         /\ <<>> \o <<a>> = <<a>> /\ <<a>> \o <<b>> = <<a, b>>
         /\ Head(<<a>>) = a /\ Head(<<a, b>>) = a
         /\ <<a>> # <<>> /\ <<a, b>> # <<>> /\ <<a>> # <<a, b>>
<1>1. Append(<<>>, a) = <<a>>
  OBVIOUS
<1>2. Append(<<a>>, b) = <<a, b>>
  <2>1. <<a>> \in Seq({a, b}) /\ Len(<<a>>) = 1 /\ <<a>>[1] = a /\ b \in {a, b}
    OBVIOUS
  <2>2. /\ Append(<<a>>, b) \in Seq({a, b}) /\ Len(Append(<<a>>, b)) = 2
        /\ Append(<<a>>, b)[1] = a /\ Append(<<a>>, b)[2] = b
    BY <2>1, AppendProperties
  <2>3. <<a, b>> \in Seq({a, b}) /\ Len(<<a, b>>) = 2 /\ <<a, b>>[1] = a /\ <<a, b>>[2] = b
    OBVIOUS
  <2> QED
    <3>1. \A i \in 1..2 : Append(<<a>>, b)[i] = <<a, b>>[i]
      BY <2>2, <2>3
    <3> QED
      BY <2>2, <2>3, <3>1, SeqEqual
<1>3. <<>> \o <<a>> = <<a>>
  <2>1. <<a>> \in Seq({a})
    OBVIOUS
  <2> QED
    BY <2>1, ConcatEmptySeq
<1>4. <<a>> \o <<b>> = <<a, b>>
  <2>1. /\ <<a>> \in Seq({a, b}) /\ Len(<<a>>) = 1 /\ <<a>>[1] = a
        /\ <<b>> \in Seq({a, b}) /\ Len(<<b>>) = 1 /\ <<b>>[1] = b
    OBVIOUS
  <2>2. /\ <<a>> \o <<b>> \in Seq({a, b}) /\ Len(<<a>> \o <<b>>) = 2
        /\ (<<a>> \o <<b>>)[1] = a /\ (<<a>> \o <<b>>)[2] = b
    BY <2>1, ConcatProperties
  <2>3. <<a, b>> \in Seq({a, b}) /\ Len(<<a, b>>) = 2 /\ <<a, b>>[1] = a /\ <<a, b>>[2] = b
    OBVIOUS
  <2>4. \A i \in 1..2 : (<<a>> \o <<b>>)[i] = <<a, b>>[i]
    BY <2>2, <2>3
  <2> QED
    BY <2>2, <2>3, <2>4, SeqEqual
<1> QED
  BY <1>1, <1>2, <1>3, <1>4

\* A function on 1..n is a sequence of length n.
LEMMA FunIsSeq ==
  ASSUME NEW S, NEW n \in Nat, NEW f \in [1..n -> S]
  PROVE  f \in Seq(S) /\ Len(f) = n
<1>1. f \in Seq(S)
  BY SeqDef
<1>2. Len(f) \in Nat /\ 1..Len(f) = 1..n
  BY <1>1, LenProperties
<1> QED
  BY <1>1, <1>2

(***************************************************************************)
(* Types.                                                                  *)
(***************************************************************************)

\* The results of xyzModem_get_hdr for what was sent as a block, whole or damaged,
\* and for the single characters.
LEMMA GetHdrIs ==
  ASSUME NEW m, NEW damage
  PROVE  /\ m.type = "eot" /\ damage = "none" => GetHdr(m, damage) = "eof"
         /\ m.type = "can" /\ damage = "none" => GetHdr(m, damage) = "cancel"
         /\ m.type = "block" /\ damage \in {"cksum", "frame"} => GetHdr(m, damage) = damage
         /\ m.type = "block" /\ damage = "start"
              => GetHdr(m, damage) = IF m.blk = EOT THEN "eof" ELSE "timeout"
         /\ m.type = "block" /\ damage = "none"
              => GetHdr(m, damage) = IF m.crc = crc_mode THEN "ok"
                                     ELSE IF crc_mode THEN "timeout" ELSE "cksum"
<1>1. ASSUME m.type = "eot", damage = "none" PROVE GetHdr(m, damage) = "eof"
  BY <1>1, Zenon DEF GetHdr
<1>2. ASSUME m.type = "can", damage = "none" PROVE GetHdr(m, damage) = "cancel"
  BY <1>2, Zenon DEF GetHdr
<1>3. ASSUME m.type = "block", damage \in {"cksum", "frame"} PROVE GetHdr(m, damage) = damage
  BY <1>3, Zenon DEF GetHdr
<1>4. ASSUME m.type = "block", damage = "start"
      PROVE  GetHdr(m, damage) = IF m.blk = EOT THEN "eof" ELSE "timeout"
  BY <1>4, Zenon DEF GetHdr
<1>5. ASSUME m.type = "block", damage = "none"
      PROVE  GetHdr(m, damage) = IF m.crc = crc_mode THEN "ok"
                                 ELSE IF crc_mode THEN "timeout" ELSE "cksum"
  BY <1>5, Zenon DEF GetHdr
<1> QED
  BY <1>1, <1>2, <1>3, <1>4, <1>5

\* The data of a block: units of the file in order, then padding.
LEMMA UnitsIs ==
  ASSUME NEW pos \in Nat, NEW size \in Nat
  PROVE  /\ Units(pos, size) \in Seq(0..Text) /\ Len(Units(pos, size)) = size
         /\ \A i \in 1..size : Units(pos, size)[i] = Min2(pos + i - 1, FileSize)
<1>1. \A i \in 1..size : Min2(pos + i - 1, Pad) \in 0..Text
  BY YmodemAssumption DEF Min2, Pad, Text
<1>2. Units(pos, size) \in [1..size -> 0..Text]
  BY <1>1 DEF Units
<1>3. \A i \in 1..size : Units(pos, size)[i] = Min2(pos + i - 1, FileSize)
  BY DEF Units, Pad
<1> QED
  BY <1>2, <1>3, FunIsSeq

\* What a sender in a legal state transmits is a block or the EOT character.
LEMMA ItemType ==
  ASSUME NEW s \in Sender
  PROVE  Item(s) \in Block \cup Control
<1>1. 0..Text \subseteq Nat /\ Pad \in 0..Text /\ Text \in 0..Text /\ FileSize \in Nat
  BY YmodemAssumption DEF Pad, Text
<1>2. CASE s.item = "eot"
  BY <1>2 DEF Item, Control
<1>3. CASE s.item = "data"
  <2>1. s.pos \in Nat /\ s.size \in Nat /\ s.size <= STX_LEN /\ s.blk \in 0..BLK_MOD - 1
        /\ s.crc \in BOOLEAN
    BY YmodemAssumption DEF Sender
  <2>3. Units(s.pos, s.size) \in Seq(0..Text) /\ Len(Units(s.pos, s.size)) = s.size
    BY <2>1, UnitsIs
  <2>4. Units(s.pos, s.size) \in Data
    BY <2>1, <2>3 DEF Data
  <2>5. Item(s) = [type |-> "block", crc |-> s.crc, blk |-> s.blk, data |-> Units(s.pos, s.size)]
    BY <1>3 DEF Item
  <2> QED
    BY <2>1, <2>4, <2>5 DEF Block
<1>4. CASE s.item \in {"header", "final"}
  <2>1. <<Text>> \in Data
    BY <1>1, YmodemAssumption DEF Data
  <2>2. Item(s) = [type |-> "block", crc |-> s.crc, blk |-> 0, data |-> <<Text>>]
    BY <1>4 DEF Item
  <2>3. s.crc \in BOOLEAN /\ 0 \in 0..BLK_MOD - 1
    BY YmodemAssumption DEF Sender
  <2> QED
    BY <2>1, <2>2, <2>3 DEF Block
<1> QED
  BY <1>2, <1>3, <1>4 DEF Sender

\* The next item of a sender is one it can be at: it has the place of the last one,
\* or the place behind it after data.
LEMMA NextItemsIs ==
  ASSUME NEW s \in Sender, NEW t \in NextItems(s)
  PROVE  /\ t \in Sender /\ t.state = "wait" /\ t.crc = s.crc
         /\ t.blk = (s.blk + 1) % BLK_MOD
         /\ t.pos = IF s.item = "data" THEN Min2(s.pos + s.size, FileSize) ELSE s.pos
         /\ t.item = IF s.item = "eot" THEN "final"
                     ELSE IF t.pos = FileSize THEN "eot" ELSE "data"
<1> DEFINE pos == IF s.item = "data" THEN Min2(s.pos + s.size, FileSize) ELSE s.pos
           next == [s EXCEPT !.pos = pos, !.tries = 1, !.state = "wait",
                             !.blk = (s.blk + 1) % BLK_MOD]
<1>1. pos \in Nat /\ (s.blk + 1) % BLK_MOD \in 0..BLK_MOD - 1 /\ 1 \in 0..SenderTries
  BY YmodemAssumption DEF Sender, Min2
<1>2. /\ next \in Sender /\ next.state = "wait" /\ next.crc = s.crc /\ next.pos = pos
      /\ next.blk = (s.blk + 1) % BLK_MOD
  BY <1>1 DEF Sender
<1>3. \/ s.item = "eot" /\ t = [next EXCEPT !.item = "final"]
      \/ s.item # "eot" /\ pos = FileSize /\ t = [next EXCEPT !.item = "eot"]
      \/ /\ s.item # "eot" /\ pos # FileSize
         /\ \E size \in {SOH_LEN, STX_LEN} : t = [next EXCEPT !.item = "data", !.size = size]
  BY DEF NextItems
<1> HIDE DEF pos, next
<1>4. t \in Sender
  BY <1>2, <1>3 DEF Sender
<1>5. t.state = "wait" /\ t.crc = s.crc /\ t.blk = (s.blk + 1) % BLK_MOD /\ t.pos = pos
  BY <1>2, <1>3 DEF Sender
<1>6. t.item = IF s.item = "eot" THEN "final" ELSE IF pos = FileSize THEN "eot" ELSE "data"
  BY <1>2, <1>3 DEF Sender
<1> QED
  BY <1>4, <1>5, <1>6 DEF pos

(***************************************************************************)
(* What is kept of a block, and where it goes.                             *)
(***************************************************************************)

\* A set of numbers that is not empty has a least one.
LEMMA LeastIs ==
  ASSUME NEW S \in SUBSET Nat, S # {}
  PROVE  \E x \in S : \A y \in S : x <= y
<1>1. PICK x \in S : \A y \in S : ~(<<y, x>> \in OpToRel(<, Nat))
  BY WFMin, NatLessThanWellFounded
<1>2. ASSUME NEW y \in S, y < x PROVE <<y, x>> \in OpToRel(<, Nat)
  <2>1. <<y, x>> \in Nat \X Nat /\ <<y, x>>[1] < <<y, x>>[2]
    BY <1>2
  <2> QED
    BY <2>1, Zenon DEF OpToRel
<1>3. \A y \in S : ~(y < x)
  BY <1>1, <1>2, Zenon
<1> QED
  BY <1>3

\* n is the length of data without the padding at its end.
KeptLen(data, n) ==
    /\ n \in 0..Len(data)
    /\ \A i \in n + 1..Len(data) : data[i] = Pad
    /\ n = 0 \/ data[n] # Pad

\* There is one such length.
LEMMA KeptLenIs ==
  ASSUME NEW data \in Seq(0..Text)
  PROVE  /\ \E n : KeptLen(data, n)
         /\ \A n, k : KeptLen(data, n) /\ KeptLen(data, k) => n = k
<1> DEFINE S == {n \in 0..Len(data) : \A i \in n + 1..Len(data) : data[i] = Pad}
<1>0. Len(data) \in Nat
  BY LenProperties
<1>1. S \in SUBSET Nat /\ Len(data) \in S
  BY <1>0
<1>2. PICK n \in S : \A y \in S : n <= y
  <2> HIDE DEF S
  <2> QED
    BY <1>1, LeastIs
<1>3. n = 0 \/ data[n] # Pad
  <2>0. n \in Nat
    BY <1>1, <1>2
  <2> SUFFICES ASSUME n # 0, data[n] = Pad PROVE FALSE
    OBVIOUS
  <2>1. n - 1 \in 0..Len(data) /\ n \in Nat
    BY <1>0, <1>2
  <2>2. \A i \in (n - 1) + 1..Len(data) : data[i] = Pad
    BY <1>0, <1>2, <2>1
  <2>3. n - 1 \in S
    BY <2>1, <2>2
  <2>4. n <= n - 1
    <3> HIDE DEF S
    <3> QED
      BY <1>2, <2>3
  <2> QED
    BY <2>0, <2>4
<1>4. KeptLen(data, n)
  BY <1>2, <1>3 DEF KeptLen
<1>5. \A k, j : KeptLen(data, k) /\ KeptLen(data, j) => k = j
  BY <1>0 DEF KeptLen
<1> QED
  BY <1>4, <1>5

\* CutPadding keeps the beginning of the block.
LEMMA CutPaddingIs ==
  ASSUME NEW data \in Data, file_length \in Nat, read_length \in Nat
  PROVE  /\ CutPadding(data) \in Data
         /\ \A n : KeptLen(data, n) /\ file_length = 0 => CutPadding(data) = SubSeq(data, 1, n)
         /\ file_length # 0 => CutPadding(data) =
              SubSeq(data, 1, Len(data) - (IF read_length + Len(data) > file_length
                                             THEN read_length + Len(data) - file_length ELSE 0))
<1>0. data \in Seq(0..Text) /\ Len(data) \in Nat /\ Len(data) <= STX_LEN
      /\ \A i \in 1..Len(data) : data[i] \in 0..Text
  BY LenProperties DEF Data
<1>1. ASSUME NEW n \in Int, n <= Len(data) PROVE SubSeq(data, 1, n) \in Data
  <2>1. SubSeq(data, 1, n) \in Seq(0..Text) /\ Len(SubSeq(data, 1, n)) <= STX_LEN
    BY <1>0, <1>1, YmodemAssumption, SubSeqProperties
  <2> QED
    BY <2>1 DEF Data
<1>2. CASE file_length = 0
  <2>1. CutPadding(data) = SubSeq(data, 1, CHOOSE n \in 0..Len(data) :
                             /\ \A i \in n + 1..Len(data) : data[i] = Pad
                             /\ n = 0 \/ data[n] # Pad)
    BY <1>2 DEF CutPadding
  <2>2. PICK n : KeptLen(data, n)
    BY <1>0, KeptLenIs
  <2>3. KeptLen(data, CHOOSE k \in 0..Len(data) : /\ \A i \in k + 1..Len(data) : data[i] = Pad
                                                  /\ k = 0 \/ data[k] # Pad)
    BY <2>2, Zenon DEF KeptLen
  <2>4. \A k : KeptLen(data, k) => CutPadding(data) = SubSeq(data, 1, k)
    BY <1>0, <2>1, <2>3, KeptLenIs
  <2>5. n \in Int /\ n <= Len(data)
    BY <1>0, <2>2 DEF KeptLen
  <2> QED
    BY <1>1, <1>2, <2>2, <2>4, <2>5
<1>3. CASE file_length # 0
  <2> DEFINE over == IF read_length + Len(data) > file_length
                       THEN read_length + Len(data) - file_length ELSE 0
  <2>1. CutPadding(data) = SubSeq(data, 1, Len(data) - over)
    BY <1>3 DEF CutPadding
  <2>2. Len(data) - over \in Int /\ Len(data) - over <= Len(data)
    BY <1>0
  <2> QED
    BY <1>1, <1>3, <2>1, <2>2
<1> QED
  BY <1>2, <1>3

\* The units of s count up from n.
CountsFrom(s, n) == \A i \in 1..Len(s) : s[i] = n + i - 1

LEMMA CountsJoin ==
  ASSUME NEW s \in Seq(0..Text), NEW t \in Seq(0..Text), NEW n \in Nat,
         CountsFrom(s, n), CountsFrom(t, n + Len(s))
  PROVE  CountsFrom(s \o t, n)
<1>1. /\ Len(s \o t) = Len(s) + Len(t) /\ Len(s) \in Nat /\ Len(t) \in Nat
      /\ \A i \in 1..Len(s) + Len(t) : (s \o t)[i] = IF i <= Len(s) THEN s[i] ELSE t[i - Len(s)]
  BY ConcatProperties, LenProperties
<1>2. ASSUME NEW i \in 1..Len(s) + Len(t) PROVE (s \o t)[i] = n + i - 1
  <2>1. CASE i <= Len(s)
    BY <1>1, <2>1 DEF CountsFrom
  <2>2. CASE i > Len(s)
    <3>1. i - Len(s) \in 1..Len(t) /\ (s \o t)[i] = t[i - Len(s)]
      BY <1>1, <2>2
    <3>2. t[i - Len(s)] = (n + Len(s)) + (i - Len(s)) - 1
      BY <3>1 DEF CountsFrom
    <3> QED
      BY <1>1, <3>1, <3>2
  <2> QED
    BY <1>1, <2>1, <2>2
<1> QED
  BY <1>1, <1>2 DEF CountsFrom

LEMMA CountsSub ==
  ASSUME NEW s \in Seq(0..Text), NEW n \in Nat, NEW a \in 1..Len(s) + 1, NEW b \in 0..Len(s),
         a <= b + 1
  PROVE  /\ SubSeq(s, a, b) \in Seq(0..Text) /\ Len(SubSeq(s, a, b)) = b - a + 1
         /\ CountsFrom(s, n) => CountsFrom(SubSeq(s, a, b), n + a - 1)
<1>0. Len(s) \in Nat /\ \A i \in a..b : s[i] \in 0..Text
  <2>1. Len(s) \in Nat
    BY LenProperties
  <2>2. \A i \in a..b : i \in 1..Len(s)
    BY <2>1
  <2> QED
    BY <2>1, <2>2, ElementOfSeq
<1>1. /\ SubSeq(s, a, b) \in Seq(0..Text) /\ Len(SubSeq(s, a, b)) = b - a + 1
      /\ \A i \in 1..b - a + 1 : SubSeq(s, a, b)[i] = s[a + i - 1]
  BY <1>0, SubSeqProperties
<1>2. ASSUME CountsFrom(s, n), NEW i \in 1..b - a + 1
      PROVE  SubSeq(s, a, b)[i] = (n + a - 1) + i - 1
  <2>1. a + i - 1 \in 1..Len(s)
    BY <1>0
  <2> QED
    BY <1>0, <1>1, <1>2, <2>1 DEF CountsFrom
<1> QED
  BY <1>1, <1>2 DEF CountsFrom

\* The units received so far.
L == Len(memory) + Len(ymodemBuf)

\* They are the units of the file from the first one on.
Ordered == CountsFrom(memory, 0) /\ CountsFrom(ymodemBuf, Len(memory))

\* The copying loop and load_serial_ymodem lose nothing of what was received, leave
\* less than a full chunk in the buffer, and keep the order.
LEMMA DeliverIs ==
  ASSUME memory \in Seq(0..Text), ymodemBuf \in Seq(0..Text), Len(ymodemBuf) < STX_LEN,
         NEW data \in Data, Deliver(data)
  PROVE  /\ memory' \in Seq(0..Text) /\ ymodemBuf' \in Seq(0..Text)
         /\ Len(ymodemBuf') < STX_LEN
         /\ L' = L + Len(data)
         /\ Ordered /\ CountsFrom(data, L) => Ordered'
<1> DEFINE all == ymodemBuf \o data
<1>1. /\ data \in Seq(0..Text) /\ Len(data) \in Nat /\ Len(data) <= STX_LEN
      /\ Len(memory) \in Nat /\ Len(ymodemBuf) \in Nat /\ STX_LEN \in Nat \ {0}
  BY YmodemAssumption, LenProperties DEF Data
<1>2. all \in Seq(0..Text) /\ Len(all) = Len(ymodemBuf) + Len(data)
  BY <1>1, ConcatProperties
<1>3. Ordered /\ CountsFrom(data, L) => CountsFrom(all, Len(memory))
  BY <1>1, CountsJoin DEF Ordered, L
<1>4. \/ Len(all) < STX_LEN /\ ymodemBuf' = all /\ memory' = memory
      \/ /\ Len(all) >= STX_LEN
         /\ memory' = memory \o SubSeq(all, 1, STX_LEN)
         /\ ymodemBuf' = SubSeq(all, STX_LEN + 1, Len(all))
  <2>1. IF Len(all) < STX_LEN
          THEN ymodemBuf' = all /\ memory' = memory
          ELSE /\ memory' = memory \o SubSeq(all, 1, STX_LEN)
               /\ ymodemBuf' = SubSeq(all, STX_LEN + 1, Len(all))
    BY Zenon DEF Deliver
  <2> HIDE DEF all
  <2> QED
    BY <1>1, <1>2, <2>1, SMTT(30)
<1> HIDE DEF all
<1>5. CASE Len(all) < STX_LEN /\ ymodemBuf' = all /\ memory' = memory
  <2>0. Len(ymodemBuf') = Len(ymodemBuf) + Len(data) /\ Len(memory') = Len(memory)
    BY <1>2, <1>5
  <2>1. L' = L + Len(data)
    BY <1>1, <2>0 DEF L
  <2>2. Ordered /\ CountsFrom(data, L) => Ordered'
    BY <1>3, <1>5 DEF Ordered, CountsFrom
  <2> QED
    BY <1>2, <1>5, <2>1, <2>2
<1>6. CASE /\ Len(all) >= STX_LEN
           /\ memory' = memory \o SubSeq(all, 1, STX_LEN)
           /\ ymodemBuf' = SubSeq(all, STX_LEN + 1, Len(all))
  <2>0. PICK c, r, n : /\ c = SubSeq(all, 1, STX_LEN) /\ r = SubSeq(all, STX_LEN + 1, Len(all))
                       /\ n = Len(memory)
    OBVIOUS
  <2>1. c \in Seq(0..Text) /\ Len(c) = STX_LEN /\ (CountsFrom(all, n) => CountsFrom(c, n + 1 - 1))
    <3>1. 1 \in 1..Len(all) + 1 /\ STX_LEN \in 0..Len(all) /\ 1 <= STX_LEN + 1
      BY <1>1, <1>2, <1>6
    <3>2. STX_LEN - 1 + 1 = STX_LEN
      BY <1>1
    <3> QED
      BY <1>1, <1>2, <2>0, <3>1, <3>2, CountsSub
  <2>2. /\ r \in Seq(0..Text) /\ Len(r) = Len(all) - STX_LEN
        /\ CountsFrom(all, n) => CountsFrom(r, n + (STX_LEN + 1) - 1)
    <3>1. STX_LEN + 1 \in 1..Len(all) + 1 /\ Len(all) \in 0..Len(all) /\ STX_LEN + 1 <= Len(all) + 1
      BY <1>1, <1>2, <1>6
    <3>2. Len(all) - (STX_LEN + 1) + 1 = Len(all) - STX_LEN
      BY <1>1, <1>2
    <3> QED
      BY <1>1, <1>2, <2>0, <3>1, <3>2, CountsSub
  <2>3. memory' = memory \o c /\ ymodemBuf' = r
    BY <1>6, <2>0
  <2>4. memory' \in Seq(0..Text) /\ Len(memory') = n + STX_LEN
    BY <2>0, <2>1, <2>3, ConcatProperties
  <2>5. L' = L + Len(data) /\ Len(ymodemBuf') < STX_LEN
    <3>1. Len(ymodemBuf') = Len(ymodemBuf) + Len(data) - STX_LEN
      BY <1>1, <1>2, <2>2, <2>3
    <3> QED
      BY <1>1, <2>0, <2>4, <3>1 DEF L
  <2>6. ASSUME Ordered, CountsFrom(data, L) PROVE Ordered'
    <3>1. CountsFrom(c, 0 + Len(memory)) /\ CountsFrom(r, n + STX_LEN)
      BY <1>1, <1>3, <2>0, <2>1, <2>2, <2>6, SMTT(30) DEF CountsFrom
    <3>2. CountsFrom(memory, 0)
      BY <2>6 DEF Ordered
    <3>3. CountsFrom(memory \o c, 0)
      BY <2>1, <3>1, <3>2, CountsJoin
    <3> QED
      BY <2>3, <2>4, <3>1, <3>3 DEF Ordered, CountsFrom
  <2> QED
    BY <2>2, <2>3, <2>4, <2>5, <2>6
<1> QED
  BY <1>4, <1>5, <1>6

(***************************************************************************)
(* Type correctness, without conditions.                                   *)
(***************************************************************************)

Chars == {"ACK", "NAK", "C"}
Lines == Seq(Block \cup Control)

\* The part of TypeOK that the receiver keeps.
ReceiverTypes ==
    /\ phase \in {"open", "read", "final", "done", "undefined"}
    /\ retries \in 0..MAX_RETRIES - 1
    /\ crc_retries \in 0..MAX_RETRIES_WITH_CRC
    /\ crc_mode \in BOOLEAN /\ at_eof \in BOOLEAN
    /\ next_blk \in 0..BLK_MOD - 1
    /\ file_length \in {0, FileSize}
    /\ read_length \in Nat
    /\ ymodemBuf \in Seq(0..Text) /\ Len(ymodemBuf) < STX_LEN
    /\ memory \in Seq(0..Text)
    /\ toReceiver \in Lines
    /\ toSender \in Seq(Chars)

\* The part of the sender and the line.
SenderTypes == header \in Headers /\ sender \in Sender /\ faults \in 0..MaxFaults

LEMMA TypeParts ==
  TypeOK <=> ReceiverTypes /\ SenderTypes
BY DEF TypeOK, ReceiverTypes, SenderTypes, Lines, Chars

LEMMA ReplyType ==
  ASSUME toSender \in Seq(Chars), NEW chars \in Seq(Chars), Reply(chars)
  PROVE  toSender' \in Seq(Chars)
BY ConcatProperties DEF Reply

LEMMA CrcCharType ==
  \A crc \in BOOLEAN : CrcChar(crc) \in Chars
BY DEF CrcChar, Chars

LEMMA FinishType ==
  ASSUME ReceiverTypes, Finish
  PROVE  /\ phase' = "done" /\ toReceiver' \in Lines /\ memory' \in Seq(0..Text)
         /\ ymodemBuf' = <<>> /\ ymodemBuf' \in Seq(0..Text) /\ Len(ymodemBuf') < STX_LEN
<1>1. memory \o ymodemBuf \in Seq(0..Text)
  BY ConcatProperties DEF ReceiverTypes
<1>2. Len(<<>>) < STX_LEN /\ <<>> \in Lines /\ <<>> \in Seq(0..Text)
  BY YmodemAssumption, EmptySeq DEF Lines
<1> QED
  BY <1>1, <1>2 DEF Finish

LEMMA StreamFailsType ==
  ASSUME ReceiverTypes, NEW rest \in Lines, StreamFails(rest)
  PROVE  /\ phase' \in {"done", "undefined"} /\ toReceiver' \in Lines /\ memory' \in Seq(0..Text)
         /\ ymodemBuf' \in Seq(0..Text) /\ Len(ymodemBuf') < STX_LEN
<1>1. memory \o ymodemBuf \in Seq(0..Text)
  BY ConcatProperties DEF ReceiverTypes
<1>2. Len(<<>>) < STX_LEN /\ <<>> \in Lines /\ <<>> \in Seq(0..Text)
  BY YmodemAssumption, EmptySeq DEF Lines
<1> QED
  BY <1>1, <1>2, FinishType DEF StreamFails

LEMMA TryAgainType ==
  ASSUME ReceiverTypes, NEW rest \in Lines, TryAgain(rest)
  PROVE  ReceiverTypes'
<1>1. toSender' \in Seq(Chars)
  <2>1. <<CrcChar(crc_mode)>> \in Seq(Chars)
    BY CrcCharType DEF ReceiverTypes
  <2> QED
    BY <2>1, ReplyType DEF TryAgain, ReceiverTypes
<1>2. UNCHANGED <<crc_retries, crc_mode, next_blk, file_length, read_length, at_eof>>
  BY DEF TryAgain
<1>3. CASE retries = 0
  <2>1. StreamFails(rest) /\ retries' = retries
    BY <1>3 DEF TryAgain
  <2> QED
    BY <1>1, <1>2, <2>1, StreamFailsType DEF ReceiverTypes
<1>4. CASE retries # 0
  <2>1. retries' = retries - 1 /\ toReceiver' = rest /\ UNCHANGED <<phase, memory, ymodemBuf>>
    BY <1>4 DEF TryAgain
  <2>2. retries - 1 \in 0..MAX_RETRIES - 1
    BY <1>4, YmodemAssumption DEF ReceiverTypes
  <2> QED
    BY <1>1, <1>2, <2>1, <2>2 DEF ReceiverTypes
<1> QED
  BY <1>3, <1>4

LEMMA StreamOpenType ==
  ASSUME ReceiverTypes, NEW stat, NEW m, NEW rest \in Lines, StreamOpen(stat, m, rest)
  PROVE  ReceiverTypes'
<1>0. /\ UNCHANGED <<read_length, at_eof, ymodemBuf, memory>>
      /\ <<>> \in Lines /\ <<>> \in Seq(Chars) /\ <<"ACK">> \in Seq(Chars)
  BY EmptySeq DEF StreamOpen, Lines, Chars
<1>1. CASE stat = "ok"
  <2>1. /\ file_length' \in {0, FileSize} /\ next_blk' = 1 /\ phase' = "read"
        /\ retries' = FreshTries /\ toReceiver' = rest /\ UNCHANGED <<crc_retries, crc_mode>>
        /\ Reply(IF m.blk = 0 THEN <<"ACK">> ELSE <<>>)
    BY <1>1 DEF StreamOpen
  <2>2. toSender' \in Seq(Chars)
    BY <1>0, <2>1, ReplyType DEF ReceiverTypes
  <2>3. 1 \in 0..BLK_MOD - 1 /\ FreshTries \in 0..MAX_RETRIES - 1
    BY YmodemAssumption DEF FreshTries
  <2> QED
    BY <1>0, <2>1, <2>2, <2>3 DEF ReceiverTypes
<1>2. CASE stat # "ok"
  <2>1. UNCHANGED <<next_blk, file_length>>
    BY <1>2 DEF StreamOpen
  <2>2. phase' \in {"open", "done"} /\ retries' \in 0..MAX_RETRIES - 1 /\ toReceiver' \in Lines
    <3>1. \/ phase' = "done" /\ toReceiver' = <<>> /\ retries' = retries
          \/ retries # 0 /\ retries' = retries - 1 /\ toReceiver' = rest /\ phase' = phase
      BY <1>2 DEF StreamOpen
    <3>2. phase = "open"
      BY DEF StreamOpen
    <3> QED
      BY <1>0, <3>1, <3>2, YmodemAssumption DEF ReceiverTypes
  <2>3. CASE stat = "timeout"
    <3>1. /\ crc_retries' = IF crc_retries = 0 THEN 0 ELSE crc_retries - 1
          /\ crc_mode' = (crc_retries' > 0 /\ crc_mode)
          /\ Reply(<<CrcChar(crc_mode')>>)
      BY <1>2, <2>3 DEF StreamOpen
    <3>2. crc_retries' \in 0..MAX_RETRIES_WITH_CRC /\ crc_mode' \in BOOLEAN
      BY <3>1, YmodemAssumption DEF ReceiverTypes
    <3>3. <<CrcChar(crc_mode')>> \in Seq(Chars)
      BY <3>2, CrcCharType
    <3>4. toSender' \in Seq(Chars)
      BY <3>1, <3>3, ReplyType DEF ReceiverTypes
    <3> QED
      BY <1>0, <2>1, <2>2, <3>2, <3>4 DEF ReceiverTypes
  <2>4. CASE stat # "timeout"
    <3>1. Reply(Acked(stat)) /\ UNCHANGED <<crc_retries, crc_mode>>
      BY <1>2, <2>4 DEF StreamOpen
    <3>2. Acked(stat) \in Seq(Chars)
      BY <1>0 DEF Acked
    <3>3. toSender' \in Seq(Chars)
      BY <3>1, <3>2, ReplyType DEF ReceiverTypes
    <3> QED
      BY <1>0, <2>1, <2>2, <3>1, <3>3 DEF ReceiverTypes
  <2> QED
    BY <2>3, <2>4
<1> QED
  BY <1>1, <1>2

LEMMA BlockStepsType ==
  ASSUME ReceiverTypes, NEW m \in Block, NEW rest \in Lines,
         AcceptBlock(m, rest) \/ RepeatedBlock(m, rest)
  PROVE  ReceiverTypes'
<1>0. m.data \in Data /\ Len(m.data) \in Nat /\ FreshTries \in 0..MAX_RETRIES - 1
  BY LenProperties, YmodemAssumption DEF Block, Data, FreshTries
<1>1. toSender' \in Seq(Chars)
  <2>1. <<"ACK">> \in Seq(Chars) /\ Reply(<<"ACK">>)
    BY DEF Chars, AcceptBlock, RepeatedBlock
  <2> QED
    BY <2>1, ReplyType DEF ReceiverTypes
<1>2. CASE AcceptBlock(m, rest)
  <2>1. /\ next_blk' = (next_blk + 1) % BLK_MOD /\ Deliver(CutPadding(m.data))
        /\ read_length' = IF file_length = 0 THEN 0 ELSE read_length + Len(m.data)
        /\ retries' = FreshTries /\ toReceiver' = rest
        /\ UNCHANGED <<phase, crc_retries, crc_mode, file_length, at_eof>>
    BY <1>2 DEF AcceptBlock
  <2>2. CutPadding(m.data) \in Data
    <3>1. file_length \in Nat /\ read_length \in Nat
      BY YmodemAssumption DEF ReceiverTypes
    <3> QED
      BY <1>0, <3>1, CutPaddingIs
  <2>3. memory' \in Seq(0..Text) /\ ymodemBuf' \in Seq(0..Text) /\ Len(ymodemBuf') < STX_LEN
    BY <2>1, <2>2, DeliverIs DEF ReceiverTypes
  <2>4. next_blk' \in 0..BLK_MOD - 1 /\ read_length' \in Nat
    BY <1>0, <2>1, YmodemAssumption DEF ReceiverTypes
  <2> QED
    BY <1>0, <1>1, <2>1, <2>3, <2>4 DEF ReceiverTypes
<1>3. CASE RepeatedBlock(m, rest)
  <2>1. /\ toReceiver' = rest
        /\ UNCHANGED <<phase, crc_retries, crc_mode, next_blk, file_length, read_length, at_eof>>
        /\ \/ Deliver(m.data) /\ retries' = FreshTries
           \/ retries # 0 /\ retries' = retries - 1 /\ UNCHANGED <<memory, ymodemBuf>>
    BY <1>3 DEF RepeatedBlock
  <2>2. retries' \in 0..MAX_RETRIES - 1
    BY <1>0, <2>1, YmodemAssumption DEF ReceiverTypes
  <2>3. memory' \in Seq(0..Text) /\ ymodemBuf' \in Seq(0..Text) /\ Len(ymodemBuf') < STX_LEN
    BY <1>0, <2>1, DeliverIs DEF ReceiverTypes
  <2> QED
    BY <1>1, <2>1, <2>2, <2>3 DEF ReceiverTypes
<1> QED
  BY <1>2, <1>3

LEMMA ResultType ==
  ASSUME ReceiverTypes, NEW stat, NEW m, NEW rest \in Lines, stat = "ok" => m \in Block,
         Result(stat, m, rest)
  PROVE  ReceiverTypes'
<1>0. <<"ACK">> \in Seq(Chars) /\ <<"ACK", "ACK">> \in Seq(Chars) /\ <<>> \in Seq(Chars)
  BY DEF Chars
<1>1. CASE StreamOpen(stat, m, rest)
  BY <1>1, StreamOpenType
<1>2. CASE stat = "ok" /\ (AcceptBlock(m, rest) \/ RepeatedBlock(m, rest))
  BY <1>2, BlockStepsType
<1>3. CASE Cancelled(rest)
  BY <1>3, StreamFailsType DEF Cancelled, ReceiverTypes
<1>4. CASE EndOfFile(rest)
  <2>1. <<"ACK", "ACK", CrcChar(crc_mode)>> \in Seq(Chars)
    <3>1. CrcChar(crc_mode) \in Chars /\ "ACK" \in Chars
      BY CrcCharType DEF ReceiverTypes, Chars
    <3> QED
      BY <3>1
  <2>2. toSender' \in Seq(Chars)
    BY <1>4, <2>1, ReplyType DEF EndOfFile, ReceiverTypes
  <2> QED
    BY <1>4, <2>2 DEF EndOfFile, ReceiverTypes
<1>5. CASE TryAgain(rest)
  BY <1>5, TryAgainType
<1>6. CASE FinalHeader(stat)
  <2>1. Acked(stat) \o <<"ACK">> \in Seq(Chars)
    <3>1. Acked(stat) \in Seq(Chars)
      BY <1>0 DEF Acked
    <3> QED
      BY <1>0, <3>1, ConcatProperties
  <2>2. toSender' \in Seq(Chars)
    BY <1>6, <2>1, ReplyType DEF FinalHeader, ReceiverTypes
  <2> QED
    BY <1>6, <2>2, FinishType DEF FinalHeader, ReceiverTypes
<1> QED
  BY <1>1, <1>2, <1>3, <1>4, <1>5, <1>6 DEF Result, StreamRead

\* What xyzModem_get_hdr makes of the head of the line: a block is only found where a
\* block was sent.
LEMMA ReceiveType ==
  ASSUME TypeOK, Receive
  PROVE  TypeOK'
<1>1. toReceiver \in Lines /\ toReceiver # <<>> /\ faults \in 0..MaxFaults
  BY DEF TypeOK, Receive, Lines
<1>2. Head(toReceiver) \in Block \cup Control /\ Tail(toReceiver) \in Lines /\ <<>> \in Lines
  BY <1>1, HeadTailProperties, EmptySeq DEF Lines
<1>3. PICK m, damage, rest :
        /\ m = Head(toReceiver)
        /\ damage \in {"none"} \cup (IF m.type = "block" /\ faults < MaxFaults THEN Noise ELSE {})
        /\ faults' = IF damage = "none" THEN faults ELSE faults + 1
        /\ rest \in Lines
        /\ Result(GetHdr(m, damage), m, rest)
        /\ UNCHANGED <<header, sender>>
  <2>1. PICK damage \in {"none"} \cup (IF Head(toReceiver).type = "block" /\ faults < MaxFaults
                                         THEN Noise ELSE {}) :
          /\ faults' = IF damage = "none" THEN faults ELSE faults + 1
          /\ Result(GetHdr(Head(toReceiver), damage), Head(toReceiver),
                    IF GetHdr(Head(toReceiver), damage) = "frame" THEN <<>> ELSE Tail(toReceiver))
          /\ UNCHANGED <<header, sender>>
    BY DEF Receive
  <2> QED
    BY <1>2, <2>1
<1>4. GetHdr(m, damage) = "ok" => m \in Block
  <2>1. m \in Control => GetHdr(m, damage) # "ok"
    <3> SUFFICES ASSUME m \in Control PROVE GetHdr(m, damage) # "ok"
      OBVIOUS
    <3>1. m.type \in {"eot", "can"}
      BY DEF Control
    <3>2. damage = "none"
      BY <1>3, <3>1
    <3> QED
      BY <3>1, <3>2, GetHdrIs
  <2> QED
    BY <1>2, <1>3, <2>1
<1>5. ReceiverTypes'
  BY <1>3, <1>4, TypeParts, ResultType
<1>6. faults' \in 0..MaxFaults
  BY <1>1, <1>3, YmodemAssumption
<1> QED
  BY <1>3, <1>5, <1>6, TypeParts DEF TypeOK, ReceiverTypes, Lines, Chars

LEMMA TimeoutType ==
  ASSUME TypeOK, Timeout
  PROVE  TypeOK'
<1>1. Result("timeout", [type |-> "eot"], <<>>) /\ UNCHANGED <<header, sender, faults>>
  BY DEF Timeout
<1>2. <<>> \in Lines
  BY EmptySeq DEF Lines
<1>3. ReceiverTypes'
  BY <1>1, <1>2, TypeParts, ResultType
<1> QED
  BY <1>1, <1>3 DEF TypeOK, ReceiverTypes, Lines, Chars

LEMMA TransmitType ==
  ASSUME toReceiver \in Lines, NEW s \in Sender, Transmit(s)
  PROVE  sender' \in Sender /\ toReceiver' \in Lines
<1>1. Item(s) \in Block \cup Control
  BY ItemType
<1> QED
  BY <1>1, AppendProperties DEF Transmit, Lines

LEMMA GiveUpType ==
  ASSUME toReceiver \in Lines, sender \in Sender, GiveUp
  PROVE  sender' \in Sender /\ toReceiver' \in Lines
<1>1. [type |-> "can"] \in Block \cup Control
  BY DEF Control
<1>2. toReceiver' \in Lines
  BY <1>1, AppendProperties DEF GiveUp, Lines
<1>3. sender' \in Sender
  BY DEF GiveUp, Sender
<1> QED
  BY <1>2, <1>3

LEMMA ResendType ==
  ASSUME toReceiver \in Lines, sender \in Sender, NEW crc \in BOOLEAN, Resend(crc)
  PROVE  sender' \in Sender /\ toReceiver' \in Lines
<1>1. CASE sender.tries < SenderTries
  <2>1. [sender EXCEPT !.tries = @ + 1, !.crc = crc] \in Sender
    <3>1. PICK n : n = sender.tries + 1
      OBVIOUS
    <3>2. n \in 0..SenderTries
      BY <1>1, <3>1, YmodemAssumption DEF Sender
    <3>3. [sender EXCEPT !.tries = n, !.crc = crc] \in Sender
      BY <3>2 DEF Sender
    <3> QED
      BY <3>1, <3>3
  <2> QED
    BY <1>1, <2>1, TransmitType DEF Resend
<1>2. CASE ~(sender.tries < SenderTries)
  BY <1>2, GiveUpType DEF Resend
<1> QED
  BY <1>1, <1>2

\* The first item: the information block, or what follows one.
LEMMA FirstItemsIs ==
  ASSUME sender \in Sender, NEW crc \in BOOLEAN,
         NEW t \in FirstItems([sender EXCEPT !.crc = crc])
  PROVE  /\ t \in Sender /\ t.state = "wait" /\ t.crc = crc /\ t.pos = sender.pos
         /\ \/ t.item = "header" /\ t.blk = sender.blk /\ header # "none"
            \/ /\ header = "none" /\ t.blk = (sender.blk + 1) % BLK_MOD
               /\ t.item = IF t.pos = FileSize THEN "eot" ELSE "data"
<1>1. CASE header = "none"
  <2>1. PICK s : s = [[sender EXCEPT !.crc = crc] EXCEPT !.item = "header"]
    OBVIOUS
  <2>2. /\ s \in Sender /\ s.crc = crc /\ s.item = "header" /\ s.pos = sender.pos
        /\ s.blk = sender.blk
    BY <2>1 DEF Sender
  <2>3. t \in NextItems(s)
    BY <1>1, <2>1 DEF FirstItems
  <2> QED
    BY <1>1, <2>2, <2>3, NextItemsIs
<1>2. CASE header # "none"
  <2>1. t = [[sender EXCEPT !.crc = crc] EXCEPT !.item = "header", !.state = "wait", !.tries = 1]
    BY <1>2 DEF FirstItems
  <2>2. 1 \in 0..SenderTries
    BY YmodemAssumption
  <2>3. t \in Sender
    BY <2>1, <2>2 DEF Sender
  <2> QED
    BY <1>2, <2>1, <2>3 DEF Sender
<1> QED
  BY <1>1, <1>2

LEMMA SenderHearsType ==
  ASSUME TypeOK, SenderHears
  PROVE  TypeOK'
<1>0. /\ toSender \in Seq(Chars) /\ toSender # <<>> /\ toReceiver \in Lines /\ sender \in Sender
      /\ toSender' = Tail(toSender) /\ UNCHANGED <<receiverVars, header, faults>>
  BY DEF TypeOK, SenderHears, Chars, Lines
<1>1. PICK c : /\ c = Head(toSender)
               /\ BeginFile(c) \/ SendNext(c) \/ SendAgain(c) \/ AwaitRequest(c) \/ Ignore(c)
  BY DEF SenderHears
<1>2. toSender' \in Seq(Chars)
  BY <1>0, HeadTailProperties
<1>3. sender' \in Sender /\ toReceiver' \in Lines
  <2>1. CASE BeginFile(c)
    <3>1. PICK s \in FirstItems([sender EXCEPT !.crc = (c = "C")]) : Transmit(s)
      BY <2>1 DEF BeginFile
    <3>2. (c = "C") \in BOOLEAN
      OBVIOUS
    <3>3. s \in Sender
      BY <1>0, <3>1, <3>2, FirstItemsIs
    <3> QED
      BY <1>0, <3>1, <3>3, TransmitType
  <2>2. CASE SendNext(c)
    <3>1. PICK s \in NextItems(sender) : Transmit(s)
      BY <2>2 DEF SendNext
    <3>2. s \in Sender
      BY <1>0, <3>1, NextItemsIs
    <3> QED
      BY <1>0, <3>1, <3>2, TransmitType
  <2>3. CASE SendAgain(c)
    <3>1. (sender.crc \/ c = "C") \in BOOLEAN
      OBVIOUS
    <3> QED
      BY <1>0, <2>3, <3>1, ResendType DEF SendAgain
  <2>4. CASE AwaitRequest(c)
    BY <1>0, <2>4 DEF AwaitRequest, Sender
  <2>5. CASE Ignore(c)
    BY <1>0, <2>5 DEF Ignore
  <2> QED
    BY <1>1, <2>1, <2>2, <2>3, <2>4, <2>5
<1> QED
  BY <1>0, <1>2, <1>3 DEF TypeOK, receiverVars, Lines, Chars

LEMMA LoseType ==
  ASSUME TypeOK, Lose
  PROVE  TypeOK'
<1>1. toSender \in Seq(Chars) /\ toReceiver \in Lines
  BY DEF TypeOK, Chars, Lines
<1>2. toSender' \in Seq(Chars) /\ toReceiver' \in Lines
  BY <1>1, HeadTailProperties DEF Lose, Lines
<1>3. faults' \in 0..MaxFaults
  BY YmodemAssumption DEF Lose, TypeOK
<1> QED
  BY <1>2, <1>3 DEF Lose, TypeOK, receiverVars, Lines, Chars

LEMMA TypeInit == Init => TypeOK
<1> SUFFICES ASSUME Init PROVE TypeOK
  OBVIOUS
<1>1. sender \in Sender
  BY YmodemAssumption DEF Init, Sender
<1>2. <<>> \in Seq(0..Text) /\ <<>> \in Seq(Block \cup Control) /\ <<>> \in Seq({"ACK", "NAK", "C"})
      /\ Len(<<>>) = 0
  BY EmptySeq
<1>3. MAX_RETRIES - 1 \in 0..MAX_RETRIES - 1 /\ 0 < STX_LEN /\ 0 \in 0..BLK_MOD - 1
      /\ MAX_RETRIES_WITH_CRC \in 0..MAX_RETRIES_WITH_CRC /\ 0 \in 0..MaxFaults
  BY YmodemAssumption
<1>4. crc_mode \in BOOLEAN /\ at_eof \in BOOLEAN
  BY DEF Init
<1> QED
  BY <1>1, <1>2, <1>3, <1>4 DEF Init, TypeOK

LEMMA TypeStep == TypeOK /\ [Next]_vars => TypeOK'
<1> SUFFICES ASSUME TypeOK, [Next]_vars PROVE TypeOK'
  OBVIOUS
<1>0. sender \in Sender /\ toReceiver \in Lines
  BY DEF TypeOK, Lines
<1>1. CASE Receive
  BY <1>1, ReceiveType
<1>2. CASE Timeout
  BY <1>2, TimeoutType
<1>3. CASE StartSender
  BY <1>0, <1>3 DEF StartSender, TypeOK, receiverVars, Sender
<1>4. CASE SenderHears
  BY <1>4, SenderHearsType
<1>5. CASE SenderTimeout
  <2>1. sender.crc \in BOOLEAN
    BY <1>0 DEF Sender
  <2>2. sender' \in Sender /\ toReceiver' \in Lines
    BY <1>0, <1>5, <2>1, ResendType DEF SenderTimeout
  <2> QED
    BY <1>5, <2>2 DEF SenderTimeout, TypeOK, receiverVars, Lines
<1>6. CASE StopSender
  <2>1. sender' \in Sender /\ toReceiver' \in Lines
    <3>1. CASE GiveUp
      BY <1>0, <3>1, GiveUpType
    <3>2. CASE sender' = [sender EXCEPT !.state = "gone"] /\ UNCHANGED toReceiver
      BY <1>0, <3>2 DEF Sender
    <3> QED
      BY <1>6, <3>1, <3>2 DEF StopSender
  <2> QED
    BY <1>6, <2>1 DEF StopSender, TypeOK, receiverVars, Lines
<1>7. CASE Lose
  BY <1>7, LoseType
<1>8. CASE UNCHANGED vars
  BY <1>8 DEF vars, receiverVars, TypeOK
<1> QED
  BY <1>1, <1>2, <1>3, <1>4, <1>5, <1>6, <1>7, <1>8 DEF Next, Over

\* Whatever the line and the sender do, the variables keep their types: the try
\* counters of xyzModem_stream_open and xyzModem_stream_read stop at zero, and the
\* caller's buffer never holds a whole chunk when xyzModem_get_hdr is called.
THEOREM TypeCorrect == Spec => []TypeOK
<1>1. Init => TypeOK
  BY TypeInit
<1>2. TypeOK /\ [Next]_vars => TypeOK'
  BY TypeStep
<1> QED
  BY <1>1, <1>2, PTL DEF Spec

(***************************************************************************)
(* What is received, under conditions.                                     *)
(***************************************************************************)

\* The faults of a load stay below half the tries for one block: a lost
\* acknowledgement costs two tries, the question and the block that comes again, and
\* after the last try xyzModem_stream_read copies a repeated block a second time.
FewFaults == 2 * MaxFaults < MAX_RETRIES

\* The beginning of a block is never lost: if that of block 4 is, its number is read
\* as EOT and the load ends early.
StartsHeard == "start" \notin Noise

\* With these the sender answers before the receiver's time-out (Prompt): an
\* acknowledgement carries no number, and one that is answered late is taken for that
\* of the next block.
Conditions == Prompt /\ FewFaults /\ StartsHeard

Can == [type |-> "can"]

\* The replies on the way to the sender: acknowledgements, then at most one question.
Asks == {<<"NAK">>, <<"C">>}
Replies == {<<>>, <<"ACK">>, <<"ACK", "ACK">>, <<"ACK", "NAK">>, <<"ACK", "C">>,
            <<"ACK", "ACK", "NAK">>, <<"ACK", "ACK", "C">>} \cup Asks

\* The item the sender is at is on the way.
Flying == toReceiver \in {<<Item(sender)>>, <<Item(sender), Can>>}

\* Stop-and-wait: only the item the sender is at is on the way, perhaps with a
\* cancellation behind it, and never together with a reply to it.
OneAtATime ==
    /\ toSender \in Replies
    /\ toReceiver \in {<<>>, <<Can>>} \/ Flying
    /\ sender.state \in {"off", "start", "done"} => toReceiver = <<>>
    /\ toReceiver \in {<<Can>>, <<Item(sender), Can>>} => sender.state = "gone"
    /\ sender.state = "off" => toSender = <<>>
    /\ Listening /\ toSender # <<>> => toReceiver = <<>>
    /\ Listening /\ (phase \in {"open", "read"} \/ sender.item \in {"header", "data"})
         => toSender \in {<<>>, <<"ACK">>} \cup Asks

\* Where the sender can be in the file.
PlaceInFile ==
    /\ sender.item = "header" => sender.blk = 0 /\ sender.pos = 0
    /\ sender.item = "data" => sender.pos < FileSize
    /\ sender.item \in {"eot", "final"} => sender.pos = FileSize
    /\ sender.state \in {"off", "start"} => sender.item = "header"
    /\ sender.state = "waitC" => sender.item \in {"header", "eot"}
    /\ sender.state = "done" => sender.item \in {"eot", "final"}

\* The end of the block the sender is at.
End(s) == Min2(s.pos + s.size, FileSize)

\* Sender and receiver while the information block is awaited: the sender is at its
\* first item.
InOpen ==
    /\ L = 0 /\ sender.pos = 0 /\ read_length = 0
    /\ sender.state # "waitC" /\ sender.item # "final"
    /\ sender.item = "eot" => header = "none"
    /\ sender.item = "data" => sender.blk = 1
    /\ sender.item # "eot" /\ Listening => toSender # <<"ACK">>

\* The block the sender is at is the last one accepted.
AtLast == (sender.blk + 1) % BLK_MOD = next_blk

\* Sender and receiver while data is awaited: the sender is at the block expected or at
\* the one accepted last, and only the latter is acknowledged.
InRead ==
    /\ sender.item # "final"
    /\ sender.state \in {"wait", "waitC", "gone"}
    /\ sender.item = "header" => next_blk = 1 /\ L = 0
    /\ sender.item = "data" =>
         \/ /\ sender.blk = next_blk /\ L = sender.pos
            /\ Listening => toSender # <<"ACK">>
         \/ AtLast /\ L = End(sender)
    /\ sender.item = "eot" =>
         /\ L = FileSize /\ sender.state # "waitC"
         /\ Listening => toSender # <<"ACK">>
    /\ sender.crc = crc_mode
    /\ Listening /\ toSender = <<"C">> => crc_mode

\* Every try that the last block accepted has cost since is paid for by a fault: two
\* for each, less what the fault has not cost yet.
TriesPaid ==
    phase = "read" /\ sender.item \in {"header", "data"} /\ AtLast =>
        /\ Flying => FreshTries + 1 <= retries + 2 * faults
        /\ sender.state = "wait" /\ toReceiver = <<>> =>
             /\ toSender = <<"ACK">> => FreshTries <= retries + 2 * faults
             /\ toSender \in Asks => FreshTries + 1 <= retries + 2 * faults
             /\ toSender = <<>> => FreshTries + 2 <= retries + 2 * faults

\* The count that cuts the padding is that of the units received.
LengthAgrees == phase = "read" /\ file_length # 0 /\ L < FileSize => read_length = L

\* The units received are the beginning of the file, and the sender is not beyond them.
InOrder ==
    phase # "undefined" =>
        /\ L <= FileSize /\ Ordered
        /\ sender.pos <= L
        /\ sender.state = "wait" /\ sender.item = "data" /\ toSender = <<"ACK">>
             => End(sender) <= L

Complete == at_eof => phase = "done" /\ Len(memory) = FileSize

\* The inductive invariant.
IndInv ==
    /\ TypeOK
    /\ OneAtATime
    /\ PlaceInFile
    /\ phase = "open" => InOpen
    /\ phase = "read" => InRead
    /\ phase = "final" => sender.item \in {"eot", "final"} /\ L = FileSize
    /\ TriesPaid
    /\ LengthAgrees
    /\ InOrder
    /\ Complete

(* What the receiver finds on the line. *)

\* The replies and what is left of them when one character is taken.
LEMMA RepliesIs ==
  /\ \A q \in Replies : q # <<>> => Tail(q) \in Replies
  /\ \A q \in Replies : q # <<>> /\ Head(q) # "ACK" => q \in Asks
  /\ \A q \in {<<"ACK">>} \cup Asks : q # <<>> /\ Tail(q) = <<>>
  /\ <<"ACK">> \notin Asks /\ <<>> \notin Asks
  /\ {<<>>, <<"ACK">>} \cup Asks \subseteq Replies
<1>1. /\ Tail(<<"ACK">>) = <<>> /\ Tail(<<"NAK">>) = <<>> /\ Tail(<<"C">>) = <<>>
      /\ Tail(<<"ACK", "ACK">>) = <<"ACK">> /\ Tail(<<"ACK", "NAK">>) = <<"NAK">>
      /\ Tail(<<"ACK", "C">>) = <<"C">>
      /\ Tail(<<"ACK", "ACK", "NAK">>) = <<"ACK", "NAK">>
      /\ Tail(<<"ACK", "ACK", "C">>) = <<"ACK", "C">>
  BY TailIs, Zenon
<1>2. \A q \in Replies : q # <<>> => Tail(q) \in Replies
  <2> TAKE q \in Replies
  <2> QED
    BY <1>1, Zenon DEF Replies, Asks
<1>3. \A q \in Replies : q # <<>> /\ Head(q) # "ACK" => q \in Asks
  BY DEF Replies, Asks
<1>4. \A q \in {<<"ACK">>} \cup Asks : q # <<>> /\ Tail(q) = <<>>
  <2>1. <<"ACK">> # <<>> /\ <<"NAK">> # <<>> /\ <<"C">> # <<>>
    OBVIOUS
  <2> QED
    BY <1>1, <2>1, Zenon DEF Asks
<1>5. <<"ACK">> \notin Asks /\ <<>> \notin Asks
  BY DEF Asks
<1>6. {<<>>, <<"ACK">>} \cup Asks \subseteq Replies
  BY DEF Replies
<1> QED
  BY <1>2, <1>3, <1>4, <1>5, <1>6

\* What an item looks like on the line.
LEMMA ItemIs ==
  ASSUME NEW s \in Sender
  PROVE  /\ Item(s) # Can
         /\ s.item = "eot" => Item(s).type = "eot"
         /\ s.item # "eot" => /\ Item(s).type = "block" /\ Item(s).crc = s.crc
                              /\ Item(s).blk = IF s.item = "data" THEN s.blk ELSE 0
                              /\ s.item = "data" => Item(s).data = Units(s.pos, s.size)
                              /\ Item(s) \in Block
<1>1. CASE s.item = "eot"
  BY <1>1 DEF Item, Can
<1>2. CASE s.item # "eot"
  <2>1. Item(s) = [type |-> "block", crc |-> s.crc,
                   blk |-> IF s.item = "data" THEN s.blk ELSE 0,
                   data |-> IF s.item = "data" THEN Units(s.pos, s.size) ELSE <<Text>>]
    BY <1>2 DEF Item
  <2>2. /\ Item(s).type = "block" /\ Item(s).crc = s.crc
        /\ Item(s).blk = IF s.item = "data" THEN s.blk ELSE 0
        /\ s.item = "data" => Item(s).data = Units(s.pos, s.size)
    BY <2>1
  <2>3. Item(s) \in Block /\ Item(s) # Can
    <3>1. Can.type = "can"
      BY DEF Can
    <3>2. Item(s) \notin Control
      BY <2>2 DEF Control
    <3> QED
      BY <2>2, <3>1, <3>2, ItemType
  <2> QED
    BY <1>2, <2>2, <2>3
<1> QED
  BY <1>1, <1>2

\* The item on its way, what comes with it and what is left behind it.
LEMMA LineIs ==
  ASSUME TypeOK, OneAtATime
  PROVE  /\ ~(toReceiver \in {<<>>, <<Can>>} /\ Flying)
         /\ toReceiver = <<Can>> => /\ sender.state = "gone" /\ Head(toReceiver) = Can
                                    /\ toReceiver # <<>> /\ Tail(toReceiver) = <<>>
         /\ Flying => /\ Head(toReceiver) = Item(sender) /\ toReceiver # <<>>
                      /\ Tail(toReceiver) \in {<<>>, <<Can>>}
                      /\ Tail(toReceiver) = <<Can>> => sender.state = "gone"
                      /\ sender.state \in {"wait", "waitC", "gone"}
<1>0. PICK it : it = Item(sender)
  OBVIOUS
<1>1. it # Can /\ sender \in Sender
  BY <1>0, ItemIs DEF TypeOK
<1>2. /\ Head(<<it>>) = it /\ Head(<<it, Can>>) = it /\ Head(<<Can>>) = Can
      /\ <<it>> # <<>> /\ <<it, Can>> # <<>> /\ <<Can>> # <<>>
      /\ <<it>> # <<Can>> /\ <<it, Can>> # <<Can>> /\ <<it>> # <<it, Can>>
  BY <1>1
<1>3. Tail(<<it>>) = <<>> /\ Tail(<<it, Can>>) = <<Can>> /\ Tail(<<Can>>) = <<>>
  BY TailIs
<1>4. Flying <=> toReceiver \in {<<it>>, <<it, Can>>}
  BY <1>0 DEF Flying
<1>5. /\ toReceiver \in {<<>>, <<Can>>} \/ toReceiver \in {<<it>>, <<it, Can>>}
      /\ toReceiver \in {<<Can>>, <<it, Can>>} => sender.state = "gone"
      /\ sender.state \in {"off", "start", "done"} => toReceiver = <<>>
  BY <1>0, <1>4 DEF OneAtATime
<1>6. sender.state \in {"off", "start", "wait", "waitC", "done", "gone"}
  BY <1>1 DEF Sender
<1> QED
  BY <1>0, <1>2, <1>3, <1>4, <1>5, <1>6

\* What xyzModem_get_hdr can return, with which faults.
Outcome(stat, m, rest) ==
    /\ UNCHANGED <<header, sender>>
    /\ Listening => toSender = <<>>
    /\ rest \in {<<>>, <<Can>>}
    /\ rest = <<Can>> => sender.state = "gone"
    /\ \/ toReceiver = <<>> /\ stat = "timeout" /\ faults' = faults
       \/ sender.state = "gone" /\ ~Flying /\ stat = "cancel" /\ faults' = faults
       \/ /\ Flying /\ m = Item(sender) /\ sender.state \in {"wait", "waitC", "gone"}
          /\ \/ sender.item = "eot" /\ stat = "eof" /\ faults' = faults
             \/ /\ sender.item # "eot" /\ stat = "ok" /\ faults' = faults
                /\ sender.crc = crc_mode
             \/ /\ sender.item # "eot" /\ stat \in {"timeout", "cksum"} /\ faults' = faults
                /\ sender.crc # crc_mode
             \/ sender.item # "eot" /\ stat \in {"cksum", "frame"} /\ faults' = faults + 1

LEMMA TimeoutOutcome ==
  ASSUME Conditions, TypeOK, OneAtATime, Timeout
  PROVE  \E stat, m, rest : Outcome(stat, m, rest) /\ Result(stat, m, rest)
<1>1. /\ toReceiver = <<>> /\ toSender = <<>> /\ UNCHANGED <<header, sender, faults>>
      /\ Result("timeout", [type |-> "eot"], <<>>)
  BY DEF Timeout, Conditions
<1>2. Outcome("timeout", [type |-> "eot"], <<>>)
  BY <1>1 DEF Outcome
<1> QED
  BY <1>1, <1>2

LEMMA ReceiveOutcome ==
  ASSUME Conditions, TypeOK, OneAtATime, Receive
  PROVE  \E stat, m, rest : Outcome(stat, m, rest) /\ Result(stat, m, rest)
<1>1. PICK m, damage, stat, rest :
        /\ m = Head(toReceiver) /\ stat = GetHdr(m, damage)
        /\ damage \in {"none"} \cup (IF m.type = "block" /\ faults < MaxFaults THEN Noise ELSE {})
        /\ faults' = IF damage = "none" THEN faults ELSE faults + 1
        /\ rest = IF stat = "frame" THEN <<>> ELSE Tail(toReceiver)
        /\ Result(stat, m, rest)
        /\ UNCHANGED <<header, sender>>
  <2>1. PICK damage \in {"none"} \cup (IF Head(toReceiver).type = "block" /\ faults < MaxFaults
                                         THEN Noise ELSE {}) :
          /\ faults' = IF damage = "none" THEN faults ELSE faults + 1
          /\ Result(GetHdr(Head(toReceiver), damage), Head(toReceiver),
                    IF GetHdr(Head(toReceiver), damage) = "frame" THEN <<>> ELSE Tail(toReceiver))
          /\ UNCHANGED <<header, sender>>
    BY DEF Receive
  <2> QED
    BY <2>1
<1>2. toReceiver # <<>> /\ (Listening => toSender = <<>>) /\ sender \in Sender
  BY DEF Receive, OneAtATime, TypeOK
<1>3. CASE toReceiver = <<Can>>
  <2>1. /\ sender.state = "gone" /\ m = Can /\ Tail(toReceiver) = <<>> /\ ~Flying
    BY <1>1, <1>3, LineIs
  <2>2. m.type = "can"
    BY <2>1 DEF Can
  <2>3. damage = "none" /\ faults' = faults
    BY <1>1, <2>2
  <2>4. stat = "cancel"
    BY <1>1, <2>2, <2>3, GetHdrIs
  <2>5. Outcome(stat, m, rest)
    BY <1>1, <1>2, <2>1, <2>3, <2>4 DEF Outcome
  <2> QED
    BY <1>1, <2>5
<1>4. CASE Flying
  <2>1. /\ m = Item(sender) /\ Tail(toReceiver) \in {<<>>, <<Can>>}
        /\ Tail(toReceiver) = <<Can>> => sender.state = "gone"
        /\ sender.state \in {"wait", "waitC", "gone"}
    BY <1>1, <1>4, LineIs
  <2>2. rest \in {<<>>, <<Can>>} /\ (rest = <<Can>> => sender.state = "gone")
    BY <1>1, <2>1
  <2>3. \/ sender.item = "eot" /\ stat = "eof" /\ faults' = faults
        \/ sender.item # "eot" /\ stat = "ok" /\ faults' = faults /\ sender.crc = crc_mode
        \/ /\ sender.item # "eot" /\ stat \in {"timeout", "cksum"} /\ faults' = faults
           /\ sender.crc # crc_mode
        \/ sender.item # "eot" /\ stat \in {"cksum", "frame"} /\ faults' = faults + 1
    <3>1. CASE sender.item = "eot"
      <4>1. m.type = "eot"
        BY <1>2, <2>1, <3>1, ItemIs
      <4>2. damage = "none"
        BY <1>1, <4>1
      <4> QED
        BY <1>1, <3>1, <4>1, <4>2, GetHdrIs
    <3>2. CASE sender.item # "eot" /\ damage = "none"
      <4>1. m.type = "block" /\ m.crc = sender.crc
        BY <1>2, <2>1, <3>2, ItemIs
      <4>2. stat = IF m.crc = crc_mode THEN "ok" ELSE IF crc_mode THEN "timeout" ELSE "cksum"
        BY <1>1, <3>2, <4>1, GetHdrIs
      <4> QED
        BY <1>1, <3>2, <4>1, <4>2
    <3>3. CASE sender.item # "eot" /\ damage # "none"
      <4>1. m.type = "block"
        BY <1>2, <2>1, <3>3, ItemIs
      <4>2. damage \in {"cksum", "frame"}
        BY <1>1, <3>3, YmodemAssumption DEF Conditions, StartsHeard
      <4>3. stat = damage
        BY <1>1, <4>1, <4>2, GetHdrIs
      <4> QED
        BY <1>1, <3>3, <4>2, <4>3
    <3> QED
      BY <3>1, <3>2, <3>3
  <2>4. Outcome(stat, m, rest)
    BY <1>1, <1>2, <1>4, <2>1, <2>2, <2>3 DEF Outcome
  <2> QED
    BY <1>1, <2>4
<1> QED
  BY <1>2, <1>3, <1>4 DEF OneAtATime

(* The steps of the receiver. *)

\* A reply goes to an empty line, or to nobody.
LEMMA ReplyIs ==
  ASSUME NEW chars \in Seq(Chars), Listening => toSender = <<>>, Reply(chars)
  PROVE  toSender' = IF Listening THEN chars ELSE toSender
<1>1. <<>> \o chars = chars
  BY ConcatEmptySeq
<1> QED
  BY <1>1 DEF Reply

\* The line after a step of the receiver.
LEMMA LineAfter ==
  ASSUME TypeOK, OneAtATime, sender' = sender,
         toReceiver' \in {<<>>, <<Can>>}, toReceiver' = <<Can>> => sender.state = "gone",
         NEW chars \in Replies, toSender' = IF Listening THEN chars ELSE toSender,
         Listening /\ (phase' \in {"open", "read"} \/ sender.item \in {"header", "data"})
           => chars \in {<<>>, <<"ACK">>} \cup Asks
  PROVE  OneAtATime' /\ ~Flying'
<1>0. PICK it : it = Item(sender)
  OBVIOUS
<1>1. it # Can /\ sender \in Sender /\ it = Item(sender')
  BY <1>0, ItemIs DEF TypeOK
<1>2. /\ <<it>> # <<>> /\ <<it, Can>> # <<>> /\ <<Can>> # <<>>
      /\ <<it>> # <<Can>> /\ <<it, Can>> # <<Can>>
  BY <1>1
<1>3. Flying' <=> toReceiver' \in {<<it>>, <<it, Can>>}
  BY <1>1 DEF Flying
<1>4. ~Flying'
  BY <1>2, <1>3
<1>5. toSender' \in Replies
  BY DEF OneAtATime
<1>6. Listening' <=> Listening
  BY DEF Listening
<1>7. /\ sender'.state \in {"off", "start", "done"} => toReceiver' = <<>>
      /\ toReceiver' \in {<<Can>>, <<Item(sender'), Can>>} => sender'.state = "gone"
      /\ sender'.state = "off" => toSender' = <<>>
  BY <1>1, <1>2 DEF OneAtATime, Listening
<1>8. Listening' /\ toSender' # <<>> => toReceiver' = <<>>
  BY <1>6 DEF Listening
<1>9. Listening' /\ (phase' \in {"open", "read"} \/ sender'.item \in {"header", "data"})
         => toSender' \in {<<>>, <<"ACK">>} \cup Asks
  BY <1>6
<1> QED
  BY <1>4, <1>5, <1>7, <1>8, <1>9 DEF OneAtATime

LEMMA CrcAsks ==
  ASSUME NEW crc \in BOOLEAN
  PROVE  /\ <<CrcChar(crc)>> \in Asks /\ <<CrcChar(crc)>> \in Seq(Chars)
         /\ <<CrcChar(crc)>> = <<"C">> => crc
         /\ <<"ACK", "ACK", CrcChar(crc)>> \in Replies
         /\ <<"ACK", "ACK", CrcChar(crc)>> \in Seq(Chars)
<1>1. CASE crc
  BY <1>1 DEF CrcChar, Asks, Chars, Replies
<1>2. CASE ~crc
  <2>1. <<"NAK">> # <<"C">>
    OBVIOUS
  <2> QED
    BY <1>2, <2>1 DEF CrcChar, Asks, Chars, Replies
<1> QED
  BY <1>1, <1>2

\* A block number is not that of the block after.
LEMMA NextBlk ==
  ASSUME NEW b \in 0..BLK_MOD - 1
  PROVE  /\ (b + 1) % BLK_MOD \in 0..BLK_MOD - 1 /\ (b + 1) % BLK_MOD # b
         /\ (0 + 1) % BLK_MOD = 1 /\ (1 + 1) % BLK_MOD = 2
BY YmodemAssumption

\* xyzModem_stream_open finds the information block, or the first block of data.
LEMMA OpenOk ==
  ASSUME Conditions, IndInv, TypeOK', NEW stat, NEW m, NEW rest, Outcome(stat, m, rest),
         StreamOpen(stat, m, rest), stat = "ok"
  PROVE  IndInv'
<1>0. /\ TypeOK /\ OneAtATime /\ InOpen /\ PlaceInFile /\ InOrder /\ LengthAgrees /\ Complete
      /\ phase = "open" /\ sender \in Sender
  BY DEF IndInv, StreamOpen, TypeOK
<1>1. /\ sender' = sender /\ header' = header /\ faults' = faults /\ sender.crc = crc_mode
      /\ sender.item # "eot" /\ m = Item(sender) /\ sender.state \in {"wait", "waitC", "gone"}
      /\ rest \in {<<>>, <<Can>>} /\ (rest = <<Can>> => sender.state = "gone")
      /\ Listening => toSender = <<>>
  BY DEF Outcome
<1>2. /\ file_length' \in {0, FileSize} /\ next_blk' = 1 /\ phase' = "read"
      /\ retries' = FreshTries /\ toReceiver' = rest /\ UNCHANGED <<crc_retries, crc_mode>>
      /\ UNCHANGED <<read_length, at_eof, ymodemBuf, memory>>
      /\ Reply(IF m.blk = 0 THEN <<"ACK">> ELSE <<>>)
  BY DEF StreamOpen
<1>3. \/ sender.item = "header" /\ m.blk = 0
      \/ sender.item = "data" /\ m.blk = 1 /\ sender.blk = 1
  BY <1>0, <1>1, ItemIs DEF InOpen, Sender
<1>4. PICK chars : /\ chars = IF m.blk = 0 THEN <<"ACK">> ELSE <<>>
                   /\ chars \in {<<>>, <<"ACK">>} /\ chars \in Seq(Chars)
  <2>1. <<>> \in Seq(Chars) /\ <<"ACK">> \in Seq(Chars)
    BY DEF Chars
  <2> QED
    BY <2>1
<1>5. toSender' = IF Listening THEN chars ELSE toSender
  BY <1>1, <1>2, <1>4, ReplyIs
<1>6. OneAtATime' /\ ~Flying'
  <2>1. chars \in Replies
    BY <1>4, RepliesIs
  <2> QED
    BY <1>0, <1>1, <1>2, <1>4, <1>5, <2>1, LineAfter
<1>7. L' = L /\ L = 0 /\ sender.pos = 0 /\ Ordered' /\ L \in Nat
  BY <1>0, <1>2 DEF InOpen, L, InOrder, Ordered, CountsFrom
<1>8. PlaceInFile'
  BY <1>0, <1>1 DEF PlaceInFile
<1>9. (Listening' <=> Listening) /\ <<"ACK">> # <<>> /\ <<"C">> # <<>> /\ <<"ACK">> # <<"C">>
  BY <1>1 DEF Listening
<1>10. InRead'
  <2>1. sender.item = "data" => (Listening => toSender' # <<"ACK">>)
    BY <1>3, <1>4, <1>5, <1>9
  <2>2. Listening => toSender' # <<"C">>
    BY <1>4, <1>5, <1>9
  <2>3. sender.item \in {"header", "data"}
    BY <1>3
  <2> QED
    BY <1>1, <1>2, <1>3, <1>7, <1>9, <2>1, <2>2, <2>3 DEF InRead
<1>11. TriesPaid'
  <2>1. sender.item = "data" => ~AtLast'
    BY <1>1, <1>2, <1>3, NextBlk, YmodemAssumption DEF AtLast
  <2>2. sender.item = "header" /\ sender.state = "wait" => toSender' = <<"ACK">>
    BY <1>3, <1>4, <1>5 DEF Listening
  <2>3. FreshTries <= retries' + 2 * faults' /\ faults' \in Nat
    BY <1>0, <1>1, <1>2, YmodemAssumption DEF TypeOK, FreshTries
  <2>4. <<"ACK">> \notin Asks /\ <<"ACK">> # <<>>
    BY RepliesIs
  <2> QED
    BY <1>1, <1>6, <2>1, <2>2, <2>3, <2>4 DEF TriesPaid
<1>12. LengthAgrees'
  BY <1>0, <1>2, <1>7 DEF LengthAgrees, InOpen
<1>13. InOrder'
  <2>1. ~(sender.state = "wait" /\ sender.item = "data" /\ toSender' = <<"ACK">>)
    BY <1>3, <1>4, <1>5, <1>9 DEF Listening
  <2> QED
    BY <1>1, <1>7, <2>1, YmodemAssumption DEF InOrder
<1>14. Complete'
  BY <1>0, <1>2 DEF Complete
<1> QED
  BY <1>2, <1>6, <1>8, <1>10, <1>11, <1>12, <1>13, <1>14 DEF IndInv

\* xyzModem_stream_open finds anything else: it asks again or gives up.
LEMMA OpenOther ==
  ASSUME Conditions, IndInv, TypeOK', NEW stat, NEW m, NEW rest, Outcome(stat, m, rest),
         StreamOpen(stat, m, rest), stat # "ok"
  PROVE  IndInv'
<1>0. /\ TypeOK /\ OneAtATime /\ InOpen /\ PlaceInFile /\ InOrder /\ LengthAgrees /\ Complete
      /\ phase = "open" /\ sender \in Sender
  BY DEF IndInv, StreamOpen, TypeOK
<1>1. /\ sender' = sender /\ header' = header
      /\ rest \in {<<>>, <<Can>>} /\ (rest = <<Can>> => sender.state = "gone")
      /\ Listening => toSender = <<>>
      /\ stat = "eof" => sender.item = "eot"
  BY DEF Outcome
<1>2. /\ UNCHANGED <<next_blk, file_length, read_length, at_eof, ymodemBuf, memory>>
      /\ phase' \in {"open", "done"} /\ toReceiver' \in {<<>>, rest}
  BY <1>0 DEF StreamOpen
<1>3. PICK chars : /\ Reply(chars) /\ chars \in Seq(Chars)
                   /\ chars \in {<<>>, <<"ACK">>} \cup Asks
                   /\ chars = <<"ACK">> => sender.item = "eot"
  <2>1. <<>> \in Seq(Chars) /\ <<"ACK">> \in Seq(Chars) /\ <<"ACK">> # <<>> /\ <<"ACK">> \notin Asks
    BY DEF Chars, Asks
  <2>2. CASE stat = "timeout"
    <3>1. Reply(<<CrcChar(crc_mode')>>) /\ crc_mode' \in BOOLEAN
      BY <2>2 DEF StreamOpen, TypeOK
    <3> QED
      BY <2>1, <3>1, CrcAsks
  <2>3. CASE stat # "timeout"
    <3>1. Reply(Acked(stat))
      BY <2>3 DEF StreamOpen
    <3> QED
      BY <1>1, <2>1, <3>1 DEF Acked
  <2> QED
    BY <2>2, <2>3
<1>4. toSender' = IF Listening THEN chars ELSE toSender
  BY <1>1, <1>3, ReplyIs
<1>5. OneAtATime' /\ ~Flying'
  <2>1. chars \in Replies
    BY <1>3, RepliesIs
  <2> QED
    BY <1>0, <1>1, <1>2, <1>3, <1>4, <2>1, LineAfter
<1>6. L' = L /\ L = 0 /\ sender.pos = 0 /\ Ordered' /\ L \in Nat
  BY <1>0, <1>2 DEF InOpen, L, InOrder, Ordered, CountsFrom
<1>7. PlaceInFile'
  BY <1>0, <1>1 DEF PlaceInFile
<1>8. Listening' <=> Listening
  BY <1>1 DEF Listening
<1>9. sender.item # "eot" /\ Listening => toSender' # <<"ACK">>
  BY <1>3, <1>4
<1>10. InOpen'
  BY <1>0, <1>1, <1>2, <1>6, <1>8, <1>9 DEF InOpen
<1>11. InOrder'
  <2>1. ~(sender.state = "wait" /\ sender.item = "data" /\ toSender' = <<"ACK">>)
    BY <1>9 DEF Listening
  <2> QED
    BY <1>1, <1>6, <2>1, YmodemAssumption DEF InOrder
<1>12. TriesPaid' /\ LengthAgrees' /\ Complete'
  BY <1>0, <1>2, <1>6 DEF TriesPaid, LengthAgrees, Complete
<1> QED
  BY <1>2, <1>5, <1>7, <1>10, <1>11, <1>12 DEF IndInv

\* The part of the block at the sender that the receiver keeps is the part of the file
\* it covers, whether it is found by the padding or by the length.
LEMMA KeptIs ==
  ASSUME TypeOK, LengthAgrees, phase = "read", sender.item = "data", sender.pos < FileSize,
         L = sender.pos
  PROVE  /\ CutPadding(Units(sender.pos, sender.size)) \in Data
         /\ Len(CutPadding(Units(sender.pos, sender.size))) = End(sender) - sender.pos
         /\ CountsFrom(CutPadding(Units(sender.pos, sender.size)), sender.pos)
<1>0. PICK pos, size, n, data :
        /\ pos = sender.pos /\ size = sender.size /\ data = Units(pos, size)
        /\ n = Min2(pos + size, FileSize) - pos
  OBVIOUS
<1>1. /\ pos \in Nat /\ size \in Nat \ {0} /\ size <= STX_LEN /\ FileSize \in Nat /\ pos < FileSize
      /\ file_length \in {0, FileSize} /\ read_length \in Nat
  <2>1. sender.pos \in Nat /\ sender.size \in {SOH_LEN, STX_LEN}
    BY DEF TypeOK, Sender
  <2>2. size \in Nat \ {0} /\ size <= STX_LEN /\ FileSize \in Nat
    BY <1>0, <2>1, YmodemAssumption
  <2> QED
    BY <1>0, <2>1, <2>2 DEF TypeOK
<1>2. /\ data \in Seq(0..Text) /\ Len(data) = size /\ data \in Data
      /\ \A i \in 1..size : data[i] = Min2(pos + i - 1, FileSize)
  BY <1>0, <1>1, UnitsIs DEF Data
<1>3. n \in 1..size /\ (n = size \/ n = FileSize - pos) /\ n <= FileSize - pos
  BY <1>0, <1>1 DEF Min2
<1>4. CutPadding(data) = SubSeq(data, 1, n) /\ CutPadding(data) \in Data
  <2>0. file_length \in Nat
    BY <1>1
  <2>1. CASE file_length = 0
    <3>1. \A i \in n + 1..Len(data) : data[i] = Pad
      BY <1>1, <1>2, <1>3 DEF Min2, Pad
    <3>2. data[n] # Pad
      BY <1>1, <1>2, <1>3 DEF Min2, Pad
    <3>3. KeptLen(data, n)
      BY <1>2, <1>3, <3>1, <3>2 DEF KeptLen
    <3> QED
      BY <1>1, <1>2, <2>0, <2>1, <3>3, CutPaddingIs
  <2>2. CASE file_length # 0
    <3>1. file_length = FileSize /\ read_length = pos
      BY <1>0, <1>1, <2>2 DEF LengthAgrees
    <3>2. n = Len(data) - (IF read_length + Len(data) > file_length
                             THEN read_length + Len(data) - file_length ELSE 0)
      BY <1>0, <1>1, <1>2, <3>1 DEF Min2
    <3> QED
      BY <1>1, <1>2, <2>0, <2>2, <3>2, CutPaddingIs
  <2> QED
    BY <2>1, <2>2
<1>5. /\ Len(SubSeq(data, 1, n)) = n
      /\ \A i \in 1..n : SubSeq(data, 1, n)[i] = data[i]
  <2>1. 1 \in Int /\ n \in Int /\ \A i \in 1..n : data[i] \in 0..Text
    <3>1. 1 \in Int /\ n \in Int /\ \A i \in 1..n : i \in 1..Len(data)
      BY <1>1, <1>2, <1>3
    <3> QED
      BY <1>2, <3>1, ElementOfSeq
  <2> QED
    BY <1>1, <1>3, <2>1, SubSeqProperties
<1>6. \A i \in 1..n : data[i] = pos + i - 1
  BY <1>1, <1>2, <1>3 DEF Min2
<1>7. CountsFrom(CutPadding(data), pos) /\ Len(CutPadding(data)) = n
  BY <1>4, <1>5, <1>6 DEF CountsFrom
<1> QED
  BY <1>0, <1>4, <1>7 DEF End

\* xyzModem_stream_read accepts the block it expects.
LEMMA Accepted ==
  ASSUME Conditions, IndInv, TypeOK', NEW stat, NEW m, NEW rest, Outcome(stat, m, rest),
         phase = "read", stat = "ok", AcceptBlock(m, rest)
  PROVE  IndInv'
<1>0. /\ TypeOK /\ OneAtATime /\ InRead /\ PlaceInFile /\ InOrder /\ LengthAgrees /\ Complete
      /\ sender \in Sender
  BY DEF IndInv, TypeOK
<1>1. /\ sender' = sender /\ header' = header /\ faults' = faults /\ sender.crc = crc_mode
      /\ sender.item # "eot" /\ m = Item(sender) /\ sender.state \in {"wait", "waitC", "gone"}
      /\ rest \in {<<>>, <<Can>>} /\ (rest = <<Can>> => sender.state = "gone")
      /\ Listening => toSender = <<>>
  BY DEF Outcome
<1>2. /\ m.blk = next_blk /\ next_blk' = (next_blk + 1) % BLK_MOD
      /\ Deliver(CutPadding(m.data))
      /\ read_length' = IF file_length = 0 THEN 0 ELSE read_length + Len(m.data)
      /\ Reply(<<"ACK">>) /\ retries' = FreshTries /\ toReceiver' = rest
      /\ UNCHANGED <<phase, crc_retries, crc_mode, file_length, at_eof>>
  BY DEF AcceptBlock
<1>3. sender.item = "data" /\ sender.blk = next_blk /\ L = sender.pos /\ sender.pos < FileSize
  <2>1. sender.item \in {"header", "data"}
    BY <1>0, <1>1 DEF InRead, Sender
  <2>2. sender.item = "data"
    <3>1. sender.item = "header" => m.blk = 0 /\ next_blk = 1
      BY <1>0, <1>1, ItemIs DEF InRead
    <3> QED
      BY <1>2, <2>1, <3>1
  <2>3. sender.blk = next_blk /\ sender.blk \in 0..BLK_MOD - 1
    BY <1>0, <1>1, <1>2, <2>2, ItemIs DEF Sender
  <2>4. ~AtLast
    BY <2>3, NextBlk DEF AtLast
  <2> QED
    BY <1>0, <2>2, <2>3, <2>4 DEF InRead, PlaceInFile
<1>4. m.data = Units(sender.pos, sender.size) /\ Len(m.data) = sender.size
  <2>1. sender.pos \in Nat /\ sender.size \in Nat
    BY <1>0, YmodemAssumption DEF Sender
  <2> QED
    BY <1>0, <1>1, <1>3, <2>1, ItemIs, UnitsIs
<1>5. PICK data : /\ data = CutPadding(m.data) /\ data \in Data
                  /\ Len(data) = End(sender) - sender.pos /\ CountsFrom(data, sender.pos)
  BY <1>0, <1>3, <1>4, KeptIs
<1>6. L' = L + Len(data) /\ Ordered'
  BY <1>0, <1>2, <1>3, <1>5, DeliverIs DEF TypeOK, InOrder
<1>7. /\ L' = End(sender) /\ End(sender) <= FileSize /\ sender.pos < End(sender)
      /\ End(sender) < FileSize => End(sender) = sender.pos + sender.size
      /\ End(sender) \in Nat /\ sender.pos \in Nat
  <2>1. sender.pos \in Nat /\ sender.size \in Nat \ {0} /\ FileSize \in Nat
    BY <1>0, YmodemAssumption DEF Sender
  <2>2. /\ End(sender) <= FileSize /\ sender.pos < End(sender) /\ End(sender) \in Nat
        /\ End(sender) < FileSize => End(sender) = sender.pos + sender.size
    BY <1>3, <2>1 DEF End, Min2
  <2> QED
    BY <1>3, <1>5, <1>6, <2>1, <2>2
<1>8. toSender' = IF Listening THEN <<"ACK">> ELSE toSender
  <2>1. <<"ACK">> \in Seq(Chars)
    BY DEF Chars
  <2> QED
    BY <1>1, <1>2, <2>1, ReplyIs
<1>9. OneAtATime' /\ ~Flying'
  <2>1. <<"ACK">> \in Replies
    BY RepliesIs
  <2> QED
    BY <1>0, <1>1, <1>2, <1>8, <2>1, LineAfter
<1>10. PlaceInFile'
  BY <1>0, <1>1 DEF PlaceInFile
<1>11. (Listening' <=> Listening) /\ End(sender') = End(sender)
  BY <1>1 DEF Listening
<1>12. InRead'
  <2>1. AtLast'
    BY <1>1, <1>2, <1>3 DEF AtLast
  <2>2. Listening => toSender' # <<"C">>
    <3>1. <<"ACK">> # <<"C">>
      OBVIOUS
    <3> QED
      BY <1>8, <3>1
  <2> QED
    BY <1>1, <1>2, <1>3, <1>7, <1>11, <2>1, <2>2 DEF InRead
<1>13. TriesPaid'
  <2>1. sender.state = "wait" => toSender' = <<"ACK">>
    BY <1>8 DEF Listening
  <2>2. FreshTries <= retries' + 2 * faults'
    BY <1>0, <1>1, <1>2, YmodemAssumption DEF TypeOK, FreshTries
  <2>3. <<"ACK">> \notin Asks /\ <<"ACK">> # <<>>
    BY RepliesIs
  <2> QED
    BY <1>1, <1>9, <2>1, <2>2, <2>3 DEF TriesPaid
<1>14. LengthAgrees'
  <2>1. file_length # 0 => read_length = sender.pos
    BY <1>0, <1>3 DEF LengthAgrees
  <2> QED
    BY <1>2, <1>4, <1>7, <2>1 DEF LengthAgrees
<1>15. InOrder'
  BY <1>1, <1>6, <1>7, <1>11 DEF InOrder
<1>16. Complete'
  BY <1>0, <1>2 DEF Complete
<1> QED
  BY <1>2, <1>9, <1>10, <1>12, <1>13, <1>14, <1>15, <1>16 DEF IndInv

\* xyzModem_stream_read gets the last block again: the tries never run out there, so
\* it is not copied a second time.
LEMMA Repeated ==
  ASSUME Conditions, IndInv, TypeOK', NEW stat, NEW m, NEW rest, Outcome(stat, m, rest),
         phase = "read", stat = "ok", RepeatedBlock(m, rest)
  PROVE  IndInv'
<1>0. /\ TypeOK /\ OneAtATime /\ InRead /\ PlaceInFile /\ InOrder /\ LengthAgrees /\ Complete
      /\ TriesPaid /\ sender \in Sender
  BY DEF IndInv, TypeOK
<1>1. /\ sender' = sender /\ header' = header /\ faults' = faults /\ sender.crc = crc_mode
      /\ sender.item # "eot" /\ m = Item(sender) /\ sender.state \in {"wait", "waitC", "gone"}
      /\ rest \in {<<>>, <<Can>>} /\ (rest = <<Can>> => sender.state = "gone")
      /\ Listening => toSender = <<>>
      /\ Flying
  BY DEF Outcome
<1>2. /\ m.blk # next_blk /\ (m.blk + 1) % BLK_MOD = next_blk
      /\ Reply(<<"ACK">>) /\ toReceiver' = rest
      /\ UNCHANGED <<phase, crc_retries, crc_mode, next_blk, file_length, read_length, at_eof>>
      /\ IF retries = 0
           THEN Deliver(m.data) /\ retries' = FreshTries
           ELSE retries' = retries - 1 /\ UNCHANGED <<memory, ymodemBuf>>
  BY DEF RepeatedBlock
<1>3. sender.item \in {"header", "data"} /\ AtLast /\ (sender.item = "data" => L = End(sender))
  <2>1. sender.item \in {"header", "data"}
    BY <1>0, <1>1 DEF InRead, Sender
  <2>2. m.blk = sender.blk
    BY <1>0, <1>1, <2>1, ItemIs DEF PlaceInFile
  <2> QED
    BY <1>0, <1>2, <2>1, <2>2 DEF AtLast, InRead
<1>4. /\ retries # 0 /\ retries' = retries - 1 /\ UNCHANGED <<memory, ymodemBuf>>
      /\ FreshTries <= retries' + 2 * faults'
  <2>1. FreshTries + 1 <= retries + 2 * faults
    BY <1>0, <1>1, <1>3 DEF TriesPaid
  <2>2. retries # 0
    BY <1>0, <2>1, YmodemAssumption DEF TypeOK, FreshTries, Conditions, FewFaults
  <2>3. retries' = retries - 1 /\ UNCHANGED <<memory, ymodemBuf>>
    BY <1>2, <2>2
  <2>4. FreshTries <= retries' + 2 * faults'
    BY <1>0, <1>1, <2>1, <2>3, YmodemAssumption DEF TypeOK, FreshTries
  <2> QED
    BY <2>2, <2>3, <2>4
<1>5. toSender' = IF Listening THEN <<"ACK">> ELSE toSender
  <2>1. <<"ACK">> \in Seq(Chars)
    BY DEF Chars
  <2> QED
    BY <1>1, <1>2, <2>1, ReplyIs
<1>6. OneAtATime' /\ ~Flying'
  <2>1. <<"ACK">> \in Replies
    BY RepliesIs
  <2> QED
    BY <1>0, <1>1, <1>2, <1>5, <2>1, LineAfter
<1>7. L' = L /\ (Ordered => Ordered')
  BY <1>4 DEF L, Ordered, CountsFrom
<1>8. PlaceInFile'
  BY <1>0, <1>1 DEF PlaceInFile
<1>9. (Listening' <=> Listening) /\ End(sender') = End(sender) /\ AtLast'
  BY <1>1, <1>2, <1>3 DEF Listening, AtLast
<1>10. InRead'
  <2>1. Listening => toSender' # <<"C">>
    <3>1. <<"ACK">> # <<"C">>
      OBVIOUS
    <3> QED
      BY <1>5, <3>1
  <2> QED
    BY <1>0, <1>1, <1>2, <1>3, <1>7, <1>9, <2>1 DEF InRead
<1>11. TriesPaid'
  <2>1. sender.state = "wait" => toSender' = <<"ACK">>
    BY <1>5 DEF Listening
  <2>2. <<"ACK">> \notin Asks /\ <<"ACK">> # <<>>
    BY RepliesIs
  <2> QED
    BY <1>1, <1>4, <1>6, <2>1, <2>2 DEF TriesPaid
<1>12. LengthAgrees' /\ Complete'
  BY <1>0, <1>2, <1>4, <1>7 DEF LengthAgrees, Complete
<1>13. InOrder'
  <2>1. L' \in Nat
    BY <1>7 DEF TypeOK, L
  <2> QED
    BY <1>0, <1>1, <1>2, <1>3, <1>7, <1>9, <2>1 DEF InOrder
<1> QED
  BY <1>2, <1>6, <1>8, <1>10, <1>11, <1>12, <1>13 DEF IndInv

\* The units read since the last full chunk are stored with the others.
LEMMA FinishIs ==
  ASSUME TypeOK, Finish
  PROVE  /\ L' = L /\ Len(memory') = L /\ phase' = "done" /\ toReceiver' = <<>>
         /\ Ordered => Ordered'
<1>1. memory' = memory \o ymodemBuf /\ ymodemBuf' = <<>> /\ phase' = "done" /\ toReceiver' = <<>>
  BY DEF Finish
<1>2. memory \in Seq(0..Text) /\ ymodemBuf \in Seq(0..Text)
      /\ Len(memory) \in Nat /\ Len(ymodemBuf) \in Nat
  BY LenProperties DEF TypeOK
<1>3. Len(memory') = L /\ L' = L
  <2>1. Len(memory \o ymodemBuf) = Len(memory) + Len(ymodemBuf) /\ Len(<<>>) = 0
    BY <1>2, ConcatProperties
  <2> QED
    BY <1>1, <1>2, <2>1 DEF L
<1>4. ASSUME Ordered PROVE Ordered'
  <2>1. CountsFrom(memory, 0) /\ CountsFrom(ymodemBuf, 0 + Len(memory))
    BY <1>2, <1>4 DEF Ordered
  <2>2. CountsFrom(memory \o ymodemBuf, 0)
    BY <1>2, <2>1, CountsJoin
  <2>3. CountsFrom(memory', 0)
    BY <1>1, <2>2
  <2>4. CountsFrom(ymodemBuf', Len(memory'))
    BY <1>1 DEF CountsFrom
  <2> QED
    BY <2>3, <2>4 DEF Ordered, CountsFrom
<1> QED
  BY <1>1, <1>3, <1>4

\* A failure ends the load with what was received, or in undefined behaviour.
LEMMA FailsIs ==
  ASSUME TypeOK, NEW rest, StreamFails(rest)
  PROVE  \/ phase' = "undefined" /\ toReceiver' = rest
         \/ phase' = "done" /\ toReceiver' = <<>> /\ L' = L /\ (Ordered => Ordered')
<1>1. CASE ymodemBuf = <<>>
  BY <1>1, FinishIs DEF StreamFails
<1>2. CASE ymodemBuf # <<>>
  BY <1>2 DEF StreamFails
<1> QED
  BY <1>1, <1>2

\* The invariant after a load that has failed, without an acknowledgement.
LEMMA FailedStep ==
  ASSUME IndInv, TypeOK', NEW rest, StreamFails(rest), OneAtATime', sender' = sender,
         at_eof' = at_eof, phase = "read",
         sender.state = "wait" /\ sender.item = "data" => toSender' # <<"ACK">>
  PROVE  IndInv'
<1>1. TypeOK /\ PlaceInFile /\ InOrder /\ LengthAgrees /\ Complete
  BY DEF IndInv
<1>2. \/ phase' = "undefined"
      \/ phase' = "done" /\ L' = L /\ (Ordered => Ordered')
  BY <1>1, FailsIs
<1>3. PlaceInFile'
  BY <1>1 DEF PlaceInFile
<1>4. ~at_eof
  BY <1>1 DEF Complete
<1>5. TriesPaid' /\ Complete' /\ InOrder'
  BY <1>1, <1>2, <1>4 DEF TriesPaid, Complete, InOrder
<1>6. LengthAgrees'
  BY <1>1, <1>2 DEF LengthAgrees
<1> QED
  BY <1>2, <1>3, <1>5, <1>6 DEF IndInv

\* xyzModem_stream_read asks for a block again, or gives up.
LEMMA AskedAgain ==
  ASSUME Conditions, IndInv, TypeOK', NEW stat, NEW m, NEW rest, Outcome(stat, m, rest),
         phase = "read", stat \notin {"cancel", "eof"},
         stat = "ok" => next_blk \notin {m.blk, (m.blk + 1) % BLK_MOD}, TryAgain(rest)
  PROVE  IndInv'
<1>0. /\ TypeOK /\ OneAtATime /\ InRead /\ PlaceInFile /\ InOrder /\ LengthAgrees /\ Complete
      /\ TriesPaid /\ sender \in Sender /\ crc_mode \in BOOLEAN
  BY DEF IndInv, TypeOK
<1>1. /\ sender' = sender /\ header' = header
      /\ rest \in {<<>>, <<Can>>} /\ (rest = <<Can>> => sender.state = "gone")
      /\ Listening => toSender = <<>>
      /\ toReceiver = <<>> \/ Flying
  BY DEF Outcome
<1>2. /\ Reply(<<CrcChar(crc_mode)>>)
      /\ IF retries = 0
           THEN StreamFails(rest) /\ UNCHANGED retries
           ELSE retries' = retries - 1 /\ toReceiver' = rest /\ UNCHANGED <<phase, memory, ymodemBuf>>
      /\ UNCHANGED <<crc_retries, crc_mode, next_blk, file_length, read_length, at_eof>>
  BY DEF TryAgain
<1>3. PICK ask : /\ ask = <<CrcChar(crc_mode)>> /\ ask \in Asks /\ ask \in Seq(Chars)
                 /\ ask = <<"C">> => crc_mode
  BY <1>0, CrcAsks
<1>4. /\ toSender' = IF Listening THEN ask ELSE toSender
      /\ ask # <<"ACK">> /\ ask # <<>> /\ ask \in Replies
  BY <1>1, <1>2, <1>3, ReplyIs, RepliesIs
<1>5. (Listening' <=> Listening) /\ End(sender') = End(sender)
  BY <1>1 DEF Listening
<1>6. toReceiver' \in {<<>>, rest} /\ phase' \in {"read", "done", "undefined"}
  BY <1>0, <1>2, FailsIs
<1>7. OneAtATime' /\ ~Flying'
  BY <1>0, <1>1, <1>3, <1>4, <1>6, LineAfter
<1>8. CASE retries = 0
  <2>1. sender.state = "wait" => toSender' # <<"ACK">>
    BY <1>4 DEF Listening
  <2> QED
    BY <1>0, <1>1, <1>2, <1>7, <1>8, <2>1, FailedStep
<1>9. CASE retries # 0
  <2>1. retries' = retries - 1 /\ UNCHANGED <<phase, memory, ymodemBuf>> /\ toReceiver' = rest
    BY <1>2, <1>9
  <2>2. L' = L /\ (Ordered => Ordered')
    BY <2>1 DEF L, Ordered, CountsFrom
  <2>3. PlaceInFile'
    BY <1>0, <1>1 DEF PlaceInFile
  <2>4. AtLast' <=> AtLast
    BY <1>1, <1>2 DEF AtLast
  <2>5. InRead'
    BY <1>0, <1>1, <1>2, <1>3, <1>4, <1>5, <2>2, <2>4 DEF InRead
  <2>6. TriesPaid'
    <3> SUFFICES ASSUME sender.item \in {"header", "data"}, AtLast, sender.state = "wait"
                 PROVE  FreshTries + 1 <= retries' + 2 * faults'
      <4>1. sender.state = "wait" => toSender' = ask
        BY <1>4 DEF Listening
      <4> QED
        BY <1>1, <1>3, <1>4, <1>7, <2>4, <4>1 DEF TriesPaid
    <3>0. /\ retries \in Nat /\ faults \in Nat /\ FreshTries \in Nat
      BY <1>0, YmodemAssumption DEF TypeOK, FreshTries
    <3>1. CASE toReceiver = <<>>
      <4>1. toSender = <<>>
        BY <1>1 DEF Listening
      <4>2. FreshTries + 2 <= retries + 2 * faults
        BY <1>0, <3>1, <4>1 DEF TriesPaid
      <4>3. faults' = faults \/ faults' = faults + 1
        BY DEF Outcome
      <4> QED
        BY <2>1, <3>0, <4>2, <4>3
    <3>2. CASE Flying
      <4>1. FreshTries + 1 <= retries + 2 * faults
        BY <1>0, <3>2 DEF TriesPaid
      <4>2. m = Item(sender) => m.blk = sender.blk
        BY <1>0, ItemIs DEF PlaceInFile
      <4>3. m = Item(sender) => stat # "ok"
        BY <4>2 DEF AtLast
      <4>4. toReceiver # <<>>
        BY <1>0, <3>2, LineIs
      <4>5. faults' = faults + 1
        BY <1>0, <4>3, <4>4 DEF Outcome, InRead
      <4> QED
        BY <2>1, <3>0, <4>1, <4>5
    <3> QED
      BY <1>1, <3>1, <3>2
  <2>7. LengthAgrees' /\ Complete'
    BY <1>0, <1>2, <2>1, <2>2 DEF LengthAgrees, Complete
  <2>8. InOrder'
    <3>1. sender.state = "wait" => toSender' # <<"ACK">>
      BY <1>4 DEF Listening
    <3> QED
      BY <1>0, <1>1, <2>1, <2>2, <3>1 DEF InOrder
  <2> QED
    BY <1>7, <2>1, <2>3, <2>5, <2>6, <2>7, <2>8 DEF IndInv
<1> QED
  BY <1>8, <1>9

\* The sender has cancelled: what was received stays the beginning of the file.
LEMMA CancelledStep ==
  ASSUME Conditions, IndInv, TypeOK', NEW stat, NEW m, NEW rest, Outcome(stat, m, rest),
         phase = "read", stat = "cancel", Cancelled(rest)
  PROVE  IndInv'
<1>0. TypeOK /\ OneAtATime
  BY DEF IndInv
<1>1. /\ sender' = sender /\ sender.state = "gone" /\ rest \in {<<>>, <<Can>>}
  BY DEF Outcome
<1>2. StreamFails(rest) /\ toSender' = toSender /\ at_eof' = at_eof
  BY DEF Cancelled
<1>3. toReceiver' \in {<<>>, <<Can>>} /\ ~Listening
  BY <1>0, <1>1, <1>2, FailsIs DEF Listening
<1>4. PICK chars \in Replies : chars = toSender
  BY <1>0 DEF OneAtATime
<1>5. OneAtATime'
  BY <1>0, <1>1, <1>2, <1>3, <1>4, LineAfter
<1> QED
  BY <1>1, <1>2, <1>5, FailedStep

\* EOT comes when the sender has sent everything and all of it has been received.
LEMMA EofStep ==
  ASSUME Conditions, IndInv, TypeOK', NEW stat, NEW m, NEW rest, Outcome(stat, m, rest),
         phase = "read", stat = "eof", EndOfFile(rest)
  PROVE  IndInv'
<1>0. /\ TypeOK /\ OneAtATime /\ InRead /\ PlaceInFile /\ InOrder /\ Complete
      /\ crc_mode \in BOOLEAN
  BY DEF IndInv, TypeOK
<1>1. /\ sender' = sender /\ sender.item = "eot" /\ rest \in {<<>>, <<Can>>}
      /\ rest = <<Can>> => sender.state = "gone"
      /\ Listening => toSender = <<>>
  BY DEF Outcome
<1>2. /\ phase' = "final" /\ Reply(<<"ACK", "ACK", CrcChar(crc_mode)>>) /\ toReceiver' = rest
      /\ UNCHANGED <<at_eof, ymodemBuf, memory>>
  BY DEF EndOfFile
<1>3. PICK chars : /\ chars = <<"ACK", "ACK", CrcChar(crc_mode)>>
                   /\ chars \in Replies /\ chars \in Seq(Chars)
  BY <1>0, CrcAsks
<1>4. toSender' = IF Listening THEN chars ELSE toSender
  BY <1>1, <1>2, <1>3, ReplyIs
<1>5. OneAtATime'
  BY <1>0, <1>1, <1>2, <1>3, <1>4, LineAfter
<1>6. L' = L /\ L = FileSize /\ (Ordered => Ordered')
  BY <1>0, <1>1, <1>2 DEF L, Ordered, CountsFrom, InRead
<1>7. PlaceInFile' /\ InOrder' /\ TriesPaid' /\ LengthAgrees' /\ Complete'
  BY <1>0, <1>1, <1>2, <1>6 DEF PlaceInFile, InOrder, TriesPaid, LengthAgrees, Complete
<1> QED
  BY <1>1, <1>2, <1>5, <1>6, <1>7 DEF IndInv

\* The load ends after EOT, with or without the final information block.
LEMMA FinalStep ==
  ASSUME Conditions, IndInv, TypeOK', NEW stat, NEW m, NEW rest, Outcome(stat, m, rest),
         FinalHeader(stat)
  PROVE  IndInv'
<1>0. /\ TypeOK /\ OneAtATime /\ PlaceInFile /\ InOrder /\ phase = "final" /\ L = FileSize
      /\ sender.item \in {"eot", "final"}
  BY DEF IndInv, FinalHeader
<1>1. sender' = sender /\ (Listening => toSender = <<>>)
  BY DEF Outcome
<1>2. Reply(Acked(stat) \o <<"ACK">>) /\ Finish
  BY DEF FinalHeader
<1>3. PICK chars : /\ chars = Acked(stat) \o <<"ACK">>
                   /\ chars \in Replies /\ chars \in Seq(Chars)
  <2>1. <<>> \o <<"ACK">> = <<"ACK">> /\ <<"ACK">> \o <<"ACK">> = <<"ACK", "ACK">>
    BY JoinIs
  <2>2. {<<"ACK">>, <<"ACK", "ACK">>} \subseteq Replies /\ {<<"ACK">>, <<"ACK", "ACK">>} \subseteq Seq(Chars)
    BY DEF Replies, Chars
  <2> QED
    BY <2>1, <2>2 DEF Acked
<1>4. toSender' = IF Listening THEN chars ELSE toSender
  BY <1>1, <1>2, <1>3, ReplyIs
<1>5. /\ L' = L /\ Len(memory') = L /\ phase' = "done" /\ toReceiver' = <<>>
      /\ Ordered => Ordered'
  BY <1>0, <1>2, FinishIs
<1>6. OneAtATime'
  BY <1>0, <1>1, <1>3, <1>4, <1>5, LineAfter
<1>7. PlaceInFile' /\ InOrder' /\ TriesPaid' /\ LengthAgrees' /\ Complete'
  BY <1>0, <1>1, <1>5 DEF PlaceInFile, InOrder, TriesPaid, LengthAgrees, Complete
<1> QED
  BY <1>5, <1>6, <1>7 DEF IndInv

\* Every step of the receiver keeps the invariant.
LEMMA ReceiverStep ==
  ASSUME Conditions, IndInv, TypeOK', Receive \/ Timeout
  PROVE  IndInv'
<1>1. TypeOK /\ OneAtATime
  BY DEF IndInv
<1>2. PICK stat, m, rest : Outcome(stat, m, rest) /\ Result(stat, m, rest)
  BY <1>1, TimeoutOutcome, ReceiveOutcome
<1>3. CASE StreamOpen(stat, m, rest)
  BY <1>2, <1>3, OpenOk, OpenOther
<1>4. CASE StreamRead(stat, m, rest)
  BY <1>2, <1>4, Accepted, Repeated, CancelledStep, EofStep, AskedAgain DEF StreamRead
<1>5. CASE FinalHeader(stat)
  BY <1>2, <1>5, FinalStep
<1> QED
  BY <1>2, <1>3, <1>4, <1>5 DEF Result

(* The steps of the sender and the line. *)

\* A step of the sender changes nothing the receiver has.
LEMMA ReceiverKept ==
  ASSUME UNCHANGED receiverVars
  PROVE  /\ UNCHANGED <<phase, retries, crc_retries, crc_mode, next_blk, file_length,
                        read_length, at_eof, memory, ymodemBuf>>
         /\ L' = L /\ (Ordered => Ordered') /\ (Complete => Complete')
         /\ LengthAgrees => LengthAgrees'
BY DEF receiverVars, L, Ordered, CountsFrom, Complete, LengthAgrees

\* The line after a transmission.
LEMMA LineSent ==
  ASSUME NEW s \in Sender, s.state = "wait", toReceiver = <<>>, toSender' = <<>>, Transmit(s)
  PROVE  OneAtATime' /\ Flying' /\ toReceiver' # <<>> /\ sender' = s
<1>0. PICK it : it = Item(s)
  OBVIOUS
<1>1. sender' = s /\ toReceiver' = <<it>>
  BY <1>0, JoinIs DEF Transmit
<1>2. it # Can
  BY <1>0, ItemIs
<1>3. <<it>> # <<>> /\ <<it>> # <<Can>> /\ <<it>> # <<it, Can>>
  BY <1>2
<1>4. Flying'
  BY <1>0, <1>1 DEF Flying
<1>5. toSender' \in Replies
  BY RepliesIs
<1> QED
  BY <1>0, <1>1, <1>3, <1>4, <1>5 DEF OneAtATime

\* The line after the sender has given up or was stopped.
LEMMA LineGone ==
  ASSUME TypeOK, OneAtATime, sender.state # "gone", sender' = [sender EXCEPT !.state = "gone"],
         toSender' \in Replies,
         toReceiver' \in {toReceiver, Append(toReceiver, Can)}
  PROVE  OneAtATime' /\ (Flying' => Flying) /\ ~Listening'
<1>0. PICK it : it = Item(sender)
  OBVIOUS
<1>1. sender \in Sender
  BY DEF TypeOK
<1>2. /\ sender'.item = sender.item /\ sender'.blk = sender.blk /\ sender'.pos = sender.pos
      /\ sender'.size = sender.size /\ sender'.crc = sender.crc /\ sender'.state = "gone"
  BY <1>1 DEF Sender
<1>3. Item(sender') = it /\ it # Can
  BY <1>0, <1>1, <1>2, ItemIs DEF Item
<1>4. Append(<<>>, Can) = <<Can>> /\ Append(<<it>>, Can) = <<it, Can>>
  BY JoinIs
<1>5. /\ <<it>> # <<>> /\ <<it, Can>> # <<>> /\ <<Can>> # <<>>
      /\ <<it>> # <<Can>> /\ <<it, Can>> # <<Can>>
  BY <1>3
<1>6. toReceiver \in {<<>>, <<it>>}
  BY <1>0 DEF OneAtATime, Flying
<1>7. toReceiver' \in {<<>>, <<it>>, <<Can>>, <<it, Can>>}
  BY <1>4, <1>6
<1>8. /\ Flying' <=> toReceiver' \in {<<it>>, <<it, Can>>}
      /\ Flying <=> toReceiver \in {<<it>>, <<it, Can>>}
  BY <1>0, <1>3 DEF Flying
<1>9. Flying' => Flying
  BY <1>4, <1>5, <1>6, <1>8
<1>10. ~Listening'
  BY <1>2 DEF Listening
<1>11. OneAtATime'
  BY <1>2, <1>7, <1>8, <1>10 DEF OneAtATime
<1> QED
  BY <1>9, <1>10, <1>11

LEMMA Started ==
  ASSUME Conditions, IndInv, TypeOK', StartSender
  PROVE  IndInv'
<1>0. /\ TypeOK /\ OneAtATime /\ PlaceInFile /\ InOrder /\ LengthAgrees /\ Complete /\ TriesPaid
      /\ sender \in Sender
  BY DEF IndInv, TypeOK
<1>1. /\ sender.state = "off" /\ UNCHANGED receiverVars /\ header' = header
      /\ UNCHANGED <<toReceiver, toSender>> /\ toReceiver = <<>> /\ toSender = <<>>
      /\ sender' = [sender EXCEPT !.state = "start"]
  BY <1>0 DEF StartSender, OneAtATime
<1>2. /\ sender'.item = sender.item /\ sender'.blk = sender.blk /\ sender'.pos = sender.pos
      /\ sender'.size = sender.size /\ sender'.crc = sender.crc /\ sender'.state = "start"
      /\ sender.item = "header"
  BY <1>0, <1>1 DEF Sender, PlaceInFile
<1>3. /\ UNCHANGED <<phase, retries, next_blk, read_length>> /\ L' = L /\ (Ordered => Ordered')
      /\ LengthAgrees' /\ Complete'
  BY <1>0, <1>1, ReceiverKept
<1>4. OneAtATime'
  <2>1. <<>> # <<Can>> /\ \A x : <<>> # <<x, Can>>
    OBVIOUS
  <2>2. <<>> # <<"ACK">> /\ <<>> \in Replies
    BY RepliesIs
  <2> QED
    BY <1>1, <1>2, <2>1, <2>2 DEF OneAtATime
<1>5. PlaceInFile'
  BY <1>0, <1>2 DEF PlaceInFile
<1>6. phase \notin {"read", "final"}
  BY <1>1, <1>2 DEF IndInv, InRead
<1>7. phase = "open" => InOpen'
  <2>1. <<>> # <<"ACK">>
    OBVIOUS
  <2> QED
    BY <1>1, <1>2, <1>3, <2>1 DEF IndInv, InOpen
<1>8. TriesPaid' /\ InOrder'
  BY <1>0, <1>2, <1>3, <1>6 DEF TriesPaid, InOrder
<1> QED
  BY <1>3, <1>4, <1>5, <1>6, <1>7, <1>8 DEF IndInv

\* The sender begins while the receiver awaits the information block, or after it has
\* given up.
LEMMA Begun ==
  ASSUME Conditions, IndInv, TypeOK', SenderHears, BeginFile(Head(toSender))
  PROVE  IndInv'
<1>0. /\ TypeOK /\ OneAtATime /\ PlaceInFile /\ InOrder /\ LengthAgrees /\ Complete
      /\ sender \in Sender
  BY DEF IndInv, TypeOK
<1>1. /\ sender.state = "start" /\ Head(toSender) # "ACK" /\ toSender # <<>>
      /\ UNCHANGED receiverVars /\ header' = header /\ toSender' = Tail(toSender)
  BY DEF SenderHears, BeginFile
<1>2. PICK crc, s : /\ crc \in BOOLEAN /\ s \in FirstItems([sender EXCEPT !.crc = crc])
                    /\ Transmit(s)
  <2>1. (Head(toSender) = "C") \in BOOLEAN
    OBVIOUS
  <2> QED
    BY <2>1 DEF BeginFile
<1>3. toReceiver = <<>> /\ toSender' = <<>>
  BY <1>0, <1>1, RepliesIs DEF OneAtATime
<1>4. sender.item = "header" /\ sender.blk = 0 /\ sender.pos = 0
  BY <1>0, <1>1 DEF PlaceInFile
<1>5. /\ s \in Sender /\ s.state = "wait" /\ s.pos = 0
      /\ \/ s.item = "header" /\ s.blk = 0
         \/ /\ header = "none" /\ s.blk = 1
            /\ s.item = IF FileSize = 0 THEN "eot" ELSE "data"
  BY <1>0, <1>2, <1>4, FirstItemsIs, NextBlk, YmodemAssumption
<1>6. OneAtATime' /\ sender' = s
  BY <1>2, <1>3, <1>5, LineSent
<1>7. /\ UNCHANGED <<phase, retries, next_blk, read_length>> /\ L' = L /\ (Ordered => Ordered')
      /\ LengthAgrees' /\ Complete'
  BY <1>0, <1>1, ReceiverKept
<1>8. PlaceInFile'
  BY <1>5, <1>6, YmodemAssumption DEF PlaceInFile
<1>9. phase \notin {"read", "final"}
  BY <1>1, <1>4 DEF IndInv, InRead
<1>10. <<>> # <<"ACK">>
  OBVIOUS
<1>11. phase = "open" => InOpen'
  BY <1>1, <1>3, <1>5, <1>6, <1>7, <1>10 DEF IndInv, InOpen
<1>12. TriesPaid' /\ InOrder'
  BY <1>0, <1>3, <1>4, <1>5, <1>6, <1>7, <1>9, <1>10 DEF TriesPaid, InOrder
<1> QED
  BY <1>6, <1>7, <1>8, <1>9, <1>11, <1>12 DEF IndInv

\* The sender goes on: what it leaves behind has been received.
LEMMA SentNext ==
  ASSUME Conditions, IndInv, TypeOK', SenderHears, SendNext(Head(toSender))
  PROVE  IndInv'
<1>0. /\ TypeOK /\ OneAtATime /\ PlaceInFile /\ InOrder /\ LengthAgrees /\ Complete
      /\ sender \in Sender
  BY DEF IndInv, TypeOK
<1>1. /\ \/ sender.state = "waitC" /\ Head(toSender) # "ACK"
         \/ /\ sender.state = "wait" /\ Head(toSender) = "ACK"
            /\ sender.item \in {"header", "data"}
      /\ toSender # <<>> /\ UNCHANGED receiverVars /\ header' = header
      /\ toSender' = Tail(toSender)
  BY DEF SenderHears, SendNext
<1>2. PICK s \in NextItems(sender) : Transmit(s)
  BY DEF SendNext
<1>3. Listening /\ toReceiver = <<>>
  BY <1>0, <1>1 DEF Listening, OneAtATime
<1>4. /\ toSender' = <<>>
      /\ sender.state = "wait" => toSender = <<"ACK">>
  <2>1. CASE sender.state = "waitC"
    BY <1>0, <1>1, <2>1, RepliesIs DEF OneAtATime
  <2>2. CASE sender.state = "wait"
    <3>1. toSender \in {<<>>, <<"ACK">>} \cup Asks /\ Head(toSender) = "ACK"
      BY <1>0, <1>1, <1>3, <2>2 DEF OneAtATime
    <3>2. toSender = <<"ACK">>
      BY <1>1, <3>1 DEF Asks
    <3> QED
      BY <1>1, <3>2, RepliesIs
  <2> QED
    BY <1>1, <2>1, <2>2
<1>5. /\ s \in Sender /\ s.state = "wait" /\ s.crc = sender.crc
      /\ s.blk = (sender.blk + 1) % BLK_MOD
      /\ s.pos = IF sender.item = "data" THEN End(sender) ELSE sender.pos
      /\ s.item = IF sender.item = "eot" THEN "final"
                  ELSE IF s.pos = FileSize THEN "eot" ELSE "data"
  BY <1>0, <1>2, NextItemsIs DEF End
<1>6. OneAtATime' /\ sender' = s
  BY <1>2, <1>3, <1>4, <1>5, LineSent
<1>7. /\ UNCHANGED <<phase, retries, crc_mode, next_blk, read_length>> /\ L' = L
      /\ (Ordered => Ordered') /\ LengthAgrees' /\ Complete'
  BY <1>0, <1>1, ReceiverKept
<1>8. /\ s.pos \in Nat /\ s.pos <= FileSize /\ FileSize \in Nat
      /\ sender.item = "eot" => s.pos = FileSize
      /\ s.blk \in 0..BLK_MOD - 1 /\ sender.item # "final"
  <2>1. sender.pos \in Nat /\ sender.size \in Nat /\ FileSize \in Nat /\ s.pos \in Nat
        /\ s.blk \in 0..BLK_MOD - 1
    BY <1>0, <1>5, YmodemAssumption DEF Sender
  <2>2. End(sender) <= FileSize
    BY <2>1 DEF End, Min2
  <2>3. sender.item \in {"header", "data", "eot"}
    BY <1>0, <1>1 DEF PlaceInFile
  <2> QED
    BY <1>0, <1>5, <2>1, <2>2, <2>3 DEF PlaceInFile
<1>9. PlaceInFile'
  BY <1>5, <1>6, <1>8 DEF PlaceInFile
<1>10. <<>> # <<"ACK">> /\ <<>> # <<"C">>
  OBVIOUS
<1>11. phase # "open"
  BY <1>1, <1>3, <1>4 DEF IndInv, InOpen
<1>12. ASSUME phase = "read" PROVE InRead' /\ TriesPaid'
  <2>1. InRead
    BY <1>12 DEF IndInv
  <2>2. sender.item # "eot" /\ L = s.pos /\ s.blk = next_blk
    <3>1. CASE sender.item = "header"
      BY <1>0, <1>5, <2>1, <3>1, NextBlk, YmodemAssumption DEF InRead, PlaceInFile
    <3>2. CASE sender.item = "data"
      <4>1. sender.state = "wait" /\ toSender = <<"ACK">>
        BY <1>0, <1>1, <1>4, <3>2 DEF PlaceInFile
      <4> QED
        BY <1>3, <1>5, <2>1, <3>2, <4>1 DEF InRead, AtLast
    <3>3. sender.item # "eot"
      BY <1>1, <2>1 DEF InRead
    <3>4. sender.item \in {"header", "data", "eot", "final"}
      BY <1>0 DEF Sender
    <3> QED
      BY <1>8, <3>1, <3>2, <3>3, <3>4
  <2>3. s.item \in {"eot", "data"} /\ (s.item = "eot" => s.pos = FileSize)
    BY <1>5, <2>2
  <2>4. InRead'
    BY <1>4, <1>5, <1>6, <1>7, <1>10, <2>1, <2>2, <2>3 DEF InRead
  <2>5. ~AtLast'
    BY <1>6, <1>7, <1>8, <2>2, NextBlk DEF AtLast
  <2> QED
    BY <2>4, <2>5 DEF TriesPaid
<1>13. phase = "final" => s.item = "final" /\ L' = FileSize
  BY <1>5, <1>7, <1>8 DEF IndInv
<1>14. phase # "read" => TriesPaid'
  BY <1>7 DEF TriesPaid
<1>15. InOrder'
  <2>1. phase # "undefined" => s.pos <= L
    BY <1>0, <1>1, <1>4, <1>5 DEF InOrder, PlaceInFile
  <2> QED
    BY <1>0, <1>4, <1>6, <1>7, <1>10, <2>1 DEF InOrder
<1> QED
  BY <1>6, <1>7, <1>9, <1>11, <1>12, <1>13, <1>14, <1>15 DEF IndInv

\* The sender sends the item again, or gives up.
LEMMA Resent ==
  ASSUME Conditions, IndInv, TypeOK', UNCHANGED receiverVars, header' = header,
         faults' = faults,
         sender.state = "wait", toReceiver = <<>>, toSender \in {<<>>} \cup Asks,
         toSender' = <<>>, NEW crc, crc \in BOOLEAN, phase = "read" => crc = crc_mode, Resend(crc)
  PROVE  IndInv'
<1>0. /\ TypeOK /\ OneAtATime /\ PlaceInFile /\ InOrder /\ LengthAgrees /\ Complete /\ TriesPaid
      /\ sender \in Sender
  BY DEF IndInv, TypeOK
<1>1. /\ UNCHANGED <<phase, retries, crc_mode, next_blk, read_length>> /\ L' = L
      /\ (Ordered => Ordered') /\ LengthAgrees' /\ Complete'
  BY <1>0, ReceiverKept
<1>2. <<>> # <<"ACK">> /\ <<>> # <<"C">> /\ <<>> \in Replies /\ <<>> \notin Asks
  BY RepliesIs
<1>3. /\ sender'.item = sender.item /\ sender'.blk = sender.blk /\ sender'.pos = sender.pos
      /\ sender'.size = sender.size /\ OneAtATime'
      /\ \/ sender'.state = "wait" /\ sender'.crc = crc /\ toReceiver' # <<>>
         \/ sender'.state = "gone" /\ sender'.crc = sender.crc /\ ~Flying' /\ ~Listening'
  <2>1. CASE sender.tries < SenderTries
    <3>1. PICK s : s = [sender EXCEPT !.tries = @ + 1, !.crc = crc] /\ Transmit(s)
      BY <2>1 DEF Resend
    <3>2. /\ s.item = sender.item /\ s.blk = sender.blk /\ s.pos = sender.pos
          /\ s.size = sender.size /\ s.state = "wait" /\ s.crc = crc
      BY <1>0, <3>1 DEF Sender
    <3>3. sender' = s /\ s \in Sender
      BY <3>1 DEF Transmit, TypeOK
    <3>4. OneAtATime' /\ toReceiver' # <<>>
      BY <3>1, <3>2, <3>3, LineSent
    <3> QED
      BY <3>2, <3>3, <3>4
  <2>2. CASE ~(sender.tries < SenderTries)
    <3>1. /\ sender' = [sender EXCEPT !.state = "gone"]
          /\ toReceiver' = Append(toReceiver, Can)
      BY <2>2 DEF Resend, GiveUp, Can
    <3>2. /\ sender'.item = sender.item /\ sender'.blk = sender.blk /\ sender'.pos = sender.pos
          /\ sender'.size = sender.size /\ sender'.state = "gone" /\ sender'.crc = sender.crc
      BY <1>0, <3>1 DEF Sender
    <3>3. OneAtATime' /\ (Flying' => Flying) /\ ~Listening'
      BY <1>0, <1>2, <3>1, LineGone
    <3>4. ~Flying
      BY <1>0, LineIs
    <3> QED
      BY <3>2, <3>3, <3>4
  <2> QED
    BY <2>1, <2>2
<1>4. PlaceInFile'
  BY <1>0, <1>3 DEF PlaceInFile
<1>5. phase = "open" => InOpen'
  BY <1>1, <1>2, <1>3 DEF IndInv, InOpen
<1>6. End(sender') = End(sender) /\ (AtLast' <=> AtLast)
  BY <1>1, <1>3 DEF End, AtLast
<1>7. phase = "read" => InRead'
  BY <1>1, <1>2, <1>3, <1>6 DEF IndInv, InRead
<1>8. TriesPaid'
  <2> SUFFICES ASSUME phase = "read", sender.item \in {"header", "data"}, AtLast, Flying'
               PROVE  FreshTries + 1 <= retries + 2 * faults
    BY <1>1, <1>3, <1>6 DEF TriesPaid
  <2>1. FreshTries + 1 <= retries + 2 * faults \/ FreshTries + 2 <= retries + 2 * faults
    BY <1>0 DEF TriesPaid
  <2> QED
    BY <1>0, <2>1, YmodemAssumption DEF TypeOK, FreshTries
<1>9. InOrder'
  BY <1>0, <1>1, <1>2, <1>3, <1>6 DEF InOrder
<1>10. phase = "final" => sender'.item \in {"eot", "final"} /\ L' = FileSize
  BY <1>1, <1>3 DEF IndInv
<1> QED
  BY <1>1, <1>3, <1>4, <1>5, <1>7, <1>8, <1>9, <1>10 DEF IndInv

LEMMA AskedSender ==
  ASSUME Conditions, IndInv, TypeOK', SenderHears, SendAgain(Head(toSender))
  PROVE  IndInv'
<1>0. TypeOK /\ OneAtATime /\ sender \in Sender
  BY DEF IndInv, TypeOK
<1>1. /\ UNCHANGED receiverVars /\ header' = header /\ faults' = faults
      /\ sender.state = "wait" /\ Head(toSender) # "ACK" /\ toSender # <<>>
      /\ toSender' = Tail(toSender)
      /\ Resend(sender.crc \/ Head(toSender) = "C")
  BY DEF SenderHears, SendAgain
<1>2. /\ toSender \in Asks /\ toSender' = <<>> /\ toReceiver = <<>> /\ Listening
  BY <1>0, <1>1, RepliesIs DEF OneAtATime, Listening
<1>3. PICK crc : crc = (sender.crc \/ Head(toSender) = "C") /\ Resend(crc)
  BY <1>1
<1>4. crc \in BOOLEAN
  BY <1>3
<1>5. phase = "read" => crc = crc_mode
  <2> SUFFICES ASSUME phase = "read" PROVE crc = crc_mode
    OBVIOUS
  <2>1. sender.crc = crc_mode /\ (toSender = <<"C">> => crc_mode)
    BY <1>2 DEF IndInv, InRead
  <2>2. Head(toSender) = "C" => toSender = <<"C">>
    BY <1>2 DEF Asks
  <2>3. crc_mode \in BOOLEAN
    BY <1>0 DEF TypeOK
  <2> QED
    BY <1>3, <2>1, <2>2, <2>3
<1> QED
  BY <1>1, <1>2, <1>3, <1>4, <1>5, Resent

LEMMA SenderTimedOut ==
  ASSUME Conditions, IndInv, TypeOK', SenderTimeout
  PROVE  IndInv'
<1>1. /\ UNCHANGED receiverVars /\ header' = header /\ faults' = faults
      /\ sender.state = "wait" /\ toSender = <<>> /\ toSender' = <<>> /\ toReceiver = <<>>
  BY DEF SenderTimeout
<1>2. PICK crc : crc = sender.crc /\ Resend(crc)
  BY DEF SenderTimeout
<1>3. crc \in BOOLEAN /\ (phase = "read" => crc = crc_mode)
  BY <1>2 DEF IndInv, TypeOK, Sender, InRead
<1> QED
  BY <1>1, <1>2, <1>3, Resent

\* A reply is taken from the line, by the sender or by a fault.
LEMMA ReplyTaken ==
  ASSUME OneAtATime, toSender # <<>>, toSender' = Tail(toSender)
  PROVE  /\ toSender' \in Replies
         /\ Listening /\ (phase \in {"open", "read"} \/ sender.item \in {"header", "data"})
              => toSender \in {<<"ACK">>} \cup Asks /\ toSender' = <<>>
<1>1. toSender' \in Replies
  BY RepliesIs DEF OneAtATime
<1>2. ASSUME Listening, phase \in {"open", "read"} \/ sender.item \in {"header", "data"}
      PROVE  toSender \in {<<"ACK">>} \cup Asks /\ toSender' = <<>>
  <2>1. toSender \in {<<"ACK">>} \cup Asks
    BY <1>2 DEF OneAtATime
  <2> QED
    BY <2>1, RepliesIs
<1> QED
  BY <1>1, <1>2

\* The information block or EOT is acknowledged.
LEMMA Awaiting ==
  ASSUME Conditions, IndInv, TypeOK', SenderHears, AwaitRequest(Head(toSender))
  PROVE  IndInv'
<1>0. /\ TypeOK /\ OneAtATime /\ PlaceInFile /\ InOrder /\ LengthAgrees /\ Complete
      /\ sender \in Sender
  BY DEF IndInv, TypeOK
<1>1. /\ UNCHANGED receiverVars /\ header' = header
      /\ sender.state = "wait" /\ Head(toSender) = "ACK" /\ toSender # <<>>
      /\ sender.item # "data"
      /\ toSender' = Tail(toSender) /\ toReceiver' = toReceiver
      /\ sender' = [sender EXCEPT !.state =
                      IF sender.item = "final" \/ (sender.item = "eot" /\ header = "none")
                        THEN "done" ELSE "waitC"]
  BY DEF SenderHears, AwaitRequest
<1>2. /\ sender'.item = sender.item /\ sender'.blk = sender.blk /\ sender'.pos = sender.pos
      /\ sender'.size = sender.size /\ sender'.crc = sender.crc
      /\ sender'.state = IF sender.item = "final" \/ (sender.item = "eot" /\ header = "none")
                           THEN "done" ELSE "waitC"
  BY <1>0, <1>1 DEF Sender
<1>3. /\ UNCHANGED <<phase, retries, crc_mode, next_blk, read_length>> /\ L' = L
      /\ (Ordered => Ordered') /\ LengthAgrees' /\ Complete'
  BY <1>0, <1>1, ReceiverKept
<1>4. Listening /\ toReceiver = <<>>
  BY <1>0, <1>1 DEF OneAtATime, Listening
<1>5. /\ toSender' \in Replies
      /\ phase \in {"open", "read"} \/ sender.item = "header"
           => toSender = <<"ACK">> /\ toSender' = <<>>
  <2>1. toSender \in {<<"ACK">>} \cup Asks => toSender = <<"ACK">>
    BY <1>1 DEF Asks
  <2> QED
    BY <1>0, <1>1, <1>4, <2>1, ReplyTaken
<1>6. sender.item \in {"header", "eot", "final"}
  BY <1>0, <1>1 DEF Sender
<1>7. OneAtATime'
  <2>1. toReceiver' = <<>> /\ <<>> # <<Can>> /\ \A x : <<>> # <<x, Can>>
    BY <1>1, <1>4
  <2>2. sender'.state \in {"waitC", "done"}
    BY <1>2
  <2>3. phase' \in {"open", "read"} \/ sender'.item \in {"header", "data"} => toSender' = <<>>
    BY <1>1, <1>2, <1>3, <1>5
  <2> QED
    BY <1>5, <2>1, <2>2, <2>3 DEF OneAtATime
<1>8. PlaceInFile'
  BY <1>0, <1>2, <1>6 DEF PlaceInFile
<1>9. <<>> # <<"ACK">> /\ <<>> # <<"C">>
  OBVIOUS
<1>10. phase = "open" => InOpen'
  BY <1>1, <1>2, <1>3, <1>4, <1>5, <1>9 DEF IndInv, InOpen
<1>11. phase = "read" => InRead'
  <2> SUFFICES ASSUME phase = "read" PROVE InRead'
    OBVIOUS
  <2>1. InRead /\ sender.item = "header"
    BY <1>4, <1>5, <1>6 DEF IndInv, InRead
  <2> QED
    BY <1>2, <1>3, <1>5, <1>9, <2>1 DEF InRead
<1>12. TriesPaid'
  <2>1. ~Flying' /\ sender'.state # "wait"
    <3>1. \A x : <<>> # <<x>> /\ <<>> # <<x, Can>>
      OBVIOUS
    <3> QED
      BY <1>1, <1>2, <1>4, <3>1 DEF Flying
  <2> QED
    BY <2>1 DEF TriesPaid
<1>13. InOrder'
  BY <1>0, <1>1, <1>2, <1>3 DEF InOrder
<1>14. phase = "final" => sender'.item \in {"eot", "final"} /\ L' = FileSize
  BY <1>2, <1>3 DEF IndInv
<1> QED
  BY <1>3, <1>7, <1>8, <1>10, <1>11, <1>12, <1>13, <1>14 DEF IndInv

\* A reply is ignored by the sender.
LEMMA Ignored ==
  ASSUME Conditions, IndInv, TypeOK', SenderHears, Ignore(Head(toSender))
  PROVE  IndInv'
<1>0. /\ TypeOK /\ OneAtATime /\ PlaceInFile /\ InOrder /\ LengthAgrees /\ Complete /\ TriesPaid
  BY DEF IndInv
<1>1. /\ UNCHANGED receiverVars /\ header' = header /\ faults' = faults
      /\ sender.state # "wait" /\ toSender # <<>> /\ sender' = sender
      /\ toSender' = Tail(toSender) /\ toReceiver' = toReceiver
  BY DEF SenderHears, Ignore
<1>2. /\ UNCHANGED <<phase, retries, crc_mode, next_blk, read_length>> /\ L' = L
      /\ (Ordered => Ordered') /\ LengthAgrees' /\ Complete'
  BY <1>0, <1>1, ReceiverKept
<1>3. /\ toSender' \in Replies
      /\ Listening /\ (phase \in {"open", "read"} \/ sender.item \in {"header", "data"})
           => toSender' = <<>>
  BY <1>0, <1>1, ReplyTaken
<1>4. /\ Listening' <=> Listening
      /\ Flying' <=> Flying
      /\ AtLast' <=> AtLast
      /\ End(sender') = End(sender) /\ Item(sender') = Item(sender)
  BY <1>1, <1>2 DEF Listening, Flying, AtLast
<1>5. OneAtATime'
  BY <1>0, <1>1, <1>2, <1>3, <1>4 DEF OneAtATime
<1>6. PlaceInFile'
  BY <1>0, <1>1 DEF PlaceInFile
<1>7. <<>> # <<"ACK">> /\ <<>> # <<"C">>
  OBVIOUS
<1>8. phase = "open" => InOpen'
  BY <1>1, <1>2, <1>3, <1>4, <1>7 DEF IndInv, InOpen
<1>9. phase = "read" => InRead'
  BY <1>1, <1>2, <1>3, <1>4, <1>7 DEF IndInv, InRead
<1>10. TriesPaid' /\ InOrder'
  BY <1>0, <1>1, <1>2, <1>4 DEF TriesPaid, InOrder
<1>11. phase = "final" => sender'.item \in {"eot", "final"} /\ L' = FileSize
  BY <1>1, <1>2 DEF IndInv
<1> QED
  BY <1>2, <1>5, <1>6, <1>8, <1>9, <1>10, <1>11 DEF IndInv

LEMMA Stopped ==
  ASSUME Conditions, IndInv, TypeOK', StopSender
  PROVE  IndInv'
<1>0. /\ TypeOK /\ OneAtATime /\ PlaceInFile /\ InOrder /\ LengthAgrees /\ Complete /\ TriesPaid
      /\ sender \in Sender
  BY DEF IndInv, TypeOK
<1>1. /\ UNCHANGED receiverVars /\ header' = header /\ faults' = faults /\ toSender' = toSender
      /\ Listening /\ sender' = [sender EXCEPT !.state = "gone"]
      /\ toReceiver' \in {toReceiver, Append(toReceiver, Can)}
  BY DEF StopSender, GiveUp, Can
<1>2. /\ sender'.item = sender.item /\ sender'.blk = sender.blk /\ sender'.pos = sender.pos
      /\ sender'.size = sender.size /\ sender'.crc = sender.crc /\ sender'.state = "gone"
  BY <1>0, <1>1 DEF Sender
<1>3. /\ UNCHANGED <<phase, retries, crc_mode, next_blk, read_length>> /\ L' = L
      /\ (Ordered => Ordered') /\ LengthAgrees' /\ Complete'
  BY <1>0, <1>1, ReceiverKept
<1>4. OneAtATime' /\ (Flying' => Flying) /\ ~Listening'
  <2>1. sender.state # "gone" /\ toSender' \in Replies
    BY <1>0, <1>1 DEF Listening, OneAtATime
  <2> QED
    BY <1>0, <1>1, <2>1, LineGone
<1>5. PlaceInFile'
  BY <1>0, <1>2 DEF PlaceInFile
<1>6. End(sender') = End(sender) /\ (AtLast' <=> AtLast)
  BY <1>2, <1>3 DEF End, AtLast
<1>7. phase = "open" => InOpen'
  BY <1>1, <1>2, <1>3, <1>4 DEF IndInv, InOpen
<1>8. phase = "read" => InRead'
  BY <1>2, <1>3, <1>4, <1>6 DEF IndInv, InRead
<1>9. TriesPaid' /\ InOrder'
  BY <1>0, <1>1, <1>2, <1>3, <1>4, <1>6 DEF TriesPaid, InOrder
<1>10. phase = "final" => sender'.item \in {"eot", "final"} /\ L' = FileSize
  BY <1>2, <1>3 DEF IndInv
<1> QED
  BY <1>3, <1>4, <1>5, <1>7, <1>8, <1>9, <1>10 DEF IndInv

\* The line loses an item or a reply, which is paid for.
LEMMA Lost ==
  ASSUME Conditions, IndInv, TypeOK', Lose
  PROVE  IndInv'
<1>0. /\ TypeOK /\ OneAtATime /\ PlaceInFile /\ InOrder /\ LengthAgrees /\ Complete /\ TriesPaid
      /\ sender \in Sender /\ faults \in Nat /\ retries \in Nat /\ FreshTries \in Nat
  BY YmodemAssumption DEF IndInv, TypeOK, FreshTries
<1>1. /\ UNCHANGED receiverVars /\ header' = header /\ sender' = sender /\ faults' = faults + 1
  BY DEF Lose
<1>2. /\ UNCHANGED <<phase, retries, crc_mode, next_blk, read_length>> /\ L' = L
      /\ (Ordered => Ordered') /\ LengthAgrees' /\ Complete'
  BY <1>0, <1>1, ReceiverKept
<1>3. /\ Listening' <=> Listening
      /\ AtLast' <=> AtLast
      /\ End(sender') = End(sender) /\ Item(sender') = Item(sender)
  BY <1>1, <1>2 DEF Listening, AtLast
<1>4. PlaceInFile'
  BY <1>0, <1>1 DEF PlaceInFile
<1>5. <<>> # <<"ACK">> /\ <<>> # <<"C">> /\ <<>> \notin Asks
  BY RepliesIs
<1>6. phase = "final" => sender'.item \in {"eot", "final"} /\ L' = FileSize
  BY <1>1, <1>2 DEF IndInv
<1>7. CASE toReceiver # <<>> /\ toReceiver' = Tail(toReceiver) /\ UNCHANGED toSender
  <2>1. toReceiver' \in {<<>>, <<Can>>} /\ (toReceiver' = <<Can>> => sender.state = "gone")
    BY <1>0, <1>7, LineIs DEF OneAtATime
  <2>2. Listening => toSender = <<>>
    BY <1>0, <1>7 DEF OneAtATime
  <2>3. PICK chars \in Replies : chars = toSender
    BY <1>0 DEF OneAtATime
  <2>4. OneAtATime' /\ ~Flying'
    BY <1>0, <1>1, <1>2, <1>5, <1>7, <2>1, <2>2, <2>3, LineAfter
  <2>5. (phase = "open" => InOpen') /\ (phase = "read" => InRead')
    BY <1>1, <1>2, <1>3, <1>7 DEF IndInv, InOpen, InRead
  <2>6. TriesPaid'
    <3> SUFFICES ASSUME phase = "read", sender.item \in {"header", "data"}, AtLast,
                        sender.state = "wait"
                 PROVE  FreshTries + 2 <= retries' + 2 * faults'
      <4>1. sender.state = "wait" => toSender' = <<>>
        BY <1>7, <2>2 DEF Listening
      <4> QED
        BY <1>1, <1>2, <1>3, <1>5, <2>4, <4>1 DEF TriesPaid
    <3>1. Flying
      BY <1>0, <1>7, LineIs DEF OneAtATime
    <3>2. FreshTries + 1 <= retries + 2 * faults
      BY <1>0, <3>1 DEF TriesPaid
    <3> QED
      BY <1>0, <1>1, <1>2, <3>2
  <2>7. InOrder'
    BY <1>0, <1>1, <1>2, <1>3, <1>7 DEF InOrder
  <2> QED
    BY <1>2, <1>4, <1>6, <2>4, <2>5, <2>6, <2>7 DEF IndInv
<1>8. CASE toSender # <<>> /\ toSender' = Tail(toSender) /\ UNCHANGED toReceiver
  <2>1. /\ toSender' \in Replies
        /\ Listening /\ (phase \in {"open", "read"} \/ sender.item \in {"header", "data"})
             => toSender \in {<<"ACK">>} \cup Asks /\ toSender' = <<>>
    BY <1>0, <1>8, ReplyTaken
  <2>2. OneAtATime' /\ (Flying' <=> Flying)
    BY <1>0, <1>1, <1>2, <1>3, <1>8, <2>1 DEF OneAtATime, Flying
  <2>3. (phase = "open" => InOpen') /\ (phase = "read" => InRead')
    BY <1>1, <1>2, <1>3, <1>5, <2>1 DEF IndInv, InOpen, InRead
  <2>4. TriesPaid'
    <3> SUFFICES ASSUME phase = "read", sender.item \in {"header", "data"}, AtLast
                 PROVE  /\ Flying => FreshTries + 1 <= retries' + 2 * faults'
                        /\ sender.state = "wait" /\ toReceiver = <<>>
                             => toSender' = <<>> /\ FreshTries + 2 <= retries' + 2 * faults'
      BY <1>1, <1>2, <1>3, <1>5, <1>8, <2>2 DEF TriesPaid
    <3>1. ASSUME Flying PROVE FreshTries + 1 <= retries' + 2 * faults'
      <4>1. FreshTries + 1 <= retries + 2 * faults
        BY <1>0, <3>1 DEF TriesPaid
      <4> QED
        BY <1>0, <1>1, <1>2, <4>1
    <3>2. ASSUME sender.state = "wait", toReceiver = <<>>
          PROVE  toSender' = <<>> /\ FreshTries + 2 <= retries' + 2 * faults'
      <4>1. toSender \in {<<"ACK">>} \cup Asks /\ toSender' = <<>>
        BY <2>1, <3>2 DEF Listening
      <4>2. FreshTries <= retries + 2 * faults \/ FreshTries + 1 <= retries + 2 * faults
        BY <1>0, <3>2, <4>1 DEF TriesPaid
      <4> QED
        BY <1>0, <1>1, <1>2, <4>1, <4>2
    <3> QED
      BY <3>1, <3>2
  <2>5. InOrder'
    <3>1. sender.state = "wait" /\ sender.item = "data" => toSender' = <<>>
      BY <2>1 DEF Listening
    <3> QED
      BY <1>0, <1>1, <1>2, <1>3, <1>5, <3>1 DEF InOrder
  <2> QED
    BY <1>2, <1>4, <1>6, <2>2, <2>3, <2>4, <2>5 DEF IndInv
<1> QED
  BY <1>7, <1>8 DEF Lose

(* The theorems. *)

LEMMA IndInit == Init => IndInv
<1> SUFFICES ASSUME Init PROVE IndInv
  OBVIOUS
<1>1. TypeOK
  BY TypeInit
<1>2. /\ sender.state = "off" /\ sender.item = "header" /\ sender.blk = 0 /\ sender.pos = 0
      /\ phase = "open" /\ toReceiver = <<>> /\ toSender = <<>> /\ at_eof = FALSE
      /\ read_length = 0 /\ memory = <<>> /\ ymodemBuf = <<>>
  BY DEF Init
<1>3. /\ \A x : <<>> # <<x>> /\ <<>> # <<x, Can>>
      /\ <<>> \in Replies /\ <<>> # <<"ACK">>
  BY RepliesIs
<1>4. OneAtATime /\ PlaceInFile
  BY <1>2, <1>3 DEF OneAtATime, PlaceInFile, Listening
<1>5. L = 0 /\ Ordered
  BY <1>2 DEF L, Ordered, CountsFrom
<1>6. InOpen /\ InOrder /\ TriesPaid /\ LengthAgrees /\ Complete
  BY <1>2, <1>3, <1>5, YmodemAssumption
     DEF InOpen, InOrder, TriesPaid, LengthAgrees, Complete, Listening
<1> QED
  BY <1>1, <1>2, <1>4, <1>6 DEF IndInv

LEMMA IndStep ==
  ASSUME Conditions
  PROVE  IndInv /\ [Next]_vars => IndInv'
<1> SUFFICES ASSUME IndInv, [Next]_vars PROVE IndInv'
  OBVIOUS
<1>0. TypeOK'
  BY TypeStep DEF IndInv
<1>1. CASE Receive \/ Timeout
  BY <1>0, <1>1, ReceiverStep
<1>2. CASE StartSender
  BY <1>0, <1>2, Started
<1>3. CASE SenderHears
  BY <1>0, <1>3, Begun, SentNext, AskedSender, Awaiting, Ignored DEF SenderHears
<1>4. CASE SenderTimeout
  BY <1>0, <1>4, SenderTimedOut
<1>5. CASE StopSender
  BY <1>0, <1>5, Stopped
<1>6. CASE Lose
  BY <1>0, <1>6, Lost
<1>7. CASE UNCHANGED vars
  <2>1. /\ UNCHANGED receiverVars
        /\ UNCHANGED <<header, sender, toReceiver, toSender, faults>>
    BY <1>7 DEF vars
  <2>2. /\ UNCHANGED <<phase, retries, crc_mode, next_blk, read_length>> /\ L' = L
        /\ (Ordered => Ordered') /\ (LengthAgrees => LengthAgrees') /\ (Complete => Complete')
    BY <2>1, ReceiverKept
  <2>3. /\ OneAtATime => OneAtATime'
        /\ PlaceInFile => PlaceInFile'
        /\ InOpen => InOpen'
        /\ InRead => InRead'
        /\ TriesPaid => TriesPaid'
        /\ InOrder => InOrder'
    BY <2>1, <2>2
       DEF OneAtATime, PlaceInFile, InOpen, InRead, TriesPaid, InOrder, Listening, Flying, AtLast, End
  <2> QED
    BY <1>0, <2>1, <2>2, <2>3 DEF IndInv
<1> QED
  BY <1>1, <1>2, <1>3, <1>4, <1>5, <1>6, <1>7 DEF Next, Over

LEMMA Inductive ==
  ASSUME Conditions
  PROVE  Spec => []IndInv
<1>1. Init => IndInv
  BY IndInit
<1>2. IndInv /\ [Next]_vars => IndInv'
  BY IndStep
<1> QED
  BY <1>1, <1>2, PTL DEF Spec

\* What was received is the concatenation of what was stored and what waits for a full
\* chunk.
LEMMA ReceivedIs ==
  ASSUME TypeOK
  PROVE  /\ Len(Received) = L /\ L \in Nat
         /\ Ordered => \A i \in 1..Len(Received) : Received[i] = i - 1
<1>1. memory \in Seq(0..Text) /\ ymodemBuf \in Seq(0..Text)
      /\ Len(memory) \in Nat /\ Len(ymodemBuf) \in Nat
  BY LenProperties DEF TypeOK
<1>2. Len(Received) = L /\ L \in Nat
  BY <1>1, ConcatProperties DEF Received, L
<1>3. ASSUME Ordered PROVE \A i \in 1..Len(Received) : Received[i] = i - 1
  <2>1. CountsFrom(memory, 0) /\ CountsFrom(ymodemBuf, 0 + Len(memory))
    BY <1>1, <1>3 DEF Ordered
  <2>2. CountsFrom(memory \o ymodemBuf, 0)
    BY <1>1, <2>1, CountsJoin
  <2> QED
    BY <1>2, <2>2 DEF CountsFrom, Received
<1> QED
  BY <1>2, <1>3

\* What loady has received is the beginning of the file: the tests on next_blk and the
\* cutting of xyzModem_stream_read, for every file, every block size, every modulus of
\* the block numbers, and any losses within the conditions.
THEOREM Prefix ==
  ASSUME Conditions
  PROVE  Spec => []StoredIsPrefix
<1>1. IndInv => StoredIsPrefix
  BY ReceivedIs DEF IndInv, InOrder, StoredIsPrefix
<1> QED
  BY <1>1, Inductive, PTL

\* The sender is never beyond what loady has received: an acknowledgement is never
\* taken for that of another block.
THEOREM NotAhead ==
  ASSUME Conditions
  PROVE  Spec => []SenderNeverAhead
<1>1. IndInv => SenderNeverAhead
  BY ReceivedIs DEF IndInv, InOrder, SenderNeverAhead
<1> QED
  BY <1>1, Inductive, PTL

\* A load that ends with EOT has stored the whole file.
THEOREM WholeFile ==
  ASSUME Conditions
  PROVE  Spec => []EofIsComplete
<1>1. IndInv => EofIsComplete
  BY DEF IndInv, Complete, EofIsComplete
<1> QED
  BY <1>1, Inductive, PTL
=============================================================================
