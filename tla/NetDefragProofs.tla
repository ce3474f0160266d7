--------------------------- MODULE NetDefragProofs ---------------------------
(***************************************************************************)
(* Theorems about NetDefrag, for every number of datagrams, every length   *)
(* of datagrams, fragments and buffer.                                     *)
(*                                                                         *)
(* The list of holes lives in the memory that the fragments are copied to, *)
(* so that one misplaced descriptor destroys both.  The argument: some set *)
(* of blocks H is linked by the descriptors, both ways and in order; the   *)
(* gaps that these descriptors span are exactly the bytes that have not    *)
(* arrived; and the descriptors that other packets left behind point       *)
(* forward, so that no search runs in circles.                             *)
(***************************************************************************)
EXTENDS NetDefrag, TLAPS, WellFoundedInduction

\* What the theorems ask of the network and of the sizes.  NetDefragOrder shows what
\* happens when the first fragment does not come first; a copy that is late starts a
\* packet that is not there; a last fragment shorter than a block counts as known; and
\* a fragment that leaves less than a block of the buffer has its hole placed behind it.
Conditions ==
    /\ FirstFirst /\ ~LateCopies
    /\ \A d, e \in Datagrams : ip_id[d] = ip_id[e] => d = e
    /\ IP_MAXUDP < ENDLESS
    /\ \A f \in AllFragments : ~ExtendsTooFar(f) => f.len >= UNIT
    /\ \A f \in AllFragments :
          ~ExtendsTooFar(f) /\ f.more => InBuffer((f.start + f.len) \div UNIT)

\* Where block c begins.
At(c) == c * UNIT

\* Byte p lies in fragment f.
Covers(f, p) == f.start <= p /\ p < f.start + f.len

\* The bytes that have not arrived with the fragments G.
Missing(G) ==
    {p \in 0 .. ENDLESS - 1 :
        /\ \A f \in G : ~Covers(f, p)
        /\ \A f \in G : ~f.more => p < f.start + f.len}

\* n is the block behind c in H, 0 if there is none,
NextIs(H, c, n) ==
    IF n = 0 THEN \A e \in H : e <= c
             ELSE n \in H /\ c < n /\ \A e \in H : e <= c \/ n <= e

\* and p the one before it.
PrevIs(H, c, p) ==
    IF p = 0 THEN \A e \in H : c <= e
             ELSE p \in H /\ p < c /\ \A e \in H : e <= p \/ c <= e

\* The holes that begin at the blocks H: they do not touch each other,
Gaps(b, H) ==
    /\ \A c \in H : IsHole(b, c) /\ At(c) < b[c].last /\ b[c].last <= ENDLESS
    /\ \A c, e \in H : c < e => b[c].last < At(e)

\* and they are linked in both directions.
Linked(b, first, H) ==
    /\ H \in SUBSET Blocks
    /\ 0 \in H => H = {0}
    /\ first \in H /\ \A c \in H : first <= c
    /\ \A c \in H : NextIs(H, c, b[c].next) /\ PrevIs(H, c, b[c].prev)

\* The gaps are the bytes M.
Spans(b, H, M) ==
    \A p \in 0 .. ENDLESS - 1 :
        p \in M <=> \E c \in H : At(c) <= p /\ p < b[c].last

Descriptors == [kind : {"hole"}, last : Nat, next : Nat, prev : Nat]

\* Every descriptor, also one that is no longer in the list, points forward.
Forward(b) ==
    /\ b = [c \in Blocks |-> b[c]]
    /\ \A c \in Blocks : IsHole(b, c) =>
          /\ b[c] \in Descriptors
          /\ b[c].next = 0 \/ (b[c].next \in Blocks /\ c < b[c].next)

\* The fragments G of datagram d that arrived are in the buffer.
Stored(b, d, G) ==
    \A f \in G : \A c \in Blocks : Covers(f, At(c)) => b[c] = Data(d, c)

\* The packet of datagram d, of which G arrived, is assembled in b.
Arrived(d, G) ==
    /\ G \subseteq Fragments(d)
    /\ \A f \in G : ~ExtendsTooFar(f)
    /\ \E f \in G : f.start = 0

Total(d, G) == IF \E f \in G : ~f.more THEN Length[d] ELSE 65535

\* The inductive invariant.
IndInv ==
    /\ Forward(buf)
    /\ wild = FALSE
    /\ first_hole \in Blocks
    /\ ReturnedIsComplete
    /\ got = {} <=> total_len = 0
    /\ got # {} => \E d \in Datagrams :
          /\ id = ip_id[d]
          /\ Arrived(d, got)
          /\ Stored(buf, d, got)
          /\ total_len = Total(d, got)
          /\ ~IsReturned(d) => \E H \in SUBSET Blocks :
                /\ Linked(buf, first_hole, H)
                /\ Gaps(buf, H)
                /\ Spans(buf, H, Missing(got))
-----------------------------------------------------------------------------
(***************************************************************************)
(* Blocks and bytes.                                                       *)
(***************************************************************************)

LEMMA ByteIs == \A p \in 0 .. ENDLESS - 1 : p \in Nat
BY DEF ENDLESS

LEMMA Times ==
  ASSUME NEW a \in Nat, NEW b \in Nat, NEW c \in Nat, a <= b
  PROVE  a * c <= b * c
<1>1. b - a \in Nat
  OBVIOUS
<1>2. (b - a) * c >= 0
  BY <1>1
<1>3. (b - a) * c = b * c - a * c
  OBVIOUS
<1> QED
  BY <1>2, <1>3

\* How a division compares.
LEMMA DivIs ==
  ASSUME NEW u \in Nat, NEW c \in Nat \ {0}, NEW q \in Nat
  PROVE  /\ u \div c \in Nat
         /\ u \div c < q <=> u < q * c
         /\ q <= u \div c <=> q * c <= u
<1> DEFINE d == u \div c
<1>1. d \in Nat /\ d * c <= u /\ u < d * c + c
  OBVIOUS
<1>2. d * c \in Nat /\ q * c \in Nat /\ c \in Nat
  OBVIOUS
<1> HIDE DEF d
<1>3. CASE d < q
  <2>1. (d + 1) * c <= q * c
    BY <1>1, <1>3, Times
  <2>2. (d + 1) * c = d * c + c
    BY <1>1
  <2> QED
    BY <1>1, <1>2, <1>3, <2>1, <2>2 DEF d
<1>4. CASE d >= q
  <2>1. q * c <= d * c
    BY <1>1, <1>4, Times
  <2> QED
    BY <1>1, <1>2, <1>4, <2>1 DEF d
<1> QED
  BY <1>1, <1>3, <1>4

LEMMA DivTimes ==
  ASSUME NEW k \in Nat, NEW c \in Nat \ {0}
  PROVE  (k * c) \div c = k
<1> DEFINE d == (k * c) \div c
<1>0. k * c \in Nat /\ (k + 1) * c = k * c + c /\ k + 1 \in Nat
  OBVIOUS
<1>1. d \in Nat /\ k <= d
  BY <1>0, DivIs
<1>2. d < k + 1
  BY <1>0, DivIs
<1> HIDE DEF d
<1>3. d = k
  BY <1>1, <1>2
<1> QED
  BY <1>3 DEF d

\* Blocks begin in order.
LEMMA AtIs ==
  ASSUME NEW c \in Nat, NEW e \in Nat
  PROVE  /\ At(c) \in Nat
         /\ c < e <=> At(c) < At(e)
         /\ c <= e <=> At(c) <= At(e)
         /\ c = e <=> At(c) = At(e)
<1>0. UNIT \in Nat \ {0}
  BY DefragAssumption
<1>1. ASSUME NEW x \in Nat, NEW y \in Nat, x < y
      PROVE  At(x) < At(y)
  <2>1. (x + 1) * UNIT <= y * UNIT
    BY <1>0, <1>1, Times
  <2>2. (x + 1) * UNIT = x * UNIT + UNIT
    BY <1>0
  <2>3. x * UNIT \in Nat /\ y * UNIT \in Nat
    BY <1>0
  <2> QED
    BY <1>0, <2>1, <2>2, <2>3 DEF At
<1>2. At(c) \in Nat /\ At(e) \in Nat
  BY <1>0 DEF At
<1> QED
  BY <1>1, <1>2

LEMMA BlocksAre ==
  /\ Blocks \subseteq Nat /\ 0 \in Blocks
  /\ IP_MAXUDP \in Nat /\ UNIT \in Nat \ {0}
  /\ \A c \in Nat : At(c) <= IP_MAXUDP => c \in Blocks
<1>1. UNIT \in Nat \ {0} /\ IP_MAXUDP \in Nat
  BY DefragAssumption
<1>2. IP_MAXUDP \div UNIT \in Nat
  BY <1>1
<1>3. ASSUME NEW c \in Nat, At(c) <= IP_MAXUDP
      PROVE  c <= IP_MAXUDP \div UNIT
  BY <1>1, <1>3, DivIs DEF At
<1> QED
  BY <1>1, <1>2, <1>3 DEF Blocks

\* Every set of numbers has a least one,
LEMMA LeastIs ==
  ASSUME NEW S \in SUBSET Nat, S # {}
  PROVE  \E x \in S : \A y \in S : x <= y
<1>1. PICK x \in S : \A y \in S : ~(<<y, x>> \in OpToRel(<, Nat))
  BY WFMin, NatLessThanWellFounded
<1>2. ASSUME NEW y \in S, y < x PROVE <<y, x>> \in OpToRel(<, Nat)
  <2>1. <<y, x>> \in Nat \X Nat /\ <<y, x>>[1] < <<y, x>>[2]
    BY <1>2
  <2> QED
    BY <2>1, Zenon DEF OpToRel
<1>3. \A y \in S : ~(y < x)
  BY <1>1, <1>2, Zenon
<1> QED
  BY <1>3

\* and every set of blocks a last one.
LEMMA LastIs ==
  ASSUME NEW S \in SUBSET Blocks, S # {}
  PROVE  \E x \in S : \A y \in S : y <= x
<1> DEFINE N == IP_MAXUDP \div UNIT
           T == {N - c : c \in S}
<1>0. N \in Nat /\ S \subseteq 0 .. N
  BY DefragAssumption DEF Blocks
<1>1. T \in SUBSET Nat /\ T # {}
  <2> HIDE DEF N
  <2>1. \A c \in S : N - c \in Nat
    BY <1>0
  <2> QED
    BY <2>1
<1>2. PICK t \in T : \A u \in T : t <= u
  BY <1>1, LeastIs
<1>3. PICK x \in S : t = N - x
  BY <1>2
<1>4. \A y \in S : N - x <= N - y
  BY <1>2, <1>3
<1> HIDE DEF N
<1> QED
  BY <1>0, <1>3, <1>4
-----------------------------------------------------------------------------
(***************************************************************************)
(* Fragments.                                                              *)
(***************************************************************************)

LEMMA FragmentIs ==
  ASSUME NEW d \in Datagrams, NEW f \in Fragments(d)
  PROVE  /\ f.of = d /\ f.start \in Nat /\ f.len \in Nat \ {0} /\ f.more \in BOOLEAN
         /\ f.more => f.len = FRAG /\ f.start + f.len < Length[d]
         /\ ~f.more => f.start + f.len = Length[d]
         /\ f.start = 0 => f.more
         /\ Length[d] \in Nat
         /\ \E k \in Nat : f.start = k * FRAG
<1>1. FRAG \in Nat \ {0} /\ Length[d] \in Nat /\ Length[d] > FRAG
  BY DefragAssumption
<1>2. PICK k \in 0 .. (Length[d] - 1) \div FRAG :
         f = [of |-> d, start |-> k * FRAG, more |-> k * FRAG + FRAG < Length[d],
              len |-> IF k * FRAG + FRAG < Length[d] THEN FRAG ELSE Length[d] - k * FRAG]
  BY DEF Fragments
<1>3. k \in Nat
  BY <1>1, <1>2
<1>4. PICK s : s = k * FRAG
  OBVIOUS
<1>5. s \in Nat
  BY <1>1, <1>3, <1>4
<1>6. s <= Length[d] - 1
  <2>1. k <= (Length[d] - 1) \div FRAG /\ Length[d] - 1 \in Nat
    BY <1>1, <1>2
  <2> QED
    BY <1>1, <1>3, <1>4, <2>1, DivIs
<1>7. /\ f.of = d /\ f.start = s /\ f.more = (s + FRAG < Length[d])
      /\ f.len = IF s + FRAG < Length[d] THEN FRAG ELSE Length[d] - s
  BY <1>2, <1>4
<1>8. CASE s + FRAG < Length[d]
  <2>1. f.more = TRUE /\ f.len = FRAG
    BY <1>7, <1>8
  <2>2. f.more \in BOOLEAN
    BY <2>1
  <2> QED
    BY <1>1, <1>3, <1>4, <1>5, <1>7, <1>8, <2>1, <2>2
<1>9. CASE ~(s + FRAG < Length[d])
  <2>0. (s + FRAG < Length[d]) = FALSE
    BY <1>1, <1>5, <1>9
  <2>1. f.more = FALSE /\ f.len = Length[d] - s
    BY <1>7, <1>9, <2>0, Zenon
  <2>2. f.more \in BOOLEAN
    BY <2>1
  <2>3. s # 0
    BY <1>1, <1>9
  <2>4. f.len \in Nat \ {0} /\ f.start + f.len = Length[d]
    BY <1>1, <1>5, <1>6, <1>7, <2>1
  <2> QED
    BY <1>1, <1>3, <1>4, <1>5, <1>7, <2>1, <2>2, <2>3, <2>4
<1> QED
  BY <1>8, <1>9

\* The fragment with a start is the only one.
LEMMA FragmentFrom ==
  ASSUME NEW d \in Datagrams, NEW f \in Fragments(d), NEW g \in Fragments(d),
         f.start = g.start
  PROVE  f = g
<1>1. PICK s : f = [of |-> d, start |-> s, more |-> s + FRAG < Length[d],
                    len |-> IF s + FRAG < Length[d] THEN FRAG ELSE Length[d] - s]
  BY DEF Fragments
<1>2. PICK t : g = [of |-> d, start |-> t, more |-> t + FRAG < Length[d],
                    len |-> IF t + FRAG < Length[d] THEN FRAG ELSE Length[d] - t]
  BY DEF Fragments
<1>3. s = t
  BY <1>1, <1>2
<1> QED
  BY <1>1, <1>2, <1>3

\* Two fragments do not overlap.
LEMMA Disjoint ==
  ASSUME NEW d \in Datagrams, NEW f \in Fragments(d), NEW g \in Fragments(d), f # g
  PROVE  f.start + f.len <= g.start \/ g.start + g.len <= f.start
<1>0. FRAG \in Nat \ {0}
  BY DefragAssumption
<1>1. ASSUME NEW x \in Fragments(d), NEW y \in Fragments(d), x.start < y.start
      PROVE  x.start + x.len <= y.start
  <2>1. PICK k \in Nat : x.start = k * FRAG
    BY FragmentIs
  <2>2. PICK j \in Nat : y.start = j * FRAG
    BY FragmentIs
  <2>3. k < j
    <3> SUFFICES ASSUME j <= k PROVE FALSE
      OBVIOUS
    <3>1. j * FRAG <= k * FRAG
      BY <1>0, Times
    <3>2. j * FRAG \in Nat /\ k * FRAG \in Nat
      BY <1>0
    <3> QED
      BY <1>1, <2>1, <2>2, <3>1, <3>2
  <2>4. (k + 1) * FRAG <= j * FRAG
    BY <1>0, <2>3, Times
  <2>5. (k + 1) * FRAG = k * FRAG + FRAG /\ k * FRAG \in Nat /\ j * FRAG \in Nat
    BY <1>0
  <2>6. x.start + FRAG <= y.start
    BY <2>1, <2>2, <2>4, <2>5
  <2>7. y.start + y.len <= Length[d] /\ y.len \in Nat \ {0} /\ y.start \in Nat /\ x.start \in Nat
    BY FragmentIs
  <2>8. x.more
    <3> SUFFICES ASSUME ~x.more PROVE FALSE
      OBVIOUS
    <3>1. PICK s : x = [of |-> d, start |-> s, more |-> s + FRAG < Length[d],
                    len |-> IF s + FRAG < Length[d] THEN FRAG ELSE Length[d] - s]
      BY DEF Fragments
    <3>2. ~(x.start + FRAG < Length[d])
      BY <3>1
    <3>3. Length[d] \in Nat
      BY FragmentIs
    <3> QED
      BY <1>0, <2>6, <2>7, <3>2, <3>3
  <2> QED
    BY <2>6, <2>8, FragmentIs
<1>2. f.start # g.start
  BY FragmentFrom
<1>3. f.start \in Nat /\ g.start \in Nat
  BY FragmentIs
<1> QED
  BY <1>1, <1>2, <1>3

\* Every byte of a datagram is in a fragment.
LEMMA FragmentAt ==
  ASSUME NEW d \in Datagrams, NEW p \in Nat, p < Length[d]
  PROVE  \E f \in Fragments(d) : Covers(f, p)
<1>1. FRAG \in Nat \ {0} /\ Length[d] \in Nat /\ Length[d] > FRAG
  BY DefragAssumption
<1> DEFINE k == p \div FRAG
<1>2. k \in Nat /\ k * FRAG <= p /\ p < k * FRAG + FRAG
  BY <1>1
<1>3. k \in 0 .. (Length[d] - 1) \div FRAG
  <2>1. Length[d] - 1 \in Nat /\ p <= Length[d] - 1
    BY <1>1
  <2> HIDE DEF k
  <2>2. k * FRAG <= Length[d] - 1
    BY <1>1, <1>2, <2>1
  <2>3. k <= (Length[d] - 1) \div FRAG /\ (Length[d] - 1) \div FRAG \in Nat
    BY <1>1, <1>2, <2>1, <2>2, DivIs
  <2> QED
    BY <1>2, <2>3
<1> HIDE DEF k
<1> DEFINE s == k * FRAG
           f == [of |-> d, start |-> s, more |-> s + FRAG < Length[d],
                 len |-> IF s + FRAG < Length[d] THEN FRAG ELSE Length[d] - s]
<1>4. f \in Fragments(d)
  BY <1>3 DEF Fragments
<1>5. s \in Nat /\ s <= p /\ p < s + FRAG
  BY <1>1, <1>2
<1>6. f.start = s /\ f.len = IF s + FRAG < Length[d] THEN FRAG ELSE Length[d] - s
  OBVIOUS
<1> HIDE DEF s, f
<1>7. Covers(f, p)
  BY <1>1, <1>5, <1>6 DEF Covers
<1> QED
  BY <1>4, <1>7

\* A fragment begins with a block.
LEMMA BlockOf ==
  ASSUME NEW d \in Datagrams, NEW f \in Fragments(d)
  PROVE  LET off == f.start \div UNIT
             end == f.start + f.len
             new == off + f.len \div UNIT
             l == (f.start + f.len - 1) \div UNIT
         IN  /\ off \in Nat /\ At(off) = f.start
             /\ l \in Nat /\ \A c \in Nat : Covers(f, At(c)) <=> off <= c /\ c <= l
             /\ new \in Nat /\ At(new) <= end
             /\ f.more => At(new) = end /\ end \div UNIT = new
             /\ f.len >= UNIT => off < new
<1> DEFINE off == f.start \div UNIT
           end == f.start + f.len
           n == f.len \div UNIT
           l == (f.start + f.len - 1) \div UNIT
<1>0. UNIT \in Nat \ {0} /\ FRAG \in Nat \ {0} /\ FRAG % UNIT = 0
  BY DefragAssumption
<1>1. f.start \in Nat /\ f.len \in Nat \ {0} /\ end \in Nat /\ end - 1 \in Nat
  BY FragmentIs
<1>2. FRAG = (FRAG \div UNIT) * UNIT /\ FRAG \div UNIT \in Nat
  BY <1>0
<1>3. off \in Nat /\ At(off) = f.start
  <2>1. PICK k \in Nat : f.start = k * FRAG
    BY FragmentIs
  <2>2. PICK m \in Nat : m = FRAG \div UNIT /\ FRAG = m * UNIT
    BY <1>2
  <2>3. k * FRAG = (k * m) * UNIT /\ k * m \in Nat
    BY <1>0, <2>2
  <2>4. off = k * m
    BY <1>0, <2>1, <2>3, DivTimes
  <2> QED
    BY <2>1, <2>3, <2>4 DEF At
<1>4. n \in Nat /\ At(n) <= f.len /\ f.len < At(n) + UNIT
  BY <1>0, <1>1 DEF At
<1>5. At(off + n) = f.start + At(n) /\ At(n) \in Nat /\ off + n \in Nat
  <2>1. At(off + n) = At(off) + At(n)
    <3> HIDE DEF off, n
    <3> QED
      BY <1>0, <1>3, <1>4 DEF At
  <2>2. At(n) \in Nat
    BY <1>4, AtIs
  <2> QED
    BY <1>3, <1>4, <2>1, <2>2
<1>6. l \in Nat /\ \A c \in Nat : c <= l <=> At(c) < end
  <2>0. f.start + f.len - 1 = end - 1
    BY <1>1
  <2>1. l \in Nat /\ \A c \in Nat : c <= l <=> At(c) <= end - 1
    BY <1>0, <1>1, <2>0, DivIs DEF At
  <2> HIDE DEF l, end
  <2> QED
    BY <1>1, <2>1, AtIs
<1>7. ASSUME NEW c \in Nat PROVE Covers(f, At(c)) <=> off <= c /\ c <= l
  <2> HIDE DEF l, off
  <2>1. off <= c <=> f.start <= At(c)
    BY <1>3, AtIs
  <2> QED
    BY <1>6, <2>1 DEF Covers
<1>8. f.more => At(off + n) = end /\ end \div UNIT = off + n
  <2> SUFFICES ASSUME f.more PROVE At(off + n) = end /\ end \div UNIT = off + n
    OBVIOUS
  <2>1. f.len = FRAG
    BY FragmentIs
  <2>2. At(n) = f.len
    BY <1>2, <2>1 DEF At
  <2>3. At(off + n) = end
    BY <1>5, <2>2
  <2>4. end \div UNIT = off + n
    <3> HIDE DEF off, n, end
    <3> QED
      BY <1>0, <1>5, <2>3, DivTimes DEF At
  <2> QED
    BY <2>3, <2>4
<1>9. f.len >= UNIT => off < off + n
  <2>1. f.len >= UNIT => 1 <= n
    <3>1. 1 * UNIT = UNIT
      BY <1>0
    <3> QED
      BY <1>0, <1>1, <3>1, DivIs
  <2> HIDE DEF off, n
  <2> QED
    BY <1>3, <1>4, <2>1
<1> HIDE DEF off, n, l
<1>10. At(off + n) <= end
  BY <1>1, <1>4, <1>5
<1> QED
  BY <1>3, <1>5, <1>6, <1>7, <1>8, <1>9, <1>10 DEF off, n, l
-----------------------------------------------------------------------------
(***************************************************************************)
(* Following the list.                                                     *)
(***************************************************************************)

\* The search is well defined, whatever old descriptors the buffer holds.
LEMMA SeekExists ==
  ASSUME NEW b, Forward(b), NEW start \in Nat
  PROVE  \E g : g = [c \in Blocks |-> IF ~IsHole(b, c) THEN LOST
                                      ELSE IF b[c].last >= start THEN c
                                      ELSE IF b[c].next = 0 THEN NONE
                                      ELSE g[b[c].next]]
<1> DEFINE N == IP_MAXUDP \div UNIT
           R(g, c) == IF ~IsHole(b, c) THEN LOST
                      ELSE IF b[c].last >= start THEN c
                      ELSE IF b[c].next = 0 THEN NONE
                      ELSE g[b[c].next]
           OK(g, m) == \A c \in Blocks : m <= c => g[c] = R(g, c)
           S == {n \in 0 .. N + 1 : ~\E g : g = [c \in Blocks |-> g[c]] /\ OK(g, N + 1 - n)}
<1>0. N \in Nat /\ Blocks = 0 .. N
  BY DefragAssumption DEF Blocks
<1> HIDE DEF N
<1>1. S = {}
  <2> SUFFICES ASSUME S # {} PROVE FALSE
    OBVIOUS
  <2>1. S \in SUBSET Nat
    BY <1>0
  <2>2. PICK n \in S : \A k \in S : n <= k
    <3> HIDE DEF S
    <3> QED
      BY <2>1, LeastIs
  <2>3. n \in 0 .. N + 1 /\ n \in Nat
    BY <1>0, <2>2
  <2>4. CASE n = 0
    <3> DEFINE g == [c \in Blocks |-> 0]
    <3>1. OK(g, N + 1 - n)
      BY <1>0, <2>4
    <3>2. g = [c \in Blocks |-> g[c]]
      OBVIOUS
    <3> HIDE DEF OK, g
    <3> QED
      BY <2>2, <3>1, <3>2
  <2>5. CASE n # 0
    <3>1. n - 1 \in 0 .. N + 1 /\ ~(n <= n - 1)
      BY <1>0, <2>3, <2>5
    <3>2. n - 1 \notin S
      <4> HIDE DEF S
      <4> QED BY <2>2, <3>1
    <3>3. PICK g : g = [c \in Blocks |-> g[c]] /\ OK(g, N + 1 - (n - 1))
      <4> HIDE DEF OK
      <4> QED BY <3>1, <3>2
    <3>4. PICK m \in Blocks : m = N + 1 - n
      BY <1>0, <2>3, <2>5
    <3> DEFINE k == [c \in Blocks |-> IF c = m THEN R(g, c) ELSE g[c]]
    <3>5. ASSUME NEW c \in Blocks, m <= c PROVE k[c] = R(k, c)
      <4>1. R(k, c) = R(g, c)
        <5>1. CASE ~IsHole(b, c) \/ b[c].last >= start \/ b[c].next = 0
          BY <5>1
        <5>2. CASE ~(~IsHole(b, c) \/ b[c].last >= start \/ b[c].next = 0)
          <6>1. b[c].next \in Blocks /\ c < b[c].next
            BY <5>2 DEF Forward
          <6>2. b[c].next # m
            BY <1>0, <3>4, <3>5, <6>1
          <6>3. k[b[c].next] = g[b[c].next]
            BY <6>1, <6>2
          <6> HIDE DEF k
          <6> QED
            BY <6>3
        <5> QED
          BY <5>1, <5>2
      <4>2. c = m \/ N + 1 - (n - 1) <= c
        BY <1>0, <2>3, <3>4, <3>5
      <4>3. g[c] = R(g, c) \/ c = m
        BY <3>3, <4>2
      <4>4. k[c] = IF c = m THEN R(g, c) ELSE g[c]
        OBVIOUS
      <4> HIDE DEF k, R
      <4> QED
        BY <4>1, <4>3, <4>4
    <3>6. k = [c \in Blocks |-> k[c]]
      OBVIOUS
    <3>7. OK(k, N + 1 - n)
      <4> HIDE DEF k, R
      <4> QED BY <3>4, <3>5
    <3> HIDE DEF OK, k
    <3> QED
      BY <2>2, <3>6, <3>7
  <2> QED
    BY <2>4, <2>5
<1>2. N + 1 \in 0 .. N + 1 /\ N + 1 - (N + 1) = 0
  BY <1>0
<1>3. PICK g : g = [c \in Blocks |-> g[c]] /\ OK(g, 0)
  <2> HIDE DEF OK
  <2>1. \E g : g = [c \in Blocks |-> g[c]] /\ OK(g, N + 1 - (N + 1))
    BY <1>1, <1>2
  <2> QED
    BY <1>2, <2>1
<1>4. \A c \in Blocks : g[c] = R(g, c)
  BY <1>0, <1>3
<1>5. g = [c \in Blocks |-> R(g, c)]
  <2> HIDE DEF R
  <2> QED BY <1>3, <1>4
<1> QED
  BY <1>5

\* What the search finds in a list of holes: the first one that ends at start or behind it.
LEMMA SeekIs ==
  ASSUME NEW b, NEW first, NEW H, NEW start \in Nat,
         Forward(b), Linked(b, first, H), Gaps(b, H)
  PROVE  LET h == Seek(b, first, start)
         IN  \/ h = NONE /\ \A e \in H : b[e].last < start
             \/ /\ h \in H /\ b[h].last >= start
                /\ \A e \in H : e < h => b[e].last < start
<1>1. PICK g : g = [c \in Blocks |-> IF ~IsHole(b, c) THEN LOST
                                     ELSE IF b[c].last >= start THEN c
                                     ELSE IF b[c].next = 0 THEN NONE
                                     ELSE g[b[c].next]]
  BY SeekExists
<1> DEFINE seek == CHOOSE s : s = [c \in Blocks |-> IF ~IsHole(b, c) THEN LOST
                                     ELSE IF b[c].last >= start THEN c
                                     ELSE IF b[c].next = 0 THEN NONE
                                     ELSE s[b[c].next]]
<1>2. seek = [c \in Blocks |-> IF ~IsHole(b, c) THEN LOST
                               ELSE IF b[c].last >= start THEN c
                               ELSE IF b[c].next = 0 THEN NONE
                               ELSE seek[b[c].next]]
  BY <1>1, Zenon
<1>3. Seek(b, first, start) = seek[first]
  BY DEF Seek
<1> HIDE DEF seek
<1>4. H \subseteq Blocks /\ first \in H /\ \A c \in H : first <= c
  BY DEF Linked
<1>5. \A c \in H : IsHole(b, c) /\ b[c].last \in Nat
  BY <1>4 DEF Gaps, Forward, Descriptors
<1>6. \A c \in H : c \in Nat
  BY <1>4, BlocksAre
<1> DEFINE Q(c) == \/ seek[c] = NONE /\ \A e \in H : c <= e => b[e].last < start
                   \/ /\ seek[c] \in H /\ b[seek[c]].last >= start
                      /\ \A e \in H : c <= e /\ e < seek[c] => b[e].last < start
           Bad == {c \in H : ~Q(c)}
<1>7. ASSUME Bad # {} PROVE FALSE
  <2>1. Bad \in SUBSET Blocks
    BY <1>4
  <2>2. PICK c \in Bad : \A y \in Bad : y <= c
    <3> HIDE DEF Bad
    <3> QED BY <1>7, <2>1, LastIs
  <2>3. c \in H /\ c \in Blocks /\ c \in Nat
    BY <1>4, <1>6, <2>2
  <2>4. seek[c] = IF b[c].last >= start THEN c
                  ELSE IF b[c].next = 0 THEN NONE ELSE seek[b[c].next]
    BY <1>2, <1>5, <2>3
  <2>5. CASE b[c].last >= start
    <3>1. seek[c] = c
      BY <2>4, <2>5
    <3>2. Q(c)
      BY <1>6, <2>3, <2>5, <3>1
    <3> HIDE DEF Q
    <3> QED BY <2>2, <3>2
  <2>6. CASE ~(b[c].last >= start) /\ b[c].next = 0
    <3>1. seek[c] = NONE
      BY <2>4, <2>6
    <3>2. \A e \in H : e <= c
      BY <2>3, <2>6 DEF Linked, NextIs
    <3>3. \A e \in H : c <= e => e = c
      BY <1>6, <2>3, <3>2
    <3>4. b[c].last < start
      BY <1>5, <2>3, <2>6
    <3>5. Q(c)
      BY <3>1, <3>3, <3>4
    <3> HIDE DEF Q
    <3> QED BY <2>2, <3>5
  <2>7. CASE ~(b[c].last >= start) /\ b[c].next # 0
    <3>1. PICK n : n = b[c].next
      OBVIOUS
    <3>2. seek[c] = seek[n]
      BY <2>4, <2>7, <3>1
    <3>3. n \in H /\ c < n /\ \A e \in H : e <= c \/ n <= e
      BY <2>3, <2>7, <3>1 DEF Linked, NextIs
    <3>4. n \in Nat
      BY <1>6, <3>3
    <3>5. Q(n)
      <4>1. ~(n <= c)
        BY <2>3, <3>3, <3>4
      <4>2. n \notin Bad
        <5> HIDE DEF Bad
        <5> QED BY <2>2, <4>1
      <4> HIDE DEF Q
      <4> QED BY <3>3, <4>2
    <3>6. b[c].last < start
      BY <1>5, <2>3, <2>7
    <3>7. \A e \in H : c <= e => e = c \/ n <= e
      BY <1>6, <2>3, <3>3, <3>4
    <3>8. Q(c)
      BY <3>2, <3>5, <3>6, <3>7
    <3> HIDE DEF Q
    <3> QED BY <2>2, <3>8
  <2> QED
    BY <2>5, <2>6, <2>7
<1>8. Q(first)
  <2> HIDE DEF Q
  <2> QED BY <1>4, <1>7
<1> QED
  BY <1>3, <1>4, <1>8

\* So is what the list says is missing.
LEMMA HoleBytesExists ==
  ASSUME NEW b, Forward(b)
  PROVE  \E g : g = [c \in Blocks |->
                      IF ~IsHole(b, c) THEN {NONE}
                      ELSE {p \in 0 .. IP_MAXUDP - 1 : p >= c * UNIT /\ p < b[c].last}
                           \cup IF b[c].next = 0 THEN {} ELSE g[b[c].next]]
<1> DEFINE N == IP_MAXUDP \div UNIT
           span(c) == {p \in 0 .. IP_MAXUDP - 1 : p >= c * UNIT /\ p < b[c].last}
           R(g, c) == IF ~IsHole(b, c) THEN {NONE}
                      ELSE span(c) \cup IF b[c].next = 0 THEN {} ELSE g[b[c].next]
           OK(g, m) == \A c \in Blocks : m <= c => g[c] = R(g, c)
           S == {n \in 0 .. N + 1 : ~\E g : g = [c \in Blocks |-> g[c]] /\ OK(g, N + 1 - n)}
<1>0. N \in Nat /\ Blocks = 0 .. N
  BY DefragAssumption DEF Blocks
<1> HIDE DEF N
<1>1. S = {}
  <2> SUFFICES ASSUME S # {} PROVE FALSE
    OBVIOUS
  <2>1. S \in SUBSET Nat
    BY <1>0
  <2>2. PICK n \in S : \A k \in S : n <= k
    <3> HIDE DEF S
    <3> QED
      BY <2>1, LeastIs
  <2>3. n \in 0 .. N + 1 /\ n \in Nat
    BY <1>0, <2>2
  <2>4. CASE n = 0
    <3> DEFINE g == [c \in Blocks |-> {}]
    <3>1. OK(g, N + 1 - n)
      BY <1>0, <2>4
    <3>2. g = [c \in Blocks |-> g[c]]
      OBVIOUS
    <3> HIDE DEF OK, g
    <3> QED
      BY <2>2, <3>1, <3>2
  <2>5. CASE n # 0
    <3>1. n - 1 \in 0 .. N + 1 /\ ~(n <= n - 1)
      BY <1>0, <2>3, <2>5
    <3>2. n - 1 \notin S
      <4> HIDE DEF S
      <4> QED BY <2>2, <3>1
    <3>3. PICK g : g = [c \in Blocks |-> g[c]] /\ OK(g, N + 1 - (n - 1))
      <4> HIDE DEF OK
      <4> QED BY <3>1, <3>2
    <3>4. PICK m \in Blocks : m = N + 1 - n
      BY <1>0, <2>3, <2>5
    <3> DEFINE k == [c \in Blocks |-> IF c = m THEN R(g, c) ELSE g[c]]
    <3>5. ASSUME NEW c \in Blocks, m <= c PROVE k[c] = R(k, c)
      <4>1. R(k, c) = R(g, c)
        <5>1. CASE ~IsHole(b, c) \/ b[c].next = 0
          BY <5>1
        <5>2. CASE ~(~IsHole(b, c) \/ b[c].next = 0)
          <6>1. b[c].next \in Blocks /\ c < b[c].next
            BY <5>2 DEF Forward
          <6>2. b[c].next # m
            BY <1>0, <3>4, <3>5, <6>1
          <6>3. k[b[c].next] = g[b[c].next]
            BY <6>1, <6>2
          <6> HIDE DEF k, span
          <6> QED
            BY <6>3
        <5> QED
          BY <5>1, <5>2
      <4>2. c = m \/ N + 1 - (n - 1) <= c
        BY <1>0, <2>3, <3>4, <3>5
      <4>3. g[c] = R(g, c) \/ c = m
        BY <3>3, <4>2
      <4>4. k[c] = IF c = m THEN R(g, c) ELSE g[c]
        OBVIOUS
      <4> HIDE DEF k, R
      <4> QED
        BY <4>1, <4>3, <4>4
    <3>6. k = [c \in Blocks |-> k[c]]
      OBVIOUS
    <3>7. OK(k, N + 1 - n)
      <4> HIDE DEF k, R
      <4> QED BY <3>4, <3>5
    <3> HIDE DEF OK, k
    <3> QED
      BY <2>2, <3>6, <3>7
  <2> QED
    BY <2>4, <2>5
<1>2. N + 1 \in 0 .. N + 1 /\ N + 1 - (N + 1) = 0
  BY <1>0
<1>3. PICK g : g = [c \in Blocks |-> g[c]] /\ OK(g, 0)
  <2> HIDE DEF OK
  <2>1. \E g : g = [c \in Blocks |-> g[c]] /\ OK(g, N + 1 - (N + 1))
    BY <1>1, <1>2
  <2> QED
    BY <1>2, <2>1
<1>4. \A c \in Blocks : g[c] = R(g, c)
  BY <1>0, <1>3
<1>5. g = [c \in Blocks |-> R(g, c)]
  <2> HIDE DEF R
  <2> QED BY <1>3, <1>4
<1> QED
  BY <1>5

\* The list, followed from its first hole, names the bytes of all gaps.
LEMMA HoleBytesIs ==
  ASSUME NEW H, Forward(buf), Linked(buf, first_hole, H), Gaps(buf, H)
  PROVE  HoleBytes = {p \in 0 .. IP_MAXUDP - 1 :
                        \E c \in H : At(c) <= p /\ p < buf[c].last}
<1> DEFINE span(c) == {p \in 0 .. IP_MAXUDP - 1 : p >= c * UNIT /\ p < buf[c].last}
<1>1. PICK g : g = [c \in Blocks |->
                      IF ~IsHole(buf, c) THEN {NONE}
                      ELSE span(c) \cup IF buf[c].next = 0 THEN {} ELSE g[buf[c].next]]
  BY HoleBytesExists
<1> DEFINE from == CHOOSE s : s = [c \in Blocks |->
                      IF ~IsHole(buf, c) THEN {NONE}
                      ELSE span(c) \cup IF buf[c].next = 0 THEN {} ELSE s[buf[c].next]]
<1>2. from = [c \in Blocks |->
                IF ~IsHole(buf, c) THEN {NONE}
                ELSE span(c) \cup IF buf[c].next = 0 THEN {} ELSE from[buf[c].next]]
  BY <1>1, Zenon
<1>3. HoleBytes = from[first_hole]
  BY DEF HoleBytes
<1> HIDE DEF from
<1>4. H \subseteq Blocks /\ first_hole \in H /\ \A c \in H : first_hole <= c
  BY DEF Linked
<1>5. \A c \in H : IsHole(buf, c) /\ buf[c].last \in Nat /\ c \in Nat /\ At(c) \in Nat
  BY <1>4, BlocksAre, AtIs DEF Gaps, Forward, Descriptors
<1> DEFINE G(c) == {p \in 0 .. IP_MAXUDP - 1 :
                      \E e \in H : c <= e /\ At(e) <= p /\ p < buf[e].last}
           Bad == {c \in H : from[c] # G(c)}
<1>7. ASSUME Bad # {} PROVE FALSE
  <2>1. Bad \in SUBSET Blocks
    BY <1>4
  <2>2. PICK c \in Bad : \A y \in Bad : y <= c
    <3> HIDE DEF Bad
    <3> QED BY <1>7, <2>1, LastIs
  <2>3. c \in H /\ c \in Blocks /\ c \in Nat
    BY <1>4, <1>5, <2>2
  <2>4. from[c] = span(c) \cup IF buf[c].next = 0 THEN {} ELSE from[buf[c].next]
    <3> HIDE DEF span
    <3> QED BY <1>2, <1>5, <2>3
  <2>5. span(c) = {p \in 0 .. IP_MAXUDP - 1 : At(c) <= p /\ p < buf[c].last}
    <3>1. \A p \in 0 .. IP_MAXUDP - 1 : p >= c * UNIT <=> At(c) <= p
      BY <1>5, <2>3, BlocksAre DEF At
    <3> QED BY <3>1
  <2> HIDE DEF span
  <2>6. CASE buf[c].next = 0
    <3>1. \A e \in H : e <= c
      BY <2>3, <2>6 DEF Linked, NextIs
    <3>2. \A e \in H : c <= e <=> e = c
      BY <1>5, <2>3, <3>1
    <3>3. from[c] = span(c)
      BY <2>4, <2>6
    <3>4. from[c] = G(c)
      BY <2>3, <2>5, <3>2, <3>3
    <3> HIDE DEF G
    <3> QED BY <2>2, <3>4
  <2>7. CASE buf[c].next # 0
    <3>1. PICK n : n = buf[c].next
      OBVIOUS
    <3>2. from[c] = span(c) \cup from[n]
      BY <2>4, <2>7, <3>1
    <3>3. n \in H /\ c < n /\ \A e \in H : e <= c \/ n <= e
      BY <2>3, <2>7, <3>1 DEF Linked, NextIs
    <3>4. n \in Nat
      BY <1>5, <3>3
    <3>5. from[n] = G(n)
      <4>1. ~(n <= c)
        BY <2>3, <3>3, <3>4
      <4>2. n \notin Bad
        <5> HIDE DEF Bad
        <5> QED BY <2>2, <4>1
      <4> HIDE DEF G
      <4> QED BY <3>3, <4>2
    <3>6. \A e \in H : c <= e <=> e = c \/ n <= e
      BY <1>5, <2>3, <3>3, <3>4
    <3>7. from[c] = G(c)
      BY <2>3, <2>5, <3>2, <3>5, <3>6
    <3> HIDE DEF G
    <3> QED BY <2>2, <3>7
  <2> QED
    BY <2>6, <2>7
<1>8. from[first_hole] = G(first_hole)
  <2> HIDE DEF G
  <2> QED BY <1>4, <1>7
<1> QED
  BY <1>3, <1>4, <1>8

-----------------------------------------------------------------------------
(***************************************************************************)
(* Changing the list.  Each change takes the bytes from x up to y out of   *)
(* the missing ones M.                                                     *)
(***************************************************************************)

Without(M, x, y) == {p \in M : ~(x <= p /\ p < y)}

\* b holds the list of the holes H.
List(b, first, H) == Forward(b) /\ Linked(b, first, H) /\ Gaps(b, H)

\* The change r of the buffer b, in which the bytes M are missing, leaves the holes K and
\* with them the missing bytes N; it follows no link into data and writes to no block
\* that arrived.
Leaves(b, M, r, K, N) ==
    /\ \A c \in r.links : IsHole(b, c)
    /\ Forward(r.buf) /\ r.first \in Blocks /\ K \in SUBSET Blocks
    /\ r.done = TRUE \/ r.done = FALSE
    /\ r.done = TRUE <=> K = {}
    /\ Gaps(r.buf, K) /\ Spans(r.buf, K, N)
    /\ K # {} => Linked(r.buf, r.first, K)
    /\ \A c \in Blocks : At(c) \notin M => r.buf[c] = b[c]

LEMMA DescriptorIs ==
  ASSUME NEW r \in Descriptors, NEW x \in Nat
  PROVE  /\ r.kind = "hole" /\ r.last \in Nat /\ r.next \in Nat /\ r.prev \in Nat
         /\ LET q == [r EXCEPT !.prev = x]
            IN  q \in Descriptors /\ q.last = r.last /\ q.next = r.next /\ q.prev = x
         /\ LET q == [r EXCEPT !.next = x]
            IN  q \in Descriptors /\ q.last = r.last /\ q.next = x /\ q.prev = r.prev
         /\ LET q == [r EXCEPT !.last = x]
            IN  q \in Descriptors /\ q.last = x /\ q.next = r.next /\ q.prev = r.prev
BY DEF Descriptors

\* The holes of a list.
LEMMA ListIs ==
  ASSUME NEW b, NEW first, NEW H, List(b, first, H)
  PROVE  /\ H \subseteq Blocks /\ H \subseteq Nat /\ first \in H /\ \A c \in H : first <= c
         /\ 0 \in H => H = {0}
         /\ \A c \in H : /\ At(c) \in Nat /\ At(c) < b[c].last /\ b[c].last <= ENDLESS
                         /\ IsHole(b, c) /\ b[c] \in Descriptors
                         /\ b[c].last \in Nat /\ b[c].next \in Nat /\ b[c].prev \in Nat
                         /\ b[c].next # 0 => b[c].next \in H /\ c < b[c].next
                         /\ b[c].prev # 0 => b[c].prev \in H /\ b[c].prev < c
                         /\ NextIs(H, c, b[c].next) /\ PrevIs(H, c, b[c].prev)
         /\ \A c, e \in H : c < e => b[c].last < At(e)
<1>1. /\ H \subseteq Blocks /\ first \in H /\ \A c \in H : first <= c
      /\ 0 \in H => H = {0}
      /\ \A c \in H : NextIs(H, c, b[c].next) /\ PrevIs(H, c, b[c].prev)
  BY DEF List, Linked
<1>2. /\ \A c \in H : IsHole(b, c) /\ At(c) < b[c].last /\ b[c].last <= ENDLESS
      /\ \A c, e \in H : c < e => b[c].last < At(e)
  BY DEF List, Gaps
<1>3. H \subseteq Nat /\ \A c \in H : At(c) \in Nat
  BY <1>1, BlocksAre, AtIs
<1>4. \A c \in H : b[c] \in Descriptors
  BY <1>1, <1>2 DEF List, Forward
<1>5. \A c \in H : b[c].last \in Nat /\ b[c].next \in Nat /\ b[c].prev \in Nat
  BY <1>4, DescriptorIs
<1>6. \A c \in H : /\ b[c].next # 0 => b[c].next \in H /\ c < b[c].next
                   /\ b[c].prev # 0 => b[c].prev \in H /\ b[c].prev < c
  BY <1>1 DEF NextIs, PrevIs
<1> QED
  BY <1>1, <1>2, <1>3, <1>4, <1>5, <1>6

\* A hole begins with a missing byte.
LEMMA HeadMissing ==
  ASSUME NEW q, Forward(q), NEW K \in SUBSET Blocks, Gaps(q, K), NEW M, Spans(q, K, M),
         NEW c \in K
  PROVE  At(c) \in M /\ At(c) \in 0 .. ENDLESS - 1
<1>1. IsHole(q, c) /\ At(c) < q[c].last /\ q[c].last <= ENDLESS
  BY DEF Gaps
<1>2. q[c].last \in Nat
  BY <1>1 DEF Forward, Descriptors
<1>3. At(c) \in Nat
  BY BlocksAre, AtIs
<1>4. At(c) \in 0 .. ENDLESS - 1
  <2>1. ENDLESS \in Nat
    BY DEF ENDLESS
  <2> QED
    BY <1>1, <1>2, <1>3, <2>1
<1>5. At(c) <= At(c)
  BY <1>3
<1> QED
  BY <1>1, <1>4, <1>5 DEF Spans

\* A hole ends earlier.
LEMMA Cut ==
  ASSUME NEW b, NEW first, NEW H, NEW M \in SUBSET Nat, NEW h \in H, NEW x \in Nat,
         List(b, first, H), Spans(b, H, M), At(h) < x, x <= b[h].last
  PROVE  LET q == [b EXCEPT ![h].last = x]
         IN  /\ List(q, first, H) /\ Spans(q, H, Without(M, x, b[h].last))
             /\ \A c \in Blocks : c # h => q[c] = b[c]
             /\ q[h].last = x
<1> DEFINE q == [b EXCEPT ![h].last = x]
<1>1. b = [c \in Blocks |-> b[c]] /\ h \in Blocks /\ h \in Nat
  BY ListIs DEF List, Forward
<1>2. q = [c \in Blocks |-> IF c = h THEN [b[h] EXCEPT !.last = x] ELSE b[c]]
  BY <1>1
<1>3. /\ \A c \in Blocks : c # h => q[c] = b[c]
      /\ q[h] = [b[h] EXCEPT !.last = x]
  BY <1>1, <1>2
<1>4. b[h] \in Descriptors /\ IsHole(b, h)
  BY ListIs
<1>5. q[h] \in Descriptors /\ q[h].last = x /\ q[h].next = b[h].next /\ q[h].prev = b[h].prev
      /\ IsHole(q, h)
  <2>1. PICK r \in Descriptors : r = b[h]
    BY <1>4
  <2>2. q[h] = [r EXCEPT !.last = x]
    BY <1>3, <2>1
  <2>3. /\ [r EXCEPT !.last = x] \in Descriptors /\ [r EXCEPT !.last = x].last = x
        /\ [r EXCEPT !.last = x].next = r.next /\ [r EXCEPT !.last = x].prev = r.prev
    BY DescriptorIs
  <2>4. q[h] \in Descriptors /\ q[h].last = x /\ q[h].next = b[h].next /\ q[h].prev = b[h].prev
    <3> HIDE DEF q
    <3> QED BY <2>1, <2>2, <2>3
  <2>5. IsHole(q, h)
    <3> HIDE DEF q
    <3> QED BY <2>4 DEF Descriptors, IsHole
  <2> QED
    BY <2>4, <2>5
<1>6. q = [c \in Blocks |-> q[c]]
  BY <1>2
<1> HIDE DEF q
<1>7. Forward(q)
  BY <1>3, <1>4, <1>5, <1>6 DEF List, Forward, IsHole
<1>8. \A c \in H : q[c].next = b[c].next /\ q[c].prev = b[c].prev /\ IsHole(q, c)
                   /\ (c # h => q[c].last = b[c].last)
  <2>1. \A c \in H : c \in Blocks /\ IsHole(b, c)
    BY ListIs
  <2> QED
    BY <1>3, <1>5, <2>1 DEF IsHole
<1>9. Linked(q, first, H)
  BY <1>8 DEF List, Linked
<1>10. Gaps(q, H)
  <2>1. \A c \in H : At(c) < q[c].last /\ q[c].last <= ENDLESS
    <3>1. /\ b[h].last <= ENDLESS /\ b[h].last \in Nat /\ ENDLESS \in Nat
          /\ \A c \in H : At(c) < b[c].last /\ b[c].last <= ENDLESS
      BY ListIs DEF ENDLESS
    <3>2. At(h) < q[h].last /\ q[h].last <= ENDLESS
      BY <1>5, <3>1
    <3> QED
      BY <1>8, <3>1, <3>2
  <2>2. \A c, e \in H : c < e => q[c].last < At(e)
    BY <1>5, <1>8, ListIs
  <2> QED
    BY <1>8, <2>1, <2>2 DEF Gaps
<1>11. Spans(q, H, Without(M, x, b[h].last))
  <2> SUFFICES ASSUME NEW p \in 0 .. ENDLESS - 1
               PROVE  p \in Without(M, x, b[h].last) <=>
                      \E c \in H : At(c) <= p /\ p < q[c].last
    BY DEF Spans
  <2>0. p \in Nat
    BY ByteIs
  <2>1. p \in M <=> \E c \in H : At(c) <= p /\ p < b[c].last
    BY DEF Spans
  <2>2. p \in Without(M, x, b[h].last) <=> p \in M /\ ~(x <= p /\ p < b[h].last)
    BY DEF Without
  <2>3. ASSUME NEW c \in H, c # h, At(c) <= p, p < b[c].last
        PROVE  ~(x <= p /\ p < b[h].last)
    <3>1. c < h \/ h < c
      BY <1>1, <2>3, ListIs
    <3> QED
      BY <2>0, <2>3, <3>1, ListIs
  <2> QED
    BY <1>5, <1>8, <2>0, <2>1, <2>2, <2>3, ListIs
<1> QED
  BY <1>3, <1>5, <1>7, <1>9, <1>10, <1>11 DEF q, List

\* Nothing of a hole is left.
LEMMA Remove ==
  ASSUME NEW b, NEW first, NEW H, NEW M \in SUBSET Nat, NEW h \in H,
         List(b, first, H), Spans(b, H, M)
  PROVE  Leaves(b, M, RemoveHole(b, first, h), H \ {h}, Without(M, At(h), b[h].last))
<1>1. PICK n \in Nat : n = b[h].next
  BY ListIs
<1>2. PICK p \in Nat : p = b[h].prev
  BY ListIs
<1> DEFINE q == [c \in Blocks |->
                    IF c = n /\ n # 0 THEN [b[c] EXCEPT !.prev = p]
                    ELSE IF c = p /\ p # 0 THEN [b[c] EXCEPT !.next = n]
                    ELSE b[c]]
           first2 == IF p = 0 /\ n # 0 THEN n ELSE first
           K == H \ {h}
<1>3. /\ RemoveHole(b, first, h).buf = q
      /\ RemoveHole(b, first, h).first = first2
      /\ RemoveHole(b, first, h).links = {n, p} \ {0}
      /\ RemoveHole(b, first, h).done = (p = 0 /\ n = 0)
  BY <1>1, <1>2, Zenon DEF RemoveHole
<1>4. /\ n # 0 => n \in H /\ h < n /\ n \in Blocks
      /\ p # 0 => p \in H /\ p < h /\ p \in Blocks
      /\ NextIs(H, h, n) /\ PrevIs(H, h, p) /\ h \in Nat
  BY <1>1, <1>2, ListIs
<1>5. \A c \in Blocks : /\ c # n /\ c # p => q[c] = b[c]
                        /\ c = n /\ n # 0 => q[c] = [b[c] EXCEPT !.prev = p]
                        /\ c = p /\ p # 0 => q[c] = [b[c] EXCEPT !.next = n]
                        /\ c = 0 => q[c] = b[c]
  BY <1>4
<1>6. q = [c \in Blocks |-> q[c]]
  OBVIOUS
<1> HIDE DEF q
<1>7. n # 0 => /\ q[n] \in Descriptors /\ q[n].last = b[n].last
               /\ q[n].next = b[n].next /\ q[n].prev = p
  <2> SUFFICES ASSUME n # 0 PROVE /\ q[n] \in Descriptors /\ q[n].last = b[n].last
                                  /\ q[n].next = b[n].next /\ q[n].prev = p
    OBVIOUS
  <2>1. PICK r \in Descriptors : r = b[n]
    BY <1>4, ListIs
  <2>2. q[n] = [r EXCEPT !.prev = p]
    BY <1>4, <1>5, <2>1
  <2>3. LET k == [r EXCEPT !.prev = p]
        IN  k \in Descriptors /\ k.last = r.last /\ k.next = r.next /\ k.prev = p
    BY DescriptorIs
  <2> QED
    BY <2>1, <2>2, <2>3
<1>8. p # 0 => /\ q[p] \in Descriptors /\ q[p].last = b[p].last
               /\ q[p].next = n /\ q[p].prev = b[p].prev
  <2> SUFFICES ASSUME p # 0 PROVE /\ q[p] \in Descriptors /\ q[p].last = b[p].last
                                  /\ q[p].next = n /\ q[p].prev = b[p].prev
    OBVIOUS
  <2>1. PICK r \in Descriptors : r = b[p]
    BY <1>4, ListIs
  <2>2. q[p] = [r EXCEPT !.next = n]
    BY <1>4, <1>5, <2>1
  <2>3. LET k == [r EXCEPT !.next = n]
        IN  k \in Descriptors /\ k.last = r.last /\ k.next = n /\ k.prev = r.prev
    BY DescriptorIs
  <2> QED
    BY <2>1, <2>2, <2>3
<1>9. \A c \in H : /\ IsHole(q, c) /\ q[c].last = b[c].last
                   /\ q[c].next = IF c = p /\ p # 0 THEN n ELSE b[c].next
                   /\ q[c].prev = IF c = n /\ n # 0 THEN p ELSE b[c].prev
  <2> SUFFICES ASSUME NEW c \in H
               PROVE  /\ IsHole(q, c) /\ q[c].last = b[c].last
                      /\ q[c].next = IF c = p /\ p # 0 THEN n ELSE b[c].next
                      /\ q[c].prev = IF c = n /\ n # 0 THEN p ELSE b[c].prev
    OBVIOUS
  <2>0. c \in Blocks /\ IsHole(b, c) /\ c \in Nat
    BY ListIs
  <2>1. CASE c = p /\ p # 0
    <3>1. (q[c] \in Descriptors /\ c # n) \/ n = 0
      BY <1>4, <1>8, <2>1
    <3>2. q[c].kind = "hole"
      BY <1>8, <2>1 DEF Descriptors
    <3> QED
      BY <1>4, <1>8, <2>1, <3>1, <3>2 DEF IsHole
  <2>2. CASE c = n /\ n # 0
    <3>1. c # p \/ p = 0
      BY <1>4, <2>2
    <3>2. q[c].kind = "hole"
      BY <1>7, <2>2 DEF Descriptors
    <3> QED
      BY <1>7, <2>2, <3>1, <3>2 DEF IsHole
  <2>3. CASE ~(c = p /\ p # 0) /\ ~(c = n /\ n # 0)
    <3>1. q[c] = b[c]
      BY <1>5, <2>0, <2>3
    <3> QED
      BY <2>0, <2>3, <3>1 DEF IsHole
  <2> QED
    BY <2>1, <2>2, <2>3
<1>10. Forward(q)
  <2> SUFFICES ASSUME NEW c \in Blocks, IsHole(q, c)
               PROVE  /\ q[c] \in Descriptors
                      /\ q[c].next = 0 \/ (q[c].next \in Blocks /\ c < q[c].next)
    BY <1>6 DEF Forward
  <2>1. CASE c = p /\ p # 0
    BY <1>4, <1>8, <2>1
  <2>2. CASE c = n /\ n # 0
    BY <1>4, <1>7, <2>2, ListIs
  <2>3. CASE q[c] = b[c]
    BY <2>3 DEF List, Forward, IsHole
  <2> QED
    BY <1>5, <2>1, <2>2, <2>3
<1>11. (p = 0 /\ n = 0) <=> K = {}
  <2>1. ASSUME p = 0, n = 0, NEW c \in K PROVE FALSE
    <3>1. c \in Nat /\ c <= h /\ h <= c /\ c # h
      BY <1>4, <2>1, ListIs DEF NextIs, PrevIs
    <3> QED
      BY <1>4, <3>1
  <2>2. ASSUME K = {} PROVE p = 0 /\ n = 0
    BY <1>4, <2>2
  <2> QED
    BY <2>1, <2>2
<1>12. ASSUME K # {} PROVE Linked(q, first2, K)
  <2>1. K \in SUBSET Blocks /\ (0 \in K => K = {0}) /\ K \subseteq H
    BY ListIs
  <2>2. first2 \in K /\ \A c \in K : first2 <= c
    <3>1. CASE p = 0
      <4>1. n # 0
        BY <1>11, <1>12, <3>1
      <4> QED
        BY <1>4, <3>1, <4>1, ListIs DEF NextIs, PrevIs
    <3>2. CASE p # 0
      <4>1. first \in H /\ first <= p /\ first # h
        BY <1>4, <3>2, ListIs
      <4> QED
        BY <3>2, <4>1, ListIs
    <3> QED
      BY <3>1, <3>2
  <2>3. ASSUME NEW c \in K PROVE NextIs(K, c, q[c].next)
    <3>0. c \in H /\ c # h /\ c \in Nat
      BY ListIs
    <3>1. CASE c = p /\ p # 0
      <4>1. q[c].next = n
        BY <1>9, <3>0, <3>1
      <4>2. CASE n = 0
        <5>1. \A e \in K : e <= c
          BY <1>4, <3>0, <3>1, <4>2, ListIs DEF NextIs, PrevIs
        <5> QED
          BY <4>1, <4>2, <5>1 DEF NextIs
      <4>3. CASE n # 0
        <5>1. n \in K /\ c < n
          BY <1>4, <3>0, <3>1, <4>3, ListIs
        <5>2. \A e \in K : e <= c \/ n <= e
          BY <1>4, <3>0, <3>1, <4>3, ListIs DEF NextIs, PrevIs
        <5> QED
          BY <4>1, <4>3, <5>1, <5>2 DEF NextIs
      <4> QED
        BY <4>2, <4>3
    <3>2. CASE ~(c = p /\ p # 0)
      <4>1. q[c].next = b[c].next /\ NextIs(H, c, b[c].next)
        BY <1>9, <3>0, <3>2, ListIs
      <4>2. b[c].next # 0 => b[c].next # h
        BY <1>4, <3>0, <3>2, ListIs DEF NextIs, PrevIs
      <4> QED
        BY <2>1, <4>1, <4>2 DEF NextIs
    <3> QED
      BY <3>1, <3>2
  <2>4. ASSUME NEW c \in K PROVE PrevIs(K, c, q[c].prev)
    <3>0. c \in H /\ c # h /\ c \in Nat
      BY ListIs
    <3>1. CASE c = n /\ n # 0
      <4>1. q[c].prev = p
        BY <1>9, <3>0, <3>1
      <4>2. CASE p = 0
        <5>1. \A e \in K : c <= e
          BY <1>4, <3>0, <3>1, <4>2, ListIs DEF NextIs, PrevIs
        <5> QED
          BY <4>1, <4>2, <5>1 DEF PrevIs
      <4>3. CASE p # 0
        <5>1. p \in K /\ p < c
          BY <1>4, <3>0, <3>1, <4>3, ListIs
        <5>2. \A e \in K : e <= p \/ c <= e
          BY <1>4, <3>0, <3>1, <4>3, ListIs DEF NextIs, PrevIs
        <5> QED
          BY <4>1, <4>3, <5>1, <5>2 DEF PrevIs
      <4> QED
        BY <4>2, <4>3
    <3>2. CASE ~(c = n /\ n # 0)
      <4>1. q[c].prev = b[c].prev /\ PrevIs(H, c, b[c].prev)
        BY <1>9, <3>0, <3>2, ListIs
      <4>2. b[c].prev # 0 => b[c].prev # h
        <5> SUFFICES ASSUME b[c].prev # 0, b[c].prev = h PROVE FALSE
          OBVIOUS
        <5>1. h < c /\ \A e \in H : e <= h \/ c <= e
          BY <4>1 DEF PrevIs
        <5>2. n # 0 /\ n \in H /\ n \in Nat /\ h < n /\ (c <= h \/ n <= c)
          BY <1>4, <3>0, <5>1 DEF NextIs
        <5> QED
          BY <1>4, <3>0, <3>2, <5>1, <5>2
      <4> QED
        BY <2>1, <4>1, <4>2 DEF PrevIs
    <3> QED
      BY <3>1, <3>2
  <2> HIDE DEF K, first2
  <2> QED
    BY <2>1, <2>2, <2>3, <2>4 DEF Linked
<1>13. Gaps(q, K)
  BY <1>9, ListIs DEF Gaps
<1>14. Spans(q, K, Without(M, At(h), b[h].last))
  <2> SUFFICES ASSUME NEW u \in 0 .. ENDLESS - 1
               PROVE  u \in Without(M, At(h), b[h].last) <=>
                      \E c \in K : At(c) <= u /\ u < q[c].last
    BY DEF Spans
  <2>0. u \in Nat
    BY ByteIs
  <2>1. u \in M <=> \E c \in H : At(c) <= u /\ u < b[c].last
    BY DEF Spans
  <2>2. u \in Without(M, At(h), b[h].last) <=> u \in M /\ ~(At(h) <= u /\ u < b[h].last)
    BY DEF Without
  <2>3. ASSUME NEW c \in H, c # h, At(c) <= u, u < b[c].last
        PROVE  ~(At(h) <= u /\ u < b[h].last)
    <3>1. c < h \/ h < c
      BY <1>4, <2>3, ListIs
    <3> QED
      BY <2>0, <2>3, <3>1, ListIs
  <2> QED
    BY <1>9, <2>0, <2>1, <2>2, <2>3
<1>15. \A c \in Blocks : At(c) \notin M => q[c] = b[c]
  <2>1. \A c \in H : At(c) \in M
    BY HeadMissing DEF List, Linked
  <2> QED
    BY <1>4, <1>5, <2>1
<1>16. \A c \in {n, p} \ {0} : IsHole(b, c)
  BY <1>4, ListIs
<1>17. first2 \in Blocks
  BY <1>4, ListIs
<1> HIDE DEF K, first2
<1>18. /\ RemoveHole(b, first, h).done = TRUE <=> K = {}
       /\ RemoveHole(b, first, h).done = FALSE \/ RemoveHole(b, first, h).done = TRUE
  BY <1>3, <1>11
<1>19. K \in SUBSET Blocks
  BY ListIs DEF K
<1>20. Leaves(b, M, RemoveHole(b, first, h), K, Without(M, At(h), b[h].last))
  BY <1>3, <1>10, <1>12, <1>13, <1>14, <1>15, <1>16, <1>17, <1>18, <1>19 DEF Leaves
<1> QED
  BY <1>20 DEF K

\* A hole begins at a later block.
LEMMA Move ==
  ASSUME NEW b, NEW first, NEW H, NEW M \in SUBSET Nat, NEW h \in H, NEW new \in Blocks,
         List(b, first, H), Spans(b, H, M), At(h) < At(new), At(new) < b[h].last
  PROVE  Leaves(b, M, MoveHole(b, first, h, new), (H \ {h}) \cup {new},
                Without(M, At(h), At(new)))
<1>1. PICK n \in Nat : n = b[h].next
  BY ListIs
<1>2. PICK p \in Nat : p = b[h].prev
  BY ListIs
<1> DEFINE q == [c \in Blocks |->
                    IF c = new THEN b[h]
                    ELSE IF c = n /\ n # 0 THEN [b[c] EXCEPT !.prev = new]
                    ELSE IF c = p /\ p # 0 THEN [b[c] EXCEPT !.next = new]
                    ELSE b[c]]
           first2 == IF p = 0 THEN new ELSE first
           K == (H \ {h}) \cup {new}
<1>3. /\ MoveHole(b, first, h, new).buf = q
      /\ MoveHole(b, first, h, new).first = first2
      /\ MoveHole(b, first, h, new).links = {n, p} \ {0}
      /\ MoveHole(b, first, h, new).done = FALSE
  BY <1>1, <1>2, Zenon DEF MoveHole
<1>4. /\ n # 0 => n \in H /\ h < n /\ n \in Blocks
      /\ p # 0 => p \in H /\ p < h /\ p \in Blocks
      /\ NextIs(H, h, n) /\ PrevIs(H, h, p) /\ h \in Nat
  BY <1>1, <1>2, ListIs
<1>5. new \in Nat /\ h < new /\ new # 0
  <2>1. new \in Nat
    BY BlocksAre
  <2>2. h < new
    BY <1>4, <2>1, AtIs
  <2> QED
    BY <1>4, <2>1, <2>2
<1>6. /\ new \notin H
      /\ \A c \in H : c # h => /\ c < h => c < new
                               /\ h < c => new < c
                               /\ c < h \/ h < c
  <2>1. ASSUME NEW c \in H, h < c PROVE new < c
    <3>1. b[h].last < At(c) /\ b[h].last \in Nat /\ At(c) \in Nat /\ c \in Nat /\ At(new) \in Nat
      BY <1>5, <2>1, ListIs, AtIs
    <3>2. At(new) < At(c)
      BY <3>1
    <3> QED
      BY <1>5, <3>1, <3>2, AtIs
  <2>2. \A c \in H : c \in Nat
    BY ListIs
  <2> QED
    BY <1>4, <1>5, <2>1, <2>2
<1>7. new # h /\ new # n /\ new # p
  BY <1>4, <1>5, <1>6
<1>8. \A c \in Blocks : /\ c # n /\ c # p /\ c # new => q[c] = b[c]
                        /\ c = new => q[c] = b[h]
                        /\ c = n /\ n # 0 => q[c] = [b[c] EXCEPT !.prev = new]
                        /\ c = p /\ p # 0 => q[c] = [b[c] EXCEPT !.next = new]
                        /\ c = 0 => q[c] = b[c]
  BY <1>4, <1>5, <1>7
<1>9. q = [c \in Blocks |-> q[c]]
  OBVIOUS
<1> HIDE DEF q
<1>10. n # 0 => /\ q[n] \in Descriptors /\ q[n].last = b[n].last
                /\ q[n].next = b[n].next /\ q[n].prev = new
  <2> SUFFICES ASSUME n # 0 PROVE /\ q[n] \in Descriptors /\ q[n].last = b[n].last
                                  /\ q[n].next = b[n].next /\ q[n].prev = new
    OBVIOUS
  <2>1. PICK r \in Descriptors : r = b[n]
    BY <1>4, ListIs
  <2>2. q[n] = [r EXCEPT !.prev = new]
    BY <1>4, <1>8, <2>1
  <2>3. LET k == [r EXCEPT !.prev = new]
        IN  k \in Descriptors /\ k.last = r.last /\ k.next = r.next /\ k.prev = new
    BY <1>5, DescriptorIs
  <2> QED
    BY <2>1, <2>2, <2>3
<1>11. p # 0 => /\ q[p] \in Descriptors /\ q[p].last = b[p].last
                /\ q[p].next = new /\ q[p].prev = b[p].prev
  <2> SUFFICES ASSUME p # 0 PROVE /\ q[p] \in Descriptors /\ q[p].last = b[p].last
                                  /\ q[p].next = new /\ q[p].prev = b[p].prev
    OBVIOUS
  <2>1. PICK r \in Descriptors : r = b[p]
    BY <1>4, ListIs
  <2>2. q[p] = [r EXCEPT !.next = new]
    BY <1>4, <1>8, <2>1
  <2>3. LET k == [r EXCEPT !.next = new]
        IN  k \in Descriptors /\ k.last = r.last /\ k.next = new /\ k.prev = r.prev
    BY <1>5, DescriptorIs
  <2> QED
    BY <2>1, <2>2, <2>3
<1>12. /\ q[new] \in Descriptors /\ q[new].last = b[h].last /\ q[new].next = n /\ q[new].prev = p
       /\ IsHole(q, new)
  <2>1. q[new] = b[h] /\ b[h] \in Descriptors /\ IsHole(b, h)
    BY <1>8, ListIs
  <2> QED
    BY <1>1, <1>2, <2>1 DEF IsHole
<1>13. \A c \in H : c # h =>
                   /\ IsHole(q, c) /\ q[c].last = b[c].last
                   /\ q[c].next = IF c = p /\ p # 0 THEN new ELSE b[c].next
                   /\ q[c].prev = IF c = n /\ n # 0 THEN new ELSE b[c].prev
  <2> SUFFICES ASSUME NEW c \in H, c # h
               PROVE  /\ IsHole(q, c) /\ q[c].last = b[c].last
                      /\ q[c].next = IF c = p /\ p # 0 THEN new ELSE b[c].next
                      /\ q[c].prev = IF c = n /\ n # 0 THEN new ELSE b[c].prev
    OBVIOUS
  <2>0. c \in Blocks /\ IsHole(b, c) /\ c \in Nat /\ c # new
    BY <1>6, ListIs
  <2>1. CASE c = p /\ p # 0
    <3>1. c # n \/ n = 0
      BY <1>4, <2>1
    <3>2. q[c].kind = "hole"
      BY <1>11, <2>1 DEF Descriptors
    <3> QED
      BY <1>11, <2>1, <3>1, <3>2 DEF IsHole
  <2>2. CASE c = n /\ n # 0
    <3>1. c # p \/ p = 0
      BY <1>4, <2>2
    <3>2. q[c].kind = "hole"
      BY <1>10, <2>2 DEF Descriptors
    <3> QED
      BY <1>10, <2>2, <3>1, <3>2 DEF IsHole
  <2>3. CASE ~(c = p /\ p # 0) /\ ~(c = n /\ n # 0)
    <3>1. q[c] = b[c]
      BY <1>8, <2>0, <2>3
    <3> QED
      BY <2>0, <2>3, <3>1 DEF IsHole
  <2> QED
    BY <2>1, <2>2, <2>3
<1>14. Forward(q)
  <2> SUFFICES ASSUME NEW c \in Blocks, IsHole(q, c)
               PROVE  /\ q[c] \in Descriptors
                      /\ q[c].next = 0 \/ (q[c].next \in Blocks /\ c < q[c].next)
    BY <1>9 DEF Forward
  <2>1. CASE c = p /\ p # 0
    BY <1>4, <1>5, <1>11, <2>1
  <2>2. CASE c = n /\ n # 0
    BY <1>4, <1>10, <2>2, ListIs
  <2>3. CASE q[c] = b[c]
    BY <2>3 DEF List, Forward, IsHole
  <2>4. CASE c = new
    BY <1>4, <1>6, <1>12, <2>4
  <2> QED
    BY <1>8, <2>1, <2>2, <2>3, <2>4
<1>15. Linked(q, first2, K)
  <2>1. K \in SUBSET Blocks /\ 0 \notin K
    BY <1>5, ListIs
  <2>2. first2 \in K /\ \A c \in K : first2 <= c
    <3>1. CASE p = 0
      <4>1. \A c \in H : c # h => h < c
        BY <1>4, <1>6, <3>1, ListIs DEF PrevIs
      <4>2. \A c \in H : c # h => new <= c
        BY <1>5, <1>6, <4>1, ListIs
      <4> QED
        BY <1>5, <3>1, <4>2
    <3>2. CASE p # 0
      <4>1. first \in H /\ first <= p /\ first # h /\ first <= h /\ first \in Nat
        BY <1>4, <3>2, ListIs
      <4> QED
        BY <1>4, <1>5, <3>2, <4>1, ListIs
    <3> QED
      BY <3>1, <3>2
  <2>3. ASSUME NEW c \in K PROVE NextIs(K, c, q[c].next)
    <3>1. CASE c = new
      <4>1. q[c].next = n
        BY <1>12, <3>1
      <4>2. CASE n = 0
        <5>1. \A e \in H : e <= h
          BY <1>4, <4>2 DEF NextIs
        <5>2. \A e \in K : e <= c
          BY <1>4, <1>5, <1>6, <3>1, <5>1, ListIs
        <5> QED
          BY <4>1, <4>2, <5>2 DEF NextIs
      <4>3. CASE n # 0
        <5>1. n \in K /\ c < n
          BY <1>4, <1>6, <3>1, <4>3
        <5>2. \A e \in H : e <= h \/ n <= e
          BY <1>4, <4>3 DEF NextIs
        <5>3. \A e \in K : e <= c \/ n <= e
          BY <1>4, <1>5, <1>6, <3>1, <4>3, <5>2, ListIs
        <5> QED
          BY <4>1, <4>3, <5>1, <5>3 DEF NextIs
      <4> QED
        BY <4>2, <4>3
    <3>2. CASE c # new /\ c = p /\ p # 0
      <4>1. q[c].next = new
        BY <1>11, <3>2
      <4>2. \A e \in H : e <= c \/ h <= e
        BY <1>4, <3>2 DEF PrevIs
      <4>3. \A e \in K : e <= c \/ new <= e
        BY <1>4, <1>5, <1>6, <3>2, <4>2, ListIs
      <4>4. c < new
        BY <1>4, <1>6, <3>2
      <4> QED
        BY <1>5, <4>1, <4>3, <4>4 DEF NextIs
    <3>3. CASE c # new /\ ~(c = p /\ p # 0)
      <4>0. c \in H /\ c # h /\ c \in Nat
        BY <3>3, ListIs
      <4>1. q[c].next = b[c].next /\ NextIs(H, c, b[c].next)
        BY <1>13, <3>3, <4>0, ListIs
      <4>2. PICK k : k = b[c].next
        OBVIOUS
      <4>3. CASE k = 0
        <5>1. \A e \in H : e <= c
          BY <4>1, <4>2, <4>3 DEF NextIs
        <5>2. \A e \in K : e <= c
          BY <1>4, <1>5, <1>6, <4>0, <5>1, ListIs
        <5> QED
          BY <4>1, <4>2, <4>3, <5>2 DEF NextIs
      <4>4. CASE k # 0
        <5>1. k \in H /\ c < k /\ k \in Nat /\ \A e \in H : e <= c \/ k <= e
          BY <4>1, <4>2, <4>4, ListIs DEF NextIs
        <5>2. k # h
          <6> SUFFICES ASSUME k = h PROVE FALSE
            OBVIOUS
          <6>1. p # 0 /\ p \in H /\ p \in Nat /\ (c <= p \/ h <= c) /\ p < h
            BY <1>4, <4>0, <5>1, ListIs DEF PrevIs
          <6> QED
            BY <1>4, <3>3, <4>0, <5>1, <6>1
        <5>3. new <= c \/ k <= new
          BY <1>4, <1>5, <1>6, <4>0, <5>1, <5>2
        <5>4. \A e \in K : e <= c \/ k <= e
          BY <5>1, <5>3
        <5> QED
          BY <4>1, <4>2, <4>4, <5>1, <5>2, <5>4 DEF NextIs
      <4> QED
        BY <4>3, <4>4
    <3> QED
      BY <3>1, <3>2, <3>3
  <2>4. ASSUME NEW c \in K PROVE PrevIs(K, c, q[c].prev)
    <3>1. CASE c = new
      <4>1. q[c].prev = p
        BY <1>12, <3>1
      <4>2. CASE p = 0
        <5>1. \A e \in H : h <= e
          BY <1>4, <4>2 DEF PrevIs
        <5>2. \A e \in K : c <= e
          BY <1>4, <1>5, <1>6, <3>1, <5>1, ListIs
        <5> QED
          BY <4>1, <4>2, <5>2 DEF PrevIs
      <4>3. CASE p # 0
        <5>1. p \in K /\ p < c
          BY <1>4, <1>6, <3>1, <4>3
        <5>2. \A e \in H : e <= p \/ h <= e
          BY <1>4, <4>3 DEF PrevIs
        <5>3. \A e \in K : e <= p \/ c <= e
          BY <1>4, <1>5, <1>6, <3>1, <4>3, <5>2, ListIs
        <5> QED
          BY <4>1, <4>3, <5>1, <5>3 DEF PrevIs
      <4> QED
        BY <4>2, <4>3
    <3>2. CASE c # new /\ c = n /\ n # 0
      <4>1. q[c].prev = new
        BY <1>10, <3>2
      <4>2. \A e \in H : e <= h \/ c <= e
        BY <1>4, <3>2 DEF NextIs
      <4>3. \A e \in K : e <= new \/ c <= e
        BY <1>4, <1>5, <1>6, <3>2, <4>2, ListIs
      <4>4. new < c
        BY <1>4, <1>6, <3>2
      <4> QED
        BY <1>5, <4>1, <4>3, <4>4 DEF PrevIs
    <3>3. CASE c # new /\ ~(c = n /\ n # 0)
      <4>0. c \in H /\ c # h /\ c \in Nat
        BY <3>3, ListIs
      <4>1. q[c].prev = b[c].prev /\ PrevIs(H, c, b[c].prev)
        BY <1>13, <3>3, <4>0, ListIs
      <4>2. PICK k : k = b[c].prev
        OBVIOUS
      <4>3. CASE k = 0
        <5>1. \A e \in H : c <= e
          BY <4>1, <4>2, <4>3 DEF PrevIs
        <5>2. \A e \in K : c <= e
          BY <1>4, <1>5, <1>6, <4>0, <5>1, ListIs
        <5> QED
          BY <4>1, <4>2, <4>3, <5>2 DEF PrevIs
      <4>4. CASE k # 0
        <5>1. k \in H /\ k < c /\ k \in Nat /\ \A e \in H : e <= k \/ c <= e
          BY <4>1, <4>2, <4>4, ListIs DEF PrevIs
        <5>2. k # h
          <6> SUFFICES ASSUME k = h PROVE FALSE
            OBVIOUS
          <6>1. n # 0 /\ n \in H /\ n \in Nat /\ (c <= h \/ n <= c) /\ h < n
            BY <1>4, <4>0, <5>1, ListIs DEF NextIs
          <6> QED
            BY <1>4, <3>3, <4>0, <5>1, <6>1
        <5>3. new <= k \/ c <= new
          BY <1>4, <1>5, <1>6, <4>0, <5>1, <5>2
        <5>4. \A e \in K : e <= k \/ c <= e
          BY <5>1, <5>3
        <5> QED
          BY <4>1, <4>2, <4>4, <5>1, <5>2, <5>4 DEF PrevIs
      <4> QED
        BY <4>3, <4>4
    <3> QED
      BY <3>1, <3>2, <3>3
  <2> HIDE DEF K, first2
  <2> QED
    BY <2>1, <2>2, <2>3, <2>4 DEF Linked
<1>16. Gaps(q, K)
  <2>1. \A c \in H : c # h => /\ IsHole(q, c) /\ At(c) < q[c].last /\ q[c].last <= ENDLESS
                              /\ q[c].last = b[c].last
    BY <1>13, ListIs
  <2>2. IsHole(q, new) /\ At(new) < q[new].last /\ q[new].last <= ENDLESS
    BY <1>12, ListIs
  <2>3. ASSUME NEW c \in K, NEW e \in K, c < e PROVE q[c].last < At(e)
    <3>1. CASE c = new
      <4>1. e \in H /\ e # h /\ h < e
        BY <1>4, <1>5, <1>6, <2>3, <3>1
      <4> QED
        BY <1>12, <3>1, <4>1, ListIs
    <3>2. CASE c # new /\ e = new
      <4>1. c \in H /\ c # h /\ c < h
        BY <1>4, <1>5, <1>6, <2>3, <3>2, ListIs
      <4>2. b[c].last < At(h) /\ b[c].last \in Nat /\ At(h) \in Nat /\ At(new) \in Nat
        BY <1>5, <4>1, ListIs, AtIs
      <4> QED
        BY <2>1, <3>2, <4>1, <4>2
    <3>3. CASE c # new /\ e # new
      BY <2>1, <2>3, <3>3, ListIs
    <3> QED
      BY <3>1, <3>2, <3>3
  <2> QED
    BY <2>1, <2>2, <2>3 DEF Gaps
<1>17. Spans(q, K, Without(M, At(h), At(new)))
  <2> SUFFICES ASSUME NEW u \in 0 .. ENDLESS - 1
               PROVE  u \in Without(M, At(h), At(new)) <=>
                      \E c \in K : At(c) <= u /\ u < q[c].last
    BY DEF Spans
  <2>0. u \in Nat /\ At(h) \in Nat /\ At(new) \in Nat /\ b[h].last \in Nat
    <3>1. u \in Nat
      BY ByteIs
    <3>2. At(new) \in Nat
      BY <1>5, AtIs
    <3> QED
      BY <3>1, <3>2, ListIs
  <2>1. u \in M <=> \E c \in H : At(c) <= u /\ u < b[c].last
    BY DEF Spans
  <2>2. u \in Without(M, At(h), At(new)) <=> u \in M /\ ~(At(h) <= u /\ u < At(new))
    BY DEF Without
  <2>3. ASSUME NEW c \in H, c # h, At(c) <= u, u < b[c].last
        PROVE  ~(At(h) <= u /\ u < b[h].last)
    <3>1. c < h \/ h < c
      BY <1>6, <2>3
    <3> QED
      BY <2>0, <2>3, <3>1, ListIs
  <2>4. ASSUME u \in M, ~(At(h) <= u /\ u < At(new))
        PROVE  \E c \in K : At(c) <= u /\ u < q[c].last
    <3>1. PICK c \in H : At(c) <= u /\ u < b[c].last
      BY <2>1, <2>4
    <3>2. CASE c = h
      BY <1>12, <2>0, <2>4, <3>1, <3>2
    <3>3. CASE c # h
      BY <1>13, <3>1, <3>3
    <3> QED
      BY <3>2, <3>3
  <2>5. ASSUME NEW c \in K, At(c) <= u, u < q[c].last
        PROVE  u \in M /\ ~(At(h) <= u /\ u < At(new))
    <3>1. CASE c = new
      <4>1. At(new) <= u /\ u < b[h].last
        BY <1>12, <2>5, <3>1
      <4>2. At(h) <= u
        BY <2>0, <4>1
      <4> QED
        BY <2>0, <2>1, <4>1, <4>2
    <3>2. CASE c # new
      <4>1. c \in H /\ c # h /\ u < b[c].last
        BY <1>13, <2>5, <3>2
      <4> QED
        BY <2>0, <2>1, <2>3, <2>5, <4>1
    <3> QED
      BY <3>1, <3>2
  <2> HIDE DEF K
  <2> QED
    BY <2>2, <2>4, <2>5
<1>18. \A c \in Blocks : At(c) \notin M => q[c] = b[c]
  <2>1. \A c \in H : At(c) \in M
    BY HeadMissing DEF List, Linked
  <2>2. At(new) \in M
    <3>1. /\ At(new) \in Nat /\ b[h].last \in Nat /\ b[h].last <= ENDLESS /\ ENDLESS \in Nat
          /\ At(h) \in Nat
      BY <1>5, ListIs, AtIs DEF ENDLESS
    <3>2. At(new) \in 0 .. ENDLESS - 1 /\ At(h) <= At(new)
      BY <3>1
    <3> QED
      BY <3>2 DEF Spans
  <2> QED
    BY <1>4, <1>8, <2>1, <2>2
<1>19. \A c \in {n, p} \ {0} : IsHole(b, c)
  BY <1>4, ListIs
<1>20. K \in SUBSET Blocks /\ K # {} /\ first2 \in Blocks
  BY ListIs
<1> HIDE DEF K, first2
<1>21. Leaves(b, M, MoveHole(b, first, h, new), K, Without(M, At(h), At(new)))
  BY <1>3, <1>14, <1>15, <1>16, <1>17, <1>18, <1>19, <1>20 DEF Leaves
<1> QED
  BY <1>21 DEF K

\* A fragment in the middle of a hole leaves two.
LEMMA Split ==
  ASSUME NEW b, NEW first, NEW H, NEW M \in SUBSET Nat, NEW h \in H, NEW new \in Blocks,
         NEW s \in Nat, h # 0,
         List(b, first, H), Spans(b, H, M),
         At(h) < s, s < At(new), At(new) < b[h].last
  PROVE  Leaves(b, M, SplitHole(b, first, h, new, s), H \cup {new}, Without(M, s, At(new)))
<1>1. PICK n \in Nat : n = b[h].next
  BY ListIs
<1> DEFINE q == [c \in Blocks |->
                    IF c = new THEN [b[h] EXCEPT !.prev = h]
                    ELSE IF c = h THEN [b[h] EXCEPT !.last = s, !.next = new]
                    ELSE IF c = n /\ n # 0 THEN [b[c] EXCEPT !.prev = new]
                    ELSE b[c]]
           K == H \cup {new}
<1>3. /\ SplitHole(b, first, h, new, s).buf = q
      /\ SplitHole(b, first, h, new, s).first = first
      /\ SplitHole(b, first, h, new, s).links = {n} \ {0}
      /\ SplitHole(b, first, h, new, s).done = FALSE
  BY <1>1, Zenon DEF SplitHole
<1>4. /\ n # 0 => n \in H /\ h < n /\ n \in Blocks
      /\ NextIs(H, h, n) /\ h \in Nat /\ h \in Blocks
  BY <1>1, ListIs
<1>5. new \in Nat /\ h < new /\ new # 0 /\ At(new) \in Nat /\ At(h) < At(new) /\ At(h) \in Nat
  <2>1. new \in Nat /\ At(new) \in Nat /\ At(h) \in Nat
    BY <1>4, BlocksAre, AtIs
  <2>2. At(h) < At(new)
    BY <2>1
  <2>3. h < new
    BY <1>4, <2>1, <2>2, AtIs
  <2> QED
    BY <1>4, <2>1, <2>2, <2>3
<1>6. /\ new \notin H
      /\ \A c \in H : c # h => /\ c < h => c < new
                               /\ h < c => new < c
                               /\ c < h \/ h < c
  <2>1. ASSUME NEW c \in H, h < c PROVE new < c
    <3>1. b[h].last < At(c) /\ b[h].last \in Nat /\ At(c) \in Nat /\ c \in Nat
      BY <2>1, ListIs
    <3>2. At(new) < At(c)
      BY <1>5, <3>1
    <3> QED
      BY <1>5, <3>1, <3>2, AtIs
  <2>2. \A c \in H : c \in Nat
    BY ListIs
  <2> QED
    BY <1>4, <1>5, <2>1, <2>2
<1>7. new # h /\ new # n
  BY <1>4, <1>5, <1>6
<1>8. \A c \in Blocks : /\ c # n /\ c # h /\ c # new => q[c] = b[c]
                        /\ c = new => q[c] = [b[h] EXCEPT !.prev = h]
                        /\ c = h => q[c] = [b[h] EXCEPT !.last = s, !.next = new]
                        /\ c = n /\ n # 0 => q[c] = [b[c] EXCEPT !.prev = new]
                        /\ c = 0 => q[c] = b[c]
  BY <1>4, <1>5, <1>7
<1>9. q = [c \in Blocks |-> q[c]]
  OBVIOUS
<1> HIDE DEF q
<1>10. n # 0 => /\ q[n] \in Descriptors /\ q[n].last = b[n].last
                /\ q[n].next = b[n].next /\ q[n].prev = new
  <2> SUFFICES ASSUME n # 0 PROVE /\ q[n] \in Descriptors /\ q[n].last = b[n].last
                                  /\ q[n].next = b[n].next /\ q[n].prev = new
    OBVIOUS
  <2>1. PICK r \in Descriptors : r = b[n]
    BY <1>4, ListIs
  <2>2. q[n] = [r EXCEPT !.prev = new]
    BY <1>4, <1>8, <2>1
  <2>3. LET k == [r EXCEPT !.prev = new]
        IN  k \in Descriptors /\ k.last = r.last /\ k.next = r.next /\ k.prev = new
    BY <1>5, DescriptorIs
  <2> QED
    BY <2>1, <2>2, <2>3
<1>11. PICK o \in Descriptors : o = b[h]
  BY ListIs
<1>12. /\ q[new] \in Descriptors /\ q[new].last = b[h].last /\ q[new].next = n /\ q[new].prev = h
       /\ IsHole(q, new)
  <2>1. q[new] = [o EXCEPT !.prev = h]
    BY <1>8, <1>11
  <2>2. LET k == [o EXCEPT !.prev = h]
        IN  k \in Descriptors /\ k.last = o.last /\ k.next = o.next /\ k.prev = h /\ k.kind = "hole"
    BY <1>4 DEF Descriptors
  <2> QED
    BY <1>1, <1>11, <2>1, <2>2 DEF IsHole
<1>13. /\ q[h] \in Descriptors /\ q[h].last = s /\ q[h].next = new /\ q[h].prev = b[h].prev
       /\ IsHole(q, h)
  <2>1. q[h] = [o EXCEPT !.last = s, !.next = new]
    BY <1>4, <1>8, <1>11
  <2>2. LET k == [o EXCEPT !.last = s, !.next = new]
        IN  k \in Descriptors /\ k.last = s /\ k.next = new /\ k.prev = o.prev /\ k.kind = "hole"
    BY <1>5 DEF Descriptors
  <2> QED
    BY <1>11, <2>1, <2>2 DEF IsHole
<1>14. \A c \in H : c # h =>
                   /\ IsHole(q, c) /\ q[c].last = b[c].last /\ q[c].next = b[c].next
                   /\ q[c].prev = IF c = n /\ n # 0 THEN new ELSE b[c].prev
  <2> SUFFICES ASSUME NEW c \in H, c # h
               PROVE  /\ IsHole(q, c) /\ q[c].last = b[c].last /\ q[c].next = b[c].next
                      /\ q[c].prev = IF c = n /\ n # 0 THEN new ELSE b[c].prev
    OBVIOUS
  <2>0. c \in Blocks /\ IsHole(b, c) /\ c \in Nat /\ c # new
    BY <1>6, ListIs
  <2>2. CASE c = n /\ n # 0
    <3>2. q[c].kind = "hole"
      BY <1>10, <2>2 DEF Descriptors
    <3> QED
      BY <1>10, <2>2, <3>2 DEF IsHole
  <2>3. CASE ~(c = n /\ n # 0)
    <3>1. q[c] = b[c]
      BY <1>8, <2>0, <2>3
    <3> QED
      BY <2>0, <2>3, <3>1 DEF IsHole
  <2> QED
    BY <2>2, <2>3
<1>15. Forward(q)
  <2> SUFFICES ASSUME NEW c \in Blocks, IsHole(q, c)
               PROVE  /\ q[c] \in Descriptors
                      /\ q[c].next = 0 \/ (q[c].next \in Blocks /\ c < q[c].next)
    BY <1>9 DEF Forward
  <2>1. CASE c = h
    BY <1>5, <1>13, <2>1
  <2>2. CASE c = n /\ n # 0
    BY <1>4, <1>10, <2>2, ListIs
  <2>3. CASE q[c] = b[c]
    BY <2>3 DEF List, Forward, IsHole
  <2>4. CASE c = new
    BY <1>4, <1>6, <1>12, <2>4
  <2> QED
    BY <1>8, <2>1, <2>2, <2>3, <2>4
<1>16. Linked(q, first, K)
  <2>1. K \in SUBSET Blocks /\ 0 \notin K
    BY <1>5, ListIs
  <2>2. first \in K /\ \A c \in K : first <= c
    <3>1. first \in Nat /\ first <= h
      BY ListIs
    <3>2. first <= new
      BY <1>4, <1>5, <3>1
    <3> QED
      BY <3>2, ListIs
  <2>3. ASSUME NEW c \in K PROVE NextIs(K, c, q[c].next)
    <3>1. CASE c = new
      <4>1. q[c].next = n
        BY <1>12, <3>1
      <4>2. CASE n = 0
        <5>1. \A e \in H : e <= h
          BY <1>4, <4>2 DEF NextIs
        <5>2. \A e \in K : e <= c
          BY <1>4, <1>5, <1>6, <3>1, <5>1, ListIs
        <5> QED
          BY <4>1, <4>2, <5>2 DEF NextIs
      <4>3. CASE n # 0
        <5>1. n \in K /\ c < n
          BY <1>4, <1>6, <3>1, <4>3
        <5>2. \A e \in H : e <= h \/ n <= e
          BY <1>4, <4>3 DEF NextIs
        <5>3. \A e \in K : e <= c \/ n <= e
          BY <1>4, <1>5, <1>6, <3>1, <4>3, <5>2, ListIs
        <5> QED
          BY <4>1, <4>3, <5>1, <5>3 DEF NextIs
      <4> QED
        BY <4>2, <4>3
    <3>2. CASE c = h
      <4>1. q[c].next = new
        BY <1>13, <3>2
      <4>3. \A e \in K : e <= c \/ new <= e
        BY <1>4, <1>5, <1>6, <3>2, ListIs
      <4> QED
        BY <1>5, <3>2, <4>1, <4>3 DEF NextIs
    <3>3. CASE c # new /\ c # h
      <4>0. c \in H /\ c # h /\ c \in Nat
        BY <3>3, ListIs
      <4>1. q[c].next = b[c].next /\ NextIs(H, c, b[c].next)
        BY <1>14, <4>0, ListIs
      <4>2. PICK k : k = b[c].next
        OBVIOUS
      <4>3. CASE k = 0
        <5>1. \A e \in H : e <= c
          BY <4>1, <4>2, <4>3 DEF NextIs
        <5>2. \A e \in K : e <= c
          BY <1>4, <1>5, <1>6, <4>0, <5>1, ListIs
        <5> QED
          BY <4>1, <4>2, <4>3, <5>2 DEF NextIs
      <4>4. CASE k # 0
        <5>1. k \in H /\ c < k /\ k \in Nat /\ \A e \in H : e <= c \/ k <= e
          BY <4>1, <4>2, <4>4, ListIs DEF NextIs
        <5>2. k <= h \/ h < c
          BY <1>4, <4>0, <5>1
        <5>3. new <= c \/ k <= new
          BY <1>4, <1>5, <1>6, <4>0, <5>1, <5>2
        <5>4. \A e \in K : e <= c \/ k <= e
          BY <5>1, <5>3
        <5> QED
          BY <4>1, <4>2, <4>4, <5>1, <5>2, <5>4 DEF NextIs
      <4> QED
        BY <4>3, <4>4
    <3> QED
      BY <3>1, <3>2, <3>3
  <2>4. ASSUME NEW c \in K PROVE PrevIs(K, c, q[c].prev)
    <3>1. CASE c = new
      <4>1. q[c].prev = h
        BY <1>12, <3>1
      <4>3. \A e \in K : e <= h \/ c <= e
        BY <1>4, <1>5, <1>6, <3>1, ListIs
      <4> QED
        BY <1>5, <3>1, <4>1, <4>3 DEF PrevIs
    <3>2. CASE c # new /\ c = n /\ n # 0
      <4>1. q[c].prev = new
        BY <1>10, <3>2
      <4>2. \A e \in H : e <= h \/ c <= e
        BY <1>4, <3>2 DEF NextIs
      <4>3. \A e \in K : e <= new \/ c <= e
        BY <1>4, <1>5, <1>6, <3>2, <4>2, ListIs
      <4>4. new < c
        BY <1>4, <1>6, <3>2
      <4> QED
        BY <1>5, <4>1, <4>3, <4>4 DEF PrevIs
    <3>3. CASE c # new /\ ~(c = n /\ n # 0)
      <4>0. c \in H /\ c \in Nat
        BY <3>3, ListIs
      <4>1. q[c].prev = b[c].prev /\ PrevIs(H, c, b[c].prev)
        BY <1>13, <1>14, <3>3, <4>0, ListIs
      <4>2. PICK k : k = b[c].prev
        OBVIOUS
      <4>3. CASE k = 0
        <5>1. \A e \in H : c <= e
          BY <4>1, <4>2, <4>3 DEF PrevIs
        <5>2. c <= new
          BY <1>4, <1>5, <4>0, <5>1
        <5>3. \A e \in K : c <= e
          BY <5>1, <5>2
        <5> QED
          BY <4>1, <4>2, <4>3, <5>3 DEF PrevIs
      <4>4. CASE k # 0
        <5>1. k \in H /\ k < c /\ k \in Nat /\ \A e \in H : e <= k \/ c <= e
          BY <4>1, <4>2, <4>4, ListIs DEF PrevIs
        <5>2. k # h
          <6> SUFFICES ASSUME k = h PROVE FALSE
            OBVIOUS
          <6>1. n # 0 /\ n \in H /\ n \in Nat /\ (c <= h \/ n <= c) /\ h < n
            BY <1>4, <4>0, <5>1, ListIs DEF NextIs
          <6> QED
            BY <1>4, <3>3, <4>0, <5>1, <6>1
        <5>3. new <= k \/ c <= new
          BY <1>4, <1>5, <1>6, <4>0, <5>1, <5>2
        <5>4. \A e \in K : e <= k \/ c <= e
          BY <5>1, <5>3
        <5> QED
          BY <4>1, <4>2, <4>4, <5>1, <5>2, <5>4 DEF PrevIs
      <4> QED
        BY <4>3, <4>4
    <3> QED
      BY <3>1, <3>2, <3>3
  <2> HIDE DEF K
  <2> QED
    BY <2>1, <2>2, <2>3, <2>4 DEF Linked
<1>17. Gaps(q, K)
  <2>1. \A c \in H : c # h => /\ IsHole(q, c) /\ At(c) < q[c].last /\ q[c].last <= ENDLESS
                              /\ q[c].last = b[c].last
    BY <1>14, ListIs
  <2>2. IsHole(q, new) /\ At(new) < q[new].last /\ q[new].last <= ENDLESS
    BY <1>12, ListIs
  <2>3. IsHole(q, h) /\ At(h) < q[h].last /\ q[h].last <= ENDLESS
    <3>1. b[h].last <= ENDLESS /\ b[h].last \in Nat /\ ENDLESS \in Nat
      BY ListIs DEF ENDLESS
    <3> QED
      BY <1>5, <1>13, <3>1
  <2>4. ASSUME NEW c \in K, NEW e \in K, c < e PROVE q[c].last < At(e)
    <3>1. CASE c = new
      <4>1. e \in H /\ e # h /\ h < e
        BY <1>4, <1>5, <1>6, <2>4, <3>1
      <4> QED
        BY <1>12, <3>1, <4>1, ListIs
    <3>2. CASE c = h
      <4>1. q[c].last = s
        BY <1>13, <3>2
      <4>2. CASE e = new
        BY <4>1, <4>2
      <4>3. CASE e # new
        <5>1. e \in H /\ h < e
          BY <2>4, <3>2, <4>3
        <5>2. b[h].last < At(e) /\ At(e) \in Nat /\ b[h].last \in Nat
          BY <5>1, ListIs
        <5> QED
          BY <1>5, <4>1, <5>2
      <4> QED
        BY <4>2, <4>3
    <3>3. CASE c # new /\ c # h /\ e = new
      <4>1. c \in H /\ c # h /\ c < h
        BY <1>4, <1>5, <1>6, <2>4, <3>3, ListIs
      <4>2. b[c].last < At(h) /\ b[c].last \in Nat
        BY <4>1, ListIs
      <4> QED
        BY <1>5, <2>1, <3>3, <4>1, <4>2
    <3>4. CASE c # new /\ c # h /\ e # new
      BY <2>1, <2>4, <3>4, ListIs
    <3> QED
      BY <3>1, <3>2, <3>3, <3>4
  <2> QED
    BY <2>1, <2>2, <2>3, <2>4 DEF Gaps
<1>18. Spans(q, K, Without(M, s, At(new)))
  <2> SUFFICES ASSUME NEW u \in 0 .. ENDLESS - 1
               PROVE  u \in Without(M, s, At(new)) <=>
                      \E c \in K : At(c) <= u /\ u < q[c].last
    BY DEF Spans
  <2>0. u \in Nat /\ At(h) \in Nat /\ At(new) \in Nat /\ b[h].last \in Nat
    <3>1. u \in Nat
      BY ByteIs
    <3> QED
      BY <1>5, <3>1, ListIs
  <2>1. u \in M <=> \E c \in H : At(c) <= u /\ u < b[c].last
    BY DEF Spans
  <2>2. u \in Without(M, s, At(new)) <=> u \in M /\ ~(s <= u /\ u < At(new))
    BY DEF Without
  <2>3. ASSUME NEW c \in H, c # h, At(c) <= u, u < b[c].last
        PROVE  ~(At(h) <= u /\ u < b[h].last)
    <3>1. c < h \/ h < c
      BY <1>6, <2>3
    <3> QED
      BY <2>0, <2>3, <3>1, ListIs
  <2>4. ASSUME u \in M, ~(s <= u /\ u < At(new))
        PROVE  \E c \in K : At(c) <= u /\ u < q[c].last
    <3>1. PICK c \in H : At(c) <= u /\ u < b[c].last
      BY <2>1, <2>4
    <3>2. CASE c = h /\ u < s
      BY <1>13, <2>0, <2>4, <3>1, <3>2
    <3>3. CASE c = h /\ ~(u < s)
      <4>1. At(new) <= u /\ u < q[new].last
        BY <1>12, <2>0, <2>4, <3>1, <3>3
      <4> QED
        BY <4>1
    <3>4. CASE c # h
      BY <1>14, <3>1, <3>4
    <3> QED
      BY <3>2, <3>3, <3>4
  <2>5. ASSUME NEW c \in K, At(c) <= u, u < q[c].last
        PROVE  u \in M /\ ~(s <= u /\ u < At(new))
    <3>1. CASE c = new
      <4>1. At(new) <= u /\ u < b[h].last
        BY <1>12, <2>5, <3>1
      <4>2. At(h) <= u
        BY <1>5, <2>0, <4>1
      <4> QED
        BY <2>0, <2>1, <4>1, <4>2
    <3>2. CASE c = h
      <4>1. At(h) <= u /\ u < s
        BY <1>13, <2>5, <3>2
      <4>2. u < b[h].last
        BY <2>0, <4>1
      <4> QED
        BY <2>0, <2>1, <4>1, <4>2
    <3>3. CASE c # new /\ c # h
      <4>1. c \in H /\ c # h /\ u < b[c].last
        BY <1>14, <2>5, <3>3
      <4>2. ~(At(h) <= u /\ u < b[h].last) /\ u \in M
        BY <2>1, <2>3, <2>5, <4>1
      <4> QED
        BY <1>5, <2>0, <4>2
    <3> QED
      BY <3>1, <3>2, <3>3
  <2> HIDE DEF K
  <2> QED
    BY <2>2, <2>4, <2>5
<1>19. \A c \in Blocks : At(c) \notin M => q[c] = b[c]
  <2>1. \A c \in H : At(c) \in M
    BY HeadMissing DEF List, Linked
  <2>2. At(new) \in M
    <3>1. b[h].last \in Nat /\ b[h].last <= ENDLESS /\ ENDLESS \in Nat
      BY ListIs DEF ENDLESS
    <3>2. At(new) \in 0 .. ENDLESS - 1 /\ At(h) <= At(new)
      BY <1>5, <3>1
    <3> QED
      BY <3>2 DEF Spans
  <2> QED
    BY <1>4, <1>8, <2>1, <2>2
<1>20. \A c \in {n} \ {0} : IsHole(b, c)
  BY <1>4, ListIs
<1>21. K \in SUBSET Blocks /\ K # {} /\ first \in Blocks
  BY ListIs
<1> HIDE DEF K
<1>22. Leaves(b, M, SplitHole(b, first, h, new, s), K, Without(M, s, At(new)))
  BY <1>3, <1>15, <1>16, <1>17, <1>18, <1>19, <1>20, <1>21 DEF Leaves
<1> QED
  BY <1>22 DEF K

-----------------------------------------------------------------------------
(***************************************************************************)
(* A fragment arrives.                                                     *)
(***************************************************************************)

LEMMA FitsIs ==
  ASSUME NEW d \in Datagrams, NEW f \in Fragments(d), ~ExtendsTooFar(f), Conditions
  PROVE  /\ f.start + f.len <= IP_MAXUDP /\ f.start + f.len \in Nat
         /\ f.len >= UNIT
         /\ f.more => InBuffer(f.start \div UNIT + f.len \div UNIT)
         /\ \A p \in Nat : Covers(f, p) => p \in 0 .. ENDLESS - 1 /\ p < IP_MAXUDP
<1>1. f \in AllFragments
  BY DEF AllFragments
<1>2. f.start \in Nat /\ f.len \in Nat /\ IP_MAXUDP \in Nat /\ ENDLESS \in Nat
  BY FragmentIs, BlocksAre DEF ENDLESS
<1>3. f.start + f.len <= IP_MAXUDP
  BY <1>2 DEF ExtendsTooFar
<1>4. f.len >= UNIT /\ IP_MAXUDP < ENDLESS
  BY <1>1 DEF Conditions
<1>5. f.more => InBuffer((f.start + f.len) \div UNIT)
  BY <1>1 DEF Conditions
<1>6. f.more => (f.start + f.len) \div UNIT = f.start \div UNIT + f.len \div UNIT
  BY BlockOf
<1>7. \A p \in Nat : Covers(f, p) => p \in 0 .. ENDLESS - 1 /\ p < IP_MAXUDP
  BY <1>2, <1>3, <1>4 DEF Covers
<1> QED
  BY <1>2, <1>3, <1>4, <1>5, <1>6, <1>7

\* Copying a fragment replaces the blocks that begin in it.
LEMMA CopyIs ==
  ASSUME NEW d \in Datagrams, NEW f \in Fragments(d), ~ExtendsTooFar(f), Conditions,
         NEW q, Forward(q)
  PROVE  /\ Forward(CopyIn(q, f))
         /\ \A c \in Blocks :
               CopyIn(q, f)[c] = IF Covers(f, At(c)) THEN Data(d, c) ELSE q[c]
<1> DEFINE to == f.start \div UNIT .. (f.start + f.len - 1) \div UNIT
           k == CopyIn(q, f)
<1>1. ASSUME NEW c PROVE c \in to <=> c \in Nat /\ Covers(f, At(c))
  <2>1. PICK l : l = (f.start + f.len - 1) \div UNIT
    OBVIOUS
  <2>2. PICK off : off = f.start \div UNIT
    OBVIOUS
  <2>3. off \in Nat /\ l \in Nat /\ \A e \in Nat : Covers(f, At(e)) <=> off <= e /\ e <= l
    <3>1. /\ f.start \div UNIT \in Nat
          /\ (f.start + f.len - 1) \div UNIT \in Nat
          /\ \A e \in Nat : Covers(f, At(e)) <=>
                f.start \div UNIT <= e /\ e <= (f.start + f.len - 1) \div UNIT
      BY BlockOf
    <3> QED
      BY <2>1, <2>2, <3>1
  <2> QED
    BY <2>1, <2>2, <2>3
<1> HIDE DEF to
<1>2. Blocks \cup to = Blocks
  <2>1. ASSUME NEW c \in to PROVE c \in Blocks
    <3>1. c \in Nat /\ Covers(f, At(c)) /\ At(c) \in Nat
      BY <1>1, AtIs
    <3>2. At(c) < IP_MAXUDP /\ IP_MAXUDP \in Nat
      BY <3>1, FitsIs, BlocksAre
    <3>3. At(c) <= IP_MAXUDP
      BY <3>1, <3>2
    <3> QED
      BY <3>1, <3>3, BlocksAre
  <2> QED
    BY <2>1
<1>3. k = [c \in Blocks \cup to |-> IF c \in to THEN Data(f.of, c) ELSE q[c]]
  BY DEF CopyIn, to
<1>4. f.of = d
  BY FragmentIs
<1>5. k = [c \in Blocks |-> k[c]]
  BY <1>2, <1>3
<1>6. \A c \in Blocks : k[c] = IF c \in to THEN Data(d, c) ELSE q[c]
  BY <1>2, <1>3, <1>4
<1> HIDE DEF k
<1>7. \A c \in Blocks : k[c] = IF Covers(f, At(c)) THEN Data(d, c) ELSE q[c]
  BY <1>1, <1>6, BlocksAre
<1>8. Forward(k)
  <2> SUFFICES ASSUME NEW c \in Blocks, IsHole(k, c)
               PROVE  /\ k[c] \in Descriptors
                      /\ k[c].next = 0 \/ (k[c].next \in Blocks /\ c < k[c].next)
    BY <1>5 DEF Forward
  <2>1. ~Covers(f, At(c))
    <3> SUFFICES ASSUME Covers(f, At(c)) PROVE FALSE
      OBVIOUS
    <3>1. k[c] = Data(d, c)
      BY <1>7
    <3>2. Data(d, c).kind = "data"
      BY DEF Data
    <3> QED
      BY <3>1, <3>2 DEF IsHole
  <2>2. k[c] = q[c]
    BY <1>7, <2>1
  <2> QED
    BY <2>2 DEF Forward, IsHole
<1> QED
  BY <1>7, <1>8 DEF k

\* It leaves the holes alone that do not begin in it.
LEMMA CopyKeeps ==
  ASSUME NEW d \in Datagrams, NEW f \in Fragments(d), ~ExtendsTooFar(f), Conditions,
         NEW q, Forward(q), NEW K \in SUBSET Blocks, NEW M, NEW first,
         Gaps(q, K), Spans(q, K, M), \A c \in K : ~Covers(f, At(c))
  PROVE  /\ Gaps(CopyIn(q, f), K) /\ Spans(CopyIn(q, f), K, M)
         /\ Linked(q, first, K) => Linked(CopyIn(q, f), first, K)
<1>1. PICK k : k = CopyIn(q, f)
  OBVIOUS
<1>2. \A c \in K : k[c] = q[c]
  BY <1>1, CopyIs
<1>3. Gaps(k, K)
  BY <1>2 DEF Gaps, IsHole
<1>4. Spans(k, K, M)
  BY <1>2 DEF Spans
<1>5. Linked(q, first, K) => Linked(k, first, K)
  BY <1>2 DEF Linked
<1> QED
  BY <1>1, <1>3, <1>4, <1>5

\* A new fragment lies in the hole that the search finds.
LEMMA Finds ==
  ASSUME NEW d \in Datagrams, NEW f \in Fragments(d), ~ExtendsTooFar(f), Conditions,
         NEW G \in SUBSET Fragments(d), f \notin G,
         NEW b, NEW first, NEW H, List(b, first, H), Spans(b, H, Missing(G))
  PROVE  \E h \in H : /\ h = Seek(b, first, f.start)
                      /\ At(h) <= f.start /\ f.start + f.len <= b[h].last
                      /\ ~f.more => \A p \in Missing(G) : p < b[h].last
<1>1. /\ f.start \in Nat /\ f.len \in Nat \ {0} /\ f.start + f.len <= IP_MAXUDP
      /\ f.start + f.len \in Nat
  BY FragmentIs, FitsIs
<1>2. ASSUME NEW p \in Nat, Covers(f, p) PROVE p \in Missing(G)
  <2>1. p \in 0 .. ENDLESS - 1
    BY <1>2, FitsIs
  <2>2. ASSUME NEW g \in G PROVE ~Covers(g, p) /\ (~g.more => p < g.start + g.len)
    <3>1. g \in Fragments(d) /\ g # f
      OBVIOUS
    <3>2. f.start + f.len <= g.start \/ g.start + g.len <= f.start
      BY <3>1, Disjoint
    <3>3. g.start \in Nat /\ g.len \in Nat
      BY <3>1, FragmentIs
    <3>4. ~Covers(g, p)
      BY <1>1, <1>2, <3>2, <3>3 DEF Covers
    <3>5. ~g.more => f.start + f.len <= g.start + g.len
      BY <3>1, FragmentIs
    <3>6. ~g.more => p < g.start + g.len
      BY <1>1, <1>2, <3>3, <3>5 DEF Covers
    <3> QED
      BY <3>4, <3>6
  <2> QED
    BY <2>1, <2>2 DEF Missing
<1>3. f.start \in Missing(G) /\ f.start \in 0 .. ENDLESS - 1
  <2>1. Covers(f, f.start)
    BY <1>1 DEF Covers
  <2> QED
    BY <1>1, <1>2, <2>1 DEF Missing
<1>4. PICK h \in H : At(h) <= f.start /\ f.start < b[h].last
  BY <1>3 DEF Spans
<1>5. h \in Nat /\ At(h) \in Nat /\ b[h].last \in Nat /\ b[h].last <= ENDLESS
  BY ListIs
<1>6. \A e \in H : e < h => b[e].last < f.start
  <2> SUFFICES ASSUME NEW e \in H, e < h PROVE b[e].last < f.start
    OBVIOUS
  <2>1. b[e].last < At(h) /\ b[e].last \in Nat
    BY ListIs
  <2> QED
    BY <1>1, <1>4, <1>5, <2>1
<1>7. h = Seek(b, first, f.start)
  <2>1. PICK s : s = Seek(b, first, f.start)
    OBVIOUS
  <2>2. \/ s = NONE /\ \A e \in H : b[e].last < f.start
        \/ s \in H /\ b[s].last >= f.start /\ \A e \in H : e < s => b[e].last < f.start
    BY <1>1, <2>1, SeekIs DEF List
  <2>3. s \in H /\ b[s].last >= f.start /\ \A e \in H : e < s => b[e].last < f.start
    BY <1>1, <1>4, <1>5, <2>2
  <2>4. ~(h < s)
    BY <1>1, <1>4, <1>5, <2>3
  <2>5. s \in Nat /\ b[s].last \in Nat
    BY <2>3, ListIs
  <2>6. ~(s < h)
    BY <1>1, <1>6, <2>3, <2>5
  <2> QED
    BY <1>5, <2>1, <2>4, <2>5, <2>6
<1>8. \A c \in H : ~(At(c) <= b[h].last /\ b[h].last < b[c].last)
  <2> SUFFICES ASSUME NEW c \in H, At(c) <= b[h].last, b[h].last < b[c].last PROVE FALSE
    OBVIOUS
  <2>1. c \in Nat /\ At(c) \in Nat /\ b[c].last \in Nat
    BY ListIs
  <2>2. CASE c = h
    BY <1>5, <2>2
  <2>3. CASE c < h
    <3>1. b[c].last < At(h) /\ At(h) < b[h].last
      BY <2>3, ListIs
    <3> QED
      BY <1>5, <2>1, <3>1
  <2>4. CASE h < c
    <3>1. b[h].last < At(c)
      BY <2>4, ListIs
    <3> QED
      BY <1>5, <2>1, <3>1
  <2> QED
    BY <1>5, <2>1, <2>2, <2>3, <2>4
<1>9. f.start + f.len <= b[h].last
  <2> SUFFICES ASSUME b[h].last < f.start + f.len PROVE FALSE
    BY <1>1, <1>5
  <2>1. Covers(f, b[h].last)
    BY <1>1, <1>4, <1>5 DEF Covers
  <2>2. b[h].last \in Missing(G) /\ b[h].last \in 0 .. ENDLESS - 1
    BY <1>2, <1>5, <2>1 DEF Missing
  <2> QED
    BY <1>8, <2>2 DEF Spans
<1>10. ASSUME ~f.more, NEW p \in Missing(G) PROVE p < b[h].last
  <2> SUFFICES ASSUME ~(p < b[h].last) PROVE FALSE
    OBVIOUS
  <2>0. p \in 0 .. ENDLESS - 1
    BY DEF Missing
  <2>1. ENDLESS \in Nat
    BY DEF ENDLESS
  <2>2. b[h].last \in 0 .. ENDLESS - 1
    BY <1>5, <2>0, <2>1
  <2>3. b[h].last \notin Missing(G)
    BY <1>8, <2>2 DEF Spans
  <2>4. PICK g \in G : Covers(g, b[h].last) \/ (~g.more /\ ~(b[h].last < g.start + g.len))
    BY <2>2, <2>3 DEF Missing
  <2>5. g \in Fragments(d) /\ g # f
    OBVIOUS
  <2>6. f.start + f.len = Length[d] /\ Length[d] \in Nat
    BY <1>10, FragmentIs
  <2>7. g.start \in Nat /\ g.len \in Nat \ {0} /\ g.start + g.len <= Length[d]
    BY <2>5, FragmentIs
  <2>8. ~Covers(g, b[h].last)
    BY <1>5, <1>9, <2>6, <2>7 DEF Covers
  <2>9. ~g.more
    BY <2>4, <2>8
  <2>10. g.start + g.len = Length[d]
    BY <2>5, <2>9, FragmentIs
  <2>11. f.start + f.len <= g.start \/ g.start + g.len <= f.start
    BY <2>5, Disjoint
  <2> QED
    BY <1>1, <2>6, <2>7, <2>10, <2>11
<1> QED
  BY <1>4, <1>7, <1>9, <1>10

LEMMA MissingIs ==
  ASSUME NEW G, NEW p, p \in Missing(G)
  PROVE  /\ p \in Nat /\ p \in 0 .. ENDLESS - 1
         /\ \A g \in G : ~Covers(g, p)
<1>1. p \in 0 .. ENDLESS - 1 /\ \A g \in G : ~Covers(g, p)
  BY DEF Missing
<1>2. ENDLESS \in Nat
  BY DEF ENDLESS
<1> QED
  BY <1>1, <1>2

\* The buffer when the fragment f meets the hole h, and what becomes of the list.
Trimmed(f, b, h) == IF f.more THEN b ELSE [b EXCEPT ![h].last = f.start + f.len]

Change(f, b, first, h) ==
    LET off == f.start \div UNIT
        new == off + f.len \div UNIT
    IN  IF b[h].last > f.start + f.len
          THEN IF h >= off THEN MoveHole(b, first, h, new)
               ELSE SplitHole(b, first, h, new, f.start)
          ELSE IF h >= off THEN RemoveHole(b, first, h)
               ELSE ShortenHole(b, first, h, f.start)

\* The list after a new fragment, before it is copied.
LEMMA Changes ==
  ASSUME NEW d \in Datagrams, NEW f \in Fragments(d), ~ExtendsTooFar(f), Conditions,
         NEW M \in SUBSET Nat, NEW b, NEW first, NEW H, List(b, first, H), Spans(b, H, M),
         NEW h \in H, At(h) <= f.start, f.start + f.len <= b[h].last,
         ~f.more => f.start + f.len = b[h].last,
         0 \in H => f.start = 0
  PROVE  /\ b[h].last > f.start + f.len => InBuffer(f.start \div UNIT + f.len \div UNIT)
         /\ \E K : Leaves(b, M, Change(f, b, first, h), K,
                          Without(M, f.start, f.start + f.len))
<1>1. PICK off \in Nat : off = f.start \div UNIT /\ At(off) = f.start
  BY BlockOf
<1>2. PICK new \in Nat : new = f.start \div UNIT + f.len \div UNIT
  BY BlockOf
<1>3. PICK end \in Nat : end = f.start + f.len
  BY FitsIs
<1>4. /\ f.start \in Nat /\ f.len \in Nat \ {0} /\ end <= IP_MAXUDP
      /\ f.more => At(new) = end /\ InBuffer(new)
      /\ off < new
  <2>1. f.start \in Nat /\ f.len \in Nat \ {0} /\ end <= IP_MAXUDP
    BY <1>3, FragmentIs, FitsIs
  <2>2. f.more => At(new) = end
    BY <1>2, <1>3, BlockOf
  <2>3. f.more => InBuffer(new)
    BY <1>2, FitsIs
  <2>4. off < new
    BY <1>1, <1>2, BlockOf, FitsIs
  <2> QED
    BY <2>1, <2>2, <2>3, <2>4
<1>5. h \in Nat /\ h \in Blocks /\ At(h) \in Nat /\ b[h].last \in Nat /\ first \in Blocks
  BY ListIs
<1>6. h <= off /\ (h = off <=> At(h) = f.start) /\ (h < off <=> At(h) < f.start)
  BY <1>1, <1>5, AtIs
<1>7. ASSUME b[h].last > end
      PROVE  f.more /\ new \in Blocks /\ At(new) = end /\ InBuffer(new)
  <2>1. f.more
    BY <1>3, <1>5, <1>7
  <2> QED
    BY <1>4, <2>1, BlocksAre
<1>8. PICK r : r = Change(f, b, first, h)
  OBVIOUS
<1>9. \E K : Leaves(b, M, r, K, Without(M, f.start, end))
  <2>1. CASE b[h].last > end /\ h >= off
    <3>1. r = MoveHole(b, first, h, new)
      BY <1>1, <1>2, <1>3, <1>8, <2>1 DEF Change
    <3>2. At(h) = f.start /\ At(new) = end /\ new \in Blocks /\ f.start < end
      BY <1>3, <1>4, <1>5, <1>6, <1>7, <2>1
    <3>3. At(h) < At(new) /\ At(new) < b[h].last
      BY <1>5, <2>1, <3>2
    <3> QED
      BY <3>1, <3>2, <3>3, Move
  <2>2. CASE b[h].last > end /\ ~(h >= off)
    <3>1. r = SplitHole(b, first, h, new, f.start)
      BY <1>1, <1>2, <1>3, <1>8, <2>2 DEF Change
    <3>2. At(h) < f.start /\ At(new) = end /\ new \in Blocks /\ f.start < end
      BY <1>1, <1>3, <1>4, <1>5, <1>6, <1>7, <2>2
    <3>3. f.start < At(new) /\ At(new) < b[h].last /\ h # 0
      BY <1>5, <2>2, <3>2
    <3> QED
      BY <1>4, <3>1, <3>2, <3>3, Split
  <2>3. CASE ~(b[h].last > end) /\ h >= off
    <3>1. r = RemoveHole(b, first, h)
      BY <1>1, <1>2, <1>3, <1>8, <2>3 DEF Change
    <3>2. At(h) = f.start /\ b[h].last = end
      BY <1>1, <1>3, <1>5, <1>6, <2>3
    <3> QED
      BY <3>1, <3>2, Remove
  <2>4. CASE ~(b[h].last > end) /\ ~(h >= off)
    <3>1. r = ShortenHole(b, first, h, f.start)
      BY <1>1, <1>2, <1>3, <1>8, <2>4 DEF Change
    <3>2. At(h) < f.start /\ b[h].last = end /\ f.start <= end
      BY <1>1, <1>3, <1>4, <1>5, <1>6, <2>4
    <3>3. /\ r.buf = [b EXCEPT ![h].last = f.start] /\ r.first = first
          /\ r.links = {h} /\ r.done = FALSE
      BY <3>1, Zenon DEF ShortenHole
    <3>4. /\ List(r.buf, first, H) /\ Spans(r.buf, H, Without(M, f.start, end))
          /\ \A c \in Blocks : c # h => r.buf[c] = b[c]
      BY <1>4, <3>2, <3>3, Cut
    <3>5. H \in SUBSET Blocks /\ H # {} /\ IsHole(b, h)
      BY ListIs
    <3>6. At(h) \in M
      BY <3>5, HeadMissing DEF List
    <3> QED
      BY <1>5, <3>3, <3>4, <3>5, <3>6 DEF List, Leaves
  <2> QED
    BY <2>1, <2>2, <2>3, <2>4
<1> QED
  BY <1>2, <1>3, <1>7, <1>8, <1>9

\* What happens when fragment f of datagram d meets hole h: nothing goes wild, and f is
\* stored with the others G.
Filled(d, G, f, b, first, h) ==
    LET t == Trimmed(f, b, h)
        r == Change(f, t, first, h)
        k == CopyIn(r.buf, f)
    IN  /\ h # NONE /\ h # LOST /\ ~NoOverlap(f, h)
        /\ t[h].last > f.start + f.len => InBuffer(f.start \div UNIT + f.len \div UNIT)
        /\ \A c \in r.links : IsHole(t, c)
        /\ Forward(k) /\ r.first \in Blocks /\ Stored(k, d, G \cup {f})
        /\ r.done = TRUE \/ r.done = FALSE
        /\ r.done = TRUE => Missing(G \cup {f}) = {}
        /\ r.done = FALSE => \E K \in SUBSET Blocks :
              /\ Linked(k, r.first, K) /\ Gaps(k, K)
              /\ Spans(k, K, Missing(G \cup {f}))

\* A fragment that is new.
LEMMA Fills ==
  ASSUME NEW d \in Datagrams, NEW f \in Fragments(d), ~ExtendsTooFar(f), Conditions,
         NEW G \in SUBSET Fragments(d), f \notin G,
         NEW b, NEW first, NEW H, List(b, first, H), Spans(b, H, Missing(G)),
         Stored(b, d, G), 0 \in H => f.start = 0
  PROVE  Filled(d, G, f, b, first, Seek(b, first, f.start))
<1>1. PICK h \in H : /\ h = Seek(b, first, f.start)
                     /\ At(h) <= f.start /\ f.start + f.len <= b[h].last
                     /\ ~f.more => \A p \in Missing(G) : p < b[h].last
  BY Finds
<1>2. PICK end \in Nat : end = f.start + f.len
  BY FitsIs
<1>3. f.start \in Nat /\ f.len \in Nat \ {0} /\ f.start < end /\ f.more \in BOOLEAN
  BY <1>2, FragmentIs
<1>4. h \in Nat /\ At(h) \in Nat /\ b[h].last \in Nat /\ H \in SUBSET Blocks
  BY ListIs
<1>5. h # NONE /\ h # LOST
  BY <1>4 DEF NONE, LOST
<1>6. ~NoOverlap(f, h)
  <2>1. PICK off \in Nat : off = f.start \div UNIT /\ At(off) = f.start
    BY BlockOf
  <2>2. PICK new \in Nat : new = f.start \div UNIT + f.len \div UNIT /\ off < new
    BY <2>1, BlockOf, FitsIs
  <2>3. h <= off
    BY <1>1, <1>4, <2>1, AtIs
  <2>4. ~(new <= h)
    BY <1>4, <2>2, <2>3
  <2> QED
    BY <2>2, <2>4 DEF NoOverlap
<1>7. Missing(G) \in SUBSET Nat
  BY MissingIs
<1>8. PICK t : t = Trimmed(f, b, h)
  OBVIOUS
<1>9. PICK M \in SUBSET Nat :
         /\ List(t, first, H) /\ Spans(t, H, M)
         /\ end <= t[h].last /\ (~f.more => t[h].last = end)
         /\ \A c \in Blocks : c # h => t[c] = b[c]
         /\ M \subseteq Missing(G)
         /\ Without(M, f.start, end) = Missing(G \cup {f})
  <2>1. CASE f.more
    <3>1. t = b
      BY <1>8, <2>1 DEF Trimmed
    <3>2. ASSUME NEW p
          PROVE  p \in Missing(G \cup {f}) <=> p \in Missing(G) /\ ~Covers(f, p)
      BY <2>1 DEF Missing
    <3>3. Without(Missing(G), f.start, end) = Missing(G \cup {f})
      BY <1>2, <3>2 DEF Without, Covers
    <3> QED
      BY <1>1, <1>2, <1>7, <2>1, <3>1, <3>3
  <2>2. CASE ~f.more
    <3> DEFINE M == Without(Missing(G), end, b[h].last)
    <3>1. t = [b EXCEPT ![h].last = end]
      BY <1>2, <1>8, <2>2 DEF Trimmed
    <3>2. At(h) < end /\ end <= b[h].last
      BY <1>1, <1>2, <1>3, <1>4
    <3>3. /\ List(t, first, H) /\ Spans(t, H, M)
          /\ \A c \in Blocks : c # h => t[c] = b[c]
          /\ t[h].last = end
      <4>1. PICK N \in SUBSET Nat : N = Missing(G)
        BY <1>7
      <4>2. /\ List(t, first, H) /\ Spans(t, H, Without(N, end, b[h].last))
            /\ \A c \in Blocks : c # h => t[c] = b[c]
            /\ t[h].last = end
        <5>1. Spans(b, H, N)
          BY <4>1
        <5>2. LET q == [b EXCEPT ![h].last = end]
              IN  /\ List(q, first, H) /\ Spans(q, H, Without(N, end, b[h].last))
                  /\ \A c \in Blocks : c # h => q[c] = b[c]
                  /\ q[h].last = end
          BY <3>2, <5>1, Cut
        <5> QED
          BY <3>1, <5>2
      <4> QED
        BY <4>1, <4>2
    <3>4. M \in SUBSET Nat /\ M \subseteq Missing(G)
      BY <1>7 DEF Without
    <3>5. ASSUME NEW p
          PROVE  p \in Missing(G \cup {f}) <=> p \in Missing(G) /\ ~Covers(f, p) /\ p < end
      BY <1>2, <2>2 DEF Missing
    <3>6. ASSUME NEW p
          PROVE  p \in Without(M, f.start, end) <=> p \in Missing(G \cup {f})
      <4>1. p \in Missing(G) => p \in Nat /\ p < b[h].last
        BY <1>1, <1>7, <2>2
      <4>2. p \in M <=> p \in Missing(G) /\ ~(end <= p /\ p < b[h].last)
        BY DEF Without
      <4>3. p \in Without(M, f.start, end) <=> p \in M /\ ~(f.start <= p /\ p < end)
        BY DEF Without
      <4> HIDE DEF M
      <4> QED
        <5>1. CASE p \in Missing(G)
          <6>1. p \in Nat /\ p < b[h].last
            BY <4>1, <5>1
          <6>2. Covers(f, p) <=> f.start <= p /\ p < end
            BY <1>2 DEF Covers
          <6>3. end <= p /\ p < b[h].last <=> ~(p < end)
            BY <6>1
          <6> QED
            BY <3>5, <4>2, <4>3, <5>1, <6>2, <6>3
        <5>2. CASE p \notin Missing(G)
          BY <3>5, <4>2, <4>3, <5>2
        <5> QED
          BY <5>1, <5>2
    <3>7. Without(M, f.start, end) = Missing(G \cup {f})
      <4> HIDE DEF M
      <4> QED
        BY <3>6 DEF Without, Missing
    <3>8. end <= t[h].last
      BY <3>3
    <3> HIDE DEF M
    <3> QED
      BY <3>3, <3>4, <3>7, <3>8
  <2> QED
    BY <1>3, <2>1, <2>2
<1>10. PICK r : r = Change(f, t, first, h)
  OBVIOUS
<1>11. /\ t[h].last > f.start + f.len => InBuffer(f.start \div UNIT + f.len \div UNIT)
       /\ \E K : Leaves(t, M, r, K, Without(M, f.start, f.start + f.len))
  BY <1>1, <1>2, <1>9, <1>10, Changes
<1>12. PICK K : Leaves(t, M, r, K, Missing(G \cup {f}))
  BY <1>2, <1>9, <1>11
<1>13. /\ Forward(r.buf) /\ r.first \in Blocks /\ K \in SUBSET Blocks
       /\ Gaps(r.buf, K) /\ Spans(r.buf, K, Missing(G \cup {f}))
       /\ r.done = TRUE \/ r.done = FALSE
       /\ r.done = TRUE <=> K = {}
       /\ K # {} => Linked(r.buf, r.first, K)
       /\ \A c \in Blocks : At(c) \notin M => r.buf[c] = t[c]
       /\ \A c \in r.links : IsHole(t, c)
  BY <1>12 DEF Leaves
<1>14. \A c \in K : ~Covers(f, At(c))
  <2>1. \A c \in K : At(c) \in Missing(G \cup {f})
    BY <1>13, HeadMissing
  <2> QED
    BY <2>1 DEF Missing
<1>15. PICK k : k = CopyIn(r.buf, f)
  OBVIOUS
<1>16. /\ Forward(k)
       /\ \A c \in Blocks : k[c] = IF Covers(f, At(c)) THEN Data(d, c) ELSE r.buf[c]
  BY <1>13, <1>15, CopyIs
<1>17. /\ Gaps(k, K) /\ Spans(k, K, Missing(G \cup {f}))
       /\ Linked(r.buf, r.first, K) => Linked(k, r.first, K)
  BY <1>13, <1>14, <1>15, CopyKeeps
<1>18. Stored(k, d, G \cup {f})
  <2> SUFFICES ASSUME NEW g \in G \cup {f}, NEW c \in Blocks, Covers(g, At(c))
               PROVE  k[c] = Data(d, c)
    BY DEF Stored
  <2>1. CASE Covers(f, At(c))
    BY <1>16, <2>1
  <2>2. CASE ~Covers(f, At(c))
    <3>1. g \in G
      BY <2>2
    <3>2. At(c) \notin Missing(G)
      BY <3>1 DEF Missing
    <3>3. At(c) \notin M
      BY <1>9, <3>2
    <3>4. c # h
      BY <1>4, <3>2, HeadMissing DEF List
    <3>5. k[c] = b[c]
      BY <1>9, <1>13, <1>16, <2>2, <3>3, <3>4
    <3> QED
      BY <3>1, <3>5 DEF Stored
  <2> QED
    BY <2>1, <2>2
<1>19. r.done = TRUE => Missing(G \cup {f}) = {}
  <2> SUFFICES ASSUME r.done = TRUE, NEW p \in Missing(G \cup {f}) PROVE FALSE
    OBVIOUS
  <2>1. p \in 0 .. ENDLESS - 1 /\ K = {}
    BY <1>13, MissingIs
  <2> QED
    BY <1>13, <2>1 DEF Spans
<1>20. r.done = FALSE => \E L \in SUBSET Blocks :
          /\ Linked(k, r.first, L) /\ Gaps(k, L)
          /\ Spans(k, L, Missing(G \cup {f}))
  BY <1>13, <1>17
<1>21. Filled(d, G, f, b, first, h)
  BY <1>5, <1>6, <1>8, <1>10, <1>11, <1>13, <1>15, <1>16, <1>18, <1>19, <1>20 DEF Filled
<1> QED
  BY <1>1, <1>21

\* The search for fragment f ended with h, and nothing changes.
Known(f, b, first, h) ==
    LET t == Trimmed(f, b, h)
        r == Change(f, t, first, h)
    IN  \/ h = NONE
        \/ h # LOST /\ NoOverlap(f, h)
        \/ /\ h # NONE /\ h # LOST /\ ~NoOverlap(f, h)
           /\ ~(t[h].last > f.start + f.len)
           /\ \A c \in r.links : IsHole(t, c)
           /\ r.done = FALSE /\ r.first = first
           /\ CopyIn(r.buf, f) = b

\* A fragment that has been here before changes nothing.
LEMMA Again ==
  ASSUME NEW d \in Datagrams, NEW f \in Fragments(d), ~ExtendsTooFar(f), Conditions,
         NEW G \in SUBSET Fragments(d), f \in G,
         NEW b, NEW first, NEW H, List(b, first, H), Spans(b, H, Missing(G)),
         Stored(b, d, G)
  PROVE  Known(f, b, first, Seek(b, first, f.start))
<1>1. PICK h : h = Seek(b, first, f.start)
  OBVIOUS
<1>2. PICK end \in Nat : end = f.start + f.len
  BY FitsIs
<1>3. f.start \in Nat /\ f.len \in Nat \ {0} /\ f.start < end /\ f.more \in BOOLEAN
  BY <1>2, FragmentIs
<1>4. \/ h = NONE
      \/ h \in H /\ b[h].last >= f.start
  BY <1>1, <1>3, SeekIs DEF List
<1> SUFFICES ASSUME h \in H, b[h].last >= f.start
             PROVE  Known(f, b, first, h)
  BY <1>1, <1>4 DEF Known
<1>5. /\ h \in Nat /\ At(h) \in Nat /\ b[h].last \in Nat /\ H \in SUBSET Blocks /\ h \in Blocks
      /\ At(h) < b[h].last /\ IsHole(b, h) /\ b[h] \in Descriptors
  BY ListIs
<1>6. h # NONE /\ h # LOST
  BY <1>5 DEF NONE, LOST
<1>7. \A p \in 0 .. ENDLESS - 1 : Covers(f, p) => ~(At(h) <= p /\ p < b[h].last)
  <2>1. \A p \in 0 .. ENDLESS - 1 : Covers(f, p) => p \notin Missing(G)
    BY DEF Missing
  <2> QED
    BY <2>1 DEF Spans
<1>8. PICK off \in Nat : off = f.start \div UNIT /\ At(off) = f.start
  BY BlockOf
<1>9. PICK new \in Nat : new = f.start \div UNIT + f.len \div UNIT /\ off < new /\ At(new) <= end
  BY <1>2, <1>8, BlockOf, FitsIs
<1>10. CASE At(h) > f.start
  <2>1. ~(At(h) < end)
    <3> SUFFICES ASSUME At(h) < end PROVE FALSE
      OBVIOUS
    <3>1. Covers(f, At(h))
      BY <1>2, <1>3, <1>5, <1>10 DEF Covers
    <3>2. At(h) \in 0 .. ENDLESS - 1 /\ At(h) <= At(h)
      BY <1>5, <3>1, FitsIs
    <3> QED
      BY <1>5, <1>7, <3>1, <3>2
  <2>2. At(new) <= At(h) /\ At(new) \in Nat
    BY <1>5, <1>9, <2>1, AtIs
  <2>3. new <= h
    BY <1>5, <2>2, AtIs
  <2> QED
    BY <1>6, <1>9, <2>3 DEF NoOverlap, Known
<1>11. CASE ~(At(h) > f.start)
  <2>1. b[h].last = f.start
    <3> SUFFICES ASSUME f.start < b[h].last PROVE FALSE
      BY <1>3, <1>5
    <3>1. Covers(f, f.start)
      BY <1>2, <1>3 DEF Covers
    <3>2. f.start \in 0 .. ENDLESS - 1 /\ At(h) <= f.start
      BY <1>3, <1>5, <1>11, <3>1, FitsIs
    <3> QED
      BY <1>7, <3>1, <3>2
  <2>2. At(h) < At(off) /\ h < off
    BY <1>5, <1>8, <2>1, AtIs
  <2>3. ~NoOverlap(f, h)
    <3>1. ~(new <= h)
      BY <1>5, <1>9, <2>2
    <3> QED
      BY <1>9, <3>1 DEF NoOverlap
  <2>4. PICK t : t = Trimmed(f, b, h)
    OBVIOUS
  <2>5. b = [c \in Blocks |-> b[c]]
    BY DEF List, Forward
  <2>6. /\ t = [c \in Blocks |-> t[c]] /\ t[h] \in Descriptors /\ IsHole(t, h)
        /\ t[h].last \in Nat /\ t[h].last <= end
        /\ [t EXCEPT ![h].last = f.start] = b
    <3>1. PICK o \in Descriptors : o = b[h]
      BY <1>5
    <3>2. [o EXCEPT !.last = f.start] = o
      BY <2>1, <3>1 DEF Descriptors
    <3>3. CASE f.more
      <4>1. t = b
        BY <2>4, <3>3 DEF Trimmed
      <4>2. [b EXCEPT ![h].last = f.start] = [c \in Blocks |-> IF c = h THEN [o EXCEPT !.last = f.start] ELSE b[c]]
        BY <1>5, <2>5, <3>1
      <4>3. [b EXCEPT ![h].last = f.start] = b
        BY <2>5, <3>1, <3>2, <4>2
      <4> QED
        BY <1>3, <1>5, <2>1, <2>5, <4>1, <4>3
    <3>4. CASE ~f.more
      <4>1. t = [b EXCEPT ![h].last = end]
        BY <1>2, <2>4, <3>4 DEF Trimmed
      <4>2. t = [c \in Blocks |-> IF c = h THEN [o EXCEPT !.last = end] ELSE b[c]]
        BY <1>5, <2>5, <3>1, <4>1
      <4>3. t[h] = [o EXCEPT !.last = end] /\ t = [c \in Blocks |-> t[c]]
        BY <1>5, <4>2
      <4>4. t[h] \in Descriptors /\ t[h].last = end /\ t[h].kind = "hole"
        BY <4>3 DEF Descriptors
      <4>5. [t EXCEPT ![h].last = f.start] =
               [c \in Blocks |-> IF c = h THEN [[o EXCEPT !.last = end] EXCEPT !.last = f.start]
                                 ELSE t[c]]
        BY <1>5, <4>3
      <4>6. [[o EXCEPT !.last = end] EXCEPT !.last = f.start] = [o EXCEPT !.last = f.start]
        BY DEF Descriptors
      <4>7. \A c \in Blocks : c # h => t[c] = b[c]
        BY <4>2
      <4>8. [t EXCEPT ![h].last = f.start] = b
        BY <2>5, <3>1, <3>2, <4>5, <4>6, <4>7
      <4> QED
        BY <4>3, <4>4, <4>8 DEF IsHole
    <3> QED
      BY <1>3, <3>3, <3>4
  <2>7. PICK r : r = Change(f, t, first, h)
    OBVIOUS
  <2>8. r = ShortenHole(t, first, h, f.start)
    <3>1. ~(t[h].last > end) /\ ~(h >= off)
      BY <1>5, <2>2, <2>6
    <3> QED
      BY <1>2, <1>8, <2>7, <3>1 DEF Change
  <2>9. r.buf = b /\ r.first = first /\ r.links = {h} /\ r.done = FALSE
    BY <2>6, <2>8 DEF ShortenHole
  <2>10. CopyIn(b, f) = b
    <3>1. PICK k : k = CopyIn(b, f)
      OBVIOUS
    <3>2. /\ k = [c \in Blocks |-> k[c]]
          /\ \A c \in Blocks : k[c] = IF Covers(f, At(c)) THEN Data(d, c) ELSE b[c]
      BY <3>1, CopyIs DEF List, Forward
    <3>3. \A c \in Blocks : k[c] = b[c]
      BY <3>2 DEF Stored
    <3>4. [c \in Blocks |-> k[c]] = [c \in Blocks |-> b[c]]
      BY <3>3
    <3> QED
      BY <2>5, <3>1, <3>2, <3>4
  <2> QED
    BY <1>2, <1>6, <2>3, <2>4, <2>6, <2>7, <2>9, <2>10 DEF Known
<1> QED
  BY <1>3, <1>5, <1>10, <1>11

-----------------------------------------------------------------------------
(***************************************************************************)
(* The invariant is inductive.                                             *)
(***************************************************************************)

\* Fill in terms of the operators above, when nothing goes wild.
LEMMA FillIs ==
  ASSUME NEW f, NEW b, NEW first, NEW total, NEW h, Fill(f, b, first, total, h),
         NEW t, t = Trimmed(f, b, h), NEW r, r = Change(f, t, first, h),
         t[h].last > f.start + f.len => InBuffer(f.start \div UNIT + f.len \div UNIT),
         \A c \in r.links : IsHole(t, c)
  PROVE  LET k == CopyIn(r.buf, f)
             n == IF f.more THEN total ELSE f.start + f.len
         IN  /\ buf' = k /\ first_hole' = r.first /\ total_len' = n /\ wild' = wild
             /\ returned' = IF r.done THEN returned \cup {Packet(k, n)} ELSE returned
<1>1. t = IF f.more THEN b ELSE [b EXCEPT ![h].last = f.start + f.len]
  BY DEF Trimmed
<1>2. r = IF t[h].last > f.start + f.len
            THEN IF h >= f.start \div UNIT
                   THEN MoveHole(t, first, h, f.start \div UNIT + f.len \div UNIT)
                   ELSE SplitHole(t, first, h, f.start \div UNIT + f.len \div UNIT, f.start)
            ELSE IF h >= f.start \div UNIT
                   THEN RemoveHole(t, first, h)
                   ELSE ShortenHole(t, first, h, f.start)
  BY DEF Change
<1> QED
  BY <1>1, <1>2, Zenon DEF Fill

LEMMA StartsWell == Init => IndInv
<1> SUFFICES ASSUME Init PROVE IndInv
  OBVIOUS
<1>1. buf = [c \in Blocks |-> Unset] /\ \A c \in Blocks : buf[c] = Unset
  BY DEF Init
<1>2. \A c \in Blocks : ~IsHole(buf, c)
  <2>1. Unset.kind # "hole"
    BY DEF Unset
  <2> QED
    BY <1>1, <2>1 DEF IsHole
<1>3. buf = [c \in Blocks |-> buf[c]]
  BY <1>1
<1>4. Forward(buf)
  BY <1>2, <1>3 DEF Forward
<1> QED
  BY <1>4, BlocksAre DEF Init, IndInv, ReturnedIsComplete

LEMMA TotalIs ==
  ASSUME NEW d \in Datagrams, NEW G \in SUBSET Fragments(d), Conditions,
         \A g \in G : ~ExtendsTooFar(g)
  PROVE  Total(d, G) \in Nat \ {0} /\ Total(d, G) <= ENDLESS
<1>1. CASE \E g \in G : ~g.more
  <2>1. PICK g \in G : ~g.more
    BY <1>1
  <2>2. Length[d] = g.start + g.len /\ Length[d] \in Nat /\ g.start \in Nat /\ g.len \in Nat \ {0}
    BY <2>1, FragmentIs
  <2>3. g.start + g.len <= IP_MAXUDP /\ IP_MAXUDP \in Nat
    BY FitsIs, BlocksAre
  <2>4. IP_MAXUDP < ENDLESS /\ ENDLESS \in Nat
    BY DEF Conditions, ENDLESS
  <2>5. Total(d, G) = Length[d]
    BY <1>1 DEF Total
  <2> QED
    BY <2>2, <2>3, <2>4, <2>5
<1>2. CASE ~\E g \in G : ~g.more
  <2>1. Total(d, G) = 65535
    BY <1>2 DEF Total
  <2> QED
    BY <2>1 DEF ENDLESS
<1> QED
  BY <1>1, <1>2

\* A packet without missing bytes is the datagram.
LEMMA CompleteIs ==
  ASSUME NEW d \in Datagrams, NEW G \in SUBSET Fragments(d), Conditions,
         \A g \in G : ~ExtendsTooFar(g), Missing(G) = {}, NEW k, Stored(k, d, G)
  PROVE  /\ Total(d, G) = Length[d]
         /\ \A c \in 0 .. (Length[d] - 1) \div UNIT : k[c] = Data(d, c)
<1>0. /\ IP_MAXUDP \in Nat /\ IP_MAXUDP < ENDLESS /\ ENDLESS \in Nat /\ UNIT \in Nat \ {0}
      /\ Length[d] \in Nat /\ Length[d] > 0
  BY BlocksAre, DefragAssumption DEF Conditions, ENDLESS
<1>1. ASSUME NEW p \in 0 .. ENDLESS - 1
      PROVE  \E g \in G : Covers(g, p) \/ (~g.more /\ ~(p < g.start + g.len))
  BY DEF Missing
<1>2. PICK g \in G : Covers(g, IP_MAXUDP) \/ (~g.more /\ ~(IP_MAXUDP < g.start + g.len))
  <2>1. IP_MAXUDP \in 0 .. ENDLESS - 1
    BY <1>0
  <2> QED
    BY <1>1, <2>1
<1>3. g.start \in Nat /\ g.len \in Nat /\ g.start + g.len <= IP_MAXUDP
  BY FragmentIs, FitsIs
<1>4. ~g.more
  BY <1>0, <1>2, <1>3 DEF Covers
<1>5. g.start + g.len = Length[d]
  BY <1>4, FragmentIs
<1>6. ASSUME NEW c \in 0 .. (Length[d] - 1) \div UNIT
      PROVE  k[c] = Data(d, c)
  <2>1. Length[d] - 1 \in Nat /\ (Length[d] - 1) \div UNIT \in Nat
    BY <1>0, DivIs
  <2>2. c \in Nat /\ c <= (Length[d] - 1) \div UNIT /\ At(c) \in Nat
    BY <2>1, AtIs
  <2>3. At(c) <= Length[d] - 1
    BY <1>0, <2>1, <2>2, DivIs DEF At
  <2>4. At(c) < Length[d] /\ At(c) <= IP_MAXUDP /\ At(c) \in 0 .. ENDLESS - 1
    BY <1>0, <1>3, <1>5, <2>2, <2>3
  <2>5. PICK f \in G : Covers(f, At(c)) \/ (~f.more /\ ~(At(c) < f.start + f.len))
    BY <1>1, <2>4
  <2>6. ~f.more => f.start + f.len = Length[d]
    BY FragmentIs
  <2>7. Covers(f, At(c))
    BY <2>4, <2>5, <2>6
  <2>8. c \in Blocks
    BY <2>2, <2>4, BlocksAre
  <2> QED
    BY <2>7, <2>8 DEF Stored
<1> QED
  BY <1>4, <1>5, <1>6 DEF Total

\* A fragment is filled in, be it the first of a packet or a later one.
LEMMA FillStep ==
  ASSUME IndInv, Conditions, NEW d \in Datagrams, NEW f \in Fragments(d), ~ExtendsTooFar(f),
         NEW G \in SUBSET Fragments(d), \A g \in G : ~ExtendsTooFar(g),
         \E g \in G \cup {f} : g.start = 0,
         NEW b, NEW first, NEW h, Filled(d, G, f, b, first, h),
         id' = ip_id[d], got' = G \cup {f},
         Fill(f, b, first, Total(d, G), h)
  PROVE  IndInv'
<1>1. PICK t : t = Trimmed(f, b, h)
  OBVIOUS
<1>2. PICK r : r = Change(f, t, first, h)
  OBVIOUS
<1>3. PICK k : k = CopyIn(r.buf, f)
  OBVIOUS
<1>4. PICK A : A = G \cup {f}
  OBVIOUS
<1>5. /\ t[h].last > f.start + f.len => InBuffer(f.start \div UNIT + f.len \div UNIT)
      /\ \A c \in r.links : IsHole(t, c)
      /\ Forward(k) /\ r.first \in Blocks /\ Stored(k, d, A)
      /\ r.done = TRUE \/ r.done = FALSE
      /\ r.done = TRUE => Missing(A) = {}
      /\ r.done = FALSE => \E K \in SUBSET Blocks :
            Linked(k, r.first, K) /\ Gaps(k, K) /\ Spans(k, K, Missing(A))
  BY <1>1, <1>2, <1>3, <1>4 DEF Filled
<1>6. PICK n : n = IF f.more THEN Total(d, G) ELSE f.start + f.len
  OBVIOUS
<1>7. /\ buf' = k /\ first_hole' = r.first /\ total_len' = n /\ wild' = wild
      /\ returned' = IF r.done THEN returned \cup {Packet(k, n)} ELSE returned
  BY <1>1, <1>2, <1>3, <1>5, <1>6, FillIs
<1>8. A \in SUBSET Fragments(d) /\ (\A g \in A : ~ExtendsTooFar(g)) /\ A # {}
      /\ \E g \in A : g.start = 0
  BY <1>4
<1>9. n = Total(d, A)
  <2>2. ~f.more => f.start + f.len = Length[d] /\ \E g \in A : ~g.more
    BY <1>4, FragmentIs
  <2>3. f.more \in BOOLEAN
    BY FragmentIs
  <2>4. CASE f.more
    <3>1. (\E g \in A : ~g.more) <=> (\E g \in G : ~g.more)
      BY <1>4, <2>4
    <3> QED
      BY <1>6, <2>4, <3>1 DEF Total
  <2>5. CASE ~f.more
    BY <1>6, <2>2, <2>5 DEF Total
  <2> QED
    BY <2>4, <2>5
<1>10. n # 0
  BY <1>8, <1>9, TotalIs
<1>11. r.done = TRUE => returned' = returned \cup {Packet(k, n)}
  BY <1>7
<1>12. r.done = FALSE => returned' = returned
  BY <1>7
<1>13. ReturnedIsComplete'
  <2>0. ReturnedIsComplete
    BY DEF IndInv
  <2>1. CASE r.done = FALSE
    BY <1>12, <2>0, <2>1 DEF ReturnedIsComplete
  <2>2. CASE r.done = TRUE
    <3>1. Missing(A) = {}
      BY <1>5, <2>2
    <3>2. /\ n = Length[d]
          /\ \A c \in 0 .. (Length[d] - 1) \div UNIT : k[c] = Data(d, c)
      BY <1>5, <1>8, <1>9, <3>1, CompleteIs
    <3>3. PICK q : q = Packet(k, n)
      OBVIOUS
    <3>4. /\ q.id = ip_id[d] /\ q.len = n
          /\ q.data = [c \in 0 .. (n - 1) \div UNIT |-> k[c]]
      BY <3>3 DEF Packet
    <3>5. \A c \in 0 .. (Length[d] - 1) \div UNIT : q.data[c] = Data(d, c)
      BY <3>2, <3>4
    <3>6. \A x \in returned' : x \in returned \/ x = q
      BY <1>11, <2>2, <3>3
    <3> QED
      BY <2>0, <3>2, <3>4, <3>5, <3>6 DEF ReturnedIsComplete
  <2> QED
    BY <1>5, <2>1, <2>2
<1>14. (~IsReturned(d))' => r.done = FALSE
  <2> SUFFICES ASSUME r.done = TRUE PROVE IsReturned(d)'
    BY <1>5
  <2>1. Packet(k, n) \in returned' /\ Packet(k, n).id = ip_id[d]
    BY <1>11 DEF Packet
  <2> QED
    BY <2>1 DEF IsReturned
<1>15. (~IsReturned(d))' => \E K \in SUBSET Blocks :
            Linked(buf', first_hole', K) /\ Gaps(buf', K) /\ Spans(buf', K, Missing(got'))
  BY <1>4, <1>5, <1>7, <1>14
<1>16. Arrived(d, A) /\ got' = A
  BY <1>4, <1>8 DEF Arrived
<1>17. wild' = FALSE /\ Forward(buf') /\ first_hole' \in Blocks /\ Stored(buf', d, got')
       /\ total_len' = Total(d, got') /\ total_len' # 0 /\ got' # {}
  <2>1. wild = FALSE
    BY DEF IndInv
  <2> QED
    BY <1>5, <1>7, <1>8, <1>9, <1>10, <1>16, <2>1
<1>18. \E e \in Datagrams :
          /\ id' = ip_id[e]
          /\ Arrived(e, got')
          /\ Stored(buf', e, got')
          /\ total_len' = Total(e, got')
          /\ (~IsReturned(e))' => \E H \in SUBSET Blocks :
                Linked(buf', first_hole', H) /\ Gaps(buf', H) /\ Spans(buf', H, Missing(got'))
  BY <1>15, <1>16, <1>17
<1> QED
  <2>1. PICK e \in Datagrams :
          /\ id' = ip_id[e]
          /\ Arrived(e, got')
          /\ Stored(buf', e, got')
          /\ total_len' = Total(e, got')
          /\ (~IsReturned(e))' => \E H \in SUBSET Blocks :
                Linked(buf', first_hole', H) /\ Gaps(buf', H) /\ Spans(buf', H, Missing(got'))
    BY <1>18
  <2>2. Forward(buf)'
    BY <1>17 DEF Forward
  <2>3. Arrived(e, got)' /\ Stored(buf, e, got)' /\ (total_len = Total(e, got))'
    BY <2>1 DEF Arrived, Stored, Total
  <2>4. ASSUME (~IsReturned(e))'
        PROVE  (\E H \in SUBSET Blocks : Linked(buf, first_hole, H) /\ Gaps(buf, H)
                                           /\ Spans(buf, H, Missing(got)))'
    <3>1. PICK H \in SUBSET Blocks :
            Linked(buf', first_hole', H) /\ Gaps(buf', H) /\ Spans(buf', H, Missing(got'))
      BY <2>1, <2>4
    <3>2. Linked(buf, first_hole, H)'
      BY <3>1 DEF Linked
    <3>3. Gaps(buf, H)'
      BY <3>1 DEF Gaps
    <3>4. Spans(buf, H, Missing(got))'
      BY <3>1 DEF Spans, Missing
    <3> QED
      BY <3>2, <3>3, <3>4
  <2> QED
    BY <1>13, <1>17, <2>1, <2>2, <2>3, <2>4 DEF IndInv

\* The invariant depends on these variables only.
LEMMA Unchanged ==
  ASSUME IndInv, buf' = buf, wild' = wild, first_hole' = first_hole, returned' = returned,
         got' = got, total_len' = total_len, id' = id
  PROVE  IndInv'
BY DEF IndInv, ReturnedIsComplete, IsReturned

\* A fresh start: one hole that has no end.
LEMMA FreshIs ==
  ASSUME NEW a, Forward(a), NEW d \in Datagrams
  PROVE  LET b == [a EXCEPT ![0] = Hole(ENDLESS, 0, 0)]
         IN  List(b, 0, {0}) /\ Spans(b, {0}, Missing({})) /\ Stored(b, d, {})
<1>1. PICK o : o = Hole(ENDLESS, 0, 0)
  OBVIOUS
<1>2. o \in Descriptors /\ o.kind = "hole" /\ o.last = ENDLESS /\ o.next = 0 /\ o.prev = 0
  BY <1>1 DEF Hole, Descriptors, ENDLESS
<1>3. PICK b : b = [a EXCEPT ![0] = o]
  OBVIOUS
<1>4. a = [c \in Blocks |-> a[c]] /\ 0 \in Blocks /\ ENDLESS \in Nat /\ ENDLESS > 0
  BY BlocksAre DEF Forward, ENDLESS
<1>5. b[0] = o /\ (\A c \in Blocks : c # 0 => b[c] = a[c]) /\ b = [c \in Blocks |-> b[c]]
  BY <1>3, <1>4
<1>6. At(0) = 0
  BY BlocksAre DEF At
<1>7. Forward(b)
  BY <1>2, <1>5 DEF Forward, IsHole
<1>8. Linked(b, 0, {0})
  BY <1>2, <1>4, <1>5 DEF Linked, NextIs, PrevIs
<1>9. Gaps(b, {0})
  BY <1>2, <1>4, <1>5, <1>6 DEF Gaps, IsHole
<1>10. Spans(b, {0}, Missing({}))
  <2> SUFFICES ASSUME NEW p \in 0 .. ENDLESS - 1
               PROVE  p \in Missing({}) <=> \E c \in {0} : At(c) <= p /\ p < b[c].last
    BY DEF Spans
  <2>1. 0 <= p /\ p < ENDLESS
    BY <1>4
  <2>2. p \in Missing({})
    BY DEF Missing
  <2> QED
    BY <1>2, <1>5, <1>6, <2>1, <2>2
<1> QED
  BY <1>1, <1>3, <1>7, <1>8, <1>9, <1>10 DEF List, Stored

\* Block 0 is no hole once the first fragment is there.
LEMMA NoHoleAtZero ==
  ASSUME NEW d \in Datagrams, NEW G \in SUBSET Fragments(d), \E g \in G : g.start = 0,
         NEW b, NEW first, NEW H, List(b, first, H), Spans(b, H, Missing(G))
  PROVE  0 \notin H
<1> SUFFICES ASSUME 0 \in H PROVE FALSE
  OBVIOUS
<1>1. At(0) = 0
  BY BlocksAre DEF At
<1>2. H \in SUBSET Blocks
  BY ListIs
<1>3. 0 \in Missing(G)
  BY <1>1, <1>2, HeadMissing DEF List
<1>4. PICK g \in G : g.start = 0
  OBVIOUS
<1>5. g.len \in Nat \ {0}
  BY FragmentIs
<1>6. Covers(g, 0)
  BY <1>4, <1>5 DEF Covers
<1> QED
  BY <1>3, <1>6 DEF Missing

LEMMA Step ==
  ASSUME IndInv, Conditions, NEW f \in AllFragments, Arrives(f), __NetDefragment(f)
  PROVE  IndInv'
<1>1. PICK d \in Datagrams : f \in Fragments(d)
  BY DEF AllFragments
<1>2. f.of = d
  BY <1>1, FragmentIs
<1>3. CASE ExtendsTooFar(f)
  <2>1. UNCHANGED <<buf, first_hole, total_len, wild, returned, id, got>>
    BY <1>3 DEF __NetDefragment
  <2> QED
    BY <2>1, Unchanged
<1>4. CASE ~ExtendsTooFar(f) /\ NewPacket(f)
  <2>1. PICK b : b = [buf EXCEPT ![0] = Hole(ENDLESS, 0, 0)]
    OBVIOUS
  <2>2. PICK h : h = Seek(b, 0, f.start)
    OBVIOUS
  <2>3. /\ id' = ip_id[f.of]
        /\ got' = {f}
        /\ IF h = LOST THEN GoesWild
           ELSE IF h = NONE \/ NoOverlap(f, h) THEN Drop(b, 0, 65535)
           ELSE Fill(f, b, 0, 65535, h)
    BY <1>4, <2>1, <2>2 DEF __NetDefragment
  <2>4. f.start = 0
    <3>1. total_len = 0 \/ id # ip_id[f.of]
      BY <1>4 DEF NewPacket
    <3>2. total_len = 0 => got = {}
      BY DEF IndInv
    <3>3. \/ f.start = 0
          \/ \E g \in got : g.start = 0 /\ g.of = f.of /\ id = ip_id[f.of]
      BY DEF Arrives, Conditions
    <3> QED
      BY <3>1, <3>2, <3>3
  <2>5. List(b, 0, {0}) /\ Spans(b, {0}, Missing({})) /\ Stored(b, d, {})
    BY <2>1, FreshIs DEF IndInv
  <2>6. Filled(d, {}, f, b, 0, h)
    <3>1. PICK G \in SUBSET Fragments(d) : G = {}
      OBVIOUS
    <3>2. PICK H : H = {0}
      OBVIOUS
    <3>3. PICK first : first = 0
      OBVIOUS
    <3>4. List(b, first, H) /\ Spans(b, H, Missing(G)) /\ Stored(b, d, G) /\ f \notin G
      BY <2>5, <3>1, <3>2, <3>3
    <3>5. Filled(d, G, f, b, first, Seek(b, first, f.start))
      BY <1>1, <1>4, <2>4, <3>4, Fills
    <3> QED
      BY <2>2, <3>1, <3>3, <3>5
  <2>7. Total(d, {}) = 65535
    BY DEF Total
  <2>8. Fill(f, b, 0, Total(d, {}), h)
    <3>1. h # NONE /\ h # LOST /\ ~NoOverlap(f, h)
      BY <2>6 DEF Filled
    <3> QED
      BY <2>3, <2>7, <3>1
  <2>9. PICK G \in SUBSET Fragments(d) : G = {}
    OBVIOUS
  <2>10. /\ Filled(d, G, f, b, 0, h) /\ Fill(f, b, 0, Total(d, G), h)
         /\ got' = G \cup {f} /\ id' = ip_id[d] /\ (\A g \in G : ~ExtendsTooFar(g))
         /\ \E g \in G \cup {f} : g.start = 0
    BY <1>2, <2>3, <2>4, <2>6, <2>8, <2>9
  <2> QED
    BY <1>1, <1>4, <2>10, FillStep
<1>5. CASE ~ExtendsTooFar(f) /\ ~NewPacket(f)
  <2>1. total_len # 0 /\ id = ip_id[d] /\ got # {}
    BY <1>2, <1>5 DEF NewPacket, IndInv
  <2>2. PICK h : h = Seek(buf, first_hole, f.start)
    OBVIOUS
  <2>3. /\ id' = ip_id[f.of]
        /\ got' = got \cup {f}
        /\ IF h = LOST THEN GoesWild
           ELSE IF h = NONE \/ NoOverlap(f, h) THEN Drop(buf, first_hole, total_len)
           ELSE Fill(f, buf, first_hole, total_len, h)
    BY <1>5, <2>2 DEF __NetDefragment
  <2>4. /\ Arrived(d, got) /\ Stored(buf, d, got) /\ total_len = Total(d, got)
        /\ ~IsReturned(d) => \E H \in SUBSET Blocks :
              Linked(buf, first_hole, H) /\ Gaps(buf, H) /\ Spans(buf, H, Missing(got))
    <3>1. PICK e \in Datagrams :
            /\ id = ip_id[e]
            /\ Arrived(e, got) /\ Stored(buf, e, got) /\ total_len = Total(e, got)
            /\ ~IsReturned(e) => \E H \in SUBSET Blocks :
                  Linked(buf, first_hole, H) /\ Gaps(buf, H) /\ Spans(buf, H, Missing(got))
      BY <2>1 DEF IndInv
    <3>2. e = d
      BY <2>1, <3>1 DEF Conditions
    <3> QED
      BY <3>1, <3>2
  <2>5. ~IsReturned(d)
    BY <1>2 DEF Arrives, Conditions
  <2>6. PICK H : List(buf, first_hole, H) /\ Spans(buf, H, Missing(got))
    BY <2>4, <2>5 DEF IndInv, List
  <2>7. PICK G \in SUBSET Fragments(d) : G = got
    BY <2>4 DEF Arrived
  <2>8. (\A g \in G : ~ExtendsTooFar(g)) /\ \E g \in G : g.start = 0
    BY <2>4, <2>7 DEF Arrived
  <2>9. PICK b : b = buf
    OBVIOUS
  <2>10. PICK first : first = first_hole
    OBVIOUS
  <2>11. List(b, first, H) /\ Spans(b, H, Missing(G)) /\ Stored(b, d, G)
    BY <2>4, <2>6, <2>7, <2>9, <2>10
  <2>12. CASE f \in G
    <3>1. got' = got
      BY <2>3, <2>7, <2>12
    <3>2. id' = id
      BY <1>2, <2>1, <2>3
    <3>3. PICK t : t = Trimmed(f, b, h)
      OBVIOUS
    <3>4. PICK r : r = Change(f, t, first, h)
      OBVIOUS
    <3>5. h = Seek(b, first, f.start)
      BY <2>2, <2>9, <2>10
    <3>6. \/ h = NONE
          \/ h # LOST /\ NoOverlap(f, h)
          \/ /\ h # NONE /\ h # LOST /\ ~NoOverlap(f, h)
             /\ ~(t[h].last > f.start + f.len)
             /\ \A c \in r.links : IsHole(t, c)
             /\ r.done = FALSE /\ r.first = first
             /\ CopyIn(r.buf, f) = b
      <4>1. Known(f, b, first, Seek(b, first, f.start))
        BY <1>1, <1>5, <2>11, <2>12, Again
      <4>2. Known(f, b, first, h)
        BY <3>5, <4>1
      <4> QED
        BY <3>3, <3>4, <4>2 DEF Known
    <3>7. CASE h # LOST /\ (h = NONE \/ NoOverlap(f, h))
      <4>1. Drop(buf, first_hole, total_len)
        BY <2>3, <3>7
      <4> QED
        BY <3>1, <3>2, <4>1, Unchanged DEF Drop
    <3>8. CASE /\ h # NONE /\ h # LOST /\ ~NoOverlap(f, h)
               /\ ~(t[h].last > f.start + f.len)
               /\ \A c \in r.links : IsHole(t, c)
               /\ r.done = FALSE /\ r.first = first
               /\ CopyIn(r.buf, f) = b
      <4>1. Fill(f, b, first, Total(d, G), h)
        BY <2>3, <2>4, <2>7, <2>9, <2>10, <3>8
      <4>2. /\ buf' = b /\ first_hole' = first /\ wild' = wild /\ returned' = returned
            /\ total_len' = IF f.more THEN Total(d, G) ELSE f.start + f.len
        <5>1. PICK n : n = Total(d, G)
          OBVIOUS
        <5>2. LET k == CopyIn(r.buf, f)
                  m == IF f.more THEN n ELSE f.start + f.len
              IN  /\ buf' = k /\ first_hole' = r.first /\ total_len' = m /\ wild' = wild
                  /\ returned' = IF r.done THEN returned \cup {Packet(k, m)} ELSE returned
          BY <3>3, <3>4, <3>8, <4>1, <5>1, FillIs
        <5> QED
          BY <3>8, <5>1, <5>2
      <4>3. total_len' = total_len
        <5>1. ~f.more => Total(d, G) = f.start + f.len
          BY <1>1, <2>12, FragmentIs DEF Total
        <5> QED
          BY <2>4, <2>7, <4>2, <5>1
      <4> QED
        BY <2>9, <2>10, <3>1, <3>2, <4>2, <4>3, Unchanged
    <3>9. NONE # LOST
      BY DEF NONE, LOST
    <3> QED
      BY <3>6, <3>7, <3>8, <3>9
  <2>13. CASE f \notin G
    <3>1. 0 \notin H
      BY <2>8, <2>11, NoHoleAtZero
    <3>2. Filled(d, G, f, b, first, Seek(b, first, f.start))
      BY <1>1, <1>5, <2>11, <2>13, <3>1, Fills
    <3>3. Filled(d, G, f, b, first, h)
      BY <2>2, <2>9, <2>10, <3>2
    <3>4. h # NONE /\ h # LOST /\ ~NoOverlap(f, h)
      BY <3>3 DEF Filled
    <3>5. Fill(f, b, first, Total(d, G), h)
      BY <2>3, <2>4, <2>7, <2>9, <2>10, <3>4
    <3>6. id' = ip_id[d] /\ got' = G \cup {f} /\ \E g \in G \cup {f} : g.start = 0
      BY <1>2, <2>3, <2>7, <2>8
    <3> QED
      BY <1>1, <1>5, <2>8, <3>3, <3>5, <3>6, FillStep
  <2> QED
    BY <2>12, <2>13
<1> QED
  BY <1>3, <1>4, <1>5

LEMMA Inductive ==
  ASSUME Conditions
  PROVE  Spec => []IndInv
<1>1. Init => IndInv
  BY StartsWell
<1>2. IndInv /\ [Next]_vars => IndInv'
  <2> SUFFICES ASSUME IndInv, [Next]_vars PROVE IndInv'
    OBVIOUS
  <2>1. CASE Next
    BY <2>1, Step DEF Next, NetReceive
  <2>2. CASE UNCHANGED vars
    BY <2>2, Unchanged DEF vars
  <2> QED
    BY <2>1, <2>2
<1> QED
  BY <1>1, <1>2, PTL DEF Spec
-----------------------------------------------------------------------------
(***************************************************************************)
(* Theorems.                                                               *)
(***************************************************************************)

\* total_len stays within its 16 bits, first_hole within the buffer.
THEOREM TypeCorrect ==
  ASSUME Conditions
  PROVE  Spec => []TypeOK
<1>1. IndInv => TypeOK
  <2> SUFFICES ASSUME IndInv PROVE TypeOK
    OBVIOUS
  <2>1. total_len \in Nat /\ total_len <= ENDLESS /\ got \subseteq AllFragments
    <3>1. CASE got = {}
      BY <3>1 DEF IndInv, ENDLESS
    <3>2. CASE got # {}
      <4>1. PICK d \in Datagrams : Arrived(d, got) /\ total_len = Total(d, got)
        BY <3>2 DEF IndInv
      <4>2. got \in SUBSET Fragments(d) /\ \A g \in got : ~ExtendsTooFar(g)
        BY <4>1 DEF Arrived
      <4>3. PICK G \in SUBSET Fragments(d) : G = got
        BY <4>2
      <4>4. Total(d, G) \in Nat \ {0} /\ Total(d, G) <= ENDLESS
        BY <4>2, <4>3, TotalIs
      <4> QED
        BY <4>1, <4>2, <4>3, <4>4 DEF AllFragments
    <3> QED
      BY <3>1, <3>2
  <2>2. total_len \in 0 .. ENDLESS /\ ENDLESS \in Nat
    <3>1. ENDLESS \in Nat
      BY DEF ENDLESS
    <3> QED
      BY <2>1, <3>1
  <2>4. Blocks \subseteq DOMAIN buf /\ first_hole \in Blocks /\ wild \in BOOLEAN
    BY DEF IndInv, Forward
  <2> QED
    BY <2>1, <2>2, <2>4 DEF TypeOK
<1> QED
  BY <1>1, Inductive, PTL

\* __NetDefragment never follows the list of holes into data that a fragment wrote over
\* it, and neither a descriptor nor the data of a fragment leaves pkt_buff.
THEOREM StaysInBuffer ==
  ASSUME Conditions
  PROVE  Spec => []NeverWild
<1>1. IndInv => NeverWild
  BY DEF IndInv, Forward, NeverWild
<1> QED
  BY <1>1, Inductive, PTL

\* What __NetDefragment returns is a whole datagram, whatever the order, the losses and
\* the copies of its fragments and of those of other datagrams between them.
THEOREM Complete ==
  ASSUME Conditions
  PROVE  Spec => []ReturnedIsComplete
<1>1. IndInv => ReturnedIsComplete
  BY DEF IndInv
<1> QED
  BY <1>1, Inductive, PTL

\* A datagram whose fragments have all arrived is not kept: the last of them, whichever
\* it is, finds no hole left.
THEOREM HandedOn ==
  ASSUME Conditions
  PROVE  Spec => []CompleteIsReturned
<1>1. IndInv => CompleteIsReturned
  <2> SUFFICES ASSUME IndInv, NEW d \in Datagrams, Fragments(d) \subseteq got, ~IsReturned(d)
               PROVE  FALSE
    BY DEF CompleteIsReturned
  <2>1. Length[d] \in Nat /\ Length[d] > 0
    BY DefragAssumption
  <2>2. PICK f \in Fragments(d) : Covers(f, Length[d] - 1)
    <3>1. Length[d] - 1 \in Nat /\ Length[d] - 1 < Length[d]
      BY <2>1
    <3> QED
      BY <3>1, FragmentAt
  <2>3. f \in got /\ ~f.more /\ f.start + f.len = Length[d]
    <3>1. f.start \in Nat /\ f.len \in Nat
      BY FragmentIs
    <3>2. ~f.more
      <4> SUFFICES ASSUME f.more PROVE FALSE
        OBVIOUS
      <4>1. f.start + f.len < Length[d]
        BY FragmentIs
      <4> QED
        BY <2>1, <2>2, <3>1, <4>1 DEF Covers
    <3> QED
      BY <3>2, FragmentIs
  <2>4. PICK e \in Datagrams :
          /\ Arrived(e, got)
          /\ ~IsReturned(e) => \E H \in SUBSET Blocks :
                Linked(buf, first_hole, H) /\ Gaps(buf, H) /\ Spans(buf, H, Missing(got))
    BY <2>3 DEF IndInv
  <2>5. e = d
    <3>1. f \in Fragments(e)
      BY <2>3, <2>4 DEF Arrived
    <3>2. f.of = e
      BY <3>1, FragmentIs
    <3>3. f.of = d
      BY FragmentIs
    <3> QED
      BY <3>2, <3>3
  <2>6. PICK H \in SUBSET Blocks :
          List(buf, first_hole, H) /\ Spans(buf, H, Missing(got))
    BY <2>4, <2>5 DEF IndInv, List
  <2>7. PICK c \in H : At(c) \in Missing(got) /\ At(c) \in Nat
    <3>1. first_hole \in H
      BY <2>6 DEF List, Linked
    <3>2. PICK b : b = buf
      OBVIOUS
    <3>3. PICK M : M = Missing(got)
      OBVIOUS
    <3>4. Forward(b) /\ Gaps(b, H) /\ Spans(b, H, M)
      BY <2>6, <3>2, <3>3 DEF List
    <3>5. \A x \in H : At(x) \in M
      BY <3>4, HeadMissing
    <3>6. \A x \in H : At(x) \in Nat
      BY BlocksAre, AtIs
    <3> QED
      BY <3>1, <3>3, <3>5, <3>6
  <2>8. At(c) < Length[d]
    BY <2>3, <2>7 DEF Missing
  <2>9. PICK g \in Fragments(d) : Covers(g, At(c))
    BY <2>7, <2>8, FragmentAt
  <2> QED
    BY <2>7, <2>9 DEF Missing
<1> QED
  BY <1>1, Inductive, PTL

\* While a packet is assembled, the list that is threaded through the buffer names the
\* bytes that have not arrived, no more and no less.
THEOREM ListIsExact ==
  ASSUME Conditions
  PROVE  Spec => []HolesAreMissing
<1>1. IndInv => HolesAreMissing
  <2> SUFFICES ASSUME IndInv, Assembling
               PROVE  HoleBytes = {p \in 0 .. IP_MAXUDP - 1 :
                         /\ \A f \in got : p < f.start \/ p >= f.start + f.len
                         /\ \A f \in got : ~f.more => p < f.start + f.len}
    BY DEF HolesAreMissing
  <2>1. got # {} /\ \A f \in got : ~IsReturned(f.of)
    BY DEF Assembling
  <2>2. PICK d \in Datagrams :
          /\ Arrived(d, got)
          /\ ~IsReturned(d) => \E H \in SUBSET Blocks :
                Linked(buf, first_hole, H) /\ Gaps(buf, H) /\ Spans(buf, H, Missing(got))
    BY <2>1 DEF IndInv
  <2>3. got \in SUBSET Fragments(d)
    BY <2>2 DEF Arrived
  <2>4. ~IsReturned(d)
    <3>1. PICK f \in got : f.start = 0
      BY <2>2 DEF Arrived
    <3>2. f.of = d
      BY <2>3, FragmentIs
    <3> QED
      BY <2>1, <3>2
  <2>5. PICK H \in SUBSET Blocks :
          Linked(buf, first_hole, H) /\ Gaps(buf, H) /\ Spans(buf, H, Missing(got))
    BY <2>2, <2>4
  <2>6. HoleBytes = {p \in 0 .. IP_MAXUDP - 1 :
                        \E c \in H : At(c) <= p /\ p < buf[c].last}
    BY <2>5, HoleBytesIs DEF IndInv
  <2>7. ASSUME NEW p \in 0 .. IP_MAXUDP - 1
        PROVE  (\E c \in H : At(c) <= p /\ p < buf[c].last) <=>
                         /\ \A f \in got : p < f.start \/ p >= f.start + f.len
                         /\ \A f \in got : ~f.more => p < f.start + f.len
    <3>1. IP_MAXUDP \in Nat /\ IP_MAXUDP < ENDLESS /\ ENDLESS \in Nat
      BY BlocksAre DEF Conditions, ENDLESS
    <3>2. p \in 0 .. ENDLESS - 1 /\ p \in Nat
      BY <3>1
    <3>3. (\E c \in H : At(c) <= p /\ p < buf[c].last) <=> p \in Missing(got)
      BY <2>5, <3>2 DEF Spans
    <3>4. \A f \in got : f.start \in Nat /\ f.len \in Nat
      BY <2>3, FragmentIs
    <3>5. \A f \in got : (p < f.start \/ p >= f.start + f.len) <=> ~Covers(f, p)
      BY <3>2, <3>4 DEF Covers
    <3> QED
      BY <3>2, <3>3, <3>5 DEF Missing
  <2> QED
    BY <2>6, <2>7
<1> QED
  BY <1>1, Inductive, PTL
=============================================================================
