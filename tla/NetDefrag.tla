------------------------------ MODULE NetDefrag ------------------------------
(***************************************************************************)
(* Reassembly of IP fragments, __NetDefragment of net/net.c, which builds  *)
(* with CONFIG_IP_DEFRAG use between the Ethernet driver and the handlers  *)
(* of TFTP and NFS.                                                        *)
(*                                                                         *)
(* The list of what is still missing is kept inside the buffer itself:     *)
(* each hole begins at a multiple of UNIT bytes, and its first UNIT bytes  *)
(* are the descriptor (where it ends, the next and the previous hole as    *)
(* block numbers, 0 for none).  The buffer is modelled block by block; a   *)
(* block is a descriptor or data.  Following the list into a block that    *)
(* holds data, or placing a descriptor outside the buffer, is undefined:   *)
(* the model raises wild and stops.                                        *)
(*                                                                         *)
(* The network may lose, reorder and repeat fragments (any number of       *)
(* times) and interleave those of several datagrams.  Fragments of one     *)
(* datagram never overlap.                                                 *)
(***************************************************************************)
EXTENDS Integers, FiniteSets

CONSTANTS UNIT,        \* the 8 bytes of a block
          IP_MAXUDP,   \* bytes that can be assembled
          Datagrams,   \* what is sent,
          Length,      \*   the bytes of each,
          ip_id,       \*   and its identification
          FRAG,        \* bytes of a fragment, except the last one
          FirstFirst,  \* a fragment arrives only while the first one of its
                       \*   datagram is in the buffer
          LateCopies   \* fragments arrive after their packet was completed

ASSUME DefragAssumption ==
  /\ UNIT \in Nat \ {0} /\ IP_MAXUDP \in Nat
  /\ FRAG \in Nat \ {0} /\ FRAG % UNIT = 0
  /\ \A d \in Datagrams : Length[d] \in Nat /\ Length[d] > FRAG

ENDLESS == 65535       \* last_byte = ~0

VARIABLES total_len,   \* 0 before the first fragment
          id,          \* localip->ip_id
          first_hole,
          buf,         \* pkt_buff behind the IP header, by blocks
          wild,        \* undefined behaviour was reached
          got,         \* history: fragments that arrived for this packet
          returned     \* history: the packets handed on

vars == <<total_len, id, first_hole, buf, wild, got, returned>>

Blocks == 0 .. IP_MAXUDP \div UNIT

Hole(last, next, prev) ==
  [kind |-> "hole", last |-> last, next |-> next, prev |-> prev]
Data(d, c) == [kind |-> "data", of |-> d, at |-> c]
Unset == [kind |-> "unset"]

IsHole(b, c) == b[c].kind = "hole"
InBuffer(c) == (c + 1) * UNIT <= IP_MAXUDP

Fragments(d) ==
  { [of |-> d, start |-> s, more |-> s + FRAG < Length[d],
     len |-> IF s + FRAG < Length[d] THEN FRAG ELSE Length[d] - s] :
    s \in {k * FRAG : k \in 0 .. (Length[d] - 1) \div FRAG} }

AllFragments == UNION {Fragments(d) : d \in Datagrams}

Init == /\ total_len = 0 /\ id = 0 /\ first_hole = 0
        /\ buf = [c \in Blocks |-> Unset]
        /\ wild = FALSE
        /\ got = {} /\ returned = {}
-----------------------------------------------------------------------------
NONE == -1
LOST == -2

(* The first hole that does not end before the fragment starts; NONE when  *)
(* there is none that far away, LOST when the list leads into data.        *)
Seek(b, first, start) ==
  LET seek[c \in Blocks] == IF ~IsHole(b, c) THEN LOST
                            ELSE IF b[c].last >= start THEN c
                            ELSE IF b[c].next = 0 THEN NONE
                            ELSE seek[b[c].next]
  IN  seek[first]

(* The list after the fragment at block off, len bytes long, was matched   *)
(* with the hole h: its blocks, its first hole, whether nothing is left,   *)
(* and the descriptors that are written.                                   *)

(* Mutant: only the end of the list is looked at. *)
RemoveHoleLast(b, first, h) ==
  LET n == b[h].next
      p == b[h].prev
  IN  [buf |-> b, first |-> first, done |-> n = 0, links |-> {n, p} \ {0}]

(* The whole hole is filled: it is taken out of the list, *)
RemoveHole(b, first, h) ==
  LET n == b[h].next
      p == b[h].prev
  IN  [buf   |-> [c \in Blocks |->
                    IF c = n /\ n # 0 THEN [b[c] EXCEPT !.prev = p]
                    ELSE IF c = p /\ p # 0 THEN [b[c] EXCEPT !.next = n]
                    ELSE b[c]],
       first |-> IF p = 0 /\ n # 0 THEN n ELSE first,
       done  |-> p = 0 /\ n = 0,
       links |-> {n, p} \ {0}]

(* or its end, *)
ShortenHole(b, first, h, start) ==
  [buf |-> [b EXCEPT ![h].last = start], first |-> first,
   done |-> FALSE, links |-> {h}]

(* Mutant: the hole before this one still names the old place. *)
MoveHoleAlone(b, first, h, new) ==
  [buf   |-> [b EXCEPT ![new] = b[h]],
   first |-> IF b[h].prev = 0 THEN new ELSE first,
   done  |-> FALSE,
   links |-> {}]

(* or its beginning: the descriptor moves behind the fragment, *)
MoveHole(b, first, h, new) ==
  LET n == b[h].next
      p == b[h].prev
  IN  [buf   |-> [c \in Blocks |->
                    IF c = new THEN b[h]
                    ELSE IF c = n /\ n # 0 THEN [b[c] EXCEPT !.prev = new]
                    ELSE IF c = p /\ p # 0 THEN [b[c] EXCEPT !.next = new]
                    ELSE b[c]],
       first |-> IF p = 0 THEN new ELSE first,
       done  |-> FALSE,
       links |-> {n, p} \ {0}]

(* Mutant: the part before the fragment keeps its end. *)
SplitHoleLong(b, first, h, new, start) ==
  LET n == b[h].next
  IN  [buf   |-> [c \in Blocks |->
                    IF c = new THEN [b[h] EXCEPT !.prev = h]
                    ELSE IF c = h THEN [b[h] EXCEPT !.next = new]
                    ELSE IF c = n /\ n # 0 THEN [b[c] EXCEPT !.prev = new]
                    ELSE b[c]],
       first |-> first,
       done  |-> FALSE,
       links |-> {n} \ {0}]

(* or its middle: the part behind the fragment becomes a hole of its own. *)
SplitHole(b, first, h, new, start) ==
  LET n == b[h].next
  IN  [buf   |-> [c \in Blocks |->
                    IF c = new THEN [b[h] EXCEPT !.prev = h]
                    ELSE IF c = h THEN [b[h] EXCEPT !.last = start, !.next = new]
                    ELSE IF c = n /\ n # 0 THEN [b[c] EXCEPT !.prev = new]
                    ELSE b[c]],
       first |-> first,
       done  |-> FALSE,
       links |-> {n} \ {0}]
-----------------------------------------------------------------------------
(* memcpy of the fragment over its blocks. *)
CopyIn(b, f) ==
  LET to == f.start \div UNIT .. (f.start + f.len - 1) \div UNIT
  IN  [c \in Blocks \cup to |-> IF c \in to THEN Data(f.of, c) ELSE b[c]]

(* A new packet, or one with another identification, starts afresh. *)
NewPacket(f) == total_len = 0 \/ id # ip_id[f.of]

ExtendsTooFar(f) == f.start + f.len > IP_MAXUDP

(* Mutant: a fragment that begins with the hole counts as known. *)
NoOverlapStart(f, h) == f.start \div UNIT <= h

(* The fragment ends before the hole begins: it has been here before. *)
NoOverlap(f, h) == (f.start \div UNIT) + (f.len \div UNIT) <= h

(* Neither return changes more than a fresh start has. *)
Drop(b, first, total) ==
  /\ buf' = b /\ first_hole' = first /\ total_len' = total
  /\ UNCHANGED <<wild, returned>>

GoesWild == /\ wild' = TRUE
            /\ UNCHANGED <<buf, first_hole, total_len, returned>>

(* The packet that is handed on. *)
Packet(b, total) == [id |-> id', len |-> total,
                     data |-> [c \in 0 .. (total - 1) \div UNIT |-> b[c]]]

(* The fragment meets the hole h. *)
Fill(f, b0, first, total0, h) ==
  LET off   == f.start \div UNIT
      end   == f.start + f.len
      new   == off + f.len \div UNIT
      total == IF f.more THEN total0 ELSE end
      b     == IF f.more THEN b0 ELSE [b0 EXCEPT ![h].last = end]
      moves == b[h].last > end
      r     == IF moves
                 THEN IF h >= off THEN MoveHole(b, first, h, new)
                      ELSE SplitHole(b, first, h, new, f.start)
                 ELSE IF h >= off THEN RemoveHole(b, first, h)
                      ELSE ShortenHole(b, first, h, f.start)
  IN  IF (moves => InBuffer(new)) /\ (\A c \in r.links : IsHole(b, c))
      THEN LET filled == CopyIn(r.buf, f)
           IN  /\ buf' = filled
               /\ first_hole' = r.first
               /\ total_len' = total
               /\ returned' = IF r.done THEN returned \cup {Packet(filled, total)}
                              ELSE returned
               /\ UNCHANGED wild
      ELSE GoesWild

__NetDefragment(f) ==
  LET fresh == NewPacket(f)
      b     == IF fresh THEN [buf EXCEPT ![0] = Hole(ENDLESS, 0, 0)] ELSE buf
      first == IF fresh THEN 0 ELSE first_hole
      total == IF fresh THEN 65535 ELSE total_len
      h     == Seek(b, first, f.start)
  IN  IF ExtendsTooFar(f)
      THEN UNCHANGED <<buf, first_hole, total_len, wild, returned, id, got>>
      ELSE /\ id' = ip_id[f.of]
           /\ got' = IF fresh THEN {f} ELSE got \cup {f}
           /\ IF h = LOST THEN GoesWild
              ELSE IF h = NONE \/ NoOverlap(f, h) THEN Drop(b, first, total)
              ELSE Fill(f, b, first, total, h)
-----------------------------------------------------------------------------
IsReturned(d) == \E r \in returned : r.id = ip_id[d]

(* What the network may bring. *)
Arrives(f) ==
  /\ FirstFirst => \/ f.start = 0
                   \/ \E g \in got : /\ g.start = 0 /\ g.of = f.of
                                     /\ id = ip_id[f.of]
  /\ LateCopies \/ ~IsReturned(f.of)

NetReceive == \E f \in AllFragments :
                /\ ~wild
                /\ Arrives(f)
                /\ __NetDefragment(f)

Next == NetReceive

Spec == Init /\ [][Next]_vars
-----------------------------------------------------------------------------
(***************************************************************************)
(* Properties.                                                             *)
(***************************************************************************)

(* Types.                                                                  *)
TypeOK == /\ total_len \in 0 .. ENDLESS    \* 16 bits
          /\ first_hole \in Blocks
          /\ Blocks \subseteq DOMAIN buf
          /\ wild \in BOOLEAN
          /\ got \subseteq AllFragments

(* "It returns NULL or the pointer to a complete packet": every block of a *)
(* returned packet is the data of one and the same datagram, and all of it *)
(* is there.                                                               *)
ReturnedIsComplete ==
  \A r \in returned : \E d \in Datagrams :
     /\ r.id = ip_id[d] /\ r.len = Length[d]
     /\ \A c \in 0 .. (Length[d] - 1) \div UNIT : r.data[c] = Data(d, c)

Assembling == total_len # 0 /\ got # {} /\ \A f \in got : ~IsReturned(f.of)

(* The bytes that the list of holes, followed from first_hole, says are    *)
(* missing.                                                                *)
HoleBytes ==
  LET span(c) == {p \in 0 .. IP_MAXUDP - 1 : p >= c * UNIT /\ p < buf[c].last}
      from[c \in Blocks] == IF ~IsHole(buf, c) THEN {NONE}
                            ELSE span(c) \cup IF buf[c].next = 0 THEN {}
                                              ELSE from[buf[c].next]
  IN  from[first_hole]

(* While a packet is assembled, whatever the order and number of copies,   *)
(* the list of holes kept in the buffer describes exactly the bytes that   *)
(* have not arrived, up to the end of the packet once that is known.       *)
HolesAreMissing ==
  Assembling =>
    HoleBytes = {p \in 0 .. IP_MAXUDP - 1 :
                   /\ \A f \in got : p < f.start \/ p >= f.start + f.len
                   /\ \A f \in got : ~f.more => p < f.start + f.len}

(* The list is never followed into data, and neither a descriptor nor the  *)
(* data of a fragment lies outside the buffer.                             *)
NeverWild == ~wild /\ DOMAIN buf = Blocks

(* A packet all of whose fragments have arrived, with none of another one  *)
(* between them, has been handed on.                                       *)
CompleteIsReturned ==
  \A d \in Datagrams : Fragments(d) \subseteq got => IsReturned(d)
=============================================================================
