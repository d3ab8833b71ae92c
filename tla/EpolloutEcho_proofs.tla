------------------------ MODULE EpolloutEcho_proofs ------------------------
(***************************************************************************)
(* The safety of EpolloutEcho, for every number of clients, every ring     *)
(* and every size of the sockets' buffers and of a batch.  The invariant   *)
(* has the rings and the streams (data), what is registered, and for the   *)
(* handler under way how far its recv or send loop has come in the blocks  *)
(* that it was given; the first theorems, of the ring alone, say what      *)
(* these blocks are.                                                       *)
(***************************************************************************)
EXTENDS EpolloutEcho, SequenceTheorems, TLAPS

------------------------------------------------------------------------------
(* Facts about the remainder that index the slots of a ring.               *)

\* A number is a multiple of n plus its remainder.
LEMMA Division ==
    ASSUME NEW n \in Nat \ {0}, NEW j \in Nat
    PROVE  \E q \in Nat : j = n * q + (j % n)
<1> DEFINE q == j \div n
           r == j - n * q
<1>1. q \in Int /\ n * q <= j /\ j < n * q + n
  OBVIOUS
<1>2. q \in Nat
  <2>1. SUFFICES ASSUME q <= -1 PROVE FALSE
    BY <1>1
  <2>2. n * q <= -n
    BY <1>1, <2>1
  <2> QED
    BY <1>1, <2>2
<1>3. r \in 0 .. n - 1 /\ j = n * q + r
  BY <1>1
<1> HIDE DEF q, r
<1>4. j % n = r
  BY <1>2, <1>3
<1> QED
  BY <1>2, <1>3, <1>4

\* What is left after a multiple of n is the remainder.
LEMMA Remainder ==
    ASSUME NEW n \in Nat \ {0}, NEW q \in Nat, NEW r \in 0 .. n - 1, NEW j \in Nat,
           j = n * q + r
    PROVE  j % n = r
OBVIOUS

\* Two different counters less than a turn apart are in different slots.
LEMMA ModWindow ==
    ASSUME NEW n \in Nat \ {0}, NEW j \in Nat, NEW k \in Nat,
           j < k, k < j + n
    PROVE  j % n # k % n
<1>1. PICK a \in Nat : j = n * a + (j % n)
  BY Division
<1>2. PICK b \in Nat : k = n * b + (k % n)
  BY Division
<1>3. SUFFICES ASSUME j % n = k % n PROVE FALSE
  OBVIOUS
<1>4. k - j = n * (b - a)
  BY <1>1, <1>2, <1>3
<1>5. b - a >= 1
  BY <1>4
<1>6. n * (b - a) >= n
  BY <1>5
<1> QED
  BY <1>4, <1>6

------------------------------------------------------------------------------
(* The iovec functions of RingBuffer, for every ring size and every pair   *)
(* of counters f and p, lo and hi here, that the class can hold.           *)

\* The counters of a ring: not more bytes held than all slots but one.
Counters(lo, hi) == lo \in Nat /\ hi \in Nat /\ lo <= hi /\ hi - lo <= max_pkt_size - 1

\* Where the counters' slots are relative to each other.
LEMMA Gap ==
    ASSUME NEW lo, NEW hi, Counters(lo, hi)
    PROVE  LET mf == lo % max_pkt_size
               mp == hi % max_pkt_size
           IN  /\ mf \in RingSlots /\ mp \in RingSlots
               /\ hi - lo = IF mf <= mp THEN mp - mf ELSE max_pkt_size + mp - mf
<1> DEFINE mf == lo % max_pkt_size
           mp == hi % max_pkt_size
<1>1. max_pkt_size \in Nat \ {0} /\ lo \in Nat /\ hi \in Nat /\ lo <= hi /\ hi - lo <= max_pkt_size - 1
  BY RingAssumption DEF Counters
<1>2. PICK a \in Nat : lo = max_pkt_size * a + mf
  BY <1>1, Division
<1>3. PICK b \in Nat : hi = max_pkt_size * b + mp
  BY <1>1, Division
<1>4. mf \in 0 .. max_pkt_size - 1 /\ mp \in 0 .. max_pkt_size - 1
  BY <1>1
<1> HIDE DEF mf, mp
<1>5. hi - lo = max_pkt_size * (b - a) + mp - mf
  BY <1>1, <1>2, <1>3, <1>4
<1>6. CASE b - a <= -1
  <2>1. max_pkt_size * (b - a) <= -max_pkt_size
    BY <1>1, <1>6
  <2> QED
    BY <1>1, <1>4, <1>5, <2>1
<1>7. CASE b - a >= 2
  <2>1. max_pkt_size * (b - a) >= 2 * max_pkt_size
    BY <1>1, <1>7
  <2> QED
    BY <1>1, <1>4, <1>5, <2>1
<1>8. CASE b - a = 0 \/ b - a = 1
  <2>1. max_pkt_size * (b - a) = 0 \/ max_pkt_size * (b - a) = max_pkt_size
    BY <1>1, <1>8
  <2>2. hi - lo = IF mf <= mp THEN mp - mf ELSE max_pkt_size + mp - mf
    BY <1>1, <1>4, <1>5, <2>1
  <2> QED
    BY <1>4, <2>2 DEF mf, mp, RingSlots
<1> QED
  BY <1>6, <1>7, <1>8

\* The slot of a byte a little after the counter j.
LEMMA SlotAfter ==
    ASSUME NEW j \in Nat, NEW k \in RingSlots
    PROVE  LET m == j % max_pkt_size
           IN  (j + k) % max_pkt_size
                  = IF m + k < max_pkt_size THEN m + k ELSE m + k - max_pkt_size
<1> DEFINE m == j % max_pkt_size
<1>1. max_pkt_size \in Nat \ {0} /\ k \in 0 .. max_pkt_size - 1
  BY RingAssumption DEF RingSlots
<1>2. PICK a \in Nat : j = max_pkt_size * a + m
  BY <1>1, Division
<1>3. m \in 0 .. max_pkt_size - 1
  BY <1>1
<1> HIDE DEF m
<1>4. CASE m + k < max_pkt_size
  <2>1. j + k = max_pkt_size * a + (m + k) /\ m + k \in 0 .. max_pkt_size - 1
    BY <1>1, <1>2, <1>3, <1>4
  <2>2. (j + k) % max_pkt_size = m + k
    <3> DEFINE s == j + k
               r == m + k
    <3>1. s \in Nat /\ r \in 0 .. max_pkt_size - 1 /\ s = max_pkt_size * a + r
      BY <1>1, <2>1
    <3> HIDE DEF s, r
    <3>2. s % max_pkt_size = r
      BY <1>1, <3>1, Remainder
    <3> QED
      BY <3>2 DEF s, r
  <2> QED
    BY <1>4, <2>2 DEF m
<1>5. CASE m + k >= max_pkt_size
  <2>1. j + k = max_pkt_size * (a + 1) + (m + k - max_pkt_size) /\ m + k - max_pkt_size \in 0 .. max_pkt_size - 1
    BY <1>1, <1>2, <1>3, <1>5
  <2>2. (j + k) % max_pkt_size = m + k - max_pkt_size
    <3> DEFINE s == j + k
               r == m + k - max_pkt_size
    <3>1. s \in Nat /\ r \in 0 .. max_pkt_size - 1 /\ s = max_pkt_size * (a + 1) + r
      BY <1>1, <2>1
    <3> HIDE DEF s, r
    <3>2. s % max_pkt_size = r
      BY <1>1, <3>1, Remainder
    <3> QED
      BY <3>2 DEF s, r
  <2> QED
    BY <1>3, <1>5, <1>1, <2>2 DEF m
<1> QED
  BY <1>1, <1>3, <1>4, <1>5

\* One or two blocks, none of them empty, inside the buffer.
Blocks(v) ==
    /\ Len(v) \in {1, 2}
    /\ \A b \in 1 .. Len(v) :
          /\ v[b].base \in RingSlots
          /\ v[b].len \in RingSlots \ {0}
          /\ v[b].base + v[b].len <= max_pkt_size

\* When there is room, get_blank_iovec returns exactly the free slots but
\* one, in the order in which bytes hi, hi + 1, ... go into them: recv fills
\* the ring without a gap and never asks for zero bytes.
THEOREM BlankIovec ==
    ASSUME NEW lo, NEW hi, Counters(lo, hi), get_blank_size(lo, hi) > 0
    PROVE  LET v == get_blank_iovec(lo, hi)
           IN  /\ Blocks(v)
               /\ Total(v) = get_blank_size(lo, hi)
               /\ \A k \in 0 .. get_blank_size(lo, hi) - 1 :
                     SlotOf(v, k) = (hi + k) % max_pkt_size
<1> DEFINE mf == lo % max_pkt_size
           mp == hi % max_pkt_size
           v == get_blank_iovec(lo, hi)
           size == get_blank_size(lo, hi)
<1>1. /\ max_pkt_size \in Nat \ {0, 1} /\ lo \in Nat /\ hi \in Nat
      /\ mf \in 0 .. max_pkt_size - 1 /\ mp \in 0 .. max_pkt_size - 1
      /\ size = max_pkt_size - 1 - (IF mf <= mp THEN mp - mf ELSE max_pkt_size + mp - mf) /\ size > 0
  BY RingAssumption, Gap DEF Counters, get_blank_size, RingSlots
<1>2. ASSUME NEW k \in 0 .. size - 1
      PROVE  (hi + k) % max_pkt_size = IF mp + k < max_pkt_size THEN mp + k ELSE mp + k - max_pkt_size
  <2>1. k \in RingSlots
    BY <1>1, <1>2 DEF RingSlots
  <2> QED
    BY <1>1, <2>1, SlotAfter
<1>3. v = CASE mp < mf             -> <<Block(mp, mf - mp - 1)>>
             [] mf <= mp /\ mf = 0  -> <<Block(mp, max_pkt_size - mp - 1)>>
             [] mf <= mp /\ mf = 1  -> <<Block(mp, max_pkt_size - mp)>>
             [] mf <= mp /\ mf > 1  -> <<Block(mp, max_pkt_size - mp), Block(0, mf - 1)>>
  BY DEF get_blank_iovec
<1>. SUFFICES /\ Blocks(v)
              /\ Total(v) = size
              /\ \A k \in 0 .. size - 1 : SlotOf(v, k) = (hi + k) % max_pkt_size
  OBVIOUS
<1> HIDE DEF mf, mp, v, size
<1> USE DEF Blocks, Total, SlotOf, Block, RingSlots
<1>4. CASE mp < mf
  <2>1. v = <<Block(mp, mf - mp - 1)>>
    BY <1>1, <1>3, <1>4
  <2>2. Blocks(v)
    BY <1>1, <1>4, <2>1
  <2>3. Total(v) = size
    BY <1>1, <1>4, <2>1
  <2>4. ASSUME NEW k \in 0 .. size - 1
        PROVE  SlotOf(v, k) = (hi + k) % max_pkt_size
    BY <1>1, <1>2, <1>4, <2>1
  <2> QED
    BY <2>2, <2>3, <2>4
<1>5. CASE mf <= mp /\ mf = 0
  <2>1. v = <<Block(mp, max_pkt_size - mp - 1)>>
    BY <1>1, <1>3, <1>5
  <2>2. Blocks(v)
    BY <1>1, <1>5, <2>1
  <2>3. Total(v) = size
    BY <1>1, <1>5, <2>1
  <2>4. ASSUME NEW k \in 0 .. size - 1
        PROVE  SlotOf(v, k) = (hi + k) % max_pkt_size
    BY <1>1, <1>2, <1>5, <2>1
  <2> QED
    BY <2>2, <2>3, <2>4
<1>6. CASE mf <= mp /\ mf = 1
  <2>1. v = <<Block(mp, max_pkt_size - mp)>>
    BY <1>1, <1>3, <1>6
  <2>2. Blocks(v)
    BY <1>1, <1>6, <2>1
  <2>3. Total(v) = size
    BY <1>1, <1>6, <2>1
  <2>4. ASSUME NEW k \in 0 .. size - 1
        PROVE  SlotOf(v, k) = (hi + k) % max_pkt_size
    BY <1>1, <1>2, <1>6, <2>1
  <2> QED
    BY <2>2, <2>3, <2>4
<1>7. CASE mf <= mp /\ mf > 1
  <2>1. v = <<Block(mp, max_pkt_size - mp), Block(0, mf - 1)>>
    BY <1>1, <1>3, <1>7
  <2>2. Blocks(v)
    BY <1>1, <1>7, <2>1
  <2>3. Total(v) = size
    BY <1>1, <1>7, <2>1
  <2>4. ASSUME NEW k \in 0 .. size - 1
        PROVE  SlotOf(v, k) = (hi + k) % max_pkt_size
    BY <1>1, <1>2, <1>7, <2>1
  <2> QED
    BY <2>2, <2>3, <2>4
<1> QED
  BY <1>1, <1>4, <1>5, <1>6, <1>7

\* When bytes are held, get_exist_iovec returns exactly their slots, oldest
\* byte first: send transmits bytes lo, lo + 1, ... in order.
THEOREM ExistIovec ==
    ASSUME NEW lo, NEW hi, Counters(lo, hi), get_exist_size(lo, hi) > 0
    PROVE  LET v == get_exist_iovec(lo, hi)
           IN  /\ Blocks(v)
               /\ Total(v) = get_exist_size(lo, hi)
               /\ \A k \in 0 .. get_exist_size(lo, hi) - 1 :
                     SlotOf(v, k) = (lo + k) % max_pkt_size
<1> DEFINE mf == lo % max_pkt_size
           mp == hi % max_pkt_size
           v == get_exist_iovec(lo, hi)
           size == get_exist_size(lo, hi)
<1>1. /\ max_pkt_size \in Nat \ {0, 1} /\ lo \in Nat /\ hi \in Nat
      /\ mf \in 0 .. max_pkt_size - 1 /\ mp \in 0 .. max_pkt_size - 1
      /\ size = (IF mf <= mp THEN mp - mf ELSE max_pkt_size + mp - mf) /\ size > 0 /\ size < max_pkt_size
  <2>1. hi - lo = IF mf <= mp THEN mp - mf ELSE max_pkt_size + mp - mf
    BY Gap
  <2>2. size = hi - lo /\ size > 0
    BY DEF get_exist_size
  <2>3. mf \in 0 .. max_pkt_size - 1 /\ mp \in 0 .. max_pkt_size - 1
    BY Gap DEF RingSlots
  <2> HIDE DEF mf, mp, size
  <2> QED
    BY <2>1, <2>2, <2>3, RingAssumption DEF Counters
<1>2. ASSUME NEW k \in 0 .. size - 1
      PROVE  (lo + k) % max_pkt_size = IF mf + k < max_pkt_size THEN mf + k ELSE mf + k - max_pkt_size
  <2>1. k \in RingSlots
    BY <1>1, <1>2 DEF RingSlots
  <2> QED
    BY <1>1, <2>1, SlotAfter
<1>3. v = CASE mf <= mp            -> <<Block(mf, mp - mf)>>
             [] mp < mf /\ mp = 0   -> <<Block(mf, max_pkt_size - mf)>>
             [] mp < mf /\ mp > 0   -> <<Block(mf, max_pkt_size - mf), Block(0, mp)>>
  BY DEF get_exist_iovec
<1>. SUFFICES /\ Blocks(v)
              /\ Total(v) = size
              /\ \A k \in 0 .. size - 1 : SlotOf(v, k) = (lo + k) % max_pkt_size
  OBVIOUS
<1> HIDE DEF mf, mp, v, size
<1> USE DEF Blocks, Total, SlotOf, Block, RingSlots
<1>4. CASE mf <= mp
  <2>1. v = <<Block(mf, mp - mf)>>
    BY <1>1, <1>3, <1>4
  <2>2. Blocks(v)
    BY <1>1, <1>4, <2>1
  <2>3. Total(v) = size
    BY <1>1, <1>4, <2>1
  <2>4. ASSUME NEW k \in 0 .. size - 1
        PROVE  SlotOf(v, k) = (lo + k) % max_pkt_size
    BY <1>1, <1>2, <1>4, <2>1
  <2> QED
    BY <2>2, <2>3, <2>4
<1>5. CASE mp < mf /\ mp = 0
  <2>1. v = <<Block(mf, max_pkt_size - mf)>>
    BY <1>1, <1>3, <1>5
  <2>2. Blocks(v)
    BY <1>1, <1>5, <2>1
  <2>3. Total(v) = size
    BY <1>1, <1>5, <2>1
  <2>4. ASSUME NEW k \in 0 .. size - 1
        PROVE  SlotOf(v, k) = (lo + k) % max_pkt_size
    BY <1>1, <1>2, <1>5, <2>1
  <2> QED
    BY <2>2, <2>3, <2>4
<1>6. CASE mp < mf /\ mp > 0
  <2>1. v = <<Block(mf, max_pkt_size - mf), Block(0, mp)>>
    BY <1>1, <1>3, <1>6
  <2>2. Blocks(v)
    BY <1>1, <1>6, <2>1
  <2>3. Total(v) = size
    BY <1>1, <1>6, <2>1
  <2>4. ASSUME NEW k \in 0 .. size - 1
        PROVE  SlotOf(v, k) = (lo + k) % max_pkt_size
    BY <1>1, <1>2, <1>6, <2>1
  <2> QED
    BY <2>2, <2>3, <2>4
<1>7. mf <= mp \/ (mp < mf /\ mp = 0) \/ (mp < mf /\ mp > 0)
  BY <1>1
<1> QED
  BY <1>4, <1>5, <1>6, <1>7

\* A slot that recv may fill holds no byte that is still to be sent.
THEOREM BlankHoldsNothing ==
    ASSUME NEW lo, NEW hi, Counters(lo, hi),
           NEW k \in 0 .. get_blank_size(lo, hi) - 1, NEW j \in lo .. hi - 1
    PROVE  SlotOf(get_blank_iovec(lo, hi), k) # j % max_pkt_size
<1>1. /\ max_pkt_size \in Nat \ {0} /\ lo \in Nat /\ hi \in Nat
      /\ get_blank_size(lo, hi) = max_pkt_size - 1 - (hi - lo)
  BY RingAssumption DEF Counters, get_blank_size
<1>2. j \in Nat /\ hi + k \in Nat /\ j < hi + k /\ hi + k < j + max_pkt_size
  BY <1>1
<1>3. get_blank_size(lo, hi) > 0
  BY <1>1
<1> QED
  BY <1>1, <1>2, <1>3, BlankIovec, ModWindow

------------------------------------------------------------------------------
(* The invariant.                                                          *)

Typed ==
    /\ conns \subseteq Clients /\ backlog \subseteq Clients
    /\ peer \in [Clients -> {"idle", "open", "eof", "reset"}]
    /\ interest \in [Clients -> SUBSET {"IN", "OUT"}]
    /\ enable_epollout \in [Clients -> BOOLEAN]
    /\ f \in [Clients -> Nat] /\ p \in [Clients -> Nat]
    /\ sent \in [Clients -> Nat] /\ recvd \in [Clients -> Nat]
    /\ buf \in [Clients -> [RingSlots -> Nat]]
    /\ tx \in [Clients -> Seq(Nat)] /\ got \in [Clients -> Seq(Nat)]

\* The ring of c holds the bytes that were received and not sent.
Ring(c) ==
    /\ Counters(f[c], p[c])
    /\ recvd[c] = p[c] /\ recvd[c] <= sent[c]
    /\ \A k \in f[c] .. p[c] - 1 : buf[c][k % max_pkt_size] = k + 1

\* What was sent to c is its first f[c] bytes.
Stream(c) ==
    /\ Len(got[c]) + Len(tx[c]) = f[c]
    /\ \A n \in 1 .. Len(got[c]) : got[c][n] = n
    /\ \A n \in 1 .. Len(tx[c]) : tx[c][n] = Len(got[c]) + n

DataInv == \A c \in Clients : Ring(c) /\ Stream(c)

\* A live connection is registered as enable_epollout says; one that was not
\* accepted yet has nothing in its ring.
Registered(c) ==
    /\ interest[c] = IF c \notin conns THEN {}
                     ELSE IF enable_epollout[c] THEN {"IN", "OUT"} ELSE {"IN"}
    /\ peer[c] = "idle" => c \notin backlog
    /\ peer[c] = "idle" \/ c \in backlog => c \notin conns /\ f[c] = p[c]

RegInv == \A c \in Clients : Registered(c)

Armed(c) == enable_epollout[c] <=> f[c] # p[c]

Settled == \A c \in conns : cur.h # c => Armed(c)

\* The events that are left are of live handlers, one each.
Batch ==
    /\ \A e \in batch : e.h \in conns \cup {Acceptor}
    /\ \A e, g \in batch : e.h = g.h => e = g

Calls == {"write", "recv", "send"}

LoopInv ==
    /\ Batch
    /\ loop \in Calls \cup {"wait", "dispatch", "accept", "aborted"}
    /\ loop \in Calls => cur.h \in conns /\ \A e \in batch : e.h # cur.h
    /\ loop \notin Calls => cur.h = Acceptor

\* The loop of recv_buf_native is in block i of what was free when p was p0.
Receiving(c, p0) ==
    /\ Counters(f[c], p0) /\ get_blank_size(f[c], p0) > 0
    /\ iov = get_blank_iovec(f[c], p0)
    /\ \/ i = 1 /\ p[c] = p0
       \/ i = 2 /\ Len(iov) = 2 /\ p[c] = p0 + iov[1].len

\* The loop of send_buf_native is in block i of what was held when f was f0.
Sending(c, f0) ==
    /\ Counters(f0, p[c]) /\ get_exist_size(f0, p[c]) > 0
    /\ iov = get_exist_iovec(f0, p[c])
    /\ to_send = p[c] - f0 /\ have_send = f[c] - f0
    /\ \/ i = 1 /\ f[c] = f0
       \/ i = 2 /\ Len(iov) = 2 /\ f[c] = f0 + iov[1].len

CallInv ==
    /\ loop = "write" => Armed(cur.h)
    /\ loop = "recv" => /\ f[cur.h] = p[cur.h] => ~enable_epollout[cur.h]
                        /\ \E p0 \in Nat : Receiving(cur.h, p0)
    /\ loop = "send" => \E f0 \in Nat : Sending(cur.h, f0)

Control == LoopInv /\ Settled /\ CallInv

Inv == Typed /\ DataInv /\ RegInv /\ Control

------------------------------------------------------------------------------
(* The block at hand.                                                      *)

\* A recv is given free slots, the next ones of the ring.
LEMMA RecvBlock ==
    ASSUME NEW c \in Clients, NEW p0 \in Nat, Receiving(c, p0)
    PROVE  /\ iov[i].base \in RingSlots /\ iov[i].len \in Nat \ {0}
           /\ iov[i].base + iov[i].len <= max_pkt_size
           /\ \A j \in 0 .. iov[i].len - 1 : iov[i].base + j = (p[c] + j) % max_pkt_size
           /\ p[c] + iov[i].len - f[c] <= max_pkt_size - 1
           /\ i # Len(iov) => i = 1 /\ Len(iov) = 2
<1> DEFINE size == get_blank_size(f[c], p0)
<1>1. /\ Blocks(iov) /\ Total(iov) = size
      /\ \A k \in 0 .. size - 1 : SlotOf(iov, k) = (p0 + k) % max_pkt_size
  BY BlankIovec DEF Receiving
<1>2. /\ max_pkt_size \in Nat \ {0, 1} /\ f[c] \in Nat /\ p0 \in Nat
      /\ size = max_pkt_size - 1 - (p0 - f[c])
  BY RingAssumption DEF Receiving, Counters, get_blank_size
<1> HIDE DEF size
<1>3. CASE i = 1 /\ p[c] = p0
  <2>1. 1 \in 1 .. Len(iov) /\ iov[1].len <= size
    BY <1>1, <1>2 DEF Blocks, Total, RingSlots
  <2>2. \A j \in 0 .. iov[1].len - 1 : SlotOf(iov, j) = iov[1].base + j
    BY <1>1, <2>1 DEF SlotOf, Blocks, RingSlots
  <2>3. /\ iov[i].base \in RingSlots /\ iov[i].len \in Nat \ {0}
        /\ iov[i].base + iov[i].len <= max_pkt_size
    BY <1>1, <1>3, <2>1 DEF Blocks, RingSlots
  <2>4. \A j \in 0 .. iov[i].len - 1 : iov[i].base + j = (p[c] + j) % max_pkt_size
    <3> SUFFICES ASSUME NEW j \in 0 .. iov[1].len - 1
                 PROVE  iov[1].base + j = (p0 + j) % max_pkt_size
      BY <1>3
    <3>1. j \in 0 .. size - 1
      BY <1>2, <1>3, <2>1, <2>3
    <3> QED
      BY <1>1, <2>2, <3>1
  <2>5. p[c] + iov[i].len - f[c] <= max_pkt_size - 1
    BY <1>2, <1>3, <2>1, <2>3
  <2>6. i # Len(iov) => i = 1 /\ Len(iov) = 2
    BY <1>1, <1>3 DEF Blocks
  <2> QED
    BY <2>3, <2>4, <2>5, <2>6
<1>4. CASE i = 2 /\ Len(iov) = 2 /\ p[c] = p0 + iov[1].len
  <2>1. 2 \in 1 .. Len(iov) /\ 1 \in 1 .. Len(iov) /\ iov[1].len + iov[2].len = size
    BY <1>1, <1>2, <1>4 DEF Blocks, Total, RingSlots
  <2>2. iov[1].len \in Nat /\ iov[2].len \in Nat \ {0} /\ iov[2].base \in RingSlots
    BY <1>1, <2>1 DEF Blocks, RingSlots
  <2>3. ASSUME NEW j \in 0 .. iov[2].len - 1
        PROVE  iov[2].base + j = (p[c] + j) % max_pkt_size
    <3> DEFINE a == iov[1].len
               b == iov[2].len
    <3>0. a \in Nat /\ b \in Nat /\ j \in 0 .. b - 1 /\ a + b = size
      BY <2>1, <2>2
    <3> HIDE DEF a, b
    <3>1. a + j \in 0 .. size - 1 /\ ~(a + j < a)
      BY <3>0
    <3> USE DEF a, b
    <3>2. SlotOf(iov, iov[1].len + j) = iov[2].base + j
      BY <2>2, <3>1 DEF SlotOf, RingSlots
    <3>3. p0 + (iov[1].len + j) = p[c] + j
      BY <1>2, <1>4, <2>2
    <3> QED
      BY <1>1, <3>1, <3>2, <3>3
  <2> QED
    BY <1>1, <1>2, <1>4, <2>1, <2>2, <2>3 DEF Blocks
<1> QED
  BY <1>3, <1>4 DEF Receiving

\* A send is given the oldest held bytes; the last block ends the held bytes.
LEMMA SendBlock ==
    ASSUME NEW c \in Clients, NEW f0 \in Nat, Sending(c, f0)
    PROVE  /\ iov[i].base \in RingSlots /\ iov[i].len \in Nat \ {0}
           /\ iov[i].base + iov[i].len <= max_pkt_size
           /\ \A j \in 0 .. iov[i].len - 1 : iov[i].base + j = (f[c] + j) % max_pkt_size
           /\ f[c] + iov[i].len <= p[c]
           /\ i = Len(iov) => f[c] + iov[i].len = p[c]
           /\ i # Len(iov) => i = 1 /\ Len(iov) = 2
<1> DEFINE size == get_exist_size(f0, p[c])
<1>1. /\ Blocks(iov) /\ Total(iov) = size
      /\ \A k \in 0 .. size - 1 : SlotOf(iov, k) = (f0 + k) % max_pkt_size
  BY ExistIovec DEF Sending
<1>2. /\ max_pkt_size \in Nat \ {0, 1} /\ f0 \in Nat /\ p[c] \in Nat
      /\ size = p[c] - f0
  BY RingAssumption DEF Sending, Counters, get_exist_size
<1> HIDE DEF size
<1>3. CASE i = 1 /\ f[c] = f0
  <2>0. /\ Len(iov) \in {1, 2} /\ 1 \in 1 .. Len(iov) /\ iov[1].len \in Nat
        /\ Len(iov) = 2 => iov[2].len \in Nat
    <3>1. /\ Len(iov) \in {1, 2}
          /\ \A b \in 1 .. Len(iov) : iov[b].len \in RingSlots
      BY <1>1 DEF Blocks
    <3>2. \A n \in RingSlots : n \in Nat
      BY <1>2 DEF RingSlots
    <3>3. 1 \in 1 .. Len(iov) /\ (Len(iov) = 2 => 2 \in 1 .. Len(iov))
      BY <3>1
    <3> QED
      BY <3>1, <3>2, <3>3
  <2>1. 1 \in 1 .. Len(iov) /\ iov[1].len <= size /\ (Len(iov) = 1 => iov[1].len = size)
    BY <1>1, <2>0 DEF Total
  <2>2. \A j \in 0 .. iov[1].len - 1 : SlotOf(iov, j) = iov[1].base + j
    BY <1>1, <2>0 DEF SlotOf
  <2>3. iov[1].base \in RingSlots /\ iov[1].len \in Nat \ {0} /\ iov[1].base + iov[1].len <= max_pkt_size
    BY <1>1, <2>1 DEF Blocks, RingSlots
  <2>4. \A j \in 0 .. iov[1].len - 1 : iov[1].base + j = (f[c] + j) % max_pkt_size
    BY <1>1, <1>2, <1>3, <2>1, <2>2, <2>3
  <2>5. f[c] + iov[1].len <= p[c] /\ (1 = Len(iov) => f[c] + iov[1].len = p[c])
    BY <1>2, <1>3, <2>1, <2>3
  <2> QED
    BY <1>1, <1>3, <2>3, <2>4, <2>5 DEF Blocks
<1>4. CASE i = 2 /\ Len(iov) = 2 /\ f[c] = f0 + iov[1].len
  <2>1. 2 \in 1 .. Len(iov) /\ 1 \in 1 .. Len(iov) /\ iov[1].len + iov[2].len = size
    BY <1>1, <1>2, <1>4 DEF Blocks, Total, RingSlots
  <2>2. iov[1].len \in Nat /\ iov[2].len \in Nat \ {0} /\ iov[2].base \in RingSlots
    BY <1>1, <2>1 DEF Blocks, RingSlots
  <2>3. ASSUME NEW j \in 0 .. iov[2].len - 1
        PROVE  iov[2].base + j = (f[c] + j) % max_pkt_size
    <3> DEFINE a == iov[1].len
               b == iov[2].len
    <3>0. a \in Nat /\ b \in Nat /\ j \in 0 .. b - 1 /\ a + b = size
      BY <2>1, <2>2
    <3> HIDE DEF a, b
    <3>1. a + j \in 0 .. size - 1 /\ ~(a + j < a)
      BY <3>0
    <3> USE DEF a, b
    <3>2. SlotOf(iov, iov[1].len + j) = iov[2].base + j
      BY <2>2, <3>1 DEF SlotOf, RingSlots
    <3>3. f0 + (iov[1].len + j) = f[c] + j
      BY <1>2, <1>4, <2>2
    <3> QED
      BY <1>1, <3>1, <3>2, <3>3
  <2> QED
    BY <1>1, <1>2, <1>4, <2>1, <2>2, <2>3 DEF Blocks
<1> QED
  BY <1>3, <1>4 DEF Sending

------------------------------------------------------------------------------
(* The data.                                                               *)

\* A ring after n bytes, the ones from hi on, were put into its slots from base on.
Filled(old, base, hi, n) ==
    [s \in RingSlots |-> IF s \in base .. base + n - 1 THEN hi + 1 + s - base ELSE old[s]]

\* When these slots are the ones after the held bytes, the held bytes stay.
LEMMA Fill ==
    ASSUME Typed, DataInv, NEW c \in Clients, NEW n \in Nat, NEW base \in RingSlots,
           \A j \in 0 .. n - 1 : base + j \in RingSlots /\ base + j = (p[c] + j) % max_pkt_size,
           p[c] + n - f[c] <= max_pkt_size - 1
    PROVE  /\ Filled(buf[c], base, p[c], n) \in [RingSlots -> Nat]
           /\ \A k \in f[c] .. p[c] + n - 1 :
                 Filled(buf[c], base, p[c], n)[k % max_pkt_size] = k + 1
<1> DEFINE lo == f[c]
           hi == p[c]
           old == buf[c]
           new == Filled(old, base, hi, n)
<1>0. /\ lo \in Nat /\ hi \in Nat /\ lo <= hi /\ hi + n - lo <= max_pkt_size - 1
      /\ \A j \in 0 .. n - 1 : base + j \in RingSlots /\ base + j = (hi + j) % max_pkt_size
      /\ old \in [RingSlots -> Nat] /\ \A k \in lo .. hi - 1 : old[k % max_pkt_size] = k + 1
  BY DEF Typed, DataInv, Ring, Counters
<1> HIDE DEF lo, hi, old
<1>1. max_pkt_size \in Nat \ {0} /\ RingSlots = 0 .. max_pkt_size - 1 /\ base \in Nat
  BY RingAssumption DEF RingSlots
<1>2. new \in [RingSlots -> Nat]
  <2> SUFFICES ASSUME NEW s \in RingSlots
               PROVE  (IF s \in base .. base + n - 1 THEN hi + 1 + s - base ELSE old[s]) \in Nat
    BY DEF Filled
  <2>1. s \in Nat /\ old[s] \in Nat
    BY <1>0, <1>1
  <2> QED
    BY <1>0, <1>1, <2>1
<1>3. ASSUME NEW j \in 0 .. n - 1 PROVE new[(hi + j) % max_pkt_size] = hi + j + 1
  <2>1. base + j \in RingSlots /\ base + j = (hi + j) % max_pkt_size
    BY <1>0
  <2>2. base + j \in base .. base + n - 1 /\ hi + 1 + (base + j) - base = hi + j + 1
    BY <1>0, <1>1
  <2>3. new[base + j] = hi + 1 + (base + j) - base
    BY <2>1, <2>2 DEF Filled
  <2> QED
    BY <2>1, <2>2, <2>3
<1>4. ASSUME NEW k \in lo .. hi - 1 PROVE new[k % max_pkt_size] = k + 1
  <2> DEFINE m == k % max_pkt_size
  <2>1. k \in Nat /\ k < hi /\ lo <= k /\ m \in RingSlots /\ m \in Nat
    BY <1>0, <1>1
  <2>2. ASSUME NEW j \in 0 .. n - 1 PROVE base + j # m
    <3>1. hi + j \in Nat /\ k < hi + j /\ hi + j < k + max_pkt_size
      BY <1>0, <1>1, <2>1
    <3>2. k % max_pkt_size # (hi + j) % max_pkt_size
      BY <1>1, <2>1, <3>1, ModWindow
    <3> QED
      BY <1>0, <3>2
  <2>3. old[m] = k + 1
    BY <1>0
  <2> HIDE DEF m
  <2>4. m \notin base .. base + n - 1
    <3> SUFFICES ASSUME m \in base .. base + n - 1 PROVE FALSE
      OBVIOUS
    <3>1. m - base \in 0 .. n - 1 /\ base + (m - base) = m
      BY <1>1, <2>1
    <3> QED
      BY <2>2, <3>1
  <2>5. new[m] = k + 1
    BY <2>1, <2>3, <2>4 DEF Filled
  <2> QED
    BY <2>5 DEF m
<1>5. ASSUME NEW k \in lo .. hi + n - 1 PROVE new[k % max_pkt_size] = k + 1
  <2>1. CASE k < hi
    <3>1. k \in lo .. hi - 1
      BY <1>0, <2>1
    <3> QED
      BY <1>4, <3>1
  <2>2. CASE k >= hi
    <3>1. k - hi \in 0 .. n - 1 /\ hi + (k - hi) = k
      BY <1>0, <2>2
    <3> QED
      BY <1>3, <3>1
  <2> QED
    BY <1>0, <2>1, <2>2
<1> HIDE DEF new
<1> QED
  BY <1>2, <1>5 DEF new, lo, hi, old

\* Appending to what is under way.
LEMMA Extend ==
    ASSUME NEW q \in Seq(Nat), NEW n \in Nat, NEW g \in [1 .. n -> Nat], NEW l \in Nat,
           \A k \in 1 .. Len(q) : q[k] = l + k,
           \A k \in 1 .. n : g[k] = l + Len(q) + k
    PROVE  /\ q \o g \in Seq(Nat) /\ Len(q \o g) = Len(q) + n
           /\ \A k \in 1 .. Len(q \o g) : (q \o g)[k] = l + k
<1>1. g \in Seq(Nat) /\ Len(g) = n
  OBVIOUS
<1> DEFINE r == q \o g
           m == Len(q)
<1>2. /\ r \in Seq(Nat) /\ Len(r) = m + n /\ m \in Nat
      /\ \A k \in 1 .. m + n : r[k] = IF k <= m THEN q[k] ELSE g[k - m]
  <2>1. /\ q \o g \in Seq(Nat)
        /\ Len(q \o g) = Len(q) + Len(g)
        /\ \A k \in 1 .. Len(q) + Len(g) :
              (q \o g)[k] = IF k <= Len(q) THEN q[k] ELSE g[k - Len(q)]
    <3> HIDE DEF r, m
    <3> QED
      BY <1>1, ConcatProperties
  <2>2. m \in Nat
    OBVIOUS
  <2> QED
    BY <1>1, <2>1, <2>2
<1>3. \A k \in 1 .. m : q[k] = l + k
  OBVIOUS
<1>4. \A k \in 1 .. n : g[k] = l + m + k
  OBVIOUS
<1> HIDE DEF r, m
<1>5. ASSUME NEW k \in 1 .. m + n PROVE r[k] = l + k
  <2>1. CASE k <= m
    BY <1>2, <1>3, <2>1
  <2>2. CASE k > m
    <3>1. k - m \in 1 .. n /\ l + m + (k - m) = l + k
      BY <1>2, <2>2
    <3>2. r[k] = g[k - m]
      BY <1>2, <2>2
    <3> QED
      BY <1>4, <3>1, <3>2
  <2> QED
    BY <1>2, <2>1, <2>2
<1>6. \A k \in 1 .. Len(r) : r[k] = l + k
  BY <1>2, <1>5
<1> QED
  BY <1>2, <1>6 DEF r, m

\* Moving the first byte under way to the bytes that were read.
LEMMA Move ==
    ASSUME NEW q \in Seq(Nat), NEW g \in Seq(Nat), q # <<>>,
           \A k \in 1 .. Len(q) : q[k] = Len(g) + k,
           \A k \in 1 .. Len(g) : g[k] = k
    PROVE  LET h == Append(g, Head(q))
               t == Tail(q)
           IN  /\ h \in Seq(Nat) /\ t \in Seq(Nat)
               /\ Len(h) + Len(t) = Len(g) + Len(q)
               /\ \A k \in 1 .. Len(h) : h[k] = k
               /\ \A k \in 1 .. Len(t) : t[k] = Len(h) + k
<1> DEFINE t == Tail(q)
           h == Append(g, Head(q))
           m == Len(q)
           l == Len(g)
<1>1. m \in Nat \ {0} /\ l \in Nat /\ Head(q) = q[1] /\ q[1] \in Nat
  BY EmptySeq
<1>2. t \in Seq(Nat) /\ Len(t) = m - 1 /\ \A k \in 1 .. m - 1 : t[k] = q[k + 1]
  BY HeadTailProperties, EmptySeq
<1>3. h \in Seq(Nat) /\ Len(h) = l + 1 /\ h[l + 1] = q[1] /\ \A k \in 1 .. l : h[k] = g[k]
  BY <1>1, AppendProperties
<1>4. \A k \in 1 .. m : q[k] = l + k
  OBVIOUS
<1>5. \A k \in 1 .. l : g[k] = k
  OBVIOUS
<1> HIDE DEF t, h, m, l
<1>6. q[1] = l + 1
  BY <1>1, <1>4
<1>7. \A k \in 1 .. l + 1 : h[k] = k
  BY <1>1, <1>3, <1>5, <1>6
<1>8. ASSUME NEW k \in 1 .. m - 1 PROVE t[k] = l + 1 + k
  <2>1. k + 1 \in 1 .. m /\ l + (k + 1) = l + 1 + k
    BY <1>1
  <2> QED
    BY <1>2, <1>4, <2>1
<1>9. Len(h) + Len(t) = l + m
  BY <1>1, <1>2, <1>3
<1> QED
  BY <1>2, <1>3, <1>7, <1>8, <1>9 DEF t, h, m, l

LEMMA RecvData ==
    ASSUME Typed, DataInv, NEW c \in Clients, NEW n \in Nat, NEW base \in RingSlots,
           \A j \in 0 .. n - 1 : base + j \in RingSlots /\ base + j = (p[c] + j) % max_pkt_size,
           p[c] + n - f[c] <= max_pkt_size - 1, recvd[c] + n <= sent[c],
           buf' = [buf EXCEPT ![c] = [s \in RingSlots |->
                      IF s \in base .. base + n - 1 THEN recvd[c] + 1 + s - base ELSE @[s]]],
           recvd' = [recvd EXCEPT ![c] = @ + n], p' = [p EXCEPT ![c] = @ + n],
           UNCHANGED <<f, sent, tx, got>>
    PROVE  DataInv' /\ buf' \in [Clients -> [RingSlots -> Nat]]
<1>1. /\ f[c] \in Nat /\ p[c] \in Nat /\ recvd[c] = p[c] /\ sent[c] \in Nat /\ f[c] <= p[c]
      /\ max_pkt_size \in Nat
  BY RingAssumption DEF Typed, DataInv, Ring, Counters
<1>2. buf[c] \in [RingSlots -> Nat] /\ \A k \in f[c] .. p[c] - 1 : buf[c][k % max_pkt_size] = k + 1
  BY DEF Typed, DataInv, Ring
<1>3. buf'[c] = [s \in RingSlots |->
          IF s \in base .. base + n - 1 THEN p[c] + 1 + s - base ELSE buf[c][s]]
  BY <1>1 DEF Typed
<1>4. /\ buf'[c] \in [RingSlots -> Nat]
      /\ \A k \in f[c] .. p[c] + n - 1 : buf'[c][k % max_pkt_size] = k + 1
  <2>1. buf'[c] = Filled(buf[c], base, p[c], n)
    BY <1>3 DEF Filled
  <2>2. /\ Filled(buf[c], base, p[c], n) \in [RingSlots -> Nat]
        /\ \A k \in f[c] .. p[c] + n - 1 :
              Filled(buf[c], base, p[c], n)[k % max_pkt_size] = k + 1
    BY Fill, Zenon
  <2> QED
    BY <2>1, <2>2, Zenon
<1>5. p'[c] = p[c] + n /\ recvd'[c] = p[c] + n /\ f'[c] = f[c] /\ sent'[c] = sent[c]
  BY <1>1 DEF Typed
<1>6. Counters(f'[c], p'[c]) /\ recvd'[c] = p'[c] /\ recvd'[c] <= sent'[c]
  BY <1>1, <1>5 DEF Counters
<1>7. Ring(c)'
  <2>1. \A k \in f'[c] .. p'[c] - 1 : buf'[c][k % max_pkt_size] = k + 1
    <3> SUFFICES ASSUME NEW k \in f'[c] .. p'[c] - 1
                 PROVE  buf'[c][k % max_pkt_size] = k + 1
      OBVIOUS
    <3>1. k \in f[c] .. p[c] + n - 1
      BY <1>1, <1>5
    <3> QED
      BY <1>4, <3>1
  <2> QED
    BY <1>6, <2>1 DEF Ring
<1>8. ASSUME NEW d \in Clients, d # c PROVE Ring(d)'
  <2>1. p'[d] = p[d] /\ recvd'[d] = recvd[d] /\ f'[d] = f[d] /\ sent'[d] = sent[d] /\ buf'[d] = buf[d]
    BY <1>8 DEF Typed
  <2> QED
    BY <2>1 DEF DataInv, Ring
<1>9. \A d \in Clients : Stream(d)'
  BY DEF DataInv, Stream
<1>10. buf' \in [Clients -> [RingSlots -> Nat]]
  <2>1. buf \in [Clients -> [RingSlots -> Nat]] /\ buf' = [buf EXCEPT ![c] = buf'[c]]
    BY DEF Typed
  <2> QED
    BY <1>4, <2>1
<1> QED
  BY <1>7, <1>8, <1>9, <1>10 DEF DataInv

LEMMA SendData ==
    ASSUME Typed, DataInv, NEW c \in Clients, NEW n \in Nat, NEW g \in [1 .. n -> Nat],
           f[c] + n <= p[c], \A k \in 1 .. n : g[k] = f[c] + k,
           tx' = [tx EXCEPT ![c] = @ \o g], f' = [f EXCEPT ![c] = @ + n],
           UNCHANGED <<p, recvd, sent, buf, got>>
    PROVE  DataInv' /\ tx' \in [Clients -> Seq(Nat)]
<1>1. /\ f[c] \in Nat /\ p[c] \in Nat /\ tx[c] \in Seq(Nat) /\ got[c] \in Seq(Nat)
      /\ Len(got[c]) + Len(tx[c]) = f[c]
      /\ \A k \in 1 .. Len(tx[c]) : tx[c][k] = Len(got[c]) + k
  BY DEF Typed, DataInv, Stream
<1>2. tx'[c] = tx[c] \o g /\ f'[c] = f[c] + n /\ got'[c] = got[c]
  BY DEF Typed
<1>3. /\ tx'[c] \in Seq(Nat) /\ Len(tx'[c]) = Len(tx[c]) + n
      /\ \A k \in 1 .. Len(tx'[c]) : tx'[c][k] = Len(got[c]) + k
  <2> DEFINE l == Len(got[c])
             q == tx[c]
  <2>0. l \in Nat
    BY <1>1
  <2>1. /\ q \in Seq(Nat) /\ l + Len(q) = f[c]
        /\ \A k \in 1 .. Len(q) : q[k] = l + k
    BY <1>1
  <2> HIDE DEF l, q
  <2>2. \A k \in 1 .. n : g[k] = l + Len(q) + k
    BY <2>0, <2>1
  <2>3. /\ q \o g \in Seq(Nat) /\ Len(q \o g) = Len(q) + n
        /\ \A k \in 1 .. Len(q \o g) : (q \o g)[k] = l + k
    BY <2>0, <2>1, <2>2, Extend
  <2> QED
    BY <1>2, <2>3 DEF l, q
<1>4. Len(got[c]) + Len(tx'[c]) = f'[c]
  <2> DEFINE l == Len(got[c])
             m == Len(tx[c])
             k == Len(tx'[c])
  <2>0. l \in Nat /\ m \in Nat
    BY <1>1
  <2>1. l + m = f[c] /\ k = m + n
    BY <1>1, <1>3
  <2> HIDE DEF l, m, k
  <2>2. l + k = f'[c]
    BY <1>2, <2>0, <2>1
  <2> QED
    BY <2>2 DEF l, k
<1>5. Stream(c)'
  <2>1. \A k \in 1 .. Len(got'[c]) : got'[c][k] = k
    BY DEF DataInv, Stream
  <2> QED
    BY <1>2, <1>3, <1>4, <2>1 DEF Stream
<1>6. Ring(c)'
  <2>1. Counters(f[c], p[c]) /\ recvd[c] = p[c] /\ recvd[c] <= sent[c]
        /\ \A k \in f[c] .. p[c] - 1 : buf[c][k % max_pkt_size] = k + 1
    BY DEF DataInv, Ring
  <2>2. Counters(f'[c], p[c])
    BY <1>1, <1>2, <2>1, RingAssumption DEF Counters
  <2>3. \A k \in f'[c] .. p[c] - 1 : k \in f[c] .. p[c] - 1
    BY <1>1, <1>2
  <2> QED
    BY <2>1, <2>2, <2>3 DEF Ring
<1>7. ASSUME NEW d \in Clients, d # c PROVE Stream(d)' /\ Ring(d)'
  <2>1. tx'[d] = tx[d] /\ f'[d] = f[d]
    BY <1>7 DEF Typed
  <2> QED
    BY <2>1 DEF DataInv, Ring, Stream
<1>8. tx' \in [Clients -> Seq(Nat)]
  <2>1. tx \in [Clients -> Seq(Nat)] /\ tx' = [tx EXCEPT ![c] = tx'[c]]
    BY <1>2 DEF Typed
  <2> QED
    BY <1>3, <2>1
<1> QED
  BY <1>5, <1>6, <1>7, <1>8 DEF DataInv

LEMMA ReadData ==
    ASSUME Typed, DataInv, NEW c \in Clients, ClientRead(c), UNCHANGED <<f, p, buf>>
    PROVE  DataInv' /\ tx' \in [Clients -> Seq(Nat)] /\ got' \in [Clients -> Seq(Nat)]
<1>1. /\ tx[c] \in Seq(Nat) /\ got[c] \in Seq(Nat) /\ tx[c] # <<>>
      /\ Len(got[c]) + Len(tx[c]) = f[c]
      /\ \A k \in 1 .. Len(tx[c]) : tx[c][k] = Len(got[c]) + k
      /\ \A k \in 1 .. Len(got[c]) : got[c][k] = k
  BY DEF Typed, DataInv, Stream, ClientRead
<1>2. got'[c] = Append(got[c], Head(tx[c])) /\ tx'[c] = Tail(tx[c]) /\ f' = f
  BY DEF ClientRead, Typed
<1>3. /\ got'[c] \in Seq(Nat) /\ tx'[c] \in Seq(Nat)
      /\ Len(got'[c]) + Len(tx'[c]) = Len(got[c]) + Len(tx[c])
      /\ \A k \in 1 .. Len(got'[c]) : got'[c][k] = k
      /\ \A k \in 1 .. Len(tx'[c]) : tx'[c][k] = Len(got'[c]) + k
  <2> DEFINE q == tx[c]
             g == got[c]
             h == Append(g, Head(q))
             t == Tail(q)
  <2>1. /\ q \in Seq(Nat) /\ g \in Seq(Nat) /\ q # <<>>
        /\ \A k \in 1 .. Len(q) : q[k] = Len(g) + k
        /\ \A k \in 1 .. Len(g) : g[k] = k
    BY <1>1
  <2> HIDE DEF q, g
  <2>2. /\ h \in Seq(Nat) /\ t \in Seq(Nat)
        /\ Len(h) + Len(t) = Len(g) + Len(q)
        /\ \A k \in 1 .. Len(h) : h[k] = k
        /\ \A k \in 1 .. Len(t) : t[k] = Len(h) + k
    BY <2>1, Move
  <2>3. got'[c] = h /\ tx'[c] = t
    BY <1>2 DEF q, g
  <2> HIDE DEF h, t
  <2> QED
    BY <2>2, <2>3 DEF q, g
<1>4. Stream(c)'
  BY <1>1, <1>2, <1>3 DEF Stream
<1>5. ASSUME NEW d \in Clients, d # c PROVE Stream(d)'
  <2>1. tx'[d] = tx[d] /\ got'[d] = got[d]
    BY <1>5 DEF Typed, ClientRead
  <2> QED
    BY <1>2, <2>1 DEF DataInv, Stream
<1>6. \A d \in Clients : Ring(d)'
  BY DEF DataInv, Ring, ClientRead
<1>7. tx' \in [Clients -> Seq(Nat)] /\ got' \in [Clients -> Seq(Nat)]
  <2>1. tx \in [Clients -> Seq(Nat)] /\ tx' = [tx EXCEPT ![c] = tx'[c]]
    BY <1>2 DEF Typed, ClientRead
  <2>2. got \in [Clients -> Seq(Nat)] /\ got' = [got EXCEPT ![c] = got'[c]]
    BY <1>2 DEF Typed, ClientRead
  <2> QED
    BY <1>3, <2>1, <2>2
<1> QED
  BY <1>4, <1>5, <1>6, <1>7 DEF DataInv

------------------------------------------------------------------------------
(* What a handler does when it returns or goes on to recv or send.         *)

LEMMA Returned ==
    ASSUME Return, Batch', \A d \in conns' : Armed(d)'
    PROVE  Control'
<1>1. loop' \in {"wait", "dispatch"} /\ cur'.h = Acceptor
  BY DEF Return, Idle
<1>2. LoopInv'
  BY <1>1 DEF LoopInv, Calls
<1>3. Settled' /\ CallInv'
  BY <1>1 DEF Settled, CallInv
<1> QED
  BY <1>2, <1>3 DEF Control

LEMMA EnteredSend ==
    ASSUME NEW e, NEW f1, NEW p1, EnterSend(e, f1, p1),
           Batch', e.h \in conns', \A x \in batch' : x.h # e.h,
           \A d \in conns' \ {e.h} : Armed(d)',
           f1 = f'[e.h], p1 = p'[e.h], Counters(f1, p1),
           f1 = p1 => ~enable_epollout'[e.h]
    PROVE  Control'
<1>0. f1 \in Nat /\ p1 \in Nat /\ f1 <= p1
  BY DEF Counters
<1>1. CASE p1 - f1 <= 0
  <2>1. Return
    BY <1>1 DEF EnterSend, get_exist_size
  <2>2. Armed(e.h)'
    BY <1>0, <1>1 DEF Armed
  <2> QED
    BY <2>1, <2>2, Returned
<1>2. CASE p1 - f1 > 0
  <2>1. /\ loop' = "send" /\ cur' = e /\ i' = 1 /\ to_send' = p1 - f1 /\ have_send' = 0
        /\ iov' = get_exist_iovec(f1, p1)
    BY <1>0, <1>2 DEF EnterSend, get_exist_size
  <2>2. LoopInv' /\ Settled'
    BY <2>1 DEF LoopInv, Calls, Settled
  <2>3. Sending(e.h, f1)'
    BY <1>0, <1>2, <2>1 DEF Sending, get_exist_size
  <2>4. CallInv'
    BY <1>0, <2>1, <2>3 DEF CallInv
  <2> QED
    BY <2>2, <2>4 DEF Control
<1> QED
  BY <1>0, <1>1, <1>2

LEMMA EnteredRecv ==
    ASSUME NEW e, NEW f1, NEW p1, EnterRecv(e, f1, p1),
           Batch', e.h \in conns', \A x \in batch' : x.h # e.h,
           \A d \in conns' \ {e.h} : Armed(d)',
           f1 = f'[e.h], p1 = p'[e.h], Counters(f1, p1),
           f1 = p1 => ~enable_epollout'[e.h]
    PROVE  Control'
<1>0. f1 \in Nat /\ p1 \in Nat /\ f1 <= p1
  BY DEF Counters
<1>1. CASE get_blank_size(f1, p1) <= 0
  BY <1>1, EnteredSend DEF EnterRecv
<1>2. CASE get_blank_size(f1, p1) > 0
  <2>0. ~(get_blank_size(f1, p1) <= 0)
    BY <1>0, <1>2, RingAssumption DEF get_blank_size
  <2>1. loop' = "recv" /\ cur' = e /\ i' = 1 /\ iov' = get_blank_iovec(f1, p1)
    BY <2>0 DEF EnterRecv
  <2>2. LoopInv' /\ Settled'
    BY <2>1 DEF LoopInv, Calls, Settled
  <2>3. Receiving(e.h, p1)'
    BY <1>2, <2>1 DEF Receiving
  <2>4. CallInv'
    BY <1>0, <2>1, <2>3 DEF CallInv
  <2> QED
    BY <2>2, <2>4 DEF Control
<1>3. get_blank_size(f1, p1) \in Int
  BY <1>0, RingAssumption DEF get_blank_size
<1> QED
  BY <1>1, <1>2, <1>3

------------------------------------------------------------------------------
(* What the invariant says of the properties.                              *)

LEMMA Apart == ASSUME NEW c \in Clients PROVE c # Acceptor
BY LoopAssumption

LEMMA InvNoDangling == Inv => NoDangling
<1> SUFFICES ASSUME Inv, NEW e \in batch \cup {cur} PROVE e.h \in conns \cup {Acceptor}
  BY DEF NoDangling
<1> QED
  BY DEF Inv, Control, LoopInv, Batch

LEMMA InvArmed == Inv => ArmedIffPending
BY DEF Inv, Typed, RegInv, Registered, Control, Settled, Armed, ArmedIffPending

LEMMA InvRecv == Inv => RecvIntoFree
<1> SUFFICES ASSUME Inv, loop = "recv"
             PROVE  /\ iov[i].len > 0
                    /\ iov[i].base + iov[i].len <= max_pkt_size
                    /\ \A k \in f[cur.h] .. p[cur.h] - 1 :
                          k % max_pkt_size \notin iov[i].base .. iov[i].base + iov[i].len - 1
  BY DEF RecvIntoFree
<1> DEFINE c == cur.h
<1>1. c \in Clients
  BY DEF Inv, Typed, Control, LoopInv, Calls
<1>2. PICK p0 \in Nat : Receiving(c, p0)
  BY DEF Inv, Control, CallInv
<1>3. /\ iov[i].base \in RingSlots /\ iov[i].len \in Nat \ {0}
      /\ iov[i].base + iov[i].len <= max_pkt_size
      /\ \A j \in 0 .. iov[i].len - 1 : iov[i].base + j = (p[c] + j) % max_pkt_size
      /\ p[c] + iov[i].len - f[c] <= max_pkt_size - 1
  BY <1>1, <1>2, RecvBlock
<1>4. f[c] \in Nat /\ p[c] \in Nat /\ max_pkt_size \in Nat \ {0}
  BY <1>1, RingAssumption DEF Inv, Typed
<1> DEFINE lo == f[c]
           hi == p[c]
           b == iov[i].base
           n == iov[i].len
<1>5. ASSUME NEW k \in lo .. hi - 1 PROVE k % max_pkt_size \notin b .. b + n - 1
  <2> DEFINE m == k % max_pkt_size
  <2>1. /\ b \in Nat /\ n \in Nat /\ lo \in Nat /\ hi \in Nat /\ hi + n - lo <= max_pkt_size - 1
        /\ \A j \in 0 .. n - 1 : b + j = (hi + j) % max_pkt_size
    BY <1>3, <1>4 DEF RingSlots
  <2> HIDE DEF lo, hi, b, n
  <2>2. k \in Nat /\ k < hi /\ lo <= k /\ m \in Nat
    BY <1>4, <1>5, <2>1
  <2>3. ASSUME NEW j \in 0 .. n - 1 PROVE b + j # m
    <3>1. hi + j \in Nat /\ k < hi + j /\ hi + j < k + max_pkt_size
      BY <1>4, <2>1, <2>2
    <3>2. k % max_pkt_size # (hi + j) % max_pkt_size
      BY <1>4, <2>2, <3>1, ModWindow
    <3> QED
      BY <2>1, <3>2
  <2> HIDE DEF m
  <2>4. m \notin b .. b + n - 1
    <3> SUFFICES ASSUME m \in b .. b + n - 1 PROVE FALSE
      OBVIOUS
    <3>1. m - b \in 0 .. n - 1 /\ b + (m - b) = m
      BY <2>1, <2>2
    <3> QED
      BY <2>3, <3>1
  <2> QED
    BY <2>4 DEF m
<1> QED
  BY <1>3, <1>5

\* Two streams of numbers, the second one going on where the first one ends.
LEMMA Joined ==
    ASSUME NEW s \in Seq(Nat), NEW t \in Seq(Nat),
           \A k \in 1 .. Len(s) : s[k] = k, \A k \in 1 .. Len(t) : t[k] = Len(s) + k
    PROVE  /\ s \o t \in Seq(Nat) /\ Len(s \o t) = Len(s) + Len(t)
           /\ \A k \in 1 .. Len(s \o t) : (s \o t)[k] = k
           /\ s \o t = [k \in 1 .. Len(s) + Len(t) |-> k]
<1> DEFINE l == Len(s)
           m == Len(t)
           r == s \o t
<1>1. l \in Nat /\ m \in Nat
  OBVIOUS
<1>2. /\ s \o t \in Seq(Nat) /\ Len(s \o t) = Len(s) + Len(t)
      /\ \A k \in 1 .. Len(s) + Len(t) : (s \o t)[k] = IF k <= Len(s) THEN s[k] ELSE t[k - Len(s)]
  <2> HIDE DEF l, m, r
  <2> QED
    BY ConcatProperties
<1>3. /\ r \in Seq(Nat) /\ Len(r) = l + m
      /\ \A k \in 1 .. l + m : r[k] = IF k <= l THEN s[k] ELSE t[k - l]
  BY <1>2
<1>4. (\A k \in 1 .. l : s[k] = k) /\ \A k \in 1 .. m : t[k] = l + k
  OBVIOUS
<1> HIDE DEF l, m, r
<1>5. ASSUME NEW k \in 1 .. l + m PROVE r[k] = k
  <2>1. CASE k <= l
    <3>1. k \in 1 .. l
      BY <1>1, <2>1
    <3>2. r[k] = s[k]
      BY <1>1, <1>3, <2>1
    <3> QED
      BY <1>4, <3>1, <3>2
  <2>2. CASE k > l
    <3>1. k - l \in 1 .. m /\ l + (k - l) = k
      BY <1>1, <2>2
    <3>2. r[k] = t[k - l]
      BY <1>1, <1>3, <2>2
    <3> QED
      BY <1>4, <3>1, <3>2
  <2> QED
    BY <1>1, <2>1, <2>2
<1>6. r = [k \in 1 .. l + m |-> k]
  <2>1. r = [k \in 1 .. Len(r) |-> r[k]]
    BY <1>3
  <2> QED
    BY <1>3, <1>5, <2>1
<1>7. \A k \in 1 .. Len(r) : r[k] = k
  BY <1>3, <1>5
<1> QED
  BY <1>3, <1>6, <1>7 DEF l, m, r

LEMMA InvEcho == Inv => EchoInOrder
<1> SUFFICES ASSUME Inv, NEW c \in Clients
             PROVE  /\ got[c] \o tx[c] = [n \in 1 .. Len(got[c] \o tx[c]) |-> n]
                    /\ c \in conns => (got[c] \o tx[c]) \o Held(c) = [n \in 1 .. recvd[c] |-> n]
  BY DEF EchoInOrder
<1> DEFINE s == got[c] \o tx[c]
<1>1. /\ f[c] \in Nat /\ p[c] \in Nat /\ f[c] <= p[c] /\ recvd[c] = p[c]
      /\ got[c] \in Seq(Nat) /\ tx[c] \in Seq(Nat)
      /\ Len(got[c]) + Len(tx[c]) = f[c]
      /\ \A k \in 1 .. Len(got[c]) : got[c][k] = k
      /\ \A k \in 1 .. Len(tx[c]) : tx[c][k] = Len(got[c]) + k
      /\ \A k \in f[c] .. p[c] - 1 : buf[c][k % max_pkt_size] = k + 1
  BY DEF Inv, Typed, DataInv, Ring, Stream, Counters
<1>2. /\ s \in Seq(Nat) /\ Len(s) = Len(got[c]) + Len(tx[c])
      /\ \A k \in 1 .. Len(s) : s[k] = k
      /\ s = [k \in 1 .. Len(got[c]) + Len(tx[c]) |-> k]
  <2> DEFINE g == got[c]
             t == tx[c]
  <2>1. /\ g \in Seq(Nat) /\ t \in Seq(Nat) /\ \A k \in 1 .. Len(g) : g[k] = k
        /\ \A k \in 1 .. Len(t) : t[k] = Len(g) + k
    BY <1>1
  <2>2. s = g \o t
    OBVIOUS
  <2> HIDE DEF g, t, s
  <2>3. /\ g \o t \in Seq(Nat) /\ Len(g \o t) = Len(g) + Len(t)
        /\ \A k \in 1 .. Len(g \o t) : (g \o t)[k] = k
        /\ g \o t = [k \in 1 .. Len(g) + Len(t) |-> k]
    BY <2>1, Joined
  <2> QED
    BY <2>2, <2>3 DEF g, t
<1>3. Len(s) = f[c]
  BY <1>1, <1>2
<1> DEFINE h == Held(c)
           lo == f[c]
           hi == p[c]
<1>4. ASSUME NEW k \in 1 .. hi - lo PROVE buf[c][(lo + k - 1) % max_pkt_size] = lo + k
  <2>1. lo + k - 1 \in lo .. hi - 1 /\ (lo + k - 1) + 1 = lo + k
    BY <1>1
  <2> QED
    BY <1>1, <2>1
<1>5. hi - lo \in Nat
  BY <1>1
<1>6. h = [k \in 1 .. hi - lo |-> lo + k]
  BY <1>4 DEF Held
<1>7. lo \in Nat /\ hi \in Nat /\ lo <= hi /\ recvd[c] = hi
  BY <1>1
<1> HIDE DEF h, lo, hi
<1>8. h \in Seq(Nat) /\ Len(h) = hi - lo /\ \A k \in 1 .. Len(h) : h[k] = lo + k
  BY <1>5, <1>6, <1>7
<1>9. Len(s) = lo
  BY <1>3 DEF lo
<1> HIDE DEF s
<1>10. s \o h = [k \in 1 .. Len(s) + Len(h) |-> k]
  <2>1. \A k \in 1 .. Len(h) : h[k] = Len(s) + k
    BY <1>8, <1>9
  <2>2. s \in Seq(Nat) /\ h \in Seq(Nat) /\ \A k \in 1 .. Len(s) : s[k] = k
    BY <1>2, <1>8
  <2>3. /\ s \o h \in Seq(Nat) /\ Len(s \o h) = Len(s) + Len(h)
        /\ \A k \in 1 .. Len(s \o h) : (s \o h)[k] = k
        /\ s \o h = [k \in 1 .. Len(s) + Len(h) |-> k]
    BY <2>1, <2>2, Joined
  <2> QED
    BY <2>3
<1>11. Len(s) + Len(h) = hi
  BY <1>7, <1>8, <1>9
<1>12. s \o h = [k \in 1 .. recvd[c] |-> k]
  BY <1>7, <1>10, <1>11
<1> QED
  BY <1>2, <1>12 DEF s, h

------------------------------------------------------------------------------
(* The steps.                                                              *)

\* A step of the handler of c changes what is registered for c alone.
LEMMA RegFrame ==
    ASSUME Typed, RegInv, NEW c \in conns, conns' \in {conns, conns \ {c}},
           UNCHANGED <<peer, backlog>>,
           \A d \in Clients \ {c} : /\ interest'[d] = interest[d] /\ f'[d] = f[d] /\ p'[d] = p[d]
                                    /\ enable_epollout'[d] = enable_epollout[d],
           interest'[c] = IF c \notin conns' THEN {}
                          ELSE IF enable_epollout'[c] THEN {"IN", "OUT"} ELSE {"IN"}
    PROVE  RegInv'
<1>1. ASSUME NEW d \in Clients, d # c PROVE Registered(d)'
  BY <1>1 DEF RegInv, Registered
<1>2. Registered(c)'
  BY DEF RegInv, Registered, Typed
<1> QED
  BY <1>1, <1>2 DEF RegInv

\* After a send EPOLLOUT is registered as it should be.
LEMMA Rearmed ==
    ASSUME Typed, RegInv, NEW c \in conns, NEW finished \in BOOLEAN, Rearm(c, finished),
           UNCHANGED <<conns, peer, backlog, p>>, finished <=> f'[c] = p[c],
           \A d \in Clients \ {c} : f'[d] = f[d]
    PROVE  /\ RegInv' /\ Armed(c)'
           /\ interest' \in [Clients -> SUBSET {"IN", "OUT"}]
           /\ enable_epollout' \in [Clients -> BOOLEAN]
           /\ \A d \in Clients \ {c} : enable_epollout'[d] = enable_epollout[d]
<1>1. c \in Clients /\ enable_epollout[c] \in BOOLEAN
  BY DEF Typed
<1>2. CASE enable_epollout[c] = finished
  <2>1. /\ interest' = [interest EXCEPT ![c] = IF ~finished THEN {"IN", "OUT"} ELSE {"IN"}]
        /\ enable_epollout' = [enable_epollout EXCEPT ![c] = ~finished]
    BY <1>2 DEF Rearm, set_epollout
  <2>2. /\ interest'[c] = IF ~finished THEN {"IN", "OUT"} ELSE {"IN"}
        /\ enable_epollout'[c] = ~finished
        /\ \A d \in Clients \ {c} : /\ interest'[d] = interest[d]
                                    /\ enable_epollout'[d] = enable_epollout[d]
    BY <1>1, <2>1 DEF Typed
  <2>3. /\ interest' \in [Clients -> SUBSET {"IN", "OUT"}]
        /\ enable_epollout' \in [Clients -> BOOLEAN]
    BY <2>1 DEF Typed
  <2>4. Armed(c)'
    BY <2>2 DEF Armed
  <2>5. RegInv'
    BY <2>2, RegFrame
  <2> QED
    BY <2>2, <2>3, <2>4, <2>5
<1>3. CASE enable_epollout[c] # finished
  <2>1. UNCHANGED <<interest, enable_epollout>>
    BY <1>3 DEF Rearm
  <2>2. enable_epollout'[c] = ~finished
    BY <1>1, <1>3, <2>1
  <2>3. interest'[c] = IF enable_epollout'[c] THEN {"IN", "OUT"} ELSE {"IN"}
    BY <1>1, <2>1 DEF RegInv, Registered
  <2>4. Armed(c)'
    BY <2>2 DEF Armed
  <2>5. RegInv'
    BY <2>1, <2>3, RegFrame
  <2> QED
    BY <2>1, <2>4, <2>5 DEF Typed
<1> QED
  BY <1>2, <1>3

\* The connection of the handler under way is gone.
LEMMA Deleted ==
    ASSUME Inv, NEW c \in conns, Delete(c),
           UNCHANGED <<peer, sent, recvd, tx, got, backlog, ringVars, enable_epollout>>,
           \A e \in batch' : e \in batch /\ e.h # c,
           \A d \in conns \ {c} : Armed(d)
    PROVE  Inv'
<1>1. /\ conns' = conns \ {c} /\ interest' = [interest EXCEPT ![c] = {}] /\ c \in Clients
      /\ interest'[c] = {} /\ \A d \in Clients \ {c} : interest'[d] = interest[d]
  BY DEF Delete, Inv, Typed
<1>2. Typed'
  <2>1. interest' \in [Clients -> SUBSET {"IN", "OUT"}]
    BY <1>1 DEF Inv, Typed
  <2> QED
    BY <1>1, <2>1 DEF Inv, Typed, ringVars
<1>3. DataInv'
  BY DEF Inv, DataInv, Ring, Stream, ringVars
<1>4. RegInv'
  <2>1. UNCHANGED <<f, p>>
    BY DEF ringVars
  <2> QED
    BY <1>1, <2>1, RegFrame DEF Inv
<1>5. Control'
  <2>1. Batch'
    BY <1>1 DEF Inv, Control, LoopInv, Batch
  <2>2. \A d \in conns' : Armed(d)'
    BY <1>1 DEF Armed, ringVars
  <2> QED
    BY <2>1, <2>2, Returned DEF Delete
<1> QED
  BY <1>2, <1>3, <1>4, <1>5 DEF Inv

\* A handler of c is under way.
LEMMA UnderWay ==
    ASSUME Inv, loop \in Calls
    PROVE  /\ cur.h \in conns /\ cur.h \in Clients
           /\ \A e \in batch : e.h # cur.h
           /\ \A d \in conns \ {cur.h} : Armed(d)
           /\ Batch
BY DEF Inv, Typed, Control, LoopInv, Settled

LEMMA EpollWaitStep == ASSUME Inv, EpollWait PROVE Inv'
<1>1. batch' \subseteq Ready /\ loop = "wait" /\ loop' = "dispatch"
  BY DEF EpollWait, kSubset
<1>2. UNCHANGED <<peerVars, conns, ringVars, enable_epollout, cur, callVars>>
  BY DEF EpollWait
<1>3. Batch'
  <2>1. ASSUME NEW e \in Ready PROVE \/ e.h \in conns /\ e.h \in Clients /\ e = [h |-> e.h, ev |-> Events(e.h)]
                                     \/ e.h = Acceptor /\ e = [h |-> Acceptor, ev |-> {"IN"}]
    <3>1. CASE \E d \in Clients : Events(d) # {} /\ e = [h |-> d, ev |-> Events(d)]
      <4>1. PICK d \in Clients : Events(d) # {} /\ e = [h |-> d, ev |-> Events(d)]
        BY <3>1
      <4>2. d \in conns
        BY <4>1 DEF Events, Inv, RegInv, Registered
      <4> QED
        BY <4>1, <4>2
    <3>2. CASE e = [h |-> Acceptor, ev |-> {"IN"}]
      BY <3>2
    <3> QED
      BY <3>1, <3>2 DEF Ready
  <2>2. \A e, g \in Ready : e.h = g.h => e = g
    BY <2>1, Apart
  <2> QED
    BY <1>1, <1>2, <2>1, <2>2 DEF Batch
<1>4. Typed' /\ DataInv' /\ RegInv'
  BY <1>2 DEF Inv, Typed, DataInv, Ring, Stream, RegInv, Registered, peerVars, ringVars
<1>5. Control'
  <2>1. LoopInv'
    BY <1>1, <1>2, <1>3 DEF Inv, Control, LoopInv, Calls
  <2>2. Settled'
    BY <1>2 DEF Inv, Control, Settled, Armed, ringVars
  <2> QED
    BY <1>1, <2>1, <2>2 DEF Control, CallInv
<1> QED
  BY <1>4, <1>5 DEF Inv

LEMMA AcceptStep == ASSUME Inv, Accept PROVE Inv'
<1>1. PICK c \in backlog :
          /\ backlog' = backlog \ {c}
          /\ conns' = conns \cup {c}
          /\ interest' = [interest EXCEPT ![c] = {"IN"}]
          /\ enable_epollout' = [enable_epollout EXCEPT ![c] = FALSE]
  BY DEF Accept
<1>2. UNCHANGED <<peer, sent, recvd, tx, got, ringVars, batch>> /\ loop = "accept"
  BY DEF Accept
<1>3. c \in Clients /\ peer[c] # "idle" /\ c \notin conns /\ f[c] = p[c]
  BY DEF Inv, Typed, RegInv, Registered
<1>4. /\ interest'[c] = {"IN"} /\ enable_epollout'[c] = FALSE
      /\ \A d \in Clients \ {c} : /\ interest'[d] = interest[d]
                                  /\ enable_epollout'[d] = enable_epollout[d]
  BY <1>1, <1>3 DEF Inv, Typed
<1>5. Typed'
  <2>1. /\ interest' \in [Clients -> SUBSET {"IN", "OUT"}]
        /\ enable_epollout' \in [Clients -> BOOLEAN]
    BY <1>1 DEF Inv, Typed
  <2> QED
    BY <1>1, <1>2, <1>3, <2>1 DEF Inv, Typed, ringVars
<1>6. DataInv'
  BY <1>2 DEF Inv, DataInv, Ring, Stream, ringVars
<1>7. RegInv'
  <2>1. Registered(c)'
    BY <1>1, <1>2, <1>3, <1>4 DEF Registered
  <2>2. ASSUME NEW d \in Clients, d # c PROVE Registered(d)'
    BY <1>1, <1>2, <1>4, <2>2 DEF Inv, RegInv, Registered, ringVars
  <2> QED
    BY <2>1, <2>2 DEF RegInv
<1>8. Control'
  <2>1. Batch'
    BY <1>1, <1>2 DEF Inv, Control, LoopInv, Batch
  <2>2. \A d \in conns : cur.h # d
    BY <1>2, Apart DEF Inv, Typed, Control, LoopInv, Calls
  <2>3. \A d \in conns' : Armed(d)'
    <3>1. Armed(c)'
      BY <1>2, <1>3, <1>4 DEF Armed, ringVars
    <3>2. \A d \in conns : Armed(d)'
      BY <1>2, <1>3, <1>4, <2>2 DEF Inv, Typed, Control, Settled, Armed, ringVars
    <3> QED
      BY <1>1, <3>1, <3>2
  <2> QED
    BY <2>1, <2>3, Returned DEF Accept
<1> QED
  BY <1>5, <1>6, <1>7, <1>8 DEF Inv

LEMMA AcceptFailsStep == ASSUME Inv, AcceptFails PROVE Inv'
<1>1. /\ loop = "accept" /\ loop' = "aborted" /\ conns' = {} /\ batch' = {}
      /\ interest' = [c \in Clients |-> {}]
      /\ UNCHANGED <<peer, sent, recvd, tx, got, backlog, ringVars, enable_epollout, cur, callVars>>
  BY DEF AcceptFails
<1>2. Typed' /\ DataInv'
  <2>1. interest' \in [Clients -> SUBSET {"IN", "OUT"}]
    BY <1>1
  <2> QED
    BY <1>1, <2>1 DEF Inv, Typed, DataInv, Ring, Stream, ringVars
<1>3. RegInv'
  <2> SUFFICES ASSUME NEW d \in Clients PROVE Registered(d)'
    BY DEF RegInv
  <2> QED
    BY <1>1 DEF Inv, RegInv, Registered, ringVars
<1>4. Control'
  <2>1. LoopInv'
    BY <1>1 DEF Inv, Control, LoopInv, Batch, Calls
  <2> QED
    BY <1>1, <2>1 DEF Control, Settled, CallInv
<1> QED
  BY <1>2, <1>3, <1>4 DEF Inv

LEMMA ClientStep == ASSUME Inv, NEW c \in Clients, Client(c) PROVE Inv'
<1>1. UNCHANGED serverVars
  BY DEF Client
<1>2. Control'
  BY <1>1 DEF Inv, Control, LoopInv, Batch, Settled, Armed, CallInv, Receiving, Sending, serverVars
<1>3. CASE Connect(c)
  <2>1. /\ peer[c] = "idle" /\ peer' = [peer EXCEPT ![c] = "open"] /\ backlog' = backlog \cup {c}
        /\ UNCHANGED <<sent, recvd, tx, got, interest>>
    BY <1>3 DEF Connect
  <2>2. Typed'
    <3>1. peer' \in [Clients -> {"idle", "open", "eof", "reset"}]
      BY <2>1 DEF Inv, Typed
    <3> QED
      BY <1>1, <2>1, <3>1 DEF Inv, Typed, serverVars
  <2>3. DataInv'
    BY <1>1, <2>1 DEF Inv, DataInv, Ring, Stream, serverVars
  <2>4. RegInv'
    <3>1. peer'[c] = "open" /\ \A d \in Clients \ {c} : peer'[d] = peer[d]
      BY <2>1 DEF Inv, Typed
    <3>2. Registered(c)'
      BY <1>1, <2>1, <3>1 DEF Inv, RegInv, Registered, serverVars
    <3>3. ASSUME NEW d \in Clients, d # c PROVE Registered(d)'
      BY <1>1, <2>1, <3>1, <3>3 DEF Inv, RegInv, Registered, serverVars
    <3> QED
      BY <3>2, <3>3 DEF RegInv
  <2> QED
    BY <1>2, <2>2, <2>3, <2>4 DEF Inv
<1>4. CASE ClientSend(c)
  <2>1. /\ sent' = [sent EXCEPT ![c] = @ + 1]
        /\ UNCHANGED <<peer, recvd, tx, got, backlog, interest>>
    BY <1>4 DEF ClientSend
  <2>2. sent' \in [Clients -> Nat] /\ \A d \in Clients : sent'[d] >= sent[d]
    BY <2>1 DEF Inv, Typed
  <2>3. Typed'
    BY <1>1, <2>1, <2>2 DEF Inv, Typed, serverVars
  <2>4. DataInv'
    <3> SUFFICES ASSUME NEW d \in Clients PROVE Ring(d)' /\ Stream(d)'
      BY DEF DataInv
    <3>1. recvd[d] <= sent'[d]
      <4>1. recvd[d] \in Nat /\ sent[d] \in Nat /\ sent'[d] \in Nat /\ recvd[d] <= sent[d]
        BY <2>2 DEF Inv, Typed, DataInv, Ring
      <4> QED
        BY <2>2, <4>1
    <3> QED
      BY <1>1, <2>1, <3>1 DEF Inv, DataInv, Ring, Stream, serverVars
  <2>5. RegInv'
    BY <1>1, <2>1 DEF Inv, RegInv, Registered, serverVars
  <2> QED
    BY <1>2, <2>3, <2>4, <2>5 DEF Inv
<1>5. CASE ClientRead(c)
  <2>1. UNCHANGED <<peer, sent, recvd, backlog, interest>>
    BY <1>5 DEF ClientRead
  <2>2. DataInv' /\ tx' \in [Clients -> Seq(Nat)] /\ got' \in [Clients -> Seq(Nat)]
    BY <1>1, <1>5, ReadData DEF Inv, serverVars
  <2>3. Typed'
    BY <1>1, <2>1, <2>2 DEF Inv, Typed, serverVars
  <2>4. RegInv'
    BY <1>1, <2>1 DEF Inv, RegInv, Registered, serverVars
  <2> QED
    BY <1>2, <2>2, <2>3, <2>4 DEF Inv
<1>6. CASE ClientShutdown(c) \/ ClientReset(c)
  <2>1. /\ peer[c] # "idle" /\ peer' \in {[peer EXCEPT ![c] = "eof"], [peer EXCEPT ![c] = "reset"]}
        /\ UNCHANGED <<sent, recvd, tx, got, backlog, interest>>
    BY <1>6 DEF ClientShutdown, ClientReset
  <2>2. /\ peer' \in [Clients -> {"idle", "open", "eof", "reset"}]
        /\ \A d \in Clients : peer'[d] = "idle" <=> peer[d] = "idle"
    BY <2>1 DEF Inv, Typed
  <2>3. Typed' /\ DataInv'
    BY <1>1, <2>1, <2>2 DEF Inv, Typed, DataInv, Ring, Stream, serverVars
  <2>4. RegInv'
    BY <1>1, <2>1, <2>2 DEF Inv, RegInv, Registered, serverVars
  <2> QED
    BY <1>2, <2>3, <2>4 DEF Inv
<1> QED
  BY <1>3, <1>4, <1>5, <1>6 DEF Client

LEMMA DispatchStep == ASSUME Inv, Dispatch PROVE Inv'
<1>1. UNCHANGED <<peer, sent, recvd, tx, got, backlog, ringVars, enable_epollout>> /\ loop = "dispatch"
  BY DEF Dispatch
<1>2. PICK e \in batch :
        /\ batch' = batch \ {e}
        /\ \/ /\ e.h = Acceptor
              /\ loop' = "accept" /\ cur' = e
              /\ UNCHANGED <<conns, interest, callVars>>
           \/ e.h # Acceptor /\ Handle(e)
  BY DEF Dispatch
<1>3. /\ \A x \in batch' : x \in batch /\ x.h # e.h
      /\ e.h \in conns \cup {Acceptor} /\ \A d \in conns : Armed(d)
  <2>1. Batch /\ cur.h = Acceptor
    BY <1>1 DEF Inv, Control, LoopInv, Calls
  <2>2. \A d \in conns : cur.h # d
    BY <2>1, Apart DEF Inv, Typed
  <2> QED
    BY <1>2, <2>1, <2>2 DEF Batch, Inv, Control, Settled
<1>4. DataInv'
  BY <1>1 DEF Inv, DataInv, Ring, Stream, ringVars
<1>5. ASSUME UNCHANGED <<conns, interest>> PROVE Typed' /\ RegInv' /\ Batch' /\ \A d \in conns' : Armed(d)'
  <2>1. Typed' /\ RegInv'
    BY <1>1, <1>5 DEF Inv, Typed, RegInv, Registered, ringVars
  <2>2. Batch'
    BY <1>2, <1>5 DEF Inv, Control, LoopInv, Batch
  <2>3. \A d \in conns' : Armed(d)'
    BY <1>1, <1>3, <1>5 DEF Armed, ringVars
  <2> QED
    BY <2>1, <2>2, <2>3
<1>6. CASE e.h = Acceptor /\ loop' = "accept" /\ cur' = e /\ UNCHANGED <<conns, interest, callVars>>
  <2>1. LoopInv' /\ Settled' /\ CallInv'
    BY <1>5, <1>6 DEF LoopInv, Settled, CallInv, Calls
  <2> QED
    BY <1>4, <1>5, <1>6, <2>1 DEF Inv, Control
<1>7. CASE e.h # Acceptor /\ Handle(e)
  <2>1. e.h \in conns /\ e.h \in Clients
    BY <1>3, <1>7 DEF Inv, Typed
  <2>2. CASE Delete(e.h)
    BY <1>1, <1>3, <2>1, <2>2, Deleted
  <2>3. CASE loop' = "write" /\ cur' = e /\ UNCHANGED <<conns, interest, callVars>>
    <3>1. LoopInv' /\ Settled' /\ CallInv'
      BY <1>3, <1>5, <2>1, <2>3 DEF LoopInv, Settled, CallInv, Calls
    <3> QED
      BY <1>4, <1>5, <2>3, <3>1 DEF Inv, Control
  <2>4. CASE EnterRecv(e, f[e.h], p[e.h]) /\ UNCHANGED <<conns, interest>>
    <3>1. f[e.h] = f'[e.h] /\ p[e.h] = p'[e.h]
      BY <1>1 DEF ringVars
    <3>2. Counters(f[e.h], p[e.h])
      BY <2>1 DEF Inv, DataInv, Ring
    <3>3. f[e.h] = p[e.h] => ~enable_epollout'[e.h]
      BY <1>1, <1>3, <2>1 DEF Armed
    <3>4. Control'
      BY <1>3, <1>5, <2>1, <2>4, <3>1, <3>2, <3>3, EnteredRecv
    <3> QED
      BY <1>4, <1>5, <2>4, <3>4 DEF Inv
  <2> QED
    BY <1>7, <2>2, <2>3, <2>4 DEF Handle
<1> QED
  BY <1>2, <1>6, <1>7

\* What a send may accept.
LEMMA Taken ==
    ASSUME Typed, NEW c \in Clients, NEW len \in Nat, NEW n \in Accepted(c, len)
    PROVE  n \in Nat /\ n <= len
<1>1. Len(tx[c]) \in Nat /\ TxCap[c] \in Nat
  BY PeersAssumption DEF Typed
<1>2. Room(c) \in Int
  BY <1>1 DEF Room
<1> QED
  BY <1>2 DEF Accepted

\* The next n held bytes, as g, go to the socket of c.
Sends(c, n, g) ==
    /\ c \in conns /\ n \in Nat /\ f[c] + n <= p[c]
    /\ g \in [1 .. n -> Nat] /\ \A k \in 1 .. n : g[k] = f[c] + k
    /\ tx' = [tx EXCEPT ![c] = @ \o g]
    /\ f' = [f EXCEPT ![c] = @ + n]
    /\ UNCHANGED <<p, recvd, sent, buf, got>>

\* What is the same after sendmsg and after send.
LEMMA Sent ==
    ASSUME Inv, NEW c, NEW n, NEW g, Sends(c, n, g)
    PROVE  /\ DataInv' /\ tx' \in [Clients -> Seq(Nat)] /\ f' \in [Clients -> Nat]
           /\ f'[c] = f[c] + n /\ \A d \in Clients \ {c} : f'[d] = f[d]
           /\ Counters(f'[c], p'[c])
<1> USE DEF Sends
<1>1. c \in Clients
  BY DEF Inv, Typed
<1>2. DataInv' /\ tx' \in [Clients -> Seq(Nat)]
  BY <1>1, SendData DEF Inv
<1>3. f \in [Clients -> Nat] /\ f[c] + n \in Nat
  BY <1>1 DEF Inv, Typed
<1> QED
  BY <1>1, <1>2, <1>3 DEF DataInv, Ring

LEMMA HandleWriteStep == ASSUME Inv, NEW c \in Clients, HandleWrite(c) PROVE Inv'
<1> DEFINE v == get_exist_iovec(f[c], p[c])
           held == get_exist_size(f[c], p[c])
<1>1. /\ loop = "write" /\ cur.h = c
      /\ UNCHANGED <<peer, sent, recvd, got, backlog, p, buf, batch>>
  BY DEF HandleWrite
<1>2. /\ c \in conns /\ \A e \in batch' : e \in batch /\ e.h # c
      /\ \A d \in conns \ {c} : Armed(d)
      /\ Batch
  BY <1>1, UnderWay DEF Calls
<1>3. /\ f[c] \in Nat /\ p[c] \in Nat /\ f[c] <= p[c] /\ held = p[c] - f[c] /\ held \in Nat
      /\ Counters(f[c], p[c])
  BY DEF Inv, DataInv, Ring, Counters, get_exist_size
<1>4. CASE Delete(c) /\ UNCHANGED <<f, tx, enable_epollout>>
  BY <1>1, <1>2, <1>4, Deleted DEF ringVars
<1>5. ASSUME NEW n \in Accepted(c, held),
             tx' = [tx EXCEPT ![c] = @ \o [k \in 1 .. n |-> buf[c][SlotOf(v, k - 1)]]],
             f' = [f EXCEPT ![c] = @ + n],
             IF held > 0 THEN Rearm(c, n = held) ELSE UNCHANGED <<interest, enable_epollout>>,
             IF "IN" \in cur.ev THEN EnterRecv(cur, f[c] + n, p[c]) ELSE Return,
             UNCHANGED conns
      PROVE  Inv'
  <2> DEFINE g == [k \in 1 .. n |-> buf[c][SlotOf(v, k - 1)]]
  <2>1. n \in Nat /\ n <= held /\ f[c] + n <= p[c]
    <3>1. n \in Nat /\ n <= held
      BY <1>3, Taken DEF Inv
    <3> QED
      BY <1>3, <3>1
  <2>2. ASSUME NEW k \in 1 .. n PROVE buf[c][SlotOf(v, k - 1)] = f[c] + k
    <3>1. k - 1 \in 0 .. held - 1 /\ held > 0
      BY <1>3, <2>1
    <3>2. SlotOf(v, k - 1) = (f[c] + (k - 1)) % max_pkt_size
      BY <1>3, <3>1, ExistIovec
    <3>3. f[c] + (k - 1) \in f[c] .. p[c] - 1 /\ f[c] + (k - 1) + 1 = f[c] + k
      BY <1>3, <2>1
    <3>4. \A j \in f[c] .. p[c] - 1 : buf[c][j % max_pkt_size] = j + 1
      BY DEF Inv, DataInv, Ring
    <3> QED
      BY <3>2, <3>3, <3>4
  <2>3. g \in [1 .. n -> Nat] /\ \A k \in 1 .. n : g[k] = f[c] + k
    <3>1. \A k \in 1 .. n : f[c] + k \in Nat
      BY <1>3
    <3> QED
      BY <2>2, <3>1
  <2>4. tx' = [tx EXCEPT ![c] = @ \o g]
    BY <1>5
  <2> HIDE DEF g
  <2>5. /\ DataInv' /\ tx' \in [Clients -> Seq(Nat)] /\ f' \in [Clients -> Nat]
        /\ f'[c] = f[c] + n /\ \A d \in Clients \ {c} : f'[d] = f[d]
        /\ Counters(f'[c], p'[c])
    <3>1. Sends(c, n, g)
      BY <1>1, <1>2, <1>5, <2>1, <2>3, <2>4 DEF Sends
    <3> QED
      BY <3>1, Sent
  <2>6. /\ RegInv' /\ Armed(c)'
        /\ interest' \in [Clients -> SUBSET {"IN", "OUT"}]
        /\ enable_epollout' \in [Clients -> BOOLEAN]
        /\ \A d \in Clients \ {c} : enable_epollout'[d] = enable_epollout[d]
    <3>1. CASE held > 0
      <4> DEFINE finished == n = held
      <4>1. finished <=> f'[c] = p[c]
        BY <1>3, <2>1, <2>5
      <4>2. finished \in BOOLEAN /\ Rearm(c, finished)
        BY <1>5, <3>1
      <4> HIDE DEF finished
      <4> QED
        BY <1>1, <1>2, <1>5, <2>5, <4>1, <4>2, Rearmed DEF Inv
    <3>2. CASE ~(held > 0)
      <4>1. UNCHANGED <<interest, enable_epollout>> /\ f'[c] = f[c]
        BY <1>3, <1>5, <2>1, <2>5, <3>2
      <4>2. Armed(c)'
        BY <1>1, <4>1 DEF Inv, Control, CallInv, Armed
      <4>3. RegInv'
        BY <1>1, <1>2, <1>5, <2>5, <4>1, RegFrame DEF Inv, RegInv, Registered
      <4> QED
        BY <4>1, <4>2, <4>3 DEF Inv, Typed
    <3> QED
      BY <3>1, <3>2
  <2>7. Typed'
    BY <1>1, <1>5, <2>5, <2>6 DEF Inv, Typed
  <2>8. Batch' /\ \A d \in conns' : Armed(d)'
    <3>1. Batch'
      BY <1>1, <1>2, <1>5 DEF Batch
    <3>2. ASSUME NEW d \in conns, d # c PROVE Armed(d)'
      <4>1. d \in Clients /\ f'[d] = f[d] /\ p'[d] = p[d] /\ enable_epollout'[d] = enable_epollout[d]
        BY <1>1, <2>5, <2>6, <3>2 DEF Inv, Typed
      <4> QED
        BY <1>2, <3>2, <4>1 DEF Armed
    <3> QED
      BY <1>5, <2>6, <3>1, <3>2
  <2>9. Control'
    <3>1. CASE Return
      BY <2>8, <3>1, Returned
    <3>2. CASE EnterRecv(cur, f[c] + n, p[c])
      <4> DEFINE f1 == f[c] + n
                 p1 == p[c]
      <4>1. /\ cur.h \in conns' /\ \A x \in batch' : x.h # cur.h
            /\ f1 = f'[cur.h] /\ p1 = p'[cur.h] /\ Counters(f1, p1)
        BY <1>1, <1>2, <1>5, <2>5
      <4>2. f1 = p1 => ~enable_epollout'[cur.h]
        BY <1>1, <2>6, <4>1 DEF Armed
      <4>3. EnterRecv(cur, f1, p1)
        BY <3>2
      <4> HIDE DEF f1, p1
      <4> QED
        BY <2>8, <4>1, <4>2, <4>3, EnteredRecv
    <3> QED
      BY <1>5, <3>1, <3>2
  <2> QED
    BY <2>5, <2>6, <2>7, <2>9 DEF Inv
<1> QED
  BY <1>4, <1>5 DEF HandleWrite

LEMMA SendStep == ASSUME Inv, NEW c \in Clients, Send(c) PROVE Inv'
<1> DEFINE b == iov[i]
<1>1. /\ loop = "send" /\ cur.h = c
      /\ UNCHANGED <<peer, sent, recvd, got, backlog, p, buf, batch>>
  BY DEF Send
<1>2. /\ c \in conns /\ \A e \in batch' : e \in batch /\ e.h # c
      /\ \A d \in conns \ {c} : Armed(d)
      /\ Batch
  BY <1>1, UnderWay DEF Calls
<1>3. PICK f0 \in Nat : Sending(c, f0)
  BY <1>1 DEF Inv, Control, CallInv
<1>4. /\ b.base \in RingSlots /\ b.len \in Nat \ {0}
      /\ \A j \in 0 .. b.len - 1 : b.base + j = (f[c] + j) % max_pkt_size
      /\ f[c] + b.len <= p[c]
      /\ i = Len(iov) => f[c] + b.len = p[c]
      /\ i # Len(iov) => i = 1 /\ Len(iov) = 2
  BY <1>3, SendBlock
<1>5. f[c] \in Nat /\ p[c] \in Nat /\ to_send = p[c] - f0 /\ have_send = f[c] - f0
  BY <1>3 DEF Inv, Typed, Sending
<1>6. CASE Delete(c) /\ UNCHANGED <<f, tx, enable_epollout>>
  BY <1>1, <1>2, <1>6, Deleted DEF ringVars
<1>7. ASSUME NEW n \in Accepted(c, b.len), NEW finished \in BOOLEAN,
             finished <=> have_send + n = to_send,
             tx' = [tx EXCEPT ![c] = @ \o [k \in 1 .. n |-> buf[c][b.base + k - 1]]],
             f' = [f EXCEPT ![c] = @ + n],
             IF finished \/ n < b.len THEN Rearm(c, finished)
                                      ELSE UNCHANGED <<interest, enable_epollout>>,
             IF finished \/ n < b.len
             THEN Return
             ELSE /\ i' = i + 1 /\ have_send' = have_send + n
                  /\ UNCHANGED <<loop, cur, iov, to_send>>,
             UNCHANGED conns
      PROVE  Inv'
  <2> DEFINE g == [k \in 1 .. n |-> buf[c][b.base + k - 1]]
             len == b.len
  <2>1. n \in Nat /\ n <= len /\ f[c] + n <= p[c] /\ len \in Nat
    <3>1. n \in Nat /\ n <= b.len
      <4>1. Typed /\ len \in Nat
        BY <1>4 DEF Inv
      <4>2. n \in Accepted(c, len)
        OBVIOUS
      <4> HIDE DEF len
      <4>3. n \in Nat /\ n <= len
        BY <4>1, <4>2, Taken
      <4> QED
        BY <4>3 DEF len
    <3>2. len \in Nat /\ f[c] + len <= p[c]
      BY <1>4
    <3> HIDE DEF len
    <3>3. f[c] \in Nat /\ p[c] \in Nat /\ n \in Nat /\ n <= len
      BY <1>5, <3>1 DEF len
    <3> QED
      BY <3>2, <3>3
  <2>2. ASSUME NEW k \in 1 .. n PROVE buf[c][b.base + k - 1] = f[c] + k
    <3>1. k - 1 \in 0 .. len - 1 /\ b.base \in Nat /\ b.base + k - 1 = b.base + (k - 1)
      BY <1>4, <2>1, RingAssumption DEF RingSlots
    <3>2. b.base + (k - 1) = (f[c] + (k - 1)) % max_pkt_size
      BY <1>4, <3>1
    <3>3. f[c] + (k - 1) \in f[c] .. p[c] - 1 /\ f[c] + (k - 1) + 1 = f[c] + k
      BY <1>5, <2>1
    <3>4. \A j \in f[c] .. p[c] - 1 : buf[c][j % max_pkt_size] = j + 1
      BY DEF Inv, DataInv, Ring
    <3> QED
      BY <3>1, <3>2, <3>3, <3>4
  <2>3. g \in [1 .. n -> Nat] /\ \A k \in 1 .. n : g[k] = f[c] + k
    <3>1. \A k \in 1 .. n : f[c] + k \in Nat
      BY <1>5
    <3> QED
      BY <2>2, <3>1
  <2>4. tx' = [tx EXCEPT ![c] = @ \o g]
    BY <1>7
  <2> HIDE DEF g
  <2>5. /\ DataInv' /\ tx' \in [Clients -> Seq(Nat)] /\ f' \in [Clients -> Nat]
        /\ f'[c] = f[c] + n /\ \A d \in Clients \ {c} : f'[d] = f[d]
        /\ Counters(f'[c], p'[c])
    <3>1. Sends(c, n, g)
      BY <1>1, <1>2, <1>7, <2>1, <2>3, <2>4 DEF Sends
    <3> QED
      BY <3>1, Sent
  <2>6. finished <=> f'[c] = p[c]
    BY <1>3, <1>5, <1>7, <2>1, <2>5
  <2>7. CASE finished \/ n < b.len
    <3>1. Rearm(c, finished) /\ Return
      BY <1>7, <2>7
    <3>2. /\ RegInv' /\ Armed(c)'
          /\ interest' \in [Clients -> SUBSET {"IN", "OUT"}]
          /\ enable_epollout' \in [Clients -> BOOLEAN]
          /\ \A d \in Clients \ {c} : enable_epollout'[d] = enable_epollout[d]
      BY <1>1, <1>2, <1>7, <2>5, <2>6, <3>1, Rearmed DEF Inv
    <3>3. Typed'
      BY <1>1, <1>7, <2>5, <3>2 DEF Inv, Typed
    <3>4. Batch'
      BY <1>1, <1>2, <1>7 DEF Batch
    <3>5. ASSUME NEW d \in conns, d # c PROVE Armed(d)'
      <4>1. d \in Clients /\ f'[d] = f[d] /\ p'[d] = p[d] /\ enable_epollout'[d] = enable_epollout[d]
        BY <1>1, <2>5, <3>2, <3>5 DEF Inv, Typed
      <4> QED
        BY <1>2, <3>5, <4>1 DEF Armed
    <3>6. Control'
      BY <1>7, <3>1, <3>2, <3>4, <3>5, Returned
    <3> QED
      BY <2>5, <3>2, <3>3, <3>6 DEF Inv
  <2>8. CASE ~(finished \/ n < b.len)
    <3>1. /\ i' = i + 1 /\ have_send' = have_send + n
          /\ UNCHANGED <<loop, cur, iov, to_send, interest, enable_epollout>>
      BY <1>7, <2>8
    <3>2. n = b.len
      BY <2>1, <2>8
    <3>3. i # Len(iov)
      BY <1>4, <1>5, <2>5, <2>6, <2>8, <3>2
    <3>4. Typed' /\ RegInv'
      <4>1. RegInv'
        BY <1>1, <1>2, <1>7, <2>5, <3>1, RegFrame DEF Inv, RegInv, Registered
      <4> QED
        BY <1>1, <1>7, <2>5, <3>1, <4>1 DEF Inv, Typed
    <3>5. Sending(c, f0)'
      <4>1. i = 1 /\ Len(iov) = 2
        BY <1>4, <3>3
      <4>2. f[c] = f0
        BY <1>3, <4>1 DEF Sending
      <4>3. f'[c] = f0 + iov[1].len
        BY <2>5, <3>2, <4>1, <4>2
      <4>4. have_send' = f'[c] - f0
        BY <1>5, <2>1, <2>5, <3>1
      <4>5. i' = 2
        BY <3>1, <4>1
      <4> QED
        BY <1>1, <1>3, <3>1, <4>1, <4>3, <4>4, <4>5 DEF Sending
    <3>6. LoopInv' /\ Settled'
      <4>1. LoopInv'
        BY <1>1, <1>7, <3>1 DEF Inv, Control, LoopInv, Batch
      <4>2. ASSUME NEW d \in conns', cur'.h # d PROVE Armed(d)'
        <5>1. d \in conns \ {c} /\ d \in Clients
          BY <1>1, <1>7, <3>1, <4>2 DEF Inv, Typed
        <5>2. f'[d] = f[d] /\ p'[d] = p[d] /\ enable_epollout'[d] = enable_epollout[d]
          BY <1>1, <2>5, <3>1, <5>1
        <5> QED
          BY <1>2, <5>1, <5>2 DEF Armed
      <4> QED
        BY <4>1, <4>2 DEF Settled
    <3>7. CallInv'
      BY <1>1, <1>3, <3>1, <3>5 DEF CallInv
    <3> QED
      BY <2>5, <3>4, <3>6, <3>7 DEF Inv, Control
  <2> QED
    BY <2>7, <2>8
<1>8. CASE /\ peer[c] # "reset"
           /\ \E n \in Accepted(c, b.len) :
                   LET finished == have_send + n = to_send
                   IN  /\ tx' = [tx EXCEPT ![c] =
                                    @ \o [k \in 1 .. n |-> buf[c][b.base + k - 1]]]
                       /\ f' = [f EXCEPT ![c] = @ + n]
                       /\ IF finished \/ n < b.len
                          THEN Rearm(c, finished)
                          ELSE UNCHANGED <<interest, enable_epollout>>
                       /\ IF finished \/ n < b.len
                          THEN Return
                          ELSE /\ i' = i + 1
                               /\ have_send' = have_send + n
                               /\ UNCHANGED <<loop, cur, iov, to_send>>
           /\ UNCHANGED conns
  BY <1>7, <1>8
<1> QED
  BY <1>6, <1>8 DEF Send

LEMMA RecvStep == ASSUME Inv, NEW c \in Clients, Recv(c) PROVE Inv'
<1> DEFINE b == iov[i]
           n == IF Unread(c) < b.len THEN Unread(c) ELSE b.len
<1>1. /\ loop = "recv" /\ cur.h = c
      /\ UNCHANGED <<peer, sent, tx, got, backlog, f, enable_epollout, batch>>
  BY DEF Recv
<1>2. /\ c \in conns /\ \A e \in batch' : e \in batch /\ e.h # c
      /\ \A d \in conns \ {c} : Armed(d)
      /\ Batch
  BY <1>1, UnderWay DEF Calls
<1>3. PICK p0 \in Nat : Receiving(c, p0)
  BY <1>1 DEF Inv, Control, CallInv
<1>4. /\ b.base \in RingSlots /\ b.len \in Nat \ {0} /\ b.base + b.len <= max_pkt_size
      /\ \A j \in 0 .. b.len - 1 : b.base + j = (p[c] + j) % max_pkt_size
      /\ p[c] + b.len - f[c] <= max_pkt_size - 1
      /\ i # Len(iov) => i = 1 /\ Len(iov) = 2
  BY <1>3, RecvBlock
<1>5. /\ f[c] \in Nat /\ p[c] \in Nat /\ sent[c] \in Nat /\ recvd[c] = p[c] /\ recvd[c] <= sent[c]
      /\ f[c] <= p[c]
  BY DEF Inv, Typed, DataInv, Ring, Counters
<1>6. /\ n \in Nat /\ n <= b.len /\ recvd[c] + n <= sent[c]
  BY <1>4, <1>5 DEF Unread
<1>7. CASE Delete(c) /\ UNCHANGED <<recvd, p, buf>>
  BY <1>1, <1>2, <1>7, Deleted DEF ringVars
<1>8. ASSUME buf' = [buf EXCEPT ![c] = [s \in RingSlots |->
                        IF s \in b.base .. b.base + n - 1
                        THEN recvd[c] + 1 + s - b.base ELSE @[s]]],
             recvd' = [recvd EXCEPT ![c] = @ + n],
             p' = [p EXCEPT ![c] = @ + n],
             IF n < b.len \/ i = Len(iov)
             THEN EnterSend(cur, f[c], p[c] + n)
             ELSE i' = i + 1 /\ UNCHANGED <<loop, cur, iov, to_send, have_send>>,
             UNCHANGED <<conns, interest>>
      PROVE  Inv'
  <2>1. DataInv' /\ buf' \in [Clients -> [RingSlots -> Nat]]
    <3> DEFINE base == b.base
               m == n
    <3>1. base \in RingSlots /\ m \in Nat /\ recvd[c] + m <= sent[c]
      BY <1>4, <1>6
    <3>2. \A j \in 0 .. m - 1 : base + j \in RingSlots /\ base + j = (p[c] + j) % max_pkt_size
      <4> SUFFICES ASSUME NEW j \in 0 .. m - 1
                   PROVE  base + j \in RingSlots /\ base + j = (p[c] + j) % max_pkt_size
        OBVIOUS
      <4>1. j \in 0 .. b.len - 1
        BY <1>4, <1>6
      <4>2. base \in Nat /\ b.len \in Nat /\ base + b.len <= max_pkt_size
            /\ max_pkt_size \in Nat /\ RingSlots = 0 .. max_pkt_size - 1
        BY <1>4, RingAssumption DEF RingSlots
      <4>3. base + j \in RingSlots
        BY <4>1, <4>2
      <4> QED
        BY <1>4, <4>1, <4>3
    <3>3. p[c] + m - f[c] <= max_pkt_size - 1
      <4>1. m \in Nat /\ b.len \in Nat /\ m <= b.len /\ max_pkt_size \in Nat
        BY <1>4, <1>6, RingAssumption
      <4> QED
        BY <1>4, <1>5, <4>1
    <3>4. /\ buf' = [buf EXCEPT ![c] = [s \in RingSlots |->
                        IF s \in base .. base + m - 1 THEN recvd[c] + 1 + s - base ELSE @[s]]]
          /\ recvd' = [recvd EXCEPT ![c] = @ + m] /\ p' = [p EXCEPT ![c] = @ + m]
          /\ UNCHANGED <<f, sent, tx, got>>
      BY <1>1, <1>8
    <3> HIDE DEF base, m
    <3> QED
      BY <1>2, <3>1, <3>2, <3>3, <3>4, RecvData DEF Inv
  <2> HIDE DEF n
  <2>2. /\ p'[c] = p[c] + n /\ \A d \in Clients \ {c} : p'[d] = p[d]
        /\ p' \in [Clients -> Nat] /\ recvd' \in [Clients -> Nat]
    BY <1>5, <1>6, <1>8 DEF Inv, Typed
  <2>3. Typed'
    BY <1>1, <1>8, <2>1, <2>2 DEF Inv, Typed
  <2>4. RegInv'
    BY <1>1, <1>2, <1>8, <2>2, RegFrame DEF Inv, RegInv, Registered
  <2>5. Batch' /\ \A d \in conns' \ {c} : Armed(d)'
    <3>1. Batch'
      BY <1>1, <1>2, <1>8 DEF Batch
    <3>2. ASSUME NEW d \in conns, d # c PROVE Armed(d)'
      <4>1. d \in Clients /\ f'[d] = f[d] /\ p'[d] = p[d] /\ enable_epollout'[d] = enable_epollout[d]
        BY <1>1, <2>2, <3>2 DEF Inv, Typed
      <4> QED
        BY <1>2, <3>2, <4>1 DEF Armed
    <3> QED
      BY <1>8, <3>1, <3>2
  <2>6. f'[c] = p'[c] => ~enable_epollout'[c]
    <3>1. f'[c] = f[c] /\ enable_epollout'[c] = enable_epollout[c]
      BY <1>1
    <3>2. f'[c] = p'[c] => f[c] = p[c]
      BY <1>5, <1>6, <2>2, <3>1
    <3> QED
      BY <1>1, <3>1, <3>2 DEF Inv, Control, CallInv
  <2>7. Control'
    <3>1. CASE EnterSend(cur, f[c], p[c] + n)
      <4> DEFINE f1 == f[c]
                 p1 == p[c] + n
      <4>1. /\ cur.h \in conns' /\ \A x \in batch' : x.h # cur.h
            /\ f1 = f'[cur.h] /\ p1 = p'[cur.h]
            /\ \A d \in conns' \ {cur.h} : Armed(d)'
        BY <1>1, <1>2, <1>8, <2>2, <2>5
      <4>2. Counters(f1, p1) /\ (f1 = p1 => ~enable_epollout'[cur.h])
        BY <1>1, <2>1, <2>6, <4>1 DEF DataInv, Ring
      <4>3. EnterSend(cur, f1, p1)
        BY <3>1
      <4> HIDE DEF f1, p1
      <4> QED
        BY <2>5, <4>1, <4>2, <4>3, EnteredSend
    <3>2. CASE ~(n < b.len \/ i = Len(iov))
      <4>1. i' = i + 1 /\ UNCHANGED <<loop, cur, iov, to_send, have_send>>
        BY <1>8, <3>2
      <4>2. n = b.len /\ i = 1 /\ Len(iov) = 2
        BY <1>4, <1>6, <3>2
      <4>3. p[c] = p0
        BY <1>3, <4>2 DEF Receiving
      <4>4. p'[c] = p0 + iov[1].len /\ i' = 2
        BY <2>2, <4>1, <4>2, <4>3
      <4>5. Receiving(c, p0)'
        BY <1>1, <1>3, <4>1, <4>2, <4>4 DEF Receiving
      <4>6. LoopInv'
        BY <1>1, <1>8, <4>1 DEF Inv, Control, LoopInv, Batch
      <4>7. Settled'
        BY <1>1, <2>5, <4>1 DEF Settled
      <4>8. CallInv'
        BY <1>1, <1>3, <2>6, <4>1, <4>5 DEF CallInv
      <4> QED
        BY <4>6, <4>7, <4>8 DEF Control
    <3> QED
      BY <1>8, <3>1, <3>2
  <2> QED
    BY <2>1, <2>3, <2>4, <2>7 DEF Inv
<1> QED
  BY <1>7, <1>8 DEF Recv

LEMMA InitInv == Init => Inv
<1> SUFFICES ASSUME Init PROVE Inv
  OBVIOUS
<1> USE DEF Init, PeersInit
<1>1. Typed
  <2>1. buf \in [Clients -> [RingSlots -> Nat]]
    OBVIOUS
  <2>2. <<>> \in Seq(Nat)
    OBVIOUS
  <2> QED
    BY <2>1, <2>2 DEF Typed
<1>2. DataInv
  <2> SUFFICES ASSUME NEW c \in Clients PROVE Ring(c) /\ Stream(c)
    BY DEF DataInv
  <2>1. Counters(0, 0) /\ 0 .. 0 - 1 = {} /\ Len(<<>>) = 0
    BY RingAssumption DEF Counters
  <2> QED
    BY <2>1 DEF Ring, Stream
<1>3. RegInv
  BY DEF RegInv, Registered
<1>4. Control
  BY DEF Control, LoopInv, Batch, Settled, CallInv, Calls, Idle
<1> QED
  BY <1>1, <1>2, <1>3, <1>4 DEF Inv

LEMMA NextInv == Inv /\ [Next]_vars => Inv'
<1> SUFFICES ASSUME Inv, [Next]_vars PROVE Inv'
  OBVIOUS
<1>1. CASE UNCHANGED vars
  <2>1. Typed' /\ DataInv' /\ RegInv'
    BY <1>1 DEF vars, peerVars, serverVars, Inv, Typed, DataInv, Ring, Stream, RegInv, Registered
  <2>2. Control'
    BY <1>1 DEF vars, serverVars, Inv, Control, LoopInv, Batch, Settled, Armed, CallInv,
                Receiving, Sending
  <2> QED
    BY <2>1, <2>2 DEF Inv
<1>2. CASE EpollWait
  BY <1>2, EpollWaitStep
<1>3. CASE Dispatch
  BY <1>3, DispatchStep
<1>4. CASE Accept
  BY <1>4, AcceptStep
<1>5. CASE AcceptFails
  BY <1>5, AcceptFailsStep
<1>6. ASSUME NEW c \in Clients, HandleWrite(c) PROVE Inv'
  BY <1>6, HandleWriteStep
<1>7. ASSUME NEW c \in Clients, Recv(c) PROVE Inv'
  BY <1>7, RecvStep
<1>8. ASSUME NEW c \in Clients, Send(c) PROVE Inv'
  BY <1>8, SendStep
<1>9. ASSUME NEW c \in Clients, Client(c) PROVE Inv'
  BY <1>9, ClientStep
<1> QED
  BY <1>1, <1>2, <1>3, <1>4, <1>5, <1>6, <1>7, <1>8, <1>9 DEF Next, Server

------------------------------------------------------------------------------
\* The invariant holds in every reachable state.
THEOREM Inductive == Spec => []Inv
<1>1. Init => Inv
  BY InitInv
<1>2. Inv /\ [Next]_vars => Inv'
  BY NextInv
<1> QED
  BY <1>1, <1>2, PTL DEF Spec

\* What a client of server_epollout_handle.cpp reads is what it sent, in
\* order and without a gap, wherever the ring wraps and sends are cut short.
THEOREM Echoes == Spec => []EchoInOrder
<1>1. Inv => EchoInOrder
  BY InvEcho
<1> QED
  BY <1>1, Inductive, PTL

\* Between handlers EPOLLOUT is registered exactly for the connections that
\* hold bytes.
THEOREM Arming == Spec => []ArmedIffPending
<1>1. Inv => ArmedIffPending
  BY InvArmed
<1> QED
  BY <1>1, Inductive, PTL

\* recv is given free slots of the ring, and at least one.
THEOREM Receives == Spec => []RecvIntoFree
<1>1. Inv => RecvIntoFree
  BY InvRecv
<1> QED
  BY <1>1, Inductive, PTL

\* run() never calls a handler that was deleted, whatever the batch holds.
THEOREM LiveHandlers == Spec => []NoDangling
<1>1. Inv => NoDangling
  BY InvNoDangling
<1> QED
  BY <1>1, Inductive, PTL
=============================================================================
