------------------------ MODULE EpollServer_proofs ------------------------
(***************************************************************************)
(* The safety of the servers that send responses, for every number of      *)
(* clients and every size of responses, rings and of the sockets' buffers. *)
(*                                                                         *)
(* ResponseServer, for every size of requests too: the invariant Inv       *)
(* relates, for each connection, the bytes of requests taken from the ring *)
(* to the bytes of responses sent (Owing, whose lemmas are the arithmetic  *)
(* of the three computations), and says what is registered and what of it  *)
(* a handler under way may have left to do.                                *)
(*                                                                         *)
(* OneShotServer: InvOnce says, for each client, how much of the response  *)
(* send_len stands for and what may be lost of it when the server closes,  *)
(* and that the events and handlers still to come are of live connections. *)
(***************************************************************************)
EXTENDS ResponseServer, OneShotServer, SequenceTheorems, TLAPS

Typed ==
    /\ conns \subseteq Clients /\ backlog \subseteq Clients
    /\ peer \in [Clients -> {"idle", "open", "eof", "reset"}]
    /\ interest \in [Clients -> SUBSET {"IN", "OUT"}]
    /\ enable_epollout \in [Clients -> BOOLEAN]
    /\ f \in [Clients -> Nat] /\ response_cnt \in [Clients -> Nat]
    /\ response_pos \in [Clients -> 0 .. response_size]
    /\ sent \in [Clients -> Nat] /\ recvd \in [Clients -> Nat]
    /\ tx \in [Clients -> Seq(Nat)] /\ got \in [Clients -> Seq(Nat)]

\* What was sent to c.
Stream(c) == got[c] \o tx[c]

\* Responses one after the other, the last one perhaps not to its end.
Whole(s) == \A n \in 1 .. Len(s) : s[n] = ((n - 1) % response_size) + 1

\* Of had bytes received, the first taken are k requests, and the rest is not
\* a request yet.  Of their k responses cnt are not begun, one has pos bytes
\* sent, and the others are sent: len bytes in all.
Owing(taken, had, len, cnt, pos) ==
    \E k \in Nat :
        /\ taken = request_size * k
        /\ had - taken \in 0 .. request_size - 1
        /\ len = response_size * (k - cnt - 1) + pos

Counted(c) ==
    /\ recvd[c] <= sent[c]
    /\ Owing(f[c], recvd[c], Len(Stream(c)), response_cnt[c], response_pos[c])

DataInv == \A c \in Clients : Whole(Stream(c)) /\ Counted(c)

Fresh(c) == recvd[c] = 0 /\ f[c] = 0 /\ tx[c] = <<>> /\ got[c] = <<>>

\* A live connection is registered as enable_epollout says; nothing happened
\* yet on one that was not accepted.
Registered(c) ==
    /\ interest[c] = IF c \notin conns THEN {}
                     ELSE IF enable_epollout[c] THEN {"IN", "OUT"} ELSE {"IN"}
    /\ peer[c] = "idle" => c \notin backlog
    /\ peer[c] = "idle" \/ c \in backlog => c \notin conns /\ Fresh(c)

RegInv == \A c \in Clients : Registered(c)

Owed(c) == Owes(response_cnt[c], response_pos[c])

Armed(c) == enable_epollout[c] <=> Owed(c)

Settled == \A c \in conns : cur.h # c => Armed(c)

\* The events that are left are of live handlers, one each.
Batch ==
    /\ \A e \in batch : e.h \in conns \/ e = [h |-> Acceptor, ev |-> {"IN"}]
    /\ \A e, g \in batch : e.h = g.h => e = g

Calls == {"recv", "send"}

LoopInv ==
    /\ Batch
    /\ loop \in Calls \cup {"wait", "dispatch", "accept", "aborted"}
    /\ loop \in Calls => cur.h \in conns /\ \A e \in batch : e.h # cur.h
    /\ loop \notin Calls => cur.h = Acceptor

\* Requests that recv_request counted may not be armed for yet.
CallInv ==
    /\ loop = "recv" => Armed(cur.h)
    /\ loop = "send" => (enable_epollout[cur.h] => Owed(cur.h))

Control == LoopInv /\ Settled /\ CallInv

Inv == Typed /\ DataInv /\ RegInv /\ Control

------------------------------------------------------------------------------
(* Numbers.                                                                *)

LEMMA Smaller ==
    ASSUME NEW a \in Int, NEW b \in Int
    PROVE  Min({a, b}) \in {a, b} /\ Min({a, b}) <= a /\ Min({a, b}) <= b
<1>1. \E x \in {a, b} : \A y \in {a, b} : x =< y
  <2>1. CASE a <= b
    BY <2>1
  <2>2. CASE ~(a <= b)
    BY <2>2
  <2> QED
    BY <2>1, <2>2
<1>2. Min({a, b}) \in {a, b} /\ \A y \in {a, b} : Min({a, b}) =< y
  BY <1>1, Zenon DEF Min
<1> QED
  BY <1>2

\* What is left after a multiple of n is the remainder.
LEMMA Remainder ==
    ASSUME NEW n \in Nat \ {0}, NEW q \in Nat, NEW r \in 0 .. n - 1, NEW j \in Nat,
           j = n * q + r
    PROVE  j % n = r
OBVIOUS

\* j \div n is the quotient.
LEMMA Quotient ==
    ASSUME NEW n \in Nat \ {0}, NEW j \in Nat
    PROVE  /\ j \div n \in Nat
           /\ j - n * (j \div n) \in 0 .. n - 1
<1> DEFINE q == j \div n
<1>1. q \in Int /\ n * q <= j /\ j < n * q + n
  OBVIOUS
<1> HIDE DEF q
<1>2. q >= 0
  <2>1. SUFFICES ASSUME q <= -1 PROVE FALSE
    BY <1>1
  <2>2. n * q <= -n
    BY <1>1, <2>1
  <2> QED
    BY <1>1, <2>2
<1>3. q \in Nat /\ j - n * q \in 0 .. n - 1
  BY <1>1, <1>2
<1> QED
  BY <1>3 DEF q

\* and there is one quotient.
LEMMA OneQuotient ==
    ASSUME NEW n \in Nat \ {0}, NEW j \in Nat, NEW k \in Nat, j - n * k \in 0 .. n - 1
    PROVE  j \div n = k
<1> DEFINE q == j \div n
<1>1. q \in Nat /\ j - n * q \in 0 .. n - 1
  BY Quotient
<1> HIDE DEF q
<1>2. n * (q - k) = (j - n * k) - (j - n * q)
  BY <1>1
<1>3. CASE q - k >= 1
  <2>1. n * (q - k) >= n
    BY <1>1, <1>3
  <2> QED
    BY <1>1, <1>2, <2>1
<1>4. CASE q - k <= -1
  <2>1. n * (q - k) <= -n
    BY <1>1, <1>4
  <2> QED
    BY <1>1, <1>2, <2>1
<1>5. q = k
  BY <1>1, <1>3, <1>4
<1> QED
  BY <1>5 DEF q

\* The blocks that recvmsg is given hold some number of bytes.
LEMMA BlankNat ==
    ASSUME NEW lo \in Nat, NEW hi \in Nat
    PROVE  Total(get_blank_iovec(lo, hi)) \in Nat
<1> DEFINE mf == lo % max_pkt_size
           mp == hi % max_pkt_size
<1>1. max_pkt_size \in Nat \ {0} /\ mf \in 0 .. max_pkt_size - 1 /\ mp \in 0 .. max_pkt_size - 1
  BY RingAssumption
<1> HIDE DEF mf, mp
<1>2. get_blank_iovec(lo, hi) =
          CASE mp < mf             -> <<Block(mp, mf - mp - 1)>>
            [] mf <= mp /\ mf = 0  -> <<Block(mp, max_pkt_size - mp - 1)>>
            [] mf <= mp /\ mf = 1  -> <<Block(mp, max_pkt_size - mp)>>
            [] mf <= mp /\ mf > 1  -> <<Block(mp, max_pkt_size - mp), Block(0, mf - 1)>>
  BY DEF get_blank_iovec, mf, mp
<1>3. CASE mp < mf
  <2>1. get_blank_iovec(lo, hi) = <<Block(mp, mf - mp - 1)>>
    BY <1>1, <1>2, <1>3
  <2> QED
    BY <1>1, <1>3, <2>1 DEF Total, Block
<1>4. CASE mf <= mp /\ mf = 0
  <2>1. get_blank_iovec(lo, hi) = <<Block(mp, max_pkt_size - mp - 1)>>
    BY <1>1, <1>2, <1>4
  <2> QED
    BY <1>1, <1>4, <2>1 DEF Total, Block
<1>5. CASE mf <= mp /\ mf = 1
  <2>1. get_blank_iovec(lo, hi) = <<Block(mp, max_pkt_size - mp)>>
    BY <1>1, <1>2, <1>5
  <2> QED
    BY <1>1, <1>5, <2>1 DEF Total, Block
<1>6. CASE mf <= mp /\ mf > 1
  <2>1. get_blank_iovec(lo, hi) = <<Block(mp, max_pkt_size - mp), Block(0, mf - 1)>>
    BY <1>1, <1>2, <1>6
  <2> QED
    BY <1>1, <1>6, <2>1 DEF Total, Block
<1> QED
  BY <1>1, <1>3, <1>4, <1>5, <1>6

------------------------------------------------------------------------------
(* Requests and responses.                                                 *)

\* recv_request counts every whole request among n more bytes.
LEMMA OwingRecv ==
    ASSUME NEW t \in Nat, NEW h \in Nat, NEW l \in Nat, NEW cnt \in Nat,
           NEW pos \in 0 .. response_size, NEW n \in Nat, Owing(t, h, l, cnt, pos)
    PROVE  LET r == (h + n - t) \div request_size
           IN  /\ r \in Nat
               /\ Owing(t + r * request_size, h + n, l, cnt + r, pos)
<1> DEFINE Q == request_size
           R == response_size
           r == (h + n - t) \div Q
<1>1. Q \in Nat \ {0} /\ R \in Nat \ {0}
  BY ResponseAssumption, RingAssumption
<1>2. PICK k \in Nat : t = Q * k /\ h - t \in 0 .. Q - 1 /\ l = R * (k - cnt - 1) + pos
  BY DEF Owing
<1>3. h + n - t \in Nat
  BY <1>1, <1>2
<1>4. r \in Nat /\ (h + n - t) - Q * r \in 0 .. Q - 1
  BY <1>1, <1>3, Quotient
<1> HIDE DEF r, Q, R
<1>5. /\ k + r \in Nat /\ t + r * Q = Q * (k + r)
      /\ (h + n) - (t + r * Q) \in 0 .. Q - 1
      /\ (k + r) - (cnt + r) - 1 = k - cnt - 1
  <2>1. Q * (k + r) = Q * k + Q * r /\ r * Q = Q * r
    BY <1>1, <1>4
  <2>2. Q * r \in Nat
    BY <1>1, <1>4
  <2> QED
    BY <1>1, <1>2, <1>4, <2>1, <2>2
<1>6. l = R * ((k + r) - (cnt + r) - 1) + pos
  BY <1>2, <1>5
<1>7. \E j \in Nat : /\ t + r * Q = Q * j
                     /\ (h + n) - (t + r * Q) \in 0 .. Q - 1
                     /\ l = R * (j - (cnt + r) - 1) + pos
  BY <1>5, <1>6
<1>8. Owing(t + r * Q, h + n, l, cnt + r, pos)
  BY <1>7 DEF Owing, Q, R
<1> QED
  BY <1>4, <1>8 DEF r, Q

\* The next response is begun when the last one is sent whole.
LEMMA OwingStart ==
    ASSUME NEW t, NEW h, NEW l, NEW cnt \in Nat, Owing(t, h, l, cnt, response_size)
    PROVE  Owing(t, h, l, cnt - 1, 0)
<1> DEFINE R == response_size
<1>1. R \in Nat
  BY ResponseAssumption
<1>2. PICK k \in Nat : /\ t = request_size * k /\ h - t \in 0 .. request_size - 1
                       /\ l = R * (k - cnt - 1) + R
  BY DEF Owing
<1> HIDE DEF R
<1>3. R * (k - cnt - 1) + R = R * (k - (cnt - 1) - 1) + 0
  <2> DEFINE m == k - cnt - 1
  <2>1. m \in Int /\ k - (cnt - 1) - 1 = m + 1
    OBVIOUS
  <2> HIDE DEF m
  <2>2. R * m + R = R * (m + 1) + 0
    BY <1>1, <2>1
  <2> QED
    BY <2>1, <2>2 DEF m
<1>4. l = R * (k - (cnt - 1) - 1) + 0
  BY <1>2, <1>3
<1> QED
  BY <1>2, <1>4 DEF Owing, R

\* A response that is half sent is not the one before the first.
LEMMA OwingBegun ==
    ASSUME NEW l \in Nat, NEW cnt \in Nat, NEW k \in Nat, NEW pos \in 0 .. response_size - 1,
           l = response_size * (k - cnt - 1) + pos
    PROVE  k - cnt - 1 \in Nat
<1> DEFINE R == response_size
           m == k - cnt - 1
<1>1. R \in Nat \ {0} /\ m \in Int /\ pos \in 0 .. R - 1 /\ l = R * m + pos
  BY ResponseAssumption
<1> HIDE DEF R, m
<1>2. m \in Nat
  <2>1. SUFFICES ASSUME m <= -1 PROVE FALSE
    BY <1>1
  <2>2. R * m <= -R /\ R * m \in Int
    BY <1>1, <2>1
  <2> QED
    BY <1>1, <2>2
<1> QED
  BY <1>2 DEF m

\* The next n bytes of it are sent,
LEMMA OwingSend ==
    ASSUME NEW t, NEW h, NEW l \in Nat, NEW cnt \in Nat, NEW pos \in 0 .. response_size - 1,
           NEW n \in 1 .. response_size - pos, Owing(t, h, l, cnt, pos)
    PROVE  Owing(t, h, l + n, cnt, pos + n)
<1>1. PICK k \in Nat : /\ t = request_size * k /\ h - t \in 0 .. request_size - 1
                       /\ l = response_size * (k - cnt - 1) + pos
  BY DEF Owing
<1> DEFINE z == response_size * (k - cnt - 1)
<1>2. z \in Int /\ l = z + pos /\ pos \in Int /\ n \in Int
  BY <1>1, ResponseAssumption
<1> HIDE DEF z
<1>3. l + n = z + (pos + n)
  BY <1>2
<1> QED
  BY <1>1, <1>3 DEF Owing, z

\* and they are the ones of response_buf from pos on.
LEMMA OwingBytes ==
    ASSUME NEW t, NEW h, NEW l \in Nat, NEW cnt \in Nat, NEW pos \in 0 .. response_size - 1,
           NEW j \in 1 .. response_size - pos, Owing(t, h, l, cnt, pos)
    PROVE  (l + j - 1) % response_size = pos + j - 1
<1> DEFINE R == response_size
<1>1. R \in Nat \ {0}
  BY ResponseAssumption
<1>2. PICK k \in Nat : l = R * (k - cnt - 1) + pos
  BY DEF Owing
<1> DEFINE m == k - cnt - 1
<1>3. m \in Nat /\ l = R * m + pos
  BY <1>2, OwingBegun
<1>4. pos \in 0 .. R - 1 /\ j \in 1 .. R - pos
  OBVIOUS
<1> HIDE DEF R, m
<1> DEFINE x == l + j - 1
           r == pos + j - 1
<1>5. x \in Nat /\ r \in 0 .. R - 1 /\ x = R * m + r
  <2>1. R * m \in Nat
    BY <1>1, <1>3
  <2> QED
    BY <1>1, <1>3, <1>4, <2>1
<1> HIDE DEF x, r
<1>6. x % R = r
  BY <1>1, <1>3, <1>5, Remainder
<1> QED
  BY <1>6 DEF x, r, R

\* What is sent, half sent and not begun are the responses to the requests.
LEMMA OwingAll ==
    ASSUME NEW t \in Nat, NEW h \in Nat, NEW l \in Nat, NEW cnt \in Nat,
           NEW pos \in 0 .. response_size, Owing(t, h, l, cnt, pos)
    PROVE  /\ h - t < request_size
           /\ l + cnt * response_size + (response_size - pos)
                  = response_size * (h \div request_size)
<1> DEFINE Q == request_size
           R == response_size
           a == h \div Q
<1>1. Q \in Nat \ {0} /\ R \in Nat \ {0}
  BY ResponseAssumption, RingAssumption
<1>2. PICK k \in Nat : t = Q * k /\ h - t \in 0 .. Q - 1 /\ l = R * (k - cnt - 1) + pos
  BY DEF Owing
<1>3. a = k
  BY <1>1, <1>2, OneQuotient
<1>4. pos \in Int
  BY <1>1
<1> HIDE DEF Q, R, a
<1>5. l + cnt * R + (R - pos) = R * k
  <2> DEFINE m == k - cnt - 1
  <2>1. m \in Int /\ k = m + cnt + 1 /\ l = R * m + pos
    BY <1>2
  <2> HIDE DEF m
  <2>2. R * (m + cnt + 1) = R * m + cnt * R + R
    BY <1>1, <2>1
  <2>3. R * m \in Int /\ cnt * R \in Int
    BY <1>1, <2>1
  <2>4. l + cnt * R + (R - pos) = R * m + cnt * R + R
    BY <1>1, <1>4, <2>1, <2>3
  <2> QED
    BY <2>1, <2>2, <2>4
<1>6. h - t < Q
  BY <1>1, <1>2
<1> QED
  BY <1>3, <1>5, <1>6 DEF Q, R, a

------------------------------------------------------------------------------
(* Streams.                                                                *)

\* The client reads the first byte under way: its stream stays what it is.
LEMMA Move ==
    ASSUME NEW g \in Seq(Nat), NEW q \in Seq(Nat), q # <<>>
    PROVE  /\ Append(g, Head(q)) \in Seq(Nat) /\ Tail(q) \in Seq(Nat)
           /\ Append(g, Head(q)) \o Tail(q) = g \o q
<1> DEFINE x == Head(q)
           t == Tail(q)
<1>1. x \in Nat /\ t \in Seq(Nat) /\ x = q[1] /\ Len(q) \in Nat \ {0}
      /\ Len(t) = Len(q) - 1 /\ \A i \in 1 .. Len(t) : t[i] = q[i + 1]
  BY HeadTailProperties, EmptySeq
<1>2. <<x>> \in Seq(Nat) /\ Len(<<x>>) = 1 /\ <<x>>[1] = x
  BY <1>1
<1> HIDE DEF x, t
<1>3. /\ <<x>> \o t \in Seq(Nat) /\ Len(<<x>> \o t) = Len(q)
      /\ \A i \in 1 .. Len(q) : (<<x>> \o t)[i] = IF i <= 1 THEN <<x>>[i] ELSE t[i - 1]
  <2> DEFINE y == <<x>>
  <2>1. y \in Seq(Nat) /\ Len(y) = 1
    BY <1>2
  <2> HIDE DEF y
  <2>2. /\ y \o t \in Seq(Nat) /\ Len(y \o t) = Len(y) + Len(t)
        /\ \A i \in 1 .. Len(y) + Len(t) : (y \o t)[i] = IF i <= Len(y) THEN y[i] ELSE t[i - Len(y)]
    BY <1>1, <2>1, ConcatProperties
  <2>3. Len(y) + Len(t) = Len(q)
    BY <1>1, <2>1
  <2>4. /\ y \o t \in Seq(Nat) /\ Len(y \o t) = Len(q)
        /\ \A i \in 1 .. Len(q) : (y \o t)[i] = IF i <= 1 THEN y[i] ELSE t[i - 1]
    BY <2>1, <2>2, <2>3
  <2> QED
    BY <2>4 DEF y
<1>4. \A i \in 1 .. Len(q) : (<<x>> \o t)[i] = q[i]
  <2> SUFFICES ASSUME NEW i \in 1 .. Len(q) PROVE (<<x>> \o t)[i] = q[i]
    OBVIOUS
  <2>1. CASE i = 1
    BY <1>1, <1>2, <1>3, <2>1
  <2>2. CASE i # 1
    <3>1. i - 1 \in 1 .. Len(t) /\ (i - 1) + 1 = i /\ ~(i <= 1)
      BY <1>1, <2>2
    <3>2. (<<x>> \o t)[i] = t[i - 1]
      BY <1>3, <3>1
    <3> QED
      BY <1>1, <3>1, <3>2
  <2> QED
    BY <2>1, <2>2
<1>5. <<x>> \o t = q
  <2> DEFINE u == <<x>> \o t
  <2>1. u \in Seq(Nat) /\ Len(u) = Len(q) /\ \A i \in 1 .. Len(u) : u[i] = q[i]
    BY <1>3, <1>4
  <2> HIDE DEF u
  <2>2. u = q
    BY <2>1, SeqEqual
  <2> QED
    BY <2>2 DEF u
<1>6. Append(g, x) = g \o <<x>> /\ Append(g, x) \in Seq(Nat)
  BY <1>1, AppendIsConcat, AppendProperties
<1>7. (g \o <<x>>) \o t = g \o (<<x>> \o t)
  BY <1>1, <1>2, ConcatAssociative
<1>8. Append(g, x) \in Seq(Nat) /\ t \in Seq(Nat) /\ Append(g, x) \o t = g \o q
  BY <1>1, <1>5, <1>6, <1>7
<1> QED
  BY <1>8 DEF x, t

\* What is read, under way and sent now.
LEMMA Regroup ==
    \A g, q, h \in Seq(Nat) : (g \o q) \o h = g \o (q \o h)
<1> DEFINE S == Nat
<1> HIDE DEF S
<1>1. \A g, q, h \in Seq(S) : (g \o q) \o h = g \o (q \o h)
  BY ConcatAssociative
<1> QED
  BY <1>1 DEF S

\* The next bytes of whole responses.
LEMMA Extend ==
    ASSUME NEW s \in Seq(Nat), Whole(s), NEW n \in Nat, NEW h \in [1 .. n -> Nat],
           \A j \in 1 .. n : h[j] = ((Len(s) + j - 1) % response_size) + 1
    PROVE  /\ s \o h \in Seq(Nat) /\ Len(s \o h) = Len(s) + n /\ Whole(s \o h)
<1> DEFINE l == Len(s)
           r == s \o h
<1>0. response_size \in Nat \ {0}
  BY ResponseAssumption
<1>1. h \in Seq(Nat) /\ Len(h) = n /\ l \in Nat
  OBVIOUS
<1>2. /\ r \in Seq(Nat) /\ Len(r) = l + n
      /\ \A i \in 1 .. l + n : r[i] = IF i <= l THEN s[i] ELSE h[i - l]
  <2>1. /\ s \o h \in Seq(Nat) /\ Len(s \o h) = Len(s) + Len(h)
        /\ \A i \in 1 .. Len(s) + Len(h) : (s \o h)[i] = IF i <= Len(s) THEN s[i] ELSE h[i - Len(s)]
    <3> HIDE DEF l, r
    <3> QED
      BY <1>1, ConcatProperties
  <2> QED
    BY <1>1, <2>1
<1>3. \A i \in 1 .. l : s[i] = ((i - 1) % response_size) + 1
  BY DEF Whole
<1>4. \A j \in 1 .. n : h[j] = ((l + j - 1) % response_size) + 1
  OBVIOUS
<1> HIDE DEF l, r
<1>5. ASSUME NEW i \in 1 .. l + n PROVE r[i] = ((i - 1) % response_size) + 1
  <2>1. CASE i <= l
    <3>1. i \in 1 .. l /\ r[i] = s[i]
      BY <1>1, <1>2, <2>1
    <3> QED
      BY <1>3, <3>1
  <2>2. CASE ~(i <= l)
    <3>1. PICK j \in 1 .. n : i = l + j
      <4>1. i - l \in 1 .. n /\ i = l + (i - l)
        BY <1>1, <2>2
      <4> QED
        BY <4>1
    <3>2. r[i] = h[j]
      <4>1. r[i] = h[i - l] /\ i - l = j
        BY <1>1, <1>2, <2>2, <3>1
      <4> QED
        BY <4>1
    <3>3. l + j - 1 = i - 1
      BY <1>1, <3>1
    <3> QED
      BY <1>4, <3>2, <3>3
  <2> QED
    BY <2>1, <2>2
<1>6. Whole(r)
  BY <1>2, <1>5 DEF Whole
<1> QED
  BY <1>2, <1>6 DEF l, r

------------------------------------------------------------------------------
(* The data.                                                               *)

\* What the invariant says of one client.
LEMMA Facts ==
    ASSUME Typed, DataInv, NEW c \in Clients
    PROVE  /\ f[c] \in Nat /\ recvd[c] \in Nat /\ sent[c] \in Nat /\ recvd[c] <= sent[c]
           /\ response_cnt[c] \in Nat /\ response_pos[c] \in 0 .. response_size
           /\ enable_epollout[c] \in BOOLEAN
           /\ tx[c] \in Seq(Nat) /\ got[c] \in Seq(Nat)
           /\ Stream(c) \in Seq(Nat) /\ Len(Stream(c)) \in Nat /\ Whole(Stream(c))
           /\ Owing(f[c], recvd[c], Len(Stream(c)), response_cnt[c], response_pos[c])
<1>1. tx[c] \in Seq(Nat) /\ got[c] \in Seq(Nat)
  BY DEF Typed
<1>2. Stream(c) \in Seq(Nat)
  BY <1>1, ConcatProperties DEF Stream
<1>3. Len(Stream(c)) \in Nat
  BY <1>2, LenProperties
<1> QED
  BY <1>1, <1>2, <1>3 DEF Typed, DataInv, Counted

\* A step changes the data of c alone.
LEMMA DataFrame ==
    ASSUME DataInv, NEW c \in Clients, sent' = sent,
           \A d \in Clients \ {c} :
               /\ f'[d] = f[d] /\ recvd'[d] = recvd[d] /\ tx'[d] = tx[d] /\ got'[d] = got[d]
               /\ response_cnt'[d] = response_cnt[d] /\ response_pos'[d] = response_pos[d],
           Whole(Stream(c))', Counted(c)'
    PROVE  DataInv'
<1> SUFFICES ASSUME NEW d \in Clients, d # c PROVE Whole(Stream(d))' /\ Counted(d)'
  BY DEF DataInv
<1>1. Stream(d)' = Stream(d)
  BY DEF Stream
<1> QED
  BY <1>1 DEF DataInv, Whole, Counted

\* Where a send of c starts.
LEMMA Begun ==
    ASSUME Typed, DataInv, NEW c \in Clients, Owed(c)
    PROVE  /\ Started(c).cnt \in Nat /\ Started(c).pos \in 0 .. response_size - 1
           /\ Owing(f[c], recvd[c], Len(Stream(c)), Started(c).cnt, Started(c).pos)
<1>0. response_size \in Nat \ {0}
  BY ResponseAssumption
<1>1. /\ response_cnt[c] \in Nat /\ response_pos[c] \in 0 .. response_size
      /\ Owing(f[c], recvd[c], Len(Stream(c)), response_cnt[c], response_pos[c])
  BY Facts
<1>2. CASE response_pos[c] = response_size
  <2>1. response_cnt[c] > 0
    BY <1>0, <1>1, <1>2 DEF Owed, Owes
  <2>2. Started(c).cnt = response_cnt[c] - 1 /\ Started(c).pos = 0
    BY <1>2 DEF Started
  <2>3. Owing(f[c], recvd[c], Len(Stream(c)), response_cnt[c] - 1, 0)
    BY <1>1, <1>2, OwingStart
  <2> QED
    BY <1>0, <1>1, <2>1, <2>2, <2>3
<1>3. CASE response_pos[c] # response_size
  <2>1. Started(c).cnt = response_cnt[c] /\ Started(c).pos = response_pos[c]
    BY <1>3 DEF Started
  <2> QED
    BY <1>0, <1>1, <1>3, <2>1
<1> QED
  BY <1>2, <1>3

\* A response may be begun of which no byte is sent.
LEMMA BeginData ==
    ASSUME Typed, DataInv, NEW c \in Clients, Owed(c),
           response_cnt' = [response_cnt EXCEPT ![c] = Started(c).cnt],
           response_pos' = [response_pos EXCEPT ![c] = Started(c).pos],
           UNCHANGED <<f, sent, recvd, tx, got>>
    PROVE  /\ DataInv' /\ Owed(c)'
           /\ response_cnt' \in [Clients -> Nat]
           /\ response_pos' \in [Clients -> 0 .. response_size]
           /\ \A d \in Clients \ {c} : Owed(d)' <=> Owed(d)
<1>0. response_size \in Nat \ {0}
  BY ResponseAssumption
<1>1. /\ Started(c).cnt \in Nat /\ Started(c).pos \in 0 .. response_size - 1
      /\ Owing(f[c], recvd[c], Len(Stream(c)), Started(c).cnt, Started(c).pos)
  BY Begun
<1>2. /\ response_cnt'[c] = Started(c).cnt /\ response_pos'[c] = Started(c).pos
      /\ \A d \in Clients \ {c} : /\ response_cnt'[d] = response_cnt[d]
                                  /\ response_pos'[d] = response_pos[d]
  BY DEF Typed
<1>3. Started(c).pos \in 0 .. response_size /\ Started(c).pos < response_size
  BY <1>0, <1>1
<1>4. /\ response_cnt' \in [Clients -> Nat]
      /\ response_pos' \in [Clients -> 0 .. response_size]
  BY <1>1, <1>3 DEF Typed
<1>5. Stream(c)' = Stream(c)
  BY DEF Stream
<1>6. Whole(Stream(c))' /\ Counted(c)'
  BY <1>1, <1>2, <1>5 DEF DataInv, Whole, Counted
<1>7. DataInv'
  BY <1>2, <1>6, DataFrame
<1>8. Owed(c)' /\ \A d \in Clients \ {c} : Owed(d)' <=> Owed(d)
  BY <1>2, <1>3 DEF Owed, Owes
<1> QED
  BY <1>4, <1>7, <1>8

\* The next n bytes of it are sent.
LEMMA SendData ==
    ASSUME Typed, DataInv, NEW c \in Clients, Owed(c),
           NEW n \in 1 .. response_size - Started(c).pos,
           tx' = [tx EXCEPT ![c] = @ \o [k \in 1 .. n |-> Started(c).pos + k]],
           response_cnt' = [response_cnt EXCEPT ![c] = Started(c).cnt],
           response_pos' = [response_pos EXCEPT ![c] = Started(c).pos + n],
           UNCHANGED <<f, sent, recvd, got>>
    PROVE  /\ DataInv'
           /\ tx' \in [Clients -> Seq(Nat)]
           /\ response_cnt' \in [Clients -> Nat]
           /\ response_pos' \in [Clients -> 0 .. response_size]
           /\ Owed(c)' <=> Owes(Started(c).cnt, Started(c).pos + n)
           /\ \A d \in Clients \ {c} : Owed(d)' <=> Owed(d)
<1> DEFINE s == Stream(c)
           l == Len(s)
           cnt == Started(c).cnt
           pos == Started(c).pos
           h == [k \in 1 .. n |-> pos + k]
<1>0. response_size \in Nat \ {0}
  BY ResponseAssumption
<1>1. /\ cnt \in Nat /\ pos \in 0 .. response_size - 1
      /\ Owing(f[c], recvd[c], l, cnt, pos)
  BY Begun
<1>2. /\ tx[c] \in Seq(Nat) /\ got[c] \in Seq(Nat)
      /\ s \in Seq(Nat) /\ l \in Nat /\ Whole(s)
  BY Facts
<1>3. /\ tx'[c] = tx[c] \o h
      /\ response_cnt'[c] = cnt /\ response_pos'[c] = pos + n
      /\ \A d \in Clients \ {c} : /\ response_cnt'[d] = response_cnt[d]
                                  /\ response_pos'[d] = response_pos[d]
                                  /\ tx'[d] = tx[d]
  BY DEF Typed
<1>4. n \in 1 .. response_size - pos /\ n \in Nat
  BY <1>0, <1>1
<1>5. s = got[c] \o tx[c]
  BY DEF Stream
<1>6. response_cnt' = [response_cnt EXCEPT ![c] = cnt]
      /\ response_pos' = [response_pos EXCEPT ![c] = pos + n]
  OBVIOUS
<1> HIDE DEF s, cnt, pos
<1>7. h \in [1 .. n -> Nat] /\ h \in Seq(Nat) /\ \A j \in 1 .. n : h[j] = pos + j
  <2>1. \A k \in 1 .. n : pos + k \in Nat
    BY <1>0, <1>1
  <2> QED
    BY <1>4, <2>1
<1> HIDE DEF h
<1>8. /\ Owing(f[c], recvd[c], l + n, cnt, pos + n)
      /\ \A j \in 1 .. n : (l + j - 1) % response_size = pos + j - 1
  <2> DEFINE t == f[c]
             had == recvd[c]
  <2>1. l \in Nat /\ Owing(t, had, l, cnt, pos)
    BY <1>1, <1>2
  <2> HIDE DEF l, t, had
  <2>2. Owing(t, had, l + n, cnt, pos + n)
    BY <1>1, <1>4, <2>1, OwingSend
  <2>3. \A j \in 1 .. n : (l + j - 1) % response_size = pos + j - 1
    <3> SUFFICES ASSUME NEW j \in 1 .. n PROVE (l + j - 1) % response_size = pos + j - 1
      OBVIOUS
    <3>1. j \in 1 .. response_size - pos
      BY <1>0, <1>1, <1>4
    <3> QED
      BY <1>1, <2>1, <3>1, OwingBytes
  <2> QED
    BY <2>2, <2>3 DEF t, had
<1>9. s \o h \in Seq(Nat) /\ Len(s \o h) = l + n /\ Whole(s \o h)
  <2>1. \A j \in 1 .. n : h[j] = ((Len(s) + j - 1) % response_size) + 1
    BY <1>1, <1>7, <1>8
  <2> QED
    BY <1>2, <1>4, <1>7, <2>1, Extend
<1>10. Stream(c)' = s \o h
  <2> DEFINE g == got[c]
             q == tx[c]
  <2>1. g \in Seq(Nat) /\ q \in Seq(Nat) /\ h \in Seq(Nat)
    BY <1>2, <1>7
  <2> HIDE DEF g, q
  <2>2. (g \o q) \o h = g \o (q \o h)
    BY <2>1, Regroup
  <2> USE DEF g, q
  <2> QED
    BY <1>3, <1>5, <2>2 DEF Stream
<1>11. Whole(Stream(c))'
  BY <1>9, <1>10 DEF Whole
<1>12. Counted(c)'
  BY <1>3, <1>8, <1>9, <1>10 DEF DataInv, Counted
<1>13. DataInv'
  BY <1>3, <1>11, <1>12, DataFrame
<1>14. /\ tx' \in [Clients -> Seq(Nat)]
       /\ response_cnt' \in [Clients -> Nat]
       /\ response_pos' \in [Clients -> 0 .. response_size]
  <2>1. tx[c] \o h \in Seq(Nat) /\ pos + n \in 0 .. response_size
    BY <1>0, <1>1, <1>2, <1>4, <1>7, ConcatProperties
  <2>2. tx' = [tx EXCEPT ![c] = tx[c] \o h]
    BY DEF h, pos
  <2>3. tx' \in [Clients -> Seq(Nat)]
    BY <2>1, <2>2 DEF Typed
  <2>4. response_cnt' \in [Clients -> Nat]
    BY <1>1, <1>6 DEF Typed
  <2>5. response_pos' \in [Clients -> 0 .. response_size]
    BY <1>6, <2>1 DEF Typed
  <2> QED
    BY <2>3, <2>4, <2>5
<1>15. /\ Owed(c)' <=> Owes(cnt, pos + n)
       /\ \A d \in Clients \ {c} : Owed(d)' <=> Owed(d)
  BY <1>3 DEF Owed, Owes
<1> QED
  BY <1>13, <1>14, <1>15 DEF cnt, pos

\* n bytes are received, and the whole requests among them are counted.
LEMMA RecvData ==
    ASSUME Typed, DataInv, NEW c \in Clients, NEW n \in Nat, recvd[c] + n <= sent[c],
           recvd' = [recvd EXCEPT ![c] = @ + n],
           response_cnt' = [response_cnt EXCEPT ![c] = @ + Requests(c, n)],
           f' = [f EXCEPT ![c] = @ + Requests(c, n) * request_size],
           UNCHANGED <<sent, tx, got, response_pos>>
    PROVE  /\ DataInv'
           /\ recvd' \in [Clients -> Nat] /\ f' \in [Clients -> Nat]
           /\ response_cnt' \in [Clients -> Nat]
           /\ Owed(c) => Owed(c)'
           /\ \A d \in Clients \ {c} : Owed(d)' <=> Owed(d)
<1> DEFINE r == Requests(c, n)
           Q == request_size
<1>0. Q \in Nat
  BY ResponseAssumption, RingAssumption
<1>1. /\ f[c] \in Nat /\ recvd[c] \in Nat /\ sent[c] \in Nat /\ recvd[c] <= sent[c]
      /\ response_cnt[c] \in Nat /\ response_pos[c] \in 0 .. response_size
      /\ Len(Stream(c)) \in Nat /\ Whole(Stream(c))
      /\ Owing(f[c], recvd[c], Len(Stream(c)), response_cnt[c], response_pos[c])
  BY Facts
<1>2. /\ r \in Nat
      /\ Owing(f[c] + r * Q, recvd[c] + n, Len(Stream(c)), response_cnt[c] + r, response_pos[c])
  <2> DEFINE t == f[c]
             h == recvd[c]
             l == Len(Stream(c))
             cnt == response_cnt[c]
             pos == response_pos[c]
  <2>1. r = (h + n - t) \div request_size
    BY <1>1 DEF r, Requests, get_exist_size
  <2>2. /\ t \in Nat /\ h \in Nat /\ l \in Nat /\ cnt \in Nat /\ pos \in 0 .. response_size
        /\ Owing(t, h, l, cnt, pos)
    BY <1>1
  <2> HIDE DEF t, h, l, cnt, pos, r
  <2>3. r \in Nat /\ Owing(t + r * request_size, h + n, l, cnt + r, pos)
    BY <2>1, <2>2, OwingRecv
  <2> QED
    BY <2>3 DEF t, h, l, cnt, pos
<1>3. /\ recvd' = [recvd EXCEPT ![c] = recvd[c] + n]
      /\ response_cnt' = [response_cnt EXCEPT ![c] = response_cnt[c] + r]
      /\ f' = [f EXCEPT ![c] = f[c] + r * Q]
  BY DEF Typed
<1> HIDE DEF r, Q
<1>4. /\ recvd'[c] = recvd[c] + n /\ f'[c] = f[c] + r * Q
      /\ response_cnt'[c] = response_cnt[c] + r
      /\ \A d \in Clients \ {c} : /\ recvd'[d] = recvd[d] /\ f'[d] = f[d]
                                  /\ response_cnt'[d] = response_cnt[d]
  BY <1>3 DEF Typed
<1>5. f[c] + r * Q \in Nat /\ recvd[c] + n \in Nat /\ response_cnt[c] + r \in Nat
  <2>1. r \in Nat /\ f[c] \in Nat /\ recvd[c] \in Nat /\ response_cnt[c] \in Nat
    BY <1>1, <1>2
  <2>2. r * Q \in Nat
    BY <1>0, <2>1
  <2> QED
    BY <2>1, <2>2
<1>6. /\ recvd' \in [Clients -> Nat] /\ f' \in [Clients -> Nat]
      /\ response_cnt' \in [Clients -> Nat]
  BY <1>3, <1>5 DEF Typed
<1>7. Stream(c)' = Stream(c)
  BY DEF Stream
<1>8. Whole(Stream(c))' /\ Counted(c)'
  BY <1>1, <1>2, <1>4, <1>7 DEF Whole, Counted
<1>9. DataInv'
  BY <1>4, <1>8, DataFrame
<1>10. Owed(c) => Owed(c)'
  BY <1>1, <1>2, <1>4 DEF Owed, Owes
<1>11. \A d \in Clients \ {c} : Owed(d)' <=> Owed(d)
  BY <1>4 DEF Owed, Owes
<1> QED
  BY <1>6, <1>9, <1>10, <1>11

LEMMA ReadData ==
    ASSUME Typed, DataInv, NEW c \in Clients, ClientRead(c), UNCHANGED <<f, respVars>>
    PROVE  /\ DataInv'
           /\ tx' \in [Clients -> Seq(Nat)] /\ got' \in [Clients -> Seq(Nat)]
           /\ \A d \in Clients \ {c} : tx'[d] = tx[d] /\ got'[d] = got[d]
<1>1. /\ tx[c] # <<>>
      /\ got' = [got EXCEPT ![c] = Append(got[c], Head(tx[c]))]
      /\ tx' = [tx EXCEPT ![c] = Tail(tx[c])]
      /\ UNCHANGED <<sent, recvd>>
  BY DEF ClientRead
<1>2. tx[c] \in Seq(Nat) /\ got[c] \in Seq(Nat)
  BY Facts
<1> DEFINE g == got[c]
           q == tx[c]
<1>3. /\ Append(g, Head(q)) \in Seq(Nat) /\ Tail(q) \in Seq(Nat)
      /\ Append(g, Head(q)) \o Tail(q) = g \o q
  <2>1. g \in Seq(Nat) /\ q \in Seq(Nat) /\ q # <<>>
    BY <1>1, <1>2
  <2> HIDE DEF g, q
  <2> QED
    BY <2>1, Move
<1>4. /\ got'[c] = Append(g, Head(q)) /\ tx'[c] = Tail(q)
      /\ \A d \in Clients \ {c} : tx'[d] = tx[d] /\ got'[d] = got[d]
  BY <1>1 DEF Typed
<1>5. Stream(c)' = Stream(c)
  BY <1>3, <1>4 DEF Stream
<1>6. Whole(Stream(c))' /\ Counted(c)'
  BY <1>1, <1>5 DEF DataInv, Whole, Counted, respVars
<1>7. DataInv'
  <2>1. UNCHANGED <<f, recvd, response_cnt, response_pos>> /\ sent' = sent
    BY <1>1 DEF respVars
  <2> QED
    BY <1>4, <1>6, <2>1, DataFrame
<1>8. tx' \in [Clients -> Seq(Nat)] /\ got' \in [Clients -> Seq(Nat)]
  BY <1>1, <1>3 DEF Typed
<1> QED
  BY <1>4, <1>7, <1>8

------------------------------------------------------------------------------
(* What a handler does when it returns or goes on.                         *)

LEMMA Apart == ASSUME NEW c \in Clients PROVE c # Acceptor
BY AcceptorAssumption

LEMMA Returned ==
    ASSUME Return, Batch', \A d \in conns' : Armed(d)'
    PROVE  Control'
<1>1. loop' \in {"wait", "dispatch"} /\ cur'.h = Acceptor
  BY DEF Return, Idle
<1>2. LoopInv'
  BY <1>1 DEF LoopInv, Calls
<1>3. Settled' /\ CallInv'
  BY <1>1 DEF Settled, CallInv
<1> QED
  BY <1>2, <1>3 DEF Control

\* A handler of c is under way.
LEMMA UnderWay ==
    ASSUME Inv, loop \in Calls
    PROVE  /\ cur.h \in conns /\ cur.h \in Clients
           /\ \A e \in batch : e.h # cur.h
           /\ \A d \in conns \ {cur.h} : Armed(d)
           /\ Batch
BY DEF Inv, Typed, Control, LoopInv, Settled

\* send_response is done for now, and EPOLLOUT is as it should be.
LEMMA SendReturned ==
    ASSUME Inv, loop = "send", SendReturns, UNCHANGED <<conns, batch>>,
           \A d \in conns' : Armed(d)'
    PROVE  Control'
<1>1. /\ cur.h \in conns /\ \A e \in batch : e.h # cur.h
      /\ Batch
  BY UnderWay DEF Calls
<1>2. Batch'
  BY <1>1 DEF Batch
<1>3. CASE "IN" \in cur.ev
  <2>1. loop' = "recv" /\ cur' = cur
    BY <1>3 DEF SendReturns
  <2>2. LoopInv'
    BY <1>1, <1>2, <2>1 DEF LoopInv, Calls
  <2>3. Settled' /\ CallInv'
    BY <1>1, <2>1 DEF Settled, CallInv
  <2> QED
    BY <2>2, <2>3 DEF Control
<1>4. CASE "IN" \notin cur.ev
  <2>1. Return
    BY <1>4 DEF SendReturns
  <2> QED
    BY <1>2, <2>1, Returned
<1> QED
  BY <1>3, <1>4

\* A handler goes on with send_response.
LEMMA ToSend ==
    ASSUME NEW c, Batch', loop' = "send", cur'.h = c, c \in conns', \A e \in batch' : e.h # c,
           \A d \in conns' \ {c} : Armed(d)',
           enable_epollout'[c] => Owed(c)'
    PROVE  Control'
<1>1. LoopInv' /\ Settled'
  BY DEF LoopInv, Calls, Settled
<1>2. CallInv'
  BY DEF CallInv, Owed
<1> QED
  BY <1>1, <1>2 DEF Control

\* A step of the handler of c changes what is registered for c alone.
LEMMA RegFrame ==
    ASSUME Typed, RegInv, NEW c \in conns, conns' \in {conns, conns \ {c}},
           UNCHANGED <<peer, backlog>>,
           \A d \in Clients \ {c} :
               /\ interest'[d] = interest[d] /\ enable_epollout'[d] = enable_epollout[d]
               /\ recvd'[d] = recvd[d] /\ f'[d] = f[d] /\ tx'[d] = tx[d] /\ got'[d] = got[d],
           interest'[c] = IF c \notin conns' THEN {}
                          ELSE IF enable_epollout'[c] THEN {"IN", "OUT"} ELSE {"IN"}
    PROVE  RegInv'
<1>1. ASSUME NEW d \in Clients, d # c PROVE Registered(d)'
  BY <1>1 DEF RegInv, Registered, Fresh
<1>2. Registered(c)'
  BY DEF RegInv, Registered, Typed
<1> QED
  BY <1>1, <1>2 DEF RegInv

\* set_epollout, or not, for the connection c.
LEMMA Rearmed ==
    ASSUME Typed, RegInv, NEW c \in conns, NEW on \in BOOLEAN, enable_epollout'[c] = on,
           \/ set_epollout(c, on)
           \/ UNCHANGED <<interest, enable_epollout>>,
           UNCHANGED <<conns, peer, backlog, f, recvd, got>>,
           \A d \in Clients \ {c} : tx'[d] = tx[d]
    PROVE  /\ RegInv'
           /\ interest' \in [Clients -> SUBSET {"IN", "OUT"}]
           /\ enable_epollout' \in [Clients -> BOOLEAN]
           /\ \A d \in Clients \ {c} : enable_epollout'[d] = enable_epollout[d]
<1>1. c \in Clients
  BY DEF Typed
<1>2. CASE set_epollout(c, on)
  <2>1. /\ interest' = [interest EXCEPT ![c] = IF on THEN {"IN", "OUT"} ELSE {"IN"}]
        /\ enable_epollout' = [enable_epollout EXCEPT ![c] = on]
    BY <1>2 DEF set_epollout
  <2>2. /\ interest'[c] = IF on THEN {"IN", "OUT"} ELSE {"IN"}
        /\ enable_epollout'[c] = on
        /\ \A d \in Clients \ {c} : /\ interest'[d] = interest[d]
                                    /\ enable_epollout'[d] = enable_epollout[d]
    BY <1>1, <2>1 DEF Typed
  <2>3. /\ interest' \in [Clients -> SUBSET {"IN", "OUT"}]
        /\ enable_epollout' \in [Clients -> BOOLEAN]
    BY <2>1 DEF Typed
  <2>4. RegInv'
    BY <2>2, RegFrame
  <2> QED
    BY <2>2, <2>3, <2>4
<1>3. CASE UNCHANGED <<interest, enable_epollout>>
  <2>1. interest'[c] = IF enable_epollout'[c] THEN {"IN", "OUT"} ELSE {"IN"}
    BY <1>1, <1>3 DEF RegInv, Registered
  <2>2. RegInv'
    BY <1>3, <2>1, RegFrame
  <2> QED
    BY <1>3, <2>2 DEF Typed
<1> QED
  BY <1>2, <1>3

\* The connection of the handler under way is gone.
LEMMA Deleted ==
    ASSUME Inv, NEW c \in conns, Delete(c), DataInv',
           response_cnt' \in [Clients -> Nat],
           response_pos' \in [Clients -> 0 .. response_size],
           \A d \in Clients \ {c} : Owed(d)' <=> Owed(d),
           UNCHANGED <<peer, sent, recvd, tx, got, backlog, f, enable_epollout>>,
           \A e \in batch' : e \in batch /\ e.h # c,
           \A d \in conns \ {c} : Armed(d)
    PROVE  Inv'
<1>1. /\ conns' = conns \ {c} /\ interest' = [interest EXCEPT ![c] = {}] /\ c \in Clients
      /\ interest'[c] = {} /\ \A d \in Clients \ {c} : interest'[d] = interest[d]
      /\ conns \subseteq Clients
  BY DEF Delete, Inv, Typed
<1>2. Typed'
  <2>1. interest' \in [Clients -> SUBSET {"IN", "OUT"}]
    BY <1>1 DEF Inv, Typed
  <2> QED
    BY <1>1, <2>1 DEF Inv, Typed
<1>3. RegInv'
  BY <1>1, RegFrame DEF Inv
<1>4. Control'
  <2>1. Batch'
    BY <1>1 DEF Inv, Control, LoopInv, Batch
  <2>2. ASSUME NEW d \in conns' PROVE Armed(d)'
    <3>1. d \in Clients \ {c} /\ d \in conns \ {c}
      BY <1>1
    <3>2. (Owed(d)' <=> Owed(d)) /\ enable_epollout'[d] = enable_epollout[d] /\ Armed(d)
      BY <3>1
    <3> QED
      BY <3>2, Zenon DEF Armed
  <2> QED
    BY <2>1, <2>2, Returned DEF Delete
<1> QED
  BY <1>2, <1>3, <1>4 DEF Inv

\* Nothing of a connection is changed.
LEMMA OwedSame ==
    ASSUME UNCHANGED respVars
    PROVE  \A d \in Clients : Owed(d)' <=> Owed(d)
BY DEF Owed, Owes, respVars

------------------------------------------------------------------------------
(* The steps.                                                              *)

LEMMA EpollWaitStep == ASSUME Inv, EpollWait PROVE Inv'
<1>1. batch' \subseteq Ready /\ loop = "wait" /\ loop' = "dispatch"
  BY DEF EpollWait, kSubset
<1>2. UNCHANGED <<peerVars, conns, f, respVars, enable_epollout, cur>>
  BY DEF EpollWait
<1>3. Batch'
  <2>1. ASSUME NEW e \in Ready
        PROVE  \/ e.h \in conns /\ e.h \in Clients /\ e = [h |-> e.h, ev |-> Events(e.h)]
               \/ e.h = Acceptor /\ e = [h |-> Acceptor, ev |-> {"IN"}]
    <3>1. CASE \E d \in Clients : Events(d) # {} /\ e = [h |-> d, ev |-> Events(d)]
      <4>1. PICK d \in Clients : Events(d) # {} /\ e = [h |-> d, ev |-> Events(d)]
        BY <3>1
      <4>2. d \in conns
        BY <4>1 DEF Events, Inv, RegInv, Registered
      <4> QED
        BY <4>1, <4>2
    <3>2. CASE e = [h |-> Acceptor, ev |-> {"IN"}]
      BY <3>2
    <3> QED
      BY <3>1, <3>2 DEF Ready
  <2>2. \A e, g \in Ready : e.h = g.h => e = g
    BY <2>1, Apart
  <2> QED
    BY <1>1, <1>2, <2>1, <2>2 DEF Batch
<1>4. Typed' /\ DataInv' /\ RegInv'
  BY <1>2 DEF Inv, Typed, DataInv, Whole, Counted, Stream, RegInv, Registered, Fresh, peerVars, respVars
<1>5. Control'
  <2>1. LoopInv'
    BY <1>1, <1>2, <1>3 DEF Inv, Control, LoopInv, Calls
  <2>2. Settled'
    BY <1>2 DEF Inv, Control, Settled, Armed, Owed, respVars
  <2> QED
    BY <1>1, <2>1, <2>2 DEF Control, CallInv
<1> QED
  BY <1>4, <1>5 DEF Inv

LEMMA DispatchStep == ASSUME Inv, Dispatch PROVE Inv'
<1>1. UNCHANGED <<peer, sent, recvd, tx, got, backlog, f, respVars, enable_epollout>> /\ loop = "dispatch"
  BY DEF Dispatch
<1>2. PICK e \in batch :
        /\ batch' = batch \ {e}
        /\ \/ "ERR" \in e.ev /\ Delete(e.h)
           \/ /\ loop' = IF e.h = Acceptor THEN "accept"
                         ELSE IF "OUT" \in e.ev THEN "send" ELSE "recv"
              /\ cur' = e
              /\ UNCHANGED <<conns, interest>>
  BY DEF Dispatch
<1>3. /\ \A x \in batch' : x \in batch /\ x.h # e.h
      /\ e.h \in conns \/ e = [h |-> Acceptor, ev |-> {"IN"}]
      /\ \A d \in conns : Armed(d)
      /\ Batch
  <2>1. Batch /\ cur.h = Acceptor
    BY <1>1 DEF Inv, Control, LoopInv, Calls
  <2>2. \A d \in conns : cur.h # d
    BY <2>1, Apart DEF Inv, Typed
  <2> QED
    BY <1>2, <2>1, <2>2 DEF Batch, Inv, Control, Settled
<1>4. DataInv' /\ \A d \in Clients : Owed(d)' <=> Owed(d)
  BY <1>1, OwedSame DEF Inv, DataInv, Whole, Counted, Stream, respVars
<1>5. CASE UNCHANGED <<conns, interest>> /\ cur' = e
           /\ loop' = IF e.h = Acceptor THEN "accept"
                      ELSE IF "OUT" \in e.ev THEN "send" ELSE "recv"
  <2>1. Typed' /\ RegInv'
    BY <1>1, <1>5 DEF Inv, Typed, RegInv, Registered, Fresh, respVars
  <2>2. Batch'
    BY <1>2, <1>3, <1>5 DEF Batch
  <2>3. ASSUME NEW d \in conns' PROVE Armed(d)'
    <3>1. d \in Clients /\ d \in conns
      BY <1>5 DEF Inv, Typed
    <3>2. (Owed(d)' <=> Owed(d)) /\ enable_epollout'[d] = enable_epollout[d] /\ Armed(d)
      BY <1>1, <1>3, <1>4, <3>1
    <3> QED
      BY <3>2, Zenon DEF Armed
  <2>4. LoopInv' /\ Settled'
    BY <1>3, <1>5, <2>2, <2>3 DEF LoopInv, Settled, Calls
  <2>5. CallInv'
    <3>1. CASE e.h = Acceptor
      BY <1>5, <3>1 DEF CallInv
    <3>2. CASE e.h # Acceptor
      <4>1. Armed(e.h)' /\ cur'.h = e.h
        BY <1>3, <1>5, <2>3, <3>2
      <4> QED
        BY <4>1 DEF CallInv, Armed, Owed
    <3> QED
      BY <3>1, <3>2
  <2> QED
    BY <1>4, <2>1, <2>4, <2>5 DEF Inv, Control
<1>6. CASE "ERR" \in e.ev /\ Delete(e.h)
  <2>1. CASE e.h \in conns
    <3>1. /\ response_cnt' \in [Clients -> Nat]
          /\ response_pos' \in [Clients -> 0 .. response_size]
      BY <1>1 DEF respVars, Inv, Typed
    <3> QED
      BY <1>1, <1>3, <1>4, <1>6, <2>1, <3>1, Deleted
  <2>2. CASE e = [h |-> Acceptor, ev |-> {"IN"}]
    BY <1>6, <2>2
  <2> QED
    BY <1>3, <2>1, <2>2
<1> QED
  BY <1>2, <1>5, <1>6

LEMMA AcceptStep == ASSUME Inv, Accept PROVE Inv'
<1>1. PICK c \in backlog : backlog' = backlog \ {c} /\ NewConnection(c)
  BY DEF Accept
<1>2. /\ conns' = conns \cup {c}
      /\ interest' = [interest EXCEPT ![c] = {"IN"}]
      /\ enable_epollout' = [enable_epollout EXCEPT ![c] = FALSE]
      /\ response_cnt' = [response_cnt EXCEPT ![c] = 0]
      /\ response_pos' = [response_pos EXCEPT ![c] = response_size]
      /\ UNCHANGED <<peer, sent, recvd, tx, got, f, batch>> /\ loop = "accept"
  BY <1>1 DEF NewConnection, Accept
<1>3. c \in Clients /\ peer[c] # "idle" /\ c \notin conns /\ Fresh(c)
  BY DEF Inv, Typed, RegInv, Registered
<1>4. /\ interest'[c] = {"IN"} /\ enable_epollout'[c] = FALSE
      /\ response_cnt'[c] = 0 /\ response_pos'[c] = response_size
      /\ \A d \in Clients \ {c} : /\ interest'[d] = interest[d]
                                  /\ enable_epollout'[d] = enable_epollout[d]
                                  /\ response_cnt'[d] = response_cnt[d]
                                  /\ response_pos'[d] = response_pos[d]
  BY <1>2, <1>3 DEF Inv, Typed
<1>5. Typed'
  <2>1. response_size \in 0 .. response_size
    BY ResponseAssumption
  <2>2. /\ interest' \in [Clients -> SUBSET {"IN", "OUT"}]
        /\ enable_epollout' \in [Clients -> BOOLEAN]
        /\ response_cnt' \in [Clients -> Nat]
        /\ response_pos' \in [Clients -> 0 .. response_size]
    BY <1>2, <2>1 DEF Inv, Typed
  <2> QED
    BY <1>1, <1>2, <1>3, <2>2 DEF Inv, Typed
<1>6. DataInv'
  <2>1. Stream(c)' = Stream(c) /\ Stream(c) = <<>> /\ Len(Stream(c)) = 0
    <3>1. Stream(c) = <<>>
      BY <1>3, ConcatEmptySeq, EmptySeq DEF Fresh, Stream
    <3> QED
      BY <1>2, <3>1 DEF Stream
  <2>2. Owing(0, 0, 0, 0, response_size)
    <3>1. /\ 0 = request_size * 0 /\ 0 - 0 \in 0 .. request_size - 1
          /\ 0 = response_size * (0 - 0 - 1) + response_size
      BY ResponseAssumption, RingAssumption
    <3> QED
      BY <3>1 DEF Owing
  <2>3. Whole(Stream(c))'
    BY <1>3, <2>1 DEF Inv, DataInv, Whole
  <2>4. Counted(c)'
    <3>1. recvd'[c] = 0 /\ f'[c] = 0 /\ recvd'[c] <= sent'[c]
      BY <1>2, <1>3 DEF Inv, DataInv, Counted, Fresh
    <3> QED
      BY <1>4, <2>1, <2>2, <3>1 DEF Counted
  <2> QED
    BY <1>2, <1>3, <1>4, <2>3, <2>4, DataFrame DEF Inv
<1>7. RegInv'
  <2>1. Registered(c)'
    BY <1>1, <1>2, <1>3, <1>4 DEF Registered
  <2>2. ASSUME NEW d \in Clients, d # c PROVE Registered(d)'
    BY <1>1, <1>2, <1>4, <2>2 DEF Inv, RegInv, Registered, Fresh
  <2> QED
    BY <2>1, <2>2 DEF RegInv
<1>8. Control'
  <2>1. Batch'
    BY <1>2 DEF Inv, Control, LoopInv, Batch
  <2>2. \A d \in conns : cur.h # d
    BY <1>2, Apart DEF Inv, Typed, Control, LoopInv, Calls
  <2>3. Armed(c)'
    <3>1. ~Owes(0, response_size)
      BY ResponseAssumption DEF Owes
    <3> QED
      BY <1>4, <3>1 DEF Armed, Owed
  <2>4. ASSUME NEW d \in conns PROVE Armed(d)'
    <3>1. d \in Clients \ {c} /\ Armed(d)
      BY <1>3, <2>2 DEF Inv, Typed, Control, Settled
    <3> QED
      BY <1>4, <3>1 DEF Armed, Owed
  <2>5. \A d \in conns' : Armed(d)'
    BY <1>2, <2>3, <2>4
  <2> QED
    BY <2>1, <2>5, Returned DEF Accept
<1> QED
  BY <1>5, <1>6, <1>7, <1>8 DEF Inv

LEMMA AcceptFailsStep == ASSUME Inv, AcceptFails PROVE Inv'
<1>1. /\ loop = "accept" /\ loop' = "aborted" /\ conns' = {} /\ batch' = {}
      /\ interest' = [c \in Clients |-> {}]
      /\ UNCHANGED <<peer, sent, recvd, tx, got, backlog, f, respVars, enable_epollout, cur>>
  BY DEF AcceptFails
<1>2. Typed' /\ DataInv'
  <2>1. interest' \in [Clients -> SUBSET {"IN", "OUT"}]
    BY <1>1
  <2> QED
    BY <1>1, <2>1 DEF Inv, Typed, DataInv, Whole, Counted, Stream, respVars
<1>3. RegInv'
  <2> SUFFICES ASSUME NEW d \in Clients PROVE Registered(d)'
    BY DEF RegInv
  <2> QED
    BY <1>1 DEF Inv, RegInv, Registered, Fresh
<1>4. Control'
  <2>1. LoopInv'
    BY <1>1 DEF Inv, Control, LoopInv, Batch, Calls
  <2> QED
    BY <1>1, <2>1 DEF Control, Settled, CallInv
<1> QED
  BY <1>2, <1>3, <1>4 DEF Inv

LEMMA RecvStep == ASSUME Inv, NEW c \in Clients, Recv(c) PROVE Inv'
<1> DEFINE n == Min({Unread(c), Total(get_blank_iovec(f[c], recvd[c]))})
           ended == peer[c] = "reset" \/ (peer[c] = "eof" /\ Unread(c) = 0)
<1>1. /\ loop = "recv" /\ cur.h = c
      /\ UNCHANGED <<peer, sent, tx, got, backlog, response_pos, enable_epollout, batch>>
      /\ \/ Delete(c) /\ UNCHANGED <<recvd, f, response_cnt>>
         \/ /\ recvd' = [recvd EXCEPT ![c] = @ + n]
            /\ response_cnt' = [response_cnt EXCEPT ![c] = @ + Requests(c, n)]
            /\ f' = [f EXCEPT ![c] = @ + Requests(c, n) * request_size]
            /\ loop' = "send"
            /\ cur' = [cur EXCEPT !.ev = {}]
            /\ UNCHANGED <<conns, interest>>
  BY DEF Recv
<1>2. /\ c \in conns /\ \A e \in batch' : e \in batch /\ e.h # c
      /\ \A d \in conns \ {c} : Armed(d)
      /\ Batch
  BY <1>1, UnderWay DEF Calls
<1>3. Armed(c)
  BY <1>1 DEF Inv, Control, CallInv
<1>4. f[c] \in Nat /\ recvd[c] \in Nat /\ sent[c] \in Nat /\ recvd[c] <= sent[c]
  BY Facts DEF Inv
<1>5. n \in Nat /\ recvd[c] + n <= sent[c]
  <2> DEFINE u == Unread(c)
             room == Total(get_blank_iovec(f[c], recvd[c]))
  <2>1. u \in Nat /\ recvd[c] + u = sent[c]
    BY <1>4 DEF Unread
  <2>2. room \in Nat
    BY <1>4, BlankNat
  <2> HIDE DEF u, room
  <2>3. Min({u, room}) \in Nat /\ Min({u, room}) <= u
    <3>1. u \in Int /\ room \in Int
      BY <2>1, <2>2
    <3>2. Min({u, room}) \in {u, room} /\ Min({u, room}) <= u
      BY <3>1, Smaller
    <3> QED
      BY <2>1, <2>2, <3>2
  <2>4. n = Min({u, room})
    BY DEF u, room
  <2> HIDE DEF n
  <2> QED
    BY <1>4, <2>1, <2>3, <2>4
<1> HIDE DEF n, ended
<1>6. CASE Delete(c) /\ UNCHANGED <<recvd, f, response_cnt>>
  <2>1. DataInv'
    BY <1>1, <1>6 DEF Inv, DataInv, Whole, Counted, Stream
  <2>2. \A d \in Clients : Owed(d)' <=> Owed(d)
    BY <1>1, <1>6 DEF Owed
  <2>3. /\ response_cnt' \in [Clients -> Nat]
        /\ response_pos' \in [Clients -> 0 .. response_size]
    BY <1>1, <1>6 DEF Inv, Typed
  <2> QED
    BY <1>1, <1>2, <1>6, <2>1, <2>2, <2>3, Deleted
<1>7. CASE /\ recvd' = [recvd EXCEPT ![c] = @ + n]
           /\ response_cnt' = [response_cnt EXCEPT ![c] = @ + Requests(c, n)]
           /\ f' = [f EXCEPT ![c] = @ + Requests(c, n) * request_size]
           /\ loop' = "send"
           /\ cur' = [cur EXCEPT !.ev = {}]
           /\ UNCHANGED <<conns, interest>>
  <2>1. /\ DataInv'
        /\ recvd' \in [Clients -> Nat] /\ f' \in [Clients -> Nat]
        /\ response_cnt' \in [Clients -> Nat]
        /\ Owed(c) => Owed(c)'
        /\ \A d \in Clients \ {c} : Owed(d)' <=> Owed(d)
    BY <1>1, <1>5, <1>7, RecvData DEF Inv
  <2>2. Typed'
    BY <1>1, <1>7, <2>1 DEF Inv, Typed
  <2>3. RegInv'
    <3>1. /\ interest'[c] = IF c \notin conns' THEN {}
                            ELSE IF enable_epollout'[c] THEN {"IN", "OUT"} ELSE {"IN"}
      BY <1>1, <1>7 DEF Inv, RegInv, Registered
    <3>2. \A d \in Clients \ {c} : recvd'[d] = recvd[d] /\ f'[d] = f[d]
      BY <1>7 DEF Inv, Typed
    <3> QED
      BY <1>1, <1>2, <1>7, <3>1, <3>2, RegFrame DEF Inv
  <2>4. Control'
    <3>1. Batch'
      BY <1>1, <1>2, <1>7 DEF Batch
    <3>2. ASSUME NEW d \in conns' \ {c} PROVE Armed(d)'
      <4>1. d \in Clients \ {c} /\ d \in conns \ {c}
        BY <1>7 DEF Inv, Typed
      <4>2. (Owed(d)' <=> Owed(d)) /\ enable_epollout'[d] = enable_epollout[d] /\ Armed(d)
        BY <1>1, <1>2, <2>1, <4>1
      <4> QED
        BY <4>2, Zenon DEF Armed
    <3>3. enable_epollout'[c] => Owed(c)'
      <4>1. enable_epollout'[c] = enable_epollout[c]
        BY <1>1
      <4> QED
        BY <1>3, <2>1, <4>1, Zenon DEF Armed
    <3>4. cur'.h = c /\ loop' = "send" /\ c \in conns' /\ \A e \in batch' : e.h # c
      <4>1. cur'.h = cur.h
        BY <1>7
      <4> QED
        BY <1>1, <1>2, <1>7, <4>1
    <3> QED
      BY <3>1, <3>2, <3>3, <3>4, ToSend
  <2> QED
    BY <2>1, <2>2, <2>3, <2>4 DEF Inv
<1> QED
  BY <1>1, <1>6, <1>7

LEMMA SendNothingStep == ASSUME Inv, NEW c \in Clients, SendNothing(c) PROVE Inv'
<1>1. /\ loop = "send" /\ cur.h = c /\ ~Owed(c)
      /\ UNCHANGED <<peerVars, conns, f, respVars, enable_epollout, batch>>
      /\ SendReturns
  BY DEF SendNothing, Owed
<1>2. c \in conns /\ \A d \in conns \ {c} : Armed(d)
  BY <1>1, UnderWay DEF Calls
<1>3. Typed' /\ DataInv' /\ RegInv'
  BY <1>1 DEF Inv, Typed, DataInv, Whole, Counted, Stream, RegInv, Registered, Fresh, peerVars, respVars
<1>4. \A d \in conns' : Armed(d)'
  <2>1. Armed(c)
    <3>1. enable_epollout[c] \in BOOLEAN
      BY DEF Inv, Typed
    <3> QED
      BY <1>1, <3>1 DEF Inv, Control, CallInv, Armed
  <2> QED
    BY <1>1, <1>2, <2>1 DEF Armed, Owed, respVars
<1>5. Control'
  BY <1>1, <1>4, SendReturned
<1> QED
  BY <1>3, <1>5 DEF Inv

LEMMA SendFailsStep == ASSUME Inv, NEW c \in Clients, SendFails(c) PROVE Inv'
<1>1. /\ loop = "send" /\ cur.h = c /\ Owed(c)
      /\ response_cnt' = [response_cnt EXCEPT ![c] = Started(c).cnt]
      /\ response_pos' = [response_pos EXCEPT ![c] = Started(c).pos]
      /\ UNCHANGED <<peer, sent, recvd, tx, got, backlog, f, enable_epollout, batch>>
      /\ Delete(c)
  BY DEF SendFails, Owed
<1>2. /\ c \in conns /\ \A e \in batch' : e \in batch /\ e.h # c
      /\ \A d \in conns \ {c} : Armed(d)
  BY <1>1, UnderWay DEF Calls
<1>3. /\ DataInv'
      /\ response_cnt' \in [Clients -> Nat]
      /\ response_pos' \in [Clients -> 0 .. response_size]
      /\ \A d \in Clients \ {c} : Owed(d)' <=> Owed(d)
  BY <1>1, BeginData DEF Inv
<1> QED
  BY <1>1, <1>2, <1>3, Deleted

LEMMA SendFullStep == ASSUME Inv, NEW c \in Clients, SendFull(c) PROVE Inv'
<1>1. /\ loop = "send" /\ cur.h = c /\ Owed(c)
      /\ response_cnt' = [response_cnt EXCEPT ![c] = Started(c).cnt]
      /\ response_pos' = [response_pos EXCEPT ![c] = Started(c).pos]
      /\ IF enable_epollout[c] THEN UNCHANGED <<interest, enable_epollout>>
         ELSE set_epollout(c, TRUE)
      /\ UNCHANGED <<peer, sent, recvd, tx, got, backlog, conns, f, batch>>
      /\ SendReturns
  BY DEF SendFull, Owed
<1>2. c \in conns /\ \A d \in conns \ {c} : Armed(d)
  BY <1>1, UnderWay DEF Calls
<1>3. /\ DataInv' /\ Owed(c)'
      /\ response_cnt' \in [Clients -> Nat]
      /\ response_pos' \in [Clients -> 0 .. response_size]
      /\ \A d \in Clients \ {c} : Owed(d)' <=> Owed(d)
  BY <1>1, BeginData DEF Inv
<1>4. /\ enable_epollout'[c] = TRUE
      /\ set_epollout(c, TRUE) \/ UNCHANGED <<interest, enable_epollout>>
  BY <1>1 DEF Inv, Typed, set_epollout
<1>5. /\ RegInv'
      /\ interest' \in [Clients -> SUBSET {"IN", "OUT"}]
      /\ enable_epollout' \in [Clients -> BOOLEAN]
      /\ \A d \in Clients \ {c} : enable_epollout'[d] = enable_epollout[d]
  BY <1>1, <1>2, <1>4, Rearmed DEF Inv
<1>6. Typed'
  BY <1>1, <1>3, <1>5 DEF Inv, Typed
<1>7. ASSUME NEW d \in conns' PROVE Armed(d)'
  <2>1. CASE d = c
    BY <1>3, <1>4, <2>1, Zenon DEF Armed
  <2>2. CASE d # c
    <3>1. d \in Clients \ {c} /\ d \in conns \ {c}
      BY <1>1, <2>2 DEF Inv, Typed
    <3>2. (Owed(d)' <=> Owed(d)) /\ enable_epollout'[d] = enable_epollout[d] /\ Armed(d)
      BY <1>2, <1>3, <1>5, <3>1
    <3> QED
      BY <3>2, Zenon DEF Armed
  <2> QED
    BY <2>1, <2>2
<1>8. Control'
  BY <1>1, <1>7, SendReturned
<1> QED
  BY <1>3, <1>5, <1>6, <1>8 DEF Inv

LEMMA SendSomeStep == ASSUME Inv, NEW c \in Clients, SendSome(c) PROVE Inv'
<1>1. /\ loop = "send" /\ cur.h = c /\ Owed(c) /\ Room(c) > 0
      /\ UNCHANGED <<peer, sent, recvd, got, backlog, conns, f, loop, batch, cur>>
  BY DEF SendSome, Owed
<1>2. PICK n \in 1 .. Min({Room(c), response_size - Started(c).pos}) :
        /\ tx' = [tx EXCEPT ![c] = @ \o [k \in 1 .. n |-> Started(c).pos + k]]
        /\ response_cnt' = [response_cnt EXCEPT ![c] = Started(c).cnt]
        /\ response_pos' = [response_pos EXCEPT ![c] = Started(c).pos + n]
        /\ IF ~Owes(Started(c).cnt, Started(c).pos + n) /\ enable_epollout[c]
           THEN set_epollout(c, FALSE)
           ELSE UNCHANGED <<interest, enable_epollout>>
  BY DEF SendSome
<1>3. /\ c \in conns /\ \A e \in batch : e.h # c
      /\ \A d \in conns \ {c} : Armed(d)
      /\ Batch
  BY <1>1, UnderWay DEF Calls
<1>4. n \in 1 .. response_size - Started(c).pos
  <2> DEFINE a == Room(c)
             b == response_size - Started(c).pos
  <2>1. Len(tx[c]) \in Nat /\ TxCap[c] \in Nat
    BY PeersAssumption, LenProperties DEF Inv, Typed
  <2>2. a \in Int
    BY <2>1 DEF Room
  <2>3. b \in Int
    BY <1>1, Begun, ResponseAssumption DEF Inv
  <2>4. n \in 1 .. Min({a, b})
    OBVIOUS
  <2> HIDE DEF a, b
  <2>5. Min({a, b}) \in Int /\ Min({a, b}) <= b
    BY <2>2, <2>3, Smaller
  <2>6. n \in 1 .. b
    BY <2>3, <2>4, <2>5
  <2> QED
    BY <2>6 DEF b
<1>5. /\ DataInv'
      /\ tx' \in [Clients -> Seq(Nat)]
      /\ response_cnt' \in [Clients -> Nat]
      /\ response_pos' \in [Clients -> 0 .. response_size]
      /\ Owed(c)' <=> Owes(Started(c).cnt, Started(c).pos + n)
      /\ \A d \in Clients \ {c} : Owed(d)' <=> Owed(d)
  BY <1>1, <1>2, <1>4, SendData DEF Inv
<1> DEFINE owes == Owes(Started(c).cnt, Started(c).pos + n)
<1>6. PICK on \in BOOLEAN :
        /\ enable_epollout'[c] = on
        /\ set_epollout(c, on) \/ UNCHANGED <<interest, enable_epollout>>
        /\ on => owes
  <2>1. CASE ~owes /\ enable_epollout[c]
    <3>1. set_epollout(c, FALSE)
      BY <1>2, <2>1
    <3>2. enable_epollout'[c] = FALSE
      BY <3>1 DEF Inv, Typed, set_epollout
    <3> QED
      BY <3>1, <3>2
  <2>2. CASE ~(~owes /\ enable_epollout[c])
    <3>1. UNCHANGED <<interest, enable_epollout>>
      BY <1>2, <2>2
    <3>2. enable_epollout[c] \in BOOLEAN
      BY DEF Inv, Typed
    <3> HIDE DEF owes
    <3>3. enable_epollout[c] => owes
      BY <2>2
    <3> QED
      BY <3>1, <3>2, <3>3
  <2> QED
    BY <2>1, <2>2
<1>7. on => Owed(c)'
  BY <1>5, <1>6
<1>8. /\ RegInv'
      /\ interest' \in [Clients -> SUBSET {"IN", "OUT"}]
      /\ enable_epollout' \in [Clients -> BOOLEAN]
      /\ \A d \in Clients \ {c} : enable_epollout'[d] = enable_epollout[d]
  <2>1. \A d \in Clients \ {c} : tx'[d] = tx[d]
    BY <1>2 DEF Inv, Typed
  <2> QED
    BY <1>1, <1>3, <1>6, <2>1, Rearmed DEF Inv
<1>9. Typed'
  BY <1>1, <1>5, <1>8 DEF Inv, Typed
<1>10. Control'
  <2>1. Batch'
    BY <1>1, <1>3 DEF Batch
  <2>2. ASSUME NEW d \in conns' \ {c} PROVE Armed(d)'
    <3>1. d \in Clients \ {c} /\ d \in conns \ {c}
      BY <1>1 DEF Inv, Typed
    <3>2. (Owed(d)' <=> Owed(d)) /\ enable_epollout'[d] = enable_epollout[d] /\ Armed(d)
      BY <1>3, <1>5, <1>8, <3>1
    <3> QED
      BY <3>2, Zenon DEF Armed
  <2>3. enable_epollout'[c] => Owed(c)'
    BY <1>6, <1>7
  <2>4. cur'.h = c /\ loop' = "send" /\ c \in conns' /\ \A e \in batch' : e.h # c
    BY <1>1, <1>3
  <2> QED
    BY <2>1, <2>2, <2>3, <2>4, ToSend
<1> QED
  BY <1>5, <1>8, <1>9, <1>10 DEF Inv

LEMMA ClientStep == ASSUME Inv, NEW c \in Clients, Client(c) PROVE Inv'
<1>1. UNCHANGED <<conns, f, respVars, enable_epollout, loop, batch, cur>>
  BY DEF Client, serverVars
<1>2. Control'
  BY <1>1 DEF Inv, Control, LoopInv, Batch, Settled, Armed, Owed, CallInv, respVars
<1>3. CASE Connect(c)
  <2>1. /\ peer[c] = "idle" /\ peer' = [peer EXCEPT ![c] = "open"] /\ backlog' = backlog \cup {c}
        /\ UNCHANGED <<sent, recvd, tx, got, interest>>
    BY <1>3 DEF Connect
  <2>2. Typed'
    <3>1. peer' \in [Clients -> {"idle", "open", "eof", "reset"}]
      BY <2>1 DEF Inv, Typed
    <3> QED
      BY <1>1, <2>1, <3>1 DEF Inv, Typed, respVars
  <2>3. DataInv'
    BY <1>1, <2>1 DEF Inv, DataInv, Whole, Counted, Stream, respVars
  <2>4. RegInv'
    <3>1. peer'[c] = "open" /\ \A d \in Clients \ {c} : peer'[d] = peer[d]
      BY <2>1 DEF Inv, Typed
    <3>2. Registered(c)'
      BY <1>1, <2>1, <3>1 DEF Inv, RegInv, Registered, Fresh
    <3>3. ASSUME NEW d \in Clients, d # c PROVE Registered(d)'
      BY <1>1, <2>1, <3>1, <3>3 DEF Inv, RegInv, Registered, Fresh
    <3> QED
      BY <3>2, <3>3 DEF RegInv
  <2> QED
    BY <1>2, <2>2, <2>3, <2>4 DEF Inv
<1>4. CASE ClientSend(c)
  <2>1. /\ sent' = [sent EXCEPT ![c] = @ + 1]
        /\ UNCHANGED <<peer, recvd, tx, got, backlog, interest>>
    BY <1>4 DEF ClientSend
  <2>2. sent' \in [Clients -> Nat] /\ \A d \in Clients : sent'[d] >= sent[d]
    BY <2>1 DEF Inv, Typed
  <2>3. Typed'
    BY <1>1, <2>1, <2>2 DEF Inv, Typed, respVars
  <2>4. DataInv'
    <3> SUFFICES ASSUME NEW d \in Clients PROVE Whole(Stream(d))' /\ Counted(d)'
      BY DEF DataInv
    <3>1. recvd[d] <= sent'[d]
      <4>1. recvd[d] \in Nat /\ sent[d] \in Nat /\ sent'[d] \in Nat /\ recvd[d] <= sent[d]
        BY <2>2 DEF Inv, Typed, DataInv, Counted
      <4> QED
        BY <2>2, <4>1
    <3> QED
      BY <1>1, <2>1, <3>1 DEF Inv, DataInv, Whole, Counted, Stream, respVars
  <2>5. RegInv'
    BY <1>1, <2>1 DEF Inv, RegInv, Registered, Fresh
  <2> QED
    BY <1>2, <2>3, <2>4, <2>5 DEF Inv
<1>5. CASE ClientRead(c)
  <2>1. UNCHANGED <<peer, sent, recvd, backlog, interest>> /\ tx[c] # <<>>
    BY <1>5 DEF ClientRead
  <2>2. /\ DataInv'
        /\ tx' \in [Clients -> Seq(Nat)] /\ got' \in [Clients -> Seq(Nat)]
        /\ \A d \in Clients \ {c} : tx'[d] = tx[d] /\ got'[d] = got[d]
    BY <1>1, <1>5, ReadData DEF Inv
  <2>3. Typed'
    BY <1>1, <2>1, <2>2 DEF Inv, Typed, respVars
  <2>4. RegInv'
    <3>1. Registered(c)'
      BY <1>1, <2>1 DEF Inv, RegInv, Registered, Fresh
    <3>2. ASSUME NEW d \in Clients, d # c PROVE Registered(d)'
      BY <1>1, <2>1, <2>2, <3>2 DEF Inv, RegInv, Registered, Fresh
    <3> QED
      BY <3>1, <3>2 DEF RegInv
  <2> QED
    BY <1>2, <2>2, <2>3, <2>4 DEF Inv
<1>6. CASE ClientShutdown(c) \/ ClientReset(c)
  <2>1. /\ peer[c] # "idle" /\ peer' \in {[peer EXCEPT ![c] = "eof"], [peer EXCEPT ![c] = "reset"]}
        /\ UNCHANGED <<sent, recvd, tx, got, backlog, interest>>
    BY <1>6 DEF ClientShutdown, ClientReset
  <2>2. /\ peer' \in [Clients -> {"idle", "open", "eof", "reset"}]
        /\ \A d \in Clients : peer'[d] = "idle" <=> peer[d] = "idle"
    BY <2>1 DEF Inv, Typed
  <2>3. Typed' /\ DataInv'
    BY <1>1, <2>1, <2>2 DEF Inv, Typed, DataInv, Whole, Counted, Stream, respVars
  <2>4. RegInv'
    BY <1>1, <2>1, <2>2 DEF Inv, RegInv, Registered, Fresh
  <2> QED
    BY <1>2, <2>3, <2>4 DEF Inv
<1> QED
  BY <1>3, <1>4, <1>5, <1>6 DEF Client

LEMMA InitInv == Init => Inv
<1> SUFFICES ASSUME Init PROVE Inv
  OBVIOUS
<1> USE DEF Init, PeersInit
<1>1. Typed
  <2>1. <<>> \in Seq(Nat) /\ response_size \in 0 .. response_size
    BY ResponseAssumption
  <2> QED
    BY <2>1 DEF Typed
<1>2. DataInv
  <2> SUFFICES ASSUME NEW c \in Clients PROVE Whole(Stream(c)) /\ Counted(c)
    BY DEF DataInv
  <2>1. Stream(c) = <<>> /\ Len(Stream(c)) = 0
    <3>1. got[c] = <<>> /\ tx[c] = <<>>
      OBVIOUS
    <3>2. Stream(c) = <<>>
      BY <3>1, ConcatEmptySeq, EmptySeq DEF Stream
    <3> QED
      BY <3>2
  <2>2. Owing(0, 0, 0, 0, response_size)
    <3>1. /\ 0 = request_size * 0 /\ 0 - 0 \in 0 .. request_size - 1
          /\ 0 = response_size * (0 - 0 - 1) + response_size
      BY ResponseAssumption, RingAssumption
    <3> QED
      BY <3>1 DEF Owing
  <2> QED
    BY <2>1, <2>2 DEF Whole, Counted
<1>3. RegInv
  BY DEF RegInv, Registered, Fresh
<1>4. Control
  BY DEF Control, LoopInv, Batch, Settled, CallInv, Calls, Idle
<1> QED
  BY <1>1, <1>2, <1>3, <1>4 DEF Inv

LEMMA NextInv == Inv /\ [Next]_vars => Inv'
<1> SUFFICES ASSUME Inv, [Next]_vars PROVE Inv'
  OBVIOUS
<1>1. CASE UNCHANGED vars
  <2>1. Typed' /\ DataInv' /\ RegInv'
    BY <1>1 DEF vars, peerVars, serverVars, respVars, Inv, Typed, DataInv, Whole, Counted, Stream,
                RegInv, Registered, Fresh
  <2>2. Control'
    BY <1>1 DEF vars, serverVars, respVars, Inv, Control, LoopInv, Batch, Settled, Armed, Owed, CallInv
  <2> QED
    BY <2>1, <2>2 DEF Inv
<1>2. CASE EpollWait
  BY <1>2, EpollWaitStep
<1>3. CASE Dispatch
  BY <1>3, DispatchStep
<1>4. CASE Accept
  BY <1>4, AcceptStep
<1>5. CASE AcceptFails
  BY <1>5, AcceptFailsStep
<1>6. ASSUME NEW c \in Clients, Recv(c) PROVE Inv'
  BY <1>6, RecvStep
<1>7. ASSUME NEW c \in Clients, SendNothing(c) PROVE Inv'
  BY <1>7, SendNothingStep
<1>8. ASSUME NEW c \in Clients, SendFails(c) PROVE Inv'
  BY <1>8, SendFailsStep
<1>9. ASSUME NEW c \in Clients, SendSome(c) PROVE Inv'
  BY <1>9, SendSomeStep
<1>10. ASSUME NEW c \in Clients, SendFull(c) PROVE Inv'
  BY <1>10, SendFullStep
<1>11. ASSUME NEW c \in Clients, Client(c) PROVE Inv'
  BY <1>11, ClientStep
<1> QED
  BY <1>1, <1>2, <1>3, <1>4, <1>5, <1>6, <1>7, <1>8, <1>9, <1>10, <1>11 DEF Next, Server

------------------------------------------------------------------------------
(* What the invariant says of the properties.                              *)

LEMMA InvResponses == Inv => OneResponsePerRequest
<1> SUFFICES ASSUME Inv, NEW c \in Clients
             PROVE  /\ Stream(c) = [n \in 1 .. Len(Stream(c)) |-> ((n - 1) % response_size) + 1]
                    /\ Len(Stream(c)) + response_cnt[c] * response_size
                                      + (response_size - response_pos[c])
                           = response_size * (recvd[c] \div request_size)
  BY DEF OneResponsePerRequest, Stream
<1> DEFINE s == Stream(c)
<1>1. /\ f[c] \in Nat /\ recvd[c] \in Nat /\ response_cnt[c] \in Nat
      /\ response_pos[c] \in 0 .. response_size
      /\ s \in Seq(Nat) /\ Len(s) \in Nat /\ Whole(s)
      /\ Owing(f[c], recvd[c], Len(s), response_cnt[c], response_pos[c])
  BY Facts DEF Inv
<1> HIDE DEF s
<1>2. s = [n \in 1 .. Len(s) |-> ((n - 1) % response_size) + 1]
  <2>1. s = [n \in 1 .. Len(s) |-> s[n]]
    BY <1>1
  <2> QED
    BY <1>1, <2>1 DEF Whole
<1>3. Len(s) + response_cnt[c] * response_size + (response_size - response_pos[c])
          = response_size * (recvd[c] \div request_size)
  <2> DEFINE t == f[c]
             h == recvd[c]
             l == Len(s)
             cnt == response_cnt[c]
             pos == response_pos[c]
  <2>1. /\ t \in Nat /\ h \in Nat /\ l \in Nat /\ cnt \in Nat /\ pos \in 0 .. response_size
        /\ Owing(t, h, l, cnt, pos)
    BY <1>1
  <2> HIDE DEF t, h, l, cnt, pos
  <2>2. l + cnt * response_size + (response_size - pos) = response_size * (h \div request_size)
    BY <2>1, OwingAll
  <2> QED
    BY <2>2 DEF h, l, cnt, pos
<1> QED
  BY <1>2, <1>3 DEF s

LEMMA InvArmed == Inv => ArmedIffOwed
<1> SUFFICES ASSUME Inv, NEW c \in conns, cur.h # c
             PROVE  /\ enable_epollout[c] <=> Owes(response_cnt[c], response_pos[c])
                    /\ enable_epollout[c] <=> "OUT" \in interest[c]
                    /\ recvd[c] - f[c] < request_size
  BY DEF ArmedIffOwed
<1>1. c \in Clients
  BY DEF Inv, Typed
<1>2. recvd[c] - f[c] < request_size
  <2>1. recvd[c] - f[c] \in 0 .. request_size - 1
    BY <1>1 DEF Inv, DataInv, Counted, Owing
  <2> QED
    BY <2>1, ResponseAssumption, RingAssumption
<1>3. enable_epollout[c] <=> Owes(response_cnt[c], response_pos[c])
  BY DEF Inv, Control, Settled, Armed, Owed
<1>4. enable_epollout[c] <=> "OUT" \in interest[c]
  BY <1>1 DEF Inv, Typed, RegInv, Registered
<1> QED
  BY <1>2, <1>3, <1>4

------------------------------------------------------------------------------
\* The invariant holds in every reachable state.
THEOREM Inductive == Spec => []Inv
<1>1. Init => Inv
  BY InitInv
<1>2. Inv /\ [Next]_vars => Inv'
  BY NextInv
<1> QED
  BY <1>1, <1>2, PTL DEF Spec

\* Whatever the sizes of requests, responses and socket buffers, a client of
\* server_epollout_response.cpp is sent whole responses, each from its first
\* byte on, and with what is still owed one for each request received.
THEOREM Responses == Spec => []OneResponsePerRequest
<1>1. Inv => OneResponsePerRequest
  BY InvResponses
<1> QED
  BY <1>1, Inductive, PTL

\* Between handlers EPOLLOUT is registered exactly for the connections that
\* owe bytes, and no whole request waits uncounted in a ring.
THEOREM Arming == Spec => []ArmedIffOwed
<1>1. Inv => ArmedIffOwed
  BY InvArmed
<1> QED
  BY <1>1, Inductive, PTL
------------------------------------------------------------------------------
(* OneShotServer.                                                          *)

TypedOnce ==
    /\ conns \subseteq Clients /\ backlog \subseteq Clients /\ closed \subseteq Clients
    /\ peer \in [Clients -> {"idle", "open", "eof", "reset"}]
    /\ interest \in [Clients -> SUBSET {"IN", "OUT"}]
    /\ sent \in [Clients -> Nat] /\ recvd \in [Clients -> Nat]
    /\ tx \in [Clients -> Seq(Nat)] /\ got \in [Clients -> Seq(Nat)]
    /\ send_len \in [Clients -> 0 .. reponse_size]

\* A client connects, waits to be accepted, is served and is closed, in this
\* order.
Phase(c) ==
    /\ c \in backlog => c \notin conns
    /\ c \in closed => c \notin conns /\ c \notin backlog
    /\ peer[c] = "idle" => c \notin conns /\ c \notin backlog /\ c \notin closed
    /\ interest[c] # {} => c \in conns

PhaseInv == \A c \in Clients : Phase(c)

\* The first m bytes of the response.
First(m) == [n \in 1 .. m |-> n]

\* Until the server closes, what it sent is what send_len says.  It closes on
\* an open client when that is all, and only what the client itself sent can
\* take away some of it.
Served(c) ==
    /\ recvd[c] <= sent[c]
    /\ Stream(c) = First(Len(Stream(c)))
    /\ c \notin closed => Len(Stream(c)) = send_len[c]
    /\ c \notin conns /\ c \notin closed => send_len[c] = 0
    /\ c \in closed /\ peer[c] = "open" =>
          /\ send_len[c] = reponse_size
          /\ sent[c] = 0 => Len(Stream(c)) = reponse_size

ServedInv == \A c \in Clients : Served(c)

\* The events that are left are of live handlers, one each, and an error is
\* that of a client that is still reset when the event is handled.
BatchOnce ==
    /\ \A e \in batch :
          /\ e.h \in conns \/ e.h = Acceptor
          /\ "ERR" \in e.ev => e.h \in conns /\ peer[e.h] = "reset"
    /\ \A e, g \in batch : e.h = g.h => e = g

CallsOnce == {"construct", "send", "recv"}

LoopOnce ==
    /\ loop \in CallsOnce \cup {"wait", "dispatch", "accept"}
    /\ loop \in CallsOnce => cur.h \in conns /\ \A e \in batch : e.h # cur.h

InvOnce == TypedOnce /\ PhaseInv /\ ServedInv /\ BatchOnce /\ LoopOnce

------------------------------------------------------------------------------
(* Parts of the response.                                                  *)

\* The next n bytes.
LEMMA ExtendFirst ==
    ASSUME NEW m \in Nat, NEW s \in Seq(Nat), s = First(m), NEW n \in Nat,
           NEW h \in [1 .. n -> Nat], \A k \in 1 .. n : h[k] = m + k
    PROVE  s \o h = First(m + n)
<1> DEFINE r == s \o h
           w == [k \in 1 .. m + n |-> k]
<1>1. h \in Seq(Nat) /\ Len(h) = n /\ Len(s) = m /\ \A k \in 1 .. m : s[k] = k
  BY DEF First
<1>2. /\ r \in Seq(Nat) /\ Len(r) = m + n
      /\ \A k \in 1 .. m + n : r[k] = IF k <= m THEN s[k] ELSE h[k - m]
  <2>1. /\ s \o h \in Seq(Nat) /\ Len(s \o h) = Len(s) + Len(h)
        /\ \A k \in 1 .. Len(s) + Len(h) : (s \o h)[k] = IF k <= Len(s) THEN s[k] ELSE h[k - Len(s)]
    <3> HIDE DEF r
    <3> QED
      BY <1>1, ConcatProperties
  <2> QED
    BY <1>1, <2>1
<1> HIDE DEF r
<1>3. ASSUME NEW k \in 1 .. m + n PROVE r[k] = k
  <2>1. CASE k <= m
    <3>1. k \in 1 .. m
      BY <2>1
    <3> QED
      BY <1>1, <1>2, <2>1, <3>1
  <2>2. CASE ~(k <= m)
    <3>1. k - m \in 1 .. n
      BY <2>2
    <3>2. r[k] = h[k - m]
      BY <1>2, <2>2
    <3> QED
      BY <3>1, <3>2
  <2> QED
    BY <2>1, <2>2
<1>4. w \in Seq(Nat) /\ Len(w) = m + n /\ \A k \in 1 .. m + n : w[k] = k
  OBVIOUS
<1> HIDE DEF w
<1>5. r = w
  BY <1>2, <1>3, <1>4, SeqEqual
<1> QED
  BY <1>5 DEF r, w, First

\* Only the first k bytes of what is under way arrive.
LEMMA CutFirst ==
    ASSUME NEW g \in Seq(Nat), NEW b \in Seq(Nat), NEW m \in Nat, g \o b = First(m),
           NEW k \in 0 .. Len(b)
    PROVE  /\ SubSeq(b, 1, k) \in Seq(Nat)
           /\ g \o SubSeq(b, 1, k) = First(Len(g) + k)
           /\ m = Len(g) + Len(b)
<1> DEFINE t == SubSeq(b, 1, k)
           r == g \o t
           a == Len(g)
           l == Len(b)
           w == [i \in 1 .. a + k |-> i]
<1>1. /\ t \in Seq(Nat) /\ Len(t) = k /\ \A i \in 1 .. k : t[i] = b[i]
      /\ a \in Nat /\ l \in Nat /\ k \in 0 .. l
  OBVIOUS
<1>2. /\ Len(g \o b) = a + l
      /\ \A i \in 1 .. a + l : (g \o b)[i] = IF i <= a THEN g[i] ELSE b[i - a]
  BY ConcatProperties
<1>3. m = a + l /\ \A i \in 1 .. m : (g \o b)[i] = i
  <2>1. Len(First(m)) = m /\ \A i \in 1 .. m : First(m)[i] = i
    BY DEF First
  <2> HIDE DEF a, l
  <2> QED
    BY <1>2, <2>1
<1>4. /\ r \in Seq(Nat) /\ Len(r) = a + k
      /\ \A i \in 1 .. a + k : r[i] = IF i <= a THEN g[i] ELSE t[i - a]
  <2>1. /\ g \o t \in Seq(Nat) /\ Len(g \o t) = Len(g) + Len(t)
        /\ \A i \in 1 .. Len(g) + Len(t) : (g \o t)[i] = IF i <= Len(g) THEN g[i] ELSE t[i - Len(g)]
    <3> HIDE DEF t, r, a, l
    <3> QED
      BY <1>1, ConcatProperties
  <2> QED
    BY <1>1, <2>1
<1> HIDE DEF t, r, a, l
<1>5. ASSUME NEW i \in 1 .. a + k PROVE r[i] = i
  <2>0. i \in 1 .. a + l /\ i \in 1 .. m
    BY <1>1, <1>3
  <2>1. CASE i <= a
    BY <1>2, <1>3, <1>4, <2>0, <2>1
  <2>2. CASE ~(i <= a)
    <3>1. i - a \in 1 .. k
      BY <1>1, <2>2
    <3>2. r[i] = t[i - a] /\ (g \o b)[i] = b[i - a]
      BY <1>2, <1>4, <2>0, <2>2
    <3> QED
      BY <1>1, <1>3, <2>0, <3>1, <3>2
  <2> QED
    BY <2>1, <2>2
<1>6. w \in Seq(Nat) /\ Len(w) = a + k /\ \A i \in 1 .. a + k : w[i] = i
  BY <1>1
<1> HIDE DEF w
<1>7. r = w
  BY <1>4, <1>5, <1>6, SeqEqual
<1> QED
  BY <1>1, <1>3, <1>7 DEF r, t, w, a, l, First

------------------------------------------------------------------------------
(* The connections of OneShotServer.                                       *)

LEMMA FactsOnce ==
    ASSUME TypedOnce, ServedInv, NEW c \in Clients
    PROVE  /\ sent[c] \in Nat /\ recvd[c] \in Nat /\ recvd[c] <= sent[c]
           /\ tx[c] \in Seq(Nat) /\ got[c] \in Seq(Nat)
           /\ Stream(c) \in Seq(Nat) /\ Len(Stream(c)) \in Nat
           /\ send_len[c] \in 0 .. reponse_size /\ send_len[c] \in Nat
           /\ Served(c)
<1>1. tx[c] \in Seq(Nat) /\ got[c] \in Seq(Nat)
  BY DEF TypedOnce
<1>2. Stream(c) \in Seq(Nat)
  BY <1>1, ConcatProperties DEF Stream
<1>3. Len(Stream(c)) \in Nat
  BY <1>2, LenProperties
<1> QED
  BY <1>1, <1>2, <1>3, OneShotAssumption DEF TypedOnce, ServedInv, Served

\* A step of the server or of a client is about the client c alone.
LEMMA ServedFrame ==
    ASSUME ServedInv, NEW c \in Clients, Served(c)',
           \A d \in Clients \ {c} :
               /\ peer'[d] = peer[d] /\ sent'[d] = sent[d] /\ recvd'[d] = recvd[d]
               /\ tx'[d] = tx[d] /\ got'[d] = got[d] /\ send_len'[d] = send_len[d]
               /\ d \in conns' <=> d \in conns
               /\ d \in closed' <=> d \in closed
    PROVE  ServedInv'
<1> SUFFICES ASSUME NEW d \in Clients, d # c PROVE Served(d)'
  BY DEF ServedInv
<1>1. Stream(d)' = Stream(d)
  BY DEF Stream
<1> QED
  BY <1>1 DEF ServedInv, Served

LEMMA ServedSame ==
    ASSUME ServedInv, UNCHANGED <<peer, sent, recvd, tx, got, conns, closed, send_len>>
    PROVE  ServedInv'
BY DEF ServedInv, Served, Stream

LEMMA PhaseFrame ==
    ASSUME PhaseInv, NEW c \in Clients, Phase(c)',
           \A d \in Clients \ {c} :
               /\ peer'[d] = "idle" <=> peer[d] = "idle"
               /\ interest'[d] = interest[d]
               /\ d \in conns' <=> d \in conns
               /\ d \in closed' <=> d \in closed
               /\ d \in backlog' <=> d \in backlog
    PROVE  PhaseInv'
<1> SUFFICES ASSUME NEW d \in Clients, d # c PROVE Phase(d)'
  BY DEF PhaseInv
<1> QED
  BY DEF PhaseInv, Phase

\* What is registered for a live connection does not matter.
LEMMA PhaseSame ==
    ASSUME TypedOnce, PhaseInv, NEW c \in conns, NEW flag \in BOOLEAN,
           set_epollout(c, flag) \/ UNCHANGED interest,
           UNCHANGED <<peer, conns, closed, backlog>>
    PROVE  PhaseInv' /\ interest' \in [Clients -> SUBSET {"IN", "OUT"}]
<1>1. c \in Clients
  BY DEF TypedOnce
<1>2. /\ interest' \in [Clients -> SUBSET {"IN", "OUT"}]
      /\ \A d \in Clients \ {c} : interest'[d] = interest[d]
  <2>1. CASE set_epollout(c, flag)
    <3>1. interest' = [interest EXCEPT ![c] = IF flag THEN {"IN", "OUT"} ELSE {"IN"}]
      BY <2>1 DEF set_epollout
    <3>2. (IF flag THEN {"IN", "OUT"} ELSE {"IN"}) \in SUBSET {"IN", "OUT"}
      OBVIOUS
    <3> QED
      BY <1>1, <3>1, <3>2 DEF TypedOnce
  <2>2. CASE UNCHANGED interest
    BY <2>2 DEF TypedOnce
  <2> QED
    BY <2>1, <2>2
<1>3. Phase(c)'
  BY <1>1 DEF PhaseInv, Phase
<1> QED
  BY <1>1, <1>2, <1>3, PhaseFrame

LEMMA BatchSame ==
    ASSUME BatchOnce, UNCHANGED <<peer, conns, batch>>
    PROVE  BatchOnce'
BY DEF BatchOnce

LEMMA ReturnedOnce == Return => LoopOnce'
BY DEF Return, LoopOnce, CallsOnce

LEMMA SendReturned0 ==
    ASSUME LoopOnce, SendReturns0, UNCHANGED batch
    PROVE  LoopOnce' /\ UNCHANGED <<conns, closed>>
<1>1. UNCHANGED <<conns, closed>>
  BY DEF SendReturns0
<1>2. CASE loop = "send" /\ loop' = "recv" /\ UNCHANGED cur
  BY <1>1, <1>2 DEF LoopOnce, CallsOnce
<1>3. CASE Return
  BY <1>1, <1>3, ReturnedOnce
<1> QED
  BY <1>1, <1>2, <1>3 DEF SendReturns0

LEMMA ConstructorReturned ==
    ASSUME ConstructorReturns
    PROVE  LoopOnce' /\ UNCHANGED <<conns, closed>>
BY ReturnedOnce DEF ConstructorReturns

\* Of the first l bytes of the response, those that the client has not read
\* are in b when the server closes.
LEMMA ClosedOnce ==
    ASSUME InvOnce, NEW c \in conns, NEW b \in Seq(Nat), close_conn(c, b),
           NEW l \in 0 .. reponse_size, send_len' = [send_len EXCEPT ![c] = l],
           got[c] \o b = First(l), peer[c] = "open" => l = reponse_size,
           UNCHANGED <<peer, sent, recvd, got, backlog>>,
           batch' \subseteq batch, \A e \in batch' : e.h # c
    PROVE  InvOnce'
<1>1. /\ c \in Clients
      /\ conns' = conns \ {c} /\ closed' = closed \cup {c}
      /\ interest' = [interest EXCEPT ![c] = {}]
      /\ Return
  BY DEF InvOnce, TypedOnce, close_conn
<1>2. PICK k \in 0 .. Len(b) : /\ Unread(c) = 0 => k = Len(b)
                               /\ tx' = [tx EXCEPT ![c] = SubSeq(b, 1, k)]
  BY DEF close_conn
<1>3. /\ got[c] \in Seq(Nat) /\ sent[c] \in Nat /\ recvd[c] \in Nat /\ recvd[c] <= sent[c]
      /\ l \in Nat
  BY <1>1, FactsOnce, OneShotAssumption DEF InvOnce
<1>4. /\ SubSeq(b, 1, k) \in Seq(Nat)
      /\ got[c] \o SubSeq(b, 1, k) = First(Len(got[c]) + k)
      /\ l = Len(got[c]) + Len(b)
  <2> DEFINE g == got[c]
  <2>1. g \in Seq(Nat) /\ g \o b = First(l)
    BY <1>3
  <2> HIDE DEF g
  <2>2. /\ SubSeq(b, 1, k) \in Seq(Nat)
        /\ g \o SubSeq(b, 1, k) = First(Len(g) + k)
        /\ l = Len(g) + Len(b)
    BY <1>3, <2>1, CutFirst
  <2> QED
    BY <2>2 DEF g
<1>5. TypedOnce'
  BY <1>1, <1>2, <1>4 DEF InvOnce, TypedOnce
<1>6. PhaseInv'
  <2>1. Phase(c)'
    BY <1>1 DEF InvOnce, TypedOnce, PhaseInv, Phase
  <2>2. \A d \in Clients \ {c} : interest'[d] = interest[d]
    BY <1>1 DEF InvOnce, TypedOnce
  <2> QED
    BY <1>1, <2>1, <2>2, PhaseFrame DEF InvOnce
<1>7. ServedInv'
  <2>1. tx'[c] = SubSeq(b, 1, k) /\ send_len'[c] = l
    BY <1>1, <1>2 DEF InvOnce, TypedOnce
  <2>2. /\ Stream(c)' = First(Len(got[c]) + k)
        /\ Len(Stream(c)') = Len(got[c]) + k
    <3>1. Stream(c)' = First(Len(got[c]) + k)
      BY <1>4, <2>1 DEF Stream
    <3>2. Len(got[c]) + k \in Nat
      BY <1>3, LenProperties
    <3>3. \A m \in Nat : Len(First(m)) = m
      BY DEF First
    <3> QED
      BY <3>1, <3>2, <3>3
  <2>3. ASSUME peer[c] = "open", sent[c] = 0 PROVE Len(Stream(c)') = reponse_size
    <3>1. Unread(c) = 0
      BY <1>3, <2>3 DEF Unread
    <3> QED
      BY <1>2, <1>4, <2>2, <2>3, <3>1
  <2>4. Served(c)'
    BY <1>1, <1>3, <2>1, <2>2, <2>3 DEF Served
  <2>5. \A d \in Clients \ {c} : tx'[d] = tx[d] /\ send_len'[d] = send_len[d]
    BY <1>2 DEF InvOnce, TypedOnce
  <2> QED
    BY <1>1, <2>4, <2>5, ServedFrame DEF InvOnce
<1>8. BatchOnce'
  BY <1>1 DEF InvOnce, BatchOnce
<1> QED
  BY <1>1, <1>5, <1>6, <1>7, <1>8, ReturnedOnce DEF InvOnce

\* The server closes without a send.
LEMMA ClosedAsIs ==
    ASSUME InvOnce, NEW c \in conns, close_conn(c, tx[c]), UNCHANGED send_len,
           peer[c] = "open" => send_len[c] = reponse_size,
           UNCHANGED <<peer, sent, recvd, got, backlog>>,
           batch' \subseteq batch, \A e \in batch' : e.h # c
    PROVE  InvOnce'
<1>1. c \in Clients /\ c \notin closed
  BY DEF InvOnce, TypedOnce, PhaseInv, Phase
<1>2. /\ tx[c] \in Seq(Nat) /\ send_len[c] \in 0 .. reponse_size
      /\ got[c] \o tx[c] = First(send_len[c])
  BY <1>1, FactsOnce DEF InvOnce, Served, Stream
<1>3. send_len' = [send_len EXCEPT ![c] = send_len[c]]
  BY <1>1 DEF InvOnce, TypedOnce
<1> DEFINE b == tx[c]
           l == send_len[c]
<1>4. /\ b \in Seq(Nat) /\ l \in 0 .. reponse_size /\ got[c] \o b = First(l)
      /\ close_conn(c, b) /\ send_len' = [send_len EXCEPT ![c] = l]
      /\ peer[c] = "open" => l = reponse_size
  BY <1>2, <1>3
<1> HIDE DEF b, l
<1> QED
  BY <1>4, ClosedOnce

\* A send that takes n bytes.
LEMMA Taken ==
    ASSUME InvOnce, NEW c \in Clients, c \notin closed, NEW n \in Nat
    PROVE  /\ tx[c] \o Following(c, n) \in Seq(Nat)
           /\ got[c] \o (tx[c] \o Following(c, n)) = First(send_len[c] + n)
<1> DEFINE g == got[c]
           q == tx[c]
           h == Following(c, n)
           m == send_len[c]
           s == g \o q
<1>1. g \in Seq(Nat) /\ q \in Seq(Nat) /\ s \in Seq(Nat) /\ m \in Nat /\ s = First(m)
  BY FactsOnce DEF InvOnce, Served, Stream
<1>2. h = [k \in 1 .. n |-> m + k]
  BY DEF Following
<1> HIDE DEF g, q, h, m
<1>3. h \in [1 .. n -> Nat] /\ (\A k \in 1 .. n : h[k] = m + k) /\ h \in Seq(Nat)
  BY <1>1, <1>2
<1>4. q \o h \in Seq(Nat)
  BY <1>1, <1>3, ConcatProperties
<1>5. s \o h = First(m + n)
  <2> HIDE DEF s
  <2> QED
    BY <1>1, <1>3, ExtendFirst
<1>6. s \o h = g \o (q \o h)
  BY <1>1, <1>3, Regroup
<1> QED
  BY <1>4, <1>5, <1>6 DEF g, q, h, m

LEMMA SentData ==
    ASSUME InvOnce, NEW c \in conns, NEW n \in 1 .. Asked(c),
           tx' = [tx EXCEPT ![c] = tx[c] \o Following(c, n)],
           send_len' = [send_len EXCEPT ![c] = @ + n],
           UNCHANGED <<peer, sent, recvd, got, conns, closed>>
    PROVE  /\ ServedInv'
           /\ tx' \in [Clients -> Seq(Nat)] /\ send_len' \in [Clients -> 0 .. reponse_size]
<1>1. c \in Clients /\ c \notin closed
  BY DEF InvOnce, TypedOnce, PhaseInv, Phase
<1>2. send_len[c] + n \in 0 .. reponse_size /\ send_len[c] + n \in Nat /\ n \in Nat
  BY <1>1, FactsOnce, OneShotAssumption DEF InvOnce, Asked
<1>3. /\ tx[c] \o Following(c, n) \in Seq(Nat)
      /\ got[c] \o (tx[c] \o Following(c, n)) = First(send_len[c] + n)
  BY <1>1, <1>2, Taken
<1>4. /\ tx'[c] = tx[c] \o Following(c, n) /\ send_len'[c] = send_len[c] + n
      /\ \A d \in Clients \ {c} : tx'[d] = tx[d] /\ send_len'[d] = send_len[d]
  BY <1>1 DEF InvOnce, TypedOnce
<1>5. Stream(c)' = First(send_len[c] + n)
  BY <1>3, <1>4 DEF Stream
<1>6. Len(Stream(c)') = send_len[c] + n
  <2>1. \A m \in Nat : Len(First(m)) = m
    BY DEF First
  <2> QED
    BY <1>2, <1>5, <2>1
<1>7. Served(c)'
  BY <1>1, <1>4, <1>5, <1>6, FactsOnce DEF InvOnce, Served
<1>8. ServedInv'
  BY <1>1, <1>4, <1>7, ServedFrame DEF InvOnce
<1> QED
  BY <1>1, <1>2, <1>3, <1>8 DEF InvOnce, TypedOnce

------------------------------------------------------------------------------
(* The steps of OneShotServer.                                             *)

\* A handler of c is under way.
LEMMA UnderWayOnce ==
    ASSUME InvOnce, loop \in CallsOnce, NEW c, cur.h = c
    PROVE  /\ c \in conns /\ c \in Clients /\ c \notin closed
           /\ \A e \in batch : e.h # c
BY DEF InvOnce, LoopOnce, TypedOnce, PhaseInv, Phase

LEMMA EpollWaitOnceStep == ASSUME InvOnce, EpollWaitOnce PROVE InvOnce'
<1>1. /\ batch' = ReadyOnce /\ loop' \in {"wait", "dispatch"}
      /\ UNCHANGED <<peerVars, conns, closed, send_len, cur>>
  BY DEF EpollWaitOnce
<1>2. UNCHANGED <<peer, sent, recvd, tx, got, backlog, interest>>
  BY <1>1 DEF peerVars
<1>3. TypedOnce' /\ PhaseInv' /\ ServedInv'
  BY <1>1, <1>2, ServedSame DEF InvOnce, TypedOnce, PhaseInv, Phase
<1>4. BatchOnce'
  <2>1. ASSUME NEW e \in batch'
        PROVE  \/ e = [h |-> Acceptor, ev |-> {"IN"}]
               \/ \E c \in Clients : e = [h |-> c, ev |-> Events(c)] /\ Events(c) # {}
    BY <1>1, <2>1 DEF ReadyOnce, Polled
  <2>2. ASSUME NEW c \in Clients, Events(c) # {}
        PROVE  c \in conns /\ ("ERR" \in Events(c) => peer[c] = "reset")
    <3>1. interest[c] # {} /\ interest[c] \in SUBSET {"IN", "OUT"}
      BY <2>2 DEF Events, InvOnce, TypedOnce
    <3>2. c \in conns
      BY <3>1 DEF InvOnce, PhaseInv, Phase
    <3>3. "ERR" \notin interest[c]
      BY <3>1
    <3>4. "ERR" \in Events(c) => peer[c] = "reset"
      BY <3>1, <3>3 DEF Events
    <3> QED
      BY <3>2, <3>4
  <2>3. ASSUME NEW e \in batch'
        PROVE  /\ e.h \in conns' \/ e.h = Acceptor
               /\ "ERR" \in e.ev => e.h \in conns' /\ peer'[e.h] = "reset"
    <3>1. CASE e = [h |-> Acceptor, ev |-> {"IN"}]
      BY <3>1
    <3>2. ASSUME NEW c \in Clients, e = [h |-> c, ev |-> Events(c)], Events(c) # {}
          PROVE  /\ e.h \in conns' \/ e.h = Acceptor
                 /\ "ERR" \in e.ev => e.h \in conns' /\ peer'[e.h] = "reset"
      <4>1. e.h = c /\ e.ev = Events(c)
        BY <3>2
      <4> QED
        BY <1>1, <1>2, <2>2, <3>2, <4>1
    <3> QED
      BY <2>1, <3>1, <3>2
  <2>4. ASSUME NEW e \in batch', NEW g \in batch', e.h = g.h PROVE e = g
    BY <2>1, <2>4, AcceptorAssumption
  <2> QED
    BY <2>3, <2>4 DEF BatchOnce
<1>5. LoopOnce'
  BY <1>1 DEF LoopOnce, CallsOnce
<1> QED
  BY <1>3, <1>4, <1>5 DEF InvOnce

LEMMA DispatchOnceStep == ASSUME InvOnce, DispatchOnce PROVE InvOnce'
<1>1. /\ UNCHANGED <<peer, sent, recvd, got, backlog, send_len>>
      /\ loop = "dispatch"
  BY DEF DispatchOnce
<1>2. PICK e \in batch :
        /\ batch' = batch \ {e}
        /\ \/ /\ "ERR" \in e.ev
              /\ close_conn(e.h, tx[e.h])
           \/ /\ "ERR" \notin e.ev
              /\ loop' = IF e.h = Acceptor THEN "accept"
                         ELSE IF "OUT" \in e.ev THEN "send" ELSE "recv"
              /\ cur' = e
              /\ UNCHANGED <<conns, closed, interest, tx>>
  BY DEF DispatchOnce
<1>3. \A g \in batch' : g \in batch /\ g.h # e.h
  BY <1>2 DEF InvOnce, BatchOnce
<1>4. CASE "ERR" \in e.ev /\ close_conn(e.h, tx[e.h])
  <2>1. e.h \in conns /\ peer[e.h] = "reset"
    BY <1>4 DEF InvOnce, BatchOnce
  <2> QED
    BY <1>1, <1>3, <1>4, <2>1, ClosedAsIs
<1>5. CASE /\ loop' = IF e.h = Acceptor THEN "accept"
                      ELSE IF "OUT" \in e.ev THEN "send" ELSE "recv"
           /\ cur' = e
           /\ UNCHANGED <<conns, closed, interest, tx>>
  <2>1. TypedOnce' /\ PhaseInv' /\ ServedInv'
    BY <1>1, <1>5, ServedSame DEF InvOnce, TypedOnce, PhaseInv, Phase
  <2>2. BatchOnce'
    BY <1>1, <1>3, <1>5 DEF InvOnce, BatchOnce
  <2>3. LoopOnce'
    <3>1. CASE e.h = Acceptor
      BY <1>5, <3>1 DEF LoopOnce, CallsOnce
    <3>2. CASE e.h # Acceptor
      <4>1. e.h \in conns
        BY <3>2 DEF InvOnce, BatchOnce
      <4> QED
        BY <1>3, <1>5, <3>2, <4>1 DEF LoopOnce, CallsOnce
    <3> QED
      BY <3>1, <3>2
  <2> QED
    BY <2>1, <2>2, <2>3 DEF InvOnce
<1> QED
  BY <1>2, <1>4, <1>5

LEMMA AcceptOnceStep == ASSUME InvOnce, AcceptOnce PROVE InvOnce'
<1>1. UNCHANGED <<peer, sent, recvd, tx, got, closed, batch>>
  BY DEF AcceptOnce
<1>2. PICK c \in backlog :
        /\ backlog' = backlog \ {c}
        /\ interest' = [interest EXCEPT ![c] = FirstInterest]
        /\ conns' = conns \cup {c}
        /\ send_len' = [send_len EXCEPT ![c] = 0]
        /\ loop' = "construct"
        /\ cur' = [h |-> c, ev |-> {}]
  BY DEF AcceptOnce
<1>3. /\ c \in Clients /\ c \notin conns /\ c \notin closed /\ peer[c] # "idle"
      /\ send_len[c] = 0
  BY DEF InvOnce, TypedOnce, PhaseInv, Phase, ServedInv, Served
<1>4. send_len' = send_len
  BY <1>2, <1>3 DEF InvOnce, TypedOnce
<1>5. FirstInterest \in SUBSET {"IN", "OUT"}
  BY DEF FirstInterest
<1>6. TypedOnce'
  BY <1>1, <1>2, <1>3, <1>4, <1>5 DEF InvOnce, TypedOnce
<1>7. PhaseInv'
  <2>1. Phase(c)'
    BY <1>1, <1>2, <1>3 DEF Phase
  <2>2. \A d \in Clients \ {c} : interest'[d] = interest[d]
    BY <1>2 DEF InvOnce, TypedOnce
  <2> QED
    BY <1>1, <1>2, <1>3, <2>1, <2>2, PhaseFrame DEF InvOnce
<1>8. ServedInv'
  <2>1. Served(c)'
    BY <1>1, <1>2, <1>3, <1>4 DEF InvOnce, ServedInv, Served, Stream
  <2> QED
    BY <1>1, <1>2, <1>3, <1>4, <2>1, ServedFrame DEF InvOnce
<1>9. BatchOnce'
  BY <1>1, <1>2 DEF InvOnce, BatchOnce
<1>10. LoopOnce'
  <2>1. \A e \in batch : e.h # c
    BY <1>3, Apart DEF InvOnce, BatchOnce
  <2> QED
    BY <1>1, <1>2, <2>1 DEF LoopOnce, CallsOnce
<1> QED
  BY <1>6, <1>7, <1>8, <1>9, <1>10 DEF InvOnce

LEMMA AcceptFailsOnceStep == ASSUME InvOnce, AcceptFailsOnce PROVE InvOnce'
<1>1. /\ UNCHANGED <<peerVars, conns, closed, send_len, batch>>
      /\ Return
  BY DEF AcceptFailsOnce
<1>2. UNCHANGED <<peer, sent, recvd, tx, got, backlog, interest>>
  BY <1>1 DEF peerVars
<1>3. TypedOnce' /\ PhaseInv' /\ ServedInv'
  BY <1>1, <1>2, ServedSame DEF InvOnce, TypedOnce, PhaseInv, Phase
<1> QED
  BY <1>1, <1>2, <1>3, BatchSame, ReturnedOnce DEF InvOnce

LEMMA SendStep == ASSUME InvOnce, NEW c \in Clients, Send(c) PROVE InvOnce'
<1>1. /\ loop \in {"construct", "send"} /\ cur.h = c
      /\ send_len[c] < reponse_size /\ Room(c) > 0
      /\ UNCHANGED <<peer, sent, recvd, got, backlog, batch>>
  BY DEF Send, Sending
<1>2. PICK n \in 1 .. Min({Room(c), Asked(c)}) :
        LET buffered == tx[c] \o Following(c, n)
        IN  /\ send_len' = [send_len EXCEPT ![c] = @ + n]
            /\ \/ /\ send_len[c] + n # reponse_size
                  /\ tx' = [tx EXCEPT ![c] = buffered]
                  /\ UNCHANGED <<interest, enable_epollout>>
                  /\ IF SendLoops THEN UNCHANGED <<conns, closed, loop, cur>>
                     ELSE SendReturns0
               \/ /\ send_len[c] + n = reponse_size
                  /\ SentAll(c, buffered)
  BY DEF Send
<1>3. /\ c \in conns /\ c \notin closed /\ \A e \in batch : e.h # c
  BY <1>1, UnderWayOnce DEF CallsOnce
<1>4. n \in 1 .. Asked(c)
  <2> DEFINE a == Room(c)
             b == Asked(c)
  <2>1. Len(tx[c]) \in Nat /\ TxCap[c] \in Nat
    BY PeersAssumption, LenProperties DEF InvOnce, TypedOnce
  <2>2. a \in Int
    BY <2>1 DEF Room
  <2>3. b \in Int
    BY FactsOnce, OneShotAssumption DEF InvOnce, Asked
  <2>4. n \in 1 .. Min({a, b})
    OBVIOUS
  <2> HIDE DEF a, b
  <2>5. Min({a, b}) \in Int /\ Min({a, b}) <= b
    BY <2>2, <2>3, Smaller
  <2>6. n \in 1 .. b
    BY <2>3, <2>4, <2>5
  <2> QED
    BY <2>6 DEF b
<1>5. send_len[c] + n \in 0 .. reponse_size /\ n \in Nat
  BY <1>4, FactsOnce, OneShotAssumption DEF InvOnce, Asked
<1> DEFINE buffered == tx[c] \o Following(c, n)
<1>6. send_len' = [send_len EXCEPT ![c] = @ + n]
  BY <1>2
<1>7. /\ buffered \in Seq(Nat) /\ got[c] \o buffered = First(send_len[c] + n)
  BY <1>3, <1>5, Taken
<1>8. ASSUME tx' = [tx EXCEPT ![c] = buffered], UNCHANGED <<conns, closed>>, LoopOnce',
             NEW flag \in BOOLEAN, set_epollout(c, flag) \/ UNCHANGED interest
      PROVE  InvOnce'
  <2>1. /\ ServedInv' /\ tx' \in [Clients -> Seq(Nat)]
        /\ send_len' \in [Clients -> 0 .. reponse_size]
    BY <1>1, <1>3, <1>4, <1>6, <1>8, SentData
  <2>2. PhaseInv' /\ interest' \in [Clients -> SUBSET {"IN", "OUT"}]
    BY <1>1, <1>3, <1>8, PhaseSame DEF InvOnce
  <2>3. TypedOnce'
    BY <1>1, <1>8, <2>1, <2>2 DEF InvOnce, TypedOnce
  <2> QED
    BY <1>1, <1>8, <2>1, <2>2, <2>3, BatchSame DEF InvOnce
<1>9. CASE /\ tx' = [tx EXCEPT ![c] = buffered]
           /\ UNCHANGED <<interest, enable_epollout>>
           /\ IF SendLoops THEN UNCHANGED <<conns, closed, loop, cur>> ELSE SendReturns0
  <2>1. LoopOnce' /\ UNCHANGED <<conns, closed>>
    <3>1. CASE UNCHANGED <<conns, closed, loop, cur>>
      BY <1>1, <3>1 DEF InvOnce, LoopOnce
    <3>2. CASE SendReturns0
      BY <1>1, <3>2, SendReturned0 DEF InvOnce
    <3> QED
      BY <1>9, <3>1, <3>2
  <2> QED
    BY <1>8, <1>9, <2>1
<1>10. CASE send_len[c] + n = reponse_size /\ SentAll(c, buffered)
  <2>1. CASE /\ loop = "construct"
             /\ tx' = [tx EXCEPT ![c] = buffered]
             /\ IF enable_epollout[c] THEN set_epollout(c, FALSE)
                ELSE UNCHANGED <<interest, enable_epollout>>
             /\ ConstructorReturns
    <3>1. LoopOnce' /\ UNCHANGED <<conns, closed>>
      BY <2>1, ConstructorReturned
    <3>2. set_epollout(c, FALSE) \/ UNCHANGED interest
      BY <2>1
    <3> HIDE DEF buffered
    <3> QED
      BY <1>8, <2>1, <3>1, <3>2
  <2>2. CASE close_conn(c, buffered)
    <3> DEFINE l == send_len[c] + n
    <3>1. /\ l \in 0 .. reponse_size /\ l = reponse_size
          /\ send_len' = [send_len EXCEPT ![c] = l]
          /\ got[c] \o buffered = First(l)
      BY <1>5, <1>6, <1>7, <1>10
    <3> HIDE DEF buffered, l
    <3> QED
      BY <1>1, <1>3, <1>7, <2>2, <3>1, ClosedOnce
  <2> QED
    BY <1>10, <2>1, <2>2 DEF SentAll
<1> QED
  BY <1>2, <1>9, <1>10

LEMMA SendFullOnceStep == ASSUME InvOnce, NEW c \in Clients, SendFullOnce(c) PROVE InvOnce'
<1>1. /\ loop \in {"construct", "send"} /\ cur.h = c
      /\ UNCHANGED <<peer, sent, recvd, tx, got, backlog, send_len, batch>>
      /\ SendReturns0
  BY DEF SendFullOnce, Sending
<1>2. set_epollout(c, TRUE) \/ UNCHANGED interest
  BY DEF SendFullOnce
<1>3. c \in conns
  BY <1>1, UnderWayOnce DEF CallsOnce
<1>4. LoopOnce' /\ UNCHANGED <<conns, closed>>
  BY <1>1, SendReturned0 DEF InvOnce
<1>5. PhaseInv' /\ interest' \in [Clients -> SUBSET {"IN", "OUT"}]
  BY <1>1, <1>2, <1>3, <1>4, PhaseSame DEF InvOnce
<1>6. TypedOnce' /\ ServedInv'
  BY <1>1, <1>4, <1>5, ServedSame DEF InvOnce, TypedOnce
<1> QED
  BY <1>1, <1>4, <1>5, <1>6, BatchSame DEF InvOnce

LEMMA SendFailsOnceStep == ASSUME InvOnce, NEW c \in Clients, SendFailsOnce(c) PROVE InvOnce'
<1>1. /\ loop \in {"construct", "send"} /\ cur.h = c /\ peer[c] = "reset"
      /\ UNCHANGED <<peer, sent, recvd, got, backlog, send_len, batch>>
  BY DEF SendFailsOnce, Sending
<1>2. c \in conns /\ \A e \in batch : e.h # c
  BY <1>1, UnderWayOnce DEF CallsOnce
<1>3. CASE UNCHANGED <<tx, interest>> /\ ConstructorReturns
  <2>1. LoopOnce' /\ UNCHANGED <<conns, closed>>
    BY <1>3, ConstructorReturned
  <2>2. TypedOnce' /\ PhaseInv' /\ ServedInv'
    BY <1>1, <1>3, <2>1, ServedSame DEF InvOnce, TypedOnce, PhaseInv, Phase
  <2> QED
    BY <1>1, <2>1, <2>2, BatchSame DEF InvOnce
<1>4. CASE close_conn(c, tx[c])
  BY <1>1, <1>2, <1>4, ClosedAsIs
<1> QED
  BY <1>3, <1>4 DEF SendFailsOnce

LEMMA SendNothingOnceStep == ASSUME InvOnce, NEW c \in Clients, SendNothingOnce(c) PROVE InvOnce'
<1>1. /\ loop = "send" /\ cur.h = c /\ send_len[c] = reponse_size
      /\ UNCHANGED <<peer, sent, recvd, got, backlog, send_len, batch>>
      /\ close_conn(c, tx[c])
  BY DEF SendNothingOnce
<1>2. c \in conns /\ \A e \in batch : e.h # c
  BY <1>1, UnderWayOnce DEF CallsOnce
<1> QED
  BY <1>1, <1>2, ClosedAsIs

LEMMA RecvOnceStep == ASSUME InvOnce, NEW c \in Clients, RecvOnce(c) PROVE InvOnce'
<1>1. /\ loop = "recv" /\ cur.h = c
      /\ UNCHANGED <<peer, sent, got, backlog, send_len, batch>>
  BY DEF RecvOnce
<1>2. c \in conns /\ c \notin closed /\ \A e \in batch : e.h # c
  BY <1>1, UnderWayOnce DEF CallsOnce
<1>3. CASE /\ recvd' = [recvd EXCEPT ![c] = sent[c]]
           /\ UNCHANGED <<tx, interest, conns, closed, loop, cur>>
  <2>1. sent[c] \in Nat /\ recvd'[c] = sent[c] /\ \A d \in Clients \ {c} : recvd'[d] = recvd[d]
    BY <1>3 DEF InvOnce, TypedOnce
  <2>2. TypedOnce' /\ PhaseInv' /\ LoopOnce'
    BY <1>1, <1>3, <2>1 DEF InvOnce, TypedOnce, PhaseInv, Phase, LoopOnce
  <2>3. Served(c)'
    <3>1. Stream(c)' = Stream(c)
      BY <1>1, <1>3 DEF Stream
    <3>2. recvd'[c] <= sent'[c]
      BY <1>1, <2>1
    <3> QED
      BY <1>1, <1>3, <3>1, <3>2 DEF InvOnce, ServedInv, Served
  <2>4. ServedInv'
    BY <1>1, <1>3, <2>1, <2>3, ServedFrame DEF InvOnce
  <2> QED
    BY <1>1, <1>3, <2>2, <2>4, BatchSame DEF InvOnce
<1>4. CASE /\ UNCHANGED <<tx, recvd, interest, conns, closed>>
           /\ Return
  <2>1. TypedOnce' /\ PhaseInv' /\ ServedInv'
    BY <1>1, <1>4, ServedSame DEF InvOnce, TypedOnce, PhaseInv, Phase
  <2> QED
    BY <1>1, <1>4, <2>1, BatchSame, ReturnedOnce DEF InvOnce
<1>5. CASE /\ peer[c] = "reset" \/ (Unread(c) = 0 /\ peer[c] = "eof")
           /\ UNCHANGED recvd
           /\ close_conn(c, tx[c])
  BY <1>1, <1>2, <1>5, ClosedAsIs
<1> QED
  BY <1>3, <1>4, <1>5 DEF RecvOnce

LEMMA ClientOnceStep == ASSUME InvOnce, NEW c \in Clients, ClientOnce(c) PROVE InvOnce'
<1>1. /\ UNCHANGED <<conns, closed, send_len, loop, batch, cur>>
      /\ c \in closed => UNCHANGED sent
  BY DEF ClientOnce, Wakes, serverVarsOnce
<1>2. LoopOnce'
  BY <1>1 DEF InvOnce, LoopOnce
<1>3. ASSUME UNCHANGED <<sent, recvd, tx, got, interest>>,
             NEW p \in {"open", "eof", "reset"}, peer' = [peer EXCEPT ![c] = p],
             p = "open" => c \notin closed, peer[c] = "reset" => p = "reset",
             backlog' = backlog \/ (backlog' = backlog \cup {c} /\ peer[c] = "idle"),
             peer[c] = "idle" => backlog' = backlog \cup {c}
      PROVE  InvOnce'
  <2>1. /\ peer'[c] = p /\ \A d \in Clients \ {c} : peer'[d] = peer[d]
        /\ peer' \in [Clients -> {"idle", "open", "eof", "reset"}]
    BY <1>3 DEF InvOnce, TypedOnce
  <2>2. TypedOnce'
    BY <1>1, <1>3, <2>1 DEF InvOnce, TypedOnce
  <2>3. Phase(c)'
    BY <1>1, <1>3, <2>1 DEF InvOnce, PhaseInv, Phase
  <2>4. PhaseInv'
    BY <1>1, <1>3, <2>1, <2>3, PhaseFrame DEF InvOnce
  <2>5. Served(c)'
    BY <1>1, <1>3, <2>1 DEF InvOnce, ServedInv, Served, Stream
  <2>6. ServedInv'
    BY <1>1, <1>3, <2>1, <2>5, ServedFrame DEF InvOnce
  <2>7. BatchOnce'
    <3>1. \A d \in conns : peer[d] = "reset" => peer'[d] = "reset"
      BY <1>3, <2>1 DEF InvOnce, TypedOnce
    <3> QED
      BY <1>1, <3>1 DEF InvOnce, BatchOnce
  <2> QED
    BY <1>2, <2>2, <2>4, <2>6, <2>7 DEF InvOnce
<1>4. CASE Connect(c)
  <2>1. c \notin closed
    BY <1>4 DEF Connect, InvOnce, PhaseInv, Phase
  <2> QED
    BY <1>3, <1>4, <2>1 DEF Connect
<1>5. CASE ClientShutdown(c)
  BY <1>3, <1>5 DEF ClientShutdown
<1>6. CASE ClientReset(c)
  BY <1>3, <1>6 DEF ClientReset
<1>7. CASE ClientSend(c)
  <2>1. /\ sent' = [sent EXCEPT ![c] = @ + 1]
        /\ UNCHANGED <<peer, recvd, tx, got, backlog, interest>>
    BY <1>7 DEF ClientSend
  <2>2. /\ sent[c] \in Nat /\ recvd[c] \in Nat /\ recvd[c] <= sent[c]
        /\ sent'[c] = sent[c] + 1 /\ \A d \in Clients \ {c} : sent'[d] = sent[d]
        /\ sent' \in [Clients -> Nat]
    BY <2>1, FactsOnce DEF InvOnce, TypedOnce
  <2>3. c \notin closed
    BY <1>1, <2>2
  <2>4. TypedOnce' /\ PhaseInv'
    BY <1>1, <2>1, <2>2 DEF InvOnce, TypedOnce, PhaseInv, Phase
  <2>5. Served(c)'
    <3>1. Stream(c)' = Stream(c)
      BY <2>1 DEF Stream
    <3>2. recvd'[c] <= sent'[c]
      BY <2>1, <2>2
    <3> QED
      BY <1>1, <2>1, <2>3, <3>1, <3>2 DEF InvOnce, ServedInv, Served
  <2>6. ServedInv'
    BY <1>1, <2>1, <2>2, <2>5, ServedFrame DEF InvOnce
  <2> QED
    BY <1>1, <1>2, <2>1, <2>4, <2>6, BatchSame DEF InvOnce
<1>8. CASE ClientRead(c)
  <2>1. /\ tx[c] # <<>>
        /\ got' = [got EXCEPT ![c] = Append(@, Head(tx[c]))]
        /\ tx' = [tx EXCEPT ![c] = Tail(@)]
        /\ UNCHANGED <<peer, sent, recvd, backlog, interest>>
    BY <1>8 DEF ClientRead
  <2> DEFINE g == got[c]
             q == tx[c]
  <2>2. g \in Seq(Nat) /\ q \in Seq(Nat) /\ q # <<>>
    BY <2>1 DEF InvOnce, TypedOnce
  <2>3. /\ Append(g, Head(q)) \in Seq(Nat) /\ Tail(q) \in Seq(Nat)
        /\ Append(g, Head(q)) \o Tail(q) = g \o q
    <3> HIDE DEF g, q
    <3> QED
      BY <2>2, Move
  <2>4. /\ got'[c] = Append(g, Head(q)) /\ tx'[c] = Tail(q)
        /\ \A d \in Clients \ {c} : tx'[d] = tx[d] /\ got'[d] = got[d]
    BY <2>1 DEF InvOnce, TypedOnce
  <2>5. Stream(c)' = Stream(c)
    BY <2>3, <2>4 DEF Stream
  <2>6. TypedOnce' /\ PhaseInv'
    BY <1>1, <2>1, <2>3 DEF InvOnce, TypedOnce, PhaseInv, Phase
  <2>7. Served(c)'
    BY <1>1, <2>1, <2>5 DEF InvOnce, ServedInv, Served
  <2>8. ServedInv'
    BY <1>1, <2>1, <2>4, <2>7, ServedFrame DEF InvOnce
  <2> QED
    BY <1>1, <1>2, <2>1, <2>6, <2>8, BatchSame DEF InvOnce
<1> QED
  BY <1>4, <1>5, <1>6, <1>7, <1>8 DEF ClientOnce

LEMMA InitOnceInv == InitOnce => InvOnce
<1> SUFFICES ASSUME InitOnce PROVE InvOnce
  OBVIOUS
<1> USE DEF InitOnce, PeersInit
<1>1. TypedOnce /\ PhaseInv
  <2>1. <<>> \in Seq(Nat) /\ 0 \in 0 .. reponse_size
    BY OneShotAssumption
  <2> QED
    BY <2>1 DEF TypedOnce, PhaseInv, Phase
<1>2. ServedInv
  <2> SUFFICES ASSUME NEW c \in Clients PROVE Served(c)
    BY DEF ServedInv
  <2>1. Stream(c) = <<>> /\ Len(Stream(c)) = 0
    <3>1. got[c] = <<>> /\ tx[c] = <<>>
      OBVIOUS
    <3>2. Stream(c) = <<>>
      BY <3>1, ConcatEmptySeq, EmptySeq DEF Stream
    <3> QED
      BY <3>2
  <2>2. First(0) = <<>>
    BY DEF First
  <2> QED
    BY <2>1, <2>2 DEF Served
<1>3. BatchOnce /\ LoopOnce
  BY DEF BatchOnce, LoopOnce, CallsOnce
<1> QED
  BY <1>1, <1>2, <1>3 DEF InvOnce

LEMMA NextOnceInv == InvOnce /\ [NextOnce]_varsOnce => InvOnce'
<1> SUFFICES ASSUME InvOnce, [NextOnce]_varsOnce PROVE InvOnce'
  OBVIOUS
<1>1. CASE UNCHANGED varsOnce
  <2>1. /\ UNCHANGED <<peer, sent, recvd, tx, got, backlog, interest>>
        /\ UNCHANGED <<conns, closed, send_len, loop, batch, cur>>
    BY <1>1 DEF varsOnce, peerVars, serverVarsOnce
  <2>2. TypedOnce' /\ PhaseInv' /\ ServedInv' /\ LoopOnce'
    BY <2>1, ServedSame DEF InvOnce, TypedOnce, PhaseInv, Phase, LoopOnce
  <2> QED
    BY <2>1, <2>2, BatchSame DEF InvOnce
<1>2. CASE EpollWaitOnce
  BY <1>2, EpollWaitOnceStep
<1>3. CASE DispatchOnce
  BY <1>3, DispatchOnceStep
<1>4. CASE AcceptOnce
  BY <1>4, AcceptOnceStep
<1>5. CASE AcceptFailsOnce
  BY <1>5, AcceptFailsOnceStep
<1>6. ASSUME NEW c \in Clients, Send(c) PROVE InvOnce'
  BY <1>6, SendStep
<1>7. ASSUME NEW c \in Clients, SendFullOnce(c) PROVE InvOnce'
  BY <1>7, SendFullOnceStep
<1>8. ASSUME NEW c \in Clients, SendFailsOnce(c) PROVE InvOnce'
  BY <1>8, SendFailsOnceStep
<1>9. ASSUME NEW c \in Clients, SendNothingOnce(c) PROVE InvOnce'
  BY <1>9, SendNothingOnceStep
<1>10. ASSUME NEW c \in Clients, RecvOnce(c) PROVE InvOnce'
  BY <1>10, RecvOnceStep
<1>11. ASSUME NEW c \in Clients, ClientOnce(c) PROVE InvOnce'
  BY <1>11, ClientOnceStep
<1> QED
  BY <1>1, <1>2, <1>3, <1>4, <1>5, <1>6, <1>7, <1>8, <1>9, <1>10, <1>11 DEF NextOnce, ServerOnce

\* The invariant of OneShotServer holds in every reachable state.
THEOREM InductiveOnce == SpecOnce => []InvOnce
<1>1. InitOnce => InvOnce
  BY InitOnceInv
<1>2. InvOnce /\ [NextOnce]_varsOnce => InvOnce'
  BY NextOnceInv
<1> QED
  BY <1>1, <1>2, PTL DEF SpecOnce

\* Wherever each send of server_epollout.cpp, server_epollout_simple.cpp and
\* server_epoll_et.cpp stops, whatever the sizes of the response and of the
\* sockets' buffers, a client is sent the response from its first byte on; the
\* server closes on a client that keeps its side open only when send has taken
\* all of it, and all of it reaches a client that never sends.
THEOREM WholeResponse == SpecOnce => []ResponseExact
<1>1. InvOnce => ResponseExact
  BY DEF InvOnce, ServedInv, Served, First, Stream, ResponseExact
<1> QED
  BY <1>1, InductiveOnce, PTL
=============================================================================
