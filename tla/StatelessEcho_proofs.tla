------------------------ MODULE StatelessEcho_proofs ------------------------
(***************************************************************************)
(* The safety of StatelessEcho, for every number of clients, every size of *)
(* the server's buffer, of the sockets' buffers and of the table of the    *)
(* poll server.  The invariant says of each connection that its stream     *)
(* rises and stays below what was taken and is not held (StreamInv), and   *)
(* of the poll server's table that it has no more than max_fds slots, that *)
(* they are those of the open connections, one each, and that the one      *)
(* being handled has no event left (SlotInv), which rests on descriptors   *)
(* that differ (SocketInv).  A server that overruns its table has left     *)
(* what the model says of it: the theorems end there.                      *)
(***************************************************************************)
EXTENDS StatelessEcho, SequenceTheorems, FiniteSetTheorems, TLAPS

Slots == [fd : Int, revents : SUBSET {"IN", "ERR"}]

Typed ==
    /\ program \in Programs
    /\ peer \in [Clients -> {"idle", "open", "eof", "reset"}]
    /\ sent \in [Clients -> Nat] /\ recvd \in [Clients -> Nat]
    /\ tx \in [Clients -> Seq(Nat)] /\ got \in [Clients -> Seq(Nat)]
    /\ backlog \subseteq Clients /\ conns \subseteq Clients /\ refused \subseteq Clients
    /\ interest \in [Clients -> SUBSET {"IN"}]
    /\ fd \in [Clients -> Int]
    /\ held \in Nat
    /\ pfds \in Seq(Slots)
    /\ handlers \in [0 .. fd_range - 1 -> Clients \cup {NULL}]
    /\ i \in Nat \ {0}

\* What was sent to c.
Stream(c) == got[c] \o tx[c]

\* How many bytes of c were given to a send.
Echoed(c) == recvd[c] - (IF cur = c THEN held ELSE 0)

\* Some of the numbers up to m, in order.
Rising(s, m) ==
    /\ \A n \in 1 .. Len(s) : s[n] <= m
    /\ \A n \in 1 .. Len(s) - 1 : s[n] < s[n + 1]

\* All the numbers up to m.
First(m) == [n \in 1 .. m |-> n]

Flows(c) ==
    /\ recvd[c] <= sent[c]
    /\ Len(tx[c]) <= TxCap[c]
    /\ Echoed(c) >= 0
    /\ Rising(Stream(c), Echoed(c))
    /\ c \notin short => Stream(c) = First(Echoed(c))

StreamInv == \A c \in Clients : Flows(c)

Calls == {"recv", "send"}

LoopInv ==
    /\ batch \subseteq Clients \cup {Listener}
    /\ loop \in Calls \cup {"wait", "dispatch", "walk", "accept", "overrun"}
    /\ loop # "send" => held = 0
    /\ loop \in Calls => cur \in Clients
    /\ loop \notin Calls => cur = Listener
    /\ program = "poll" => loop # "dispatch"
    /\ loop = "walk" => program = "poll"

\* The clients whose socket is open.
Open == conns \cup refused

SocketInv ==
    /\ conns \cap refused = {}
    /\ \A c \in Clients : peer[c] = "idle" => c \notin backlog
    /\ \A c \in Clients : peer[c] = "idle" \/ c \in backlog => c \notin Open
    /\ \A c \in Open : fd[c] \in Nat \ {0}
    /\ \A c, d \in Open : fd[c] = fd[d] => c = d

\* A slot is a hole, the listener's or a connection's, and has no twin.
Slot(s) ==
    /\ pfds[s].fd = -1 \/ pfds[s].fd = ListenFd \/ \E c \in conns : pfds[s].fd = fd[c]
    /\ pfds[s].revents # {} => pfds[s].fd # -1
    /\ \A t \in 1 .. Len(pfds) : pfds[t].fd = pfds[s].fd /\ pfds[s].fd # -1 => t = s

Handled(c) ==
    /\ fd[c] < fd_range /\ handlers[fd[c]] = c
    /\ \E s \in 1 .. Len(pfds) : pfds[s].fd = fd[c]

\* The connection under way has no event left in the table.
Taken ==
    /\ cur \in conns
    /\ \A s \in 1 .. Len(pfds) : pfds[s].fd = fd[cur] => pfds[s].revents = {}

SlotInv ==
    /\ Len(pfds) <= max_fds
    /\ \A s \in 1 .. Len(pfds) : Slot(s)
    /\ \A c \in conns : Handled(c)
    /\ loop \in Calls => Taken

TableInv == program = "poll" => SlotInv

Inv == Typed /\ StreamInv /\ LoopInv /\ SocketInv /\ TableInv

------------------------------------------------------------------------------
(* Numbers.                                                                *)

\* Min of two numbers.
LEMMA Smaller ==
    ASSUME NEW a \in Int, NEW b \in Int
    PROVE  Min({a, b}) \in {a, b} /\ Min({a, b}) <= a /\ Min({a, b}) <= b
<1>1. \E x \in {a, b} : \A y \in {a, b} : x =< y
  <2>1. CASE a <= b
    BY <2>1
  <2>2. CASE ~(a <= b)
    BY <2>2
  <2> QED
    BY <2>1, <2>2
<1>2. Min({a, b}) \in {a, b} /\ \A y \in {a, b} : Min({a, b}) =< y
  BY <1>1, Zenon DEF Min
<1> QED
  BY <1>2

\* A set of numbers that has a member has a least one.
LEMMA LeastNat ==
    ASSUME NEW T \in SUBSET Nat, T # {}
    PROVE  \E m \in T : \A k \in T : m <= k
<1>1. PICK m \in T : \A k \in T : <<k, m>> \notin OpToRel(<, Nat)
  BY WFMin, NatLessThanWellFounded, Zenon
<1>2. \A k \in T : ~ (k < m)
  BY <1>1, Zenon DEF OpToRel
<1> QED
  BY <1>2

\* Min chooses it.
LEMMA MinMember ==
    ASSUME NEW T \in SUBSET Nat, T # {}
    PROVE  Min(T) \in T
<1>1. \E m \in T : \A k \in T : m =< k
  BY LeastNat
<1> QED
  BY <1>1, Zenon DEF Min

\* There is a descriptor for every connection that waits, and accept4 gives
\* it one that no open socket has.
LEMMA Descriptor ==
    ASSUME Typed, SocketInv, backlog # {}
    PROVE  /\ FreeFd \in Nat \ {0}
           /\ \A d \in Open : fd[d] # FreeFd
<1> DEFINE N == Cardinality(Clients)
           T == {n \in 1 .. N : \A c \in conns \cup refused : fd[c] # n}
           S == {c \in Open : fd[c] \in 1 .. N}
           g == [c \in S |-> fd[c]]
<1>1. IsFiniteSet(Clients) /\ N \in Nat
  BY PeersAssumption, FS_CardinalityType
<1>2. PICK b \in Clients : b \notin S
  BY DEF Typed, SocketInv
<1>3. S \in SUBSET (Clients \ {b})
  BY <1>2 DEF Typed, Open
<1>4. IsFiniteSet(Clients \ {b}) /\ Cardinality(Clients \ {b}) = N - 1
  BY <1>1, <1>2, FS_RemoveElement
<1>5. IsFiniteSet(S) /\ Cardinality(S) <= N - 1
  BY <1>3, <1>4, FS_Subset
<1>6. T # {}
  <2>1. SUFFICES ASSUME T = {} PROVE FALSE
    OBVIOUS
  <2>2. \A n \in 1 .. N : \E c \in S : g[c] = n
    BY <2>1 DEF Open
  <2>3. g \in [S -> 1 .. N]
    OBVIOUS
  <2> HIDE DEF g, S, N
  <2>4. g \in Surjection(S, 1 .. N)
    BY <2>2, <2>3 DEF Surjection
  <2>5. Cardinality(1 .. N) <= Cardinality(S)
    BY <2>4, <1>5, FS_Surjection
  <2>6. Cardinality(1 .. N) = N
    <3>1. Cardinality(1 .. N) = IF 1 > N THEN 0 ELSE N - 1 + 1
      BY <1>1, FS_Interval
    <3> QED
      BY <1>1, <3>1
  <2>7. Cardinality(S) \in Nat
    BY <1>5, FS_CardinalityType
  <2> QED
    BY <1>1, <1>5, <2>5, <2>6, <2>7
<1>7. Min(T) \in T
  <2>1. T \in SUBSET Nat
    BY <1>1
  <2> HIDE DEF T
  <2> QED
    BY <1>6, <2>1, MinMember
<1>8. FreeFd = Min(T)
  BY DEF FreeFd
<1>9. FreeFd \in T
  BY <1>7, <1>8
<1> QED
  BY <1>1, <1>9 DEF Open

------------------------------------------------------------------------------
(* Streams.                                                                *)

\* The client reads the first byte under way: its stream stays what it is.
LEMMA Move ==
    ASSUME NEW g \in Seq(Nat), NEW q \in Seq(Nat), q # <<>>
    PROVE  /\ Append(g, Head(q)) \in Seq(Nat) /\ Tail(q) \in Seq(Nat)
           /\ Append(g, Head(q)) \o Tail(q) = g \o q
<1> DEFINE x == Head(q)
           t == Tail(q)
<1>1. x \in Nat /\ t \in Seq(Nat) /\ x = q[1] /\ Len(q) \in Nat \ {0}
      /\ Len(t) = Len(q) - 1 /\ \A n \in 1 .. Len(t) : t[n] = q[n + 1]
  BY HeadTailProperties, EmptySeq
<1>2. <<x>> \in Seq(Nat) /\ Len(<<x>>) = 1 /\ <<x>>[1] = x
  BY <1>1
<1> HIDE DEF x, t
<1>3. /\ <<x>> \o t \in Seq(Nat) /\ Len(<<x>> \o t) = Len(q)
      /\ \A n \in 1 .. Len(q) : (<<x>> \o t)[n] = IF n <= 1 THEN <<x>>[n] ELSE t[n - 1]
  <2> DEFINE y == <<x>>
  <2>1. y \in Seq(Nat) /\ Len(y) = 1
    BY <1>2
  <2> HIDE DEF y
  <2>2. /\ y \o t \in Seq(Nat) /\ Len(y \o t) = Len(y) + Len(t)
        /\ \A n \in 1 .. Len(y) + Len(t) : (y \o t)[n] = IF n <= Len(y) THEN y[n] ELSE t[n - Len(y)]
    BY <1>1, <2>1, ConcatProperties
  <2>3. Len(y) + Len(t) = Len(q)
    BY <1>1, <2>1
  <2>4. /\ y \o t \in Seq(Nat) /\ Len(y \o t) = Len(q)
        /\ \A n \in 1 .. Len(q) : (y \o t)[n] = IF n <= 1 THEN y[n] ELSE t[n - 1]
    BY <2>1, <2>2, <2>3
  <2> QED
    BY <2>4 DEF y
<1>4. \A n \in 1 .. Len(q) : (<<x>> \o t)[n] = q[n]
  <2> SUFFICES ASSUME NEW n \in 1 .. Len(q) PROVE (<<x>> \o t)[n] = q[n]
    OBVIOUS
  <2>1. CASE n = 1
    BY <1>1, <1>2, <1>3, <2>1
  <2>2. CASE n # 1
    <3>1. n - 1 \in 1 .. Len(t) /\ (n - 1) + 1 = n /\ ~(n <= 1)
      BY <1>1, <2>2
    <3>2. (<<x>> \o t)[n] = t[n - 1]
      BY <1>3, <3>1
    <3> QED
      BY <1>1, <3>1, <3>2
  <2> QED
    BY <2>1, <2>2
<1>5. <<x>> \o t = q
  <2> DEFINE u == <<x>> \o t
  <2>1. u \in Seq(Nat) /\ Len(u) = Len(q) /\ \A n \in 1 .. Len(u) : u[n] = q[n]
    BY <1>3, <1>4
  <2> HIDE DEF u
  <2>2. u = q
    BY <2>1, SeqEqual
  <2> QED
    BY <2>2 DEF u
<1>6. Append(g, x) = g \o <<x>> /\ Append(g, x) \in Seq(Nat)
  BY <1>1, AppendIsConcat, AppendProperties
<1>7. (g \o <<x>>) \o t = g \o (<<x>> \o t)
  BY <1>1, <1>2, ConcatAssociative
<1>8. Append(g, x) \in Seq(Nat) /\ t \in Seq(Nat) /\ Append(g, x) \o t = g \o q
  BY <1>1, <1>5, <1>6, <1>7
<1> QED
  BY <1>8 DEF x, t

\* What is read, under way and sent now.
LEMMA Regroup ==
    \A g, q, h \in Seq(Nat) : (g \o q) \o h = g \o (q \o h)
<1> DEFINE S == Nat
<1> HIDE DEF S
<1>1. \A g, q, h \in Seq(S) : (g \o q) \o h = g \o (q \o h)
  BY ConcatAssociative
<1> QED
  BY <1>1 DEF S

\* A bound of a stream can be raised.
LEMMA Higher ==
    ASSUME NEW s \in Seq(Nat), NEW a \in Int, NEW b \in Int, a <= b, Rising(s, a)
    PROVE  Rising(s, b)
<1>1. \A k \in 1 .. Len(s) : s[k] \in Nat /\ s[k] <= a
  BY DEF Rising
<1>2. \A k \in 1 .. Len(s) : s[k] <= b
  BY <1>1
<1> QED
  BY <1>2 DEF Rising

\* The next n bytes after m are sent.
LEMMA Extend ==
    ASSUME NEW s \in Seq(Nat), NEW m \in Nat, NEW n \in Nat, Rising(s, m),
           NEW h \in [1 .. n -> Nat], \A k \in 1 .. n : h[k] = m + k
    PROVE  /\ s \o h \in Seq(Nat) /\ Rising(s \o h, m + n)
           /\ s = First(m) => s \o h = First(m + n)
<1> DEFINE l == Len(s)
           r == s \o h
<1>1. h \in Seq(Nat) /\ Len(h) = n /\ l \in Nat
  OBVIOUS
<1>2. /\ r \in Seq(Nat) /\ Len(r) = l + n
      /\ \A k \in 1 .. l + n : r[k] = IF k <= l THEN s[k] ELSE h[k - l]
  <2>1. /\ s \o h \in Seq(Nat) /\ Len(s \o h) = Len(s) + Len(h)
        /\ \A k \in 1 .. Len(s) + Len(h) : (s \o h)[k] = IF k <= Len(s) THEN s[k] ELSE h[k - Len(s)]
    <3> HIDE DEF l, r
    <3> QED
      BY <1>1, ConcatProperties
  <2> QED
    BY <1>1, <2>1
<1> HIDE DEF r
<1>3. \A k \in 1 .. l : s[k] \in Nat /\ s[k] <= m /\ r[k] = s[k]
  BY <1>1, <1>2 DEF Rising
<1>4. \A k \in l + 1 .. l + n : r[k] = m + (k - l)
  <2> SUFFICES ASSUME NEW k \in l + 1 .. l + n PROVE r[k] = m + (k - l)
    OBVIOUS
  <2>1. k - l \in 1 .. n /\ k \in 1 .. l + n /\ ~(k <= l)
    BY <1>1
  <2> HIDE DEF l
  <2>2. r[k] = h[k - l]
    BY <1>2, <2>1
  <2> QED
    BY <2>1, <2>2
<1>5. \A k \in 1 .. l - 1 : s[k] < s[k + 1]
  BY DEF Rising
<1> HIDE DEF l
<1>6. \A k \in 1 .. l + n : r[k] <= m + n
  <2> SUFFICES ASSUME NEW k \in 1 .. l + n PROVE r[k] <= m + n
    OBVIOUS
  <2>1. CASE k <= l
    <3>1. k \in 1 .. l
      BY <1>1, <2>1
    <3> QED
      BY <1>3, <3>1
  <2>2. CASE ~(k <= l)
    <3>1. k \in l + 1 .. l + n
      BY <1>1, <2>2
    <3> QED
      BY <1>1, <1>4, <3>1
  <2> QED
    BY <2>1, <2>2
<1>7. \A k \in 1 .. (l + n) - 1 : r[k] < r[k + 1]
  <2> SUFFICES ASSUME NEW k \in 1 .. (l + n) - 1 PROVE r[k] < r[k + 1]
    OBVIOUS
  <2>1. CASE k < l
    <3>1. k \in 1 .. l /\ k + 1 \in 1 .. l /\ k \in 1 .. l - 1
      BY <1>1, <2>1
    <3> QED
      BY <1>3, <1>5, <3>1
  <2>2. CASE k = l
    <3>1. k \in 1 .. l /\ k + 1 \in l + 1 .. l + n /\ (k + 1) - l = 1
      BY <1>1, <2>2
    <3>2. r[k + 1] = m + 1 /\ r[k] <= m /\ r[k] \in Nat
      BY <1>3, <1>4, <3>1
    <3> QED
      BY <3>2
  <2>3. CASE k > l
    <3>1. k \in l + 1 .. l + n /\ k + 1 \in l + 1 .. l + n
      BY <1>1, <2>3
    <3>2. r[k] = m + (k - l) /\ r[k + 1] = m + ((k + 1) - l)
      BY <1>4, <3>1
    <3> QED
      BY <1>1, <3>2
  <2> QED
    BY <1>1, <2>1, <2>2, <2>3
<1>8. Rising(r, m + n)
  BY <1>2, <1>6, <1>7 DEF Rising
<1>9. ASSUME s = First(m) PROVE r = First(m + n)
  <2> DEFINE w == [k \in 1 .. m + n |-> k]
  <2>1. l = m /\ \A k \in 1 .. m : s[k] = k
    BY <1>9 DEF First, l
  <2>2. w \in Seq(Nat) /\ Len(w) = m + n /\ \A k \in 1 .. m + n : w[k] = k
    OBVIOUS
  <2>3. \A k \in 1 .. m + n : r[k] = k
    <3> SUFFICES ASSUME NEW k \in 1 .. m + n PROVE r[k] = k
      OBVIOUS
    <3>1. CASE k <= l
      <4>1. k \in 1 .. l /\ k \in 1 .. m
        BY <2>1, <3>1
      <4> QED
        BY <1>3, <2>1, <4>1
    <3>2. CASE ~(k <= l)
      <4>1. k \in l + 1 .. l + n
        BY <2>1, <3>2
      <4> QED
        BY <1>4, <2>1, <4>1
    <3> QED
      BY <3>1, <3>2
  <2> HIDE DEF w
  <2>4. r = w
    BY <1>2, <2>1, <2>2, <2>3, SeqEqual
  <2> QED
    BY <2>4 DEF First, w
<1> QED
  BY <1>2, <1>8, <1>9 DEF r

------------------------------------------------------------------------------
(* What the steps leave.                                                   *)

\* A stream of which nothing more was sent is still in order, and below what
\* was given to a send since.
LEMMA Frame ==
    ASSUME Typed, NEW c \in Clients, Flows(c),
           UNCHANGED <<tx[c], got[c], recvd[c]>>, sent'[c] \in Nat, sent[c] <= sent'[c],
           c \notin short' => c \notin short /\ Echoed(c)' = Echoed(c),
           Echoed(c)' \in Int, Echoed(c) <= Echoed(c)'
    PROVE  Flows(c)'
<1>1. Stream(c)' = Stream(c) /\ Stream(c) \in Seq(Nat)
  BY ConcatProperties DEF Stream, Typed
<1>2. Echoed(c) \in Int /\ Echoed(c) >= 0 /\ recvd[c] \in Nat /\ sent[c] \in Nat
      /\ recvd[c] <= sent[c]
  BY DEF Flows, Typed, Echoed
<1> DEFINE m == Echoed(c)
           n == Echoed(c)'
           s == Stream(c)
<1>3. Rising(s, m) /\ s \in Seq(Nat) /\ m \in Int /\ n \in Int /\ m <= n
  BY <1>1, <1>2 DEF Flows
<1> HIDE DEF m, n, s
<1>4. Rising(s, n)
  BY <1>3, Higher
<1>5. Rising(Stream(c), Echoed(c))'
  BY <1>1, <1>4 DEF Rising, n, s
<1>6. c \notin short' => Stream(c)' = First(Echoed(c)')
  BY <1>1 DEF Flows
<1>7. recvd'[c] <= sent'[c] /\ Echoed(c)' >= 0 /\ Len(tx'[c]) <= TxCap[c]
  BY <1>2 DEF Flows
<1> QED
  BY <1>5, <1>6, <1>7 DEF Flows, First

\* Nothing moves on any connection, and the buffer is empty before and after.
LEMMA Quiet ==
    ASSUME Typed, StreamInv, held = 0, held' = 0, UNCHANGED <<tx, got, recvd, sent, short>>
    PROVE  StreamInv'
<1> SUFFICES ASSUME NEW c \in Clients PROVE Flows(c)'
  BY DEF StreamInv
<1>1. Echoed(c) \in Int /\ Echoed(c)' = Echoed(c)
  BY DEF Typed, Echoed
<1>2. Flows(c) /\ sent[c] \in Nat
  BY DEF StreamInv, Typed
<1> QED
  BY <1>1, <1>2, Frame

\* A slot of the table, and which of its descriptors are whose.
LEMMA SlotType ==
    ASSUME Typed, NEW s \in 1 .. Len(pfds)
    PROVE  /\ pfds[s] \in Slots /\ pfds[s].fd \in Int /\ pfds[s].revents \in SUBSET {"IN", "ERR"}
           /\ pfds[s] = [fd |-> pfds[s].fd, revents |-> pfds[s].revents]
<1>1. pfds[s] \in Slots
  BY ElementOfSeq DEF Typed
<1> QED
  BY <1>1 DEF Slots

\* handle_accept or an echo returns, on the loop of any program.
LEMMA Returns ==
    ASSUME Inv, Return, UNCHANGED <<program, batch>>
    PROVE  /\ LoopInv' /\ held' = 0 /\ cur' = Listener /\ loop' \notin Calls
<1> QED
  BY DEF Inv, Return, LoopInv, Calls, Typed

\* An echo that does not close returns to the loop, one that closes takes the
\* connection out of the table first.
LEMMA Closing ==
    ASSUME Inv, NEW c \in Clients, NEW r, cur = c, loop \in Calls, EchoReturns(c, r),
           UNCHANGED <<peer, backlog, program, refused, fd, batch>>
    PROVE  /\ conns' \subseteq Clients /\ interest' \in [Clients -> SUBSET {"IN"}]
           /\ pfds' \in Seq(Slots) /\ handlers' \in [0 .. fd_range - 1 -> Clients \cup {NULL}]
           /\ i' \in Nat \ {0} /\ held' = 0
           /\ LoopInv' /\ SocketInv' /\ TableInv'
<1> USE DEF Inv
<1>1. LoopInv' /\ held' = 0 /\ cur' = Listener /\ loop' \notin Calls
  BY Returns DEF EchoReturns
<1>2. conns' \subseteq conns /\ conns' \subseteq Clients
  BY DEF EchoReturns, close_fd, Typed
<1>3. SocketInv'
  BY <1>2 DEF SocketInv, Open
<1>4. interest' \in [Clients -> SUBSET {"IN"}]
  BY DEF EchoReturns, close_fd, Typed
<1>5. CASE ~Closes(r) \/ program # "poll"
  <2>1. UNCHANGED tableVars
    BY <1>5 DEF EchoReturns, close_fd
  <2>2. pfds' \in Seq(Slots) /\ handlers' \in [0 .. fd_range - 1 -> Clients \cup {NULL}]
        /\ i' \in Nat \ {0}
    BY <2>1 DEF Typed, tableVars
  <2>3. ASSUME program = "poll" PROVE SlotInv'
    <3>1. UNCHANGED <<conns, pfds, handlers>>
      BY <1>5, <2>1, <2>3 DEF EchoReturns, tableVars
    <3> QED
      BY <1>1, <2>3, <3>1 DEF SlotInv, Slot, Handled, TableInv
  <2> QED
    BY <1>1, <1>2, <1>3, <1>4, <2>2, <2>3 DEF TableInv
<1>6. CASE Closes(r) /\ program = "poll"
  <2> DEFINE n == fd[c]
             m == Len(pfds)
  <2>1. SlotInv /\ Taken /\ c \in conns
    BY <1>6 DEF TableInv, SlotInv, Taken
  <2>2. n \in 0 .. fd_range - 1 /\ n \in Nat \ {0}
    BY <2>1, EchoAssumption DEF SlotInv, Handled, SocketInv, Open
  <2>3. /\ conns' = conns \ {c}
        /\ pfds' = [s \in 1 .. m |->
                       IF pfds[s].fd = n THEN [pfds[s] EXCEPT !.fd = -1] ELSE pfds[s]]
        /\ handlers' = [handlers EXCEPT ![n] = NULL] /\ i' = i
    BY <1>6 DEF EchoReturns, close_fd, remove_fd
  <2>4. m \in Nat
    BY DEF Typed
  <2> HIDE DEF m
  <2>5. \A s \in 1 .. m :
            /\ pfds'[s] \in Slots
            /\ pfds'[s].fd = (IF pfds[s].fd = n THEN -1 ELSE pfds[s].fd)
            /\ pfds'[s].revents = pfds[s].revents
    <3> SUFFICES ASSUME NEW s \in 1 .. m
                 PROVE  /\ pfds'[s] \in Slots
                        /\ pfds'[s].fd = (IF pfds[s].fd = n THEN -1 ELSE pfds[s].fd)
                        /\ pfds'[s].revents = pfds[s].revents
      OBVIOUS
    <3>1. /\ pfds[s] \in Slots /\ pfds[s].fd \in Int /\ pfds[s].revents \in SUBSET {"IN", "ERR"}
          /\ pfds[s] = [fd |-> pfds[s].fd, revents |-> pfds[s].revents]
      BY SlotType DEF m
    <3>2. pfds'[s] = IF pfds[s].fd = n THEN [pfds[s] EXCEPT !.fd = -1] ELSE pfds[s]
      BY <2>3
    <3>3. [pfds[s] EXCEPT !.fd = -1] = [fd |-> -1, revents |-> pfds[s].revents]
      BY <3>1
    <3> QED
      BY <3>1, <3>2, <3>3 DEF Slots
  <2>6. pfds' \in Seq(Slots) /\ Len(pfds') = m
    <3> DEFINE q == pfds'
    <3>1. q = [s \in 1 .. m |-> q[s]] /\ \A s \in 1 .. m : q[s] \in Slots
      BY <2>3, <2>5
    <3> HIDE DEF q
    <3> QED
      BY <2>4, <3>1 DEF q
  <2>7. /\ handlers' \in [0 .. fd_range - 1 -> Clients \cup {NULL}]
        /\ \A k \in 0 .. fd_range - 1 : k # n => handlers'[k] = handlers[k]
    BY <2>2, <2>3 DEF Typed
  <2>8. ASSUME NEW s \in 1 .. m PROVE Slot(s)'
    <3>1. Slot(s) /\ (pfds[s].fd = n => pfds[s].revents = {})
      BY <2>1 DEF SlotInv, Taken, m
    <3>2. pfds'[s].fd = -1 \/ pfds'[s].fd = ListenFd \/ \E d \in conns' : pfds'[s].fd = fd'[d]
      BY <2>3, <2>5, <3>1 DEF Slot
    <3>3. pfds'[s].revents # {} => pfds'[s].fd # -1
      BY <2>5, <3>1 DEF Slot
    <3>4. \A t \in 1 .. m : pfds'[t].fd = pfds'[s].fd /\ pfds'[s].fd # -1 => t = s
      BY <2>5, <3>1 DEF Slot, m
    <3> QED
      BY <2>6, <3>2, <3>3, <3>4 DEF Slot
  <2>9. ASSUME NEW d \in conns' PROVE Handled(d)'
    <3>1. d \in conns /\ d # c /\ Handled(d)
      BY <2>1, <2>3, <2>9 DEF SlotInv
    <3>2. fd[d] # n /\ fd[d] \in 0 .. fd_range - 1
      <4>1. c \in Open /\ d \in Open
        BY <2>1, <3>1 DEF Open
      <4>2. fd[d] # n /\ fd[d] \in Nat \ {0}
        BY <3>1, <4>1 DEF SocketInv
      <4> QED
        BY <3>1, <4>2, EchoAssumption DEF Handled
    <3>3. PICK s \in 1 .. m : pfds[s].fd = fd[d]
      BY <3>1 DEF Handled, m
    <3>4. pfds'[s].fd = fd[d]
      BY <2>5, <3>2, <3>3
    <3> QED
      BY <2>6, <2>7, <3>1, <3>2, <3>4 DEF Handled
  <2>10. SlotInv'
    BY <1>1, <2>1, <2>6, <2>8, <2>9 DEF SlotInv, m
  <2> QED
    BY <1>1, <1>2, <1>3, <1>4, <2>3, <2>6, <2>7, <2>10 DEF TableInv, Typed
<1> QED
  BY <1>5, <1>6

------------------------------------------------------------------------------
(* One lemma for each action.                                              *)

LEMMA EpollWaitStep == ASSUME Inv, EpollWait PROVE Inv'
<1> USE DEF Inv, EpollWait
<1>1. Typed'
  BY DEF Typed, peerVars, tableVars
<1>2. StreamInv'
  BY Quiet DEF LoopInv, Calls, peerVars, echoVars
<1>3. LoopInv'
  BY DEF LoopInv, Calls, Typed
<1>4. SocketInv'
  BY DEF SocketInv, Open, peerVars
<1> QED
  BY <1>1, <1>2, <1>3, <1>4 DEF TableInv

LEMMA DispatchStep == ASSUME Inv, Dispatch PROVE Inv'
<1> USE DEF Inv, Dispatch
<1>1. Typed'
  BY DEF Typed, peerVars, tableVars
<1>2. StreamInv'
  BY Quiet DEF LoopInv, peerVars, echoVars
<1>3. program # "poll"
  BY DEF LoopInv
<1>4. LoopInv'
  BY <1>3 DEF LoopInv, Calls
<1>5. SocketInv'
  BY DEF SocketInv, Open, peerVars
<1> QED
  BY <1>1, <1>2, <1>3, <1>4, <1>5 DEF TableInv

\* What poll reports of a descriptor; nothing of a hole.
LEMMA Reported ==
    ASSUME Typed, SocketInv, NEW n \in Int
    PROVE  Revents(n) \in SUBSET {"IN", "ERR"} /\ (n = -1 => Revents(n) = {})
<1>1. \A c \in conns : Events(c) \subseteq {"IN", "ERR"}
  BY DEF Events, Typed
<1>2. n = -1 => {d \in conns : fd[d] = n} = {}
  BY DEF SocketInv, Open
<1> QED
  BY <1>1, <1>2 DEF Revents, ListenFd

LEMMA PollStep == ASSUME Inv, Poll PROVE Inv'
<1> DEFINE m == Len(pfds)
<1> USE DEF Inv, Poll
<1>1. m \in Nat
  BY DEF Typed
<1> HIDE DEF m
<1>2. \A s \in 1 .. m :
          /\ pfds'[s] \in Slots /\ pfds'[s].fd = pfds[s].fd
          /\ pfds'[s].revents # {} => pfds'[s].fd # -1
  <2> SUFFICES ASSUME NEW s \in 1 .. m
               PROVE  /\ pfds'[s] \in Slots /\ pfds'[s].fd = pfds[s].fd
                      /\ pfds'[s].revents # {} => pfds'[s].fd # -1
    OBVIOUS
  <2>1. /\ pfds[s].fd \in Int
        /\ pfds[s] = [fd |-> pfds[s].fd, revents |-> pfds[s].revents]
    BY SlotType DEF m
  <2>2. pfds'[s] = [pfds[s] EXCEPT !.revents = Revents(pfds[s].fd)]
    BY DEF m
  <2>3. pfds'[s] = [fd |-> pfds[s].fd, revents |-> Revents(pfds[s].fd)]
    BY <2>1, <2>2
  <2>4. Revents(pfds[s].fd) \in SUBSET {"IN", "ERR"}
        /\ (pfds[s].fd = -1 => Revents(pfds[s].fd) = {})
    BY <2>1, Reported
  <2> DEFINE r == Revents(pfds[s].fd)
             k == pfds[s].fd
             v == [fd |-> k, revents |-> r]
  <2>5. k \in Int /\ r \in SUBSET {"IN", "ERR"} /\ pfds'[s] = v
    BY <2>1, <2>3, <2>4
  <2> HIDE DEF r, k, Inv, Poll
  <2>6. v \in Slots /\ v.fd = k /\ v.revents = r
    BY <2>5 DEF Slots
  <2> HIDE DEF v
  <2> QED
    BY <2>4, <2>5, <2>6 DEF k, r
<1>3. pfds' \in Seq(Slots) /\ Len(pfds') = m
  <2> DEFINE q == pfds'
  <2>1. q = [s \in 1 .. m |-> q[s]] /\ \A s \in 1 .. m : q[s] \in Slots
    BY <1>2 DEF m
  <2> HIDE DEF q, Inv, Poll
  <2> QED
    BY <1>1, <2>1 DEF q
<1>4. Typed'
  BY <1>3 DEF Typed, peerVars
<1>5. StreamInv'
  BY Quiet DEF LoopInv, Calls, peerVars, echoVars
<1>6. LoopInv'
  BY DEF LoopInv, Calls
<1>7. SocketInv'
  BY DEF SocketInv, Open, peerVars
<1>8. SlotInv'
  <2>1. ASSUME NEW s \in 1 .. m PROVE Slot(s)'
    <3>1. Slot(s)
      BY DEF TableInv, SlotInv, m
    <3> QED
      BY <1>2, <1>3, <3>1 DEF Slot, m
  <2>2. ASSUME NEW c \in conns PROVE Handled(c)'
    <3>1. Handled(c)
      BY DEF TableInv, SlotInv
    <3> QED
      BY <1>2, <1>3, <3>1 DEF Handled, m
  <2> QED
    BY <1>3, <2>1, <2>2 DEF TableInv, SlotInv, Calls, m
<1> QED
  BY <1>4, <1>5, <1>6, <1>7, <1>8 DEF TableInv

LEMMA WalkStep == ASSUME Inv, Walk PROVE Inv'
<1> DEFINE todo == {s \in i .. Len(pfds) : pfds[s].revents # {}}
           m == Len(pfds)
<1> USE DEF Inv
<1>1. m \in Nat /\ i \in Nat \ {0}
  BY DEF Typed
<1>2. StreamInv'
  BY Quiet DEF Walk, LoopInv, Calls, peerVars, echoVars
<1>3. SocketInv'
  BY DEF Walk, SocketInv, Open, peerVars
<1>4. CASE todo = {}
  <2>1. /\ loop' = "wait"
        /\ UNCHANGED <<cur, pfds, i, peerVars, program, conns, refused, fd, echoVars,
                       batch, held, handlers>>
    BY <1>4 DEF Walk
  <2>2. Typed'
    BY <2>1 DEF Typed, peerVars
  <2>3. LoopInv'
    BY <2>1 DEF LoopInv, Calls, Walk
  <2>4. TableInv'
    BY <2>1 DEF TableInv, SlotInv, Slot, Handled, Calls
  <2> QED
    BY <1>2, <1>3, <2>2, <2>3, <2>4
<1>5. CASE todo # {}
  <2> DEFINE s == Min(todo)
  <2>1. todo \in SUBSET Nat
    BY <1>1
  <2>2. s \in todo
    <3> HIDE DEF todo
    <3> QED
      BY <1>5, <2>1, MinMember
  <2>3. /\ pfds' = [pfds EXCEPT ![s].revents = {}]
        /\ i' = s + 1
        /\ loop' = IF pfds[s].fd = ListenFd THEN "accept" ELSE "recv"
        /\ cur' = IF pfds[s].fd = ListenFd THEN Listener ELSE handlers[pfds[s].fd]
        /\ UNCHANGED <<peerVars, program, conns, refused, fd, echoVars, batch, held, handlers>>
    BY <1>5 DEF Walk
  <2> HIDE DEF s
  <2>4. s \in 1 .. m /\ pfds[s].revents # {} /\ loop = "walk"
    <3>1. loop = "walk"
      BY DEF Walk
    <3> QED
      BY <1>1, <2>2, <3>1
  <2> HIDE DEF todo, m
  <2>5. /\ pfds[s] \in Slots /\ pfds[s].fd \in Int
        /\ pfds[s] = [fd |-> pfds[s].fd, revents |-> pfds[s].revents]
    BY <2>4, SlotType DEF m
  <2>6. /\ pfds' \in Seq(Slots) /\ Len(pfds') = m
        /\ \A t \in 1 .. m : pfds'[t].fd = pfds[t].fd
        /\ \A t \in 1 .. m : pfds'[t].revents = IF t = s THEN {} ELSE pfds[t].revents
    <3>1. [pfds[s] EXCEPT !.revents = {}] = [fd |-> pfds[s].fd, revents |-> {}]
      BY <2>5
    <3> DEFINE v == [fd |-> pfds[s].fd, revents |-> {}]
    <3>2. pfds' = [pfds EXCEPT ![s] = v]
      BY <2>3, <3>1
    <3>3. v \in Slots /\ v.fd = pfds[s].fd /\ v.revents = {}
      BY <2>5 DEF Slots
    <3> HIDE DEF v
    <3>4. pfds' \in Seq(Slots) /\ Len(pfds') = m /\ pfds'[s] = v
          /\ \A t \in 1 .. m : t # s => pfds'[t] = pfds[t]
      BY <2>4, <3>2, <3>3 DEF m, Typed
    <3> QED
      BY <3>3, <3>4
  <2>7. Typed'
    <3>1. i' \in Nat \ {0}
      BY <1>1, <2>3, <2>4
    <3> QED
      BY <2>3, <2>6, <3>1 DEF Typed, peerVars
  <2>8. ASSUME program = "poll", pfds[s].fd # ListenFd
        PROVE  cur' \in conns /\ fd[cur'] = pfds[s].fd
    <3>1. Slot(s) /\ pfds[s].fd # -1
      BY <2>4, <2>8 DEF TableInv, SlotInv, Slot, m
    <3>2. PICK c \in conns : pfds[s].fd = fd[c]
      BY <2>8, <3>1 DEF Slot
    <3>3. handlers[fd[c]] = c
      BY <2>8 DEF TableInv, SlotInv, Handled
    <3> QED
      BY <2>3, <2>8, <3>2, <3>3
  <2>9. program = "poll"
    BY <2>4 DEF LoopInv
  <2>10. LoopInv'
    BY <2>3, <2>4, <2>8, <2>9 DEF LoopInv, Calls, Typed
  <2>11. SlotInv'
    <3>1. ASSUME NEW t \in 1 .. m PROVE Slot(t)'
      <4>1. Slot(t)
        BY <2>9 DEF TableInv, SlotInv, m
      <4> QED
        BY <2>3, <2>6, <4>1 DEF Slot, m
    <3>2. ASSUME NEW c \in conns PROVE Handled(c)'
      <4>1. Handled(c)
        BY <2>9 DEF TableInv, SlotInv
      <4> QED
        BY <2>3, <2>6, <4>1 DEF Handled, m
    <3>3. ASSUME loop' \in Calls PROVE Taken'
      <4>1. pfds[s].fd # ListenFd
        BY <2>3, <3>3 DEF Calls
      <4>2. cur' \in conns /\ fd[cur'] = pfds[s].fd
        BY <2>8, <2>9, <4>1
      <4>3. pfds[s].fd # -1
        BY <2>4, <2>9 DEF TableInv, SlotInv, Slot, m
      <4>4. \A t \in 1 .. m : pfds'[t].fd = fd[cur'] => pfds'[t].revents = {}
        BY <2>4, <2>6, <2>9, <4>2, <4>3 DEF TableInv, SlotInv, Slot, m
      <4> QED
        BY <2>3, <2>6, <4>2, <4>4 DEF Taken
    <3> QED
      BY <2>3, <2>6, <2>9, <3>1, <3>2, <3>3 DEF TableInv, SlotInv, m
  <2> QED
    BY <1>2, <1>3, <2>7, <2>10, <2>11 DEF TableInv
<1> QED
  BY <1>4, <1>5

\* A connection is accepted: its descriptor is nobody else's.
LEMMA Accepted ==
    ASSUME Inv, NEW c \in Clients, AcceptedBy(c),
           \/ conns' = conns \cup {c} /\ refused' = refused
           \/ conns' = conns /\ refused' = refused \cup {c}
    PROVE  /\ c \notin Open /\ FreeFd \in Nat \ {0} /\ \A d \in Open : fd[d] # FreeFd
           /\ fd' = [fd EXCEPT ![c] = FreeFd] /\ fd' \in [Clients -> Int] /\ fd'[c] = FreeFd
           /\ \A d \in conns : fd'[d] = fd[d]
           /\ StreamInv' /\ LoopInv' /\ SocketInv' /\ loop' \notin Calls
           /\ held' = 0 /\ cur' = Listener
<1> USE DEF Inv, AcceptedBy
<1>1. c \notin Open
  BY DEF SocketInv
<1>2. FreeFd \in Nat \ {0} /\ \A d \in Open : fd[d] # FreeFd
  BY Descriptor
<1> DEFINE n == FreeFd
<1>3. fd' = [fd EXCEPT ![c] = n] /\ backlog' = backlog \ {c} /\ peer' = peer
  OBVIOUS
<1> HIDE DEF n
<1>4. /\ fd' \in [Clients -> Int] /\ fd'[c] = n
      /\ \A d \in Clients : d # c => fd'[d] = fd[d]
  BY <1>2, <1>3 DEF Typed, n
<1>5. \A d \in Open : d \in Clients /\ d # c
  BY <1>1 DEF Typed, Open
<1>6. Open' = Open \cup {c}
  BY DEF Open
<1>7. SocketInv'
  <2>1. (conns \cap refused)' = {}
    BY <1>1 DEF SocketInv, Open
  <2>2. \A d \in Clients : peer'[d] = "idle" => d \notin backlog'
    BY <1>3 DEF SocketInv
  <2>3. \A d \in Clients : peer'[d] = "idle" \/ d \in backlog' => d \notin Open'
    <3>1. peer[c] # "idle"
      BY DEF SocketInv
    <3> QED
      BY <1>3, <1>6, <3>1 DEF SocketInv
  <2>4. \A d \in Open' : fd'[d] \in Nat \ {0}
    BY <1>2, <1>4, <1>5, <1>6 DEF SocketInv, n
  <2>5. \A d, e \in Open' : fd'[d] = fd'[e] => d = e
    BY <1>2, <1>4, <1>5, <1>6 DEF SocketInv, n
  <2> QED
    BY <2>1, <2>2, <2>3, <2>4, <2>5 DEF SocketInv
<1>8. LoopInv' /\ held' = 0 /\ cur' = Listener /\ loop' \notin Calls
  BY Returns
<1>9. StreamInv'
  BY <1>8, Quiet DEF LoopInv, echoVars
<1> QED
  BY <1>1, <1>2, <1>3, <1>4, <1>5, <1>7, <1>8, <1>9 DEF n, Open

LEMMA AcceptEpollStep == ASSUME Inv, NEW c \in Clients, AcceptEpoll(c) PROVE Inv'
<1> USE DEF Inv, AcceptEpoll, Register
<1>1. StreamInv' /\ LoopInv' /\ SocketInv' /\ fd' \in [Clients -> Int]
      /\ held' = 0 /\ cur' = Listener
  BY Accepted
<1>2. Typed'
  BY <1>1 DEF Typed, AcceptedBy, tableVars, echoVars
<1>3. TableInv'
  BY DEF TableInv, AcceptedBy
<1> QED
  BY <1>1, <1>2, <1>3

LEMMA AcceptPollStep == ASSUME Inv, NEW c \in Clients, AcceptPoll(c) PROVE Inv'
<1> DEFINE m == Len(pfds)
           n == FreeFd
<1> USE DEF Inv
<1>1. AcceptedBy(c) /\ program = "poll" /\ SlotInv /\ c \notin conns
  BY DEF AcceptPoll, AcceptedBy, TableInv, SocketInv, Open
<1>2. CASE /\ refused' = refused \cup {c}
           /\ UNCHANGED <<conns, interest, tableVars>>
  <2>1. /\ StreamInv' /\ LoopInv' /\ SocketInv' /\ fd' \in [Clients -> Int]
        /\ held' = 0 /\ loop' \notin Calls /\ \A d \in conns : fd'[d] = fd[d]
    BY <1>1, <1>2, Accepted
  <2>2. Typed'
    BY <1>1, <1>2, <2>1 DEF Typed, AcceptedBy, tableVars, echoVars
  <2>3. ASSUME NEW s \in 1 .. m PROVE Slot(s)'
    <3>1. Slot(s)
      BY <1>1 DEF SlotInv
    <3> QED
      BY <1>2, <2>1, <3>1 DEF Slot, tableVars
  <2>4. ASSUME NEW d \in conns PROVE Handled(d)'
    <3>1. Handled(d)
      BY <1>1 DEF SlotInv
    <3> QED
      BY <1>2, <2>1, <3>1 DEF Handled, tableVars
  <2>5. SlotInv'
    BY <1>1, <1>2, <2>1, <2>3, <2>4 DEF SlotInv, tableVars
  <2> QED
    BY <2>1, <2>2, <2>5 DEF TableInv
<1>3. CASE ~Refuses(n) /\ m < max_fds /\ Register(c) /\ add_fd(n, c)
  <2>1. /\ n \in Nat \ {0} /\ (\A d \in Open : fd[d] # n) /\ fd'[c] = n
        /\ StreamInv' /\ LoopInv' /\ SocketInv' /\ fd' \in [Clients -> Int]
        /\ held' = 0 /\ loop' \notin Calls /\ \A d \in conns : fd'[d] = fd[d]
    BY <1>1, <1>3, Accepted DEF Register
  <2> DEFINE v == [fd |-> n, revents |-> {}]
  <2>2. /\ conns' = conns \cup {c} /\ interest' = [interest EXCEPT ![c] = {"IN"}]
        /\ pfds' = Append(pfds, v) /\ handlers' = [handlers EXCEPT ![n] = c] /\ i' = i
        /\ refused' = refused
    BY <1>3 DEF Register, add_fd
  <2>3. n < fd_range /\ \A s \in 1 .. m : pfds[s].fd # n
    BY <1>3, <2>1, EchoAssumption DEF Refuses
  <2> HIDE DEF n, m
  <2>4. v \in Slots /\ v.fd = n /\ v.revents = {}
    BY <2>1 DEF Slots
  <2> HIDE DEF v
  <2>5. m \in Nat /\ pfds \in Seq(Slots)
    BY DEF Typed, m
  <2>6. /\ pfds' \in Seq(Slots) /\ Len(pfds') = m + 1 /\ pfds'[m + 1] = v
        /\ \A s \in 1 .. m : pfds'[s] = pfds[s]
    BY <2>2, <2>4, <2>5, AppendProperties DEF m
  <2>7. /\ handlers' \in [0 .. fd_range - 1 -> Clients \cup {NULL}] /\ handlers'[n] = c
        /\ \A k \in 0 .. fd_range - 1 : k # n => handlers'[k] = handlers[k]
    <3>1. n \in 0 .. fd_range - 1
      BY <2>1, <2>3, EchoAssumption
    <3> QED
      BY <2>2, <3>1 DEF Typed
  <2>8. Typed'
    BY <1>1, <2>1, <2>2, <2>6, <2>7 DEF Typed, AcceptedBy, echoVars
  <2>9. ASSUME NEW s \in 1 .. m + 1 PROVE Slot(s)'
    <3>1. CASE s = m + 1
      <4>1. c \in conns' /\ pfds'[s].fd = fd'[c] /\ pfds'[s].revents = {} /\ pfds'[s].fd = n
        BY <2>1, <2>2, <2>4, <2>6, <3>1
      <4>2. \A t \in 1 .. m + 1 : pfds'[t].fd = n => t = s
        <5> SUFFICES ASSUME NEW t \in 1 .. m + 1, t # s PROVE pfds'[t].fd # n
          OBVIOUS
        <5>1. t \in 1 .. m
          BY <2>5, <3>1
        <5> QED
          BY <2>3, <2>6, <5>1
      <4> QED
        BY <2>6, <4>1, <4>2 DEF Slot
    <3>2. CASE s # m + 1
      <4>1. s \in 1 .. m
        BY <2>5, <3>2
      <4>2. Slot(s) /\ pfds'[s] = pfds[s]
        BY <1>1, <2>6, <4>1 DEF SlotInv, m
      <4>3. \A t \in 1 .. m + 1 : pfds'[t].fd = pfds[s].fd /\ pfds[s].fd # -1 => t = s
        <5> SUFFICES ASSUME NEW t \in 1 .. m + 1, pfds'[t].fd = pfds[s].fd, pfds[s].fd # -1
                     PROVE  t = s
          OBVIOUS
        <5>1. CASE t = m + 1
          BY <2>3, <2>4, <2>6, <4>1, <5>1
        <5>2. CASE t # m + 1
          <6>1. t \in 1 .. m
            BY <2>5, <5>2
          <6> QED
            BY <2>6, <4>2, <6>1 DEF Slot, m
        <5> QED
          BY <5>1, <5>2
      <4>4. pfds'[s].fd = -1 \/ pfds'[s].fd = ListenFd \/ \E d \in conns' : pfds'[s].fd = fd'[d]
        BY <2>1, <2>2, <4>2 DEF Slot
      <4> QED
        BY <2>6, <4>2, <4>3, <4>4 DEF Slot
    <3> QED
      BY <3>1, <3>2
  <2>10. ASSUME NEW d \in conns' PROVE Handled(d)'
    <3>1. CASE d = c
      <4>1. m + 1 \in 1 .. m + 1 /\ pfds'[m + 1].fd = n
        BY <2>4, <2>5, <2>6
      <4> QED
        BY <2>1, <2>3, <2>6, <2>7, <3>1, <4>1 DEF Handled
    <3>2. CASE d # c
      <4>1. d \in conns /\ Handled(d) /\ fd'[d] = fd[d]
        BY <1>1, <2>1, <2>2, <3>2 DEF SlotInv
      <4>2. fd[d] # n /\ fd[d] \in 0 .. fd_range - 1
        <5>1. d \in Open
          BY <4>1 DEF Open
        <5>2. fd[d] # n /\ fd[d] \in Nat \ {0}
          BY <2>1, <5>1 DEF SocketInv
        <5> QED
          BY <4>1, <5>2, EchoAssumption DEF Handled
      <4>3. PICK s \in 1 .. m : pfds[s].fd = fd[d]
        BY <4>1 DEF Handled, m
      <4>4. s \in 1 .. m + 1 /\ pfds'[s].fd = fd[d]
        BY <2>5, <2>6, <4>3
      <4> QED
        BY <2>6, <2>7, <4>1, <4>2, <4>4 DEF Handled
    <3> QED
      BY <3>1, <3>2
  <2>11. Len(pfds') <= max_fds
    BY <1>3, <2>5, <2>6, EchoAssumption
  <2>12. SlotInv'
    BY <2>1, <2>6, <2>9, <2>10, <2>11 DEF SlotInv
  <2> QED
    BY <2>1, <2>8, <2>12 DEF TableInv
<1> QED
  BY <1>2, <1>3 DEF AcceptPoll

LEMMA AcceptOverrunsStep == ASSUME Inv, NEW c \in Clients, AcceptOverruns(c) PROVE Inv'
<1> USE DEF Inv, AcceptOverruns
<1>1. held' = 0 /\ cur' = Listener /\ loop' \notin Calls
  BY DEF LoopInv, Calls
<1>2. Typed'
  BY DEF Typed, peerVars, tableVars
<1>3. StreamInv'
  BY <1>1, Quiet DEF LoopInv, Calls, peerVars, echoVars
<1>4. SocketInv'
  BY DEF SocketInv, Open, peerVars
<1>5. LoopInv'
  BY <1>1 DEF LoopInv, Calls
<1>6. TableInv'
  BY <1>1 DEF TableInv, SlotInv, Slot, Handled, tableVars
<1> QED
  BY <1>2, <1>3, <1>4, <1>5, <1>6

LEMMA AcceptFailsStep == ASSUME Inv, AcceptFails PROVE Inv'
<1> USE DEF Inv, AcceptFails
<1>1. LoopInv' /\ held' = 0 /\ cur' = Listener /\ loop' \notin Calls
  BY Returns
<1>2. Typed'
  BY <1>1 DEF Typed, peerVars, tableVars
<1>3. StreamInv'
  BY <1>1, Quiet DEF LoopInv, peerVars, echoVars
<1>4. SocketInv'
  BY DEF SocketInv, Open, peerVars
<1>5. TableInv'
  BY <1>1 DEF TableInv, SlotInv, Slot, Handled, tableVars
<1> QED
  BY <1>1, <1>2, <1>3, <1>4, <1>5

LEMMA RecvStep == ASSUME Inv, NEW c \in Clients, Recv(c) PROVE Inv'
<1> DEFINE n == Min({Unread(c), buf_size})
<1> USE DEF Inv
<1>1. /\ loop = "recv" /\ cur = c /\ held = 0
      /\ UNCHANGED <<peer, sent, tx, got, backlog, program, refused, fd, short, batch>>
  BY DEF Recv, LoopInv
<1>2. Unread(c) \in Nat /\ n \in Int /\ n <= Unread(c)
  <2>1. Unread(c) \in Nat
    BY DEF Unread, Typed, StreamInv, Flows
  <2> DEFINE a == Unread(c)
             b == buf_size
  <2>2. a \in Int /\ b \in Int
    BY <2>1, EchoAssumption
  <2> HIDE DEF a, b
  <2>3. Min({a, b}) \in {a, b} /\ Min({a, b}) <= a
    BY <2>2, Smaller
  <2> QED
    BY <2>1, <2>2, <2>3 DEF a, b
<1>3. CASE /\ n > 0 /\ recvd' = [recvd EXCEPT ![c] = @ + n] /\ held' = n /\ loop' = "send"
           /\ UNCHANGED <<conns, interest, reported, cur, tableVars>>
  <2> HIDE DEF n
  <2>1. n \in Nat \ {0} /\ recvd[c] \in Nat
    BY <1>2, <1>3 DEF Typed
  <2>2. /\ recvd' \in [Clients -> Nat] /\ recvd'[c] = recvd[c] + n
        /\ \A d \in Clients : d # c => recvd'[d] = recvd[d]
    BY <1>3, <2>1 DEF Typed
  <2>3. Typed'
    BY <1>1, <1>3, <2>1, <2>2 DEF Typed, tableVars
  <2>4. StreamInv'
    <3> SUFFICES ASSUME NEW d \in Clients PROVE Flows(d)'
      BY DEF StreamInv
    <3>1. Flows(d)
      BY DEF StreamInv
    <3>2. Echoed(d)' = Echoed(d)
      <4>1. cur' = c /\ held' = n /\ recvd[d] \in Nat
        BY <1>1, <1>3 DEF Typed
      <4> QED
        BY <1>1, <2>1, <2>2, <4>1 DEF Echoed
    <3>3. recvd'[d] <= sent'[d]
      <4>1. recvd[c] + n <= sent[c]
        <5>1. n <= sent[c] - recvd[c] /\ sent[c] \in Nat
          BY <1>2 DEF Unread, Typed
        <5> QED
          BY <2>1, <5>1
      <4> QED
        BY <1>1, <2>2, <3>1, <4>1 DEF Flows
    <3> QED
      BY <1>1, <3>1, <3>2, <3>3 DEF Flows, Stream, Rising
  <2>5. LoopInv'
    BY <1>1, <1>3 DEF LoopInv, Calls
  <2>6. SocketInv'
    BY <1>1, <1>3 DEF SocketInv, Open
  <2>7. TableInv'
    BY <1>1, <1>3 DEF TableInv, SlotInv, Slot, Handled, Taken, Calls, tableVars
  <2> QED
    BY <2>3, <2>4, <2>5, <2>6, <2>7
<1>4. ASSUME NEW r, EchoReturns(c, r), UNCHANGED recvd PROVE Inv'
  <2>1. /\ conns' \subseteq Clients /\ interest' \in [Clients -> SUBSET {"IN"}]
        /\ pfds' \in Seq(Slots) /\ handlers' \in [0 .. fd_range - 1 -> Clients \cup {NULL}]
        /\ i' \in Nat \ {0} /\ held' = 0
        /\ LoopInv' /\ SocketInv' /\ TableInv'
    BY <1>1, <1>4, Closing DEF Calls
  <2>2. Typed'
    BY <1>1, <1>4, <2>1 DEF Typed
  <2>3. StreamInv'
    BY <1>1, <1>4, <2>1, Quiet
  <2> QED
    BY <2>1, <2>2, <2>3
<1> QED
  BY <1>3, <1>4 DEF Recv

LEMMA SendStep == ASSUME Inv, NEW c \in Clients, Send(c) PROVE Inv'
<1> USE DEF Inv
<1>1. /\ loop = "send" /\ cur = c
      /\ UNCHANGED <<peer, sent, recvd, got, backlog, program, refused, fd, batch>>
  BY DEF Send
<1>2. ASSUME NEW r, EchoReturns(c, r), tx' \in [Clients -> Seq(Nat)], StreamInv'
      PROVE  Inv'
  <2>1. /\ conns' \subseteq Clients /\ interest' \in [Clients -> SUBSET {"IN"}]
        /\ pfds' \in Seq(Slots) /\ handlers' \in [0 .. fd_range - 1 -> Clients \cup {NULL}]
        /\ i' \in Nat \ {0} /\ held' = 0
        /\ LoopInv' /\ SocketInv' /\ TableInv'
    BY <1>1, <1>2, Closing DEF Calls
  <2>2. Typed'
    BY <1>1, <1>2, <2>1 DEF Typed
  <2> QED
    BY <1>2, <2>1, <2>2
<1>3. ASSUME NEW r, EchoReturns(c, r)
      PROVE  /\ held' = 0
             /\ \A d \in Clients : Echoed(d)' = recvd[d] /\ Echoed(d) <= recvd[d]
             /\ \A d \in Clients : d # c => Echoed(d)' = Echoed(d)
             /\ Echoed(c) = recvd[c] - held /\ Echoed(c) \in Nat
  <2>1. held' = 0
    BY <1>3 DEF EchoReturns, Return
  <2> QED
    BY <1>1, <2>1 DEF Echoed, Typed, StreamInv, Flows
<1>4. CASE EchoReturns(c, -1) /\ short' = short \cup {c} /\ UNCHANGED tx
  <2>1. StreamInv'
    <3> SUFFICES ASSUME NEW d \in Clients PROVE Flows(d)'
      BY DEF StreamInv
    <3>1. Flows(d) /\ recvd[d] \in Nat /\ sent[d] \in Nat
      BY DEF StreamInv, Typed
    <3>2. Echoed(d)' = recvd[d] /\ Echoed(d) <= recvd[d]
      BY <1>3, <1>4
    <3>3. d \notin short' => d \notin short /\ Echoed(d)' = Echoed(d)
      BY <1>3, <1>4
    <3> QED
      BY <1>1, <1>4, <3>1, <3>2, <3>3, Frame
  <2>2. tx' \in [Clients -> Seq(Nat)]
    BY <1>4 DEF Typed
  <2> QED
    BY <1>2, <1>4, <2>1, <2>2
<1>5. ASSUME NEW n \in Min({1, Room(c)}) .. Min({held, Room(c)}), NEW r, EchoReturns(c, r),
             tx' = [tx EXCEPT ![c] = @ \o [k \in 1 .. n |-> recvd[c] - held + k]],
             short' = IF n < held THEN short \cup {c} ELSE short
      PROVE  Inv'
  <2> DEFINE m == Echoed(c)
             h == [k \in 1 .. n |-> recvd[c] - held + k]
             s == Stream(c)
  <2>1. /\ Len(tx[c]) \in Nat /\ tx[c] \in Seq(Nat) /\ got[c] \in Seq(Nat)
        /\ Room(c) \in Nat /\ Room(c) = TxCap[c] - Len(tx[c]) /\ TxCap[c] \in Nat
        /\ held \in Nat /\ recvd[c] \in Nat
    BY PeersAssumption DEF StreamInv, Flows, Room, Typed
  <2>2. n \in Nat /\ n <= held /\ n <= Room(c)
    <3> DEFINE a == Room(c)
               b == held
               e == 1
    <3>1. a \in Nat /\ b \in Nat /\ e = 1
      BY <2>1
    <3>2. n \in Min({e, a}) .. Min({b, a})
      OBVIOUS
    <3> HIDE DEF a, b, e
    <3>3. Min({e, a}) \in {e, a}
      BY <3>1, Smaller
    <3>4. a \in Int /\ b \in Int
      BY <3>1
    <3>5. Min({b, a}) \in {b, a}
      BY <3>4, Smaller
    <3>6. Min({b, a}) <= b
      BY <3>4, Smaller
    <3>7. Min({b, a}) <= a
      BY <3>4, Smaller
    <3>8. n \in Nat /\ n <= b /\ n <= a
      BY <3>1, <3>2, <3>3, <3>5, <3>6, <3>7
    <3> QED
      BY <3>8 DEF a, b
  <2>3. m \in Nat /\ m = recvd[c] - held /\ Rising(s, m) /\ s \in Seq(Nat)
        /\ (c \notin short => s = First(m))
    BY <1>3, <1>5, <2>1, ConcatProperties DEF StreamInv, Flows, Stream
  <2>4. h = [k \in 1 .. n |-> m + k]
    BY <2>3
  <2> HIDE DEF m, h, s
  <2>5. h \in [1 .. n -> Nat] /\ h \in Seq(Nat) /\ Len(h) = n /\ \A k \in 1 .. n : h[k] = m + k
    BY <2>2, <2>3, <2>4
  <2>6. /\ s \o h \in Seq(Nat) /\ Rising(s \o h, m + n)
        /\ s = First(m) => s \o h = First(m + n)
    <3>1. \A k \in 1 .. n : h[k] = m + k
      BY <2>5
    <3> QED
      BY <2>2, <2>3, <2>5, <3>1, Extend
  <2>7. /\ tx[c] \o h \in Seq(Nat) /\ Len(tx[c] \o h) = Len(tx[c]) + n
    BY <2>1, <2>5, ConcatProperties
  <2>8. /\ tx' \in [Clients -> Seq(Nat)] /\ tx'[c] = tx[c] \o h
        /\ \A d \in Clients : d # c => tx'[d] = tx[d]
    BY <1>5, <2>7 DEF Typed, h
  <2>9. Stream(c)' = s \o h
    <3> DEFINE g == got[c]
               q == tx[c]
    <3>1. g \in Seq(Nat) /\ q \in Seq(Nat)
      BY <2>1
    <3> HIDE DEF g, q
    <3>2. (g \o q) \o h = g \o (q \o h)
      BY <2>5, <3>1, Regroup
    <3> QED
      BY <1>1, <2>8, <3>2 DEF Stream, s, g, q
  <2>10. Echoed(c)' = recvd[c] /\ recvd[c] = m + held
    BY <1>3, <1>5, <2>1, <2>3
  <2>11. Flows(c)'
    <3>1. recvd'[c] <= sent'[c] /\ Len(tx'[c]) <= TxCap[c] /\ Echoed(c)' >= 0
      BY <1>1, <2>1, <2>2, <2>7, <2>8, <2>10 DEF StreamInv, Flows
    <3>2. Rising(s \o h, m + held)
      <4> DEFINE u == s \o h
                 l == m + n
                 k == m + held
      <4>1. l \in Int /\ k \in Int /\ l <= k
        BY <2>1, <2>2, <2>3
      <4>2. u \in Seq(Nat) /\ Rising(u, l)
        BY <2>6
      <4> HIDE DEF u, l, k
      <4>3. Rising(u, k)
        BY <4>1, <4>2, Higher
      <4> QED
        BY <4>3 DEF u, k
    <3>3. Rising(Stream(c), Echoed(c))'
      BY <2>9, <2>10, <3>2 DEF Rising
    <3>4. ASSUME c \notin short' PROVE Stream(c)' = First(Echoed(c)')
      <4>1. n = held /\ c \notin short
        BY <1>5, <2>1, <2>2, <3>4
      <4> QED
        BY <2>3, <2>6, <2>9, <2>10, <4>1
    <3> QED
      BY <3>1, <3>3, <3>4 DEF Flows, First
  <2>12. ASSUME NEW d \in Clients, d # c PROVE Flows(d)'
    <3>1. Flows(d) /\ sent[d] \in Nat /\ recvd[d] \in Nat
      BY DEF StreamInv, Typed
    <3>2. Echoed(d)' = Echoed(d) /\ Echoed(d) \in Int
      BY <1>3, <1>5, <2>12, <3>1
    <3>3. d \notin short' => d \notin short
      BY <1>5
    <3> QED
      BY <1>1, <2>8, <2>12, <3>1, <3>2, <3>3, Frame
  <2>13. StreamInv'
    BY <2>11, <2>12 DEF StreamInv
  <2> QED
    BY <1>2, <1>5, <2>8, <2>13
<1> QED
  BY <1>4, <1>5 DEF Send

\* A client's steps leave the server alone.
LEMMA ClientStep == ASSUME Inv, NEW c \in Clients, Client(c) PROVE Inv'
<1> USE DEF Inv
<1>1. UNCHANGED serverVars
  BY DEF Client
<1>2. LoopInv' /\ TableInv'
  BY <1>1 DEF serverVars, tableVars, LoopInv, TableInv, SlotInv, Slot, Handled, Taken
<1>3. \A d \in Clients : Echoed(d) \in Int /\ sent[d] \in Nat /\ recvd[d] \in Nat
  BY DEF Echoed, Typed
<1>4. CASE Connect(c)
  <2>1. UNCHANGED <<sent, recvd, tx, got, interest>>
    BY <1>4 DEF Connect
  <2>2. Typed'
    BY <1>1, <1>4 DEF Typed, Connect, serverVars, tableVars
  <2>3. StreamInv'
    BY <1>1, <2>1 DEF StreamInv, Flows, Stream, Echoed, Rising, serverVars, echoVars
  <2>4. SocketInv'
    BY <1>1, <1>4 DEF Connect, SocketInv, Open, serverVars, Typed
  <2> QED
    BY <1>2, <2>2, <2>3, <2>4
<1>5. CASE ClientSend(c)
  <2>1. /\ UNCHANGED <<peer, recvd, tx, got, backlog, interest>>
        /\ sent' \in [Clients -> Nat] /\ \A d \in Clients : sent[d] <= sent'[d]
    BY <1>5 DEF ClientSend, Typed
  <2>2. Typed'
    BY <1>1, <2>1 DEF Typed, serverVars, tableVars
  <2>3. StreamInv'
    <3> SUFFICES ASSUME NEW d \in Clients PROVE Flows(d)'
      BY DEF StreamInv
    <3>1. Flows(d)
      BY DEF StreamInv
    <3>2. Echoed(d)' = Echoed(d) /\ short' = short
      BY <1>1, <2>1 DEF Echoed, serverVars, echoVars
    <3>3. sent'[d] \in Nat /\ Echoed(d) <= Echoed(d)'
      BY <1>3, <2>1, <3>2
    <3> QED
      BY <1>3, <2>1, <3>1, <3>2, <3>3, Frame
  <2>4. SocketInv'
    BY <1>1, <2>1 DEF SocketInv, Open, serverVars
  <2> QED
    BY <1>2, <2>2, <2>3, <2>4
<1>6. CASE ClientRead(c)
  <2>1. /\ UNCHANGED <<peer, sent, recvd, backlog, interest>> /\ tx[c] # <<>>
        /\ got' = [got EXCEPT ![c] = Append(@, Head(tx[c]))]
        /\ tx' = [tx EXCEPT ![c] = Tail(@)]
    BY <1>6 DEF ClientRead
  <2> DEFINE g == got[c]
             q == tx[c]
  <2>2. g \in Seq(Nat) /\ q \in Seq(Nat) /\ q # <<>>
    BY <2>1 DEF Typed
  <2> HIDE DEF g, q
  <2>3. /\ Append(g, Head(q)) \in Seq(Nat) /\ Tail(q) \in Seq(Nat)
        /\ Append(g, Head(q)) \o Tail(q) = g \o q
    BY <2>2, Move
  <2>4. Len(Tail(q)) <= Len(q)
    BY <2>2, HeadTailProperties
  <2>5. /\ tx' \in [Clients -> Seq(Nat)] /\ got' \in [Clients -> Seq(Nat)]
        /\ \A d \in Clients : d # c => tx'[d] = tx[d] /\ got'[d] = got[d]
        /\ tx'[c] = Tail(q) /\ got'[c] = Append(g, Head(q))
    BY <2>1, <2>3 DEF Typed, g, q
  <2>6. \A d \in Clients : Stream(d)' = Stream(d) /\ Len(tx'[d]) <= TxCap[d]
    <3> SUFFICES ASSUME NEW d \in Clients PROVE Stream(d)' = Stream(d) /\ Len(tx'[d]) <= TxCap[d]
      OBVIOUS
    <3>1. Len(tx[d]) <= TxCap[d] /\ Len(tx[d]) \in Nat /\ TxCap[d] \in Nat
      BY PeersAssumption DEF StreamInv, Flows, Typed
    <3>2. CASE d = c
      <4>1. Len(q) \in Nat /\ Len(Tail(q)) \in Nat /\ Len(q) <= TxCap[d]
        BY <2>2, <2>3, <3>1, <3>2 DEF q
      <4>2. Len(Tail(q)) <= TxCap[d]
        BY <2>4, <3>1, <4>1
      <4> QED
        BY <2>3, <2>5, <3>2, <4>2 DEF Stream, g, q
    <3>3. CASE d # c
      BY <2>5, <3>1, <3>3 DEF Stream
    <3> QED
      BY <3>2, <3>3
  <2>7. Typed'
    BY <1>1, <2>1, <2>5 DEF Typed, serverVars, tableVars
  <2>8. StreamInv'
    <3> SUFFICES ASSUME NEW d \in Clients PROVE Flows(d)'
      BY DEF StreamInv
    <3>1. Flows(d)
      BY DEF StreamInv
    <3>2. Echoed(d)' = Echoed(d) /\ short' = short
      BY <1>1, <2>1 DEF Echoed, serverVars, echoVars
    <3> QED
      BY <2>1, <2>6, <3>1, <3>2 DEF Flows, Rising
  <2>9. SocketInv'
    BY <1>1, <2>1 DEF SocketInv, Open, serverVars
  <2> QED
    BY <1>2, <2>7, <2>8, <2>9
<1>7. CASE ClientShutdown(c) \/ ClientReset(c)
  <2>1. /\ UNCHANGED <<sent, recvd, tx, got, backlog, interest>>
        /\ peer' \in [Clients -> {"idle", "open", "eof", "reset"}]
        /\ \A d \in Clients : peer'[d] = "idle" => peer[d] = "idle"
    BY <1>7 DEF ClientShutdown, ClientReset, Typed
  <2>2. Typed'
    BY <1>1, <2>1 DEF Typed, serverVars, tableVars
  <2>3. StreamInv'
    BY <1>1, <2>1 DEF StreamInv, Flows, Stream, Echoed, Rising, serverVars, echoVars
  <2>4. SocketInv'
    BY <1>1, <2>1 DEF SocketInv, Open, serverVars
  <2> QED
    BY <1>2, <2>2, <2>3, <2>4
<1> QED
  BY <1>4, <1>5, <1>6, <1>7 DEF Client

------------------------------------------------------------------------------
(* The invariant, and what follows from it.                                *)

\* The server starts with its listener alone.
LEMMA InitInv == Init => Inv
<1> SUFFICES ASSUME Init PROVE Inv
  OBVIOUS
<1> USE DEF Init, PeersInit
<1> DEFINE v == [fd |-> ListenFd, revents |-> {}]
<1>1. v \in Slots /\ v.fd = 0 /\ v.revents = {}
  BY DEF Slots, ListenFd
<1>2. pfds = <<v>>
  OBVIOUS
<1> HIDE DEF v
<1>3. pfds \in Seq(Slots) /\ Len(pfds) = 1 /\ pfds[1] = v
  <2> HIDE DEF Init, PeersInit
  <2>1. <<v>> \in Seq(Slots) /\ Len(<<v>>) = 1 /\ <<v>>[1] = v
    BY <1>1
  <2> QED
    BY <1>2, <2>1
<1>4. Typed
  BY <1>3, EchoAssumption DEF Typed
<1>5. StreamInv
  <2> SUFFICES ASSUME NEW c \in Clients PROVE Flows(c)
    BY DEF StreamInv
  <2> DEFINE e == got[c] \o tx[c]
  <2>1. got[c] = <<>> /\ tx[c] = <<>> /\ recvd[c] = 0 /\ sent[c] = 0 /\ TxCap[c] \in Nat
        /\ Len(tx[c]) = 0
    BY PeersAssumption
  <2>2. e = <<>> /\ Len(e) = 0
    BY <2>1
  <2>3. First(0) = <<>>
    BY DEF First
  <2>4. Echoed(c) = 0
    BY <2>1 DEF Echoed
  <2> HIDE DEF e
  <2>5. Rising(e, 0)
    BY <2>2 DEF Rising
  <2> QED
    BY <2>1, <2>2, <2>3, <2>4, <2>5 DEF Flows, Stream, e
<1>6. LoopInv
  BY DEF LoopInv, Calls
<1>7. SocketInv
  BY DEF SocketInv, Open
<1>8. SlotInv
  BY <1>1, <1>3, EchoAssumption DEF SlotInv, Slot, Calls, ListenFd
<1> QED
  BY <1>4, <1>5, <1>6, <1>7, <1>8 DEF Inv, TableInv

\* Every step keeps the invariant.
LEMMA NextInv == Inv /\ [Next]_vars => Inv'
<1> SUFFICES ASSUME Inv, [Next]_vars PROVE Inv'
  OBVIOUS
<1>1. CASE EpollWait
  BY <1>1, EpollWaitStep
<1>2. CASE Dispatch
  BY <1>2, DispatchStep
<1>3. CASE Poll
  BY <1>3, PollStep
<1>4. CASE Walk
  BY <1>4, WalkStep
<1>5. CASE AcceptFails
  BY <1>5, AcceptFailsStep
<1>6. ASSUME NEW c \in Clients, AcceptEpoll(c) PROVE Inv'
  BY <1>6, AcceptEpollStep
<1>7. ASSUME NEW c \in Clients, AcceptPoll(c) PROVE Inv'
  BY <1>7, AcceptPollStep
<1>8. ASSUME NEW c \in Clients, Recv(c) PROVE Inv'
  BY <1>8, RecvStep
<1>9. ASSUME NEW c \in Clients, Send(c) PROVE Inv'
  BY <1>9, SendStep
<1>10. ASSUME NEW c \in Callers[program], Client(c) PROVE Inv'
  <2>1. c \in Clients
    BY EchoAssumption DEF Inv, Typed
  <2> QED
    BY <1>10, <2>1, ClientStep
<1>11. ASSUME NEW c \in Clients, AcceptOverruns(c) PROVE Inv'
  BY <1>11, AcceptOverrunsStep
<1>12. CASE UNCHANGED vars
  <2> USE <1>12 DEF vars, peerVars, serverVars, echoVars, tableVars, Inv
  <2>1. Typed'
    BY DEF Typed
  <2>2. StreamInv'
    BY DEF StreamInv, Flows, Stream, Echoed, Rising
  <2>3. LoopInv' /\ SocketInv'
    BY DEF LoopInv, SocketInv, Open
  <2>4. TableInv'
    BY DEF TableInv, SlotInv, Slot, Handled, Taken
  <2> QED
    BY <2>1, <2>2, <2>3, <2>4
<1> QED
  BY <1>1, <1>2, <1>3, <1>4, <1>5, <1>6, <1>7, <1>8, <1>9, <1>10, <1>11, <1>12
  DEF Next, Server

\* The invariant of the streams is stronger than the property.
LEMMA StreamProperty == Inv => EchoUntilShort
<1> SUFFICES ASSUME Inv, NEW c \in Clients
             PROVE  LET stream == got[c] \o tx[c]
                        rest == IF cur = c THEN held ELSE 0
                    IN  /\ \A n \in 1 .. Len(stream) - 1 : stream[n] < stream[n + 1]
                        /\ c \in conns \ short => stream = [n \in 1 .. recvd[c] - rest |-> n]
  BY DEF EchoUntilShort
<1>1. Rising(Stream(c), Echoed(c)) /\ (c \notin short => Stream(c) = First(Echoed(c)))
  BY DEF Inv, StreamInv, Flows
<1>2. c \notin short =>
          got[c] \o tx[c] = [n \in 1 .. recvd[c] - (IF cur = c THEN held ELSE 0) |-> n]
  BY <1>1 DEF Stream, First, Echoed
<1> QED
  BY <1>1, <1>2 DEF Rising, Stream

\* The table has one slot for a descriptor and the descriptor's handler.
LEMMA TableProperty == Inv => PollTable
<1> SUFFICES ASSUME Inv, program = "poll" PROVE PollTable
  BY DEF PollTable
<1>1. SlotInv
  BY DEF Inv, TableInv
<1>2. ASSUME NEW c \in conns
      PROVE  Cardinality({s \in 1 .. Len(pfds) : pfds[s].fd = fd[c]}) = 1
  <2>1. PICK s \in 1 .. Len(pfds) : pfds[s].fd = fd[c]
    BY <1>1 DEF SlotInv, Handled
  <2>2. fd[c] # -1
    BY DEF Inv, SocketInv, Open
  <2>3. \A t \in 1 .. Len(pfds) : pfds[t].fd = fd[c] => t = s
    BY <1>1, <2>1, <2>2 DEF SlotInv, Slot
  <2>4. {t \in 1 .. Len(pfds) : pfds[t].fd = fd[c]} = {s}
    BY <2>1, <2>3
  <2> QED
    BY <2>4, FS_Singleton
<1>3. \A c \in conns : handlers[fd[c]] = c
  BY <1>1 DEF SlotInv, Handled
<1>4. {pfds[s].fd : s \in 1 .. Len(pfds)} \subseteq {-1, ListenFd} \cup {fd[c] : c \in conns}
  BY <1>1 DEF SlotInv, Slot
<1>5. \A s \in 1 .. Len(pfds) : pfds[s].revents # {} => pfds[s].fd # -1
  BY <1>1 DEF SlotInv, Slot
<1>6. loop \in {"recv", "send"} => cur \in conns
  BY <1>1 DEF SlotInv, Taken, Calls
<1>7. Len(pfds) <= max_fds
  BY <1>1 DEF SlotInv
<1> QED
  BY <1>2, <1>3, <1>4, <1>5, <1>6, <1>7 DEF PollTable

\* Of every state of these servers: streams that rise, a handler for the
\* event under way, descriptors that differ, and a table of the poll server
\* that has one slot for each connection and, with its holes, no more than
\* max_fds; the step that would write one more is the last the model takes.
THEOREM Inductive == Spec => []Inv
<1>1. Init => Inv
  BY InitInv
<1>2. Inv /\ [Next]_vars => Inv'
  BY NextInv
<1> QED
  BY <1>1, <1>2, PTL DEF Spec

\* What a naive server or the poll server sends to a client is in order,
\* without repetition, and everything it took until a send was short (or
\* until the poll server overran its table),
\* whatever the sizes of the buffers and however clients interleave.
THEOREM EchoesUntilShort == Spec => []EchoUntilShort
<1>1. Inv => EchoUntilShort
  BY StreamProperty
<1> QED
  BY <1>1, Inductive, PTL

\* As long as the poll server has not overrun its table, which add_fd does
\* once it has used every slot: no more than max_fds slots, one slot and the
\* right handler for each connection, although slots are emptied and added
\* while the table is walked and descriptors are used again.
THEOREM TableKept == Spec => []PollTable
<1>1. Inv => PollTable
  BY TableProperty
<1> QED
  BY <1>1, Inductive, PTL
=============================================================================
