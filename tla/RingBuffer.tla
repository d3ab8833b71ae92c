----------------------------- MODULE RingBuffer -----------------------------
(***************************************************************************)
(* class RingBuffer of network/tcp_echo/server_epollout_handle.cpp (the    *)
(* same class is in server_epollout_response.cpp): max_pkt_size bytes of   *)
(* which one stays unused, and two counters f <= p that are never reduced: *)
(* the bytes from f to p are held, byte k in slot k % max_pkt_size.  The   *)
(* two iovec functions describe the free and the held bytes as one or two  *)
(* contiguous blocks, for readv/recvmsg and the like.                      *)
(***************************************************************************)
EXTENDS Integers, Sequences

CONSTANT max_pkt_size

ASSUME RingAssumption == max_pkt_size \in Nat \ {0, 1}

RingSlots == 0 .. max_pkt_size - 1

get_blank_size(f, p) == max_pkt_size - 1 - (p - f)
get_exist_size(f, p) == p - f

\* struct iovec: iov_base is a slot here.
Block(base, len) == [base |-> base, len |-> len]

\* Mutant: no case of its own for mf = 1.
blank_iovec_no_mf_1(f, p) ==
    LET mf == f % max_pkt_size
        mp == p % max_pkt_size
    IN  CASE mp < mf             -> <<Block(mp, mf - mp - 1)>>
          [] mf <= mp /\ mf = 0  -> <<Block(mp, max_pkt_size - mp - 1)>>
          [] mf <= mp /\ mf > 0  -> <<Block(mp, max_pkt_size - mp), Block(0, mf - 1)>>

get_blank_iovec(f, p) ==
    LET mf == f % max_pkt_size
        mp == p % max_pkt_size
    IN  CASE mp < mf             -> <<Block(mp, mf - mp - 1)>>
          [] mf <= mp /\ mf = 0  -> <<Block(mp, max_pkt_size - mp - 1)>>
          [] mf <= mp /\ mf = 1  -> <<Block(mp, max_pkt_size - mp)>>
          [] mf <= mp /\ mf > 1  -> <<Block(mp, max_pkt_size - mp), Block(0, mf - 1)>>

get_exist_iovec(f, p) ==
    LET mf == f % max_pkt_size
        mp == p % max_pkt_size
    IN  CASE mf <= mp            -> <<Block(mf, mp - mf)>>
          [] mp < mf /\ mp = 0   -> <<Block(mf, max_pkt_size - mf)>>
          [] mp < mf /\ mp > 0   -> <<Block(mf, max_pkt_size - mf), Block(0, mp)>>

\* The bytes of a list of blocks.
Total(iov) == IF Len(iov) = 1 THEN iov[1].len ELSE iov[1].len + iov[2].len

\* The slot of byte k of a list of blocks, counted from 0.
SlotOf(iov, k) ==
    IF k < iov[1].len THEN iov[1].base + k ELSE iov[2].base + (k - iov[1].len)
=============================================================================
