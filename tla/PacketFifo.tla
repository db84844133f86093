----------------------------- MODULE PacketFifo -----------------------------
(* What a ring of src/wireguard/tun_windows/ring.rs promises its two ends: a
   queue of packets.  A packet is taken whole, in the order of the writes, once;
   a write is refused only when the packet would leave no byte free, counting
   four bytes of length and the packet rounded up to four. *)
EXTENDS Integers, Sequences

CONSTANTS Capacity,  \* bytes
          Packets    \* records with a field len

VARIABLES queue,  \* the packets written and not yet read
          used,   \* the bytes they take
          got,    \* the packet the last read returned
          wrote   \* what the last write returned

vars == <<queue, used, got, wrote>>

AlignUp(len) == ((len + 3) \div 4) * 4
Size(p) == 4 + AlignUp(p.len)
HasRoom(p) == used + Size(p) < Capacity

Put(p) ==
  /\ HasRoom(p)
  /\ queue' = Append(queue, p)
  /\ used' = used + Size(p)
  /\ wrote' = "ok"
  /\ UNCHANGED got

Refuse(p) ==
  /\ ~HasRoom(p)
  /\ wrote' = "full"
  /\ UNCHANGED <<queue, used, got>>

Get ==
  /\ queue # << >>
  /\ got' = Head(queue)
  /\ queue' = Tail(queue)
  /\ used' = used - Size(Head(queue))
  /\ UNCHANGED wrote

Next == Get \/ \E p \in Packets : Put(p) \/ Refuse(p)
Init == queue = << >> /\ used = 0
Spec == Init /\ [][Next]_vars
=============================================================================
