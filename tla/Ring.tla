------------------------------- MODULE Ring -------------------------------
(* The shared-memory ring of src/wireguard/tun_windows/ring.rs between this
   program and the wintun driver.  There are two: on the one the program is the
   reader (TunRegisterRings::read), on the other the writer
   (TunRegisterRings::write); the driver, which is not in src/, follows the
   same protocol at the other end.  This module is one ring with the program's
   code at both ends.  Every atomic load or store, every copy of a record and
   every use of the event is a step of its own; all are sequentially consistent.

   Offsets are bytes.  Of a record, the four bytes of the length hold that
   length, and each byte of the packet its identity.  Nothing wraps inside a
   record: the data go on past Capacity. *)
EXTENDS Integers, Sequences

CONSTANTS Capacity,  \* TUN_RING_CAPACITY
          MaxLen,    \* bound on a packet's length (0xffff)
          Lens,      \* the packet lengths that occur
          Ids,       \* identities of packets
          NoByte     \* a byte never written

ASSUME RingAssumption ==
  /\ Capacity \in Nat \ {0} /\ Capacity % 4 = 0
  /\ MaxLen \in Nat /\ Lens \subseteq 1..MaxLen
  /\ Ids \cap (Nat \cup {NoByte}) = {} /\ NoByte \notin Nat

VARIABLES head, tail, alertable, data,  \* TunRing
          event,  \* tail_moved, which resets itself when a wait ends
          rpc,    \* where the reader is
          end,    \* the tail the reader loaded
          next,   \* the head it will store
          buf,    \* the reader's buffer
          got,    \* the packet the last read returned
          wpc,    \* where the writer is
          pkt,    \* the packet the writer was given
          wrote,  \* what the last write returned
          queue,  \* history: the packets published and not yet read
          places  \* history: where their records start

shared == <<head, tail, alertable, data, event>>
reader == <<rpc, end, next, buf, got>>
writer == <<wpc, pkt, wrote>>
history == <<queue, places>>
vars == <<shared, reader, writer, history>>

Packets == [len : Lens, id : Ids]
NoPacket == [len |-> 0, id |-> NoByte]
Offsets == {n \in 0..(Capacity - 1) : n % 4 = 0}
Bytes == 0..(Capacity + MaxLen)

\* align_4.
AlignUp(len) == ((len + 3) \div 4) * 4

ReaderStates == {"first_read", "alert", "second_read", "copy", "advance", "wait", "woken", "invalid"}
WriterStates == {"idle", "copy", "publish", "look", "signal"}

TypeOK ==
  /\ head \in Offsets /\ tail \in Offsets /\ end \in Offsets /\ next \in Offsets
  /\ alertable \in BOOLEAN /\ event \in BOOLEAN
  /\ data \in [Bytes -> Ids \cup Lens \cup {NoByte}]
  /\ rpc \in ReaderStates /\ wpc \in WriterStates
  /\ buf \in Packets \cup {NoPacket} /\ got \in Packets \cup {NoPacket}
  /\ pkt \in Packets \cup {NoPacket}
  /\ wpc \in {"copy", "publish"} => pkt \in Packets
  /\ wrote \in {"ok", "full"}
  /\ queue \in Seq(Packets) /\ places \in Seq(Offsets)

Init ==
  /\ head = 0 /\ tail = 0 /\ end = 0 /\ next = 0
  /\ alertable = FALSE /\ event = FALSE
  /\ data = [b \in Bytes |-> NoByte]
  /\ rpc = "first_read" /\ wpc = "idle"
  /\ buf = NoPacket /\ got = NoPacket /\ pkt = NoPacket
  /\ wrote = "ok"
  /\ queue = << >> /\ places = << >>

-----------------------------------------------------------------------------
(* The reader: TunRing::read and TunRegisterRings::read around it. *)

\* Load head and tail.  Nothing there: set alertable and look again, and wait
\* only if there is still nothing.
ReadLoads ==
  /\ rpc \in {"first_read", "second_read"}
  /\ rpc' = IF head # tail THEN "copy"
            ELSE IF rpc = "first_read" THEN "alert" ELSE "wait"
  /\ end' = tail
  /\ UNCHANGED <<shared, next, buf, got, writer, history>>

SetAlertable_WaitsAtOnce ==
  /\ rpc = "alert"
  /\ rpc' = "wait" /\ alertable' = TRUE
  /\ UNCHANGED <<head, tail, data, event, end, next, buf, got, writer, history>>

SetAlertable ==
  /\ rpc = "alert"
  /\ rpc' = "second_read" /\ alertable' = TRUE
  /\ UNCHANGED <<head, tail, data, event, end, next, buf, got, writer, history>>

\* The length stored at head, if one is.
LenAt(h) == data[h]
RecordAfter(h) == h + 4 + AlignUp(LenAt(h))

\* Is there a whole record between head and tail?
SoundAt(h, t) ==
  /\ h < Capacity
  /\ LenAt(h) \in 0..MaxLen
  /\ RecordAfter(h) <= (IF h > t THEN t + Capacity ELSE t)

\* Check and copy the record.  Its bytes must be those of one packet; anything
\* else that is in them would be a torn read, which buf shows as no packet.
ReadCopies ==
  /\ rpc = "copy"
  /\ IF SoundAt(head, end)
     THEN /\ rpc' = "advance"
          /\ next' = RecordAfter(head) % Capacity
          /\ buf' = LET bytes == {data[b] : b \in (head + 4)..(head + 3 + LenAt(head))}
                    IN IF \E id \in Ids : bytes = {id}
                       THEN [len |-> LenAt(head), id |-> CHOOSE id \in Ids : bytes = {id}]
                       ELSE NoPacket
     ELSE rpc' = "invalid" /\ UNCHANGED <<next, buf>>
  /\ UNCHANGED <<shared, end, got, writer, history>>

\* Store the new head and return the packet; the caller reads again.
ReadAdvances ==
  /\ rpc = "advance"
  /\ rpc' = "first_read"
  /\ head' = next
  /\ got' = buf
  /\ queue' = Tail(queue) /\ places' = Tail(places)
  /\ UNCHANGED <<tail, alertable, data, event, end, next, buf, writer>>

WaitEnds ==
  /\ rpc = "wait" /\ event
  /\ rpc' = "woken" /\ event' = FALSE
  /\ UNCHANGED <<head, tail, alertable, data, end, next, buf, got, writer, history>>

ClearAlertable_WaitsTwice ==
  /\ rpc = "woken" /\ event
  /\ rpc' = "first_read" /\ alertable' = FALSE /\ event' = FALSE
  /\ UNCHANGED <<head, tail, data, end, next, buf, got, writer, history>>

ClearAlertable ==
  /\ rpc = "woken"
  /\ rpc' = "first_read" /\ alertable' = FALSE
  /\ UNCHANGED <<head, tail, data, event, end, next, buf, got, writer, history>>

-----------------------------------------------------------------------------
(* The writer: TunRing::write and TunRegisterRings::write around it. *)

NewTail(p) == tail + 4 + AlignUp(p.len)

Fits_WhenExact(p) == NewTail(p) <= (IF head > tail THEN head ELSE head + Capacity)

\* An equal head and tail must mean empty, so a record may not fill the ring.
Fits(p) == NewTail(p) < (IF head > tail THEN head ELSE head + Capacity)

\* Load head and tail.  A packet that does not fit is dropped: write returns
\* Ok(0) for it.
WriteLoads(p) ==
  /\ wpc = "idle"
  /\ IF Fits(p)
     THEN wpc' = "copy" /\ pkt' = p /\ UNCHANGED wrote
     ELSE wrote' = "full" /\ UNCHANGED <<wpc, pkt>>
  /\ UNCHANGED <<shared, reader, history>>

WriteCopies ==
  /\ wpc = "copy"
  /\ wpc' = "publish"
  /\ data' = [b \in Bytes |->
                IF b \in tail..(tail + 3) THEN pkt.len
                ELSE IF b \in (tail + 4)..(tail + 3 + pkt.len) THEN pkt.id
                ELSE data[b]]
  /\ UNCHANGED <<head, tail, alertable, event, reader, pkt, wrote, history>>

Publish ==
  /\ wpc = "publish"
  /\ wpc' = "look"
  /\ tail' = NewTail(pkt) % Capacity
  /\ wrote' = "ok"
  /\ queue' = Append(queue, pkt) /\ places' = Append(places, tail)
  /\ UNCHANGED <<head, alertable, data, event, reader, pkt>>

LookAtAlertable ==
  /\ wpc = "look"
  /\ wpc' = IF alertable THEN "signal" ELSE "idle"
  /\ UNCHANGED <<shared, reader, pkt, wrote, history>>

SetEvent ==
  /\ wpc = "signal"
  /\ wpc' = "idle" /\ event' = TRUE
  /\ UNCHANGED <<head, tail, alertable, data, reader, pkt, wrote, history>>

Read == ReadLoads \/ SetAlertable \/ ReadCopies \/ ReadAdvances \/ WaitEnds \/ ClearAlertable
WriteGoesOn == WriteCopies \/ Publish \/ LookAtAlertable \/ SetEvent
Next == Read \/ WriteGoesOn \/ \E p \in Packets : WriteLoads(p)

\* The reader and the writer keep taking steps once they are in a call, and the
\* caller of read (tun_packet_processing, for one) calls it again and
\* again; nothing makes the driver write.
Fairness == WF_vars(Read) /\ WF_vars(WriteGoesOn)

Spec == Init /\ [][Next]_vars
FairSpec == Spec /\ Fairness

-----------------------------------------------------------------------------
(* Properties. *)

\* A reader that is about to wait, or waits, on packets that are there has a
\* wake-up on its way: the event is set, or the writer is past the tail and will
\* still find alertable set.  Storing alertable after the second read, or
\* looking at it before moving the tail, would break this (ring.rs:174-188, 210).
WakeupOnItsWay ==
  rpc = "wait" /\ head # tail =>
    event \/ wpc = "signal" \/ (wpc = "look" /\ alertable)

\* The bytes between head and tail.
Used == IF head <= tail THEN tail - head ELSE tail + Capacity - head

Fifo == INSTANCE PacketFifo WITH used <- Used

\* The ring is a bounded queue of packets: none is lost, torn, doubled or
\* reordered, however the records wrap, and one is refused only when it would
\* fill the ring.
ImplementsFifo == Fifo!Spec

\* A packet that is in the ring is read, whatever it is between: a read that
\* goes to sleep is woken.
EveryPacketRead == head # tail ~> rpc = "advance"
=============================================================================
