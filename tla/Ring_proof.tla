----------------------------- MODULE Ring_proof -----------------------------
(* The ring is a bounded queue of whole packets, offsets stay in it and       *)
(* aligned, and no wake-up is lost, for every capacity, every bound on        *)
(* packets and every set of them.                                             *)
EXTENDS Ring, SequenceTheorems, TLAPS

USE RingAssumption

\* Division with remainder.
LEMMA DivMod ==
  ASSUME NEW n \in Nat, NEW d \in Nat \ {0}
  PROVE  /\ n \div d \in Nat /\ n % d \in 0..(d - 1)
         /\ n = d * (n \div d) + (n % d)
OBVIOUS

\* align_4 (ring.rs:60) rounds up to a multiple of four.
LEMMA AlignedLength ==
  ASSUME NEW len \in Nat
  PROVE  AlignUp(len) \in Nat /\ AlignUp(len) % 4 = 0 /\ len <= AlignUp(len)
BY DEF AlignUp

\* An aligned number taken modulo the capacity is an offset.
LEMMA WrappedOffset ==
  ASSUME NEW n \in Nat, n % 4 = 0
  PROVE  n % Capacity \in Offsets
<1> DEFINE c == Capacity \div 4
           q == n \div Capacity
           r == n % Capacity
           m == c * q
<1>1. c \in Nat /\ Capacity = 4 * c
  OBVIOUS
<1>2. q \in Nat /\ r \in 0..(Capacity - 1) /\ n = Capacity * q + r
  BY DivMod
<1>3. m \in Nat /\ Capacity * q = 4 * m
  BY <1>1, <1>2
<1>4. r % 4 = 0
  <2> HIDE DEF c, q, r, m
  <2> QED
    BY <1>2, <1>3
<1>5. QED
  BY <1>2, <1>4 DEF Offsets

\* The place after a record is an offset: where read and write move to.
LEMMA Moved ==
  ASSUME NEW o \in Offsets, NEW len \in Nat
  PROVE  (o + 4 + AlignUp(len)) % Capacity \in Offsets
<1>1. o \in Nat /\ o % 4 = 0
  BY DEF Offsets
<1>2. o + 4 + AlignUp(len) \in Nat /\ (o + 4 + AlignUp(len)) % 4 = 0
  BY <1>1, AlignedLength
<1>3. QED
  BY <1>2, WrappedOffset

LEMMA LensAreNumbers == Lens \subseteq Nat
OBVIOUS

\* The bytes of the record of a packet.
Size(p) == 4 + AlignUp(p.len)

LEMMA SizeBounds ==
  ASSUME NEW p \in Packets
  PROVE  /\ p.len \in Lens /\ p.len \in Nat /\ 0 < p.len /\ p.len <= MaxLen /\ p.id \in Ids
         /\ Size(p) \in Nat /\ 4 + p.len <= Size(p)
<1>1. p.len \in Lens /\ p.id \in Ids
  BY DEF Packets
<1>2. \A n \in Lens : n \in Nat /\ 0 < n /\ n <= MaxLen
  <2>1. \A n \in 1..MaxLen : n \in Nat /\ 0 < n /\ n <= MaxLen
    OBVIOUS
  <2>2. Lens \subseteq 1..MaxLen
    OBVIOUS
  <2>3. QED
    BY <2>1, <2>2, Zenon
<1>3. Size(p) \in Nat /\ 4 + p.len <= Size(p)
  <2>1. PICK len \in Nat : len = p.len
    BY <1>1, <1>2
  <2>2. AlignUp(len) \in Nat /\ len <= AlignUp(len)
    BY AlignedLength
  <2>3. Size(p) = 4 + AlignUp(len)
    BY <2>1 DEF Size
  <2>4. QED
    BY <2>1, <2>2, <2>3
<1>4. QED
  BY <1>1, <1>2, <1>3

\* Less than twice round the ring.
LEMMA WrapsOnce ==
  ASSUME NEW n \in Nat, n < Capacity + Capacity
  PROVE  n % Capacity = IF n < Capacity THEN n ELSE n - Capacity
<1> DEFINE q == n \div Capacity
           r == n % Capacity
<1>1. q \in Nat /\ r \in 0..(Capacity - 1) /\ n = Capacity * q + r
  BY DivMod
<1> HIDE DEF q, r
<1>2. q < 2
  <2>1. ASSUME ~(q < 2) PROVE FALSE
    <3>1. PICK k \in Nat : q = k + 2
      <4>1. q - 2 \in Nat
        BY <1>1, <2>1
      <4>2. q = (q - 2) + 2
        BY <1>1
      <4>3. QED
        BY <4>1, <4>2
    <3>2. Capacity * q = Capacity * k + (Capacity + Capacity) /\ Capacity * k \in Nat
      BY <3>1
    <3>3. QED
      BY <1>1, <3>2
  <2>2. QED
    BY <2>1
<1>3. CASE q = 0
  BY <1>1, <1>3 DEF r
<1>4. CASE q = 1
  BY <1>1, <1>4 DEF r
<1>5. QED
  BY <1>1, <1>2, <1>3, <1>4

\* The offset o, counted from h on: past the end of the ring if it comes before h.
Place(o, h) == IF o >= h THEN o ELSE o + Capacity

LEMMA OffsetRange ==
  ASSUME NEW o \in Offsets
  PROVE  o \in Nat /\ o + 4 <= Capacity /\ o < Capacity
BY DEF Offsets

\* Going on by n from o, no further than once round to h.
LEMMA GoOn ==
  ASSUME NEW o \in Offsets, NEW h \in Offsets, NEW n \in Nat, Place(o, h) + n < h + Capacity,
         NEW e, e = (o + n) % Capacity
  PROVE  Place(e, h) = Place(o, h) + n
<1>1. o \in Nat /\ o < Capacity /\ h \in Nat /\ h < Capacity
  BY OffsetRange
<1>2. o + n \in Nat /\ o + n < Capacity + Capacity
  BY <1>1 DEF Place
<1>3. e = IF o + n < Capacity THEN o + n ELSE (o + n) - Capacity
  BY <1>2, WrapsOnce
<1>4. QED
  BY <1>1, <1>3 DEF Place

\* Places after the first record, counted from where that ends.
LEMMA MoveOn ==
  ASSUME NEW h \in Offsets, NEW n \in Nat, n < Capacity, NEW g, g = (h + n) % Capacity,
         NEW o \in Offsets, h + n <= Place(o, h)
  PROVE  Place(o, g) = Place(o, h) - ((h + n) - g)
<1>1. o \in Nat /\ o < Capacity /\ h \in Nat /\ h < Capacity
  BY OffsetRange
<1>2. g = IF h + n < Capacity THEN h + n ELSE (h + n) - Capacity
  BY <1>1, WrapsOnce
<1>3. QED
  BY <1>1, <1>2 DEF Place

\* Records one of which ends before the other starts, in the bytes of the ring.
LEMMA Apart ==
  ASSUME NEW o \in Offsets, NEW t \in Offsets, NEW h \in Offsets, NEW n \in Nat, NEW k \in Nat,
         Place(o, h) + n <= Place(t, h), Place(t, h) + k < h + Capacity
  PROVE  o + n <= t \/ t + k < o
BY OffsetRange DEF Place

\* A record that starts in the ring ends in its trailing bytes at the latest.
LEMMA RecordBytes ==
  ASSUME NEW o \in Nat, o + 4 <= Capacity, NEW n \in Nat, n <= MaxLen, NEW b \in o..(o + 3 + n)
  PROVE  b \in Bytes
BY DEF Bytes

LEMMA NotIn ==
  ASSUME NEW o \in Nat, NEW n \in Nat, NEW k \in Nat, 4 + n <= k,
         NEW t \in Nat, NEW l \in Nat, NEW s \in Nat, 4 + l <= s,
         o + k <= t \/ t + s < o, NEW b \in o..(o + 3 + n)
  PROVE  b \notin t..(t + 3) /\ b \notin (t + 4)..(t + 3 + l)
OBVIOUS

LEMMA TailPlace ==
  ASSUME head \in Offsets, tail \in Offsets
  PROVE  /\ Used \in Nat /\ Used < Capacity
         /\ Place(tail, head) = head + Used
BY OffsetRange DEF Used, Place

\* A packet is written if the bytes between tail and head, one of them free, are
\* enough for its record.
LEMMA FitsIsRoom ==
  ASSUME head \in Offsets, tail \in Offsets, NEW p \in Packets
  PROVE  Fits(p) <=> Used + Size(p) < Capacity
<1>1. head \in Nat /\ tail \in Nat /\ p.len \in Nat /\ Size(p) \in Nat
  BY OffsetRange, SizeBounds
<1>2. NewTail(p) = tail + Size(p)
  BY <1>1, AlignedLength DEF Size, NewTail
<1>3. QED
  BY <1>1, <1>2 DEF Fits, Used

-----------------------------------------------------------------------------
(* What the bytes, the history and the two ends have to do with each other.   *)

\* Where the i-th record ends, counted from head on.
RecordEnd(i) == Place(places[i], head) + Size(queue[i])

\* The bytes of a whole packet start at o.
Holds(o, p) == data[o] = p.len /\ \A b \in (o + 4)..(o + 3 + p.len) : data[b] = p.id

\* The records lie one behind the other, from head to tail.
Chained ==
  /\ Len(places) = Len(queue)
  /\ IF queue = << >> THEN head = tail ELSE places[1] = head
  /\ \A i \in 1..Len(queue) :
       (places[i] + Size(queue[i])) % Capacity = IF i = Len(queue) THEN tail ELSE places[i + 1]
  /\ \A i, j \in 1..Len(queue) : i < j => RecordEnd(i) <= Place(places[j], head)
  /\ \A i \in 1..Len(queue) : RecordEnd(i) <= Place(tail, head)

Stored == \A i \in 1..Len(queue) : Holds(places[i], queue[i])

\* A writer on its way has room, whatever the reader has done since it looked.
Writing ==
  /\ wpc \in {"copy", "publish"} => Fits(pkt)
  /\ wpc = "publish" => Holds(tail, pkt)

\* A reader on its way has a whole record in front of the tail it has seen, and
\* then the packet.
Reading ==
  /\ rpc = "copy" => queue # << >> /\ head + Size(queue[1]) <= Place(end, head)
  /\ rpc = "advance" =>
       queue # << >> /\ buf = queue[1] /\ next = (head + Size(queue[1])) % Capacity
  /\ rpc # "invalid"

RingInv == Chained /\ Stored /\ Writing /\ Reading

\* The history is one of as many packets as places.
LEMMA Records ==
  ASSUME TypeOK, Chained
  PROVE  /\ Len(queue) \in Nat
         /\ \A i \in 1..Len(queue) : queue[i] \in Packets /\ places[i] \in Offsets
         /\ queue = << >> <=> Len(queue) = 0
         /\ queue = << >> <=> places = << >>
<1>1. queue \in Seq(Packets) /\ places \in Seq(Offsets) /\ Len(places) = Len(queue)
  BY DEF TypeOK, Chained
<1>2. /\ Len(queue) \in Nat /\ \A i \in 1..Len(queue) : queue[i] \in Packets
      /\ queue = << >> <=> Len(queue) = 0
  BY <1>1, LenProperties, EmptySeq
<1>3. /\ \A i \in 1..Len(places) : places[i] \in Offsets
      /\ places = << >> <=> Len(places) = 0
  BY <1>1, LenProperties, EmptySeq
<1>4. QED
  BY <1>1, <1>2, <1>3

\* The first record is where the reader looks.
LEMMA FirstRecord ==
  ASSUME TypeOK, Chained, queue # << >>
  PROVE  /\ 1 \in 1..Len(queue) /\ queue[1] \in Packets
         /\ places[1] = head /\ RecordEnd(1) = head + Size(queue[1])
         /\ head + Size(queue[1]) <= Place(tail, head)
<1>1. Len(queue) \in Nat /\ Len(queue) # 0
  BY Records
<1>2. 1 \in 1..Len(queue) /\ queue[1] \in Packets
  BY <1>1, Records
<1>3. places[1] = head
  BY DEF Chained
<1>4. head \in Nat
  BY OffsetRange DEF TypeOK
<1>5. RecordEnd(1) = head + Size(queue[1])
  BY <1>3, <1>4 DEF RecordEnd, Place
<1>6. RecordEnd(1) <= Place(tail, head)
  BY <1>2 DEF Chained
<1>7. QED
  BY <1>2, <1>3, <1>5, <1>6

\* The packet that a sound record at head holds is the first of the queue.
LEMMA ReadsFirst ==
  ASSUME TypeOK, RingInv, rpc = "copy"
  PROVE  /\ SoundAt(head, end)
         /\ RecordAfter(head) = head + Size(queue[1])
         /\ {data[b] : b \in (head + 4)..(head + 3 + LenAt(head))} = {queue[1].id}
         /\ LenAt(head) = queue[1].len /\ queue[1] \in Packets
<1>1. queue # << >> /\ head + Size(queue[1]) <= Place(end, head)
  BY DEF RingInv, Reading
<1>2. 1 \in 1..Len(queue) /\ queue[1] \in Packets /\ places[1] = head
  BY <1>1, FirstRecord DEF RingInv
<1>3. Holds(head, queue[1])
  BY <1>2 DEF RingInv, Stored
<1>4. LenAt(head) = queue[1].len
  BY <1>3 DEF Holds, LenAt
<1>5. PICK len \in Nat : len = queue[1].len /\ 0 < len /\ len <= MaxLen
  BY <1>2, SizeBounds
<1>6. head \in Nat /\ head < Capacity /\ end \in Nat
  BY OffsetRange DEF TypeOK
<1>7. AlignUp(len) \in Nat
  BY AlignedLength
<1>8. RecordAfter(head) = head + Size(queue[1])
  BY <1>4, <1>5, <1>6, <1>7 DEF RecordAfter, Size
<1>9. SoundAt(head, end)
  BY <1>1, <1>4, <1>5, <1>6, <1>8 DEF SoundAt, Place
<1>10. \A b \in (head + 4)..(head + 3 + len) : data[b] = queue[1].id
  BY <1>3, <1>5 DEF Holds
<1>11. head + 4 \in (head + 4)..(head + 3 + len)
  BY <1>5, <1>6
<1>12. {data[b] : b \in (head + 4)..(head + 3 + len)} = {queue[1].id}
  BY <1>10, <1>11
<1>13. QED
  BY <1>2, <1>4, <1>5, <1>8, <1>9, <1>12

LEMMA Copied ==
  ASSUME TypeOK, RingInv, ReadCopies
  PROVE  rpc' = "advance" /\ next' = (head + Size(queue[1])) % Capacity /\ buf' = queue[1]
<1>1. rpc = "copy"
  BY DEF ReadCopies
<1>2. /\ SoundAt(head, end) /\ RecordAfter(head) = head + Size(queue[1])
      /\ {data[b] : b \in (head + 4)..(head + 3 + LenAt(head))} = {queue[1].id}
      /\ LenAt(head) = queue[1].len /\ queue[1] \in Packets
  BY <1>1, ReadsFirst
<1>3. rpc' = "advance" /\ next' = (head + Size(queue[1])) % Capacity
  BY <1>2 DEF ReadCopies
<1>4. queue[1].id \in Ids
  BY <1>2 DEF Packets
<1>5. (CHOOSE id \in Ids : {queue[1].id} = {id}) = queue[1].id
  BY <1>4
<1>6. buf' = [len |-> queue[1].len, id |-> queue[1].id]
  BY <1>2, <1>4, <1>5 DEF ReadCopies
<1>7. QED
  BY <1>2, <1>3, <1>6 DEF Packets

LEMMA TypeInit == Init => TypeOK
<1> SUFFICES ASSUME Init PROVE TypeOK
  OBVIOUS
<1>1. 0 \in Offsets
  BY DEF Offsets
<1>2. data \in [Bytes -> Ids \cup Lens \cup {NoByte}]
  BY DEF Init
<1>3. queue \in Seq(Packets) /\ places \in Seq(Offsets)
  BY EmptySeq DEF Init
<1>4. QED
  BY <1>1, <1>2, <1>3 DEF Init, TypeOK, ReaderStates, WriterStates

LEMMA TypeNext == TypeOK /\ RingInv /\ [Next]_vars => TypeOK'
<1> SUFFICES ASSUME TypeOK, RingInv, [Next]_vars PROVE TypeOK'
  OBVIOUS
<1> USE DEF ReaderStates, WriterStates, shared, reader, writer, history
<1>1. CASE ReadLoads
  BY <1>1 DEF TypeOK, ReadLoads
<1>2. CASE SetAlertable
  BY <1>2 DEF TypeOK, SetAlertable
<1>3. CASE ReadCopies
  <2>1. next' \in Offsets /\ buf' \in Packets
    <3>1. rpc' = "advance" /\ next' = (head + Size(queue[1])) % Capacity /\ buf' = queue[1]
      BY <1>3, Copied
    <3>2. queue[1] \in Packets
      BY <1>3, ReadsFirst DEF ReadCopies
    <3>3. PICK len \in Nat : len = queue[1].len
      BY <3>2, SizeBounds
    <3>4. (head + 4 + AlignUp(len)) % Capacity \in Offsets /\ AlignUp(len) \in Nat /\ head \in Nat
      BY Moved, AlignedLength, OffsetRange DEF TypeOK
    <3>5. head + Size(queue[1]) = head + 4 + AlignUp(len)
      BY <3>3, <3>4 DEF Size
    <3>6. QED
      BY <3>1, <3>2, <3>4, <3>5
  <2>2. rpc' \in ReaderStates
    BY <1>3, Copied
  <2>3. UNCHANGED <<shared, end, got, writer, history>>
    BY <1>3 DEF ReadCopies
  <2>4. QED
    BY <2>1, <2>2, <2>3 DEF TypeOK
<1>4. CASE ReadAdvances
  <2>1. queue # << >> /\ places # << >>
    BY <1>4, Records DEF ReadAdvances, RingInv, Reading
  <2>2. Tail(queue) \in Seq(Packets) /\ Tail(places) \in Seq(Offsets)
    BY <2>1, HeadTailProperties DEF TypeOK
  <2>3. queue' \in Seq(Packets) /\ places' \in Seq(Offsets)
    BY <1>4, <2>2 DEF ReadAdvances
  <2>4. QED
    BY <1>4, <2>3 DEF TypeOK, ReadAdvances
<1>5. CASE WaitEnds
  BY <1>5 DEF TypeOK, WaitEnds
<1>6. CASE ClearAlertable
  BY <1>6 DEF TypeOK, ClearAlertable
<1>7. ASSUME NEW p \in Packets, WriteLoads(p) PROVE TypeOK'
  BY <1>7 DEF TypeOK, WriteLoads
<1>8. CASE WriteCopies
  <2>1. pkt.len \in Lens /\ pkt.id \in Ids
    BY <1>8 DEF WriteCopies, TypeOK, Packets
  <2>2. data' \in [Bytes -> Ids \cup Lens \cup {NoByte}]
    BY <1>8, <2>1 DEF TypeOK, WriteCopies
  <2>3. QED
    BY <1>8, <2>2 DEF TypeOK, WriteCopies
<1>9. CASE Publish
  <2>1. pkt.len \in Lens
    BY <1>9 DEF Publish, TypeOK, Packets
  <2>2. pkt.len \in Nat
    BY <2>1, LensAreNumbers
  <2>3. tail' \in Offsets
    BY <1>9, <2>2, Moved DEF Publish, NewTail, TypeOK
  <2>4. queue' \in Seq(Packets) /\ places' \in Seq(Offsets)
    <3>1. pkt \in Packets /\ tail \in Offsets /\ queue \in Seq(Packets) /\ places \in Seq(Offsets)
      BY <1>9 DEF TypeOK, Publish
    <3>2. Append(queue, pkt) \in Seq(Packets) /\ Append(places, tail) \in Seq(Offsets)
      BY <3>1, AppendProperties
    <3>3. QED
      BY <1>9, <3>2 DEF Publish
  <2>5. QED
    BY <1>9, <2>3, <2>4 DEF TypeOK, Publish
<1>10. CASE LookAtAlertable
  BY <1>10 DEF TypeOK, LookAtAlertable
<1>11. CASE SetEvent
  BY <1>11 DEF TypeOK, SetEvent
<1>12. CASE UNCHANGED vars
  BY <1>12 DEF TypeOK, vars
<1>13. QED
  BY <1>1, <1>2, <1>3, <1>4, <1>5, <1>6, <1>7, <1>8, <1>9, <1>10, <1>11, <1>12
     DEF Next, Read, WriteGoesOn

-----------------------------------------------------------------------------
(* Every step keeps that.                                                     *)

LEMMA RingInit == Init => RingInv
<1> SUFFICES ASSUME Init PROVE RingInv
  OBVIOUS
<1>1. Len(queue) = 0 /\ Len(places) = 0 /\ queue = << >> /\ head = tail
  BY EmptySeq DEF Init
<1>2. \A i : i \notin 1..Len(queue)
  BY <1>1
<1>3. Chained /\ Stored
  BY <1>1, <1>2 DEF Chained, Stored
<1>4. QED
  BY <1>3 DEF Init, RingInv, Writing, Reading

\* What stays when no end moves and no byte is written.
LEMMA Unmoved ==
  ASSUME RingInv, UNCHANGED <<head, tail, data, history>>
  PROVE  Chained' /\ Stored' /\ \A p : Fits(p)' = Fits(p)
<1>1. head' = head /\ tail' = tail /\ data' = data /\ queue' = queue /\ places' = places
  BY DEF history
<1>2. Chained'
  BY <1>1 DEF RingInv, Chained, RecordEnd, Place, Size, AlignUp
<1>3. Stored'
  BY <1>1 DEF RingInv, Stored, Holds
<1>4. \A p : Fits(p)' = Fits(p)
  BY <1>1 DEF Fits, NewTail, AlignUp
<1>5. QED
  BY <1>2, <1>3, <1>4

\* A step of the reader that moves nothing is nothing to the writer, and the
\* other way round.
LEMMA ReaderOnly ==
  ASSUME RingInv, UNCHANGED <<head, tail, data, history, writer>>
  PROVE  Chained' /\ Stored' /\ Writing'
<1>1. Chained' /\ Stored' /\ \A p : Fits(p)' = Fits(p)
  BY Unmoved
<1>2. UNCHANGED <<tail, data, wpc, pkt>>
  BY DEF writer
<1>3. QED
  BY <1>1, <1>2 DEF RingInv, Writing, Holds

LEMMA WriterOnly ==
  ASSUME RingInv, UNCHANGED <<head, tail, data, history, reader>>
  PROVE  Chained' /\ Stored' /\ Reading'
<1>1. Chained' /\ Stored'
  BY Unmoved
<1>2. UNCHANGED <<head, queue, rpc, end, next, buf>>
  BY DEF reader, history
<1>3. QED
  BY <1>1, <1>2 DEF RingInv, Reading, Place, Size, AlignUp

\* A reader that sees a packet sees the whole of it in front of the tail.
LEMMA RingReadLoads == TypeOK /\ RingInv /\ ReadLoads => RingInv'
<1> SUFFICES ASSUME TypeOK, RingInv, ReadLoads PROVE RingInv'
  OBVIOUS
<1>1. UNCHANGED <<head, tail, data, history, writer, next, buf>> /\ end' = tail
  BY DEF ReadLoads, shared
<1>2. Chained' /\ Stored' /\ Writing'
  BY <1>1, ReaderOnly
<1>3. head' = head /\ queue' = queue
  BY <1>1 DEF history
<1>4. CASE head # tail
  <2>1. queue # << >>
    BY <1>4 DEF RingInv, Chained
  <2>2. head + Size(queue[1]) <= Place(tail, head)
    BY <2>1, FirstRecord DEF RingInv
  <2>3. rpc' = "copy"
    BY <1>4 DEF ReadLoads
  <2>4. Reading'
    BY <1>1, <1>3, <2>1, <2>2, <2>3 DEF Reading, Place, Size, AlignUp
  <2>5. QED
    BY <1>2, <2>4 DEF RingInv
<1>5. CASE head = tail
  <2>1. rpc' \in {"alert", "wait"}
    BY <1>5 DEF ReadLoads
  <2>2. QED
    BY <1>2, <2>1 DEF RingInv, Reading
<1>6. QED
  BY <1>4, <1>5

LEMMA RingReadCopies == TypeOK /\ RingInv /\ ReadCopies => RingInv'
<1> SUFFICES ASSUME TypeOK, RingInv, ReadCopies PROVE RingInv'
  OBVIOUS
<1>1. UNCHANGED <<head, tail, data, history, writer>>
  BY DEF ReadCopies, shared
<1>2. Chained' /\ Stored' /\ Writing'
  BY <1>1, ReaderOnly
<1>3. rpc' = "advance" /\ next' = (head + Size(queue[1])) % Capacity /\ buf' = queue[1]
  BY Copied
<1>4. queue # << >>
  BY DEF RingInv, Reading, ReadCopies
<1>5. Reading'
  BY <1>1, <1>3, <1>4 DEF Reading, history, Size, AlignUp
<1>6. QED
  BY <1>2, <1>5 DEF RingInv

\* The event and alertable are nothing to the records.
LEMMA RingSignals ==
  TypeOK /\ RingInv /\ (SetAlertable \/ WaitEnds \/ ClearAlertable) => RingInv'
<1> SUFFICES ASSUME TypeOK, RingInv, SetAlertable \/ WaitEnds \/ ClearAlertable PROVE RingInv'
  OBVIOUS
<1>1. UNCHANGED <<head, tail, data, history, writer>> /\ rpc' \in {"second_read", "woken", "first_read"}
  BY DEF SetAlertable, WaitEnds, ClearAlertable
<1>2. Chained' /\ Stored' /\ Writing'
  BY <1>1, ReaderOnly
<1>3. Reading'
  BY <1>1 DEF Reading
<1>4. QED
  BY <1>2, <1>3 DEF RingInv

LEMMA RingLooks == TypeOK /\ RingInv /\ (LookAtAlertable \/ SetEvent) => RingInv'
<1> SUFFICES ASSUME TypeOK, RingInv, LookAtAlertable \/ SetEvent PROVE RingInv'
  OBVIOUS
<1>1. UNCHANGED <<head, tail, data, history, reader>> /\ wpc' \in {"signal", "idle"}
  BY DEF LookAtAlertable, SetEvent, shared
<1>2. Chained' /\ Stored' /\ Reading'
  BY <1>1, WriterOnly
<1>3. Writing'
  BY <1>1 DEF Writing
<1>4. QED
  BY <1>2, <1>3 DEF RingInv

LEMMA RingWriteLoads == ASSUME TypeOK, RingInv, NEW p \in Packets, WriteLoads(p) PROVE RingInv'
<1>1. UNCHANGED <<head, tail, data, history, reader>>
  BY DEF WriteLoads, shared
<1>2. Chained' /\ Stored' /\ Reading' /\ \A q : Fits(q)' = Fits(q)
  BY <1>1, WriterOnly, Unmoved
<1>3. wpc = "idle"
  BY DEF WriteLoads
<1>4. CASE Fits(p)
  <2>1. wpc' = "copy" /\ pkt' = p
    BY <1>4 DEF WriteLoads
  <2>2. Fits(p)'
    BY <1>2, <1>4
  <2>3. Fits(pkt)'
    BY <1>1, <2>1, <1>4 DEF Fits, NewTail, AlignUp
  <2>4. QED
    BY <1>2, <2>1, <2>3 DEF RingInv, Writing
<1>5. CASE ~Fits(p)
  <2>1. wpc' = "idle"
    BY <1>3, <1>5 DEF WriteLoads
  <2>2. QED
    BY <1>2, <2>1 DEF RingInv, Writing
<1>6. QED
  BY <1>4, <1>5

\* The bytes that are written belong to no record in the ring.
LEMMA RingWriteCopies == TypeOK /\ RingInv /\ WriteCopies => RingInv'
<1> SUFFICES ASSUME TypeOK, RingInv, WriteCopies PROVE RingInv'
  OBVIOUS
<1>1. /\ UNCHANGED <<head, tail, history, reader, pkt>> /\ wpc = "copy" /\ wpc' = "publish"
      /\ data' = [b \in Bytes |->
                    IF b \in tail..(tail + 3) THEN pkt.len
                    ELSE IF b \in (tail + 4)..(tail + 3 + pkt.len) THEN pkt.id
                    ELSE data[b]]
  BY DEF WriteCopies
<1>2. pkt \in Packets /\ head \in Offsets /\ tail \in Offsets /\ Fits(pkt)
  BY <1>1 DEF TypeOK, RingInv, Writing
<1>3. PICK len \in Nat, s \in Nat :
        len = pkt.len /\ s = Size(pkt) /\ 0 < len /\ len <= MaxLen /\ 4 + len <= s
  BY <1>2, SizeBounds
<1>4. tail \in Nat /\ tail + 4 <= Capacity /\ MaxLen \in Nat /\ Capacity \in Nat
  BY <1>2, OffsetRange
<1>5. Holds(tail, pkt)'
  <2>1. tail \in Bytes /\ tail \in tail..(tail + 3)
    BY <1>4 DEF Bytes
  <2>2. data'[tail] = pkt.len
    BY <1>1, <2>1
  <2>3. ASSUME NEW b \in (tail + 4)..(tail + 3 + len) PROVE data'[b] = pkt.id
    <3>1. b \in Bytes /\ b \notin tail..(tail + 3)
      <4>1. b \in tail..(tail + 3 + len) /\ b \notin tail..(tail + 3)
        BY <1>4
      <4>2. QED
        BY <1>3, <1>4, <4>1, RecordBytes
    <3>2. QED
      BY <1>1, <1>3, <2>3, <3>1
  <2>4. QED
    BY <1>1, <1>3, <2>2, <2>3 DEF Holds
<1>6. ASSUME NEW i \in 1..Len(queue) PROVE Holds(places[i], queue[i])'
  <2>1. queue[i] \in Packets /\ places[i] \in Offsets
    BY Records DEF RingInv
  <2>2. PICK n \in Nat, k \in Nat, o \in Offsets :
          n = queue[i].len /\ k = Size(queue[i]) /\ o = places[i] /\ n <= MaxLen /\ 4 + n <= k
    BY <2>1, SizeBounds
  <2>3. Place(o, head) + k <= Place(tail, head)
    BY <2>2 DEF RingInv, Chained, RecordEnd
  <2>4. Place(tail, head) + s < head + Capacity
    <3>1. PICK u \in Nat : u = Used /\ u + s < Capacity
      BY <1>2, <1>3, FitsIsRoom, TailPlace
    <3>2. Place(tail, head) = head + u /\ head \in Nat
      BY <1>2, <3>1, TailPlace, OffsetRange
    <3>3. QED
      BY <1>4, <3>1, <3>2
  <2>5. o + k <= tail \/ tail + s < o
    BY <1>2, <2>3, <2>4, Apart
  <2>6. o \in Nat /\ o + 4 <= Capacity
    BY OffsetRange
  <2>7. ASSUME NEW b \in o..(o + 3 + n) PROVE data'[b] = data[b]
    <3>1. b \in Bytes
      BY <2>2, <2>6, RecordBytes
    <3>2. b \notin tail..(tail + 3) /\ b \notin (tail + 4)..(tail + 3 + len)
      BY <1>3, <1>4, <2>2, <2>5, <2>6, NotIn
    <3>3. QED
      BY <1>1, <1>3, <3>1, <3>2
  <2>8. Holds(o, queue[i])
    BY <2>2 DEF RingInv, Stored
  <2>9. o \in o..(o + 3 + n) /\ \A b \in (o + 4)..(o + 3 + n) : b \in o..(o + 3 + n)
    BY <2>6
  <2>10. data'[o] = queue[i].len /\ \A b \in (o + 4)..(o + 3 + n) : data'[b] = queue[i].id
    BY <2>2, <2>7, <2>8, <2>9 DEF Holds
  <2>11. queue' = queue /\ places' = places
    BY <1>1 DEF history
  <2>12. QED
    BY <2>2, <2>10, <2>11 DEF Holds
<1>7. queue' = queue /\ places' = places /\ head' = head /\ tail' = tail /\ pkt' = pkt
  BY <1>1 DEF history
<1>8. Stored'
  BY <1>6, <1>7 DEF Stored
<1>9. Chained'
  BY <1>7 DEF RingInv, Chained, RecordEnd, Place, Size, AlignUp
<1>10. Writing'
  BY <1>2, <1>5, <1>7 DEF Writing, Fits, NewTail, AlignUp
<1>11. Reading'
  BY <1>1, <1>7 DEF reader, RingInv, Reading, Place, Size, AlignUp
<1>12. QED
  BY <1>8, <1>9, <1>10, <1>11 DEF RingInv

\* The record that is published lies between the tail and where it is then.
LEMMA RingPublish == TypeOK /\ RingInv /\ Publish => RingInv'
<1> SUFFICES ASSUME TypeOK, RingInv, Publish PROVE RingInv'
  OBVIOUS
<1>1. /\ UNCHANGED <<head, data, reader, pkt>> /\ wpc = "publish" /\ wpc' = "look"
      /\ tail' = NewTail(pkt) % Capacity
      /\ queue' = Append(queue, pkt) /\ places' = Append(places, tail)
  BY DEF Publish
<1>2. pkt \in Packets /\ head \in Offsets /\ tail \in Offsets /\ Fits(pkt) /\ Holds(tail, pkt)
  BY <1>1 DEF TypeOK, RingInv, Writing
<1>3. PICK s \in Nat : s = Size(pkt)
  BY <1>2, SizeBounds
<1>4. head \in Nat /\ tail \in Nat /\ Capacity \in Nat
  BY <1>2, OffsetRange
<1>5. tail' = (tail + s) % Capacity
  <2>1. PICK len \in Nat : len = pkt.len
    BY <1>2, SizeBounds
  <2>2. AlignUp(len) \in Nat
    BY AlignedLength
  <2>3. NewTail(pkt) = tail + s
    BY <1>3, <1>4, <2>1, <2>2 DEF NewTail, Size
  <2>4. QED
    BY <1>1, <2>3
<1>6. Place(tail', head) = Place(tail, head) + s /\ Place(tail, head) \in Nat
  <2> DEFINE e == tail'
  <2>0. e = (tail + s) % Capacity
    BY <1>5
  <2> HIDE DEF e
  <2>1. PICK u \in Nat : u = Used /\ u + s < Capacity
    BY <1>2, <1>3, FitsIsRoom, TailPlace
  <2>2. Place(tail, head) = head + u
    BY <1>2, <2>1, TailPlace
  <2>3. Place(tail, head) + s < head + Capacity
    BY <1>4, <2>1, <2>2
  <2>4. Place(e, head) = Place(tail, head) + s
    BY <1>2, <2>0, <2>3, GoOn
  <2>5. Place(tail, head) \in Nat
    BY <1>4, <2>1, <2>2
  <2>6. QED
    BY <2>4, <2>5 DEF e
<1>7. PICK l \in Nat : l = Len(queue) /\ l = Len(places)
  BY Records DEF RingInv, Chained
<1>8. /\ Len(queue') = l + 1 /\ Len(places') = l + 1 /\ queue' # << >>
      /\ \A i \in 1..l : queue'[i] = queue[i] /\ places'[i] = places[i]
      /\ queue'[l + 1] = pkt /\ places'[l + 1] = tail
  <2>1. queue \in Seq(Packets) /\ places \in Seq(Offsets)
    BY DEF TypeOK
  <2>2. /\ Len(queue') = Len(queue) + 1 /\ queue' # << >>
        /\ \A i \in 1..Len(queue) : queue'[i] = queue[i]
        /\ queue'[Len(queue) + 1] = pkt
    BY <1>1, <1>2, <2>1, AppendProperties
  <2>3. /\ Len(places') = Len(places) + 1
        /\ \A i \in 1..Len(places) : places'[i] = places[i]
        /\ places'[Len(places) + 1] = tail
    BY <1>1, <1>2, <2>1, AppendProperties
  <2>4. QED
    BY <1>7, <2>2, <2>3
<1>9. \A i \in 1..(l + 1) : i \in 1..l \/ i = l + 1
  BY <1>7
<1>10. l + 1 \notin 1..l /\ l + 1 \in 1..(l + 1)
  BY <1>7
<1>11. head' = head
  BY <1>1
<1> DEFINE End(i) == Place(places'[i], head) + Size(queue'[i])
<1>12. ASSUME NEW i \in 1..l PROVE End(i) = RecordEnd(i) /\ End(i) \in Nat /\ End(i) <= Place(tail, head)
  <2>1. i \in 1..Len(queue)
    BY <1>7, <1>12
  <2>2. queue[i] \in Packets /\ places[i] \in Offsets
    BY <2>1, Records DEF RingInv
  <2>3. Size(queue[i]) \in Nat /\ places[i] \in Nat
    BY <2>2, SizeBounds, OffsetRange
  <2>4. End(i) = RecordEnd(i)
    BY <1>8, <1>12 DEF RecordEnd
  <2>5. RecordEnd(i) \in Nat
    BY <1>4, <2>3 DEF RecordEnd, Place
  <2>6. RecordEnd(i) <= Place(tail, head)
    BY <2>1 DEF RingInv, Chained
  <2>7. QED
    BY <2>4, <2>5, <2>6
<1>13. End(l + 1) = Place(tail', head)
  BY <1>3, <1>6, <1>8
<1> HIDE DEF End
<1>14. Chained'
  <2>1. places'[1] = head
    <3>1. CASE l = 0
      <4>1. queue = << >>
        BY <1>7, <3>1, Records DEF RingInv
      <4>2. tail = head
        BY <4>1 DEF RingInv, Chained
      <4>3. QED
        BY <1>8, <3>1, <4>2
    <3>2. CASE l # 0
      <4>1. queue # << >> /\ 1 \in 1..l
        BY <1>7, <3>2, Records DEF RingInv
      <4>2. QED
        BY <1>8, <4>1 DEF RingInv, Chained
    <3>3. QED
      BY <3>1, <3>2
  <2>2. ASSUME NEW i \in 1..(l + 1)
        PROVE  (places'[i] + Size(queue'[i])) % Capacity = IF i = l + 1 THEN tail' ELSE places'[i + 1]
    <3>1. CASE i = l + 1
      BY <1>3, <1>5, <1>8, <3>1
    <3>2. CASE i \in 1..l
      <4>1. (places[i] + Size(queue[i])) % Capacity = IF i = l THEN tail ELSE places[i + 1]
        BY <1>7, <3>2 DEF RingInv, Chained
      <4>2. i # l => i + 1 \in 1..l
        BY <1>7, <3>2
      <4>3. i # l + 1
        BY <1>10, <3>2
      <4>4. places'[i + 1] = IF i = l THEN tail ELSE places[i + 1]
        BY <1>8, <4>2
      <4>5. QED
        BY <1>8, <3>2, <4>1, <4>3, <4>4
    <3>3. QED
      BY <1>9, <2>2, <3>1, <3>2
  <2>3. ASSUME NEW i \in 1..(l + 1), NEW j \in 1..(l + 1), i < j
        PROVE  End(i) <= Place(places'[j], head)
    <3>1. i \in 1..l
      BY <1>7, <2>3
    <3>2. CASE j = l + 1
      BY <1>8, <1>12, <3>1, <3>2
    <3>3. CASE j \in 1..l
      <4>1. RecordEnd(i) <= Place(places[j], head)
        BY <1>7, <2>3, <3>1, <3>3 DEF RingInv, Chained
      <4>2. QED
        BY <1>8, <1>12, <3>1, <3>3, <4>1
    <3>4. QED
      BY <1>9, <2>3, <3>2, <3>3
  <2>4. ASSUME NEW i \in 1..(l + 1) PROVE End(i) <= Place(tail', head)
    <3>1. Place(tail', head) \in Nat /\ Place(tail, head) <= Place(tail', head)
      BY <1>3, <1>6
    <3>2. CASE i \in 1..l
      BY <1>6, <1>12, <3>1, <3>2
    <3>3. CASE i = l + 1
      BY <1>13, <3>1, <3>3
    <3>4. QED
      BY <1>9, <2>4, <3>2, <3>3
  <2>5. QED
    BY <1>8, <1>11, <2>1, <2>2, <2>3, <2>4 DEF Chained, RecordEnd, End, Place, Size, AlignUp
<1>15. ASSUME NEW i \in 1..(l + 1) PROVE Holds(places'[i], queue'[i])
  <2>1. CASE i \in 1..l
    BY <1>7, <1>8, <2>1 DEF RingInv, Stored
  <2>2. CASE i = l + 1
    BY <1>2, <1>8, <2>2
  <2>3. QED
    BY <1>9, <1>15, <2>1, <2>2
<1>16. Stored'
  BY <1>1, <1>8, <1>15 DEF Stored, Holds
<1>17. Writing'
  BY <1>1 DEF Writing
<1>18. Reading'
  <2>1. UNCHANGED <<head, rpc, end, next, buf>>
    BY <1>1 DEF reader
  <2>2. queue # << >> => queue'[1] = queue[1]
    <3>1. queue # << >> => 1 \in 1..l
      BY <1>7, Records DEF RingInv
    <3>2. QED
      BY <1>8, <3>1
  <2>3. QED
    BY <1>8, <2>1, <2>2 DEF RingInv, Reading, Place, Size, AlignUp
<1>19. QED
  BY <1>14, <1>16, <1>17, <1>18 DEF RingInv

\* When the first record is given back the others stay where they are.
LEMMA RingReadAdvances == TypeOK /\ RingInv /\ ReadAdvances => RingInv'
<1> SUFFICES ASSUME TypeOK, RingInv, ReadAdvances PROVE RingInv'
  OBVIOUS
<1>1. /\ UNCHANGED <<tail, data, wpc, pkt>> /\ rpc = "advance" /\ rpc' = "first_read"
      /\ head' = next /\ queue' = Tail(queue) /\ places' = Tail(places)
  BY DEF ReadAdvances, writer
<1>2. queue # << >> /\ next = (head + Size(queue[1])) % Capacity
  BY <1>1 DEF RingInv, Reading
<1>3. /\ 1 \in 1..Len(queue) /\ queue[1] \in Packets /\ places[1] = head
      /\ RecordEnd(1) = head + Size(queue[1])
      /\ head + Size(queue[1]) <= Place(tail, head)
  BY <1>2, FirstRecord DEF RingInv
<1>4. head \in Offsets /\ tail \in Offsets /\ head' \in Offsets
  BY <1>1 DEF TypeOK
<1>5. head \in Nat /\ tail \in Nat /\ Capacity \in Nat /\ head' \in Nat
  BY <1>4, OffsetRange
<1>6. PICK s \in Nat, u \in Nat : s = Size(queue[1]) /\ u = Used /\ u < Capacity
  BY <1>3, <1>4, SizeBounds, TailPlace
<1>7. Place(tail, head) = head + u
  BY <1>4, <1>6, TailPlace
<1>8. s < Capacity /\ s <= u
  <2>1. head + s <= head + u
    BY <1>3, <1>6, <1>7
  <2>2. QED
    BY <1>5, <1>6, <2>1
<1> DEFINE g == head'
<1>9. g = (head + s) % Capacity /\ g \in Nat
  BY <1>1, <1>2, <1>5, <1>6
<1> HIDE DEF g
<1>10. ASSUME NEW o \in Offsets, head + s <= Place(o, head)
       PROVE  Place(o, g) = Place(o, head) - ((head + s) - g)
  BY <1>4, <1>8, <1>9, <1>10, MoveOn
<1>11. PICK l \in Nat : l = Len(queue) /\ l = Len(places) /\ l # 0
  BY <1>2, Records DEF RingInv, Chained
<1>12. /\ Len(queue') = l - 1 /\ Len(places') = l - 1
       /\ \A i \in 1..(l - 1) : queue'[i] = queue[i + 1] /\ places'[i] = places[i + 1]
       /\ queue' = << >> <=> l = 1
  <2>1. queue \in Seq(Packets) /\ places \in Seq(Offsets) /\ places # << >>
    BY <1>2, Records DEF TypeOK, RingInv
  <2>2. /\ queue' \in Seq(Packets) /\ Len(queue') = Len(queue) - 1
        /\ \A i \in 1..Len(queue') : queue'[i] = queue[i + 1]
    BY <1>1, <1>2, <2>1, HeadTailProperties
  <2>3. /\ Len(places') = Len(places) - 1
        /\ \A i \in 1..Len(places') : places'[i] = places[i + 1]
    BY <1>1, <2>1, HeadTailProperties
  <2>4. queue' = << >> <=> Len(queue') = 0
    BY <2>2, EmptySeq
  <2>5. l - 1 = 0 <=> l = 1
    BY <1>11
  <2>6. /\ Len(queue') = l - 1 /\ \A i \in 1..(l - 1) : queue'[i] = queue[i + 1]
        /\ queue' = << >> <=> l = 1
    BY <1>11, <2>2, <2>4, <2>5
  <2>7. Len(places') = l - 1 /\ \A i \in 1..(l - 1) : places'[i] = places[i + 1]
    BY <1>11, <2>3
  <2>8. QED
    BY <2>6, <2>7
<1>13. \A i \in 1..(l - 1) : i + 1 \in 1..l /\ 1 < i + 1
  BY <1>11
<1> DEFINE End(i) == Place(places[i], g) + Size(queue[i])
<1>14. ASSUME NEW i \in 1..l, 1 < i
       PROVE  /\ Place(places[i], g) = Place(places[i], head) - ((head + s) - g)
              /\ Place(places[i], head) \in Nat
              /\ End(i) = RecordEnd(i) - ((head + s) - g) /\ RecordEnd(i) \in Nat
  <2>1. RecordEnd(1) <= Place(places[i], head)
    BY <1>3, <1>11, <1>14 DEF RingInv, Chained
  <2>2. queue[i] \in Packets /\ places[i] \in Offsets
    BY <1>11, <1>14, Records DEF RingInv
  <2>3. PICK k \in Nat, o \in Offsets : k = Size(queue[i]) /\ o = places[i]
    BY <2>2, SizeBounds
  <2>4. Place(o, g) = Place(o, head) - ((head + s) - g)
    BY <1>3, <1>6, <1>10, <2>1, <2>3
  <2>5. Place(o, head) \in Nat
    BY <1>5, OffsetRange DEF Place
  <2>6. RecordEnd(i) = Place(o, head) + k /\ End(i) = Place(o, g) + k
    BY <2>3 DEF RecordEnd
  <2>7. QED
    BY <1>5, <1>6, <1>9, <2>3, <2>4, <2>5, <2>6
<1>15. Place(tail, g) = Place(tail, head) - ((head + s) - g) /\ Place(tail, head) \in Nat
  BY <1>3, <1>4, <1>5, <1>6, <1>7, <1>10
<1> HIDE DEF End
<1>16. \A i \in 1..l : (places[i] + Size(queue[i])) % Capacity = IF i = l THEN tail ELSE places[i + 1]
  BY <1>11 DEF RingInv, Chained
<1>17. g = IF l = 1 THEN tail ELSE places[2]
  <2>1. 1 \in 1..l /\ 1 + 1 = 2
    BY <1>11
  <2>2. (head + s) % Capacity = IF 1 = l THEN tail ELSE places[2]
    BY <1>3, <1>6, <1>16, <2>1
  <2>3. QED
    BY <1>9, <2>2
<1>18. Chained'
  <2>1. IF queue' = << >> THEN g = tail ELSE places'[1] = g
    <3>1. l # 1 => 1 \in 1..(l - 1)
      BY <1>11
    <3>2. QED
      BY <1>12, <1>17, <3>1
  <2>2. ASSUME NEW i \in 1..(l - 1)
        PROVE  (places'[i] + Size(queue'[i])) % Capacity = IF i = l - 1 THEN tail ELSE places'[i + 1]
    <3>1. (places[i + 1] + Size(queue[i + 1])) % Capacity = IF i + 1 = l THEN tail ELSE places[(i + 1) + 1]
      BY <1>13, <1>16
    <3>2. (i + 1 = l <=> i = l - 1) /\ (i # l - 1 => i + 1 \in 1..(l - 1))
      BY <1>11
    <3>3. QED
      BY <1>12, <3>1, <3>2
  <2>3. ASSUME NEW i \in 1..(l - 1), NEW j \in 1..(l - 1), i < j
        PROVE  End(i + 1) <= Place(places'[j], g)
    <3>1. i + 1 \in 1..l /\ j + 1 \in 1..l /\ i + 1 < j + 1 /\ 1 < i + 1 /\ 1 < j + 1
      BY <1>11, <2>3
    <3>2. RecordEnd(i + 1) <= Place(places[j + 1], head)
      BY <1>11, <3>1 DEF RingInv, Chained
    <3>3. End(i + 1) <= Place(places[j + 1], g)
      <4>1. /\ Place(places[j + 1], g) = Place(places[j + 1], head) - ((head + s) - g)
            /\ Place(places[j + 1], head) \in Nat
        BY <1>14, <3>1
      <4>2. End(i + 1) = RecordEnd(i + 1) - ((head + s) - g) /\ RecordEnd(i + 1) \in Nat
        BY <1>14, <3>1
      <4>3. QED
        BY <1>5, <1>6, <1>9, <3>2, <4>1, <4>2
    <3>4. QED
      BY <1>12, <3>3
  <2>4. ASSUME NEW i \in 1..(l - 1) PROVE End(i + 1) <= Place(tail, g)
    <3>1. i + 1 \in 1..l /\ 1 < i + 1
      BY <1>13
    <3>2. RecordEnd(i + 1) <= Place(tail, head)
      BY <1>11, <3>1 DEF RingInv, Chained
    <3>3. End(i + 1) = RecordEnd(i + 1) - ((head + s) - g) /\ RecordEnd(i + 1) \in Nat
      BY <1>14, <3>1
    <3>4. QED
      BY <1>5, <1>6, <1>9, <1>15, <3>2, <3>3
  <2>5. ASSUME NEW i \in 1..(l - 1) PROVE End(i + 1) = Place(places'[i], g) + Size(queue'[i])
    BY <1>12 DEF End
  <2>6. head' = g /\ tail' = tail
    BY <1>1 DEF g
  <2>7. QED
    BY <1>12, <2>1, <2>2, <2>3, <2>4, <2>5, <2>6 DEF Chained, RecordEnd, Place, Size, AlignUp
<1>19. Stored'
  <2>1. ASSUME NEW i \in 1..(l - 1) PROVE Holds(places'[i], queue'[i])
    BY <1>11, <1>12, <1>13 DEF RingInv, Stored
  <2>2. QED
    BY <1>1, <1>12, <2>1 DEF Stored, Holds
<1>20. Writing'
  <2>1. ASSUME wpc \in {"copy", "publish"} PROVE Fits(pkt)'
    <3>1. pkt \in Packets /\ Fits(pkt)
      BY <2>1 DEF TypeOK, RingInv, Writing
    <3>2. PICK k \in Nat : k = Size(pkt) /\ u + k < Capacity
      BY <1>4, <1>6, <3>1, FitsIsRoom, SizeBounds
    <3>3. NewTail(pkt) = tail + k
      <4>1. PICK len \in Nat : len = pkt.len
        BY <3>1, SizeBounds
      <4>2. AlignUp(len) \in Nat
        BY AlignedLength
      <4>3. QED
        BY <1>5, <3>2, <4>1, <4>2 DEF NewTail, Size
    <3>4. Place(tail, g) + k < g + Capacity
      BY <1>5, <1>6, <1>7, <1>8, <1>9, <1>15, <3>2
    <3>5. tail + k < (IF g > tail THEN g ELSE g + Capacity)
      BY <1>5, <1>9, <3>4 DEF Place
    <3>6. NewTail(pkt)' = NewTail(pkt)
      BY <1>1 DEF NewTail, AlignUp
    <3>7. QED
      BY <1>1, <3>3, <3>5, <3>6 DEF Fits, g
  <2>2. wpc = "publish" => Holds(tail, pkt)
    BY DEF RingInv, Writing
  <2>3. QED
    BY <1>1, <2>1, <2>2 DEF Writing, Holds
<1>21. Reading'
  BY <1>1 DEF Reading
<1>22. QED
  BY <1>18, <1>19, <1>20, <1>21 DEF RingInv

LEMMA RingNext == TypeOK /\ RingInv /\ [Next]_vars => RingInv'
<1> SUFFICES ASSUME TypeOK, RingInv, [Next]_vars PROVE RingInv'
  OBVIOUS
<1>1. CASE Read
  BY <1>1, RingReadLoads, RingSignals, RingReadCopies, RingReadAdvances DEF Read
<1>2. CASE WriteGoesOn
  BY <1>2, RingWriteCopies, RingPublish, RingLooks DEF WriteGoesOn
<1>3. ASSUME NEW p \in Packets, WriteLoads(p) PROVE RingInv'
  BY <1>3, RingWriteLoads
<1>4. CASE UNCHANGED vars
  <2>1. UNCHANGED <<head, tail, data, history, writer, reader>>
    BY <1>4 DEF vars, shared
  <2>2. Chained' /\ Stored' /\ Writing'
    BY <2>1, ReaderOnly
  <2>3. Reading'
    BY <2>1, WriterOnly
  <2>4. QED
    BY <2>2, <2>3 DEF RingInv
<1>5. QED
  BY <1>1, <1>2, <1>3, <1>4 DEF Next

\* Offsets never leave the ring nor lose their alignment: neither "head >=
\* CAPACITY" (ring.rs:78) nor "tail >= CAPACITY" (ring.rs:119) can occur.
THEOREM TypeCorrect == Spec => []TypeOK
BY TypeInit, TypeNext, RingInit, RingNext, PTL DEF Spec

\* A record that a reader of this protocol looks at is always sound: with this
\* writer none of the errors of read (ring.rs:78-103) occurs.
THEOREM NeverInvalid == Spec => [](rpc # "invalid")
<1>1. RingInv => rpc # "invalid"
  BY DEF RingInv, Reading
<1>2. QED
  BY <1>1, TypeInit, TypeNext, RingInit, RingNext, PTL DEF Spec

-----------------------------------------------------------------------------
(* The ring is the queue.                                                     *)

LEMMA SameSize == \A p : Fifo!Size(p) = Size(p)
BY DEF Fifo!Size, Fifo!AlignUp, Size, AlignUp

LEMMA PublishPuts == TypeOK /\ RingInv /\ Publish => Fifo!Put(pkt)
<1> SUFFICES ASSUME TypeOK, RingInv, Publish PROVE Fifo!Put(pkt)
  OBVIOUS
<1>1. /\ pkt \in Packets /\ Fits(pkt)
      /\ head \in Offsets /\ tail \in Offsets /\ head' = head /\ tail' = NewTail(pkt) % Capacity
      /\ queue' = Append(queue, pkt) /\ wrote' = "ok" /\ got' = got
  BY DEF Publish, TypeOK, RingInv, Writing, reader
<1>2. PICK s \in Nat, u \in Nat : s = Size(pkt) /\ u = Used /\ u + s < Capacity
  BY <1>1, FitsIsRoom, SizeBounds, TailPlace
<1>3. tail' \in Offsets
  BY TypeNext DEF TypeOK, Next, WriteGoesOn
<1>4. head \in Nat /\ tail \in Nat /\ Capacity \in Nat
  BY <1>1, OffsetRange
<1> DEFINE e == tail'
<1>5. e = (tail + s) % Capacity /\ e \in Offsets
  <2>1. PICK len \in Nat : len = pkt.len
    BY <1>1, SizeBounds
  <2>2. AlignUp(len) \in Nat
    BY AlignedLength
  <2>3. NewTail(pkt) = tail + s
    BY <1>2, <1>4, <2>1, <2>2 DEF NewTail, Size
  <2>4. QED
    BY <1>1, <1>3, <2>3
<1> HIDE DEF e
<1>6. Place(tail, head) = head + u
  BY <1>1, <1>2, TailPlace
<1>7. Place(e, head) = (head + u) + s
  <2>1. Place(tail, head) + s < head + Capacity
    BY <1>2, <1>4, <1>6
  <2>2. head \in Offsets /\ tail \in Offsets
    BY <1>1
  <2>3. Place(e, head) = Place(tail, head) + s
    BY <1>5, <2>1, <2>2, GoOn
  <2>4. QED
    BY <1>6, <2>3
<1>8. e \in Nat
  BY <1>5, OffsetRange
<1>9. (IF head <= e THEN e - head ELSE e + Capacity - head) = u + s
  BY <1>2, <1>4, <1>7, <1>8 DEF Place
<1>10. Used' = u + s
  <2>1. head' = head
    BY <1>1
  <2>2. Used' = IF head <= e THEN e - head ELSE e + Capacity - head
    BY <2>1 DEF Used, e
  <2>3. QED
    BY <1>9, <2>2
<1>11. Fifo!HasRoom(pkt)
  BY <1>2, SameSize DEF Fifo!HasRoom
<1>12. Used' = Used + Fifo!Size(pkt)
  BY <1>2, <1>10, SameSize
<1>13. QED
  BY <1>1, <1>11, <1>12 DEF Fifo!Put

LEMMA ReadGets == TypeOK /\ RingInv /\ ReadAdvances => Fifo!Get
<1> SUFFICES ASSUME TypeOK, RingInv, ReadAdvances PROVE Fifo!Get
  OBVIOUS
<1>1. /\ tail' = tail /\ wrote' = wrote /\ head' = next /\ got' = buf /\ queue' = Tail(queue)
      /\ queue # << >> /\ buf = queue[1] /\ next = (head + Size(queue[1])) % Capacity
  BY DEF ReadAdvances, RingInv, Reading, writer
<1>2. queue[1] \in Packets /\ head + Size(queue[1]) <= Place(tail, head)
  BY <1>1, FirstRecord DEF RingInv
<1>3. head \in Offsets /\ tail \in Offsets /\ next \in Offsets
  BY DEF TypeOK
<1>4. PICK s \in Nat, u \in Nat : s = Size(queue[1]) /\ u = Used /\ u < Capacity
  BY <1>2, <1>3, SizeBounds, TailPlace
<1>5. Place(tail, head) = head + u
  BY <1>3, <1>4, TailPlace
<1>6. head \in Nat /\ tail \in Nat /\ Capacity \in Nat /\ next \in Nat
  BY <1>3, OffsetRange
<1>7. head + s <= Place(tail, head) /\ s < Capacity
  <2>1. head + s <= Place(tail, head)
    BY <1>2, <1>4
  <2>2. QED
    BY <1>4, <1>5, <1>6, <2>1
<1>8. Place(tail, next) = (head + u) - ((head + s) - next)
  <2> DEFINE g == next
  <2>1. g = (head + s) % Capacity
    BY <1>1, <1>4
  <2> HIDE DEF g
  <2>2. Place(tail, g) = Place(tail, head) - ((head + s) - g)
    BY <1>3, <1>7, <2>1, MoveOn
  <2>3. QED
    BY <1>5, <2>2 DEF g
<1>9. (IF next <= tail THEN tail - next ELSE tail + Capacity - next) = u - s
  BY <1>4, <1>6, <1>8 DEF Place
<1>10. Used' = u - s
  <2>1. head' = next /\ tail' = tail
    BY <1>1
  <2>2. Used' = IF next <= tail THEN tail - next ELSE tail + Capacity - next
    BY <2>1 DEF Used
  <2>3. QED
    BY <1>9, <2>2
<1>11. Head(queue) = queue[1]
  OBVIOUS
<1>12. Used' = Used - Fifo!Size(Head(queue))
  BY <1>4, <1>10, <1>11, SameSize
<1>13. QED
  BY <1>1, <1>11, <1>12 DEF Fifo!Get

LEMMA FullRefuses ==
  ASSUME TypeOK, NEW p \in Packets, WriteLoads(p)
  PROVE  Fifo!Refuse(p) \/ UNCHANGED <<queue, Used, got, wrote>>
<1>1. head' = head /\ tail' = tail /\ queue' = queue /\ got' = got
  BY DEF WriteLoads, shared, reader, history
<1>2. Used' = Used
  BY <1>1 DEF Used
<1>3. CASE Fits(p)
  BY <1>1, <1>2, <1>3 DEF WriteLoads
<1>4. CASE ~Fits(p)
  <2>1. ~(Used + Size(p) < Capacity)
    BY <1>4, FitsIsRoom DEF TypeOK
  <2>2. ~Fifo!HasRoom(p)
    BY <2>1, SameSize DEF Fifo!HasRoom
  <2>3. wrote' = "full"
    BY <1>4 DEF WriteLoads
  <2>4. QED
    BY <1>1, <1>2, <2>2, <2>3 DEF Fifo!Refuse
<1>5. QED
  BY <1>3, <1>4

LEMMA FifoStep == TypeOK /\ RingInv /\ [Next]_vars => [Fifo!Next]_<<queue, Used, got, wrote>>
<1> SUFFICES ASSUME TypeOK, RingInv, [Next]_vars
             PROVE  Fifo!Next \/ UNCHANGED <<queue, Used, got, wrote>>
  OBVIOUS
<1>1. ASSUME UNCHANGED <<head, tail, queue, got, wrote>> PROVE UNCHANGED <<queue, Used, got, wrote>>
  BY <1>1 DEF Used
<1>2. CASE ReadLoads \/ SetAlertable \/ ReadCopies \/ WaitEnds \/ ClearAlertable
  BY <1>1, <1>2 DEF ReadLoads, SetAlertable, ReadCopies, WaitEnds, ClearAlertable, shared, writer, history
<1>3. CASE WriteCopies \/ LookAtAlertable \/ SetEvent
  BY <1>1, <1>3 DEF WriteCopies, LookAtAlertable, SetEvent, shared, reader, history
<1>4. CASE UNCHANGED vars
  BY <1>1, <1>4 DEF vars, shared, reader, writer, history
<1>5. CASE ReadAdvances
  BY <1>5, ReadGets DEF Fifo!Next
<1>6. CASE Publish
  <2>1. pkt \in Packets
    BY <1>6 DEF Publish, TypeOK
  <2>2. QED
    BY <1>6, <2>1, PublishPuts DEF Fifo!Next
<1>7. ASSUME NEW p \in Packets, WriteLoads(p) PROVE Fifo!Next \/ UNCHANGED <<queue, Used, got, wrote>>
  BY <1>7, FullRefuses DEF Fifo!Next
<1>8. QED
  BY <1>2, <1>3, <1>4, <1>5, <1>6, <1>7 DEF Next, Read, WriteGoesOn

LEMMA FifoInit == Init => Fifo!Init
BY DEF Init, Fifo!Init, Used

\* read and write (ring.rs:73-150) make of the shared bytes a bounded queue of
\* packets: each is returned once, whole and in order, wherever its record wraps and
\* however the two ends interleave, and one is refused exactly when its record
\* would leave no byte free.
THEOREM RingIsFifo == Spec => ImplementsFifo
<1>1. Init => Fifo!Init
  BY FifoInit
<1>2. TypeOK /\ RingInv /\ [Next]_vars => [Fifo!Next]_<<queue, Used, got, wrote>>
  BY FifoStep
<1>3. QED
  BY <1>1, <1>2, TypeInit, TypeNext, RingInit, RingNext, PTL
  DEF Spec, ImplementsFifo, Fifo!Spec, Fifo!vars

-----------------------------------------------------------------------------

\* The strengthening: alertable is set from before the second look until the
\* reader is back from its wait.
Waiting ==
  /\ rpc \in {"second_read", "wait", "woken"} => alertable
  /\ WakeupOnItsWay

LEMMA WaitingInit == Init => Waiting
BY DEF Init, Waiting, WakeupOnItsWay

LEMMA WaitingNext == Waiting /\ [Next]_vars => Waiting'
<1> SUFFICES ASSUME Waiting, [Next]_vars PROVE Waiting'
  OBVIOUS
<1> USE DEF Waiting, WakeupOnItsWay, shared, reader, writer, history
<1>1. CASE Read
  BY <1>1 DEF Read, ReadLoads, SetAlertable, ReadCopies, ReadAdvances, WaitEnds, ClearAlertable
<1>2. ASSUME NEW p \in Packets, WriteLoads(p) PROVE Waiting'
  BY <1>2 DEF WriteLoads
<1>3. CASE WriteGoesOn
  BY <1>3 DEF WriteGoesOn, WriteCopies, Publish, LookAtAlertable, SetEvent
<1>4. CASE UNCHANGED vars
  BY <1>4 DEF vars
<1>5. QED
  BY <1>1, <1>2, <1>3, <1>4 DEF Next

\* A reader that waits while packets are there has its wake-up on the way: the
\* order of the two loads and stores of alertable and tail (ring.rs:174-188,
\* 204-217) never loses one.
THEOREM NoWakeupLost == Spec => []WakeupOnItsWay
<1>1. Waiting => WakeupOnItsWay
  BY DEF Waiting
<1>2. QED
  BY <1>1, WaitingInit, WaitingNext, PTL DEF Spec
=============================================================================
