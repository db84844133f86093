----------------------------- MODULE AntiReplay -----------------------------
(***************************************************************************)
(* The sliding window of src/wireguard/anti_replay.rs (RFC 6479): a ring   *)
(* of words, one bit for each counter of the newest words.  A transport    *)
(* session holds one, under a mutex, so that check_and_update is one step. *)
(***************************************************************************)
EXTENDS Integers

CONSTANTS
  WordSize,  \* SIZE_OF_INTEGER
  Words,     \* BITMAP_LEN
  MaxSeq     \* the highest counter, u64::MAX

ASSUME AntiReplayAssumption ==
  /\ WordSize \in Nat \ {0} /\ Words \in Nat \ {0}
  /\ MaxSeq \in Nat

VARIABLES
  bitmap,   \* for each word of the ring, the positions of its bits that are set
  last,     \* the highest counter accepted
  accepted, \* history: the counters accepted
  verdict   \* what check_and_update returned last

vars == <<bitmap, last, accepted, verdict>>

Seqs == 0..MaxSeq
Ring == 0..(Words - 1)
Locs == 0..(WordSize - 1)

\* WINDOW_SIZE.
Window == Words * WordSize - WordSize

\* seq >> REDUNDANT_BIT_SHIFTS, the word before it is masked.
WordOf(n) == n \div WordSize

\* seq & BITMAP_LOC_MASK.
BitLocation(n) == n % WordSize

\* The word's place in the ring.
Index(w) == w % Words

BitSet(n) == BitLocation(n) \in bitmap[Index(WordOf(n))]

TypeOK ==
  /\ bitmap \in [Ring -> SUBSET Locs]
  /\ last \in Seqs
  /\ accepted \subseteq Seqs
  /\ verdict \in BOOLEAN

Init ==
  /\ bitmap = [i \in Ring |-> {}]
  /\ last = 0
  /\ accepted = {}
  /\ verdict = FALSE

Check_WindowTooWide(n) == n > last \/ (last - n < Words * WordSize /\ ~BitSet(n))

\* AntiReplay::check.
Check(n) == n > last \/ (last - n <= Window /\ ~BitSet(n))

Cleared_KeepsNewest(n) ==
  LET diff == WordOf(n) - WordOf(last) IN
  IF diff >= Words THEN Ring
  ELSE {Index(WordOf(last) + i) : i \in 1..(diff - 1)}

\* The words update clears when the window moves up to n: those it has left
\* behind since last, all of them when it has moved by the whole ring.
Cleared(n) ==
  LET diff == WordOf(n) - WordOf(last) IN
  IF diff >= Words THEN Ring
  ELSE {Index(WordOf(last) + i) : i \in 1..diff}

\* AntiReplay::update.
Update(n) ==
  LET kept == IF n > last
              THEN [i \in Ring |-> IF i \in Cleared(n) THEN {} ELSE bitmap[i]]
              ELSE bitmap
  IN /\ bitmap' = [kept EXCEPT ![Index(WordOf(n))] = @ \cup {BitLocation(n)}]
     /\ last' = IF n > last THEN n ELSE last

\* AntiReplay::check_and_update.
CheckAndUpdate(n) ==
  IF Check(n)
  THEN /\ Update(n)
       /\ accepted' = accepted \cup {n}
       /\ verdict' = TRUE
  ELSE /\ verdict' = FALSE
       /\ UNCHANGED <<bitmap, last, accepted>>

Next == \E n \in Seqs : CheckAndUpdate(n)

Spec == Init /\ [][Next]_vars

-----------------------------------------------------------------------------
(* Properties.                                                             *)

\* The counters whose word is one of the newest Words ones, up to last's.
Covered(n) == WordOf(n) <= WordOf(last) /\ WordOf(n) + Words > WordOf(last)

\* In the words the ring covers, the bits set are those of the counters
\* accepted: update leaves no bit of an older word behind in a word it reuses,
\* and clears no bit it still needs, however far the window jumps.
BitmapExact == \A n \in Seqs : Covered(n) => (BitSet(n) <=> n \in accepted)

RW == INSTANCE ReplayWindow

\* check_and_update accepts and refuses exactly what the abstract window does:
\* no counter twice, none that is too old, and none of the others refused.
ImplementsWindow == RW!Spec
=============================================================================
