---------------------------- MODULE ReplayWindow ----------------------------
(***************************************************************************)
(* What anti_replay.rs promises, "not a replay or too old", said of the    *)
(* messages themselves: nothing is accepted twice, a message is refused    *)
(* only when it was accepted before or when one more than Window ahead of  *)
(* it was.                                                                 *)
(***************************************************************************)
EXTENDS Naturals

CONSTANTS
  MaxSeq,  \* the highest counter
  Window   \* WINDOW_SIZE

VARIABLES
  accepted, \* the counters accepted so far
  verdict   \* what check_and_update returned last

Seqs == 0..MaxSeq

TooOld(n) == \E m \in accepted : m > n + Window

Accept(n) ==
  /\ n \notin accepted /\ ~TooOld(n)
  /\ accepted' = accepted \cup {n}
  /\ verdict' = TRUE

Refuse(n) ==
  /\ n \in accepted \/ TooOld(n)
  /\ verdict' = FALSE
  /\ UNCHANGED accepted

Init == accepted = {} /\ verdict = FALSE

Next == \E n \in Seqs : Accept(n) \/ Refuse(n)

Spec == Init /\ [][Next]_<<accepted, verdict>>
=============================================================================
