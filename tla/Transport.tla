----------------------------- MODULE Transport -----------------------------
(***************************************************************************)
(* One transport session of src/wireguard/transport.rs, shared by the      *)
(* tasks that send with it: the sending task, the keepalive timers and the *)
(* receiving task, which flushes queued packets.  Every atomic access is a *)
(* step of its own: get_should_send, the fetch_add of the nonce counter,   *)
(* the store that retires the session.  The counter wraps at Modulus (2^64 *)
(* in the code).                                                           *)
(***************************************************************************)
EXTENDS Naturals, FiniteSets

CONSTANTS
  Senders,      \* tasks that call get_should_send before encrypt
  Flusher,      \* the receiving task, which flushes the queue without asking
  FlushSize,    \* packets it may flush, at most QUEUE_SIZE
  Modulus,      \* 2^64
  RekeyAfter,   \* REKEY_AFTER_MESSAGES
  RejectAfter   \* REJECT_AFTER_MESSAGES

Tasks == Senders \cup {Flusher}

\* The code leaves 17 values above REJECT_AFTER_MESSAGES, and 65520 between the
\* two limits; the tasks that can send with one session are fewer.
ASSUME TransportAssumption ==
  /\ IsFiniteSet(Senders) /\ Flusher \notin Senders
  /\ FlushSize \in Nat
  /\ Modulus \in Nat /\ RekeyAfter \in Nat /\ RejectAfter \in Nat
  /\ RekeyAfter + Cardinality(Tasks) <= RejectAfter
  /\ RejectAfter + Cardinality(Tasks) <= Modulus

VARIABLES
  is_initiator, should_handshake, has_received, not_too_old, send_counter,
  pc,         \* where a task is in find_transport_to_send and encrypt
  nonce,      \* the c of encrypt
  flush,      \* queued packets the Flusher has yet to send
  decrypting, \* is the receiving task past the first check of decrypt?
  rekey,      \* was should_rekey returned to a sender? (do_handshake follows)
  panicked,   \* an unwrap on the result of encrypt ended the process
  sent,       \* history: the nonces messages were encrypted with
  issued      \* history: how often the counter was incremented

flags == <<is_initiator, should_handshake, has_received, not_too_old>>
sending == <<send_counter, pc, nonce, flush, rekey, panicked, sent, issued>>
vars == <<flags, sending, decrypting>>

TypeOK ==
  /\ is_initiator \in BOOLEAN /\ should_handshake \in BOOLEAN
  /\ has_received \in BOOLEAN /\ not_too_old \in BOOLEAN
  /\ send_counter \in 0..(Modulus - 1)
  /\ pc \in [Tasks -> {"idle", "chosen", "encrypt", "reject"}]
  /\ nonce \in [Tasks -> 0..(Modulus - 1)]
  /\ flush \in 0..FlushSize
  /\ decrypting \in BOOLEAN /\ rekey \in BOOLEAN /\ panicked \in BOOLEAN
  /\ sent \subseteq 0..(Modulus - 1)
  /\ issued \in Nat

\* new_from_hs; only an initiator has packets to flush.
Init ==
  /\ is_initiator \in BOOLEAN
  /\ should_handshake = FALSE /\ has_received = FALSE /\ not_too_old = TRUE
  /\ send_counter = 0
  /\ pc = [t \in Tasks |-> "idle"]
  /\ nonce = [t \in Tasks |-> 0]
  /\ flush \in IF is_initiator THEN 0..FlushSize ELSE {0}
  /\ decrypting = FALSE /\ rekey = FALSE /\ panicked = FALSE
  /\ sent = {}
  /\ issued = 0

-----------------------------------------------------------------------------
(* The tasks of new_from_hs that age the session.                          *)

\* After REKEY_AFTER_TIME, or later for a responder.
AgeRekey ==
  /\ ~panicked /\ ~should_handshake
  /\ should_handshake' = TRUE
  /\ UNCHANGED <<is_initiator, has_received, not_too_old, sending, decrypting>>

\* After REJECT_AFTER_TIME.
AgeReject ==
  /\ ~panicked /\ not_too_old
  /\ not_too_old' = FALSE
  /\ UNCHANGED <<is_initiator, should_handshake, has_received, sending, decrypting>>

-----------------------------------------------------------------------------
(* Sending.                                                                *)

get_should_send_Unconfirmed == not_too_old

get_should_send == (is_initiator \/ has_received) /\ not_too_old

\* find_transport_to_send: the session may be used.
Choose(t) ==
  /\ ~panicked /\ pc[t] = "idle"
  /\ get_should_send
  /\ pc' = [pc EXCEPT ![t] = "chosen"]
  /\ UNCHANGED <<flags, decrypting, send_counter, nonce, flush, rekey, panicked,
                 sent, issued>>

\* The first line of encrypt, and the two outcomes of its test on c.
FetchAdd(t) ==
  /\ send_counter' = (send_counter + 1) % Modulus
  /\ issued' = issued + 1
  /\ nonce' = [nonce EXCEPT ![t] = send_counter]
  /\ pc' = [pc EXCEPT ![t] = IF send_counter >= RejectAfter THEN "reject" ELSE "encrypt"]
  /\ UNCHANGED <<flags, decrypting, rekey, panicked, sent>>

Draw(t) ==
  /\ ~panicked /\ pc[t] = "chosen"
  /\ FetchAdd(t)
  /\ UNCHANGED flush

\* The receiving task encrypts the packets that were queued during the
\* handshake with the session it has just made, without asking.
DrawQueued ==
  /\ ~panicked /\ pc[Flusher] = "idle"
  /\ flush > 0
  /\ flush' = flush - 1
  /\ FetchAdd(Flusher)

ShouldRekey_Late(t) == is_initiator /\ (should_handshake \/ nonce[t] > RekeyAfter)

\* Does encrypt ask for a new handshake?
ShouldRekey(t) == is_initiator /\ (should_handshake \/ nonce[t] >= RekeyAfter)

\* encrypt succeeds: the nonce goes into a message.
Encrypt(t) ==
  /\ ~panicked /\ pc[t] = "encrypt"
  /\ sent' = sent \cup {nonce[t]}
  /\ rekey' = (rekey \/ ShouldRekey(t))
  /\ pc' = [pc EXCEPT ![t] = "idle"]
  /\ UNCHANGED <<flags, decrypting, send_counter, nonce, flush, panicked, issued>>

Reject_Forgets(t) ==
  /\ ~panicked /\ pc[t] = "reject"
  /\ rekey' = (rekey \/ ShouldRekey(t))
  /\ panicked' = (t = Flusher)
  /\ pc' = [pc EXCEPT ![t] = "idle"]
  /\ UNCHANGED <<flags, decrypting, send_counter, nonce, flush, sent, issued>>

\* encrypt fails: the session is retired.  The Flusher unwraps the result.
Reject(t) ==
  /\ ~panicked /\ pc[t] = "reject"
  /\ not_too_old' = FALSE
  /\ rekey' = (rekey \/ ShouldRekey(t))
  /\ panicked' = (t = Flusher)
  /\ pc' = [pc EXCEPT ![t] = "idle"]
  /\ UNCHANGED <<is_initiator, should_handshake, has_received, decrypting,
                 send_counter, nonce, flush, sent, issued>>

-----------------------------------------------------------------------------
(* Receiving: what decrypt does to the flags.                              *)

DecryptBegins ==
  /\ ~panicked /\ ~decrypting
  /\ not_too_old
  /\ decrypting' = TRUE
  /\ UNCHANGED <<flags, sending>>

\* Authentication and the anti-replay check succeed; a responder's session is
\* confirmed, and it asks for a new handshake when it is old.
DecryptSucceeds ==
  /\ ~panicked /\ decrypting
  /\ decrypting' = FALSE
  /\ has_received' = (has_received \/ ~is_initiator)
  /\ rekey' = (rekey \/ (~is_initiator /\ should_handshake))
  /\ UNCHANGED <<is_initiator, should_handshake, not_too_old, send_counter, pc,
                 nonce, flush, panicked, sent, issued>>

DecryptFails ==
  /\ ~panicked /\ decrypting
  /\ decrypting' = FALSE
  /\ UNCHANGED <<flags, sending>>

\* Nothing is left to do with a retired session, or the process has ended.
Retired ==
  /\ panicked \/ (~not_too_old /\ should_handshake /\ ~decrypting /\ flush = 0
                  /\ \A t \in Tasks : pc[t] = "idle")
  /\ UNCHANGED vars

Next ==
  \/ AgeRekey \/ AgeReject
  \/ \E t \in Senders : Choose(t)
  \/ \E t \in Tasks : Draw(t) \/ Encrypt(t) \/ Reject(t)
  \/ DrawQueued
  \/ DecryptBegins \/ DecryptSucceeds \/ DecryptFails
  \/ Retired

Spec == Init /\ [][Next]_vars

-----------------------------------------------------------------------------
(* Properties.                                                             *)

\* A nonce a task is about to encrypt with was not used, and no other task has
\* it: although the check of get_should_send and the fetch_add of encrypt are
\* separate steps, and the counter wraps, no two messages share a nonce.
NonceFresh ==
  /\ \A t \in Tasks : pc[t] = "encrypt" => nonce[t] \notin sent
  /\ \A t, u \in Tasks :
       t # u /\ pc[t] = "encrypt" /\ pc[u] = "encrypt" => nonce[t] # nonce[u]

\* A responder encrypts nothing before the initiator's first message confirmed
\* the session: it draws no nonce, not even for packets queued earlier.
SilentUntilConfirmed == issued > 0 => is_initiator \/ has_received

\* Before the counter reaches its limit, an initiator was told to start a new
\* handshake: no message is refused for the counter unless a message encrypted
\* earlier has returned should_rekey, however the tasks overtake each other.
RekeyBeforeReject ==
  is_initiator /\ (\E t \in Tasks : pc[t] = "reject") => rekey
=============================================================================
