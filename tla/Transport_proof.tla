-------------------------- MODULE Transport_proof --------------------------
(* Proofs about Transport, for every counter width and number of tasks.    *)
EXTENDS Transport, FiniteSetTheorems, TLAPS

USE TransportAssumption

\* The tasks that may still draw a nonce beyond the limit: those that have
\* chosen the session, those that can choose it again, and the Flusher unless
\* it is being refused.
Able == {t \in Tasks :
  \/ pc[t] = "chosen"
  \/ pc[t] \in {"idle", "encrypt"} /\ (not_too_old \/ (t = Flusher /\ ~panicked))}

\* Each task draws beyond the limit once at most.
Budget == issued <= RejectAfter
          \/ issued + Cardinality(Able) <= RejectAfter + Cardinality(Tasks)

\* Until the counter wraps, the nonces drawn are the numbers below it.
Drawn ==
  /\ issued < Modulus => send_counter = issued
  /\ \A n \in sent : n < issued
  /\ \A t \in Tasks : pc[t] = "encrypt" => nonce[t] < issued

NonceInv == TypeOK /\ Budget /\ Drawn /\ NonceFresh

\* There is a finite number of tasks, and the Flusher is one.
LEMMA TasksFinite ==
  /\ IsFiniteSet(Tasks)
  /\ Cardinality(Tasks) \in Nat \ {0}
<1>1. IsFiniteSet(Tasks)
  BY FS_AddElement DEF Tasks
<1>2. Cardinality(Tasks) \in Nat
  BY <1>1, FS_CardinalityType
<1>3. Tasks # {}
  BY DEF Tasks
<1>4. Cardinality(Tasks) # 0
  BY <1>1, <1>3, FS_EmptySet
<1>5. QED
  BY <1>1, <1>2, <1>4

\* At most all tasks are able to draw beyond the limit.
LEMMA AbleSize ==
  /\ IsFiniteSet(Able) /\ Cardinality(Able) \in Nat
  /\ Cardinality(Able) <= Cardinality(Tasks)
BY TasksFinite, FS_Subset, FS_CardinalityType DEF Able

\* A draw is below the modulus, so it is the number of draws before it.
LEMMA DrawBelow ==
  ASSUME NonceInv, NEW t \in Able
  PROVE  issued < Modulus /\ send_counter = issued
<1>1. Cardinality(Able) >= 1
  <2>1. Cardinality(Able) # 0
    BY AbleSize, FS_EmptySet
  <2>2. QED
    BY <2>1, AbleSize
<1>2. issued < Modulus
  BY <1>1, AbleSize, TasksFinite DEF NonceInv, Budget, TypeOK
<1>3. QED
  BY <1>2 DEF NonceInv, Drawn

\* A step that draws nothing and lets no task become able keeps the budget.
LEMMA BudgetShrinks ==
  ASSUME NonceInv, UNCHANGED issued, Able' \subseteq Able
  PROVE  Budget'
<1>1. Cardinality(Able') <= Cardinality(Able) /\ Cardinality(Able') \in Nat
  BY AbleSize, FS_Subset, FS_CardinalityType
<1>2. QED
  BY <1>1, AbleSize, TasksFinite DEF NonceInv, Budget, TypeOK

\* A new session has the types.
LEMMA TypeInit == Init => TypeOK
<1> SUFFICES ASSUME Init PROVE TypeOK
  OBVIOUS
<1> USE DEF Init
<1>1. 0 \in 0..(Modulus - 1)
  BY TasksFinite
<1>2. flush \in 0..FlushSize
  <2>1. 0 \in 0..FlushSize
    OBVIOUS
  <2>2. QED
    BY <2>1
<1>3. nonce \in [Tasks -> 0..(Modulus - 1)]
  BY <1>1
<1>4. pc \in [Tasks -> {"idle", "chosen", "encrypt", "reject"}]
  OBVIOUS
<1>5. QED
  BY <1>1, <1>2, <1>3, <1>4 DEF TypeOK

\* A step keeps the types; the counter stays below the modulus.
LEMMA TypeStep ==
  ASSUME TypeOK, [Next]_vars
  PROVE  TypeOK'
<1> USE DEF TypeOK, flags, sending
<1>1. Modulus > 0
  BY TasksFinite
<1>2. (send_counter + 1) % Modulus \in 0..(Modulus - 1)
  BY <1>1
<1>3. ASSUME NEW t \in Tasks, FetchAdd(t)
      PROVE  /\ send_counter' \in 0..(Modulus - 1) /\ issued' \in Nat
             /\ nonce' \in [Tasks -> 0..(Modulus - 1)]
             /\ pc' \in [Tasks -> {"idle", "chosen", "encrypt", "reject"}]
             /\ UNCHANGED <<flags, decrypting, rekey, panicked, sent>>
  BY <1>2, <1>3 DEF FetchAdd
<1>4. CASE AgeRekey \/ AgeReject
  BY <1>4 DEF AgeRekey, AgeReject
<1>5. ASSUME NEW t \in Senders, Choose(t) PROVE TypeOK'
  BY <1>5 DEF Choose
<1>6. ASSUME NEW t \in Tasks, Draw(t) PROVE TypeOK'
  BY <1>6, <1>3 DEF Draw
<1>7. ASSUME NEW t \in Tasks, Encrypt(t) PROVE TypeOK'
  BY <1>7 DEF Encrypt, ShouldRekey
<1>8. ASSUME NEW t \in Tasks, Reject(t) PROVE TypeOK'
  BY <1>8 DEF Reject, ShouldRekey
<1>9. CASE DrawQueued
  <2>1. FetchAdd(Flusher) /\ Flusher \in Tasks /\ flush' \in 0..FlushSize
    BY <1>9 DEF DrawQueued, Tasks
  <2>2. QED
    BY <2>1, <1>3
<1>10. CASE DecryptBegins \/ DecryptFails
  BY <1>10 DEF DecryptBegins, DecryptFails
<1>11. CASE DecryptSucceeds
  BY <1>11 DEF DecryptSucceeds
<1>12. CASE Retired \/ UNCHANGED vars
  BY <1>12 DEF Retired, vars
<1>13. QED
  BY <1>4, <1>5, <1>6, <1>7, <1>8, <1>9, <1>10, <1>11, <1>12 DEF Next

\* The heart of the argument: a task that draws leaves Able when it draws
\* beyond the limit.
LEMMA DrawStep ==
  ASSUME NonceInv, NEW t \in Able, FetchAdd(t)
  PROVE  Budget' /\ Drawn' /\ NonceFresh'
<1> DEFINE c == send_counter
<1>1. t \in Tasks
  BY DEF Able
<1>2. issued < Modulus /\ c = issued /\ issued \in Nat
  BY DrawBelow DEF NonceInv, TypeOK
<1>3. /\ issued' = issued + 1
      /\ nonce' = [nonce EXCEPT ![t] = issued]
      /\ pc' = [pc EXCEPT ![t] = IF issued >= RejectAfter THEN "reject" ELSE "encrypt"]
      /\ send_counter' = (issued + 1) % Modulus
      /\ UNCHANGED <<flags, panicked, sent>>
  BY <1>2 DEF FetchAdd
<1>4. Budget'
  <2>1. CASE issued < RejectAfter
    BY <1>2, <1>3, <2>1 DEF Budget
  <2>2. CASE issued >= RejectAfter
    <3>1. Able' \subseteq Able \ {t}
      BY <1>1, <1>3, <2>2 DEF Able, NonceInv, TypeOK, flags
    <3>2. Cardinality(Able \ {t}) = Cardinality(Able) - 1 /\ IsFiniteSet(Able \ {t})
      BY AbleSize, FS_RemoveElement
    <3>3. Cardinality(Able') <= Cardinality(Able) - 1 /\ Cardinality(Able') \in Nat
      BY <3>1, <3>2, FS_Subset, FS_CardinalityType
    <3>4. issued + Cardinality(Able) <= RejectAfter + Cardinality(Tasks)
      BY <1>2, <2>2, AbleSize, TasksFinite DEF NonceInv, Budget
    <3>5. QED
      BY <1>2, <1>3, <3>3, <3>4, AbleSize, TasksFinite DEF Budget
  <2>3. QED
    BY <1>2, <2>1, <2>2
<1>5. Drawn'
  <2>1. issued + 1 < Modulus => (issued + 1) % Modulus = issued + 1
    BY <1>2
  <2>2. \A u \in Tasks : u # t => pc'[u] = pc[u] /\ nonce'[u] = nonce[u]
    BY <1>3 DEF NonceInv, TypeOK
  <2>3. nonce'[t] = issued
    BY <1>1, <1>3 DEF NonceInv, TypeOK
  <2>4. \A n \in sent : n \in Nat
    BY DEF NonceInv, TypeOK
  <2>5. \A u \in Tasks : nonce[u] \in Nat
    BY DEF NonceInv, TypeOK
  <2>6. QED
    BY <1>2, <1>3, <2>1, <2>2, <2>3, <2>4, <2>5 DEF NonceInv, Drawn
<1>6. NonceFresh'
  <2>1. \A u \in Tasks : u # t => pc'[u] = pc[u] /\ nonce'[u] = nonce[u]
    BY <1>3 DEF NonceInv, TypeOK
  <2>2. nonce'[t] = issued
    BY <1>1, <1>3 DEF NonceInv, TypeOK
  <2>3. issued \notin sent
    BY <1>2 DEF NonceInv, Drawn
  <2>4. \A u \in Tasks : u # t /\ pc'[u] = "encrypt" => nonce'[u] # issued
    BY <1>2, <2>1 DEF NonceInv, Drawn
  <2>5. QED
    BY <1>3, <2>1, <2>2, <2>3, <2>4 DEF NonceInv, NonceFresh
<1>7. QED
  BY <1>4, <1>5, <1>6

\* A step keeps the nonces fresh.
LEMMA NonceStep ==
  ASSUME NonceInv, [Next]_vars
  PROVE  NonceInv'
<1>1. TypeOK'
  BY TypeStep DEF NonceInv
<1> USE DEF flags, sending
<1>2. CASE AgeRekey \/ AgeReject
  <2>1. Able' \subseteq Able
    BY <1>2 DEF AgeRekey, AgeReject, Able
  <2>2. QED
    BY <1>1, <1>2, <2>1, BudgetShrinks DEF NonceInv, AgeRekey, AgeReject, Drawn, NonceFresh
<1>3. ASSUME NEW t \in Senders, Choose(t) PROVE NonceInv'
  <2>1. t \in Tasks
    BY DEF Tasks
  <2>2. Able' \subseteq Able
    BY <1>3, <2>1 DEF Choose, get_should_send, Able, NonceInv, TypeOK
  <2>3. QED
    BY <1>1, <1>3, <2>1, <2>2, BudgetShrinks
       DEF NonceInv, TypeOK, Choose, Drawn, NonceFresh
<1>4. ASSUME NEW t \in Tasks, Draw(t) PROVE NonceInv'
  <2>1. t \in Able
    BY <1>4 DEF Draw, Able
  <2>2. QED
    BY <1>1, <1>4, <2>1, DrawStep DEF NonceInv, Draw
<1>5. ASSUME NEW t \in Tasks, Encrypt(t) PROVE NonceInv'
  <2>1. Able' \subseteq Able
    BY <1>5 DEF Encrypt, Able, NonceInv, TypeOK
  <2>2. \A u \in Tasks : pc'[u] = "encrypt" => u # t /\ pc[u] = "encrypt"
    BY <1>5 DEF Encrypt, NonceInv, TypeOK
  <2>3. sent' = sent \cup {nonce[t]} /\ nonce' = nonce /\ UNCHANGED <<issued, send_counter>>
    BY <1>5 DEF Encrypt
  <2>4. Drawn'
    BY <1>5, <2>2, <2>3 DEF NonceInv, Drawn, Encrypt
  <2>5. NonceFresh'
    BY <1>5, <2>2, <2>3 DEF NonceInv, NonceFresh, Encrypt
  <2>6. QED
    BY <1>1, <2>1, <2>3, <2>4, <2>5, BudgetShrinks DEF NonceInv
<1>6. ASSUME NEW t \in Tasks, Reject(t) PROVE NonceInv'
  <2>1. Able' \subseteq Able
    BY <1>6 DEF Reject, Able, NonceInv, TypeOK
  <2>2. \A u \in Tasks : pc'[u] = "encrypt" => pc[u] = "encrypt"
    BY <1>6 DEF Reject, NonceInv, TypeOK
  <2>3. UNCHANGED <<issued, send_counter, sent, nonce>>
    BY <1>6 DEF Reject
  <2>4. QED
    BY <1>1, <2>1, <2>2, <2>3, BudgetShrinks DEF NonceInv, Drawn, NonceFresh
<1>7. CASE DrawQueued
  <2>1. Flusher \in Able
    BY <1>7 DEF DrawQueued, Able, Tasks
  <2>2. QED
    BY <1>1, <1>7, <2>1, DrawStep DEF NonceInv, DrawQueued
<1>8. CASE DecryptBegins \/ DecryptFails \/ DecryptSucceeds
  <2>1. UNCHANGED <<send_counter, pc, nonce, sent, issued, not_too_old, panicked>>
    BY <1>8 DEF DecryptBegins, DecryptFails, DecryptSucceeds
  <2>2. Able' \subseteq Able
    BY <2>1 DEF Able
  <2>3. QED
    BY <1>1, <2>1, <2>2, BudgetShrinks DEF NonceInv, Drawn, NonceFresh
<1>9. CASE Retired \/ UNCHANGED vars
  <2>1. UNCHANGED <<send_counter, pc, nonce, sent, issued, not_too_old, panicked>>
    BY <1>9 DEF Retired, vars
  <2>2. Able' \subseteq Able
    BY <2>1 DEF Able
  <2>3. QED
    BY <1>1, <2>1, <2>2, BudgetShrinks DEF NonceInv, Drawn, NonceFresh
<1>10. QED
  BY <1>2, <1>3, <1>4, <1>5, <1>6, <1>7, <1>8, <1>9 DEF Next

\* No two messages of a session are encrypted with the same nonce, whatever
\* the width of the counter, as long as it leaves one value above the limit
\* for each task that can send: the check of get_should_send is not atomic
\* with the fetch_add of encrypt, and this margin is what makes that safe.
THEOREM NoncesNeverReused == Spec => []NonceFresh
<1>1. Init => NonceInv
  BY TypeInit DEF Init, NonceInv, Budget, Drawn, NonceFresh
<1>2. NonceInv /\ [Next]_vars => NonceInv'
  BY NonceStep
<1>3. NonceInv => NonceFresh
  BY DEF NonceInv
<1>4. QED
  BY <1>1, <1>2, <1>3, PTL DEF Spec

\* A responder has confirmed whatever session a task may draw from.
ConfirmedInv ==
  /\ TypeOK
  /\ flush > 0 => is_initiator
  /\ SilentUntilConfirmed
  /\ \A t \in Tasks : pc[t] = "chosen" => is_initiator \/ has_received

\* What the steps that choose no session and draw no nonce leave as it was.
LEMMA StillConfirmed ==
  ASSUME ConfirmedInv, TypeOK',
         is_initiator' = is_initiator, has_received => has_received',
         UNCHANGED <<issued, flush>>,
         \A t \in Tasks : pc'[t] = "chosen" => pc[t] = "chosen"
  PROVE  ConfirmedInv'
BY DEF ConfirmedInv, SilentUntilConfirmed

\* A step of a responder's task draws from confirmed sessions only.
LEMMA ConfirmedStep ==
  ASSUME ConfirmedInv, [Next]_vars
  PROVE  ConfirmedInv'
<1>1. TypeOK'
  BY TypeStep DEF ConfirmedInv
<1> USE DEF flags, sending
<1>2. CASE AgeRekey \/ AgeReject
  BY <1>1, <1>2, StillConfirmed DEF AgeRekey, AgeReject
<1>3. ASSUME NEW t \in Senders, Choose(t) PROVE ConfirmedInv'
  BY <1>1, <1>3 DEF Choose, get_should_send, ConfirmedInv, SilentUntilConfirmed
<1>4. ASSUME NEW t \in Tasks, FetchAdd(t), is_initiator \/ has_received,
             flush' > 0 => flush > 0
      PROVE  ConfirmedInv'
  BY <1>1, <1>4 DEF FetchAdd, ConfirmedInv, SilentUntilConfirmed
<1>5. ASSUME NEW t \in Tasks, Draw(t) PROVE ConfirmedInv'
  BY <1>4, <1>5 DEF Draw, ConfirmedInv
<1>6. ASSUME NEW t \in Tasks, Encrypt(t) PROVE ConfirmedInv'
  <2>1. \A u \in Tasks : pc'[u] = "chosen" => pc[u] = "chosen"
    BY <1>6 DEF Encrypt, ConfirmedInv, TypeOK
  <2>2. QED
    BY <1>1, <1>6, <2>1, StillConfirmed DEF Encrypt
<1>7. ASSUME NEW t \in Tasks, Reject(t) PROVE ConfirmedInv'
  <2>1. \A u \in Tasks : pc'[u] = "chosen" => pc[u] = "chosen"
    BY <1>7 DEF Reject, ConfirmedInv, TypeOK
  <2>2. QED
    BY <1>1, <1>7, <2>1, StillConfirmed DEF Reject
<1>8. CASE DrawQueued
  <2>1. Flusher \in Tasks
    BY DEF Tasks
  <2>2. QED
    BY <1>4, <1>8, <2>1 DEF DrawQueued, ConfirmedInv
<1>9. CASE DecryptBegins \/ DecryptFails
  BY <1>1, <1>9, StillConfirmed DEF DecryptBegins, DecryptFails
<1>10. CASE DecryptSucceeds
  BY <1>1, <1>10, StillConfirmed DEF DecryptSucceeds
<1>11. CASE Retired \/ UNCHANGED vars
  BY <1>1, <1>11, StillConfirmed DEF Retired, vars
<1>12. QED
  BY <1>2, <1>3, <1>5, <1>6, <1>7, <1>8, <1>9, <1>10, <1>11 DEF Next

\* A responder draws no nonce before the session is confirmed: the only way to
\* encrypt without asking get_should_send, the flush of the queued packets, is
\* one an initiator takes.
THEOREM ResponderSilent == Spec => []SilentUntilConfirmed
<1>1. Init => ConfirmedInv
  BY TypeInit DEF Init, ConfirmedInv, SilentUntilConfirmed
<1>2. ConfirmedInv /\ [Next]_vars => ConfirmedInv'
  BY ConfirmedStep
<1>3. ConfirmedInv => SilentUntilConfirmed
  BY DEF ConfirmedInv
<1>4. QED
  BY <1>1, <1>2, <1>3, PTL DEF Spec
\* While no handshake was asked for, every nonce drawn since the counter
\* reached RekeyAfter is in the hands of a task that has yet to encrypt with
\* it; a refused draw was beyond the limit.
RekeyInv ==
  /\ NonceInv
  /\ is_initiator /\ ~rekey =>
       \A n \in RekeyAfter..(RejectAfter - 1) :
         n < issued => \E t \in Tasks : pc[t] = "encrypt" /\ nonce[t] = n
  /\ \A t \in Tasks : pc[t] = "reject" => issued > RejectAfter

\* The pigeonhole: the nonces between the limits are at least as many as the
\* tasks, so they cannot all be in the hands of the tasks other than one.
LEMMA HoldersAreFew ==
  ASSUME NEW f, NEW t \in Tasks,
         \A n \in RekeyAfter..(RejectAfter - 1) : \E u \in Tasks \ {t} : f[u] = n
  PROVE  FALSE
<1> DEFINE S == RekeyAfter..(RejectAfter - 1)
           U == Tasks \ {t}
           g == [u \in U |-> f[u]]
           R == {g[u] : u \in U}
<1>1. IsFiniteSet(U) /\ Cardinality(U) = Cardinality(Tasks) - 1
  BY TasksFinite, FS_RemoveElement
<1>2. IsFiniteSet(R) /\ Cardinality(R) <= Cardinality(U)
  <2>1. R = {g[u] : u \in U}
    OBVIOUS
  <2>2. g \in [U -> {f[u] : u \in U}]
    OBVIOUS
  <2>3. g \in Surjection(U, R)
    BY DEF Surjection
  <2> HIDE DEF g, R, U
  <2>4. QED
    BY <1>1, <2>3, FS_Surjection
<1>3. S \subseteq R
  OBVIOUS
<1>4. Cardinality(S) <= Cardinality(R) /\ Cardinality(R) \in Nat /\ Cardinality(S) \in Nat
  <2> HIDE DEF S, R
  <2>1. QED
    BY <1>2, <1>3, FS_Subset, FS_CardinalityType
<1>5. Cardinality(S) = RejectAfter - RekeyAfter
  <2>1. RekeyAfter <= RejectAfter - 1
    BY TasksFinite
  <2>2. QED
    BY <2>1, FS_Interval
<1> HIDE DEF S, R, U
<1>6. QED
  BY <1>1, <1>2, <1>4, <1>5, TasksFinite

\* What the invariant promises.
LEMMA RekeyEnough == RekeyInv => RekeyBeforeReject
<1> SUFFICES ASSUME RekeyInv, is_initiator, ~rekey,
                    NEW t \in Tasks, pc[t] = "reject"
             PROVE  FALSE
  BY DEF RekeyBeforeReject
<1>1. issued > RejectAfter /\ issued \in Nat
  BY DEF RekeyInv, NonceInv, TypeOK
<1>2. ASSUME NEW n \in RekeyAfter..(RejectAfter - 1)
      PROVE  \E u \in Tasks \ {t} : nonce[u] = n
  <2>1. n < issued
    BY <1>1
  <2>2. PICK u \in Tasks : pc[u] = "encrypt" /\ nonce[u] = n
    BY <2>1 DEF RekeyInv
  <2>3. u # t
    BY <2>2
  <2>4. QED
    BY <2>2, <2>3
<1>3. QED
  BY <1>2, HoldersAreFew

\* A draw hands its nonce to the task, or is beyond the limit.
LEMMA RekeyDraw ==
  ASSUME RekeyInv, NonceInv', NEW t \in Able, pc[t] # "encrypt", FetchAdd(t)
  PROVE  RekeyInv'
<1>1. t \in Tasks /\ issued \in Nat
  BY DEF Able, RekeyInv, NonceInv, TypeOK
<1>2. /\ issued' = issued + 1
      /\ nonce' = [nonce EXCEPT ![t] = issued]
      /\ pc' = [pc EXCEPT ![t] = IF issued >= RejectAfter THEN "reject" ELSE "encrypt"]
      /\ UNCHANGED <<is_initiator, rekey>>
  BY DrawBelow DEF FetchAdd, flags, RekeyInv
<1>3. \A u \in Tasks : u # t => pc'[u] = pc[u] /\ nonce'[u] = nonce[u]
  BY <1>2 DEF RekeyInv, NonceInv, TypeOK
<1>4. /\ nonce'[t] = issued
      /\ pc'[t] = IF issued >= RejectAfter THEN "reject" ELSE "encrypt"
  BY <1>1, <1>2 DEF RekeyInv, NonceInv, TypeOK
<1>5. ASSUME is_initiator, ~rekey, NEW n \in RekeyAfter..(RejectAfter - 1), n < issued'
      PROVE  \E u \in Tasks : pc'[u] = "encrypt" /\ nonce'[u] = n
  <2>1. CASE n = issued
    BY <1>1, <1>4, <2>1
  <2>2. CASE n # issued
    <3>1. n < issued
      BY <1>1, <1>2, <1>5, <2>2
    <3>2. PICK u \in Tasks : pc[u] = "encrypt" /\ nonce[u] = n
      BY <1>5, <3>1 DEF RekeyInv
    <3>3. u # t
      BY <3>2
    <3>4. QED
      BY <1>3, <3>2, <3>3
  <2>3. QED
    BY <2>1, <2>2
<1>6. ASSUME NEW u \in Tasks, pc'[u] = "reject" PROVE issued' > RejectAfter
  BY <1>1, <1>2, <1>3, <1>4, <1>6 DEF RekeyInv
<1>7. QED
  BY <1>2, <1>5, <1>6 DEF RekeyInv

\* What the steps that neither draw, nor encrypt, nor refuse leave as it was.
LEMMA RekeyKept ==
  ASSUME RekeyInv, NonceInv', UNCHANGED <<is_initiator, issued, nonce>>,
         rekey => rekey',
         \A t \in Tasks : pc[t] = "encrypt" => pc'[t] = "encrypt" \/ rekey' \/ nonce[t] < RekeyAfter,
         \A t \in Tasks : pc'[t] = "reject" => pc[t] = "reject"
  PROVE  RekeyInv'
<1>1. ASSUME is_initiator, ~rekey', NEW n \in RekeyAfter..(RejectAfter - 1), n < issued
      PROVE  \E u \in Tasks : pc'[u] = "encrypt" /\ nonce[u] = n
  <2>1. PICK u \in Tasks : pc[u] = "encrypt" /\ nonce[u] = n
    BY <1>1 DEF RekeyInv
  <2>2. ~(nonce[u] < RekeyAfter)
    BY <2>1
  <2>3. QED
    BY <1>1, <2>1, <2>2
<1>2. QED
  BY <1>1 DEF RekeyInv

\* A step keeps the nonces between the limits in hand, or asks for a handshake.
LEMMA RekeyStep ==
  ASSUME RekeyInv, [Next]_vars
  PROVE  RekeyInv'
<1>1. NonceInv'
  BY NonceStep DEF RekeyInv
<1>2. TypeOK
  BY DEF RekeyInv, NonceInv
<1> USE DEF flags, sending
<1>3. CASE AgeRekey \/ AgeReject
  BY <1>1, <1>3, RekeyKept DEF AgeRekey, AgeReject
<1>4. ASSUME NEW t \in Senders, Choose(t) PROVE RekeyInv'
  <2>1. \A u \in Tasks : pc[u] = "encrypt" => pc'[u] = "encrypt"
    BY <1>2, <1>4 DEF Choose, TypeOK
  <2>2. \A u \in Tasks : pc'[u] = "reject" => pc[u] = "reject"
    BY <1>2, <1>4 DEF Choose, TypeOK
  <2>3. QED
    BY <1>1, <1>4, <2>1, <2>2, RekeyKept DEF Choose
<1>5. ASSUME NEW t \in Tasks, Draw(t) PROVE RekeyInv'
  <2>1. t \in Able
    BY <1>5 DEF Draw, Able
  <2>2. QED
    BY <1>1, <1>5, <2>1, RekeyDraw DEF Draw
<1>6. ASSUME NEW t \in Tasks, Encrypt(t) PROVE RekeyInv'
  <2>1. CASE ~is_initiator
    <3>1. \A u \in Tasks : pc'[u] = "reject" => pc[u] = "reject"
      BY <1>2, <1>6 DEF Encrypt, TypeOK
    <3>2. QED
      BY <1>1, <1>6, <2>1, <3>1 DEF Encrypt, RekeyInv
  <2>2. CASE is_initiator
    <3>1. \A u \in Tasks : u # t => pc'[u] = pc[u]
      BY <1>2, <1>6 DEF Encrypt, TypeOK
    <3>2. pc'[t] = "idle"
      BY <1>2, <1>6 DEF Encrypt, TypeOK
    <3>3. nonce[t] >= RekeyAfter => rekey'
      BY <1>6, <2>2 DEF Encrypt, ShouldRekey
    <3>4. nonce[t] \in Nat
      BY <1>2 DEF TypeOK
    <3>5. \A u \in Tasks :
            pc[u] = "encrypt" => pc'[u] = "encrypt" \/ rekey' \/ nonce[u] < RekeyAfter
      BY <3>1, <3>3, <3>4
    <3>6. QED
      BY <1>1, <1>6, <3>1, <3>2, <3>5, RekeyKept DEF Encrypt
  <2>3. QED
    BY <2>1, <2>2
<1>7. ASSUME NEW t \in Tasks, Reject(t) PROVE RekeyInv'
  <2>1. \A u \in Tasks : pc[u] = "encrypt" => pc'[u] = "encrypt"
    BY <1>2, <1>7 DEF Reject, TypeOK
  <2>2. \A u \in Tasks : pc'[u] = "reject" => pc[u] = "reject"
    BY <1>2, <1>7 DEF Reject, TypeOK
  <2>3. QED
    BY <1>1, <1>7, <2>1, <2>2, RekeyKept DEF Reject
<1>8. CASE DrawQueued
  <2>1. Flusher \in Able /\ pc[Flusher] # "encrypt"
    BY <1>8 DEF DrawQueued, Able, Tasks
  <2>2. QED
    BY <1>1, <1>8, <2>1, RekeyDraw DEF DrawQueued
<1>9. CASE DecryptBegins \/ DecryptFails \/ DecryptSucceeds
  <2>1. UNCHANGED <<is_initiator, issued, nonce, pc>>
    BY <1>9 DEF DecryptBegins, DecryptFails, DecryptSucceeds
  <2>2. rekey => rekey'
    BY <1>9 DEF DecryptBegins, DecryptFails, DecryptSucceeds
  <2>3. QED
    BY <1>1, <2>1, <2>2, RekeyKept
<1>10. CASE Retired \/ UNCHANGED vars
  BY <1>1, <1>10, RekeyKept DEF Retired, vars
<1>11. QED
  BY <1>3, <1>4, <1>5, <1>6, <1>7, <1>8, <1>9, <1>10 DEF Next

\* No draw of an initiator is refused before a message has asked for a new
\* handshake: the limits are further apart than there are tasks, so one of the
\* nonces between them has gone into a message, in whatever order the tasks ran.
THEOREM RekeyAlwaysAsked == Spec => []RekeyBeforeReject
<1>1. Init => RekeyInv
  BY TypeInit DEF Init, RekeyInv, NonceInv, Budget, Drawn, NonceFresh
<1>2. RekeyInv /\ [Next]_vars => RekeyInv'
  BY RekeyStep
<1>3. RekeyInv => RekeyBeforeReject
  BY RekeyEnough
<1>4. QED
  BY <1>1, <1>2, <1>3, PTL DEF Spec
=============================================================================
