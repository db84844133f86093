------------------------- MODULE PeerSession_proof -------------------------
(* Proofs about PeerSession, for every value of its constants.             *)
EXTENDS PeerSession, TLAPS

USE ConstantsAssumption

\* push_transport keeps the capacity of the array, and puts in it nothing but
\* the new session and sessions it held.
LEMMA PushedFacts ==
  ASSUME NEW ts \in Seq(Transports), Len(ts) <= MaxTransports,
         NEW t \in Transports
  PROVE  /\ Pushed(ts, t) \in Seq(Transports)
         /\ Len(Pushed(ts, t)) <= MaxTransports
         /\ Pushed(ts, t) # << >>
         /\ \A n \in DOMAIN Pushed(ts, t) :
              Pushed(ts, t)[n] = t \/ \E m \in DOMAIN ts : Pushed(ts, t)[n] = ts[m]
<1>1. CASE Len(ts) = MaxTransports
  <2> DEFINE rest == SubSeq(ts, 1, Len(ts) - 1)
  <2>1. rest \in Seq(Transports) /\ Len(rest) = Len(ts) - 1
        /\ \A n \in 1..Len(rest) : rest[n] = ts[n]
    BY <1>1
  <2>2. Pushed(ts, t) = <<t>> \o rest
    BY <1>1 DEF Pushed
  <2> HIDE DEF rest
  <2>3. QED
    BY <2>1, <2>2, <1>1
<1>2. CASE Len(ts) # MaxTransports
  BY <1>2 DEF Pushed
<1>3. QED
  BY <1>1, <1>2

\* Dropping guards takes identifiers out of id_map or leaves them pending.
LEMMA DropGuardsType ==
  ASSUME NEW m \in [Ids -> Peers \cup {NoPeer}], NEW dropped \in SUBSET Ids,
         pendingRemoval \subseteq Ids, DropGuards(m, dropped)
  PROVE  /\ id_map' \in [Ids -> Peers \cup {NoPeer}]
         /\ pendingRemoval' \subseteq Ids
BY DEF DropGuards

\* The identifiers the IdMapGuards hold are identifiers.
LEMMA GuardIds ==
  ASSUME TypeOK
  PROVE  /\ \A p \in Peers : Guards(p) \subseteq Ids
         /\ \A p \in Peers : GuardsOf(handshake[p], << >>) \subseteq Ids
         /\ RxGuard \subseteq Ids
<1>1. ASSUME NEW p \in Peers PROVE Guards(p) \subseteq Ids /\ GuardsOf(handshake[p], << >>) \subseteq Ids
  <2>1. handshake[p] = NoHandshake \/ handshake[p].id \in Ids
    BY <1>1 DEF TypeOK, Handshakes
  <2>2. \A n \in DOMAIN transports[p] : transports[p][n].id \in Ids
    <3>1. transports[p] \in Seq(Transports)
      BY <1>1 DEF TypeOK
    <3>2. \A n \in DOMAIN transports[p] : transports[p][n] \in Transports
      BY <3>1
    <3>3. QED
      BY <3>2 DEF Transports
  <2>3. TransportIds(transports[p]) \subseteq Ids /\ TransportIds(<< >>) = {}
    BY <2>2 DEF TransportIds
  <2>4. QED
    BY <2>1, <2>3 DEF Guards, GuardsOf
<1>2. RxGuard \subseteq Ids
  BY DEF TypeOK, RxGuard, RxStates, RxIdle
<1>3. QED
  BY <1>1, <1>2

USE DEF mapVars, idVars, infoVars, timerVars, rxFrame, tunFrame, timerFrame,
        cfgFrame, peerFrame

\* PeerState::clear keeps the types of what it changes.
LEMMA ClearType ==
  ASSUME TypeOK, NEW p \in Peers, Clear(p)
  PROVE  /\ handshake' \in [Peers -> Handshakes \cup {NoHandshake}]
         /\ scope' \in [Peers -> Scopes \cup {NoScope}]
         /\ transports' \in [Peers -> Seq(Transports)]
         /\ \A q \in Peers : Len(transports'[q]) <= MaxTransports
         /\ queue' \in [Peers -> 0..QueueSize]
         /\ clearArmed' \in [Peers -> BOOLEAN]
         /\ id_map' \in [Ids -> Peers \cup {NoPeer}]
         /\ pendingRemoval' \subseteq Ids
<1>1. id_map' \in [Ids -> Peers \cup {NoPeer}] /\ pendingRemoval' \subseteq Ids
  <2>1. Guards(p) \ RxGuard \in SUBSET Ids
    BY GuardIds
  <2>2. id_map \in [Ids -> Peers \cup {NoPeer}] /\ pendingRemoval \subseteq Ids
    BY DEF TypeOK
  <2>3. QED
    BY <2>1, <2>2, DropGuardsType DEF Clear
<1>2. QED
  BY <1>1 DEF TypeOK, Clear

\* do_handshake keeps the types of what it changes.
LEMMA DoHandshakeType ==
  ASSUME TypeOK, NEW p \in Peers, DoHandshake(p)
  PROVE  /\ scope' \in [Peers -> Scopes \cup {NoScope}]
         /\ tasks' \in [Scopes -> Peers \cup {NoPeer}]
         /\ stopArmed' \in [Peers -> BOOLEAN]
         /\ clearArmed' \in [Peers -> BOOLEAN]
         /\ UNCHANGED <<stopRun, clearRun>>
<1>1. CASE scope[p] # NoScope \/ ~endpoint[p]
  <2>1. UNCHANGED <<scope, tasks, timerVars>>
    BY <1>1 DEF DoHandshake
  <2>2. QED
    BY <2>1 DEF TypeOK
<1>2. CASE ~(scope[p] # NoScope \/ ~endpoint[p])
  <2>1. PICK s \in Scopes : /\ scope' = [scope EXCEPT ![p] = s]
                           /\ tasks' = [tasks EXCEPT ![s] = p]
                           /\ ArmAttemptTimers(p)
    BY <1>2 DEF DoHandshake
  <2>2. QED
    BY <2>1 DEF TypeOK, ArmAttemptTimers
<1>3. QED
  BY <1>1, <1>2

\* The receiving task keeps the types.
LEMMA RxType ==
  ASSUME TypeOK, RxNext
  PROVE  TypeOK'
<1>1. ASSUME NEW k \in PublicKeys, RxInitArrives(k) PROVE TypeOK'
  BY <1>1 DEF TypeOK, RxInitArrives, RxStates
<1>2. CASE RxInitRejected
  BY <1>2 DEF TypeOK, RxInitRejected, RxStates
<1>3. CASE RxInitAccepted
  <2>1. rx.peer \in Peers
    BY <1>3 DEF TypeOK, RxStates, RxInitAccepted, RxIdle
  <2> DEFINE p == rx.peer
  <2>2. PICK i \in Ids : LET t == [id |-> i, key |-> key] IN
       /\ endpoint' = [endpoint EXCEPT ![p] = TRUE]
       /\ transports' = [transports EXCEPT ![p] = Pushed(transports[p], t)]
       /\ OnNewTransport(p)
       /\ handshake' = [handshake EXCEPT ![p] = NoHandshake]
       /\ scope' = [scope EXCEPT ![p] = NoScope]
       /\ DropGuards([id_map EXCEPT ![i] = p],
                     ReplacedGuards(p, Pushed(transports[p], t)))
    BY <1>3 DEF RxInitAccepted
  <2> DEFINE t == [id |-> i, key |-> key]
  <2>3. t \in Transports
    BY DEF Transports, TypeOK
  <2>4. Pushed(transports[p], t) \in Seq(Transports) /\ Len(Pushed(transports[p], t)) <= MaxTransports
    BY <2>1, <2>3, PushedFacts DEF TypeOK
  <2>5. id_map' \in [Ids -> Peers \cup {NoPeer}] /\ pendingRemoval' \subseteq Ids
    <3>1. [id_map EXCEPT ![i] = p] \in [Ids -> Peers \cup {NoPeer}] /\ pendingRemoval \subseteq Ids
      BY <2>1 DEF TypeOK
    <3>2. ReplacedGuards(p, Pushed(transports[p], t)) \in SUBSET Ids
      BY <2>1, GuardIds DEF ReplacedGuards
    <3>3. QED
      BY <2>2, <3>1, <3>2, DropGuardsType
  <2>6. /\ transports' = [transports EXCEPT ![p] = Pushed(transports[p], t)]
        /\ endpoint' = [endpoint EXCEPT ![p] = TRUE]
        /\ handshake' = [handshake EXCEPT ![p] = NoHandshake]
        /\ scope' = [scope EXCEPT ![p] = NoScope]
        /\ OnNewTransport(p)
    BY <2>2
  <2> HIDE DEF t
  <2>7. rx' = RxIdle /\ UNCHANGED <<rxFrame, queue>>
    BY <1>3 DEF RxInitAccepted
  <2>8. QED
    BY <2>1, <2>4, <2>5, <2>6, <2>7 DEF TypeOK, OnNewTransport, RxStates
<1>4. ASSUME NEW i \in Ids, RxRespArrives(i) PROVE TypeOK'
  BY <1>4 DEF TypeOK, RxRespArrives, RxStates
<1>5. CASE RxRespChecked
  BY <1>5 DEF TypeOK, RxRespChecked, RxStates, RxIdle
<1>6. CASE RxRespInserted
  BY <1>6 DEF TypeOK, RxRespInserted, RxStates, RxIdle, Handshakes
<1>7. CASE RxRespCompletes
  <2>1. rx.peer \in Peers /\ rx.hs \in Handshakes
    BY <1>7 DEF TypeOK, RxStates, RxRespCompletes, RxIdle
  <2> DEFINE p == rx.peer
             t == [id |-> handshake[p].id, key |-> rx.hs.key]
  <2>2. handshake[p].id \in Ids
    BY <1>7, <2>1 DEF TypeOK, RxRespCompletes, Handshakes
  <2>3. t \in Transports
    BY <2>1, <2>2 DEF Transports, Handshakes
  <2>4. Pushed(transports[p], t) \in Seq(Transports) /\ Len(Pushed(transports[p], t)) <= MaxTransports
    BY <2>1, <2>3, PushedFacts DEF TypeOK
  <2>5. id_map' \in [Ids -> Peers \cup {NoPeer}] /\ pendingRemoval' \subseteq Ids
    <3>1. id_map \in [Ids -> Peers \cup {NoPeer}] /\ pendingRemoval \subseteq Ids
      BY DEF TypeOK
    <3>2. ReplacedGuards(p, Pushed(transports[p], t)) \in SUBSET Ids
      BY <2>1, GuardIds DEF ReplacedGuards
    <3>3. DropGuards(id_map, ReplacedGuards(p, Pushed(transports[p], t)))
      BY <1>7 DEF RxRespCompletes
    <3>4. QED
      BY <3>1, <3>2, <3>3, DropGuardsType
  <2>6. transports' = [transports EXCEPT ![p] = Pushed(transports[p], t)]
    BY <1>7 DEF RxRespCompletes
  <2> HIDE DEF t
  <2>7. rx' \in RxStates
    BY <1>7, <2>1, <2>2 DEF RxRespCompletes, RxStates
  <2>8. QED
    BY <1>7, <2>1, <2>4, <2>5, <2>6, <2>7 DEF TypeOK, RxRespCompletes, OnNewTransport
<1>8. CASE RxRespPanics
  BY <1>8 DEF TypeOK, RxRespPanics, RxStates
<1>9. CASE RxSendDone
  <2>1. RxGuard \ UNION {Guards(p) : p \in Peers} \in SUBSET Ids
    BY GuardIds
  <2>2. id_map' \in [Ids -> Peers \cup {NoPeer}] /\ pendingRemoval' \subseteq Ids
    BY <1>9, <2>1, DropGuardsType DEF TypeOK, RxSendDone
  <2>3. QED
    BY <1>9, <2>2 DEF TypeOK, RxSendDone, RxStates
<1>10. QED
  BY <1>1, <1>2, <1>3, <1>4, <1>5, <1>6, <1>7, <1>8, <1>9 DEF RxNext

\* The sending task keeps the types.
LEMMA TunType ==
  ASSUME TypeOK, TunNext
  PROVE  TypeOK'
<1>1. ASSUME NEW p \in Peers, TunLookup(p) PROVE TypeOK'
  BY <1>1 DEF TypeOK, TunLookup, TunStates
<1>2. CASE TunSends
  <2>1. tun.peer \in Peers
    BY <1>2 DEF TypeOK, TunSends, TunStates, TunIdle
  <2>2. tun' \in TunStates
    BY <1>2, <2>1 DEF TunSends, AfterPacket, TunStates
  <2>3. QED
    BY <1>2, <2>2 DEF TypeOK, TunSends
<1>3. CASE TunEnqueues
  <2>1. tun.peer \in Peers
    BY <1>3 DEF TypeOK, TunEnqueues, TunStates, TunIdle
  <2>2. tun' \in TunStates
    BY <1>3, <2>1 DEF TunEnqueues, AfterPacket, TunStates
  <2>3. queue' \in [Peers -> 0..QueueSize]
    BY <1>3, <2>1 DEF TypeOK, TunEnqueues
  <2>4. QED
    BY <1>3, <2>2, <2>3 DEF TypeOK, TunEnqueues
<1>4. CASE TunHandshake
  <2>1. tun.peer \in Peers
    BY <1>4 DEF TypeOK, TunHandshake, TunStates, TunIdle
  <2>2. QED
    BY <1>4, <2>1, DoHandshakeType DEF TypeOK, TunHandshake, TunStates
<1>5. QED
  BY <1>1, <1>2, <1>3, <1>4 DEF TunNext

\* The resend tasks keep the types.
LEMMA TaskType ==
  ASSUME TypeOK, TaskNext
  PROVE  TypeOK'
<1>1. ASSUME NEW s \in Scopes, ResendIteration(s) PROVE TypeOK'
  <2> DEFINE p == tasks[s]
             old == IF handshake[p] = NoHandshake THEN {} ELSE {handshake[p].id}
  <2>1. p \in Peers
    BY <1>1 DEF TypeOK, ResendIteration
  <2>2. PICK i \in Ids :
          /\ handshake' = [handshake EXCEPT ![p] = [id |-> i, key |-> key]]
          /\ DropGuards([id_map EXCEPT ![i] = p], old \ RxGuard)
    BY <1>1 DEF ResendIteration
  <2>3. old \ RxGuard \in SUBSET Ids
    BY <2>1 DEF TypeOK, Handshakes
  <2>4. [id_map EXCEPT ![i] = p] \in [Ids -> Peers \cup {NoPeer}]
    BY <2>1 DEF TypeOK
  <2>5. id_map' \in [Ids -> Peers \cup {NoPeer}] /\ pendingRemoval' \subseteq Ids
    BY <2>2, <2>3, <2>4, DropGuardsType DEF TypeOK
  <2>6. [id |-> i, key |-> key] \in Handshakes
    BY DEF TypeOK, Handshakes
  <2>7. QED
    BY <1>1, <2>1, <2>2, <2>5, <2>6 DEF TypeOK, ResendIteration
<1>2. ASSUME NEW s \in Scopes, ResendEnds(s) PROVE TypeOK'
  BY <1>2 DEF TypeOK, ResendEnds
<1>3. ASSUME NEW p \in Peers, TimerHandshake(p) PROVE TypeOK'
  BY <1>3, DoHandshakeType DEF TypeOK, TimerHandshake
<1>4. QED
  BY <1>1, <1>2, <1>3 DEF TaskNext

\* The timers' actions keep the types.
LEMMA TimerType ==
  ASSUME TypeOK, TimerNext
  PROVE  TypeOK'
<1>1. ASSUME NEW p \in Peers, StopFires(p) PROVE TypeOK'
  BY <1>1 DEF TypeOK, StopFires
<1>2. ASSUME NEW p \in Peers, StopScope(p) PROVE TypeOK'
  BY <1>2 DEF TypeOK, StopScope
<1>3. ASSUME NEW p \in Peers, StopHandshake(p) PROVE TypeOK'
  <2>1. GuardsOf(handshake[p], << >>) \in SUBSET Ids
    BY GuardIds
  <2>2. id_map' \in [Ids -> Peers \cup {NoPeer}] /\ pendingRemoval' \subseteq Ids
    BY <1>3, <2>1, DropGuardsType DEF TypeOK, StopHandshake
  <2>3. QED
    BY <1>3, <2>2 DEF TypeOK, StopHandshake
<1>4. ASSUME NEW p \in Peers, ClearFires(p) PROVE TypeOK'
  BY <1>4 DEF TypeOK, ClearFires
<1>5. ASSUME NEW p \in Peers, ClearPeer(p) PROVE TypeOK'
  BY <1>5, ClearType DEF TypeOK, ClearPeer
<1>6. QED
  BY <1>1, <1>2, <1>3, <1>4, <1>5 DEF TimerNext

\* The configuration commands keep the types.
LEMMA CfgType ==
  ASSUME TypeOK, CfgNext
  PROVE  TypeOK'
<1>1. ASSUME NEW p \in Peers, AddPeer(p) PROVE TypeOK'
  BY <1>1 DEF TypeOK, AddPeer
<1>2. ASSUME NEW k \in PublicKeys, NEW s \in Psks, NEW e \in BOOLEAN, SetPeer(k, s, e)
      PROVE  TypeOK'
  <2> DEFINE p == pubkey_map[k]
  <2>1. p \in Peers
    BY <1>2 DEF TypeOK, SetPeer
  <2>2. CASE psk[p] = s
    BY <1>2, <2>1, <2>2 DEF TypeOK, SetPeer
  <2>3. CASE psk[p] # s
    <3>1. Clear(p)
      BY <1>2, <2>3 DEF SetPeer
    <3>2. QED
      BY <1>2, <2>1, <2>3, <3>1, ClearType DEF TypeOK, SetPeer
  <2>4. QED
    BY <2>2, <2>3
<1>3. CASE SetKeyBegins
  <2>1. cfg' \in CfgStates
    BY <1>3 DEF TypeOK, SetKeyBegins, CfgStates
  <2>2. QED
    BY <1>3, <2>1 DEF TypeOK, SetKeyBegins
<1>4. ASSUME NEW p \in Peers, SetKeyClears(p) PROVE TypeOK'
  <2>1. cfg' \in CfgStates
    BY <1>4 DEF TypeOK, SetKeyClears, CfgStates, CfgIdle
  <2>2. QED
    BY <1>4, <2>1, ClearType DEF TypeOK, SetKeyClears
<1>5. ASSUME NEW k \in InterfaceKeys, SetKeyEnds(k) PROVE TypeOK'
  BY <1>5 DEF TypeOK, SetKeyEnds, CfgStates
<1>6. ASSUME NEW k \in PublicKeys, RemoveBegins(k) PROVE TypeOK'
  BY <1>6 DEF TypeOK, RemoveBegins, CfgStates
<1>7. CASE RemoveClears
  <2>1. cfg.peer \in Peers
    BY <1>7 DEF TypeOK, RemoveClears, CfgStates, CfgIdle
  <2>2. QED
    BY <1>7, <2>1, ClearType DEF TypeOK, RemoveClears, CfgStates
<1>8. QED
  BY <1>1, <1>2, <1>3, <1>4, <1>5, <1>6, <1>7 DEF CfgNext

\* In every reachable state the variables have the values TypeOK says: at most
\* MaxTransports sessions per peer and QueueSize queued packets among them.
THEOREM TypeCorrect == Spec => []TypeOK
<1>1. Init => TypeOK
  BY DEF Init, TypeOK, RxStates, TunStates, CfgStates
<1>2. TypeOK /\ [Next]_vars => TypeOK'
  <2> SUFFICES ASSUME TypeOK, [Next]_vars PROVE TypeOK'
    OBVIOUS
  <2>1. ASSUME NEW i \in Ids, DeferredRemoval(i) PROVE TypeOK'
    BY <2>1 DEF TypeOK, DeferredRemoval
  <2>2. CASE UNCHANGED vars
    BY <2>2 DEF TypeOK, vars
  <2>3. QED
    BY <2>1, <2>2, RxType, TunType, TaskType, TimerType, CfgType DEF Next, Exited
<1>3. QED
  BY <1>1, <1>2, PTL DEF Spec

-----------------------------------------------------------------------------
(* Attempts and sessions always have a timer that will end them.           *)

\* A step leaves no attempt and no session without the timer that ends it.
LEMMA BoundedStep ==
  ASSUME TypeOK, AttemptsBounded, SessionsBounded, [Next]_vars
  PROVE  AttemptsBounded' /\ SessionsBounded'
<1> USE DEF TypeOK, AttemptsBounded, SessionsBounded
\* Clearing a peer drops the attempt and the sessions, whatever the timers do.
<1>0. ASSUME NEW p \in Peers, Clear(p), UNCHANGED stopArmed,
             \A q \in Peers : q # p => stopRun'[q] = stopRun[q] /\ clearRun'[q] = clearRun[q]
      PROVE  AttemptsBounded' /\ SessionsBounded'
  BY <1>0 DEF Clear
<1>1. CASE RxNext
  <2>1. ASSUME NEW k \in PublicKeys, RxInitArrives(k)
        PROVE AttemptsBounded' /\ SessionsBounded'
    BY <2>1 DEF RxInitArrives
  <2>2. CASE RxInitRejected
    BY <2>2 DEF RxInitRejected
  <2>3. CASE RxInitAccepted
    <3>1. rx.peer \in Peers
      BY <2>3 DEF RxStates, RxInitAccepted, RxIdle
    <3>2. \A q \in Peers : q # rx.peer => transports'[q] = transports[q]
      BY <2>3 DEF RxInitAccepted
    <3>3. QED
      BY <2>3, <3>1, <3>2 DEF RxInitAccepted, OnNewTransport
  <2>4. ASSUME NEW i \in Ids, RxRespArrives(i)
        PROVE AttemptsBounded' /\ SessionsBounded'
    BY <2>4 DEF RxRespArrives
  <2>5. CASE RxRespChecked
    BY <2>5 DEF RxRespChecked
  <2>6. CASE RxRespInserted
    BY <2>6 DEF RxRespInserted
  <2>7. CASE RxRespCompletes
    <3>1. rx.peer \in Peers
      BY <2>7 DEF RxStates, RxRespCompletes, RxIdle
    <3>2. \A q \in Peers : q # rx.peer => transports'[q] = transports[q]
      BY <2>7 DEF RxRespCompletes
    <3>3. QED
      BY <2>7, <3>1, <3>2 DEF RxRespCompletes, OnNewTransport
  <2>8. CASE RxRespPanics
    BY <2>8 DEF RxRespPanics
  <2>9. CASE RxSendDone
    BY <2>9 DEF RxSendDone
  <2>10. QED
    BY <1>1, <2>1, <2>2, <2>3, <2>4, <2>5, <2>6, <2>7, <2>8, <2>9 DEF RxNext
\* An attempt begins with both timers activated.
<1>2. ASSUME NEW p \in Peers, DoHandshake(p), UNCHANGED transports
      PROVE  AttemptsBounded' /\ SessionsBounded'
  <2>1. CASE scope[p] # NoScope \/ ~endpoint[p]
    BY <1>2, <2>1 DEF DoHandshake
  <2>2. CASE ~(scope[p] # NoScope \/ ~endpoint[p])
    <3>1. PICK n \in Scopes : scope' = [scope EXCEPT ![p] = n] /\ ArmAttemptTimers(p)
      BY <1>2, <2>2 DEF DoHandshake
    <3>2. \A q \in Peers : q # p => /\ scope'[q] = scope[q]
                                     /\ stopArmed'[q] = stopArmed[q]
                                     /\ clearArmed'[q] = clearArmed[q]
      BY <3>1 DEF ArmAttemptTimers
    <3>3. /\ stopArmed'[p] /\ clearArmed'[p]
          /\ UNCHANGED <<stopRun, clearRun>>
      BY <3>1 DEF ArmAttemptTimers
    <3>4. QED
      BY <1>2, <3>2, <3>3
  <2>3. QED
    BY <2>1, <2>2
<1>3. CASE TunNext
  <2>1. ASSUME NEW p \in Peers, TunLookup(p) PROVE AttemptsBounded' /\ SessionsBounded'
    BY <2>1 DEF TunLookup
  <2>2. CASE TunSends
    BY <2>2 DEF TunSends
  <2>3. CASE TunEnqueues
    BY <2>3 DEF TunEnqueues
  <2>4. CASE TunHandshake
    <3>1. tun.peer \in Peers
      BY <2>4 DEF TunHandshake, TunStates, TunIdle
    <3>2. QED
      BY <2>4, <3>1, <1>2 DEF TunHandshake
  <2>5. QED
    BY <1>3, <2>1, <2>2, <2>3, <2>4 DEF TunNext
<1>4. CASE TaskNext
  <2>1. ASSUME NEW s \in Scopes, ResendIteration(s)
        PROVE AttemptsBounded' /\ SessionsBounded'
    BY <2>1 DEF ResendIteration
  <2>2. ASSUME NEW s \in Scopes, ResendEnds(s)
        PROVE AttemptsBounded' /\ SessionsBounded'
    BY <2>2 DEF ResendEnds
  <2>3. ASSUME NEW p \in Peers, TimerHandshake(p)
        PROVE AttemptsBounded' /\ SessionsBounded'
    BY <2>3, <1>2 DEF TimerHandshake
  <2>4. QED
    BY <1>4, <2>1, <2>2, <2>3 DEF TaskNext
<1>5. CASE TimerNext
  <2>1. ASSUME NEW p \in Peers, StopFires(p) PROVE AttemptsBounded' /\ SessionsBounded'
    BY <2>1 DEF StopFires
  <2>2. ASSUME NEW p \in Peers, StopScope(p) PROVE AttemptsBounded' /\ SessionsBounded'
    BY <2>2 DEF StopScope
  <2>3. ASSUME NEW p \in Peers, StopHandshake(p)
        PROVE AttemptsBounded' /\ SessionsBounded'
    BY <2>3 DEF StopHandshake
  <2>4. ASSUME NEW p \in Peers, ClearFires(p) PROVE AttemptsBounded' /\ SessionsBounded'
    BY <2>4 DEF ClearFires
  <2>5. ASSUME NEW p \in Peers, ClearPeer(p) PROVE AttemptsBounded' /\ SessionsBounded'
    BY <2>5, <1>0 DEF ClearPeer
  <2>6. QED
    BY <1>5, <2>1, <2>2, <2>3, <2>4, <2>5 DEF TimerNext
<1>6. CASE CfgNext
  <2>1. ASSUME NEW p \in Peers, AddPeer(p) PROVE AttemptsBounded' /\ SessionsBounded'
    BY <2>1 DEF AddPeer
  <2>2. ASSUME NEW k \in PublicKeys, NEW s \in Psks, NEW e \in BOOLEAN, SetPeer(k, s, e)
        PROVE  AttemptsBounded' /\ SessionsBounded'
    <3>1. pubkey_map[k] \in Peers
      BY <2>2 DEF SetPeer
    <3>2. CASE psk[pubkey_map[k]] = s
      BY <2>2, <3>2 DEF SetPeer
    <3>3. CASE psk[pubkey_map[k]] # s
      BY <2>2, <3>1, <3>3, <1>0 DEF SetPeer
    <3>4. QED
      BY <3>2, <3>3
  <2>3. CASE SetKeyBegins
    BY <2>3 DEF SetKeyBegins
  <2>4. ASSUME NEW p \in Peers, SetKeyClears(p)
        PROVE AttemptsBounded' /\ SessionsBounded'
    BY <2>4, <1>0 DEF SetKeyClears
  <2>5. ASSUME NEW k \in InterfaceKeys, SetKeyEnds(k)
        PROVE AttemptsBounded' /\ SessionsBounded'
    BY <2>5 DEF SetKeyEnds
  <2>6. ASSUME NEW k \in PublicKeys, RemoveBegins(k)
        PROVE AttemptsBounded' /\ SessionsBounded'
    BY <2>6 DEF RemoveBegins
  <2>7. CASE RemoveClears
    <3>1. cfg.peer \in Peers
      BY <2>7 DEF RemoveClears, CfgStates, CfgIdle
    <3>2. QED
      BY <2>7, <3>1, <1>0 DEF RemoveClears
  <2>8. QED
    BY <1>6, <2>1, <2>2, <2>3, <2>4, <2>5, <2>6, <2>7 DEF CfgNext
<1>7. ASSUME NEW i \in Ids, DeferredRemoval(i) PROVE AttemptsBounded' /\ SessionsBounded'
  BY <1>7 DEF DeferredRemoval
<1>8. CASE UNCHANGED vars
  BY <1>8 DEF vars
<1>9. QED
  BY <1>1, <1>3, <1>4, <1>5, <1>6, <1>7, <1>8 DEF Next, Exited

\* A handshake attempt never goes on without a stop_handshake timer or action
\* that will end it, however do_handshake, the handlers, the configuration
\* commands and the two-step timer action interleave.
THEOREM AttemptsAlwaysBounded == Spec => []AttemptsBounded
<1>1. Init => AttemptsBounded /\ SessionsBounded
  BY DEF Init, AttemptsBounded, SessionsBounded
<1>2. TypeOK /\ AttemptsBounded /\ SessionsBounded /\ [Next]_vars
        => (AttemptsBounded /\ SessionsBounded)'
  BY BoundedStep
<1>3. QED
  BY <1>1, <1>2, TypeCorrect, PTL DEF Spec

\* A peer never has sessions without a clear timer or action that will erase
\* them.
THEOREM SessionsAlwaysBounded == Spec => []SessionsBounded
<1>1. Init => AttemptsBounded /\ SessionsBounded
  BY DEF Init, AttemptsBounded, SessionsBounded
<1>2. TypeOK /\ AttemptsBounded /\ SessionsBounded /\ [Next]_vars
        => (AttemptsBounded /\ SessionsBounded)'
  BY BoundedStep
<1>3. QED
  BY <1>1, <1>2, TypeCorrect, PTL DEF Spec

-----------------------------------------------------------------------------
(* A PeerState that add_peer has not made yet is not referred to.          *)

Configured(p) == \E k \in PublicKeys : pubkey_map[k] = p

AddedFirst ==
  /\ \A p \in Peers : Configured(p) => p \in added
  /\ \A i \in Ids : id_map[i] # NoPeer => id_map[i] \in added
  /\ \A s \in Scopes : tasks[s] # NoPeer => tasks[s] \in added
  /\ rx.phase \notin {"idle", "exited"} => rx.peer \in added
  /\ tun.phase # "idle" => tun.peer \in added
  /\ cfg.op = "remove" => cfg.peer \in added
  /\ \A p \in Peers \ added : stopRun[p] = "idle" /\ ~clearRun[p]

\* What the configuration, the maps and the threads refer to was added.
LEMMA AliveAdded ==
  ASSUME AddedFirst, NEW p \in Peers, Alive(p)
  PROVE  p \in added
BY DEF AddedFirst, Alive, Configured

\* Dropping guards puts nothing in id_map.
LEMMA DropGuardsShrinks ==
  ASSUME NEW m \in [Ids -> Peers \cup {NoPeer}], NEW dropped, DropGuards(m, dropped)
  PROVE  \A i \in Ids : id_map'[i] # NoPeer => id_map'[i] = m[i]
BY DEF DropGuards

\* A step refers only to a PeerState that was added.
LEMMA AddedFirstStep ==
  ASSUME TypeOK, AddedFirst, [Next]_vars
  PROVE  AddedFirst'
<1> USE DEF TypeOK, AddedFirst, Configured
<1>0. ASSUME NEW p \in Peers, Clear(p), UNCHANGED <<mapVars, tasks, rx, tun, stopRun>>,
             cfg'.op = "remove" => cfg'.peer \in added,
             \A q \in Peers : clearRun'[q] => clearRun[q]
      PROVE  AddedFirst'
  <2>1. \A i \in Ids : id_map'[i] # NoPeer => id_map'[i] = id_map[i]
    BY <1>0, DropGuardsShrinks DEF Clear
  <2>2. QED
    BY <1>0, <2>1
<1>1. CASE RxNext
  <2>1. ASSUME NEW k \in PublicKeys, RxInitArrives(k) PROVE AddedFirst'
    BY <2>1 DEF RxInitArrives
  <2>2. CASE RxInitRejected
    BY <2>2 DEF RxInitRejected, RxIdle
  <2>3. CASE RxInitAccepted
    <3>1. rx.peer \in Peers /\ rx.peer \in added
      BY <2>3 DEF RxStates, RxInitAccepted, RxIdle
    <3>2. PICK i \in Ids, d \in SUBSET Ids : DropGuards([id_map EXCEPT ![i] = rx.peer], d)
      <4>1. PICK i \in Ids : LET t == [id |-> i, key |-> key] IN
              DropGuards([id_map EXCEPT ![i] = rx.peer],
                         ReplacedGuards(rx.peer, Pushed(transports[rx.peer], t)))
        BY <2>3 DEF RxInitAccepted
      <4>2. \A ts : ReplacedGuards(rx.peer, ts) \in SUBSET Ids
        BY <3>1, GuardIds DEF ReplacedGuards
      <4>3. QED
        BY <4>1, <4>2
    <3>3. [id_map EXCEPT ![i] = rx.peer] \in [Ids -> Peers \cup {NoPeer}]
      BY <3>1
    <3>4. \A j \in Ids : id_map'[j] # NoPeer => id_map'[j] = [id_map EXCEPT ![i] = rx.peer][j]
      BY <3>2, <3>3, DropGuardsShrinks
    <3>5. \A j \in Ids : id_map'[j] # NoPeer => id_map'[j] \in added
      BY <3>1, <3>4
    <3>6. UNCHANGED <<rxFrame, stopRun, clearRun>> /\ rx' = RxIdle
      BY <2>3 DEF RxInitAccepted, OnNewTransport
    <3>7. QED
      BY <3>5, <3>6 DEF RxIdle
  <2>4. ASSUME NEW i \in Ids, RxRespArrives(i) PROVE AddedFirst'
    BY <2>4 DEF RxRespArrives
  <2>5. CASE RxRespChecked
    BY <2>5 DEF RxRespChecked, RxIdle
  <2>6. CASE RxRespInserted
    BY <2>6 DEF RxRespInserted
  <2>7. CASE RxRespCompletes
    <3>1. \A i \in Ids : id_map'[i] # NoPeer => id_map'[i] = id_map[i]
      BY <2>7, DropGuardsShrinks DEF RxRespCompletes
    <3>2. UNCHANGED <<rxFrame, stopRun, clearRun>>
          /\ (rx'.phase \notin {"idle", "exited"} => rx'.peer \in added)
      BY <2>7 DEF RxRespCompletes, OnNewTransport, RxIdle
    <3>3. QED
      BY <3>1, <3>2
  <2>8. CASE RxRespPanics
    BY <2>8 DEF RxRespPanics
  <2>9. CASE RxSendDone
    <3>1. \A i \in Ids : id_map'[i] # NoPeer => id_map'[i] = id_map[i]
      BY <2>9, DropGuardsShrinks DEF RxSendDone
    <3>2. QED
      BY <2>9, <3>1 DEF RxSendDone, RxIdle
  <2>10. QED
    BY <1>1, <2>1, <2>2, <2>3, <2>4, <2>5, <2>6, <2>7, <2>8, <2>9 DEF RxNext
\* do_handshake starts a task for a peer that has been added, or nothing.
<1>2. ASSUME NEW p \in added, DoHandshake(p)
      PROVE  /\ \A n \in Scopes : tasks'[n] # NoPeer => tasks'[n] \in added
             /\ UNCHANGED <<stopRun, clearRun>>
  <2>1. CASE scope[p] # NoScope \/ ~endpoint[p]
    BY <1>2, <2>1 DEF DoHandshake
  <2>2. CASE ~(scope[p] # NoScope \/ ~endpoint[p])
    <3>1. PICK s \in Scopes : tasks' = [tasks EXCEPT ![s] = p] /\ ArmAttemptTimers(p)
      BY <1>2, <2>2 DEF DoHandshake
    <3>2. QED
      BY <3>1 DEF ArmAttemptTimers
  <2>3. QED
    BY <2>1, <2>2
<1>3. CASE TunNext
  <2>1. ASSUME NEW p \in Peers, TunLookup(p) PROVE AddedFirst'
    BY <2>1 DEF TunLookup, Routed
  <2>2. CASE TunSends
    BY <2>2 DEF TunSends, AfterPacket, TunIdle
  <2>3. CASE TunEnqueues
    BY <2>3 DEF TunEnqueues, AfterPacket, TunIdle
  <2>4. CASE TunHandshake
    BY <2>4, <1>2 DEF TunHandshake, TunIdle
  <2>5. QED
    BY <1>3, <2>1, <2>2, <2>3, <2>4 DEF TunNext
<1>4. CASE TaskNext
  <2>1. ASSUME NEW s \in Scopes, ResendIteration(s) PROVE AddedFirst'
    <3> DEFINE p == tasks[s]
    <3>1. p \in Peers /\ p \in added
      BY <2>1 DEF ResendIteration
    <3>2. PICK i \in Ids, d \in SUBSET Ids : DropGuards([id_map EXCEPT ![i] = p], d)
      <4>1. (IF handshake[p] = NoHandshake THEN {} ELSE {handshake[p].id}) \subseteq Ids
        BY <3>1 DEF Handshakes
      <4>2. QED
        BY <2>1, <4>1 DEF ResendIteration
    <3>3. [id_map EXCEPT ![i] = p] \in [Ids -> Peers \cup {NoPeer}]
      BY <3>1
    <3>4. \A j \in Ids : id_map'[j] # NoPeer => id_map'[j] = [id_map EXCEPT ![i] = p][j]
      BY <3>2, <3>3, DropGuardsShrinks
    <3>5. \A j \in Ids : id_map'[j] # NoPeer => id_map'[j] \in added
      BY <3>1, <3>4
    <3>6. QED
      BY <2>1, <3>1, <3>5 DEF ResendIteration
  <2>2. ASSUME NEW s \in Scopes, ResendEnds(s) PROVE AddedFirst'
    BY <2>2 DEF ResendEnds
  <2>3. ASSUME NEW p \in Peers, TimerHandshake(p) PROVE AddedFirst'
    BY <2>3, <1>2, AliveAdded DEF TimerHandshake
  <2>4. QED
    BY <1>4, <2>1, <2>2, <2>3 DEF TaskNext
<1>5. CASE TimerNext
  <2>1. ASSUME NEW p \in Peers, StopFires(p) PROVE AddedFirst'
    BY <2>1, AliveAdded DEF StopFires
  <2>2. ASSUME NEW p \in Peers, StopScope(p) PROVE AddedFirst'
    BY <2>2 DEF StopScope
  <2>3. ASSUME NEW p \in Peers, StopHandshake(p) PROVE AddedFirst'
    <3>1. \A i \in Ids : id_map'[i] # NoPeer => id_map'[i] = id_map[i]
      BY <2>3, DropGuardsShrinks DEF StopHandshake
    <3>2. QED
      BY <2>3, <3>1 DEF StopHandshake
  <2>4. ASSUME NEW p \in Peers, ClearFires(p) PROVE AddedFirst'
    BY <2>4, AliveAdded DEF ClearFires
  <2>5. ASSUME NEW p \in Peers, ClearPeer(p) PROVE AddedFirst'
    BY <2>5, <1>0 DEF ClearPeer
  <2>6. QED
    BY <1>5, <2>1, <2>2, <2>3, <2>4, <2>5 DEF TimerNext
<1>6. CASE CfgNext
  <2>1. ASSUME NEW p \in Peers, AddPeer(p) PROVE AddedFirst'
    BY <2>1 DEF AddPeer
  <2>2. ASSUME NEW k \in PublicKeys, NEW s \in Psks, NEW e \in BOOLEAN, SetPeer(k, s, e)
        PROVE  AddedFirst'
    <3>1. CASE psk[pubkey_map[k]] = s
      BY <2>2, <3>1 DEF SetPeer
    <3>2. CASE psk[pubkey_map[k]] # s
      BY <2>2, <3>2, <1>0 DEF SetPeer
    <3>3. QED
      BY <3>1, <3>2
  <2>3. CASE SetKeyBegins
    BY <2>3 DEF SetKeyBegins
  <2>4. ASSUME NEW p \in Peers, SetKeyClears(p) PROVE AddedFirst'
    BY <2>4, <1>0 DEF SetKeyClears
  <2>5. ASSUME NEW k \in InterfaceKeys, SetKeyEnds(k) PROVE AddedFirst'
    BY <2>5 DEF SetKeyEnds, CfgIdle
  <2>6. ASSUME NEW k \in PublicKeys, RemoveBegins(k) PROVE AddedFirst'
    BY <2>6 DEF RemoveBegins
  <2>7. CASE RemoveClears
    <3>1. cfg.peer \in Peers
      BY <2>7 DEF RemoveClears, CfgStates, CfgIdle
    <3>2. QED
      BY <2>7, <3>1, <1>0 DEF RemoveClears, CfgIdle
  <2>8. QED
    BY <1>6, <2>1, <2>2, <2>3, <2>4, <2>5, <2>6, <2>7 DEF CfgNext
<1>7. ASSUME NEW i \in Ids, DeferredRemoval(i) PROVE AddedFirst'
  BY <1>7 DEF DeferredRemoval
<1>8. CASE UNCHANGED vars
  BY <1>8 DEF vars
<1>9. QED
  BY <1>1, <1>3, <1>4, <1>5, <1>6, <1>7, <1>8 DEF Next, Exited

-----------------------------------------------------------------------------
(* The sessions of configured peers hold the current interface key.        *)

Unused(p) == handshake[p] = NoHandshake /\ transports[p] = << >>

CurrentAt(p) ==
  /\ handshake[p] # NoHandshake => handshake[p].key = key
  /\ \A n \in DOMAIN transports[p] : transports[p][n].key = key

\* set_key holds the write lock of info, so no handler is between its checks
\* and its effect, and what it has cleared stays clear.
KeyLock ==
  /\ ~(InfoReadLocked /\ InfoWriteLocked)
  /\ InfoWriteLocked => \A p \in Peers : Configured(p) /\ p \notin cfg.todo => Unused(p)
  /\ rx.phase \in {"resp_checked", "resp_inserted"} /\ Configured(rx.peer)
       => rx.hs.key = key

KeyInv ==
  /\ \A p \in Peers \ added : Unused(p)
  /\ KeyLock
  /\ \A p \in Peers : Configured(p) => CurrentAt(p)

\* A step that leaves keys alone, and only takes handshakes and sessions away,
\* keeps KeyInv.
LEMMA KeyInvKept ==
  ASSUME TypeOK, KeyInv, UNCHANGED <<mapVars, key>>,
         rx' = rx \/ rx'.phase \in {"idle", "exited"},
         cfg' = cfg \/ cfg'.op # "set_key",
         \A p \in Peers : handshake'[p] \in {handshake[p], NoHandshake},
         \A p \in Peers : transports'[p] = transports[p] \/ transports'[p] = << >>
  PROVE  KeyInv'
<1> USE DEF TypeOK, KeyInv
<1>1. \A p \in Peers : Configured(p)' = Configured(p)
  BY DEF Configured
<1>2. \A p \in Peers : Unused(p) => Unused(p)'
  BY DEF Unused
<1>3. \A p \in Peers : CurrentAt(p) => CurrentAt(p)'
  <2> TAKE p \in Peers
  <2>1. CASE transports'[p] = << >>
    BY <2>1 DEF CurrentAt
  <2>2. CASE transports'[p] = transports[p]
    BY <2>2 DEF CurrentAt
  <2>3. QED
    BY <2>1, <2>2
<1>4. KeyLock'
  <2>1. InfoReadLocked' => InfoReadLocked /\ rx' = rx
    BY DEF InfoReadLocked
  <2>2. InfoWriteLocked' => InfoWriteLocked /\ cfg' = cfg
    BY DEF InfoWriteLocked
  <2>3. rx'.phase \in {"resp_checked", "resp_inserted"} => rx' = rx /\ rx.peer \in Peers
    BY DEF RxStates, RxIdle
  <2>4. QED
    BY <1>1, <1>2, <2>1, <2>2, <2>3 DEF KeyLock
<1>5. QED
  BY <1>1, <1>2, <1>3, <1>4

\* Clearing a peer, as set_peer, set_key, remove_peer and the timer do, keeps
\* the keys current.
LEMMA KeyInvCleared ==
  ASSUME TypeOK, KeyInv, NEW p \in Peers, Clear(p),
         UNCHANGED <<mapVars, key, rx>>,
         \/ cfg' = cfg \/ cfg'.op # "set_key"
         \/ cfg.op = "set_key" /\ cfg' = [op |-> "set_key", todo |-> cfg.todo \ {p}]
  PROVE  KeyInv'
<1>1. \A q \in Peers : /\ handshake'[q] \in {handshake[q], NoHandshake}
                       /\ transports'[q] = transports[q] \/ transports'[q] = << >>
  BY DEF TypeOK, Clear
<1>2. CASE cfg' = cfg \/ cfg'.op # "set_key"
  BY <1>1, <1>2, KeyInvKept
<1>3. CASE cfg.op = "set_key" /\ cfg' = [op |-> "set_key", todo |-> cfg.todo \ {p}]
  <2> USE <1>3 DEF KeyInv
  <2>1. \A q \in Peers : Configured(q)' = Configured(q)
    BY DEF Configured
  <2>2. Unused(p)' /\ \A q \in Peers : Unused(q) => Unused(q)'
    BY DEF TypeOK, Clear, Unused
  <2>3. \A q \in Peers : CurrentAt(q) => CurrentAt(q)'
    <3> TAKE q \in Peers
    <3>1. CASE q = p
      BY <3>1, <2>2 DEF CurrentAt, Unused
    <3>2. CASE q # p
      BY <3>2 DEF CurrentAt, Clear, TypeOK
    <3>3. QED
      BY <3>1, <3>2
  <2>4. ~InfoReadLocked' /\ InfoWriteLocked
    BY DEF KeyLock, InfoReadLocked, InfoWriteLocked
  <2>5. \A q \in Peers : Configured(q)' /\ q \notin cfg'.todo => Unused(q)'
    BY <2>1, <2>2, <2>4 DEF KeyLock
  <2>6. KeyLock'
    BY <2>4, <2>5 DEF KeyLock, InfoReadLocked
  <2>7. QED
    BY <2>1, <2>2, <2>3, <2>6
<1>4. QED
  BY <1>2, <1>3

\* A new session under the current key, pushed by a handler that holds the
\* read lock of info.
LEMMA KeyInvPushed ==
  ASSUME TypeOK, KeyInv, AddedFirst, InfoReadLocked,
         NEW p \in Peers, p = rx.peer, NEW t \in Transports,
         Configured(p) => t.key = key,
         transports' = [transports EXCEPT ![p] = Pushed(transports[p], t)],
         handshake' = [handshake EXCEPT ![p] = NoHandshake],
         UNCHANGED rxFrame,
         rx'.phase \in {"idle", "send"}
  PROVE  KeyInv'
<1> USE DEF KeyInv
<1>1. p \in added
  BY DEF AddedFirst, InfoReadLocked
<1>2. \A q \in Peers : Configured(q)' = Configured(q)
  BY DEF Configured
<1>3. \A q \in Peers : q # p => /\ Unused(q) => Unused(q)'
                                /\ CurrentAt(q) => CurrentAt(q)'
  BY DEF TypeOK, Unused, CurrentAt
<1>4. Configured(p) => CurrentAt(p)'
  <2> SUFFICES ASSUME Configured(p) PROVE CurrentAt(p)'
    OBVIOUS
  <2>1. transports'[p] = Pushed(transports[p], t) /\ handshake'[p] = NoHandshake
    BY DEF TypeOK
  <2>2. \A n \in DOMAIN transports[p] : transports[p][n].key = key
    BY DEF CurrentAt
  <2>3. ASSUME NEW n \in DOMAIN Pushed(transports[p], t)
        PROVE  Pushed(transports[p], t)[n].key = key
    <3>1. transports[p] \in Seq(Transports) /\ Len(transports[p]) <= MaxTransports
      BY DEF TypeOK
    <3>2. \/ Pushed(transports[p], t)[n] = t
          \/ \E m \in DOMAIN transports[p] : Pushed(transports[p], t)[n] = transports[p][m]
      BY <3>1, PushedFacts
    <3>3. QED
      BY <3>2, <2>2
  <2>4. QED
    BY <2>1, <2>3 DEF CurrentAt
<1>5. KeyLock'
  BY DEF KeyLock, InfoReadLocked, InfoWriteLocked
<1>6. QED
  BY <1>1, <1>2, <1>3, <1>4, <1>5

\* A step keeps the keys current, with what the threads carry between locks.
LEMMA KeyInvStep ==
  ASSUME TypeOK, AddedFirst, KeyInv, [Next]_vars
  PROVE  KeyInv'
<1>1. CASE RxNext
  <2>1. ASSUME NEW k \in PublicKeys, RxInitArrives(k) PROVE KeyInv'
    BY <2>1 DEF RxInitArrives, KeyInv, KeyLock, Configured, Unused, CurrentAt,
                InfoReadLocked, InfoWriteLocked
  <2>2. CASE RxInitRejected
    BY <2>2, KeyInvKept DEF RxInitRejected, RxIdle
  <2>3. CASE RxInitAccepted
    <3>1. rx.peer \in Peers /\ InfoReadLocked
      BY <2>3 DEF TypeOK, RxStates, RxInitAccepted, RxIdle, InfoReadLocked
    <3> DEFINE p == rx.peer
    <3>2. PICK i \in Ids : LET t == [id |-> i, key |-> key] IN
            /\ transports' = [transports EXCEPT ![p] = Pushed(transports[p], t)]
            /\ handshake' = [handshake EXCEPT ![p] = NoHandshake]
      BY <2>3 DEF RxInitAccepted
    <3> DEFINE t == [id |-> i, key |-> key]
    <3>3. t \in Transports /\ t.key = key
      BY DEF Transports, TypeOK
    <3>4. UNCHANGED rxFrame /\ rx' = RxIdle
      BY <2>3 DEF RxInitAccepted
    <3>5. /\ transports' = [transports EXCEPT ![p] = Pushed(transports[p], t)]
          /\ handshake' = [handshake EXCEPT ![p] = NoHandshake]
      BY <3>2
    <3> HIDE DEF t
    <3>6. QED
      BY <3>1, <3>3, <3>4, <3>5, KeyInvPushed DEF RxIdle
  <2>4. ASSUME NEW i \in Ids, RxRespArrives(i) PROVE KeyInv'
    BY <2>4 DEF RxRespArrives, KeyInv, KeyLock, Configured, Unused, CurrentAt,
                InfoReadLocked, InfoWriteLocked
  <2>5. CASE RxRespChecked
    <3>1. rx.peer \in Peers
      BY <2>5 DEF TypeOK, RxStates, RxRespChecked, RxIdle
    <3>2. CASE rx' = RxIdle
      BY <2>5, <3>2, KeyInvKept DEF RxRespChecked, RxIdle
    <3>3. CASE rx' # RxIdle
      <4>1. /\ rx.phase = "resp_found"
            /\ handshake[rx.peer] # NoHandshake
            /\ rx' = [phase |-> "resp_checked", peer |-> rx.peer, hs |-> handshake[rx.peer]]
        BY <2>5, <3>3 DEF RxRespChecked
      <4>2. Configured(rx.peer) => handshake[rx.peer].key = key
        BY <3>1, <4>1 DEF KeyInv, CurrentAt
      <4>3. QED
        BY <2>5, <3>1, <4>1, <4>2
           DEF RxRespChecked, KeyInv, KeyLock, Configured, Unused, CurrentAt,
               InfoReadLocked, InfoWriteLocked
    <3>4. QED
      BY <3>2, <3>3
  <2>6. CASE RxRespInserted
    BY <2>6 DEF RxRespInserted, KeyInv, KeyLock, Configured, Unused, CurrentAt,
                InfoReadLocked, InfoWriteLocked
  <2>7. CASE RxRespCompletes
    <3>1. rx.peer \in Peers /\ rx.hs \in Handshakes /\ InfoReadLocked
      BY <2>7 DEF TypeOK, RxStates, RxRespCompletes, RxIdle, InfoReadLocked
    <3> DEFINE p == rx.peer
               t == [id |-> handshake[p].id, key |-> rx.hs.key]
    <3>2. t \in Transports /\ t.key = rx.hs.key
      BY <2>7, <3>1 DEF Transports, Handshakes, TypeOK, RxRespCompletes
    <3>3. Configured(p) => t.key = key
      BY <2>7, <3>2 DEF KeyInv, KeyLock, RxRespCompletes
    <3>4. /\ transports' = [transports EXCEPT ![p] = Pushed(transports[p], t)]
          /\ handshake' = [handshake EXCEPT ![p] = NoHandshake]
          /\ UNCHANGED rxFrame
          /\ rx'.phase \in {"idle", "send"}
      BY <2>7 DEF RxRespCompletes, RxIdle
    <3> HIDE DEF t
    <3>5. QED
      BY <3>1, <3>2, <3>3, <3>4, KeyInvPushed
  <2>8. CASE RxRespPanics
    BY <2>8, KeyInvKept DEF RxRespPanics
  <2>9. CASE RxSendDone
    BY <2>9, KeyInvKept DEF RxSendDone, RxIdle
  <2>10. QED
    BY <1>1, <2>1, <2>2, <2>3, <2>4, <2>5, <2>6, <2>7, <2>8, <2>9 DEF RxNext
<1>2. CASE TunNext
  <2>1. UNCHANGED tunFrame
    BY <1>2 DEF TunNext, TunLookup, TunSends, TunEnqueues, TunHandshake
  <2>2. QED
    BY <2>1, KeyInvKept
<1>3. CASE TaskNext
  <2>1. ASSUME NEW s \in Scopes, ResendIteration(s) PROVE KeyInv'
    <3> DEFINE p == tasks[s]
    <3>1. p \in Peers /\ p \in added
      BY <2>1 DEF TypeOK, ResendIteration, AddedFirst
    <3>2. PICK i \in Ids : handshake' = [handshake EXCEPT ![p] = [id |-> i, key |-> key]]
      BY <2>1 DEF ResendIteration
    <3>3. UNCHANGED <<mapVars, key, transports, rx, cfg>> /\ ~InfoWriteLocked
      BY <2>1 DEF ResendIteration
    <3>4. \A q \in Peers : CurrentAt(q) => CurrentAt(q)'
      BY <3>1, <3>2, <3>3 DEF TypeOK, CurrentAt
    <3>5. \A q \in Peers \ added : Unused(q) => Unused(q)'
      BY <3>1, <3>2, <3>3 DEF TypeOK, Unused
    <3>6. QED
      BY <3>3, <3>4, <3>5 DEF KeyInv, KeyLock, Configured, InfoReadLocked, InfoWriteLocked
  <2>2. ASSUME NEW s \in Scopes, ResendEnds(s) PROVE KeyInv'
    BY <2>2, KeyInvKept DEF ResendEnds
  <2>3. ASSUME NEW p \in Peers, TimerHandshake(p) PROVE KeyInv'
    BY <2>3, KeyInvKept DEF TimerHandshake
  <2>4. QED
    BY <1>3, <2>1, <2>2, <2>3 DEF TaskNext
<1>4. CASE TimerNext
  <2>1. ASSUME NEW p \in Peers, StopFires(p) PROVE KeyInv'
    BY <2>1, KeyInvKept DEF StopFires
  <2>2. ASSUME NEW p \in Peers, StopScope(p) PROVE KeyInv'
    BY <2>2, KeyInvKept DEF StopScope
  <2>3. ASSUME NEW p \in Peers, StopHandshake(p) PROVE KeyInv'
    <3>1. \A q \in Peers : handshake'[q] \in {handshake[q], NoHandshake}
      BY <2>3 DEF TypeOK, StopHandshake
    <3>2. QED
      BY <2>3, <3>1, KeyInvKept DEF StopHandshake
  <2>4. ASSUME NEW p \in Peers, ClearFires(p) PROVE KeyInv'
    BY <2>4, KeyInvKept DEF ClearFires
  <2>5. ASSUME NEW p \in Peers, ClearPeer(p) PROVE KeyInv'
    BY <2>5, KeyInvCleared DEF ClearPeer
  <2>6. QED
    BY <1>4, <2>1, <2>2, <2>3, <2>4, <2>5 DEF TimerNext
<1>5. CASE CfgNext
  <2>1. ASSUME NEW p \in Peers, AddPeer(p) PROVE KeyInv'
    <3>1. \A q \in Peers : q # p /\ Configured(q)' => Configured(q)
      BY <2>1 DEF TypeOK, AddPeer, Configured
    <3>2. Unused(p)' /\ CurrentAt(p)'
      BY <2>1 DEF AddPeer, KeyInv, Unused, CurrentAt
    <3>3. rx.phase \in {"resp_checked", "resp_inserted"} => rx.peer \in Peers /\ rx.peer # p
      BY <2>1 DEF TypeOK, RxStates, RxIdle, AddPeer, AddedFirst
    <3>4. \A q \in Peers : Configured(q)' => CurrentAt(q)'
      BY <2>1, <3>1, <3>2 DEF AddPeer, KeyInv, CurrentAt
    <3>5. \A q \in Peers \ added' : Unused(q)'
      BY <2>1 DEF AddPeer, KeyInv, Unused
    <3>6. KeyLock'
      BY <2>1, <3>1, <3>3 DEF AddPeer, KeyInv, KeyLock, InfoReadLocked, InfoWriteLocked, CfgIdle
    <3>7. QED
      BY <3>4, <3>5, <3>6 DEF KeyInv
  <2>2. ASSUME NEW k \in PublicKeys, NEW s \in Psks, NEW e \in BOOLEAN, SetPeer(k, s, e)
        PROVE  KeyInv'
    <3>1. CASE psk[pubkey_map[k]] = s
      BY <2>2, <3>1, KeyInvKept DEF SetPeer
    <3>2. CASE psk[pubkey_map[k]] # s
      <4>1. pubkey_map[k] \in Peers
        BY <2>2 DEF TypeOK, SetPeer
      <4>2. QED
        BY <2>2, <3>2, <4>1, KeyInvCleared DEF SetPeer
    <3>3. QED
      BY <3>1, <3>2
  <2>3. CASE SetKeyBegins
    <3>1. \A q \in Peers : Configured(q)' = Configured(q)
      BY <2>3 DEF SetKeyBegins, Configured
    <3>2. \A q \in Peers : Configured(q) => q \in cfg'.todo
      BY <2>3 DEF SetKeyBegins, Configured
    <3>3. QED
      BY <2>3, <3>1, <3>2 DEF SetKeyBegins, KeyInv, KeyLock, Unused, CurrentAt,
                              InfoReadLocked, InfoWriteLocked
  <2>4. ASSUME NEW p \in Peers, SetKeyClears(p) PROVE KeyInv'
    BY <2>4, KeyInvCleared DEF SetKeyClears
  <2>5. ASSUME NEW k \in InterfaceKeys, SetKeyEnds(k) PROVE KeyInv'
    <3>1. \A q \in Peers : Configured(q) => Unused(q)
      BY <2>5 DEF SetKeyEnds, KeyInv, KeyLock, InfoWriteLocked
    <3>2. \A q \in Peers : Unused(q) => Unused(q)' /\ CurrentAt(q)'
      BY <2>5 DEF SetKeyEnds, Unused, CurrentAt
    <3>3. \A q \in Peers : Configured(q)' = Configured(q)
      BY <2>5 DEF SetKeyEnds, Configured
    <3>4. ~InfoReadLocked' /\ ~InfoWriteLocked'
      BY <2>5 DEF SetKeyEnds, KeyInv, KeyLock, InfoReadLocked, InfoWriteLocked, CfgIdle
    <3>5. QED
      BY <2>5, <3>1, <3>2, <3>3, <3>4 DEF SetKeyEnds, KeyInv, KeyLock, InfoReadLocked
  <2>6. ASSUME NEW k \in PublicKeys, RemoveBegins(k) PROVE KeyInv'
    <3>1. \A q : Configured(q)' => Configured(q) \/ q = NoPeer
      BY <2>6 DEF TypeOK, RemoveBegins, Configured
    <3>2. rx.phase \in {"resp_checked", "resp_inserted"} => rx.peer \in Peers
      BY DEF TypeOK, RxStates, RxIdle
    <3>3. QED
      BY <2>6, <3>1, <3>2 DEF RemoveBegins, KeyInv, KeyLock, Unused, CurrentAt,
                              InfoReadLocked, InfoWriteLocked, CfgIdle
  <2>7. CASE RemoveClears
    <3>1. cfg.peer \in Peers
      BY <2>7 DEF TypeOK, RemoveClears, CfgStates, CfgIdle
    <3>2. QED
      BY <2>7, <3>1, KeyInvCleared DEF RemoveClears, CfgIdle
  <2>8. QED
    BY <1>5, <2>1, <2>2, <2>3, <2>4, <2>5, <2>6, <2>7 DEF CfgNext
<1>6. ASSUME NEW i \in Ids, DeferredRemoval(i) PROVE KeyInv'
  BY <1>6, KeyInvKept DEF DeferredRemoval
<1>7. CASE UNCHANGED vars
  BY <1>7, KeyInvKept DEF vars
<1>8. QED
  BY <1>1, <1>2, <1>3, <1>4, <1>5, <1>6, <1>7 DEF Next, Exited

\* set_key leaves no handshake and no session of the old interface key to any
\* configured peer, and no handler or resend task that began under it adds one.
THEOREM KeysAlwaysCurrent == Spec => []KeysCurrent
<1>1. Init => AddedFirst /\ KeyInv
  BY DEF Init, AddedFirst, KeyInv, KeyLock, Configured, Unused, CurrentAt,
         InfoReadLocked, InfoWriteLocked, RxIdle, TunIdle, CfgIdle
<1>2. TypeOK /\ AddedFirst /\ KeyInv /\ [Next]_vars => (AddedFirst /\ KeyInv)'
  BY AddedFirstStep, KeyInvStep
<1>3. TypeOK /\ KeyInv => KeysCurrent
  BY DEF TypeOK, KeyInv, KeysCurrent, Configured, CurrentAt
<1>4. QED
  BY <1>1, <1>2, <1>3, TypeCorrect, PTL DEF Spec
-----------------------------------------------------------------------------
(* Identifiers.                                                            *)

\* Is the response handler between find_peer_by_id and its end?  With which id?
RxHolds == rx.phase \in {"resp_found", "resp_checked", "resp_inserted"}
RxId == IF rx.phase = "resp_found" THEN rx.id ELSE rx.hs.id

\* The handshake and the sessions of a peer have different identifiers, and the
\* one the response handler has in hand is not another peer's, so that its
\* insert into id_map takes no identifier away.
RouteInv ==
  /\ SessionsRouted
  /\ \A p \in Peers : handshake[p] # NoHandshake =>
       handshake[p].id \notin TransportIds(transports[p])
  /\ RxHolds => \A q \in Peers : q # rx.peer => RxId \notin Guards(q)

\* An identifier that is not dropped keeps its place, and is not removed later.
LEMMA DropGuardsKeeps ==
  ASSUME NEW m, NEW dropped, DropGuards(m, dropped), NEW i \in Ids, i \notin dropped
  PROVE  id_map'[i] = m[i] /\ (i \in pendingRemoval' => i \in pendingRemoval)
BY DEF DropGuards

\* A step that gives no peer a new identifier, and drops none that is left.
LEMMA RouteKept ==
  ASSUME TypeOK, RouteInv,
         \A q \in Peers : Guards(q)' \subseteq Guards(q),
         \A q \in Peers : \/ handshake'[q] = handshake[q] /\ transports'[q] = transports[q]
                          \/ handshake'[q] = NoHandshake
                          \/ transports'[q] = << >>,
         \A q \in Peers : \A i \in Guards(q)' :
           id_map'[i] = id_map[i] /\ (i \in pendingRemoval' => i \in pendingRemoval),
         RxHolds' => RxHolds /\ rx'.peer = rx.peer /\ RxId' = RxId
  PROVE  RouteInv'
<1> USE DEF RouteInv
<1>1. SessionsRouted'
  BY DEF SessionsRouted
<1>2. ASSUME NEW p \in Peers, handshake'[p] # NoHandshake
      PROVE  handshake'[p].id \notin TransportIds(transports'[p])
  <2>1. TransportIds(<< >>) = {}
    BY DEF TransportIds
  <2>2. QED
    BY <1>2, <2>1
<1>3. RxHolds' => \A q \in Peers : q # rx'.peer => RxId' \notin Guards(q)'
  OBVIOUS
<1>4. QED
  BY <1>1, <1>2, <1>3

\* A step that gives peer p one fresh identifier, puts it in id_map and drops
\* identifiers that no peer has any more.
LEMMA RouteAdds ==
  ASSUME TypeOK, RouteInv, NEW p \in Peers, NEW i \in Ids, Fresh(i),
         \A q \in Peers : q # p => /\ Guards(q)' = Guards(q)
                                   /\ handshake'[q] = handshake[q]
                                   /\ transports'[q] = transports[q],
         Guards(p)' \subseteq Guards(p) \cup {i},
         \/ handshake'[p] = NoHandshake
         \/ handshake'[p].id = i /\ transports'[p] = transports[p],
         NEW dropped, DropGuards([id_map EXCEPT ![i] = p], dropped),
         \A q \in Peers : dropped \cap Guards(q)' = {},
         rx' = rx \/ ~RxHolds'
  PROVE  RouteInv'
<1> USE DEF RouteInv
<1>1. \A q \in Peers : Guards(q) \subseteq Ids /\ i \notin Guards(q)
  BY GuardIds DEF Fresh, AllGuards
<1>2. ASSUME NEW q \in Peers, NEW j \in Guards(q)'
      PROVE  id_map'[j] = q /\ j \notin pendingRemoval'
  <2>1. j \in Ids /\ j \notin dropped
    BY <1>1, <1>2
  <2>2. id_map'[j] = [id_map EXCEPT ![i] = p][j]
        /\ (j \in pendingRemoval' => j \in pendingRemoval)
    BY <2>1, DropGuardsKeeps
  <2>3. CASE j = i
    <3>1. q = p
      BY <1>1, <1>2, <2>3
    <3>2. QED
      BY <2>1, <2>2, <2>3, <3>1 DEF TypeOK, Fresh
  <2>4. CASE j # i
    <3>1. j \in Guards(q)
      BY <1>2, <2>4
    <3>2. QED
      BY <2>1, <2>2, <2>4, <3>1 DEF TypeOK, SessionsRouted
  <2>5. QED
    BY <2>3, <2>4
<1>3. SessionsRouted'
  BY <1>2 DEF SessionsRouted
<1>4. ASSUME NEW q \in Peers, handshake'[q] # NoHandshake
      PROVE  handshake'[q].id \notin TransportIds(transports'[q])
  <2>1. TransportIds(transports[p]) \subseteq Guards(p)
    BY DEF Guards, GuardsOf
  <2>2. QED
    BY <1>1, <1>4, <2>1
<1>5. RxHolds' => \A q \in Peers : q # rx'.peer => RxId' \notin Guards(q)'
  BY DEF Fresh, RxHolds, RxId
<1>6. QED
  BY <1>3, <1>4, <1>5

\* What a peer owns after its sessions have become `ts`, with no handshake.
LEMMA PushedGuards ==
  ASSUME TypeOK, NEW p \in Peers, NEW t \in Transports
  PROVE  TransportIds(Pushed(transports[p], t)) \subseteq TransportIds(transports[p]) \cup {t.id}
<1>1. transports[p] \in Seq(Transports) /\ Len(transports[p]) <= MaxTransports
  BY DEF TypeOK
<1>2. \A n \in DOMAIN Pushed(transports[p], t) :
        \/ Pushed(transports[p], t)[n] = t
        \/ \E m \in DOMAIN transports[p] : Pushed(transports[p], t)[n] = transports[p][m]
  BY <1>1, PushedFacts
<1>3. QED
  BY <1>2 DEF TransportIds

\* Clearing a peer drops its own identifiers only.
LEMMA RouteCleared ==
  ASSUME TypeOK, RouteInv, NEW p \in Peers, Clear(p), rx' = rx
  PROVE  RouteInv'
<1> DEFINE dropped == Guards(p) \ RxGuard
<1>1. handshake'[p] = NoHandshake /\ transports'[p] = << >>
  BY DEF TypeOK, Clear
<1>2. Guards(p)' = {}
  BY <1>1 DEF Guards, GuardsOf, TransportIds
<1>3. \A q \in Peers : q # p =>
        handshake'[q] = handshake[q] /\ transports'[q] = transports[q]
  BY DEF TypeOK, Clear
<1>4. \A q \in Peers : q # p => Guards(q)' = Guards(q)
  BY <1>3 DEF Guards
<1>5. ASSUME NEW q \in Peers, NEW i \in Guards(q)'
      PROVE  id_map'[i] = id_map[i] /\ (i \in pendingRemoval' => i \in pendingRemoval)
  <2>1. q # p /\ i \in Guards(q)
    BY <1>2, <1>4, <1>5
  <2>2. i \notin Guards(p)
    BY <2>1 DEF RouteInv, SessionsRouted
  <2>3. i \in Ids
    BY <2>1, GuardIds
  <2>4. QED
    BY <2>2, <2>3, DropGuardsKeeps DEF Clear
<1>6. QED
  BY <1>1, <1>2, <1>3, <1>4, <1>5, RouteKept DEF RxHolds, RxId

\* A step that changes no identifier at all.
LEMMA RouteUnchanged ==
  ASSUME TypeOK, RouteInv, UNCHANGED <<id_map, pendingRemoval, handshake, transports>>,
         RxHolds' => RxHolds /\ rx'.peer = rx.peer /\ RxId' = RxId
  PROVE  RouteInv'
<1>1. \A q \in Peers : Guards(q)' = Guards(q)
  BY DEF Guards
<1>2. QED
  BY <1>1, RouteKept

\* A step of the receiving task keeps RouteInv.
LEMMA RouteRxStep ==
  ASSUME TypeOK, RouteInv, RxNext
  PROVE  RouteInv'
<1>1. ASSUME NEW k \in PublicKeys, RxInitArrives(k) PROVE RouteInv'
  BY <1>1, RouteUnchanged DEF RxInitArrives, RxHolds
<1>2. CASE RxInitRejected
  BY <1>2, RouteUnchanged DEF RxInitRejected, RxIdle, RxHolds
<1>3. CASE RxInitAccepted
  <2>0. PICK p \in Peers : p = rx.peer
    BY <1>3 DEF TypeOK, RxStates, RxInitAccepted, RxIdle
  <2>1. PICK i \in Ids : LET t == [id |-> i, key |-> key] IN
          /\ Fresh(i)
          /\ transports' = [transports EXCEPT ![p] = Pushed(transports[p], t)]
          /\ handshake' = [handshake EXCEPT ![p] = NoHandshake]
          /\ DropGuards([id_map EXCEPT ![i] = p],
                        ReplacedGuards(p, Pushed(transports[p], t)))
    BY <1>3, <2>0 DEF RxInitAccepted
  <2> DEFINE t == [id |-> i, key |-> key]
             new == Pushed(transports[p], t)
             dropped == ReplacedGuards(p, new)
  <2>2. t \in Transports /\ ~RxHolds'
    BY <1>3 DEF TypeOK, RxInitAccepted, RxIdle, Transports, RxHolds
  <2>3. /\ transports'[p] = new /\ handshake'[p] = NoHandshake
        /\ \A q \in Peers : q # p =>
             handshake'[q] = handshake[q] /\ transports'[q] = transports[q]
    BY <2>1 DEF TypeOK
  <2>4. \A q \in Peers : q # p => Guards(q)' = Guards(q)
    BY <2>3 DEF Guards
  <2>5. TransportIds(new) \subseteq TransportIds(transports[p]) \cup {i}
    BY <2>2, PushedGuards
  <2>6. DropGuards([id_map EXCEPT ![i] = p], dropped)
    BY <2>1
  <2> HIDE DEF t, new
  <2>7. Guards(p)' = TransportIds(new) /\ Guards(p)' \subseteq Guards(p) \cup {i}
    BY <2>2, <2>3, <2>5 DEF Guards, GuardsOf
  <2>8. \A q \in Peers : dropped \cap Guards(q)' = {}
    BY <2>4, <2>7 DEF ReplacedGuards, RouteInv, SessionsRouted
  <2> HIDE DEF dropped
  <2>9. QED
    BY <2>1, <2>2, <2>3, <2>4, <2>6, <2>7, <2>8, RouteAdds
<1>4. ASSUME NEW i \in Ids, RxRespArrives(i) PROVE RouteInv'
  <2>1. UNCHANGED <<id_map, pendingRemoval, handshake, transports>>
        /\ rx' = [phase |-> "resp_found", peer |-> id_map[i], id |-> i]
    BY <1>4 DEF RxRespArrives
  <2>2. \A q \in Peers : Guards(q)' = Guards(q)
    BY <2>1 DEF Guards
  <2>3. \A q \in Peers : q # id_map[i] => i \notin Guards(q)
    BY DEF RouteInv, SessionsRouted
  <2>4. SessionsRouted'
    BY <2>1, <2>2 DEF RouteInv, SessionsRouted
  <2>5. QED
    BY <2>1, <2>2, <2>3, <2>4 DEF RouteInv, RxHolds, RxId
<1>5. CASE RxRespChecked
  <2>1. \/ rx' = RxIdle
        \/ /\ handshake[rx.peer].id = rx.id
           /\ rx' = [phase |-> "resp_checked", peer |-> rx.peer, hs |-> handshake[rx.peer]]
    BY <1>5 DEF RxRespChecked
  <2>2. RxHolds' => RxHolds /\ rx'.peer = rx.peer /\ RxId' = RxId
    BY <1>5, <2>1 DEF RxRespChecked, RxIdle, RxHolds, RxId
  <2>3. QED
    BY <1>5, <2>2, RouteUnchanged DEF RxRespChecked
<1>6. CASE RxRespInserted
  <2>1. rx.peer \in Peers /\ rx.hs.id \in Ids
    BY <1>6 DEF TypeOK, RxStates, RxRespInserted, RxIdle, Handshakes
  <2>2. \A q \in Peers : Guards(q)' = Guards(q)
    BY <1>6 DEF RxRespInserted, Guards
  <2>3. \A q \in Peers : q # rx.peer => rx.hs.id \notin Guards(q)
    BY <1>6 DEF RxRespInserted, RouteInv, RxHolds, RxId
  <2>4. \A q \in Peers : \A i \in Guards(q) : id_map'[i] = id_map[i]
    BY <1>6, <2>1, <2>3 DEF RxRespInserted, TypeOK, RouteInv, SessionsRouted
  <2>5. RxHolds' /\ RxHolds /\ rx'.peer = rx.peer /\ RxId' = RxId
    BY <1>6 DEF RxRespInserted, RxHolds, RxId
  <2>6. QED
    BY <1>6, <2>2, <2>4, <2>5, RouteKept DEF RxRespInserted
<1>7. CASE RxRespCompletes
  <2>0. PICK p \in Peers : p = rx.peer
    BY <1>7 DEF TypeOK, RxStates, RxRespCompletes, RxIdle
  <2> DEFINE t == [id |-> handshake[p].id, key |-> rx.hs.key]
             new == Pushed(transports[p], t)
  <2>1. /\ handshake[p] # NoHandshake
        /\ transports' = [transports EXCEPT ![p] = new]
        /\ handshake' = [handshake EXCEPT ![p] = NoHandshake]
        /\ DropGuards(id_map, ReplacedGuards(p, new))
    BY <1>7, <2>0 DEF RxRespCompletes
  <2>2. p \in Peers /\ ~RxHolds'
    BY <1>7 DEF RxRespCompletes, RxIdle, RxHolds
  <2>3. t \in Transports
    <3>1. handshake[p] \in Handshakes /\ rx.hs \in Handshakes
      BY <1>7, <2>1, <2>2 DEF TypeOK, RxStates, RxRespCompletes, RxIdle
    <3>2. QED
      BY <3>1 DEF Handshakes, Transports
  <2>4. /\ transports'[p] = new /\ handshake'[p] = NoHandshake
        /\ \A q \in Peers : q # p =>
             handshake'[q] = handshake[q] /\ transports'[q] = transports[q]
    BY <2>1, <2>2 DEF TypeOK
  <2>5. \A q \in Peers : q # p => Guards(q)' = Guards(q)
    BY <2>4 DEF Guards
  <2>6. TransportIds(new) \subseteq TransportIds(transports[p]) \cup {t.id}
    BY <2>2, <2>3, PushedGuards
  <2> HIDE DEF new
  <2>7. Guards(p)' = TransportIds(new) /\ Guards(p)' \subseteq Guards(p)
    BY <2>1, <2>2, <2>4, <2>6 DEF Guards, GuardsOf
  <2>8. ASSUME NEW q \in Peers, NEW i \in Guards(q)'
        PROVE  id_map'[i] = id_map[i] /\ (i \in pendingRemoval' => i \in pendingRemoval)
    <3>1. i \in Guards(q) /\ i \in Ids
      BY <2>5, <2>7, <2>8, GuardIds
    <3>2. i \notin ReplacedGuards(p, new)
      BY <2>2, <2>7, <2>8, <3>1 DEF ReplacedGuards, RouteInv, SessionsRouted
    <3>3. QED
      BY <2>1, <3>1, <3>2, DropGuardsKeeps
  <2>9. QED
    BY <2>2, <2>4, <2>5, <2>7, <2>8, RouteKept
<1>8. CASE RxRespPanics
  BY <1>8, RouteUnchanged DEF RxRespPanics, RxHolds
<1>9. CASE RxSendDone
  <2>1. UNCHANGED <<handshake, transports>> /\ rx' = RxIdle
        /\ DropGuards(id_map, RxGuard \ UNION {Guards(q) : q \in Peers})
    BY <1>9 DEF RxSendDone
  <2>2. \A q \in Peers : Guards(q)' = Guards(q) /\ Guards(q) \subseteq Ids
    BY <2>1, GuardIds DEF Guards
  <2>3. \A q \in Peers : \A i \in Guards(q)' :
          id_map'[i] = id_map[i] /\ (i \in pendingRemoval' => i \in pendingRemoval)
    BY <2>1, <2>2, DropGuardsKeeps
  <2>4. QED
    BY <2>1, <2>2, <2>3, RouteKept DEF RxHolds, RxIdle
<1>10. QED
  BY <1>1, <1>2, <1>3, <1>4, <1>5, <1>6, <1>7, <1>8, <1>9 DEF RxNext

\* A step keeps every identifier of a peer in its place.
LEMMA RouteStep ==
  ASSUME TypeOK, RouteInv, [Next]_vars
  PROVE  RouteInv'
<1>1. CASE TunNext
  <2>1. UNCHANGED tunFrame
    BY <1>1 DEF TunNext, TunLookup, TunSends, TunEnqueues, TunHandshake
  <2>2. QED
    BY <2>1, RouteUnchanged DEF tunFrame, idVars, RxHolds, RxId
<1>2. CASE TaskNext
  <2>1. ASSUME NEW s \in Scopes, ResendIteration(s) PROVE RouteInv'
    <3>0. PICK p \in Peers : p = tasks[s]
      BY <2>1 DEF TypeOK, ResendIteration
    <3> DEFINE old == IF handshake[p] = NoHandshake THEN {} ELSE {handshake[p].id}
    <3>1. PICK i \in Ids : /\ Fresh(i)
                           /\ handshake' = [handshake EXCEPT ![p] = [id |-> i, key |-> key]]
                           /\ DropGuards([id_map EXCEPT ![i] = p], old \ RxGuard)
      BY <2>1, <3>0 DEF ResendIteration
    <3>2. p \in Peers /\ UNCHANGED <<transports, rx>>
      BY <2>1 DEF TypeOK, ResendIteration
    <3>3. [id |-> i, key |-> key] # NoHandshake
      BY <3>1, ConstantsAssumption DEF TypeOK
    <3>4. handshake'[p] = [id |-> i, key |-> key]
          /\ \A q \in Peers : q # p => handshake'[q] = handshake[q]
      BY <3>1, <3>2 DEF TypeOK
    <3>5. Guards(p)' = TransportIds(transports[p]) \cup {i}
      BY <3>2, <3>3, <3>4 DEF Guards, GuardsOf
    <3>6. \A q \in Peers : q # p => Guards(q)' = Guards(q)
      BY <3>2, <3>4 DEF Guards
    <3>7. old \subseteq Guards(p) /\ TransportIds(transports[p]) \subseteq Guards(p)
      BY DEF Guards, GuardsOf
    <3>8. i \notin Guards(p)
      BY <3>1, <3>2 DEF Fresh, AllGuards
    <3>9. old \cap TransportIds(transports[p]) = {}
      BY <3>2 DEF RouteInv
    <3> HIDE DEF old
    <3>10. \A q \in Peers : (old \ RxGuard) \cap Guards(q)' = {}
      BY <3>2, <3>5, <3>6, <3>7, <3>8, <3>9 DEF RouteInv, SessionsRouted
    <3>11. QED
      BY <3>1, <3>2, <3>4, <3>5, <3>6, <3>7, <3>10, RouteAdds
  <2>2. ASSUME NEW s \in Scopes, ResendEnds(s) PROVE RouteInv'
    BY <2>2, RouteUnchanged DEF ResendEnds, idVars, RxHolds, RxId
  <2>3. ASSUME NEW p \in Peers, TimerHandshake(p) PROVE RouteInv'
    BY <2>3, RouteUnchanged DEF TimerHandshake, idVars, RxHolds, RxId
  <2>4. QED
    BY <1>2, <2>1, <2>2, <2>3 DEF TaskNext
<1>3. CASE TimerNext
  <2>1. ASSUME NEW p \in Peers, StopFires(p) PROVE RouteInv'
    BY <2>1, RouteUnchanged DEF StopFires, timerFrame, idVars, RxHolds, RxId
  <2>2. ASSUME NEW p \in Peers, StopScope(p) PROVE RouteInv'
    BY <2>2, RouteUnchanged DEF StopScope, timerFrame, idVars, RxHolds, RxId
  <2>3. ASSUME NEW p \in Peers, StopHandshake(p) PROVE RouteInv'
    <3>1. /\ handshake' = [handshake EXCEPT ![p] = NoHandshake]
          /\ DropGuards(id_map, GuardsOf(handshake[p], << >>))
          /\ UNCHANGED <<transports, rx>>
      BY <2>3 DEF StopHandshake, timerFrame
    <3>2. handshake'[p] = NoHandshake
          /\ \A q \in Peers : q # p => handshake'[q] = handshake[q]
      BY <3>1 DEF TypeOK
    <3>3. Guards(p)' = TransportIds(transports[p])
      BY <3>1, <3>2 DEF Guards, GuardsOf
    <3>4. \A q \in Peers : q # p => Guards(q)' = Guards(q)
      BY <3>1, <3>2 DEF Guards
    <3>5. /\ GuardsOf(handshake[p], << >>) \subseteq Guards(p)
          /\ TransportIds(transports[p]) \subseteq Guards(p)
          /\ GuardsOf(handshake[p], << >>) \cap TransportIds(transports[p]) = {}
      BY DEF Guards, GuardsOf, TransportIds, RouteInv
    <3>6. ASSUME NEW q \in Peers, NEW i \in Guards(q)'
          PROVE  id_map'[i] = id_map[i] /\ (i \in pendingRemoval' => i \in pendingRemoval)
      <4>1. i \in Guards(q) /\ i \in Ids
        BY <3>3, <3>4, <3>5, <3>6, GuardIds
      <4>2. i \notin GuardsOf(handshake[p], << >>)
        BY <3>3, <3>5, <3>6, <4>1 DEF RouteInv, SessionsRouted
      <4>3. QED
        BY <3>1, <4>1, <4>2, DropGuardsKeeps
    <3>7. QED
      BY <3>1, <3>2, <3>3, <3>4, <3>5, <3>6, RouteKept DEF RxHolds, RxId
  <2>4. ASSUME NEW p \in Peers, ClearFires(p) PROVE RouteInv'
    BY <2>4, RouteUnchanged DEF ClearFires, timerFrame, idVars, RxHolds, RxId
  <2>5. ASSUME NEW p \in Peers, ClearPeer(p) PROVE RouteInv'
    BY <2>5, RouteCleared DEF ClearPeer, timerFrame
  <2>6. QED
    BY <1>3, <2>1, <2>2, <2>3, <2>4, <2>5 DEF TimerNext
<1>4. ASSUME NEW i \in Ids, DeferredRemoval(i) PROVE RouteInv'
  <2>1. \A q \in Peers : Guards(q)' = Guards(q)
    BY <1>4 DEF DeferredRemoval, Guards
  <2>2. \A q \in Peers : i \notin Guards(q)
    BY <1>4 DEF DeferredRemoval, RouteInv, SessionsRouted
  <2>3. \A q \in Peers : \A j \in Guards(q) : id_map'[j] = id_map[j]
    BY <1>4, <2>2, GuardIds DEF DeferredRemoval, TypeOK
  <2>4. QED
    BY <1>4, <2>1, <2>3, RouteKept DEF DeferredRemoval, timerFrame, RxHolds, RxId
<1>5. CASE CfgNext
  <2>1. ASSUME NEW p \in Peers, AddPeer(p) PROVE RouteInv'
    BY <2>1, RouteUnchanged DEF AddPeer, cfgFrame, peerFrame, idVars, RxHolds, RxId
  <2>2. ASSUME NEW k \in PublicKeys, NEW s \in Psks, NEW e \in BOOLEAN, SetPeer(k, s, e)
        PROVE  RouteInv'
    <3>1. pubkey_map[k] \in Peers /\ rx' = rx
      BY <2>2 DEF TypeOK, SetPeer, cfgFrame
    <3>2. CASE psk[pubkey_map[k]] = s
      BY <2>2, <3>1, <3>2, RouteUnchanged DEF SetPeer, peerFrame, idVars, RxHolds, RxId
    <3>3. CASE psk[pubkey_map[k]] # s
      BY <2>2, <3>1, <3>3, RouteCleared DEF SetPeer
    <3>4. QED
      BY <3>2, <3>3
  <2>3. CASE SetKeyBegins
    BY <2>3, RouteUnchanged DEF SetKeyBegins, cfgFrame, peerFrame, idVars, RxHolds, RxId
  <2>4. ASSUME NEW p \in Peers, SetKeyClears(p) PROVE RouteInv'
    BY <2>4, RouteCleared DEF SetKeyClears, cfgFrame
  <2>5. ASSUME NEW k \in InterfaceKeys, SetKeyEnds(k) PROVE RouteInv'
    BY <2>5, RouteUnchanged DEF SetKeyEnds, cfgFrame, peerFrame, idVars, RxHolds, RxId
  <2>6. ASSUME NEW k \in PublicKeys, RemoveBegins(k) PROVE RouteInv'
    BY <2>6, RouteUnchanged DEF RemoveBegins, cfgFrame, peerFrame, idVars, RxHolds, RxId
  <2>7. CASE RemoveClears
    <3>1. cfg.peer \in Peers /\ Clear(cfg.peer) /\ rx' = rx
      BY <2>7 DEF TypeOK, RemoveClears, CfgStates, CfgIdle, cfgFrame
    <3>2. QED
      BY <3>1, RouteCleared
  <2>8. QED
    BY <1>5, <2>1, <2>2, <2>3, <2>4, <2>5, <2>6, <2>7 DEF CfgNext
<1>6. CASE UNCHANGED vars
  BY <1>6, RouteUnchanged DEF vars, idVars, RxHolds, RxId
<1>7. QED
  BY <1>1, <1>2, <1>3, <1>4, <1>5, <1>6, RouteRxStep DEF Next, Exited

\* A message for a session or a handshake that a peer owns is always found:
\* neither the handlers, nor the resend tasks, nor the removals that IdMapGuard
\* puts off take the identifier away, however they interleave.
THEOREM SessionsAlwaysRouted == Spec => []SessionsRouted
<1>1. Init => RouteInv
  BY DEF Init, RouteInv, SessionsRouted, Guards, GuardsOf, TransportIds, RxHolds, RxIdle
<1>2. TypeOK /\ RouteInv /\ [Next]_vars => RouteInv'
  BY RouteStep
<1>3. RouteInv => SessionsRouted
  BY DEF RouteInv
<1>4. QED
  BY <1>1, <1>2, <1>3, TypeCorrect, PTL DEF Spec
=============================================================================
