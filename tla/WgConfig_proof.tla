--------------------------- MODULE WgConfig_proof ---------------------------
(* Proofs about WgConfig, for every value of its constants.                *)
EXTENDS WgConfig, TLAPS

USE ConfigAssumption, NoPeerAssumption

-----------------------------------------------------------------------------
(* Types.                                                                  *)

\* Masking gives prefixes.
LEMMA MaskedSetType ==
  ASSUME NEW ips \in SUBSET AllowedIps
  PROVE  MaskedSet(ips) \subseteq Prefixes
BY DEF MaskedSet, Prefixes

\* set_peer makes a PeerInfo of a PeerInfo.
LEMMA UpdatedType ==
  ASSUME NEW p \in PeerInfos, NEW c \in SetPeerCommands
  PROVE  Updated(p, c) \in PeerInfos
<1>1. c.allowed_ips \in SUBSET AllowedIps
  BY DEF SetPeerCommands
<1>2. MaskedSet(c.allowed_ips) \subseteq Prefixes
  BY <1>1, MaskedSetType
<1>3. MaskedSet(c.allowed_ips) \cup (IF c.replace THEN {} ELSE p.allowed_ips) \subseteq Prefixes
  BY <1>2 DEF PeerInfos
<1>4. QED
  BY <1>3 DEF Updated, PeerInfos, SetPeerCommands

LEMMA PeerOrNewType ==
  ASSUME TypeOK, NEW k \in PublicKeys
  PROVE  PeerOrNew(k) \in PeerInfos
BY DEF TypeOK, PeerOrNew, NewPeer, PeerInfos

\* What set_peer does, with types.
LEMMA SetPeerType ==
  ASSUME TypeOK, NEW k \in PublicKeys, NEW c \in SetPeerCommands, SetPeer(k, c),
         request' \in Requests
  PROVE  TypeOK'
<1> DEFINE old == PeerOrNew(k)
           new == Updated(old, c)
           added == Added(old, c)
           others == TakenFrom(added)
<1>1. old \in PeerInfos /\ new \in PeerInfos
  BY PeerOrNewType, UpdatedType
<1>2. added \subseteq Prefixes
  BY MaskedSetType DEF Added, SetPeerCommands
<1>3. others \subseteq PublicKeys \X Prefixes
  BY <1>2 DEF TakenFrom, TypeOK
<1>4. /\ peers' = [peers EXCEPT ![k] = new]
      /\ KeepaliveTimer(k, old.keepalive, new.keepalive)
      /\ rt' = [x \in Prefixes |->
                  IF x \in added THEN k
                  ELSE IF x \in old.allowed_ips \ new.allowed_ips THEN NoPeer
                  ELSE rt[x]]
      /\ call' = IF others = {} THEN NoCall
                 ELSE [fn |-> "set_peer", peer |-> k, todo |-> others]
      /\ UNCHANGED <<action, rx, panicked>>
  BY DEF SetPeer
<1> HIDE DEF old, new, added, others
<1>5. peers' \in [PublicKeys -> PeerInfos \cup {NoPeer}]
  BY <1>1, <1>4 DEF TypeOK
<1>6. rt' \in [Prefixes -> PublicKeys \cup {NoPeer}]
  BY <1>4 DEF TypeOK
<1>7. armed' \in [PublicKeys -> BOOLEAN]
  <2>1. old.keepalive \in Nat /\ new.keepalive \in Nat
    BY <1>1 DEF PeerInfos
  <2>2. (new.keepalive > 0) \in BOOLEAN
    BY <2>1
  <2>3. QED
    BY <1>4, <2>2 DEF TypeOK, KeepaliveTimer
<1>8. call' \in Calls
  BY <1>3, <1>4 DEF Calls
<1>9. QED
  BY <1>4, <1>5, <1>6, <1>7, <1>8 DEF TypeOK

LEMMA RemoveBeginsType ==
  ASSUME TypeOK, NEW k \in PublicKeys, RemoveBegins(k), request' \in Requests
  PROVE  TypeOK'
<1>1. CASE peers[k] = NoPeer
  BY <1>1 DEF RemoveBegins, TypeOK
<1>2. CASE peers[k] # NoPeer
  <2>1. peers[k] \in PeerInfos
    BY <1>2 DEF TypeOK
  <2>2. peers[k].allowed_ips \in SUBSET Prefixes
    BY <2>1 DEF PeerInfos
  <2>3. call' \in Calls
    BY <1>2, <2>2 DEF RemoveBegins, Calls
  <2>4. QED
    BY <1>2, <2>3 DEF RemoveBegins, TypeOK
<1>3. QED
  BY <1>1, <1>2

\* The commands that requests make.
LEMMA CommandTypes ==
  ASSUME NEW c \in PeerConfigs
  PROVE  ModifyCommand(c) \in SetPeerCommands /\ AddCommand(c) \in SetPeerCommands
BY DEF PeerConfigs, SetPeerCommands, ModifyCommand, AddCommand

\* What a reload carries.
LEMMA ReloadType ==
  ASSUME TypeOK, request.op = "reload"
  PROVE  /\ request.config \in Configs
         /\ request \in [op : {"reload"}, config : Configs, remove : SUBSET PublicKeys,
                         modify : SUBSET PublicKeys, add : SUBSET PublicKeys]
BY DEF TypeOK, Requests, NoRequest

LEMMA SetType ==
  ASSUME TypeOK, request.op = "set"
  PROVE  request \in [op : {"set"}, remove : SUBSET PublicKeys]
BY DEF TypeOK, Requests, NoRequest

-----------------------------------------------------------------------------
(* Types and routes: each needs the other, since a step of set_peer that   *)
(* takes a prefix away looks up a peer that must be configured.            *)

\* A reload modifies and adds peers of its file only, the receiving task has a
\* configured peer in hand, and remove_peer one that is not configured any more.
Known ==
  /\ request.op = "reload" =>
       \A k \in request.modify \cup request.add : request.config[k] # NoPeer
  /\ rx # NoAddress => rx.peer \in Configured
  /\ call.fn = "remove_peer" => call.peer \notin Configured

\* The requests and the set_peer and remove_peer calls keep the types.
LEMMA RequestType ==
  ASSUME TypeOK, Known, TakesFromOthers, RequestNext
  PROVE  TypeOK'
<1>1. ASSUME NEW r \in BOOLEAN, SetBegins(r) PROVE TypeOK'
  <2>1. request' \in Requests
    BY <1>1 DEF SetBegins, Requests, Configured
  <2>2. QED
    BY <1>1, <2>1 DEF SetBegins, frame, TypeOK
<1>2. ASSUME NEW k \in PublicKeys, SetRemovesAll(k) PROVE TypeOK'
  <2>1. request' \in Requests
    BY <1>2, SetType DEF SetRemovesAll, Requests
  <2>2. QED
    BY <1>2, <2>1, RemoveBeginsType DEF SetRemovesAll
<1>3. ASSUME NEW k \in PublicKeys, SetRemoves(k) PROVE TypeOK'
  BY <1>3, RemoveBeginsType DEF SetRemoves, TypeOK
<1>4. ASSUME NEW k \in PublicKeys, NEW c \in SetPeerCommands, SetSets(k, c) PROVE TypeOK'
  BY <1>4, SetPeerType DEF SetSets, TypeOK
<1>5. CASE SetEnds
  BY <1>5 DEF SetEnds, frame, TypeOK, Requests
<1>6. ASSUME NEW config \in Configs, ReloadBegins(config) PROVE TypeOK'
  <2>1. request' \in Requests
    BY <1>6 DEF ReloadBegins, Requests, Configured
  <2>2. QED
    BY <1>6, <2>1 DEF ReloadBegins, frame, TypeOK
<1>7. ASSUME NEW k \in PublicKeys, ReloadRemoves(k) PROVE TypeOK'
  <2>1. request' \in Requests
    BY <1>7, ReloadType DEF ReloadRemoves, Requests
  <2>2. QED
    BY <1>7, <2>1, RemoveBeginsType DEF ReloadRemoves
<1>8. ASSUME NEW k \in PublicKeys, ReloadModifies(k) PROVE TypeOK'
  <2>1. request' \in Requests
    BY <1>8, ReloadType DEF ReloadModifies, Requests
  <2>2. request.config[k] \in PeerConfigs
    BY <1>8, ReloadType DEF ReloadModifies, Configs, Known
  <2>3. QED
    BY <1>8, <2>1, <2>2, CommandTypes, SetPeerType DEF ReloadModifies
<1>9. ASSUME NEW k \in PublicKeys, ReloadAdds(k) PROVE TypeOK'
  <2>1. request' \in Requests
    BY <1>9, ReloadType DEF ReloadAdds, Requests
  <2>2. request.config[k] \in PeerConfigs
    BY <1>9, ReloadType DEF ReloadAdds, Configs, Known
  <2>3. QED
    BY <1>9, <2>1, <2>2, CommandTypes, SetPeerType DEF ReloadAdds
<1>10. CASE ReloadEnds
  BY <1>10 DEF ReloadEnds, frame, TypeOK, Requests
<1>11. CASE TakeRoute
  <2>1. call \in [fn : {"set_peer"}, peer : PublicKeys, todo : SUBSET (PublicKeys \X Prefixes)]
    BY <1>11 DEF TakeRoute, TypeOK, Calls, NoCall
  <2>2. PICK o \in call.todo :
          /\ o[2] \in peers[o[1]].allowed_ips
          /\ peers' = [peers EXCEPT ![o[1]].allowed_ips = @ \ {o[2]}]
          /\ call' = IF call.todo = {o} THEN NoCall ELSE [call EXCEPT !.todo = @ \ {o}]
    BY <1>11 DEF TakeRoute
  <2>3. call' \in Calls
    BY <2>1, <2>2 DEF Calls
  <2>4. o[1] \in PublicKeys /\ peers[o[1]] \in PeerInfos
    BY <1>11, <2>1, <2>2 DEF TakeRoute, TakesFromOthers, Configured, TypeOK
  <2>5. [peers[o[1]] EXCEPT !.allowed_ips = @ \ {o[2]}] \in PeerInfos
    BY <2>4 DEF PeerInfos
  <2>6. peers' \in [PublicKeys -> PeerInfos \cup {NoPeer}]
    BY <2>2, <2>4, <2>5 DEF TypeOK
  <2>7. QED
    BY <1>11, <2>3, <2>6 DEF TakeRoute, TypeOK
<1>12. CASE RemoveRoutes
  <2>1. rt' \in [Prefixes -> PublicKeys \cup {NoPeer}]
    BY <1>12 DEF RemoveRoutes, TypeOK
  <2>2. QED
    BY <1>12, <2>1 DEF RemoveRoutes, TypeOK, Calls
<1>13. QED
  BY <1>1, <1>2, <1>3, <1>4, <1>5, <1>6, <1>7, <1>8, <1>9, <1>10, <1>11, <1>12 DEF RequestNext

\* The receiving task and the timers keep the types.
LEMMA TaskType ==
  ASSUME TypeOK, Known, TaskNext
  PROVE  TypeOK'
<1>1. \A k \in Configured : k \in PublicKeys /\ peers[k] \in PeerInfos
  BY DEF Configured, TypeOK
<1>2. \A p \in PeerInfos : \A e \in Endpoints : [p EXCEPT !.endpoint = e] \in PeerInfos
  BY DEF PeerInfos
<1>3. ASSUME NEW k \in PublicKeys, NEW e \in Endpoints, RxHandshake(k, e) PROVE TypeOK'
  BY <1>1, <1>2, <1>3 DEF RxHandshake, taskFrame, TypeOK
<1>4. ASSUME NEW k \in PublicKeys, NEW e \in Endpoints, RxTransport(k, e) PROVE TypeOK'
  BY <1>4 DEF RxTransport, taskFrame, TypeOK
<1>5. CASE RxSetsEndpoint
  <2>1. PICK k \in PublicKeys, e \in Endpoints : rx.peer = k /\ rx.endpoint = e
    BY <1>5 DEF RxSetsEndpoint, TypeOK
  <2>2. k \in Configured
    BY <1>5, <2>1 DEF RxSetsEndpoint, Known
  <2>3. k \in PublicKeys /\ [peers[k] EXCEPT !.endpoint = e] \in PeerInfos
    BY <1>1, <1>2, <2>2
  <2>4. peers' = peers \/ peers' = [peers EXCEPT ![k] = [peers[k] EXCEPT !.endpoint = e]]
    BY <1>5, <2>1 DEF RxSetsEndpoint
  <2>5. peers' \in [PublicKeys -> PeerInfos \cup {NoPeer}]
    BY <2>3, <2>4 DEF TypeOK
  <2>6. QED
    BY <1>5, <2>5 DEF RxSetsEndpoint, taskFrame, TypeOK
<1>6. ASSUME NEW k \in PublicKeys, KeepaliveFires(k) PROVE TypeOK'
  BY <1>6 DEF KeepaliveFires, taskFrame, TypeOK
<1>7. ASSUME NEW k \in PublicKeys, KeepaliveEnds(k) PROVE TypeOK'
  BY <1>7 DEF KeepaliveEnds, Rearmed, taskFrame, TypeOK
<1>8. ASSUME NEW k \in PublicKeys, Sends(k) PROVE TypeOK'
  BY <1>8 DEF Sends, Rearmed, taskFrame, TypeOK
<1>9. QED
  BY <1>3, <1>4, <1>5, <1>6, <1>7, <1>8 DEF TaskNext

\* set_peer keeps a peer configured, and gives nothing to any other.
LEMMA SetPeerConfigures ==
  ASSUME TypeOK, NEW k \in PublicKeys, NEW c \in SetPeerCommands, SetPeer(k, c)
  PROVE  /\ Configured' = Configured \cup {k}
         /\ peers'[k] = Updated(PeerOrNew(k), c)
         /\ \A j \in PublicKeys : j # k => peers'[j] = peers[j]
<1>1. Updated(PeerOrNew(k), c) \in PeerInfos
  BY PeerOrNewType, UpdatedType
<1>2. peers' = [peers EXCEPT ![k] = Updated(PeerOrNew(k), c)]
  BY DEF SetPeer
<1>3. QED
  BY <1>1, <1>2 DEF TypeOK, Configured

\* What the tables and the peers have to do with each other, in set_peer.
LEMMA SetPeerRoutes ==
  ASSUME TypeOK, RoutesConsistent, NEW k \in PublicKeys, NEW c \in SetPeerCommands,
         SetPeer(k, c)
  PROVE  RoutesConsistent' /\ TakesFromOthers'
<1> DEFINE old == PeerOrNew(k)
           new == Updated(old, c)
           added == Added(old, c)
           others == TakenFrom(added)
<1>1. call.fn = "none" /\ \A j : ToLose(j) = {}
  BY DEF SetPeer, NoCall, ToLose
<1>2. \A x \in Prefixes : rt[x] = k <=> x \in old.allowed_ips
  BY <1>1 DEF RoutesConsistent, PeerOrNew, NewPeer, Configured
<1>3. \A j \in PublicKeys, x \in Prefixes : j # k =>
        (rt[x] = j <=> j \in Configured /\ x \in peers[j].allowed_ips)
  BY <1>1 DEF RoutesConsistent
<1>4. added = new.allowed_ips \ old.allowed_ips
  BY DEF Added, Updated
<1>5. old \in PeerInfos /\ new \in PeerInfos /\ added \subseteq Prefixes
  <2>1. old \in PeerInfos /\ new \in PeerInfos
    BY PeerOrNewType, UpdatedType
  <2>2. QED
    BY <1>4, <2>1 DEF PeerInfos
<1>6. /\ rt' = [x \in Prefixes |->
                  IF x \in added THEN k
                  ELSE IF x \in old.allowed_ips \ new.allowed_ips THEN NoPeer
                  ELSE rt[x]]
      /\ call' = IF others = {} THEN NoCall
                 ELSE [fn |-> "set_peer", peer |-> k, todo |-> others]
  BY DEF SetPeer
<1>7. /\ Configured' = Configured \cup {k}
      /\ peers'[k] = new
      /\ \A j \in PublicKeys : j # k => peers'[j] = peers[j]
  BY SetPeerConfigures
<1>8. \A o \in others : /\ o[2] \in added /\ o[1] = rt[o[2]] /\ o[1] \in PublicKeys
                        /\ o[1] # k
  BY <1>2, <1>4, <1>5 DEF TakenFrom, TypeOK
<1>9. \A j \in PublicKeys : ToLose(j)' = {x \in added : rt[x] = j}
  BY <1>5, <1>6 DEF ToLose, TakenFrom, NoCall
<1> HIDE DEF old, new, added, others
<1>10. TakesFromOthers'
  <2>1. \A o \in others : o[1] \in Configured /\ o[2] \in peers[o[1]].allowed_ips
    BY <1>3, <1>5, <1>8
  <2>2. QED
    BY <1>6, <1>7, <1>8, <2>1 DEF TakesFromOthers, NoCall
<1>11. ASSUME NEW j \in PublicKeys, NEW x \in Prefixes, j \in Configured'
       PROVE  rt'[x] = j <=> x \in peers'[j].allowed_ips \ ToLose(j)'
  <2>1. CASE j = k
    <3>1. x \in added => rt[x] # k
      BY <1>2, <1>4
    <3>2. QED
      BY <1>2, <1>4, <1>6, <1>7, <1>9, <2>1, <3>1
  <2>2. CASE j # k
    BY <1>2, <1>3, <1>4, <1>6, <1>7, <1>9, <1>11, <2>2
  <2>3. QED
    BY <2>1, <2>2
<1>12. ASSUME NEW j \in PublicKeys, NEW x \in Prefixes, j \notin Configured'
       PROVE  rt'[x] # j /\ ~(call'.fn = "remove_peer")
  BY <1>3, <1>6, <1>7, <1>12 DEF NoCall
<1>13. RoutesConsistent'
  BY <1>11, <1>12 DEF RoutesConsistent
<1>14. QED
  BY <1>10, <1>13

\* remove_peer, first half: its prefixes stay in the tables, and are in `call`.
LEMMA RemoveBeginsRoutes ==
  ASSUME TypeOK, Known, RoutesConsistent, TakesFromOthers,
         NEW k \in PublicKeys, RemoveBegins(k)
  PROVE  /\ RoutesConsistent' /\ TakesFromOthers'
         /\ rx' # NoAddress => rx'.peer \in Configured'
         /\ call'.fn = "remove_peer" => call'.peer \notin Configured'
<1>1. call.fn = "none" /\ \A j : ToLose(j) = {}
  BY DEF RemoveBegins, NoCall, ToLose
<1>2. CASE peers[k] = NoPeer
  BY <1>2 DEF RemoveBegins, RoutesConsistent, TakesFromOthers, ToLose, Configured, Known
<1>3. CASE peers[k] # NoPeer
  <2>1. /\ peers' = [peers EXCEPT ![k] = NoPeer]
        /\ call' = [fn |-> "remove_peer", peer |-> k, allowed_ips |-> peers[k].allowed_ips]
        /\ rx' = IF rx.peer = k THEN NoAddress ELSE rx
        /\ rt' = rt
    BY <1>3 DEF RemoveBegins
  <2>2. /\ Configured' = Configured \ {k}
        /\ \A j \in PublicKeys : j # k => peers'[j] = peers[j]
        /\ \A j : ToLose(j)' = {}
    BY <2>1 DEF TypeOK, Configured, ToLose
  <2>3. RoutesConsistent'
    BY <1>1, <1>3, <2>1, <2>2 DEF RoutesConsistent, Configured
  <2>4. QED
    BY <2>1, <2>2, <2>3 DEF TakesFromOthers, Known
<1>4. QED
  BY <1>2, <1>3

\* One prefix less in the hands of a peer that it was taken from.
LEMMA TakeRouteRoutes ==
  ASSUME TypeOK, RoutesConsistent, TakesFromOthers, TakeRoute
  PROVE  RoutesConsistent' /\ TakesFromOthers' /\ Configured' = Configured
<1>1. call \in [fn : {"set_peer"}, peer : PublicKeys, todo : SUBSET (PublicKeys \X Prefixes)]
  BY DEF TakeRoute, TypeOK, Calls, NoCall
<1>2. PICK o \in call.todo :
        /\ peers' = [peers EXCEPT ![o[1]].allowed_ips = @ \ {o[2]}]
        /\ call' = IF call.todo = {o} THEN NoCall ELSE [call EXCEPT !.todo = @ \ {o}]
  BY DEF TakeRoute
<1>3. o = <<o[1], o[2]>> /\ o[1] \in PublicKeys /\ o[2] \in Prefixes
      /\ o[1] # call.peer /\ o[1] \in Configured
  BY <1>1, <1>2 DEF TakesFromOthers
<1>4. peers[o[1]] \in PeerInfos
  BY <1>3 DEF TypeOK, Configured
<1>5. /\ peers'[o[1]].allowed_ips = peers[o[1]].allowed_ips \ {o[2]}
      /\ \A j \in PublicKeys : j # o[1] => peers'[j] = peers[j]
      /\ peers'[o[1]] \in PeerInfos
  BY <1>2, <1>3, <1>4 DEF TypeOK, PeerInfos
<1>6. Configured' = Configured
  BY <1>3, <1>5 DEF Configured
<1>7. \A j \in PublicKeys : ToLose(j)' = {x \in ToLose(j) : <<j, x>> # o}
  <2>1. CASE call.todo = {o}
    BY <1>1, <1>2, <2>1 DEF ToLose, NoCall
  <2>2. CASE call.todo # {o}
    BY <1>1, <1>2, <2>2 DEF ToLose
  <2>3. QED
    BY <2>1, <2>2
<1>8. TakesFromOthers'
  <2>1. CASE call.todo = {o}
    BY <1>2, <2>1 DEF TakesFromOthers, NoCall
  <2>2. CASE call.todo # {o}
    <3>1. call'.todo = call.todo \ {o} /\ call'.peer = call.peer
      BY <1>1, <1>2, <2>2
    <3>2. ASSUME NEW u \in call.todo, u # o
          PROVE  /\ u[1] # call.peer /\ u[1] \in Configured
                 /\ u[2] \in peers'[u[1]].allowed_ips
      <4>1. u = <<u[1], u[2]>> /\ u[1] \in PublicKeys
        BY <1>1, <3>2
      <4>2. u[1] # call.peer /\ u[1] \in Configured /\ u[2] \in peers[u[1]].allowed_ips
        BY <1>1, <3>2 DEF TakesFromOthers
      <4>3. CASE u[1] = o[1]
        BY <1>3, <1>5, <3>2, <4>1, <4>2, <4>3
      <4>4. CASE u[1] # o[1]
        BY <1>5, <4>1, <4>2, <4>4
      <4>5. QED
        BY <4>3, <4>4
    <3>3. QED
      BY <1>6, <3>1, <3>2 DEF TakesFromOthers
  <2>3. QED
    BY <2>1, <2>2
<1>9. ASSUME NEW j \in PublicKeys, NEW x \in Prefixes, j \in Configured
      PROVE  rt'[x] = j <=> x \in peers'[j].allowed_ips \ ToLose(j)'
  <2>1. rt'[x] = j <=> x \in peers[j].allowed_ips \ ToLose(j)
    BY <1>9 DEF RoutesConsistent, TakeRoute
  <2>2. CASE <<j, x>> = o
    BY <1>1, <1>2, <1>5, <2>1, <2>2 DEF ToLose
  <2>3. CASE <<j, x>> # o
    <3>1. x \in ToLose(j)' <=> x \in ToLose(j)
      BY <1>7, <1>9, <2>3
    <3>2. x \in peers'[j].allowed_ips <=> x \in peers[j].allowed_ips
      BY <1>3, <1>5, <1>9, <2>3
    <3>3. QED
      BY <2>1, <3>1, <3>2
  <2>4. QED
    BY <2>2, <2>3
<1>10. call'.fn # "remove_peer" /\ call.fn # "remove_peer"
  BY <1>1, <1>2 DEF NoCall
<1>11. RoutesConsistent'
  BY <1>6, <1>9, <1>10 DEF RoutesConsistent, TakeRoute
<1>12. QED
  BY <1>6, <1>8, <1>11

\* remove_peer, second half.
LEMMA RemoveRoutesRoutes ==
  ASSUME TypeOK, Known, RoutesConsistent, RemoveRoutes
  PROVE  RoutesConsistent' /\ TakesFromOthers' /\ call'.fn = "none"
<1>1. /\ call.fn = "remove_peer" /\ call' = NoCall /\ peers' = peers
      /\ rt' = [x \in Prefixes |-> IF x \in call.allowed_ips THEN NoPeer ELSE rt[x]]
  BY DEF RemoveRoutes
<1>2. Configured' = Configured /\ \A j : ToLose(j) = {} /\ ToLose(j)' = {}
  BY <1>1 DEF Configured, ToLose, NoCall
<1>3. call.peer \in PublicKeys /\ call.peer \notin Configured
  BY <1>1 DEF TypeOK, Calls, NoCall, Known
<1>4. \A x \in Prefixes : x \in call.allowed_ips => rt[x] = call.peer
  BY <1>1, <1>3 DEF RoutesConsistent
<1>5. RoutesConsistent'
  BY <1>1, <1>2, <1>3, <1>4 DEF RoutesConsistent, NoCall
<1>6. QED
  BY <1>1, <1>5 DEF TakesFromOthers, NoCall

RouteInv == Known /\ RoutesConsistent /\ TakesFromOthers

\* A step that leaves the tables, the calls and the allowed IPs alone.
LEMMA RoutesKept ==
  ASSUME RoutesConsistent, TakesFromOthers, UNCHANGED <<rt, call>>,
         Configured' = Configured,
         \A k \in Configured : peers'[k].allowed_ips = peers[k].allowed_ips
  PROVE  RoutesConsistent' /\ TakesFromOthers'
<1>1. \A k : ToLose(k)' = ToLose(k)
  BY DEF ToLose
<1>2. QED
  BY <1>1 DEF RoutesConsistent, TakesFromOthers

\* Requests keep tables and peers consistent.
LEMMA RequestRoutes ==
  ASSUME TypeOK, RouteInv, RequestNext
  PROVE  RouteInv'
<1> USE DEF RouteInv
<1>1. ASSUME NEW r \in BOOLEAN, SetBegins(r) PROVE RouteInv'
  BY <1>1, RoutesKept DEF SetBegins, frame, Known, Configured
<1>2. ASSUME NEW k \in PublicKeys, SetRemovesAll(k) PROVE RouteInv'
  <2>1. request'.op = "set"
    BY <1>2, SetType DEF SetRemovesAll
  <2>2. QED
    BY <1>2, <2>1, RemoveBeginsRoutes DEF SetRemovesAll, Known
<1>3. ASSUME NEW k \in PublicKeys, SetRemoves(k) PROVE RouteInv'
  BY <1>3, RemoveBeginsRoutes DEF SetRemoves, Known
<1>4. ASSUME NEW k \in PublicKeys, NEW c \in SetPeerCommands, SetPeer(k, c),
             request'.op = "reload" =>
               \A j \in request'.modify \cup request'.add : request'.config[j] # NoPeer
      PROVE  RouteInv'
  <2>1. Configured' = Configured \cup {k} /\ rx' = rx
    BY <1>4, SetPeerConfigures DEF SetPeer
  <2>2. call'.fn # "remove_peer"
    BY <1>4 DEF SetPeer, NoCall
  <2>3. QED
    BY <1>4, <2>1, <2>2, SetPeerRoutes DEF Known
<1>5. ASSUME NEW k \in PublicKeys, NEW c \in SetPeerCommands, SetSets(k, c) PROVE RouteInv'
  BY <1>4, <1>5 DEF SetSets, Known
<1>6. CASE SetEnds
  BY <1>6, RoutesKept DEF SetEnds, frame, Known, Configured, NoRequest
<1>7. ASSUME NEW config \in Configs, ReloadBegins(config) PROVE RouteInv'
  <2>1. request'.op = "reload" =>
          \A j \in request'.modify \cup request'.add : request'.config[j] # NoPeer
    BY <1>7 DEF ReloadBegins
  <2>2. QED
    BY <1>7, <2>1, RoutesKept DEF ReloadBegins, frame, Known, Configured
<1>8. ASSUME NEW k \in PublicKeys, ReloadRemoves(k) PROVE RouteInv'
  <2>1. \A j \in request'.modify \cup request'.add : request'.config[j] # NoPeer
    BY <1>8, ReloadType DEF ReloadRemoves, Known
  <2>2. QED
    BY <1>8, <2>1, RemoveBeginsRoutes DEF ReloadRemoves, Known
<1>9. ASSUME NEW k \in PublicKeys, ReloadModifies(k) PROVE RouteInv'
  <2>1. \A j \in request'.modify \cup request'.add : request'.config[j] # NoPeer
    BY <1>9, ReloadType DEF ReloadModifies, Known
  <2>2. request.config[k] \in PeerConfigs
    BY <1>9, ReloadType DEF ReloadModifies, Configs, Known
  <2>3. QED
    BY <1>4, <1>9, <2>1, <2>2, CommandTypes DEF ReloadModifies
<1>10. ASSUME NEW k \in PublicKeys, ReloadAdds(k) PROVE RouteInv'
  <2>1. \A j \in request'.modify \cup request'.add : request'.config[j] # NoPeer
    BY <1>10, ReloadType DEF ReloadAdds, Known
  <2>2. request.config[k] \in PeerConfigs
    BY <1>10, ReloadType DEF ReloadAdds, Configs, Known
  <2>3. QED
    BY <1>4, <1>10, <2>1, <2>2, CommandTypes DEF ReloadAdds
<1>11. CASE ReloadEnds
  BY <1>11, RoutesKept DEF ReloadEnds, frame, Known, Configured, NoRequest
<1>12. CASE TakeRoute
  <2>1. UNCHANGED <<request, rx>> /\ call'.fn # "remove_peer"
    BY <1>12 DEF TakeRoute, TypeOK, Calls, NoCall
  <2>2. QED
    BY <1>12, <2>1, TakeRouteRoutes DEF Known
<1>13. CASE RemoveRoutes
  <2>1. UNCHANGED <<request, rx, peers>>
    BY <1>13 DEF RemoveRoutes
  <2>2. QED
    BY <1>13, <2>1, RemoveRoutesRoutes DEF Known, Configured
<1>14. QED
  BY <1>1, <1>2, <1>3, <1>5, <1>6, <1>7, <1>8, <1>9, <1>10, <1>11, <1>12, <1>13 DEF RequestNext

\* The tasks touch endpoints and timers only.
LEMMA TaskRoutes ==
  ASSUME TypeOK, RouteInv, TaskNext
  PROVE  RouteInv'
<1> USE DEF RouteInv
<1>1. ASSUME NEW k \in Configured, NEW e \in Endpoints,
             peers' = [peers EXCEPT ![k].endpoint = e] \/ peers' = peers
      PROVE  /\ Configured' = Configured
             /\ \A j \in Configured : peers'[j].allowed_ips = peers[j].allowed_ips
  <2>1. k \in PublicKeys /\ peers[k] \in PeerInfos
    BY DEF Configured, TypeOK
  <2>2. CASE peers' = [peers EXCEPT ![k].endpoint = e]
    <3>1. peers'[k] = [peers[k] EXCEPT !.endpoint = e]
          /\ \A j \in PublicKeys : j # k => peers'[j] = peers[j]
      BY <2>1, <2>2 DEF TypeOK
    <3>2. peers'[k].allowed_ips = peers[k].allowed_ips /\ peers'[k] \in PeerInfos
      BY <2>1, <3>1 DEF PeerInfos
    <3>3. QED
      BY <2>1, <3>1, <3>2 DEF Configured
  <2>3. CASE peers' = peers
    BY <2>3 DEF Configured
  <2>4. QED
    BY <1>1, <2>2, <2>3
<1>2. ASSUME NEW k \in PublicKeys, NEW e \in Endpoints, RxHandshake(k, e) PROVE RouteInv'
  <2>1. k \in Configured /\ peers' = [peers EXCEPT ![k].endpoint = e]
        /\ UNCHANGED <<rt, call, request, rx>>
    BY <1>2 DEF RxHandshake, taskFrame
  <2>2. QED
    BY <1>1, <2>1, RoutesKept DEF Known
<1>3. ASSUME NEW k \in PublicKeys, NEW e \in Endpoints, RxTransport(k, e) PROVE RouteInv'
  BY <1>3, RoutesKept DEF RxTransport, taskFrame, Known, Configured
<1>4. CASE RxSetsEndpoint
  <2>1. rx.peer \in Configured /\ rx.endpoint \in Endpoints
    BY <1>4 DEF RxSetsEndpoint, Known, TypeOK
  <2>2. /\ peers' = [peers EXCEPT ![rx.peer].endpoint = rx.endpoint] \/ peers' = peers
        /\ rx' = NoAddress /\ UNCHANGED <<rt, call, request>>
    BY <1>4 DEF RxSetsEndpoint, taskFrame
  <2>3. QED
    BY <1>1, <2>1, <2>2, RoutesKept DEF Known
<1>5. ASSUME NEW k \in PublicKeys, KeepaliveFires(k) PROVE RouteInv'
  BY <1>5, RoutesKept DEF KeepaliveFires, taskFrame, Known, Configured
<1>6. ASSUME NEW k \in PublicKeys, KeepaliveEnds(k) PROVE RouteInv'
  BY <1>6, RoutesKept DEF KeepaliveEnds, taskFrame, Known, Configured
<1>7. ASSUME NEW k \in PublicKeys, Sends(k) PROVE RouteInv'
  BY <1>7, RoutesKept DEF Sends, taskFrame, Known, Configured
<1>8. QED
  BY <1>2, <1>3, <1>4, <1>5, <1>6, <1>7 DEF TaskNext

LEMMA ConfigStep ==
  ASSUME TypeOK, RouteInv, [Next]_vars
  PROVE  TypeOK' /\ RouteInv'
<1>1. CASE RequestNext
  BY <1>1, RequestType, RequestRoutes DEF RouteInv
<1>2. CASE TaskNext
  BY <1>2, TaskType, TaskRoutes DEF RouteInv
<1>3. CASE UNCHANGED vars
  <2>1. TypeOK'
    BY <1>3 DEF vars, TypeOK
  <2>2. RouteInv'
    BY <1>3, RoutesKept DEF vars, RouteInv, Known, Configured
  <2>3. QED
    BY <2>1, <2>2
<1>4. QED
  BY <1>1, <1>2, <1>3 DEF Next

LEMMA ConfigInit ==
  ASSUME Init
  PROVE  TypeOK /\ RouteInv
<1>1. TypeOK
  BY DEF Init, TypeOK, Requests, Calls
<1>2. RouteInv
  BY DEF Init, RouteInv, Known, RoutesConsistent, TakesFromOthers, Configured,
         NoRequest, NoCall
<1>3. QED
  BY <1>1, <1>2

\* Type correctness: allowed IPs are masked, tables have peers of the interface.
THEOREM TypeCorrect == Spec => []TypeOK
BY ConfigInit, ConfigStep, PTL DEF Spec

\* The routing tables and the allowed IPs of the peers agree at every moment,
\* but for what the set_peer or remove_peer in progress has yet to do.
THEOREM RoutesAlwaysConsistent == Spec => []RoutesConsistent
<1>1. RouteInv => RoutesConsistent
  BY DEF RouteInv
<1>2. QED
  BY <1>1, ConfigInit, ConfigStep, PTL DEF Spec

\* set_peer takes prefixes from other peers only, ones that have them: it never
\* asks for the lock it holds, and its assertion does not fail.
THEOREM AlwaysTakesFromOthers == Spec => []TakesFromOthers
<1>1. RouteInv => TakesFromOthers
  BY DEF RouteInv
<1>2. QED
  BY <1>1, ConfigInit, ConfigStep, PTL DEF Spec

-----------------------------------------------------------------------------
(* persistent_keepalive.                                                   *)

KeepaliveInv ==
  /\ KeepaliveKept
  /\ \A k \in PublicKeys : k \notin Configured => ~armed[k] /\ ~action[k]

\* A step that leaves the timers and the intervals alone.
LEMMA KeepaliveSame ==
  ASSUME KeepaliveInv, UNCHANGED <<armed, action>>, Configured' = Configured,
         \A k \in Configured : peers'[k].keepalive = peers[k].keepalive
  PROVE  KeepaliveInv'
BY DEF KeepaliveInv, KeepaliveKept

LEMMA KeepaliveSet ==
  ASSUME TypeOK, KeepaliveInv, NEW k \in PublicKeys, NEW c \in SetPeerCommands, SetPeer(k, c)
  PROVE  KeepaliveInv'
<1> DEFINE old == PeerOrNew(k)
           new == Updated(old, c)
<1>1. /\ Configured' = Configured \cup {k}
      /\ peers'[k] = new
      /\ \A j \in PublicKeys : j # k => peers'[j] = peers[j]
  BY SetPeerConfigures
<1>2. old.keepalive \in Nat /\ new.keepalive \in Nat
  <2>1. old \in PeerInfos /\ new \in PeerInfos
    BY PeerOrNewType, UpdatedType
  <2>2. QED
    BY <2>1 DEF PeerInfos
<1>3. KeepaliveTimer(k, old.keepalive, new.keepalive) /\ action' = action
  BY DEF SetPeer
<1>4. /\ old.keepalive # 0 => armed[k] \/ action[k]
      /\ old.keepalive = 0 => ~armed[k]
  BY DEF KeepaliveInv, KeepaliveKept, PeerOrNew, NewPeer, Configured
<1> HIDE DEF old, new
<1>5. /\ new.keepalive # 0 => armed'[k] \/ action'[k]
      /\ new.keepalive = 0 => ~armed'[k]
  <2>1. armed'[k] = (IF new.keepalive = old.keepalive THEN armed[k] ELSE new.keepalive > 0)
    BY <1>3 DEF KeepaliveTimer, TypeOK
  <2>2. CASE new.keepalive = old.keepalive
    BY <1>3, <1>4, <2>1, <2>2
  <2>3. CASE new.keepalive # old.keepalive
    <3>1. armed'[k] = (new.keepalive > 0)
      BY <2>1, <2>3
    <3>2. new.keepalive > 0 <=> new.keepalive # 0
      BY <1>2
    <3>3. QED
      BY <3>1, <3>2, Zenon
  <2>4. QED
    BY <2>2, <2>3
<1>6. \A j \in PublicKeys : j # k => armed'[j] = armed[j] /\ action'[j] = action[j]
  BY <1>3 DEF KeepaliveTimer, TypeOK
<1>7. Configured \subseteq PublicKeys
  BY DEF Configured
<1>8. QED
  BY <1>1, <1>5, <1>6, <1>7 DEF KeepaliveInv, KeepaliveKept

LEMMA KeepaliveRemoved ==
  ASSUME TypeOK, KeepaliveInv, NEW k \in PublicKeys, RemoveBegins(k)
  PROVE  KeepaliveInv'
<1>1. CASE peers[k] = NoPeer
  BY <1>1, KeepaliveSame DEF RemoveBegins, Configured
<1>2. CASE peers[k] # NoPeer
  <2>1. /\ Configured' = Configured \ {k}
        /\ \A j \in PublicKeys : j # k =>
             peers'[j] = peers[j] /\ armed'[j] = armed[j] /\ action'[j] = action[j]
        /\ ~armed'[k] /\ ~action'[k]
    BY <1>2 DEF RemoveBegins, TypeOK, Configured
  <2>2. QED
    BY <2>1 DEF KeepaliveInv, KeepaliveKept, Configured
<1>3. QED
  BY <1>1, <1>2

LEMMA KeepaliveRequest ==
  ASSUME TypeOK, RouteInv, KeepaliveInv, RequestNext
  PROVE  KeepaliveInv'
<1>1. ASSUME NEW r \in BOOLEAN, SetBegins(r) PROVE KeepaliveInv'
  BY <1>1, KeepaliveSame DEF SetBegins, frame, Configured
<1>2. ASSUME NEW k \in PublicKeys, RemoveBegins(k) PROVE KeepaliveInv'
  BY <1>2, KeepaliveRemoved
<1>3. ASSUME NEW k \in PublicKeys, NEW c \in SetPeerCommands, SetSets(k, c) PROVE KeepaliveInv'
  BY <1>3, KeepaliveSet DEF SetSets
<1>4. CASE SetEnds
  BY <1>4, KeepaliveSame DEF SetEnds, frame, Configured
<1>5. ASSUME NEW config \in Configs, ReloadBegins(config) PROVE KeepaliveInv'
  BY <1>5, KeepaliveSame DEF ReloadBegins, frame, Configured
<1>6. ASSUME NEW k \in PublicKeys, ReloadModifies(k) PROVE KeepaliveInv'
  <2>1. request.config[k] \in PeerConfigs
    BY <1>6, ReloadType DEF ReloadModifies, Configs, RouteInv, Known
  <2>2. QED
    BY <1>6, <2>1, CommandTypes, KeepaliveSet DEF ReloadModifies
<1>7. ASSUME NEW k \in PublicKeys, ReloadAdds(k) PROVE KeepaliveInv'
  <2>1. request.config[k] \in PeerConfigs
    BY <1>7, ReloadType DEF ReloadAdds, Configs, RouteInv, Known
  <2>2. QED
    BY <1>7, <2>1, CommandTypes, KeepaliveSet DEF ReloadAdds
<1>8. CASE ReloadEnds
  BY <1>8, KeepaliveSame DEF ReloadEnds, frame, Configured
<1>9. CASE TakeRoute
  <2>1. PICK o \in call.todo : peers' = [peers EXCEPT ![o[1]].allowed_ips = @ \ {o[2]}]
    BY <1>9 DEF TakeRoute
  <2>2. o[1] \in Configured /\ o[1] \in PublicKeys /\ peers[o[1]] \in PeerInfos
    BY <1>9, <2>1 DEF TakeRoute, RouteInv, TakesFromOthers, Configured, TypeOK
  <2>3. /\ peers'[o[1]] = [peers[o[1]] EXCEPT !.allowed_ips = @ \ {o[2]}]
        /\ \A j \in PublicKeys : j # o[1] => peers'[j] = peers[j]
    BY <2>1, <2>2 DEF TypeOK
  <2>4. peers'[o[1]].keepalive = peers[o[1]].keepalive
    BY <2>2, <2>3 DEF PeerInfos
  <2>5. Configured' = Configured
    BY <1>9, TakeRouteRoutes DEF RouteInv
  <2>6. QED
    BY <1>9, <2>3, <2>4, <2>5, KeepaliveSame DEF TakeRoute, Configured
<1>10. CASE RemoveRoutes
  BY <1>10, KeepaliveSame DEF RemoveRoutes, Configured
<1>11. QED
  BY <1>1, <1>2, <1>3, <1>4, <1>5, <1>6, <1>7, <1>8, <1>9, <1>10
     DEF RequestNext, SetRemovesAll, SetRemoves, ReloadRemoves

LEMMA KeepaliveTask ==
  ASSUME TypeOK, RouteInv, KeepaliveInv, TaskNext
  PROVE  KeepaliveInv'
<1>1. ASSUME NEW k \in Configured, NEW e \in Endpoints,
             peers' = [peers EXCEPT ![k].endpoint = e] \/ peers' = peers,
             UNCHANGED <<armed, action>>
      PROVE  KeepaliveInv'
  <2>1. k \in PublicKeys /\ peers[k] \in PeerInfos
    BY DEF Configured, TypeOK
  <2>2. CASE peers' = [peers EXCEPT ![k].endpoint = e]
    <3>1. peers'[k] = [peers[k] EXCEPT !.endpoint = e]
          /\ \A j \in PublicKeys : j # k => peers'[j] = peers[j]
      BY <2>1, <2>2 DEF TypeOK
    <3>2. peers'[k].keepalive = peers[k].keepalive /\ peers'[k] \in PeerInfos
      BY <2>1, <3>1 DEF PeerInfos
    <3>3. Configured' = Configured
      BY <2>1, <3>1, <3>2 DEF Configured
    <3>4. QED
      BY <1>1, <3>1, <3>2, <3>3, KeepaliveSame DEF Configured
  <2>3. CASE peers' = peers
    BY <1>1, <2>3, KeepaliveSame DEF Configured
  <2>4. QED
    BY <1>1, <2>2, <2>3
<1>2. ASSUME NEW k \in PublicKeys, NEW e \in Endpoints, RxHandshake(k, e) PROVE KeepaliveInv'
  BY <1>1, <1>2 DEF RxHandshake
<1>3. ASSUME NEW k \in PublicKeys, NEW e \in Endpoints, RxTransport(k, e) PROVE KeepaliveInv'
  BY <1>3, KeepaliveSame DEF RxTransport, Configured
<1>4. CASE RxSetsEndpoint
  <2>1. rx.peer \in Configured /\ rx.endpoint \in Endpoints
    BY <1>4 DEF RxSetsEndpoint, RouteInv, Known, TypeOK
  <2>2. /\ peers' = [peers EXCEPT ![rx.peer].endpoint = rx.endpoint] \/ peers' = peers
        /\ UNCHANGED <<armed, action>>
    BY <1>4 DEF RxSetsEndpoint
  <2>3. QED
    BY <1>1, <2>1, <2>2
<1>5. ASSUME NEW k \in PublicKeys, KeepaliveFires(k) PROVE KeepaliveInv'
  BY <1>5 DEF KeepaliveFires, taskFrame, TypeOK, KeepaliveInv, KeepaliveKept, Configured
<1>6. ASSUME NEW k \in PublicKeys, KeepaliveEnds(k) PROVE KeepaliveInv'
  BY <1>6 DEF KeepaliveEnds, Rearmed, taskFrame, TypeOK, KeepaliveInv, KeepaliveKept, Configured
<1>7. ASSUME NEW k \in PublicKeys, Sends(k) PROVE KeepaliveInv'
  BY <1>7 DEF Sends, Rearmed, taskFrame, TypeOK, KeepaliveInv, KeepaliveKept, Configured
<1>8. QED
  BY <1>2, <1>3, <1>4, <1>5, <1>6, <1>7 DEF TaskNext

\* A peer with a persistent keepalive has its timer activated, or an action
\* that will activate it; no action and no packet sent activates the timer of a
\* peer without one.
THEOREM KeepaliveAlwaysKept == Spec => []KeepaliveKept
<1>1. Init => KeepaliveInv
  BY DEF Init, KeepaliveInv, KeepaliveKept, Configured
<1>2. TypeOK /\ RouteInv /\ KeepaliveInv /\ [Next]_vars => KeepaliveInv'
  <2>1. ASSUME TypeOK, RouteInv, KeepaliveInv, UNCHANGED vars PROVE KeepaliveInv'
    BY <2>1, KeepaliveSame DEF vars, Configured
  <2>2. QED
    BY <2>1, KeepaliveRequest, KeepaliveTask DEF Next
<1>3. KeepaliveInv => KeepaliveKept
  BY DEF KeepaliveInv
<1>4. QED
  BY <1>1, <1>2, <1>3, ConfigInit, ConfigStep, PTL DEF Spec

-----------------------------------------------------------------------------
(* Reloads.                                                                *)

\* The peers a reload has brought, or found, in line with its file.
Settled == Configured \ (request.remove \cup request.modify)

InLine(k) ==
  /\ peers[k].psk = request.config[k].psk
  /\ peers[k].keepalive = request.config[k].keepalive
  /\ peers[k].allowed_ips \subseteq MaskedSet(request.config[k].allowed_ips)

\* The differences are what is left to do, and what a settled peer lists leads
\* to settled peers: a peer that is removed or modified takes nothing with it.
Differences == \A k \in PublicKeys :
  /\ k \in request.remove => request.config[k] = NoPeer
  /\ k \in request.modify => k \in Configured
  /\ k \in request.add => k \notin Configured
  /\ k \notin request.remove \cup request.add =>
       (k \in Configured <=> request.config[k] # NoPeer)

Leads == \A k \in Settled : request.config[k] # NoPeer =>
  \A x \in MaskedSet(request.config[k].allowed_ips) : rt[x] \in Settled

ReloadInv ==
  /\ request = NoRequest => call = NoCall
  /\ request.op = "reload" => Differences /\ Leads /\ \A k \in Settled : InLine(k)

\* A step that leaves requests, calls, tables and configurations alone.
LEMMA ReloadSame ==
  ASSUME ReloadInv, UNCHANGED <<request, call, rt>>, Configured' = Configured,
         \A k \in Configured :
           /\ peers'[k].psk = peers[k].psk
           /\ peers'[k].keepalive = peers[k].keepalive
           /\ peers'[k].allowed_ips = peers[k].allowed_ips
  PROVE  ReloadInv'
<1>1. Settled' = Settled /\ Settled \subseteq Configured
  BY DEF Settled
<1>2. QED
  BY <1>1 DEF ReloadInv, Differences, Leads, InLine

\* A set_peer of a reload settles its peer.
LEMMA ReloadSets ==
  ASSUME TypeOK, RouteInv, ReloadInv, request.op = "reload", request.remove = {},
         NEW k \in PublicKeys, NEW c \in SetPeerCommands, SetPeer(k, c),
         k \notin Settled, request.config[k] \in PeerConfigs,
         \/ k \in request.modify /\ request' = [request EXCEPT !.modify = @ \ {k}]
         \/ k \in request.add /\ request' = [request EXCEPT !.add = @ \ {k}],
         request'.op = "reload",
         c.psk = request.config[k].psk,
         Updated(PeerOrNew(k), c).keepalive = request.config[k].keepalive,
         Updated(PeerOrNew(k), c).allowed_ips = MaskedSet(request.config[k].allowed_ips)
  PROVE  ReloadInv'
<1> DEFINE old == PeerOrNew(k)
           new == Updated(old, c)
           added == Added(old, c)
<1>0. k \in request.modify <=> k \notin request.add
  BY DEF ReloadInv, Differences
<1>1. request \in [op : {"reload"}, config : Configs, remove : SUBSET PublicKeys,
                   modify : SUBSET PublicKeys, add : SUBSET PublicKeys]
  BY ReloadType
<1>2. /\ request'.config = request.config /\ request'.remove = {}
      /\ request'.modify \in SUBSET PublicKeys /\ request'.modify = request.modify \ {k}
      /\ \A j \in PublicKeys : j # k => (j \in request'.add <=> j \in request.add)
      /\ request'.add = request.add \ {k}
  BY <1>0, <1>1 DEF ReloadInv, Differences
<1>3. /\ Configured' = Configured \cup {k}
      /\ peers'[k] = new
      /\ \A j \in PublicKeys : j # k => peers'[j] = peers[j]
  BY SetPeerConfigures
<1>4. Settled' = Settled \cup {k}
  BY <1>2, <1>3 DEF Settled
<1>5. call.fn = "none" /\ \A j : ToLose(j) = {}
  BY DEF SetPeer, NoCall, ToLose
<1>6. \A x \in Prefixes : rt[x] = k <=> x \in old.allowed_ips
  BY <1>5 DEF RouteInv, RoutesConsistent, PeerOrNew, NewPeer, Configured
<1>7. added = new.allowed_ips \ old.allowed_ips
  BY DEF Added, Updated
<1>8. new.allowed_ips \subseteq Prefixes
  BY PeerOrNewType, UpdatedType DEF PeerInfos
<1>9. rt' = [x \in Prefixes |->
               IF x \in added THEN k
               ELSE IF x \in old.allowed_ips \ new.allowed_ips THEN NoPeer
               ELSE rt[x]]
  BY DEF SetPeer
<1>10. new.psk = c.psk
  BY DEF Updated
<1> HIDE DEF old, new, added
<1>11. \A x \in new.allowed_ips : rt'[x] = k
  BY <1>6, <1>7, <1>8, <1>9
<1>12. \A x \in Prefixes : rt[x] \in Settled => rt'[x] \in Settled'
  BY <1>4, <1>6, <1>9
<1>13. \A j \in Settled : j \in PublicKeys /\ j # k
  BY DEF Settled, Configured
<1>14. \A j \in Settled : request.config[j] # NoPeer => request.config[j] \in PeerConfigs
  BY <1>1, <1>13 DEF Configs
<1>15. \A j \in Settled : request.config[j] # NoPeer =>
         MaskedSet(request.config[j].allowed_ips) \subseteq Prefixes
  BY <1>14, MaskedSetType DEF PeerConfigs
<1>16. Leads'
  <2>1. ASSUME NEW j \in Settled', request'.config[j] # NoPeer,
               NEW x \in MaskedSet(request'.config[j].allowed_ips)
        PROVE  rt'[x] \in Settled'
    <3>1. CASE j = k
      BY <1>2, <1>4, <1>11, <2>1, <3>1 DEF new, old
    <3>2. CASE j # k
      BY <1>2, <1>4, <1>12, <1>15, <2>1, <3>2 DEF ReloadInv, Leads
    <3>3. QED
      BY <3>1, <3>2
  <2>2. QED
    BY <2>1 DEF Leads
<1>17. InLine(k)'
  BY <1>2, <1>3, <1>10 DEF InLine, new, old
<1>18. \A j \in Settled : InLine(j)'
  BY <1>2, <1>3, <1>13 DEF ReloadInv, InLine
<1>19. Differences'
  <2>1. k \notin request'.modify /\ k \notin request'.add /\ request'.config[k] # NoPeer
    BY <1>2
  <2>2. \A j \in PublicKeys : j # k =>
          /\ j \in Configured' <=> j \in Configured
          /\ j \in request'.modify <=> j \in request.modify
    BY <1>2, <1>3
  <2>3. QED
    BY <1>2, <1>3, <2>1, <2>2 DEF ReloadInv, Differences
<1>20. request' # NoRequest
  BY DEF NoRequest
<1>21. QED
  BY <1>4, <1>16, <1>17, <1>18, <1>19, <1>20 DEF ReloadInv

\* The two halves of remove_peer, in a reload.
LEMMA ReloadRemoved ==
  ASSUME TypeOK, RouteInv, ReloadInv, NEW k \in PublicKeys, ReloadRemoves(k)
  PROVE  ReloadInv'
<1>1. request \in [op : {"reload"}, config : Configs, remove : SUBSET PublicKeys,
                   modify : SUBSET PublicKeys, add : SUBSET PublicKeys]
  BY ReloadType DEF ReloadRemoves
<1>2. /\ request' = [request EXCEPT !.remove = @ \ {k}] /\ k \in request.remove
      /\ rt' = rt /\ RemoveBegins(k)
  BY DEF ReloadRemoves, RemoveBegins
<1>3. /\ request'.config = request.config /\ request'.remove = request.remove \ {k}
      /\ request'.modify = request.modify /\ request'.add = request.add
      /\ request'.op = "reload"
  BY <1>1, <1>2
<1>4. /\ Configured' = Configured \ {k}
      /\ \A j \in PublicKeys : j # k => peers'[j] = peers[j]
  BY <1>2 DEF RemoveBegins, TypeOK, Configured
<1>5. Settled' = Settled /\ \A j \in Settled : j \in PublicKeys /\ j # k
  BY <1>2, <1>3, <1>4 DEF Settled, Configured
<1>6. request.config[k] = NoPeer /\ k \notin request.modify
  BY <1>1, <1>2 DEF ReloadInv, Differences, RouteInv, Known
<1>7. Differences'
  BY <1>1, <1>3, <1>4, <1>6 DEF ReloadInv, Differences
<1>8. request' # NoRequest
  BY <1>3 DEF NoRequest
<1>9. QED
  BY <1>1, <1>2, <1>3, <1>4, <1>5, <1>7, <1>8 DEF ReloadInv, Leads, InLine

LEMMA ReloadUnrouted ==
  ASSUME TypeOK, RouteInv, ReloadInv, RemoveRoutes
  PROVE  ReloadInv'
<1>1. /\ call.fn = "remove_peer" /\ UNCHANGED <<peers, request>> /\ call' = NoCall
      /\ rt' = [x \in Prefixes |-> IF x \in call.allowed_ips THEN NoPeer ELSE rt[x]]
  BY DEF RemoveRoutes
<1>2. call.peer \in PublicKeys /\ call.peer \notin Configured
  BY <1>1 DEF TypeOK, Calls, NoCall, RouteInv, Known
<1>3. \A x \in Prefixes : x \in call.allowed_ips => rt[x] = call.peer
  BY <1>1, <1>2 DEF RouteInv, RoutesConsistent
<1>4. Settled' = Settled /\ Settled \subseteq Configured
  BY <1>1 DEF Settled, Configured
<1>5. \A x \in Prefixes : rt[x] \in Settled => rt'[x] \in Settled
  BY <1>1, <1>2, <1>3, <1>4
<1>6. ASSUME request.op = "reload", NEW k \in Settled, request.config[k] # NoPeer
      PROVE  MaskedSet(request.config[k].allowed_ips) \subseteq Prefixes
  <2>1. request.config[k] \in PeerConfigs
    BY <1>4, <1>6, ReloadType DEF Configs, Configured
  <2>2. QED
    BY <2>1, MaskedSetType DEF PeerConfigs
<1>7. QED
  BY <1>1, <1>4, <1>5, <1>6 DEF ReloadInv, Differences, Leads, InLine, Configured

\* The differences that a reload computes at its start.
LEMMA ReloadStarts ==
  ASSUME TypeOK, RouteInv, ReloadInv, NEW config \in Configs, ReloadBegins(config)
  PROVE  ReloadInv'
<1> DEFINE new == {k \in PublicKeys : config[k] # NoPeer}
<1>1. /\ request' = [op |-> "reload", config |-> config,
                     remove |-> Configured \ new,
                     modify |-> {k \in Configured \cap new : Changes(k, config[k])},
                     add |-> new \ Configured]
      /\ UNCHANGED frame /\ call = NoCall
  BY DEF ReloadBegins, ReloadInv
<1>2. UNCHANGED <<peers, rt, call>>
  BY <1>1 DEF frame
<1>3. /\ request'.config = config /\ request'.remove = Configured \ new
      /\ request'.modify = {k \in Configured \cap new : Changes(k, config[k])}
      /\ request'.add = new \ Configured
      /\ request' # NoRequest
  BY <1>1 DEF NoRequest
<1>4. Configured' = Configured /\ Configured \subseteq PublicKeys
  BY <1>2 DEF Configured
<1>5. Settled' = {k \in Configured \cap new : ~Changes(k, config[k])}
  BY <1>3, <1>4 DEF Settled
<1>6. ASSUME NEW k \in Settled'
      PROVE  /\ InLine(k)'
             /\ \A x \in MaskedSet(config[k].allowed_ips) : rt[x] = k
  <2>1. k \in Configured /\ k \in PublicKeys /\ ~Changes(k, config[k])
    BY <1>4, <1>5, <1>6
  <2>2. /\ config[k].psk = peers[k].psk /\ config[k].keepalive = peers[k].keepalive
        /\ config[k].allowed_ips = peers[k].allowed_ips
    BY <2>1 DEF Changes
  <2>3. peers[k].allowed_ips \subseteq Prefixes
    BY <2>1 DEF TypeOK, Configured, PeerInfos
  <2>4. MaskedSet(config[k].allowed_ips) = peers[k].allowed_ips
    BY <2>2, <2>3 DEF MaskedSet, Prefixes
  <2>5. \A x \in peers[k].allowed_ips : rt[x] = k
    BY <1>1, <2>1, <2>3 DEF RouteInv, RoutesConsistent, ToLose, NoCall
  <2>6. QED
    BY <1>2, <1>3, <2>2, <2>4, <2>5 DEF InLine
<1>7. Leads'
  BY <1>2, <1>3, <1>6 DEF Leads
<1>8. Differences'
  BY <1>3, <1>4 DEF Differences
<1>9. QED
  BY <1>3, <1>6, <1>7, <1>8 DEF ReloadInv

LEMMA ReloadStep ==
  ASSUME TypeOK, RouteInv, ReloadInv, [Next]_vars
  PROVE  ReloadInv'
<1>1. CASE request.op # "reload" /\ request'.op # "reload" /\ request' # NoRequest
  BY <1>1 DEF ReloadInv
<1>2. ASSUME NEW r \in BOOLEAN, SetBegins(r) PROVE ReloadInv'
  BY <1>2 DEF SetBegins, ReloadInv, NoRequest
<1>3. ASSUME NEW k \in PublicKeys, SetRemovesAll(k) PROVE ReloadInv'
  BY <1>1, <1>3, SetType DEF SetRemovesAll, NoRequest
<1>4. ASSUME NEW k \in PublicKeys, SetRemoves(k) PROVE ReloadInv'
  BY <1>1, <1>4 DEF SetRemoves, NoRequest
<1>5. ASSUME NEW k \in PublicKeys, NEW c \in SetPeerCommands, SetSets(k, c) PROVE ReloadInv'
  BY <1>1, <1>5 DEF SetSets, NoRequest
<1>6. CASE SetEnds \/ ReloadEnds
  BY <1>6 DEF SetEnds, ReloadEnds, ReloadDone, frame, ReloadInv, NoRequest
<1>7. ASSUME NEW config \in Configs, ReloadBegins(config) PROVE ReloadInv'
  BY <1>7, ReloadStarts
<1>8. ASSUME NEW k \in PublicKeys, ReloadRemoves(k) PROVE ReloadInv'
  BY <1>8, ReloadRemoved
<1>9. ASSUME NEW k \in PublicKeys, ReloadModifies(k) PROVE ReloadInv'
  <2> DEFINE c == ModifyCommand(request.config[k])
             old == PeerOrNew(k)
  <2>1. request.config[k] \in PeerConfigs
    BY <1>9, ReloadType DEF ReloadModifies, Configs, RouteInv, Known
  <2>2. c \in SetPeerCommands
    BY <2>1, CommandTypes
  <2>3. /\ request.op = "reload" /\ request.remove = {} /\ k \in request.modify
        /\ SetPeer(k, c) /\ request' = [request EXCEPT !.modify = @ \ {k}]
    BY <1>9 DEF ReloadModifies
  <2>4. k \notin Settled /\ request'.op = "reload"
    BY <2>3, ReloadType DEF Settled
  <2>5. /\ c.psk = request.config[k].psk
        /\ Updated(old, c).keepalive = request.config[k].keepalive
        /\ Updated(old, c).allowed_ips = MaskedSet(request.config[k].allowed_ips)
    BY <2>1 DEF ModifyCommand, Updated, PeerConfigs
  <2> HIDE DEF c
  <2>6. QED
    BY <2>1, <2>2, <2>3, <2>4, <2>5, ReloadSets
<1>10. ASSUME NEW k \in PublicKeys, ReloadAdds(k) PROVE ReloadInv'
  <2> DEFINE c == AddCommand(request.config[k])
             old == PeerOrNew(k)
  <2>1. request.config[k] \in PeerConfigs
    BY <1>10, ReloadType DEF ReloadAdds, Configs, RouteInv, Known
  <2>2. c \in SetPeerCommands
    BY <2>1, CommandTypes
  <2>3. /\ request.op = "reload" /\ request.remove = {} /\ k \in request.add
        /\ SetPeer(k, c) /\ request' = [request EXCEPT !.add = @ \ {k}]
    BY <1>10 DEF ReloadAdds
  <2>4. k \notin Settled /\ request'.op = "reload" /\ old = NewPeer
    BY <2>3, ReloadType DEF Settled, ReloadInv, Differences, PeerOrNew, Configured
  <2>5. /\ c.psk = request.config[k].psk
        /\ Updated(old, c).keepalive = request.config[k].keepalive
        /\ Updated(old, c).allowed_ips = MaskedSet(request.config[k].allowed_ips)
    BY <2>1, <2>4 DEF AddCommand, Updated, PeerConfigs, NewPeer
  <2> HIDE DEF c
  <2>6. QED
    BY <2>1, <2>2, <2>3, <2>4, <2>5, ReloadSets
<1>11. CASE TakeRoute
  <2>1. PICK o \in call.todo : peers' = [peers EXCEPT ![o[1]].allowed_ips = @ \ {o[2]}]
    BY <1>11 DEF TakeRoute
  <2>2. o[1] \in Configured /\ o[1] \in PublicKeys /\ peers[o[1]] \in PeerInfos
    BY <1>11, <2>1 DEF TakeRoute, RouteInv, TakesFromOthers, Configured, TypeOK
  <2>3. \A j \in PublicKeys : j # o[1] => peers'[j] = peers[j]
    BY <2>1, <2>2 DEF TypeOK
  <2>4. /\ peers'[o[1]].keepalive = peers[o[1]].keepalive
        /\ peers'[o[1]].psk = peers[o[1]].psk
        /\ peers'[o[1]].allowed_ips \subseteq peers[o[1]].allowed_ips
    BY <2>1, <2>2 DEF TypeOK, PeerInfos
  <2>5. Configured' = Configured /\ UNCHANGED <<request, rt>> /\ Configured \subseteq PublicKeys
    BY <1>11, TakeRouteRoutes DEF TakeRoute, RouteInv, Configured
  <2>6. Settled' = Settled /\ Settled \subseteq Configured
    BY <2>5 DEF Settled
  <2>7. \A j \in Settled : InLine(j) => InLine(j)'
    BY <2>3, <2>4, <2>5, <2>6 DEF InLine
  <2>8. request # NoRequest
    BY <1>11 DEF TakeRoute, ReloadInv, NoCall
  <2>9. QED
    BY <2>5, <2>6, <2>7, <2>8 DEF ReloadInv, Differences, Leads
<1>12. CASE RemoveRoutes
  BY <1>12, ReloadUnrouted
<1>13. CASE TaskNext
  <2>1. ASSUME NEW k \in Configured, NEW e \in Endpoints,
               peers' = [peers EXCEPT ![k].endpoint = e]
        PROVE  /\ Configured' = Configured
               /\ \A j \in Configured : /\ peers'[j].psk = peers[j].psk
                                        /\ peers'[j].keepalive = peers[j].keepalive
                                        /\ peers'[j].allowed_ips = peers[j].allowed_ips
    <3>1. k \in PublicKeys /\ peers[k] \in PeerInfos
      BY DEF Configured, TypeOK
    <3>2. peers'[k] = [peers[k] EXCEPT !.endpoint = e]
          /\ \A j \in PublicKeys : j # k => peers'[j] = peers[j]
      BY <2>1, <3>1 DEF TypeOK
    <3>3. /\ peers'[k].psk = peers[k].psk /\ peers'[k].keepalive = peers[k].keepalive
          /\ peers'[k].allowed_ips = peers[k].allowed_ips /\ peers'[k] \in PeerInfos
      BY <3>1, <3>2 DEF PeerInfos
    <3>4. QED
      BY <3>1, <3>2, <3>3 DEF Configured
  <2>2. \/ peers' = peers
        \/ \E k \in Configured, e \in Endpoints : peers' = [peers EXCEPT ![k].endpoint = e]
    <3>1. CASE RxSetsEndpoint
      BY <3>1 DEF RxSetsEndpoint, RouteInv, Known, TypeOK
    <3>2. ASSUME NEW k \in PublicKeys, NEW e \in Endpoints, RxHandshake(k, e)
          PROVE  k \in Configured /\ peers' = [peers EXCEPT ![k].endpoint = e]
      BY <3>2 DEF RxHandshake
    <3>3. QED
      BY <1>13, <3>1, <3>2 DEF TaskNext, RxTransport, KeepaliveFires, KeepaliveEnds, Sends
  <2>3. UNCHANGED <<request, call, rt>>
    BY <1>13 DEF TaskNext, RxHandshake, RxTransport, RxSetsEndpoint, KeepaliveFires,
                 KeepaliveEnds, Sends, taskFrame
  <2>4. QED
    BY <2>1, <2>2, <2>3, ReloadSame DEF Configured
<1>14. CASE UNCHANGED vars
  BY <1>14, ReloadSame DEF vars, Configured
<1>15. QED
  BY <1>2, <1>3, <1>4, <1>5, <1>6, <1>7, <1>8, <1>9, <1>10, <1>11, <1>12, <1>13, <1>14
     DEF Next, RequestNext

\* A reload that is done has brought the peers and the routes in line with its
\* file, although it computed what to change before it changed anything.
THEOREM ReloadAlwaysApplied == Spec => []ReloadApplied
<1>1. Init => ReloadInv
  BY DEF Init, ReloadInv, NoRequest, NoCall
<1>2. ASSUME TypeOK, RouteInv, ReloadInv, ReloadDone PROVE ReloadApplied
  <2>1. request.op = "reload" /\ call = NoCall /\ Settled = Configured
    BY <1>2 DEF ReloadDone, Settled
  <2>2. \A k \in PublicKeys : peers[k] = NoPeer <=> request.config[k] = NoPeer
    BY <1>2, <2>1 DEF ReloadInv, Differences, ReloadDone, Configured
  <2>3. \A k \in Configured : InLine(k) /\ k \in PublicKeys /\ request.config[k] # NoPeer
    BY <1>2, <2>1, <2>2 DEF ReloadInv, Configured
  <2>4. ASSUME NEW k \in Configured, NEW a \in request.config[k].allowed_ips
        PROVE  rt[Masked[a]] # NoPeer
    BY <1>2, <2>1, <2>3 DEF ReloadInv, Leads, MaskedSet, Configured
  <2>5. ASSUME NEW x \in Prefixes, rt[x] # NoPeer
        PROVE  x \in {Masked[a] : a \in request.config[rt[x]].allowed_ips}
    <3>1. rt[x] \in PublicKeys
      BY <1>2, <2>5 DEF TypeOK
    <3>2. rt[x] \in Configured /\ x \in peers[rt[x]].allowed_ips
      BY <1>2, <2>1, <3>1 DEF RouteInv, RoutesConsistent, NoCall
    <3>3. QED
      BY <2>3, <3>2 DEF InLine, MaskedSet
  <2>6. QED
    BY <2>2, <2>3, <2>4, <2>5 DEF ReloadApplied, InLine
<1>3. TypeOK /\ RouteInv /\ ReloadInv => ReloadApplied
  BY <1>2 DEF ReloadApplied
<1>4. QED
  BY <1>1, <1>3, ReloadStep, ConfigInit, ConfigStep, PTL DEF Spec
=============================================================================
