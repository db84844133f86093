------------------------------ MODULE WgConfig ------------------------------
(***************************************************************************)
(* The configuration of the peers of an interface: what IPC set requests   *)
(* (src/ipc/server.rs) and reloads (src/cli/reload.rs) do to the peers and *)
(* to the routing tables, through add_peer, set_peer and remove_peer of    *)
(* src/wireguard/state.rs, while the receiving task lets peers roam and    *)
(* the persistent_keepalive timers run.  state_change_advisory admits one  *)
(* request at a time; the tasks only take the locks of the peers.          *)
(*                                                                         *)
(* A peer goes by its public key: a PeerState that was removed is followed *)
(* no further.  rt4 and rt6 are one table, by prefix.  Sessions are the    *)
(* subject of PeerSession.                                                 *)
(***************************************************************************)
EXTENDS Naturals

CONSTANTS
  PublicKeys,
  AllowedIps,        \* addresses with a prefix length
  Masked,            \* the prefix of an allowed IP
  AllowedIpSets,     \* the sets of allowed IPs that requests and files list
  Psks,              \* preshared keys, NoPsk among them
  NoPsk,
  Endpoints,
  Keepalives,        \* intervals; 0 is None in PeerInfo, "off" in a request
  NoPeer, Absent

ASSUME ConfigAssumption ==
  /\ Masked \in [AllowedIps -> AllowedIps]
  /\ \A a \in AllowedIps : Masked[Masked[a]] = Masked[a]
  /\ AllowedIpSets \subseteq SUBSET AllowedIps
  /\ NoPsk \in Psks
  /\ Keepalives \subseteq Nat /\ 0 \in Keepalives
  /\ Absent \notin Endpoints \cup Keepalives
  /\ NoPeer \notin PublicKeys

VARIABLES
  peers,     \* pubkey_map: the PeerInfo of the peers, NoPeer for no peer
  rt,        \* rt4 and rt6: prefix -> peer
  armed,     \* is persistent_keepalive activated?
  action,    \* is an action of persistent_keepalive running?
  request,   \* the IPC set or reload that holds state_change_advisory
  call,      \* the set_peer or remove_peer it is in
  rx,        \* the peer and the address that the receiving task will set
  panicked   \* an assertion ended the process

vars == <<peers, rt, armed, action, request, call, rx, panicked>>

Prefixes == {Masked[a] : a \in AllowedIps}

MaskedSet(ips) == {Masked[a] : a \in ips}

PeerInfos == [psk : Psks, endpoint : Endpoints \cup {Absent}, roaming : BOOLEAN,
              keepalive : Keepalives, allowed_ips : SUBSET Prefixes]

\* SetPeerCommand, without the key.
SetPeerCommands ==
  [psk : Psks, endpoint : Endpoints \cup {Absent},
   keepalive : Keepalives \cup {Absent}, replace : BOOLEAN,
   allowed_ips : AllowedIpSets]

\* PeerConfig, without the key: a keepalive is None or positive.
PeerConfigs == [psk : Psks, endpoint : Endpoints \cup {Absent},
                keepalive : Keepalives, allowed_ips : AllowedIpSets]

ASSUME NoPeerAssumption == NoPeer \notin PeerInfos \cup PeerConfigs

Configs == [PublicKeys -> PeerConfigs \cup {NoPeer}]

NoRequest == [op |-> "none"]
Requests ==
  {NoRequest} \cup [op : {"set"}, remove : SUBSET PublicKeys]
    \cup [op : {"reload"}, config : Configs, remove : SUBSET PublicKeys,
          modify : SUBSET PublicKeys, add : SUBSET PublicKeys]

NoCall == [fn |-> "none"]
Calls ==
  {NoCall} \cup [fn : {"set_peer"}, peer : PublicKeys,
                 todo : SUBSET (PublicKeys \X Prefixes)]
           \cup [fn : {"remove_peer"}, peer : PublicKeys,
                 allowed_ips : SUBSET Prefixes]

NoAddress == [peer |-> NoPeer]

TypeOK ==
  /\ peers \in [PublicKeys -> PeerInfos \cup {NoPeer}]
  /\ rt \in [Prefixes -> PublicKeys \cup {NoPeer}]
  /\ armed \in [PublicKeys -> BOOLEAN] /\ action \in [PublicKeys -> BOOLEAN]
  /\ request \in Requests
  /\ call \in Calls
  /\ rx \in {NoAddress} \cup [peer : PublicKeys, endpoint : Endpoints]
  /\ panicked \in BOOLEAN

Configured == {k \in PublicKeys : peers[k] # NoPeer}

Init ==
  /\ peers = [k \in PublicKeys |-> NoPeer]
  /\ rt = [x \in Prefixes |-> NoPeer]
  /\ armed = [k \in PublicKeys |-> FALSE]
  /\ action = [k \in PublicKeys |-> FALSE]
  /\ request = NoRequest
  /\ call = NoCall
  /\ rx = NoAddress
  /\ panicked = FALSE

\* set_peer holds the write lock of its peer to the end.
Locked(k) == call.fn = "set_peer" /\ call.peer = k

-----------------------------------------------------------------------------
(* add_peer, set_peer, remove_peer.                                        *)

\* The PeerInfo of wg_add_peer.
NewPeer == [psk |-> NoPsk, endpoint |-> Absent, roaming |-> TRUE,
            keepalive |-> 0, allowed_ips |-> {}]

PeerOrNew(k) == IF peers[k] = NoPeer THEN NewPeer ELSE peers[k]

\* set_peer on the PeerInfo `p`.
Updated(p, c) ==
  [psk |-> c.psk,
   endpoint |-> IF c.endpoint = Absent THEN p.endpoint ELSE c.endpoint,
   roaming |-> p.roaming /\ c.endpoint = Absent,
   keepalive |-> IF c.keepalive = Absent THEN p.keepalive ELSE c.keepalive,
   allowed_ips |-> MaskedSet(c.allowed_ips)
                     \cup (IF c.replace THEN {} ELSE p.allowed_ips)]

KeepaliveTimer_NeverOff(k, old, new) ==
  armed' = [armed EXCEPT ![k] = IF new = old THEN @ ELSE @ \/ new > 0]

\* set_peer on the timer, when the interval changes.
KeepaliveTimer(k, old, new) ==
  armed' = [armed EXCEPT ![k] = IF new = old THEN @ ELSE new > 0]

Added_NotCompared(old, c) == MaskedSet(c.allowed_ips)

\* The prefixes that set_peer inserts: those the peer does not have.
Added(old, c) == MaskedSet(c.allowed_ips) \ old.allowed_ips

TakenFrom_Nobody(added) == {}

\* to_remove_others: the peers that the prefixes in `added` were routed to.
TakenFrom(added) == {<<rt[x], x>> : x \in {y \in added : rt[y] # NoPeer}}

\* set_peer, preceded by add_peer if there is no peer, up to where rt4 and rt6
\* are released.  (Nobody can see the peer between the two calls in a state
\* that set_peer does not overwrite or could not find later.)
SetPeer(k, c) ==
  LET old == PeerOrNew(k)
      new == Updated(old, c)
      added == Added(old, c)
      others == TakenFrom(added)
  IN
  /\ call = NoCall
  /\ peers' = [peers EXCEPT ![k] = new]
  /\ KeepaliveTimer(k, old.keepalive, new.keepalive)
  /\ rt' = [x \in Prefixes |->
              IF x \in added THEN k
              ELSE IF x \in old.allowed_ips \ new.allowed_ips THEN NoPeer
              ELSE rt[x]]
  /\ call' = IF others = {} THEN NoCall
             ELSE [fn |-> "set_peer", peer |-> k, todo |-> others]
  /\ UNCHANGED <<action, rx, panicked>>

\* ... one of the others, under its own lock, loses the prefix; the lock of
\* the peer is released after the last.
TakeRoute ==
  /\ call.fn = "set_peer"
  /\ \E o \in call.todo :
       /\ o[2] \in peers[o[1]].allowed_ips
       /\ peers' = [peers EXCEPT ![o[1]].allowed_ips = @ \ {o[2]}]
       /\ call' = IF call.todo = {o} THEN NoCall
                  ELSE [call EXCEPT !.todo = @ \ {o}]
  /\ UNCHANGED <<rt, armed, action, request, rx, panicked>>

\* remove_peer takes the peer out of pubkey_map.  What the receiving task and
\* the timers do with the PeerState from then on is not followed.
RemoveBegins(k) ==
  /\ call = NoCall
  /\ IF peers[k] = NoPeer
     THEN UNCHANGED <<peers, call, armed, action, rx>>
     ELSE /\ peers' = [peers EXCEPT ![k] = NoPeer]
          /\ call' = [fn |-> "remove_peer", peer |-> k,
                      allowed_ips |-> peers[k].allowed_ips]
          /\ armed' = [armed EXCEPT ![k] = FALSE]
          /\ action' = [action EXCEPT ![k] = FALSE]
          /\ rx' = IF rx.peer = k THEN NoAddress ELSE rx
  /\ UNCHANGED <<rt, panicked>>

\* ... and its prefixes out of the tables.
RemoveRoutes ==
  /\ call.fn = "remove_peer"
  /\ rt' = [x \in Prefixes |-> IF x \in call.allowed_ips THEN NoPeer ELSE rt[x]]
  /\ call' = NoCall
  /\ UNCHANGED <<peers, armed, action, request, rx, panicked>>

-----------------------------------------------------------------------------
(* process_wg_set.                                                         *)

frame == <<peers, rt, armed, action, call, rx, panicked>>

SetBegins(replace_peers) ==
  /\ request = NoRequest
  /\ request' = [op |-> "set", remove |-> IF replace_peers THEN Configured ELSE {}]
  /\ UNCHANGED frame

\* One step of remove_all_peers.
SetRemovesAll(k) ==
  /\ request.op = "set" /\ k \in request.remove
  /\ RemoveBegins(k)
  /\ request' = [request EXCEPT !.remove = @ \ {k}]

\* One peer of the request: it is removed ...
SetRemoves(k) ==
  /\ request.op = "set" /\ request.remove = {}
  /\ RemoveBegins(k)
  /\ UNCHANGED request

\* ... or added, if need be, and set.
SetSets(k, c) ==
  /\ request.op = "set" /\ request.remove = {}
  /\ SetPeer(k, c)
  /\ UNCHANGED request

SetEnds ==
  /\ request.op = "set" /\ request.remove = {} /\ call = NoCall
  /\ request' = NoRequest
  /\ UNCHANGED frame

-----------------------------------------------------------------------------
(* reload.                                                                 *)

\* Does the file change a configured peer?  The allowed IPs of the file are
\* compared as they stand, those of the peer are masked.
Changes(k, c) ==
  \/ c.psk # peers[k].psk
  \/ c.endpoint # peers[k].endpoint
  \/ c.allowed_ips # peers[k].allowed_ips
  \/ c.keepalive # peers[k].keepalive

\* The differences to the state that get_state returns.
ReloadBegins(config) ==
  LET new == {k \in PublicKeys : config[k] # NoPeer} IN
  /\ request = NoRequest
  /\ request' = [op |-> "reload", config |-> config,
                 remove |-> Configured \ new,
                 modify |-> {k \in Configured \cap new : Changes(k, config[k])},
                 add |-> new \ Configured]
  /\ UNCHANGED frame

\* First remove ...
ReloadRemoves(k) ==
  /\ request.op = "reload" /\ k \in request.remove
  /\ RemoveBegins(k)
  /\ request' = [request EXCEPT !.remove = @ \ {k}]

ModifyCommand_KeepaliveStays(c) ==
  [psk |-> c.psk, endpoint |-> c.endpoint,
   keepalive |-> IF c.keepalive = 0 THEN Absent ELSE c.keepalive,
   replace |-> TRUE, allowed_ips |-> c.allowed_ips]

\* The command for a peer that changes: no keepalive is "off".
ModifyCommand(c) ==
  [psk |-> c.psk, endpoint |-> c.endpoint, keepalive |-> c.keepalive,
   replace |-> TRUE, allowed_ips |-> c.allowed_ips]

\* ... then modify ...
ReloadModifies(k) ==
  /\ request.op = "reload" /\ request.remove = {} /\ k \in request.modify
  /\ SetPeer(k, ModifyCommand(request.config[k]))
  /\ request' = [request EXCEPT !.modify = @ \ {k}]

\* The command for a new peer: no keepalive is absent.
AddCommand(c) ==
  [psk |-> c.psk, endpoint |-> c.endpoint,
   keepalive |-> IF c.keepalive = 0 THEN Absent ELSE c.keepalive,
   replace |-> FALSE, allowed_ips |-> c.allowed_ips]

\* ... then add.
ReloadAdds(k) ==
  /\ request.op = "reload" /\ request.remove = {} /\ request.modify = {}
  /\ k \in request.add
  /\ SetPeer(k, AddCommand(request.config[k]))
  /\ request' = [request EXCEPT !.add = @ \ {k}]

ReloadDone ==
  /\ request.op = "reload" /\ call = NoCall
  /\ request.remove = {} /\ request.modify = {} /\ request.add = {}

ReloadEnds ==
  /\ ReloadDone
  /\ request' = NoRequest
  /\ UNCHANGED frame

-----------------------------------------------------------------------------
(* The tasks.                                                              *)

taskFrame == <<rt, request, call>>

\* A handshake message: the endpoint is set under the lock it is checked with.
RxHandshake(k, e) ==
  /\ rx = NoAddress /\ k \in Configured /\ ~Locked(k)
  /\ peers[k].roaming
  /\ peers' = [peers EXCEPT ![k].endpoint = e]
  /\ UNCHANGED <<taskFrame, armed, action, rx, panicked>>

\* A transport message: should_set_endpoint is found out under the read lock.
RxTransport(k, e) ==
  /\ rx = NoAddress /\ k \in Configured /\ ~Locked(k)
  /\ peers[k].roaming /\ peers[k].endpoint # e
  /\ rx' = [peer |-> k, endpoint |-> e]
  /\ UNCHANGED <<taskFrame, peers, armed, action, panicked>>

\* ... and, after the packet is written to the tun device, set_endpoint is
\* called under the write lock; it asserts that the peer may roam.
RxSetsEndpoint ==
  /\ rx # NoAddress /\ ~Locked(rx.peer)
  /\ IF peers[rx.peer].roaming
     THEN peers' = [peers EXCEPT ![rx.peer].endpoint = rx.endpoint] /\ UNCHANGED panicked
     ELSE panicked' = TRUE /\ UNCHANGED peers
  /\ rx' = NoAddress
  /\ UNCHANGED <<taskFrame, armed, action>>

\* persistent_keepalive is due.
KeepaliveFires(k) ==
  /\ armed[k] /\ ~action[k]
  /\ armed' = [armed EXCEPT ![k] = FALSE]
  /\ action' = [action EXCEPT ![k] = TRUE]
  /\ UNCHANGED <<taskFrame, peers, rx, panicked>>

\* The timer is activated again if the peer, read locked, has a keepalive.
Rearmed(k) == armed' = [armed EXCEPT ![k] = @ \/ peers[k].keepalive # 0]

KeepaliveEnds(k) ==
  /\ action[k] /\ ~Locked(k)
  /\ Rearmed(k)
  /\ action' = [action EXCEPT ![k] = FALSE]
  /\ UNCHANGED <<taskFrame, peers, rx, panicked>>

\* on_send_transport and on_send_keepalive, from any task.
Sends(k) ==
  /\ k \in Configured /\ ~Locked(k)
  /\ peers[k].keepalive # 0 /\ ~armed[k]
  /\ Rearmed(k)
  /\ UNCHANGED <<taskFrame, peers, action, rx, panicked>>

RequestNext ==
  \/ \E r \in BOOLEAN : SetBegins(r)
  \/ \E k \in PublicKeys : SetRemovesAll(k) \/ SetRemoves(k)
  \/ \E k \in PublicKeys, c \in SetPeerCommands : SetSets(k, c)
  \/ SetEnds
  \/ \E config \in Configs : ReloadBegins(config)
  \/ \E k \in PublicKeys : ReloadRemoves(k) \/ ReloadModifies(k) \/ ReloadAdds(k)
  \/ ReloadEnds
  \/ TakeRoute \/ RemoveRoutes

TaskNext ==
  \/ \E k \in PublicKeys, e \in Endpoints : RxHandshake(k, e) \/ RxTransport(k, e)
  \/ RxSetsEndpoint
  \/ \E k \in PublicKeys : KeepaliveFires(k) \/ KeepaliveEnds(k) \/ Sends(k)

Next ==
  \/ ~panicked /\ RequestNext
  \/ ~panicked /\ TaskNext
  \/ panicked /\ UNCHANGED vars

Spec == Init /\ [][Next]_vars

-----------------------------------------------------------------------------
(* Properties.                                                             *)

\* The prefixes that were taken from a peer and that it still has to lose.
ToLose(k) == IF call.fn = "set_peer" THEN {x \in Prefixes : <<k, x>> \in call.todo} ELSE {}

\* A prefix is routed to a peer if and only if the peer lists it, but for what
\* the set_peer or remove_peer in progress has yet to do: what
\* check_route_consistency checks, at every moment and for every sequence of
\* requests that replace, append, take over and remove allowed IPs.
RoutesConsistent == \A k \in PublicKeys : \A x \in Prefixes :
  IF k \in Configured
  THEN rt[x] = k <=> x \in peers[k].allowed_ips \ ToLose(k)
  ELSE rt[x] = k <=> call.fn = "remove_peer" /\ call.peer = k /\ x \in call.allowed_ips

\* A peer that set_peer takes a prefix from is another one, so that the write
\* lock it already holds is not asked for again, is still configured, and has
\* the prefix: the assertion on allowed_ips.remove does not fail.
TakesFromOthers ==
  call.fn = "set_peer" => \A o \in call.todo :
    o[1] # call.peer /\ o[1] \in Configured /\ o[2] \in peers[o[1]].allowed_ips

\* A peer with a persistent keepalive has its timer activated, or an action of
\* it under way that will; a peer without one has not, and no action or packet
\* sent activates it again after it was switched off.
KeepaliveKept == \A k \in Configured :
  /\ peers[k].keepalive # 0 => armed[k] \/ action[k]
  /\ peers[k].keepalive = 0 => ~armed[k]

\* When a reload is done, the peers are those of the file, with its preshared
\* keys and keepalives, and every prefix that the file lists is routed to a
\* peer it lists it for, no other to any; although the differences were
\* computed at the start, and peers take prefixes from each other meanwhile.
ReloadApplied == ReloadDone =>
  LET config == request.config IN
  /\ \A k \in PublicKeys : peers[k] = NoPeer <=> config[k] = NoPeer
  /\ \A k \in Configured : /\ peers[k].psk = config[k].psk
                           /\ peers[k].keepalive = config[k].keepalive
  /\ \A k \in Configured : \A a \in config[k].allowed_ips : rt[Masked[a]] # NoPeer
  /\ \A x \in Prefixes : rt[x] # NoPeer =>
       x \in {Masked[a] : a \in config[rt[x]].allowed_ips}
=============================================================================
