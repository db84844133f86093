---------------------------- MODULE PeerSession ----------------------------
(***************************************************************************)
(* The sessions of the peers of one WireGuard interface, at the            *)
(* granularity of the locks of src/wireguard/state.rs and peer_state.rs:   *)
(* what one thread does under one lock is one action, and a thread that    *)
(* releases a lock and takes another one is two actions.                   *)
(*                                                                         *)
(* The threads: the receiving task (`rx`), the sending task (`tun`), one   *)
(* resend task per handshake attempt (`tasks`), the two timers that end    *)
(* attempts and sessions (`stopRun`, `clearRun`), and the configuration    *)
(* commands, which an advisory lock serialises (`cfg`).                    *)
(*                                                                         *)
(* Time is left out: a timer that is armed may fire at any moment.  The    *)
(* cryptography is left out: a handshake and a session are an identifier,  *)
(* the one their IdMapGuard holds, and the interface key they were derived *)
(* from.                                                                   *)
(***************************************************************************)
EXTENDS Naturals, Sequences, FiniteSets

CONSTANTS
  Peers,          \* PeerState objects, one for each successful add_peer
  PublicKeys,     \* the public keys of pubkey_map
  KeyOf,          \* the public key a PeerState is created for
  Ids,            \* session identifiers
  Scopes,         \* handshake attempts (AsyncScope objects)
  Psks, NoPsk,    \* preshared keys, and the absent one, a member of Psks
  InterfaceKeys,  \* private keys of the interface
  MaxTransports,  \* capacity of PeerState.transports
  QueueSize,      \* QUEUE_SIZE
  NoPeer, NoScope, NoHandshake  \* absent values

ASSUME ConstantsAssumption ==
  /\ KeyOf \in [Peers -> PublicKeys]
  /\ NoPsk \in Psks
  /\ NoPeer \notin Peers
  /\ NoScope \notin Scopes
  /\ MaxTransports \in Nat \ {0}
  /\ QueueSize \in Nat \ {0}
  /\ NoHandshake \notin [id : Ids, key : InterfaceKeys]

VARIABLES
  pubkey_map,     \* public key -> PeerState
  added,          \* PeerState objects created so far
  id_map,         \* session identifier -> PeerState (a strong reference)
  pendingRemoval, \* identifiers a dropped IdMapGuard left to a spawned task
  key,            \* WgInfo.key
  endpoint,       \* does the peer have an endpoint?
  psk,            \* PeerInfo.psk
  handshake,      \* PeerState.handshake
  scope,          \* PeerState.handshake_resend_scope
  transports,     \* PeerState.transports, the newest first
  queue,          \* number of packets in PeerState.queue
  stopArmed, clearArmed,  \* TimerOptions.activated of stop_handshake and clear
  stopRun,        \* how far a stop_handshake action that was started has got
  clearRun,       \* is a clear action started and not yet done?
  tasks,          \* resend tasks: the attempt they belong to -> the peer
  rx,             \* the receiving task
  tun,            \* the sending task
  cfg             \* the configuration command being executed

mapVars   == <<pubkey_map, added>>
idVars    == <<id_map, pendingRemoval>>
infoVars  == <<endpoint, psk>>
timerVars == <<stopArmed, clearArmed, stopRun, clearRun>>
vars == <<mapVars, idVars, infoVars, timerVars, key, handshake, scope,
          transports, queue, tasks, rx, tun, cfg>>

Handshakes == [id : Ids, key : InterfaceKeys]

Transports == [id : Ids, key : InterfaceKeys]

RxIdle == [phase |-> "idle"]

RxStates ==
  {RxIdle, [phase |-> "exited"]}
  \cup [phase : {"init"}, peer : Peers]
  \cup [phase : {"resp_found"}, peer : Peers, id : Ids]
  \cup [phase : {"resp_checked", "resp_inserted"}, peer : Peers, hs : Handshakes]
  \cup [phase : {"send"}, peer : Peers, id : Ids]

TunIdle == [phase |-> "idle"]
TunStates == {TunIdle} \cup [phase : {"found", "handshake"}, peer : Peers]

CfgIdle == [op |-> "idle"]
CfgStates == {CfgIdle}
  \cup [op : {"set_key"}, todo : SUBSET Peers]
  \cup [op : {"remove"}, peer : Peers]

TypeOK ==
  /\ pubkey_map \in [PublicKeys -> Peers \cup {NoPeer}]
  /\ added \subseteq Peers
  /\ id_map \in [Ids -> Peers \cup {NoPeer}]
  /\ pendingRemoval \subseteq Ids
  /\ key \in InterfaceKeys
  /\ endpoint \in [Peers -> BOOLEAN]
  /\ psk \in [Peers -> Psks]
  /\ handshake \in [Peers -> Handshakes \cup {NoHandshake}]
  /\ scope \in [Peers -> Scopes \cup {NoScope}]
  /\ transports \in [Peers -> Seq(Transports)]
  /\ \A p \in Peers : Len(transports[p]) <= MaxTransports
  /\ queue \in [Peers -> 0..QueueSize]
  /\ stopArmed \in [Peers -> BOOLEAN]
  /\ clearArmed \in [Peers -> BOOLEAN]
  /\ stopRun \in [Peers -> {"idle", "scope", "handshake"}]
  /\ clearRun \in [Peers -> BOOLEAN]
  /\ tasks \in [Scopes -> Peers \cup {NoPeer}]
  /\ rx \in RxStates
  /\ tun \in TunStates
  /\ cfg \in CfgStates

-----------------------------------------------------------------------------
(* References and identifiers.                                             *)

\* The identifiers of the sessions in `ts`.
TransportIds(ts) == {ts[i].id : i \in DOMAIN ts}

\* The identifiers whose IdMapGuard peer p owns.
GuardsOf(h, ts) == TransportIds(ts) \cup (IF h = NoHandshake THEN {} ELSE {h.id})
Guards(p) == GuardsOf(handshake[p], transports[p])

\* The receiving task shares a session it is sending queued packets with.
RxGuard == IF rx.phase = "send" THEN {rx.id} ELSE {}

AllGuards == RxGuard \cup UNION {Guards(p) : p \in Peers}

\* Does a PeerState still have a strong reference?
Alive(p) ==
  \/ \E k \in PublicKeys : pubkey_map[k] = p
  \/ \E i \in Ids : id_map[i] = p
  \/ rx.phase \notin {"idle", "exited"} /\ rx.peer = p
  \/ tun.phase # "idle" /\ tun.peer = p
  \/ cfg.op = "remove" /\ cfg.peer = p
  \/ stopRun[p] # "idle"
  \/ clearRun[p]

\* Id::gen draws 32 random bits: an identifier nothing refers to.
Fresh(i) ==
  /\ id_map[i] = NoPeer
  /\ i \notin AllGuards \cup pendingRemoval
  /\ rx.phase = "resp_found" => rx.id # i
  /\ rx.phase \in {"resp_checked", "resp_inserted"} => rx.hs.id # i

\* IdMapGuard::drop for the guards of `dropped`, `m` being the id_map: each is
\* removed at once when try_write gets the lock, and by a spawned task if not.
DropGuards(m, dropped) ==
  \E deferred \in SUBSET dropped :
    /\ id_map' = [i \in Ids |-> IF i \in dropped \ deferred THEN NoPeer ELSE m[i]]
    /\ pendingRemoval' = pendingRemoval \cup deferred

\* The two sides of the lock of WgInfo.
InfoWriteLocked == cfg.op = "set_key"
InfoReadLocked_Dropped == FALSE
InfoReadLocked == rx.phase \in {"init", "resp_found", "resp_checked", "resp_inserted"}

Running == rx.phase # "exited"

Init ==
  /\ pubkey_map = [k \in PublicKeys |-> NoPeer]
  /\ added = {}
  /\ id_map = [i \in Ids |-> NoPeer]
  /\ pendingRemoval = {}
  /\ key \in InterfaceKeys
  /\ endpoint = [p \in Peers |-> FALSE]
  /\ psk = [p \in Peers |-> NoPsk]
  /\ handshake = [p \in Peers |-> NoHandshake]
  /\ scope = [p \in Peers |-> NoScope]
  /\ transports = [p \in Peers |-> << >>]
  /\ queue = [p \in Peers |-> 0]
  /\ stopArmed = [p \in Peers |-> FALSE]
  /\ clearArmed = [p \in Peers |-> FALSE]
  /\ stopRun = [p \in Peers |-> "idle"]
  /\ clearRun = [p \in Peers |-> FALSE]
  /\ tasks = [s \in Scopes |-> NoPeer]
  /\ rx = RxIdle
  /\ tun = TunIdle
  /\ cfg = CfgIdle
-----------------------------------------------------------------------------
(* PeerState: what the handlers below share.                               *)

\* PeerState::clear, with the IdMapGuards it drops.
Clear(p) ==
  /\ handshake' = [handshake EXCEPT ![p] = NoHandshake]
  /\ scope' = [scope EXCEPT ![p] = NoScope]
  /\ transports' = [transports EXCEPT ![p] = << >>]
  /\ queue' = [queue EXCEPT ![p] = 0]
  /\ clearArmed' = [clearArmed EXCEPT ![p] = FALSE]
  /\ DropGuards(id_map, Guards(p) \ RxGuard)

Pushed_Overfull(ts, t) == <<t>> \o ts

\* PeerState::push_transport on the sequence: the newest goes first, the
\* oldest makes room.
Pushed(ts, t) ==
  IF Len(ts) = MaxTransports THEN <<t>> \o SubSeq(ts, 1, Len(ts) - 1)
                             ELSE <<t>> \o ts

ReplacedGuards_HandleDropped(p, ts) ==
  Guards(p) \ (TransportIds(ts) \ GuardsOf(handshake[p], << >>))

\* The guards peer p drops when its sessions become `ts` and it has no
\* handshake any more: the popped session's, and the handshake's unless it has
\* moved into a session.
ReplacedGuards(p, ts) == Guards(p) \ TransportIds(ts)

OnNewTransport_ClearNotArmed(p) ==
  /\ stopArmed' = [stopArmed EXCEPT ![p] = FALSE]
  /\ UNCHANGED <<clearArmed, stopRun, clearRun>>

\* PeerState::on_new_transport.
OnNewTransport(p) ==
  /\ stopArmed' = [stopArmed EXCEPT ![p] = FALSE]
  /\ clearArmed' = [clearArmed EXCEPT ![p] = TRUE]
  /\ UNCHANGED <<stopRun, clearRun>>

-----------------------------------------------------------------------------
(* Starting handshakes: do_handshake and the resend task.                  *)

ArmAttemptTimers_OnlyClear(p) ==
  /\ clearArmed' = [clearArmed EXCEPT ![p] = TRUE]
  /\ UNCHANGED <<stopArmed, stopRun, clearRun>>

ArmAttemptTimers_OnlyStop(p) ==
  /\ stopArmed' = [stopArmed EXCEPT ![p] = TRUE]
  /\ UNCHANGED <<clearArmed, stopRun, clearRun>>

\* do_handshake activates the timers that end the attempt and the sessions.
ArmAttemptTimers(p) ==
  /\ stopArmed' = [stopArmed EXCEPT ![p] = TRUE]
  /\ clearArmed' = [clearArmed EXCEPT ![p] = TRUE]
  /\ UNCHANGED <<stopRun, clearRun>>

\* do_handshake: nothing if an attempt is going on or no endpoint is known;
\* otherwise a new attempt, whose resend task is spawned.
DoHandshake(p) ==
  IF scope[p] # NoScope \/ ~endpoint[p]
  THEN UNCHANGED <<scope, tasks, timerVars>>
  ELSE \E s \in Scopes :
         /\ tasks[s] = NoPeer
         /\ \A q \in Peers : scope[q] # s
         /\ scope' = [scope EXCEPT ![p] = s]
         /\ tasks' = [tasks EXCEPT ![s] = p]
         /\ ArmAttemptTimers(p)

\* The actions of the rekey_no_recv, keepalive and persistent_keepalive timers
\* and the handling of a received packet end in a do_handshake.
TimerHandshake(p) ==
  /\ Running /\ Alive(p)
  /\ scope[p] = NoScope /\ endpoint[p]
  /\ DoHandshake(p)
  /\ UNCHANGED <<mapVars, idVars, infoVars, key, handshake, transports, queue,
                 rx, tun, cfg>>

\* Is the scope of task s dropped?
Cancelled(s) == scope[tasks[s]] # s

\* One iteration of the resend task: a new initiation replaces the handshake.
\* select_biased! polls the task before its cancellation, so that a task whose
\* delay is over when it is cancelled iterates once more before it ends.
ResendIteration(s) ==
  LET p == tasks[s] IN
  /\ Running /\ p # NoPeer /\ Alive(p)
  /\ ~InfoWriteLocked
  /\ endpoint[p]
  /\ \E i \in Ids :
       LET old == IF handshake[p] = NoHandshake THEN {} ELSE {handshake[p].id} IN
       /\ Fresh(i)
       /\ handshake' = [handshake EXCEPT ![p] = [id |-> i, key |-> key]]
       /\ DropGuards([id_map EXCEPT ![i] = p], old \ RxGuard)
  /\ tasks' = [tasks EXCEPT ![s] = IF Cancelled(s) THEN NoPeer ELSE p]
  /\ UNCHANGED <<mapVars, infoVars, timerVars, key, scope, transports, queue,
                 rx, tun, cfg>>

\* A task whose scope is dropped, by the peer or with it, ends.
ResendEnds(s) ==
  /\ Running /\ tasks[s] # NoPeer
  /\ Cancelled(s) \/ ~Alive(tasks[s])
  /\ tasks' = [tasks EXCEPT ![s] = NoPeer]
  /\ UNCHANGED <<mapVars, idVars, infoVars, timerVars, key, handshake, scope,
                 transports, queue, rx, tun, cfg>>

-----------------------------------------------------------------------------
(* The receiving task.                                                     *)

rxFrame == <<mapVars, key, psk, tasks, tun, cfg>>

\* udp_process_handshake_init up to find_peer_by_pubkey: info is read locked.
RxInitArrives(k) ==
  /\ rx = RxIdle /\ ~InfoWriteLocked
  /\ pubkey_map[k] # NoPeer
  /\ rx' = [phase |-> "init", peer |-> pubkey_map[k]]
  /\ UNCHANGED <<rxFrame, idVars, endpoint, timerVars, handshake, scope,
                 transports, queue>>

\* ... the timestamp is not newer, or no response can be made.
RxInitRejected ==
  /\ rx.phase = "init"
  /\ rx' = RxIdle
  /\ UNCHANGED <<rxFrame, idVars, endpoint, timerVars, handshake, scope,
                 transports, queue>>

\* ... the rest, under the peer's write lock: a new session as responder, and
\* no more handshake as initiator.
RxInitAccepted ==
  /\ rx.phase = "init"
  /\ LET p == rx.peer IN \E i \in Ids :
       LET t == [id |-> i, key |-> key] IN
       /\ Fresh(i)
       /\ endpoint' = [endpoint EXCEPT ![p] = TRUE]
       /\ transports' = [transports EXCEPT ![p] = Pushed(transports[p], t)]
       /\ OnNewTransport(p)
       /\ handshake' = [handshake EXCEPT ![p] = NoHandshake]
       /\ scope' = [scope EXCEPT ![p] = NoScope]
       /\ DropGuards([id_map EXCEPT ![i] = p],
                     ReplacedGuards(p, Pushed(transports[p], t)))
  /\ rx' = RxIdle
  /\ UNCHANGED <<rxFrame, queue>>

\* udp_process_handshake_resp up to find_peer_by_id: info is read locked.
RxRespArrives(i) ==
  /\ rx = RxIdle /\ ~InfoWriteLocked
  /\ id_map[i] # NoPeer
  /\ rx' = [phase |-> "resp_found", peer |-> id_map[i], id |-> i]
  /\ UNCHANGED <<rxFrame, idVars, endpoint, timerVars, handshake, scope,
                 transports, queue>>

\* ... the checks under the peer's read lock, which is then released.
RxRespChecked ==
  /\ rx.phase = "resp_found"
  /\ LET h == handshake[rx.peer] IN
       \/ rx' = RxIdle        \* not this handshake, or not authenticated
       \/ /\ h # NoHandshake
          /\ h.id = rx.id
          /\ rx' = [phase |-> "resp_checked", peer |-> rx.peer, hs |-> h]
  /\ UNCHANGED <<rxFrame, idVars, endpoint, timerVars, handshake, scope,
                 transports, queue>>

\* ... the identifier is put in id_map.
RxRespInserted ==
  /\ rx.phase = "resp_checked"
  /\ id_map' = [id_map EXCEPT ![rx.hs.id] = rx.peer]
  /\ rx' = [phase |-> "resp_inserted", peer |-> rx.peer, hs |-> rx.hs]
  /\ UNCHANGED <<rxFrame, pendingRemoval, endpoint, timerVars, handshake, scope,
                 transports, queue>>

\* ... the peer's write lock is taken, and there is a handshake to take.
RxRespCompletes ==
  /\ rx.phase = "resp_inserted"
  /\ LET p == rx.peer IN
       /\ handshake[p] # NoHandshake
       /\ LET t == [id |-> handshake[p].id, key |-> rx.hs.key] IN
            /\ transports' = [transports EXCEPT ![p] = Pushed(transports[p], t)]
            /\ DropGuards(id_map, ReplacedGuards(p, Pushed(transports[p], t)))
       /\ scope' = [scope EXCEPT ![p] = NoScope]
       /\ handshake' = [handshake EXCEPT ![p] = NoHandshake]
       /\ OnNewTransport(p)
       /\ endpoint' = [endpoint EXCEPT ![p] = TRUE]
       /\ queue' = [queue EXCEPT ![p] = 0]
       /\ rx' = IF queue[p] = 0 THEN RxIdle
                ELSE [phase |-> "send", peer |-> p, id |-> handshake[p].id]
  /\ UNCHANGED rxFrame

\* ... there is none any more: the unwrap panics, and the hook of real_main
\* ends the process.
RxRespPanics ==
  /\ rx.phase = "resp_inserted"
  /\ handshake[rx.peer] = NoHandshake
  /\ rx' = [phase |-> "exited"]
  /\ scope' = [scope EXCEPT ![rx.peer] = NoScope]
  /\ UNCHANGED <<rxFrame, idVars, endpoint, timerVars, handshake, transports, queue>>

\* ... the queued packets are sent, the session shared for that is let go.
RxSendDone ==
  /\ rx.phase = "send"
  /\ rx' = RxIdle
  /\ DropGuards(id_map, RxGuard \ UNION {Guards(p) : p \in Peers})
  /\ UNCHANGED <<rxFrame, endpoint, timerVars, handshake, scope, transports, queue>>

RxNext ==
  \/ \E k \in PublicKeys : RxInitArrives(k)
  \/ RxInitRejected
  \/ RxInitAccepted
  \/ \E i \in Ids : RxRespArrives(i)
  \/ RxRespChecked
  \/ RxRespInserted
  \/ RxRespCompletes
  \/ RxRespPanics
  \/ RxSendDone
-----------------------------------------------------------------------------
(* The sending task.                                                       *)

tunFrame == <<mapVars, idVars, infoVars, key, handshake, transports, rx, cfg>>

\* The routing tables lead to peers that are configured or being removed.
Routed(p) ==
  \/ \E k \in PublicKeys : pubkey_map[k] = p
  \/ cfg.op = "remove" /\ cfg.peer = p

\* find_peer_by_ip.
TunLookup(p) ==
  /\ tun = TunIdle /\ Routed(p)
  /\ tun' = [phase |-> "found", peer |-> p]
  /\ UNCHANGED <<tunFrame, scope, timerVars, queue, tasks>>

\* really_should_handshake, the age of the transports being left out.
ReallyShouldHandshake(p) == scope[p] = NoScope

AfterPacket(p) ==
  \/ tun' = TunIdle
  \/ ReallyShouldHandshake(p) /\ tun' = [phase |-> "handshake", peer |-> p]

\* Under the peer's read lock: no endpoint, or a transport that may send.
TunSends ==
  /\ tun.phase = "found"
  /\ IF endpoint[tun.peer]
     THEN transports[tun.peer] # << >> /\ AfterPacket(tun.peer)
     ELSE tun' = TunIdle
  /\ UNCHANGED <<tunFrame, scope, timerVars, queue, tasks>>

\* ... no transport may send: the packet is queued, the oldest is dropped from
\* a full queue, and stop_handshake is put off.
TunEnqueues ==
  /\ tun.phase = "found" /\ endpoint[tun.peer]
  /\ stopArmed' = [stopArmed EXCEPT ![tun.peer] = TRUE]
  /\ queue' = [queue EXCEPT ![tun.peer] = IF @ = QueueSize THEN @ ELSE @ + 1]
  /\ AfterPacket(tun.peer)
  /\ UNCHANGED <<tunFrame, scope, clearArmed, stopRun, clearRun, tasks>>

\* ... after the locks are released and the packet is sent.
TunHandshake ==
  /\ tun.phase = "handshake"
  /\ DoHandshake(tun.peer)
  /\ tun' = TunIdle
  /\ UNCHANGED <<tunFrame, queue>>

TunNext == (\E p \in Peers : TunLookup(p)) \/ TunSends \/ TunEnqueues \/ TunHandshake

-----------------------------------------------------------------------------
(* The timers that end handshakes and sessions.                            *)

timerFrame == <<mapVars, infoVars, key, tasks, rx, tun, cfg>>

\* The delay of stop_handshake is over: it is de-activated, its action starts.
StopFires(p) ==
  /\ stopArmed[p] /\ stopRun[p] = "idle" /\ Alive(p)
  /\ stopArmed' = [stopArmed EXCEPT ![p] = FALSE]
  /\ stopRun' = [stopRun EXCEPT ![p] = "scope"]
  /\ UNCHANGED <<timerFrame, idVars, handshake, scope, transports, queue,
                 clearArmed, clearRun>>

\* stop_handshake takes the write lock once to drop the scope ...
StopScope(p) ==
  /\ stopRun[p] = "scope"
  /\ scope' = [scope EXCEPT ![p] = NoScope]
  /\ stopRun' = [stopRun EXCEPT ![p] = "handshake"]
  /\ UNCHANGED <<timerFrame, idVars, handshake, transports, queue,
                 stopArmed, clearArmed, clearRun>>

\* ... and once more to drop the handshake.
StopHandshake(p) ==
  /\ stopRun[p] = "handshake"
  /\ handshake' = [handshake EXCEPT ![p] = NoHandshake]
  /\ DropGuards(id_map, GuardsOf(handshake[p], << >>))
  /\ stopRun' = [stopRun EXCEPT ![p] = "idle"]
  /\ UNCHANGED <<timerFrame, scope, transports, queue, stopArmed, clearArmed,
                 clearRun>>

\* The delay of the clear timer is over.
ClearFires(p) ==
  /\ clearArmed[p] /\ ~clearRun[p] /\ Alive(p)
  /\ clearArmed' = [clearArmed EXCEPT ![p] = FALSE]
  /\ clearRun' = [clearRun EXCEPT ![p] = TRUE]
  /\ UNCHANGED <<timerFrame, idVars, handshake, scope, transports, queue,
                 stopArmed, stopRun>>

\* The action of the clear timer.
ClearPeer(p) ==
  /\ clearRun[p]
  /\ Clear(p)
  /\ clearRun' = [clearRun EXCEPT ![p] = FALSE]
  /\ UNCHANGED <<timerFrame, stopArmed, stopRun>>

TimerNext == \E p \in Peers :
  StopFires(p) \/ StopScope(p) \/ StopHandshake(p) \/ ClearFires(p) \/ ClearPeer(p)

\* A spawned removal of an identifier whose guard found id_map locked.
DeferredRemoval(i) ==
  /\ i \in pendingRemoval
  /\ id_map' = [id_map EXCEPT ![i] = NoPeer]
  /\ pendingRemoval' = pendingRemoval \ {i}
  /\ UNCHANGED <<timerFrame, timerVars, handshake, scope, transports, queue>>

-----------------------------------------------------------------------------
(* The configuration commands.                                             *)

cfgFrame == <<tasks, rx, tun>>

peerFrame == <<idVars, handshake, scope, transports, queue, timerVars>>

\* add_peer.
AddPeer(p) ==
  /\ cfg = CfgIdle
  /\ p \notin added
  /\ pubkey_map[KeyOf[p]] = NoPeer
  /\ added' = added \cup {p}
  /\ pubkey_map' = [pubkey_map EXCEPT ![KeyOf[p]] = p]
  /\ UNCHANGED <<cfgFrame, peerFrame, infoVars, key, cfg>>

\* set_peer: a preshared key that differs clears the peer; an endpoint may be
\* given.  (Keepalive and allowed IPs are not part of this module.)
SetPeer(k, newPsk, withEndpoint) ==
  LET p == pubkey_map[k] IN
  /\ cfg = CfgIdle
  /\ p # NoPeer
  /\ psk' = [psk EXCEPT ![p] = newPsk]
  /\ endpoint' = [endpoint EXCEPT ![p] = @ \/ withEndpoint]
  /\ IF psk[p] = newPsk
     THEN UNCHANGED peerFrame
     ELSE Clear(p) /\ UNCHANGED <<stopArmed, stopRun, clearRun>>
  /\ UNCHANGED <<cfgFrame, mapVars, key, cfg>>

\* set_key: write locks info, then clears the peers of pubkey_map one by one,
\* then changes the key.
SetKeyBegins ==
  /\ cfg = CfgIdle /\ ~InfoReadLocked
  /\ cfg' = [op |-> "set_key",
             todo |-> {pubkey_map[k] : k \in PublicKeys} \ {NoPeer}]
  /\ UNCHANGED <<cfgFrame, peerFrame, mapVars, infoVars, key>>

SetKeyClears(p) ==
  /\ cfg.op = "set_key"
  /\ p \in cfg.todo
  /\ Clear(p)
  /\ cfg' = [op |-> "set_key", todo |-> cfg.todo \ {p}]
  /\ UNCHANGED <<cfgFrame, mapVars, infoVars, key, stopArmed, stopRun, clearRun>>

SetKeyEnds(newKey) ==
  /\ cfg.op = "set_key"
  /\ cfg.todo = {}
  /\ key' = newKey
  /\ cfg' = CfgIdle
  /\ UNCHANGED <<cfgFrame, peerFrame, mapVars, infoVars>>

\* remove_peer: out of pubkey_map first, then cleared and out of the routing
\* tables under the peer's lock.
RemoveBegins(k) ==
  /\ cfg = CfgIdle
  /\ pubkey_map[k] # NoPeer
  /\ cfg' = [op |-> "remove", peer |-> pubkey_map[k]]
  /\ pubkey_map' = [pubkey_map EXCEPT ![k] = NoPeer]
  /\ UNCHANGED <<cfgFrame, peerFrame, added, infoVars, key>>

RemoveClears ==
  /\ cfg.op = "remove"
  /\ Clear(cfg.peer)
  /\ cfg' = CfgIdle
  /\ UNCHANGED <<cfgFrame, mapVars, infoVars, key, stopArmed, stopRun, clearRun>>

CfgNext ==
  \/ \E p \in Peers : AddPeer(p) \/ SetKeyClears(p)
  \/ \E k \in PublicKeys : \/ RemoveBegins(k)
                           \/ \E s \in Psks, e \in BOOLEAN : SetPeer(k, s, e)
  \/ SetKeyBegins
  \/ \E k \in InterfaceKeys : SetKeyEnds(k)
  \/ RemoveClears

-----------------------------------------------------------------------------

TaskNext ==
  \/ \E s \in Scopes : ResendIteration(s) \/ ResendEnds(s)
  \/ \E p \in Peers : TimerHandshake(p)

\* After exit nothing runs any more.
Exited == rx.phase = "exited" /\ UNCHANGED vars

Next ==
  \/ Running /\ RxNext
  \/ Running /\ TunNext
  \/ Running /\ TaskNext
  \/ Running /\ TimerNext
  \/ Running /\ \E i \in Ids : DeferredRemoval(i)
  \/ Running /\ CfgNext
  \/ Exited

Spec == Init /\ [][Next]_vars
\* A new session of p, with which on_new_transport puts the clear timer off.
NewSession(p) == (RxInitAccepted \/ RxRespCompletes) /\ rx.peer = p

\* The clear timer fires, unless new sessions put it off for ever, and its action
\* gets the peer's lock.  Nothing is assumed of stop_handshake: every packet that
\* is queued puts it off (enqueue_packet), so it may be armed and never fire.
Fairness == \A p \in Peers :
  /\ []<><<NewSession(p)>>_vars \/ WF_vars(Running /\ ClearFires(p))
  /\ WF_vars(Running /\ ClearPeer(p))

FairSpec == Spec /\ Fairness

-----------------------------------------------------------------------------
(* Properties.                                                             *)

\* The identifier of every session and handshake a peer owns leads to that
\* peer in id_map, and no removal of it is on its way: a message for a session
\* that can be used is always found.  (IdMapGuard, and the inserts into id_map
\* that the handlers and the resend task make.)
SessionsRouted == \A p \in Peers : \A i \in Guards(p) :
  id_map[i] = p /\ i \notin pendingRemoval

\* A handshake attempt that is going on has a stop_handshake timer that is
\* armed, or an action of it that has yet to drop the scope: whichever way
\* do_handshake, the timer and the handlers interleave, an attempt never goes
\* on without an end (REKEY_ATTEMPT_TIME).
AttemptsBounded == \A p \in Peers :
  scope[p] # NoScope => stopArmed[p] \/ stopRun[p] = "scope"

\* A peer with sessions has a clear timer that is armed, or an action of it
\* that is about to run: session keys are always erased in the end, even when
\* clear, set_peer and new sessions race with the timer.
SessionsBounded == \A p \in Peers :
  transports[p] # << >> => clearArmed[p] \/ clearRun[p]

\* The handshake and the sessions of a configured peer were all made with the
\* interface key in use: set_key leaves none behind, and no handler or resend
\* task that has begun under the old key adds one ("All existing sessions and
\* handshakes will be cleared", set_key).
KeysCurrent == \A k \in PublicKeys : LET p == pubkey_map[k] IN
  p # NoPeer =>
    /\ handshake[p] # NoHandshake => handshake[p].key = key
    /\ \A n \in DOMAIN transports[p] : transports[p][n].key = key

\* Every attempt comes to an end, also one that stop_handshake never ends because
\* packets for a silent peer are queued all the time: by success, or at the latest by
\* the clear timer, which do_handshake arms with it and nothing but a new session
\* puts off; unless the peer or the process is gone.
AttemptsEnd == \A p \in Peers : \A s \in Scopes :
  scope[p] = s ~> (scope[p] # s \/ ~Alive(p) \/ ~Running)

-----------------------------------------------------------------------------
(* What an assertion of the code says, and the code does not keep. *)

\* The unwrap of udp_process_handshake_resp asserts that the handshake it has
\* checked under the read lock is there under the write lock.
HandshakeStillThere ==
  rx.phase = "resp_inserted" => handshake[rx.peer] # NoHandshake

=============================================================================
