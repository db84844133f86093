----------------------------- MODULE Handshake -----------------------------
(* The handshake of two WireGuard nodes over a network that loses, duplicates,
   delays and reorders messages, while nodes restart (src/wireguard/handshake.rs,
   cookie.rs, and the message handlers of state.rs).  PeerSession has the same
   handlers inside one node, with its threads and locks; here a handler is one
   step and what matters is what the two nodes make of each other's messages.

   The cryptography is ideal.  A message is a record that nobody can make but its
   sender; it is identified by its ephemeral key, which is also the index its
   sender chose.  Being under load is a choice made for every message.  *)
EXTENDS Integers, Sequences, FiniteSets, Functions

CONSTANTS Nodes,         \* the two nodes
          MaxTransports, \* capacity of PeerState.transports
          MaxClock,      \* bound: ticks of the truncated clock
          MaxId,         \* bound: ephemeral keys
          MaxEvents,     \* bound: timers that fire, restarts and new secrets
          None           \* nothing

ASSUME HandshakeAssumption ==
  /\ Cardinality(Nodes) = 2
  /\ {MaxTransports, MaxClock, MaxId} \subseteq Nat \ {0} /\ MaxEvents \in Nat
  /\ None \notin Nat

ASSUME NodesAssumption == IsFiniteSet(Nodes)

ASSUME NoneAssumption == None \notin [secret : Nat, mac1 : Nat]

VARIABLES clock,          \* TAI64N::now(), in units of TIMESTAMP_PRECISION
          fresh,          \* the next ephemeral key
          handshake,      \* PeerState.handshake: its ephemeral key
          last_handshake, \* PeerState.last_handshake: a timestamp
          last_mac1,      \* PeerState.last_mac1: the message it is of
          cookie,         \* PeerState.cookie, while younger than 120 seconds: the
                          \* secret it is of; and, history, the message it answers
          secret,         \* WgState.cookie_secret: the how-manieth
          transports,     \* PeerState.transports, newest first
          life,           \* how often the node has been started
          net,            \* every message sent; any may arrive, at any time, again
          events,         \* timers that fired, restarts and new secrets
          made            \* history: the keys of the sessions of each node, in order

vars == <<clock, fresh, handshake, last_handshake, last_mac1, cookie, secret,
          transports, life, net, events, made>>

Peer(n) == CHOOSE m \in Nodes : m # n

Ids == 1..MaxId
Cookies == 1..MaxEvents + 1

\* The key of a session: the ephemeral keys of initiator and responder.
Transports == [key : Ids \X Ids, is_initiator : BOOLEAN, has_received : BOOLEAN]

Messages ==
  [type : {"init"}, from : Nodes, id : Ids, timestamp : 1..MaxClock, mac2 : Cookies \cup {None}]
  \cup [type : {"resp"}, from : Nodes, id : Ids, to : Ids, mac2 : Cookies \cup {None}, life : 1..MaxEvents + 1]
  \cup [type : {"cookie"}, from : Nodes, to : Ids, mac1 : Ids, cookie : Cookies]
  \cup [type : {"data"}, from : Nodes, to : Ids, key : Ids \X Ids]

TypeOK ==
  /\ clock \in 1..MaxClock
  /\ fresh \in 1..MaxId + 1
  /\ handshake \in [Nodes -> Ids \cup {None}]
  /\ last_handshake \in [Nodes -> 0..MaxClock]
  /\ last_mac1 \in [Nodes -> Ids \cup {None}]
  /\ cookie \in [Nodes -> [secret : Cookies, mac1 : Ids] \cup {None}]
  /\ secret \in [Nodes -> Cookies]
  /\ transports \in [Nodes -> Seq(Transports)]
  /\ \A n \in Nodes : Len(transports[n]) <= MaxTransports
  /\ life \in [Nodes -> 1..MaxEvents + 1]
  /\ net \subseteq Messages
  /\ events \in 0..MaxEvents
  /\ \A n \in Nodes : secret[n] <= events + 1 /\ life[n] <= events + 1
  /\ made \in [Nodes -> Seq(Ids \X Ids)]

Init ==
  /\ clock = 1 /\ fresh = 1
  /\ handshake = [n \in Nodes |-> None]
  /\ last_handshake = [n \in Nodes |-> 0]
  /\ last_mac1 = [n \in Nodes |-> None]
  /\ cookie = [n \in Nodes |-> None]
  /\ secret = [n \in Nodes |-> 1]
  /\ transports = [n \in Nodes |-> << >>]
  /\ life = [n \in Nodes |-> 1]
  /\ net = {} /\ events = 0
  /\ made = [n \in Nodes |-> << >>]

Send(m) == net' = net \cup {m}

\* The messages that may arrive at n.
Arriving(n, type) == {m \in net : m.type = type /\ m.from = Peer(n)}

\* The identifier by which the peer refers to a session of n.
SelfId(t) == IF t.is_initiator THEN t.key[1] ELSE t.key[2]
PeerId(t) == IF t.is_initiator THEN t.key[2] ELSE t.key[1]

\* find_peer_by_id.
Known(n, id) == handshake[n] = id \/ \E t \in Range(transports[n]) : SelfId(t) = id

\* The newest of the sessions: the oldest goes when there are too many.
Newest(all) == SubSeq(all, 1, IF Len(all) > MaxTransports THEN MaxTransports ELSE Len(all))

\* push_transport.
Push(n, key, is_initiator) ==
  LET t == [key |-> key, is_initiator |-> is_initiator, has_received |-> FALSE]
  IN /\ transports' = [transports EXCEPT ![n] = Newest(<<t>> \o transports[n])]
     /\ made' = [made EXCEPT ![n] = Append(@, key)]

-----------------------------------------------------------------------------
(* Messages of the handshake. *)

\* The mac2 of cookie_sign.
Signature(n) == IF cookie[n] = None THEN None ELSE cookie[n].secret

\* Truncated: initiations of the same 50 microseconds have the same.
Timestamp == clock

\* An initiation of do_handshake or of its resend task, signed with a cookie if
\* there is one.  It takes the place of the one before.
Initiate(n) ==
  /\ fresh <= MaxId
  /\ fresh' = fresh + 1
  /\ Send([type |-> "init", from |-> n, id |-> fresh, timestamp |-> Timestamp, mac2 |-> Signature(n)])
  /\ handshake' = [handshake EXCEPT ![n] = fresh]
  /\ last_mac1' = [last_mac1 EXCEPT ![n] = fresh]
  /\ UNCHANGED <<clock, last_handshake, cookie, secret, transports, life, events, made>>

\* Under load a message whose mac2 was not made with the cookie of the current
\* secret gets a cookie reply, encrypted with the mac1 of the message.
CookieReply(n, m) ==
  /\ m.mac2 # secret[n]
  /\ Send([type |-> "cookie", from |-> n, to |-> m.id, mac1 |-> m.id, cookie |-> secret[n]])
  /\ UNCHANGED <<clock, fresh, handshake, last_handshake, last_mac1, cookie,
                 secret, transports, life, events, made>>

NewTimestamp_Equal(n, m) == m.timestamp >= last_handshake[n]

NewTimestamp_Other(n, m) == m.timestamp # last_handshake[n]

NewTimestamp(n, m) == m.timestamp > last_handshake[n]

\* A new initiation is answered, and is a session at once.
Respond(n, m) ==
  /\ NewTimestamp(n, m)
  /\ last_handshake' = [last_handshake EXCEPT ![n] = m.timestamp]
  /\ fresh <= MaxId
  /\ fresh' = fresh + 1
  /\ last_mac1' = [last_mac1 EXCEPT ![n] = fresh]
  /\ Send([type |-> "resp", from |-> n, id |-> fresh, to |-> m.id, mac2 |-> Signature(n), life |-> life[n]])
  /\ Push(n, <<m.id, fresh>>, FALSE)
  /\ handshake' = [handshake EXCEPT ![n] = None]
  /\ UNCHANGED <<clock, cookie, secret, life, events>>

\* udp_process_handshake_init.
ReceiveInit(n, m) == CookieReply(n, m) \/ Respond(n, m)

AfterResponse_Kept(n) == handshake

\* The handshake state is taken: it is used once.
AfterResponse(n) == [handshake EXCEPT ![n] = None]

\* The response to the initiation in hand makes a session.
Finish(n, m) ==
  /\ handshake[n] = m.to
  /\ Push(n, <<m.to, m.id>>, TRUE)
  /\ handshake' = AfterResponse(n)
  /\ UNCHANGED <<clock, fresh, last_handshake, last_mac1, cookie, secret, life, net, events>>

\* udp_process_handshake_resp.
ReceiveResp(n, m) == CookieReply(n, m) \/ Finish(n, m)

OfLastMac1_Any(n, m) == last_mac1[n] # None

OfLastMac1(n, m) == last_mac1[n] = m.mac1

\* udp_process_cookie_reply: it decrypts with the mac1 of the last message only.
ReceiveCookie(n, m) ==
  /\ Known(n, m.to)
  /\ OfLastMac1(n, m)
  /\ cookie' = [cookie EXCEPT ![n] = [secret |-> m.cookie, mac1 |-> m.mac1]]
  /\ UNCHANGED <<clock, fresh, handshake, last_handshake, last_mac1, secret,
                 transports, life, net, events, made>>

-----------------------------------------------------------------------------
(* Transport messages: only that they are sent and decrypted. *)

ShouldSend_Unconfirmed(t) == TRUE

\* get_should_send.
ShouldSend(t) == t.is_initiator \/ t.has_received

\* A packet or a keepalive, with the newest session that may send.
SendData(n) ==
  \E i \in DOMAIN transports[n] :
    /\ ShouldSend(transports[n][i])
    /\ \A j \in 1..i - 1 : ~ShouldSend(transports[n][j])
    /\ Send([type |-> "data", from |-> n, to |-> PeerId(transports[n][i]), key |-> transports[n][i].key])
    /\ UNCHANGED <<clock, fresh, handshake, last_handshake, last_mac1, cookie,
                   secret, transports, life, events, made>>

ReceiveData(n, m) ==
  \E i \in DOMAIN transports[n] :
    /\ SelfId(transports[n][i]) = m.to /\ transports[n][i].key = m.key
    /\ transports' = [transports EXCEPT ![n][i].has_received = TRUE]
    /\ UNCHANGED <<clock, fresh, handshake, last_handshake, last_mac1, cookie,
                   secret, life, net, events, made>>

-----------------------------------------------------------------------------
(* Time, timers and restarts. *)

Event == events < MaxEvents /\ events' = events + 1

Tick ==
  /\ clock < MaxClock
  /\ clock' = clock + 1
  /\ UNCHANGED <<fresh, handshake, last_handshake, last_mac1, cookie, secret,
                 transports, life, net, events, made>>

\* get_cookie: 120 seconds after it was received.
CookieExpires(n) ==
  /\ Event
  /\ cookie[n] # None
  /\ cookie' = [cookie EXCEPT ![n] = None]
  /\ UNCHANGED <<clock, fresh, handshake, last_handshake, last_mac1, secret,
                 transports, life, net, made>>

\* task_update_cookie_secret.
UpdateSecret(n) ==
  /\ Event
  /\ secret' = [secret EXCEPT ![n] = @ + 1]
  /\ UNCHANGED <<clock, fresh, handshake, last_handshake, last_mac1, cookie,
                 transports, life, net, made>>

\* The timer stop_handshake, or with `all` the timer clear.
Timers(n, all) ==
  /\ Event
  /\ handshake' = [handshake EXCEPT ![n] = None]
  /\ transports' = IF all THEN [transports EXCEPT ![n] = << >>] ELSE transports
  /\ UNCHANGED <<clock, fresh, last_handshake, last_mac1, cookie, secret, life, net, made>>

\* Everything is in memory; a new process draws a new cookie secret.
Restart(n) ==
  /\ Event
  /\ life' = [life EXCEPT ![n] = @ + 1]
  /\ secret' = [secret EXCEPT ![n] = @ + 1]
  /\ handshake' = [handshake EXCEPT ![n] = None]
  /\ last_handshake' = [last_handshake EXCEPT ![n] = 0]
  /\ last_mac1' = [last_mac1 EXCEPT ![n] = None]
  /\ cookie' = [cookie EXCEPT ![n] = None]
  /\ transports' = [transports EXCEPT ![n] = << >>]
  /\ UNCHANGED <<clock, fresh, net, made>>

Next ==
  \/ Tick
  \/ \E n \in Nodes :
       \/ Initiate(n) \/ SendData(n) \/ CookieExpires(n) \/ UpdateSecret(n) \/ Restart(n)
       \/ \E all \in BOOLEAN : Timers(n, all)
       \/ \E m \in Arriving(n, "init") : ReceiveInit(n, m)
       \/ \E m \in Arriving(n, "resp") : ReceiveResp(n, m)
       \/ \E m \in Arriving(n, "cookie") : ReceiveCookie(n, m)
       \/ \E m \in Arriving(n, "data") : ReceiveData(n, m)

Spec == Init /\ [][Next]_vars

-----------------------------------------------------------------------------
\* Whatever arrives twice, late or after a restart, no two sessions of a node have
\* the same key: their counters both start at zero (the handshake is taken when
\* its response is processed, and a responder draws an ephemeral key).
NoKeyReuse == \A n \in Nodes : IsInjective(made[n])

\* While a node keeps the state of its peer it answers an initiation once at most
\* (last_handshake).
AnsweredOnce ==
  \A r, s \in {m \in net : m.type = "resp"} :
    r.from = s.from /\ r.to = s.to /\ r.life = s.life => r = s

\* The sessions that a node has as responder are in the order in which their
\* initiations were made, whatever the order in which they arrived: a delayed
\* initiation does not displace a newer session (last_handshake).
InOrder ==
  \A n \in Nodes : \A i, j \in DOMAIN transports[n] :
    i < j /\ ~transports[n][i].is_initiator /\ ~transports[n][j].is_initiator
      => transports[n][i].key[1] >= transports[n][j].key[1]

\* What a node sends on a session its peer can decrypt, or could until it dropped
\* the session: in particular nothing is sent on the session that a replayed
\* initiation makes after a restart (get_should_send, has_received).
SentOnCommonKey ==
  \A m \in net : m.type = "data" => m.key \in Range(made[Peer(m.from)])

\* The cookie that an earlier message was answered with, delayed, does not take the
\* place of a newer one (the mac1 that encrypts the reply, last_mac1).
CookieInOrder ==
  [][\A n \in Nodes :
       cookie[n] # None /\ cookie'[n] # None => cookie'[n].mac1 >= cookie[n].mac1]_vars
=============================================================================
