-------------------------- MODULE Handshake_proof --------------------------
(* For any number of ephemeral keys, timestamps and events: no session key  *)
(* is used twice, an initiation is answered once, what arrives late takes   *)
(* the place of no newer session or cookie, and nothing is sent with a key  *)
(* the peer never had.                                                      *)
EXTENDS Handshake, SequenceTheorems, FiniteSetTheorems, TLAPS

USE HandshakeAssumption DEF HandshakeAssumption

InitMessages ==
  [type : {"init"}, from : Nodes, id : Ids, timestamp : 1..MaxClock, mac2 : Cookies \cup {None}]
RespMessages ==
  [type : {"resp"}, from : Nodes, id : Ids, to : Ids, mac2 : Cookies \cup {None}, life : 1..MaxEvents + 1]
CookieMessages == [type : {"cookie"}, from : Nodes, to : Ids, mac1 : Ids, cookie : Cookies]
DataMessages == [type : {"data"}, from : Nodes, to : Ids, key : Ids \X Ids]

\* What is known of a message by its type.
LEMMA MessageTypes ==
  /\ Messages = InitMessages \cup RespMessages \cup CookieMessages \cup DataMessages
  /\ \A m \in Messages :
       /\ m.type = "init" => m \in InitMessages
       /\ m.type = "resp" => m \in RespMessages
       /\ m.type = "cookie" => m \in CookieMessages
       /\ m.type = "data" => m \in DataMessages
<1>1. Messages = InitMessages \cup RespMessages \cup CookieMessages \cup DataMessages
  BY DEF Messages, InitMessages, RespMessages, CookieMessages, DataMessages
<1>2. QED
  BY <1>1 DEF InitMessages, RespMessages, CookieMessages, DataMessages

LEMMA ArrivingTypes ==
  ASSUME TypeOK, NEW n \in Nodes
  PROVE  /\ \A m \in Arriving(n, "init") : m \in net /\ m \in InitMessages
         /\ \A m \in Arriving(n, "resp") : m \in net /\ m \in RespMessages
         /\ \A m \in Arriving(n, "cookie") : m \in net /\ m \in CookieMessages
         /\ \A m \in Arriving(n, "data") : m \in net /\ m \in DataMessages
BY MessageTypes DEF TypeOK, Arriving

LEMMA SignatureType ==
  ASSUME TypeOK, NEW n \in Nodes
  PROVE  Signature(n) \in Cookies \cup {None}
BY DEF TypeOK, Signature

\* What is left of a sequence with one more element in front of it.
LEMMA NewestProperties ==
  ASSUME NEW S, NEW q \in Seq(S), NEW t \in S, NEW r, r = Newest(<<t>> \o q)
  PROVE  /\ r \in Seq(S) /\ Len(r) \in 1..MaxTransports
         /\ r[1] = t
         /\ \A i \in 2..Len(r) : i - 1 \in DOMAIN q /\ r[i] = q[i - 1]
<1> DEFINE all == <<t>> \o q
<1> DEFINE l == IF Len(all) > MaxTransports THEN MaxTransports ELSE Len(all)
<1>1. /\ all \in Seq(S) /\ Len(all) = 1 + Len(q) /\ Len(q) \in Nat
      /\ \A i \in 1..1 + Len(q) : all[i] = IF i <= 1 THEN t ELSE q[i - 1]
  <2>1. <<t>> \in Seq(S) /\ Len(<<t>>) = 1 /\ <<t>>[1] = t
    OBVIOUS
  <2>2. Len(q) \in Nat
    BY LenProperties
  <2>3. /\ all \in Seq(S) /\ Len(all) = 1 + Len(q)
        /\ \A i \in 1..1 + Len(q) : all[i] = IF i <= 1 THEN <<t>>[i] ELSE q[i - 1]
    <3>1. /\ all \in Seq(S) /\ Len(all) = Len(<<t>>) + Len(q)
          /\ \A i \in 1..Len(<<t>>) + Len(q) :
               all[i] = IF i <= Len(<<t>>) THEN <<t>>[i] ELSE q[i - Len(<<t>>)]
      BY <2>1, ConcatProperties, Zenon
    <3>2. QED
      BY <2>1, <3>1, Zenon
  <2>4. QED
    BY <2>1, <2>2, <2>3
<1>2. l \in 1..Len(all) /\ l <= MaxTransports
  BY <1>1
<1> HIDE DEF all, l
<1>3. \A i \in 1..l : all[i] \in S
  BY <1>1, <1>2, LenProperties
<1>4. /\ SubSeq(all, 1, l) \in Seq(S)
      /\ Len(SubSeq(all, 1, l)) = l
      /\ \A i \in 1..l : SubSeq(all, 1, l)[i] = all[i]
  BY <1>2, <1>3, <1>1, SubSeqProperties
<1>5. r = SubSeq(all, 1, l)
  BY DEF Newest, l, all
<1>6. \A i \in 2..l : i - 1 \in DOMAIN q
  BY <1>1, <1>2, LenProperties
<1>7. r[1] = t
  BY <1>1, <1>2, <1>4, <1>5
<1>8. Len(r) = l /\ l \in 1..MaxTransports
  BY <1>1, <1>2, <1>4, <1>5
<1>9. \A i \in 2..l : i - 1 \in DOMAIN q /\ r[i] = q[i - 1]
  <2> SUFFICES ASSUME NEW i \in 2..l PROVE i - 1 \in DOMAIN q /\ r[i] = q[i - 1]
    OBVIOUS
  <2>1. i \in 1..l /\ i \in 1..1 + Len(q) /\ ~(i <= 1)
    BY <1>1, <1>2
  <2>2. QED
    BY <2>1, <1>1, <1>4, <1>5, <1>6
<1>10. QED
  BY <1>4, <1>5, <1>7, <1>8, <1>9

\* And of one with one more at the end.
LEMMA Appended ==
  ASSUME NEW S, NEW q \in Seq(S), NEW t \in S
  PROVE  /\ Append(q, t) \in Seq(S)
         /\ DOMAIN Append(q, t) = 1..Len(q) + 1
         /\ \A i \in 1..Len(q) : i \in DOMAIN q /\ Append(q, t)[i] = q[i]
         /\ Append(q, t)[Len(q) + 1] = t
         /\ Len(q) \in Nat /\ DOMAIN q = 1..Len(q)
BY LenProperties, AppendProperties

LEMMA PushTypes ==
  ASSUME TypeOK, NEW n \in Nodes, NEW key \in Ids \X Ids, NEW b \in BOOLEAN, Push(n, key, b)
  PROVE  /\ transports' \in [Nodes -> Seq(Transports)]
         /\ \A k \in Nodes : Len(transports'[k]) <= MaxTransports
         /\ made' \in [Nodes -> Seq(Ids \X Ids)]
<1> DEFINE t == [key |-> key, is_initiator |-> b, has_received |-> FALSE]
<1>1. t \in Transports
  BY DEF Transports
<1>2. transports[n] \in Seq(Transports) /\ made[n] \in Seq(Ids \X Ids)
  BY DEF TypeOK
<1> DEFINE q == Newest(<<t>> \o transports[n])
<1>4. transports' = [transports EXCEPT ![n] = q]
  BY DEF Push
<1> HIDE DEF t
<1>3. q \in Seq(Transports) /\ Len(q) \in 1..MaxTransports
  BY <1>1, <1>2, NewestProperties
<1> HIDE DEF q
<1>5. Append(made[n], key) \in Seq(Ids \X Ids)
  BY <1>2, Appended
<1>6. made' = [made EXCEPT ![n] = Append(made[n], key)]
  BY DEF Push
<1>7. transports' \in [Nodes -> Seq(Transports)]
  BY <1>3, <1>4 DEF TypeOK
<1>8. \A k \in Nodes : Len(transports'[k]) <= MaxTransports
  <2> SUFFICES ASSUME NEW k \in Nodes PROVE Len(transports'[k]) <= MaxTransports
    OBVIOUS
  <2>1. CASE k = n
    BY <2>1, <1>3, <1>4 DEF TypeOK
  <2>2. CASE k # n
    BY <2>2, <1>4 DEF TypeOK
  <2>3. QED
    BY <2>1, <2>2
<1>9. QED
  BY <1>5, <1>6, <1>7, <1>8 DEF TypeOK

\* A node's counter moves with that of the events.
LEMMA Counted ==
  ASSUME NEW f \in [Nodes -> 1..MaxEvents + 1], NEW e \in 0..MaxEvents, e < MaxEvents,
         \A k \in Nodes : f[k] <= e + 1, NEW n \in Nodes,
         NEW g, g = f \/ g = [f EXCEPT ![n] = f[n] + 1]
  PROVE  /\ g \in [Nodes -> 1..MaxEvents + 1]
         /\ \A k \in Nodes : g[k] <= (e + 1) + 1
<1>0. MaxEvents \in Nat
  OBVIOUS
<1>1. \A k \in Nodes : f[k] \in 1..MaxEvents + 1
  OBVIOUS
<1>2. CASE g = f
  BY <1>0, <1>1, <1>2
<1>3. CASE g = [f EXCEPT ![n] = f[n] + 1]
  <2>1. f[n] + 1 \in 1..MaxEvents + 1 /\ f[n] + 1 <= (e + 1) + 1
    BY <1>0, <1>1
  <2>2. \A k \in Nodes : g[k] = IF k = n THEN f[n] + 1 ELSE f[k]
    BY <1>3
  <2>3. g \in [Nodes -> 1..MaxEvents + 1]
    BY <1>3, <2>1
  <2>4. \A k \in Nodes : g[k] <= (e + 1) + 1
    BY <1>0, <1>1, <2>1, <2>2
  <2>5. QED
    BY <2>3, <2>4
<1>4. QED
  BY <1>2, <1>3

LEMMA EventCounted ==
  ASSUME TypeOK, Event, secret' = secret, life' = life
  PROVE  /\ events' \in 0..MaxEvents
         /\ \A k \in Nodes : secret'[k] <= events' + 1 /\ life'[k] <= events' + 1
<1>1. MaxEvents \in Nat /\ events \in 0..MaxEvents /\ events < MaxEvents /\ events' = events + 1
  BY DEF TypeOK, Event
<1>2. \A k \in Nodes : secret[k] \in Nat /\ life[k] \in Nat /\ secret[k] <= events + 1 /\ life[k] <= events + 1
  BY DEF TypeOK, Cookies
<1>3. QED
  BY <1>1, <1>2

LEMMA Emptied ==
  ASSUME TypeOK, NEW n \in Nodes,
         transports' = transports \/ transports' = [transports EXCEPT ![n] = << >>]
  PROVE  /\ transports' \in [Nodes -> Seq(Transports)]
         /\ \A k \in Nodes : Len(transports'[k]) <= MaxTransports
<1>1. << >> \in Seq(Transports) /\ Len(<< >>) <= MaxTransports
  OBVIOUS
<1>2. transports \in [Nodes -> Seq(Transports)] /\ \A k \in Nodes : Len(transports[k]) <= MaxTransports
  BY DEF TypeOK
<1>3. CASE transports' = transports
  BY <1>2, <1>3
<1>4. CASE transports' = [transports EXCEPT ![n] = << >>]
  BY <1>1, <1>2, <1>4
<1>5. QED
  BY <1>3, <1>4

LEMMA TypeInit == Init => TypeOK
<1> SUFFICES ASSUME Init PROVE TypeOK
  OBVIOUS
<1> USE DEF Init
<1>1. transports \in [Nodes -> Seq(Transports)] /\ \A n \in Nodes : Len(transports[n]) <= MaxTransports
  OBVIOUS
<1>2. made \in [Nodes -> Seq(Ids \X Ids)]
  OBVIOUS
<1>3. QED
  BY <1>1, <1>2 DEF TypeOK, Ids, Cookies

LEMMA TypeNext == TypeOK /\ [Next]_vars => TypeOK'
<1> SUFFICES ASSUME TypeOK, [Next]_vars PROVE TypeOK'
  OBVIOUS
<1>0. /\ MaxClock \in Nat \ {0} /\ MaxId \in Nat \ {0} /\ MaxEvents \in Nat
  OBVIOUS
<1>1. CASE Tick
  BY <1>1 DEF Tick, TypeOK
<1>2. ASSUME NEW n \in Nodes, Initiate(n) PROVE TypeOK'
  <2>1. fresh \in Ids /\ fresh + 1 \in 1..MaxId + 1
    BY <1>2 DEF Initiate, TypeOK, Ids
  <2> DEFINE m == [type |-> "init", from |-> n, id |-> fresh, timestamp |-> Timestamp, mac2 |-> Signature(n)]
  <2>2. m \in Messages
    BY <2>1, SignatureType, MessageTypes DEF InitMessages, Timestamp, TypeOK
  <2>3. net' \subseteq Messages
    BY <1>2, <2>2 DEF Initiate, Send, TypeOK
  <2>4. QED
    BY <1>2, <2>1, <2>3 DEF Initiate, TypeOK
<1>3. ASSUME NEW n \in Nodes, SendData(n) PROVE TypeOK'
  <2>1. PICK i \in DOMAIN transports[n] :
          /\ Send([type |-> "data", from |-> n, to |-> PeerId(transports[n][i]), key |-> transports[n][i].key])
          /\ UNCHANGED <<clock, fresh, handshake, last_handshake, last_mac1, cookie,
                         secret, transports, life, events, made>>
    BY <1>3 DEF SendData
  <2>2. transports[n][i] \in Transports
    BY LenProperties DEF TypeOK
  <2>3. [type |-> "data", from |-> n, to |-> PeerId(transports[n][i]), key |-> transports[n][i].key] \in Messages
    BY <2>2, MessageTypes DEF DataMessages, Transports, PeerId
  <2>4. net' \subseteq Messages
    BY <2>1, <2>3 DEF Send, TypeOK
  <2>5. QED
    BY <2>1, <2>4 DEF TypeOK
<1>4. ASSUME NEW n \in Nodes, CookieExpires(n) PROVE TypeOK'
  <2>1. cookie' \in [Nodes -> [secret : Cookies, mac1 : Ids] \cup {None}]
    BY <1>4 DEF CookieExpires, TypeOK
  <2>2. /\ events' \in 0..MaxEvents
        /\ \A k \in Nodes : secret'[k] <= events' + 1 /\ life'[k] <= events' + 1
    BY <1>4, EventCounted DEF CookieExpires
  <2>3. UNCHANGED <<clock, fresh, handshake, last_handshake, last_mac1, secret, transports, life, net, made>>
    BY <1>4 DEF CookieExpires
  <2>4. QED
    BY <2>1, <2>2, <2>3 DEF TypeOK
<1>5. ASSUME NEW n \in Nodes, UpdateSecret(n) \/ Restart(n) PROVE TypeOK'
  <2>1. /\ events' = events + 1 /\ events < MaxEvents
        /\ secret' = [secret EXCEPT ![n] = secret[n] + 1]
        /\ life' = life \/ life' = [life EXCEPT ![n] = life[n] + 1]
    BY <1>5 DEF UpdateSecret, Restart, Event
  <2>2. events \in 0..MaxEvents /\ secret \in [Nodes -> 1..MaxEvents + 1] /\ life \in [Nodes -> 1..MaxEvents + 1]
    BY DEF TypeOK, Cookies
  <2>3. \A k \in Nodes : secret[k] <= events + 1 /\ life[k] <= events + 1
    BY DEF TypeOK
  <2>4. /\ secret' \in [Nodes -> Cookies]
        /\ \A k \in Nodes : secret'[k] <= events' + 1
    BY <2>1, <2>2, <2>3, Counted DEF Cookies
  <2>5. /\ life' \in [Nodes -> 1..MaxEvents + 1]
        /\ \A k \in Nodes : life'[k] <= events' + 1
    BY <2>1, <2>2, <2>3, Counted
  <2>6. events' \in 0..MaxEvents
    BY <2>1, <2>2, <1>0
  <2>7. /\ transports' \in [Nodes -> Seq(Transports)]
        /\ \A k \in Nodes : Len(transports'[k]) <= MaxTransports
    <3>1. \/ transports' = transports
          \/ transports' = [transports EXCEPT ![n] = << >>]
      BY <1>5 DEF UpdateSecret, Restart
    <3>2. QED
      BY <3>1, Emptied
  <2>8. /\ handshake' \in [Nodes -> Ids \cup {None}]
        /\ last_handshake' \in [Nodes -> 0..MaxClock]
        /\ last_mac1' \in [Nodes -> Ids \cup {None}]
        /\ cookie' \in [Nodes -> [secret : Cookies, mac1 : Ids] \cup {None}]
    <3>1. CASE UpdateSecret(n)
      BY <3>1 DEF UpdateSecret, TypeOK
    <3>2. CASE Restart(n)
      <4>1. /\ handshake' = [handshake EXCEPT ![n] = None]
            /\ last_mac1' = [last_mac1 EXCEPT ![n] = None]
            /\ cookie' = [cookie EXCEPT ![n] = None]
        BY <3>2 DEF Restart
      <4>2. last_handshake' = [last_handshake EXCEPT ![n] = 0] /\ 0 \in 0..MaxClock
        BY <1>0, <3>2 DEF Restart
      <4>3. handshake' \in [Nodes -> Ids \cup {None}] /\ last_mac1' \in [Nodes -> Ids \cup {None}]
        BY <4>1 DEF TypeOK
      <4>4. cookie' \in [Nodes -> [secret : Cookies, mac1 : Ids] \cup {None}]
        BY <4>1 DEF TypeOK
      <4>5. last_handshake' \in [Nodes -> 0..MaxClock]
        BY <4>2 DEF TypeOK
      <4>6. QED
        BY <4>3, <4>4, <4>5
    <3>3. QED
      BY <1>5, <3>1, <3>2
  <2>9. UNCHANGED <<clock, fresh, net, made>>
    BY <1>5 DEF UpdateSecret, Restart
  <2>10. QED
    BY <2>4, <2>5, <2>6, <2>7, <2>8, <2>9 DEF TypeOK
<1>6. ASSUME NEW n \in Nodes, NEW all \in BOOLEAN, Timers(n, all) PROVE TypeOK'
  <2>1. handshake' \in [Nodes -> Ids \cup {None}]
    BY <1>6 DEF Timers, TypeOK
  <2>2. /\ events' \in 0..MaxEvents
        /\ \A k \in Nodes : secret'[k] <= events' + 1 /\ life'[k] <= events' + 1
    BY <1>6, EventCounted DEF Timers
  <2>3. transports' = transports \/ transports' = [transports EXCEPT ![n] = << >>]
    BY <1>6 DEF Timers
  <2>5. transports' \in [Nodes -> Seq(Transports)] /\ \A k \in Nodes : Len(transports'[k]) <= MaxTransports
    BY <2>3, Emptied
  <2>6. UNCHANGED <<clock, fresh, last_handshake, last_mac1, cookie, secret, life, net, made>>
    BY <1>6 DEF Timers
  <2>7. QED
    <3>1. /\ clock' \in 1..MaxClock /\ fresh' \in 1..MaxId + 1
          /\ last_handshake' \in [Nodes -> 0..MaxClock]
          /\ last_mac1' \in [Nodes -> Ids \cup {None}]
      BY <2>6 DEF TypeOK
    <3>2. /\ cookie' \in [Nodes -> [secret : Cookies, mac1 : Ids] \cup {None}]
          /\ secret' \in [Nodes -> Cookies]
          /\ life' \in [Nodes -> 1..MaxEvents + 1]
      BY <2>6 DEF TypeOK
    <3>3. net' \subseteq Messages /\ made' \in [Nodes -> Seq(Ids \X Ids)]
      BY <2>6 DEF TypeOK
    <3>4. QED
      BY <2>1, <2>2, <2>5, <3>1, <3>2, <3>3 DEF TypeOK
<1>7. ASSUME NEW n \in Nodes, NEW m \in InitMessages \cup RespMessages, CookieReply(n, m) PROVE TypeOK'
  <2>1. [type |-> "cookie", from |-> n, to |-> m.id, mac1 |-> m.id, cookie |-> secret[n]] \in Messages
    BY MessageTypes DEF CookieMessages, InitMessages, RespMessages, TypeOK
  <2>2. QED
    BY <1>7, <2>1 DEF CookieReply, Send, TypeOK
<1>8. ASSUME NEW n \in Nodes, NEW m \in InitMessages, Respond(n, m) PROVE TypeOK'
  <2>1. fresh \in Ids /\ fresh + 1 \in 1..MaxId + 1 /\ m.id \in Ids
    <3>1. fresh <= MaxId
      BY <1>8 DEF Respond
    <3>2. fresh \in 1..MaxId + 1
      BY DEF TypeOK
    <3>3. m.id \in Ids
      BY DEF InitMessages
    <3>4. QED
      BY <1>0, <3>1, <3>2, <3>3 DEF Ids
  <2>2. Push(n, <<m.id, fresh>>, FALSE)
    BY <1>8 DEF Respond
  <2>3. /\ transports' \in [Nodes -> Seq(Transports)]
        /\ \A k \in Nodes : Len(transports'[k]) <= MaxTransports
        /\ made' \in [Nodes -> Seq(Ids \X Ids)]
    BY <2>1, <2>2, PushTypes
  <2>4. [type |-> "resp", from |-> n, id |-> fresh, to |-> m.id, mac2 |-> Signature(n), life |-> life[n]] \in Messages
    BY <2>1, SignatureType, MessageTypes DEF RespMessages, TypeOK
  <2>5. net' \subseteq Messages
    BY <1>8, <2>4 DEF Respond, Send, TypeOK
  <2>6. m.timestamp \in 1..MaxClock
    BY DEF InitMessages
  <2>7. QED
    <3>0. /\ handshake' = [handshake EXCEPT ![n] = None]
          /\ last_handshake' = [last_handshake EXCEPT ![n] = m.timestamp]
          /\ last_mac1' = [last_mac1 EXCEPT ![n] = fresh]
          /\ fresh' = fresh + 1
      BY <1>8 DEF Respond
    <3>1. handshake' \in [Nodes -> Ids \cup {None}] /\ last_handshake' \in [Nodes -> 0..MaxClock]
      <4>1. handshake \in [Nodes -> Ids \cup {None}] /\ last_handshake \in [Nodes -> 0..MaxClock]
        BY DEF TypeOK
      <4>2. m.timestamp \in 0..MaxClock
        BY <2>6
      <4>3. QED
        BY <3>0, <4>1, <4>2
    <3>2. last_mac1' \in [Nodes -> Ids \cup {None}] /\ fresh' \in 1..MaxId + 1
      <4>1. last_mac1 \in [Nodes -> Ids \cup {None}]
        BY DEF TypeOK
      <4>2. QED
        BY <2>1, <3>0, <4>1
    <3>3. UNCHANGED <<clock, cookie, secret, life, events>>
      BY <1>8 DEF Respond
    <3>4. QED
      BY <2>3, <2>5, <3>1, <3>2, <3>3 DEF TypeOK
<1>9. ASSUME NEW n \in Nodes, NEW m \in RespMessages, Finish(n, m) PROVE TypeOK'
  <2>1. m.id \in Ids /\ m.to \in Ids
    BY DEF RespMessages
  <2>2. Push(n, <<m.to, m.id>>, TRUE)
    BY <1>9 DEF Finish
  <2>3. /\ transports' \in [Nodes -> Seq(Transports)]
        /\ \A k \in Nodes : Len(transports'[k]) <= MaxTransports
        /\ made' \in [Nodes -> Seq(Ids \X Ids)]
    BY <2>1, <2>2, PushTypes
  <2>4. QED
    BY <1>9, <2>3 DEF Finish, AfterResponse, TypeOK
<1>10. ASSUME NEW n \in Nodes, NEW m \in CookieMessages, ReceiveCookie(n, m) PROVE TypeOK'
  BY <1>10 DEF ReceiveCookie, CookieMessages, TypeOK
<1>11. ASSUME NEW n \in Nodes, NEW m \in DataMessages, ReceiveData(n, m) PROVE TypeOK'
  <2>1. PICK i \in DOMAIN transports[n] :
          /\ transports' = [transports EXCEPT ![n][i].has_received = TRUE]
          /\ UNCHANGED <<clock, fresh, handshake, last_handshake, last_mac1, cookie,
                         secret, life, net, events, made>>
    BY <1>11 DEF ReceiveData
  <2>2. transports[n] \in Seq(Transports) /\ i \in 1..Len(transports[n]) /\ transports[n][i] \in Transports
    BY LenProperties DEF TypeOK
  <2> DEFINE t == [transports[n][i] EXCEPT !.has_received = TRUE]
  <2> DEFINE q == [transports[n] EXCEPT ![i] = t]
  <2>3. t \in Transports
    BY <2>2 DEF Transports
  <2>4. q \in Seq(Transports) /\ Len(q) = Len(transports[n])
    BY <2>2, <2>3, ExceptSeq
  <2>5. transports' = [transports EXCEPT ![n] = q]
    BY <2>1
  <2> HIDE DEF q
  <2>6. transports' \in [Nodes -> Seq(Transports)] /\ \A k \in Nodes : Len(transports'[k]) <= MaxTransports
    BY <2>4, <2>5 DEF TypeOK
  <2>7. QED
    BY <2>1, <2>6 DEF TypeOK
<1>12. CASE UNCHANGED vars
  BY <1>12 DEF vars, TypeOK
<1>13. QED
  BY ArrivingTypes, <1>1, <1>2, <1>3, <1>4, <1>5, <1>6, <1>7, <1>8, <1>9, <1>10, <1>11, <1>12
  DEF Next, ReceiveInit, ReceiveResp

\* Keys, timestamps, cookies and sessions of both nodes, and the messages between
\* them, are what the handlers of state.rs can make of them.
THEOREM TypeCorrect == Spec => []TypeOK
BY TypeInit, TypeNext, PTL DEF Spec

-----------------------------------------------------------------------------
\* Steps that make no key and answer nothing: they may only drop a handshake.
Quiet ==
  /\ UNCHANGED <<fresh, made, last_handshake, last_mac1, life>>
  /\ net \subseteq net' /\ \A m \in net' : m \in net \/ m.type \in {"cookie", "data"}
  /\ \A n \in Nodes : handshake'[n] \in {handshake[n], None}

LEMMA Steps ==
  ASSUME TypeOK, [Next]_vars
  PROVE  \/ Quiet
         \/ \E n \in Nodes : Initiate(n) \/ Restart(n)
         \/ \E n \in Nodes : \E m \in net : m \in InitMessages /\ m.from = Peer(n) /\ Respond(n, m)
         \/ \E n \in Nodes : \E m \in net : m \in RespMessages /\ Finish(n, m)
<1>1. CASE Tick \/ UNCHANGED vars
  BY <1>1 DEF Tick, vars, Quiet
<1>2. ASSUME NEW n \in Nodes, SendData(n) PROVE Quiet
  BY <1>2 DEF SendData, Send, Quiet
<1>3. ASSUME NEW n \in Nodes, CookieExpires(n) \/ UpdateSecret(n) PROVE Quiet
  BY <1>3 DEF CookieExpires, UpdateSecret, Quiet
<1>4. ASSUME NEW n \in Nodes, NEW all \in BOOLEAN, Timers(n, all) PROVE Quiet
  BY <1>4 DEF Timers, Quiet, TypeOK
<1>5. ASSUME NEW n \in Nodes, NEW m \in net, CookieReply(n, m) PROVE Quiet
  BY <1>5 DEF CookieReply, Send, Quiet
<1>6. ASSUME NEW n \in Nodes, NEW m \in net, ReceiveCookie(n, m) \/ ReceiveData(n, m) PROVE Quiet
  BY <1>6 DEF ReceiveCookie, ReceiveData, Quiet
<1>7. ASSUME NEW n \in Nodes PROVE \A m \in Arriving(n, "init") : m.from = Peer(n)
  BY DEF Arriving
<1>8. QED
  BY ArrivingTypes, <1>1, <1>2, <1>3, <1>4, <1>5, <1>6, <1>7 DEF Next, ReceiveInit, ReceiveResp

-----------------------------------------------------------------------------
(* No key twice.  Ephemeral keys are drawn in order, so that what exists is    *)
(* older than fresh.                                                          *)

FreshInv ==
  /\ \A m \in net : m.type = "init" => m.id < fresh
  /\ \A m \in net : m.type = "resp" => m.id < fresh /\ m.to < fresh
  /\ \A n \in Nodes : handshake[n] # None => handshake[n] < fresh
  /\ \A n \in Nodes : last_mac1[n] # None => last_mac1[n] < fresh
  /\ \A n \in Nodes : \A i \in DOMAIN made[n] : made[n][i][1] < fresh /\ made[n][i][2] < fresh

\* A node that has a handshake in hand has made no session of it.
UsedInv ==
  /\ \A n \in Nodes : \A i \in DOMAIN made[n] : made[n][i][1] # handshake[n]
  /\ NoKeyReuse

LEMMA KeyInit == Init => FreshInv /\ UsedInv
BY DEF Init, FreshInv, UsedInv, NoKeyReuse, IsInjective

LEMMA MadeGrows ==
  ASSUME TypeOK, NEW n \in Nodes, NEW key \in Ids \X Ids, NEW b \in BOOLEAN, Push(n, key, b)
  PROVE  /\ \A k \in Nodes : k # n => made'[k] = made[k]
         /\ DOMAIN made'[n] = 1..Len(made[n]) + 1 /\ DOMAIN made[n] = 1..Len(made[n])
         /\ Len(made[n]) \in Nat
         /\ \A i \in 1..Len(made[n]) : made'[n][i] = made[n][i]
         /\ made'[n][Len(made[n]) + 1] = key
<1>1. made[n] \in Seq(Ids \X Ids) /\ made' = [made EXCEPT ![n] = Append(made[n], key)]
  BY DEF TypeOK, Push
<1>2. made'[n] = Append(made[n], key) /\ \A k \in Nodes : k # n => made'[k] = made[k]
  BY <1>1 DEF TypeOK
<1>3. QED
  BY <1>1, <1>2, Appended

LEMMA Numbers ==
  ASSUME TypeOK
  PROVE  /\ fresh \in Nat /\ fresh + 1 \in Nat /\ Ids \subseteq Nat
         /\ \A n \in Nodes : \A i \in DOMAIN made[n] :
              made[n][i] \in Ids \X Ids /\ made[n][i][1] \in Nat /\ made[n][i][2] \in Nat
         /\ \A n \in Nodes : handshake[n] # None => handshake[n] \in Nat
         /\ \A n \in Nodes : last_mac1[n] # None => last_mac1[n] \in Nat
         /\ \A m \in net : m.type = "init" => m.id \in Nat
         /\ \A m \in net : m.type = "resp" => m.id \in Nat /\ m.to \in Nat
<1>1. fresh \in Nat /\ fresh + 1 \in Nat /\ Ids \subseteq Nat
  BY DEF TypeOK, Ids
<1>2. \A n \in Nodes : \A i \in DOMAIN made[n] : made[n][i] \in Ids \X Ids
  <2>1. \A n \in Nodes : made[n] \in Seq(Ids \X Ids)
    BY DEF TypeOK
  <2>2. QED
    BY <2>1, LenProperties
<1>3. \A k \in Ids \X Ids : k[1] \in Nat /\ k[2] \in Nat
  BY <1>1
<1>4. \A m \in net : m.type = "init" => m.id \in Nat
  BY <1>1, MessageTypes DEF TypeOK, InitMessages
<1>5. \A m \in net : m.type = "resp" => m.id \in Nat /\ m.to \in Nat
  BY <1>1, MessageTypes DEF TypeOK, RespMessages
<1>6. \A n \in Nodes : handshake[n] # None => handshake[n] \in Nat
  BY <1>1 DEF TypeOK
<1>7. \A n \in Nodes : last_mac1[n] # None => last_mac1[n] \in Nat
  BY <1>1 DEF TypeOK
<1>8. QED
  BY <1>1, <1>2, <1>3, <1>4, <1>5, <1>6, <1>7

LEMMA PushFresh ==
  ASSUME TypeOK, FreshInv, NEW n \in Nodes, NEW key \in Ids \X Ids, NEW b \in BOOLEAN, Push(n, key, b),
         fresh' = fresh \/ fresh' = fresh + 1, key[1] < fresh', key[2] < fresh'
  PROVE  \A k \in Nodes : \A i \in DOMAIN made'[k] : made'[k][i][1] < fresh' /\ made'[k][i][2] < fresh'
<1> SUFFICES ASSUME NEW k \in Nodes, NEW i \in DOMAIN made'[k]
             PROVE  made'[k][i][1] < fresh' /\ made'[k][i][2] < fresh'
  OBVIOUS
<1>1. CASE k # n \/ i \in DOMAIN made[n]
  <2>1. i \in DOMAIN made[k] /\ made'[k][i] = made[k][i]
    BY <1>1, MadeGrows
  <2>2. made[k][i][1] < fresh /\ made[k][i][2] < fresh
    BY <2>1 DEF FreshInv
  <2>3. QED
    BY <2>1, <2>2, Numbers
<1>2. CASE k = n /\ i \notin DOMAIN made[n]
  <2>1. made'[k][i] = key
    BY <1>2, MadeGrows
  <2>2. QED
    BY <2>1
<1>3. QED
  BY <1>1, <1>2

\* What was older than fresh still is.
LEMMA OlderStill ==
  ASSUME TypeOK, FreshInv, fresh' = fresh \/ fresh' = fresh + 1
  PROVE  /\ \A m \in net : m.type = "init" => m.id < fresh'
         /\ \A m \in net : m.type = "resp" => m.id < fresh' /\ m.to < fresh'
         /\ \A n \in Nodes : handshake[n] # None => handshake[n] < fresh'
         /\ \A n \in Nodes : last_mac1[n] # None => last_mac1[n] < fresh'
         /\ \A n \in Nodes : \A i \in DOMAIN made[n] : made[n][i][1] < fresh' /\ made[n][i][2] < fresh'
<1>1. \A k \in Nat : k < fresh => k < fresh'
  BY Numbers
<1>2. QED
  BY <1>1, Numbers DEF FreshInv

LEMMA FreshNext == TypeOK /\ FreshInv /\ [Next]_vars => FreshInv'
<1> SUFFICES ASSUME TypeOK, FreshInv, [Next]_vars PROVE FreshInv'
  OBVIOUS
<1>1. CASE Quiet
  BY <1>1 DEF Quiet, FreshInv, TypeOK
<1>2. ASSUME NEW n \in Nodes, Initiate(n) PROVE FreshInv'
  <2>1. fresh' = fresh + 1 /\ fresh < fresh' /\ made' = made
    BY <1>2, Numbers DEF Initiate
  <2>2. \A m \in net' : m \in net \/ (m.type = "init" /\ m.id = fresh)
    BY <1>2 DEF Initiate, Send
  <2>3. \A k \in Nodes : handshake'[k] \in {handshake[k], fresh} /\ last_mac1'[k] \in {last_mac1[k], fresh}
    BY <1>2 DEF Initiate, TypeOK
  <2>4. QED
    BY <2>1, <2>2, <2>3, OlderStill DEF FreshInv
<1>3. ASSUME NEW n \in Nodes, Restart(n) PROVE FreshInv'
  BY <1>3 DEF Restart, FreshInv, TypeOK
<1>4. ASSUME NEW n \in Nodes, NEW m \in net, m \in InitMessages, Respond(n, m) PROVE FreshInv'
  <2>1. fresh' = fresh + 1 /\ fresh < fresh' /\ Push(n, <<m.id, fresh>>, FALSE)
    <3>1. fresh' = fresh + 1
      BY <1>4 DEF Respond
    <3>2. Push(n, <<m.id, fresh>>, FALSE)
      BY <1>4 DEF Respond
    <3>3. fresh < fresh'
      BY <3>1, Numbers
    <3>4. QED
      BY <3>1, <3>2, <3>3
  <2>2. <<m.id, fresh>> \in Ids \X Ids /\ m.id < fresh'
    <3>1. m.type = "init" /\ m.id \in Ids
      BY <1>4 DEF InitMessages
    <3>2. fresh \in Ids
      BY <1>4 DEF Respond, TypeOK, Ids
    <3>3. m.id < fresh'
      BY <2>1, <3>1, OlderStill
    <3>4. QED
      BY <3>1, <3>2, <3>3
  <2>3. \A k \in net' : k \in net \/ (k.type = "resp" /\ k.id = fresh /\ k.to = m.id)
    BY <1>4 DEF Respond, Send
  <2>4. \A k \in Nodes : handshake'[k] \in {handshake[k], None} /\ last_mac1'[k] \in {last_mac1[k], fresh}
    BY <1>4 DEF Respond, TypeOK
  <2>5. \A k \in Nodes : \A i \in DOMAIN made'[k] : made'[k][i][1] < fresh' /\ made'[k][i][2] < fresh'
    BY <2>1, <2>2, PushFresh
  <2>6. QED
    BY <2>1, <2>2, <2>3, <2>4, <2>5, OlderStill DEF FreshInv
<1>5. ASSUME NEW n \in Nodes, NEW m \in net, m \in RespMessages, Finish(n, m) PROVE FreshInv'
  <2>1. fresh' = fresh /\ Push(n, <<m.to, m.id>>, TRUE) /\ net' = net /\ last_mac1' = last_mac1
    BY <1>5 DEF Finish
  <2>2. <<m.to, m.id>> \in Ids \X Ids /\ m.to < fresh /\ m.id < fresh
    BY <1>5 DEF RespMessages, FreshInv
  <2>3. \A k \in Nodes : handshake'[k] \in {handshake[k], None}
    BY <1>5 DEF Finish, AfterResponse, TypeOK
  <2>4. \A k \in Nodes : \A i \in DOMAIN made'[k] : made'[k][i][1] < fresh' /\ made'[k][i][2] < fresh'
    BY <2>1, <2>2, PushFresh
  <2>5. QED
    BY <2>1, <2>3, <2>4, OlderStill DEF FreshInv
<1>6. QED
  BY Steps, <1>1, <1>2, <1>3, <1>4, <1>5

LEMMA UsedNext == TypeOK /\ FreshInv /\ UsedInv /\ [Next]_vars => UsedInv'
<1> SUFFICES ASSUME TypeOK, FreshInv, UsedInv, [Next]_vars PROVE UsedInv'
  OBVIOUS
<1> USE DEF UsedInv, NoKeyReuse, IsInjective
<1>0. \A n \in Nodes : \A i \in DOMAIN made[n] : made[n][i][1] # None
  BY Numbers
<1>1. CASE Quiet
  BY <1>0, <1>1 DEF Quiet
<1>2. ASSUME NEW n \in Nodes, Initiate(n) PROVE UsedInv'
  <2>1. made' = made /\ \A k \in Nodes : handshake'[k] \in {handshake[k], fresh}
    BY <1>2 DEF Initiate, TypeOK
  <2>2. \A k \in Nodes : \A i \in DOMAIN made[k] : made[k][i][1] # fresh
    BY Numbers DEF FreshInv
  <2>3. QED
    BY <2>1, <2>2
<1>3. ASSUME NEW n \in Nodes, Restart(n) PROVE UsedInv'
  <2>1. made' = made /\ \A k \in Nodes : handshake'[k] \in {handshake[k], None}
    BY <1>3 DEF Restart, TypeOK
  <2>2. QED
    BY <1>0, <2>1
<1>4. ASSUME NEW n \in Nodes, NEW key \in Ids \X Ids, NEW b \in BOOLEAN, Push(n, key, b),
             handshake' = [handshake EXCEPT ![n] = None],
             \A i \in DOMAIN made[n] : made[n][i] # key
      PROVE  UsedInv'
  <2>1. /\ \A k \in Nodes : k # n => made'[k] = made[k]
        /\ DOMAIN made'[n] = 1..Len(made[n]) + 1 /\ DOMAIN made[n] = 1..Len(made[n])
        /\ Len(made[n]) \in Nat
        /\ \A i \in 1..Len(made[n]) : made'[n][i] = made[n][i]
        /\ made'[n][Len(made[n]) + 1] = key
    BY <1>4, MadeGrows
  <2>2. \A k \in Nodes : handshake'[k] = IF k = n THEN None ELSE handshake[k]
    BY <1>4 DEF TypeOK
  <2>3. \A i \in DOMAIN made'[n] : i \in DOMAIN made[n] \/ i = Len(made[n]) + 1
    BY <2>1
  <2>4. key[1] # None
    BY Numbers
  <2>5. \A k \in Nodes : \A i \in DOMAIN made'[k] : made'[k][i][1] # handshake'[k]
    <3> SUFFICES ASSUME NEW k \in Nodes, NEW i \in DOMAIN made'[k]
                 PROVE  made'[k][i][1] # handshake'[k]
      OBVIOUS
    <3>1. CASE k # n
      BY <2>1, <2>2, <3>1
    <3>2. CASE k = n /\ i \in DOMAIN made[n]
      <4>1. made'[k][i] = made[n][i]
        BY <2>1, <3>2
      <4>2. QED
        BY <1>0, <2>2, <3>2, <4>1
    <3>3. CASE k = n /\ i = Len(made[n]) + 1
      <4>1. made'[k][i] = key
        BY <2>1, <3>3
      <4>2. QED
        BY <2>2, <2>4, <3>3, <4>1
    <3>4. QED
      BY <2>3, <3>1, <3>2, <3>3
  <2>6. \A k \in Nodes : \A i, j \in DOMAIN made'[k] : made'[k][i] = made'[k][j] => i = j
    <3> SUFFICES ASSUME NEW k \in Nodes, NEW i \in DOMAIN made'[k], NEW j \in DOMAIN made'[k],
                        made'[k][i] = made'[k][j]
                 PROVE  i = j
      OBVIOUS
    <3>1. CASE k # n
      BY <2>1, <3>1
    <3>2. CASE k = n
      <4>1. \A l \in DOMAIN made[n] : made'[n][l] = made[n][l]
        BY <2>1
      <4>2. CASE i \in DOMAIN made[n] /\ j \in DOMAIN made[n]
        BY <3>2, <4>1, <4>2
      <4>3. CASE i = Len(made[n]) + 1 /\ j \in DOMAIN made[n]
        BY <1>4, <2>1, <3>2, <4>1, <4>3
      <4>4. CASE j = Len(made[n]) + 1 /\ i \in DOMAIN made[n]
        BY <1>4, <2>1, <3>2, <4>1, <4>4
      <4>5. QED
        BY <2>3, <3>2, <4>2, <4>3, <4>4
    <3>3. QED
      BY <3>1, <3>2
  <2>7. QED
    BY <2>5, <2>6
<1>5. ASSUME NEW n \in Nodes, NEW m \in net, m \in InitMessages, Respond(n, m) PROVE UsedInv'
  <2>1. <<m.id, fresh>> \in Ids \X Ids
    <3>1. fresh \in Ids
      BY <1>5 DEF Respond, TypeOK, Ids
    <3>2. QED
      BY <1>5, <3>1 DEF InitMessages
  <2>2. \A i \in DOMAIN made[n] : made[n][i] # <<m.id, fresh>>
    <3>1. \A i \in DOMAIN made[n] : made[n][i][2] # fresh
      BY Numbers DEF FreshInv
    <3>2. QED
      BY <3>1
  <2>3. Push(n, <<m.id, fresh>>, FALSE) /\ handshake' = [handshake EXCEPT ![n] = None]
    BY <1>5 DEF Respond
  <2>4. QED
    BY <2>1, <2>2, <2>3, <1>4
<1>6. ASSUME NEW n \in Nodes, NEW m \in net, m \in RespMessages, Finish(n, m) PROVE UsedInv'
  <2>1. <<m.to, m.id>> \in Ids \X Ids
    BY <1>6 DEF RespMessages
  <2>2. \A i \in DOMAIN made[n] : made[n][i] # <<m.to, m.id>>
    <3>1. handshake[n] = m.to
      BY <1>6 DEF Finish
    <3>2. \A i \in DOMAIN made[n] : made[n][i][1] # m.to
      BY <3>1
    <3>3. QED
      BY <3>2
  <2>3. Push(n, <<m.to, m.id>>, TRUE) /\ handshake' = [handshake EXCEPT ![n] = None]
    BY <1>6 DEF Finish, AfterResponse
  <2>4. QED
    BY <2>1, <2>2, <2>3, <1>4
<1>7. QED
  BY Steps, <1>1, <1>2, <1>3, <1>5, <1>6

\* However often a message is delivered, and whenever nodes restart, no node makes
\* two sessions with the same key (state.rs, udp_process_handshake_init and
\* udp_process_handshake_resp, which takes the handshake).
THEOREM KeysNeverReused == Spec => []NoKeyReuse
<1>1. UsedInv => NoKeyReuse
  BY DEF UsedInv
<1>2. QED
  BY <1>1, TypeInit, TypeNext, KeyInit, FreshNext, UsedNext, PTL DEF Spec

-----------------------------------------------------------------------------
(* An initiation is answered once.                                           *)

\* Its timestamp is at most that of the newest one that was answered since.
AnsweredInv ==
  /\ \A m, k \in net : m.type = "init" /\ k.type = "init" /\ m.id = k.id => m = k
  /\ \A r \in net : r.type = "resp" => r.life <= life[r.from]
  /\ \A r, m \in net :
       r.type = "resp" /\ m.type = "init" /\ r.to = m.id /\ r.life = life[r.from]
         => m.timestamp <= last_handshake[r.from]
  /\ AnsweredOnce

LEMMA LifeNumbers ==
  ASSUME TypeOK
  PROVE  \A k \in Nodes : life[k] \in Nat
<1>1. life \in [Nodes -> 1..MaxEvents + 1] /\ MaxEvents \in Nat
  BY DEF TypeOK
<1>2. QED
  BY <1>1

LEMMA AnsweredInit == Init => AnsweredInv
BY DEF Init, AnsweredInv, AnsweredOnce

LEMMA AnsweredNext == TypeOK /\ FreshInv /\ AnsweredInv /\ [Next]_vars => AnsweredInv'
<1> SUFFICES ASSUME TypeOK, FreshInv, AnsweredInv, [Next]_vars PROVE AnsweredInv'
  OBVIOUS
<1> USE DEF AnsweredInv, AnsweredOnce
<1>1. CASE Quiet
  <2>1. \A m \in net' : m.type \in {"init", "resp"} => m \in net
    BY <1>1 DEF Quiet
  <2>2. life' = life /\ last_handshake' = last_handshake
    BY <1>1 DEF Quiet
  <2>3. QED
    BY <2>1, <2>2
<1>2. ASSUME NEW n \in Nodes, Initiate(n) PROVE AnsweredInv'
  <2> DEFINE new == [type |-> "init", from |-> n, id |-> fresh, timestamp |-> Timestamp, mac2 |-> Signature(n)]
  <2>1. net' = net \cup {new} /\ life' = life /\ last_handshake' = last_handshake
    BY <1>2 DEF Initiate, Send
  <2>2. new.type = "init" /\ new.id = fresh
    OBVIOUS
  <2>3. \A m \in net : (m.type = "init" => m.id # fresh) /\ (m.type = "resp" => m.to # fresh)
    BY Numbers DEF FreshInv
  <2> HIDE DEF new
  <2>4. \A r \in net' : r.type = "resp" => r \in net
    BY <2>1, <2>2
  <2>5. \A m \in net' : m.type = "init" => m \in net \/ m = new
    BY <2>1
  <2>6. QED
    BY <2>1, <2>2, <2>3, <2>4, <2>5
<1>3. ASSUME NEW n \in Nodes, Restart(n) PROVE AnsweredInv'
  <2>1. net' = net
    BY <1>3 DEF Restart
  <2>2. \A k \in Nodes : /\ life'[k] = IF k = n THEN life[k] + 1 ELSE life[k]
                         /\ last_handshake'[k] = IF k = n THEN 0 ELSE last_handshake[k]
    BY <1>3 DEF Restart, TypeOK
  <2>3. \A r \in net : r.type = "resp" => r.from \in Nodes /\ r.life \in Nat
    BY MessageTypes DEF TypeOK, RespMessages
  <2>4. \A k \in Nodes : life[k] \in Nat
    BY LifeNumbers
  <2>5. \A r \in net : r.type = "resp" => r.life <= life'[r.from] /\ (r.life = life'[r.from] => r.from # n)
    BY <2>2, <2>3, <2>4
  <2>6. QED
    BY <2>1, <2>2, <2>3, <2>5
<1>4. ASSUME NEW n \in Nodes, NEW m \in net, m \in InitMessages, Respond(n, m) PROVE AnsweredInv'
  <2> DEFINE new == [type |-> "resp", from |-> n, id |-> fresh, to |-> m.id, mac2 |-> Signature(n), life |-> life[n]]
  <2>1. net' = net \cup {new} /\ life' = life
    BY <1>4 DEF Respond, Send
  <2>2. new.type = "resp" /\ new.from = n /\ new.to = m.id /\ new.life = life[n] /\ m.type = "init"
    BY <1>4 DEF InitMessages
  <2>3. m.timestamp > last_handshake[n]
    BY <1>4 DEF Respond, NewTimestamp
  <2>4. \A k \in Nodes : last_handshake'[k] = IF k = n THEN m.timestamp ELSE last_handshake[k]
    BY <1>4 DEF Respond, TypeOK
  <2>5. /\ \A r \in net : r.type = "resp" => r.from \in Nodes
        /\ \A k \in net : k.type = "init" => k.timestamp \in Nat
        /\ \A k \in Nodes : last_handshake[k] \in Nat /\ life[k] \in Nat
    <3>1. \A r \in net : r.type = "resp" => r.from \in Nodes
      BY MessageTypes DEF TypeOK, RespMessages
    <3>2. \A k \in net : k.type = "init" => k.timestamp \in Nat
      <4>1. \A k \in net : k.type = "init" => k.timestamp \in 1..MaxClock
        BY MessageTypes DEF TypeOK, InitMessages
      <4>2. QED
        BY <4>1
    <3>3. \A k \in Nodes : last_handshake[k] \in Nat /\ life[k] \in Nat
      BY DEF TypeOK
    <3>4. QED
      BY <3>1, <3>2, <3>3
  <2>6. \A r \in net' : r.type = "resp" => r \in net \/ r = new
    BY <2>1
  <2>7. \A k \in net' : k.type = "init" => k \in net
    BY <2>1, <2>2
  <2>8. \A r \in net : r.type = "resp" /\ r.from = n /\ r.life = life[n] => r.to # m.id
    BY <2>2, <2>3, <2>5
  <2> HIDE DEF new
  <2>9. \A r \in net' : r.type = "resp" => r.life <= life'[r.from]
    BY <2>1, <2>2, <2>5, <2>6
  <2>10. \A r, k \in net' :
           r.type = "resp" /\ k.type = "init" /\ r.to = k.id /\ r.life = life'[r.from]
             => k.timestamp <= last_handshake'[r.from]
    <3> SUFFICES ASSUME NEW r \in net', NEW k \in net', r.type = "resp", k.type = "init",
                        r.to = k.id, r.life = life[r.from]
                 PROVE  k.timestamp <= last_handshake'[r.from]
      BY <2>1
    <3>1. CASE r = new
      <4>1. k = m
        BY <2>2, <2>7, <3>1
      <4>2. QED
        BY <2>2, <2>4, <2>5, <3>1, <4>1
    <3>2. CASE r \in net
      <4>1. k.timestamp <= last_handshake[r.from]
        BY <2>7, <3>2
      <4>2. QED
        <5>1. CASE r.from = n
          BY <2>2, <2>3, <2>4, <2>5, <2>7, <4>1, <5>1
        <5>2. CASE r.from # n
          BY <2>4, <2>5, <3>2, <4>1, <5>2
        <5>3. QED
          BY <5>1, <5>2
    <3>3. QED
      BY <2>6, <3>1, <3>2
  <2>11. AnsweredOnce'
    BY <2>2, <2>6, <2>8
  <2>12. QED
    BY <2>7, <2>9, <2>10, <2>11
<1>5. ASSUME NEW n \in Nodes, NEW m \in net, Finish(n, m) PROVE AnsweredInv'
  BY <1>5 DEF Finish
<1>6. QED
  BY Steps, <1>1, <1>2, <1>3, <1>4, <1>5

\* A repeated or delayed initiation makes no second response and session as long as
\* the node keeps the state of its peer (state.rs:168, last_handshake).
THEOREM InitiationsAnsweredOnce == Spec => []AnsweredOnce
<1>1. AnsweredInv => AnsweredOnce
  BY DEF AnsweredInv
<1>2. QED
  BY <1>1, TypeInit, TypeNext, KeyInit, FreshNext, AnsweredInit, AnsweredNext, PTL DEF Spec

-----------------------------------------------------------------------------
(* A late cookie does not take the place of a newer one.                     *)

\* The cookie answers the last message that can be answered, or an earlier one.
CookieInv ==
  \A n \in Nodes : cookie[n] # None => last_mac1[n] # None /\ cookie[n].mac1 <= last_mac1[n]

\* What a step may do to a cookie and to the message the next one is to answer.
LEMMA CookieSteps ==
  ASSUME TypeOK, [Next]_vars, NEW n \in Nodes
  PROVE  /\ \/ cookie'[n] \in {cookie[n], None}
            \/ /\ last_mac1[n] # None /\ last_mac1'[n] = last_mac1[n]
               /\ cookie'[n] # None /\ cookie'[n].mac1 = last_mac1[n]
         /\ last_mac1'[n] \in {last_mac1[n], fresh} \/ cookie'[n] = None
<1> DEFINE Goal ==
      /\ \/ cookie'[n] \in {cookie[n], None}
         \/ /\ last_mac1[n] # None /\ last_mac1'[n] = last_mac1[n]
            /\ cookie'[n] # None /\ cookie'[n].mac1 = last_mac1[n]
      /\ last_mac1'[n] \in {last_mac1[n], fresh} \/ cookie'[n] = None
<1>1. CASE UNCHANGED <<cookie, last_mac1>>
  BY <1>1
<1>2. ASSUME NEW k \in Nodes, CookieExpires(k) PROVE Goal
  BY <1>2 DEF CookieExpires, TypeOK
<1>3. ASSUME NEW k \in Nodes, Restart(k) PROVE Goal
  BY <1>3 DEF Restart, TypeOK
<1>4. ASSUME NEW k \in Nodes, Initiate(k) PROVE Goal
  BY <1>4 DEF Initiate, TypeOK
<1>5. ASSUME NEW k \in Nodes, NEW m \in net, Respond(k, m) PROVE Goal
  BY <1>5 DEF Respond, TypeOK
<1>6. ASSUME NEW k \in Nodes, NEW m \in net, m \in CookieMessages, ReceiveCookie(k, m) PROVE Goal
  <2>1. /\ last_mac1[k] = m.mac1 /\ last_mac1' = last_mac1
        /\ cookie' = [cookie EXCEPT ![k] = [secret |-> m.cookie, mac1 |-> m.mac1]]
    BY <1>6 DEF ReceiveCookie, OfLastMac1
  <2>2. m.mac1 # None /\ m.cookie \in Cookies /\ m.mac1 \in Ids
    BY <1>6, Numbers DEF CookieMessages
  <2>3. [secret |-> m.cookie, mac1 |-> m.mac1] # None
    <3>1. m.cookie \in Nat /\ m.mac1 \in Nat
      BY <2>2 DEF Cookies, Ids
    <3>2. [secret |-> m.cookie, mac1 |-> m.mac1] \in [secret : Nat, mac1 : Nat]
      BY <3>1
    <3>3. QED
      BY <3>2, NoneAssumption
  <2>4. QED
    BY <2>1, <2>2, <2>3 DEF TypeOK
<1>7. CASE Tick \/ UNCHANGED vars
  BY <1>1, <1>7 DEF Tick, vars
<1>8. ASSUME NEW k \in Nodes, SendData(k) \/ UpdateSecret(k) \/ \E all \in BOOLEAN : Timers(k, all) PROVE Goal
  BY <1>1, <1>8 DEF SendData, UpdateSecret, Timers
<1>9. ASSUME NEW k \in Nodes, NEW m \in net, CookieReply(k, m) \/ Finish(k, m) \/ ReceiveData(k, m) PROVE Goal
  BY <1>1, <1>9 DEF CookieReply, Finish, ReceiveData
<1>10. QED
  BY ArrivingTypes, <1>2, <1>3, <1>4, <1>5, <1>6, <1>7, <1>8, <1>9 DEF Next, ReceiveInit, ReceiveResp

LEMMA CookieNumbers ==
  ASSUME TypeOK
  PROVE  \A n \in Nodes : cookie[n] # None => cookie[n].mac1 \in Nat
BY DEF TypeOK, Ids

LEMMA CookieInit == Init => CookieInv
BY DEF Init, CookieInv

LEMMA CookieNext == TypeOK /\ FreshInv /\ CookieInv /\ [Next]_vars => CookieInv'
<1> SUFFICES ASSUME TypeOK, FreshInv, CookieInv, [Next]_vars, NEW n \in Nodes, cookie'[n] # None
             PROVE  last_mac1'[n] # None /\ cookie'[n].mac1 <= last_mac1'[n]
  BY DEF CookieInv
<1>1. last_mac1'[n] \in {last_mac1[n], fresh} /\ fresh \in Nat /\ None \notin Nat
  BY CookieSteps, Numbers
<1>2. CASE cookie'[n] = cookie[n]
  <2>1. last_mac1[n] # None /\ cookie[n].mac1 <= last_mac1[n] /\ cookie[n].mac1 \in Nat
    BY <1>2, CookieNumbers DEF CookieInv
  <2>2. last_mac1[n] \in Nat /\ last_mac1[n] < fresh
    BY <2>1, Numbers DEF FreshInv
  <2>3. QED
    BY <1>1, <1>2, <2>1, <2>2
<1>3. CASE last_mac1[n] # None /\ last_mac1'[n] = last_mac1[n] /\ cookie'[n].mac1 = last_mac1[n]
  BY <1>3, Numbers
<1>4. QED
  BY <1>2, <1>3, CookieSteps

\* A cookie that a node takes is that of a message at least as new as the one the
\* cookie before was for (cookie.rs:71, process_cookie_reply; last_mac1).
THEOREM CookiesInOrder == Spec => CookieInOrder
<1> DEFINE Step == \A n \in Nodes :
      cookie[n] # None /\ cookie'[n] # None => cookie'[n].mac1 >= cookie[n].mac1
<1>1. ASSUME TypeOK, CookieInv, [Next]_vars, NEW n \in Nodes, cookie[n] # None, cookie'[n] # None
      PROVE  cookie'[n].mac1 >= cookie[n].mac1
  <2>1. cookie[n].mac1 \in Nat
    BY <1>1, CookieNumbers
  <2>2. CASE cookie'[n] = cookie[n]
    BY <2>1, <2>2
  <2>3. CASE last_mac1[n] # None /\ cookie'[n].mac1 = last_mac1[n]
    <3>1. cookie[n].mac1 <= last_mac1[n] /\ last_mac1[n] \in Nat
      BY <1>1, <2>3, Numbers DEF CookieInv
    <3>2. QED
      BY <2>1, <2>3, <3>1
  <2>4. QED
    BY <1>1, <2>2, <2>3, CookieSteps
<1>2. TypeOK /\ CookieInv /\ [Next]_vars => [Step]_vars
  BY <1>1
<1>3. QED
  BY <1>2, TypeInit, TypeNext, KeyInit, FreshNext, CookieInit, CookieNext, PTL DEF Spec, CookieInOrder

-----------------------------------------------------------------------------
(* The sessions a node has as responder are in the order of the initiations. *)

\* An initiation made later has no smaller timestamp.
ClockInv ==
  /\ \A m \in net : m.type = "init" => m.timestamp <= clock
  /\ \A m, k \in net :
       m.type = "init" /\ k.type = "init" /\ m.from = k.from /\ m.id < k.id
         => m.timestamp <= k.timestamp

\* The initiation of a session a node has as responder, not newer than the newest.
Initiated(t, n) ==
  \E m \in net :
    m.type = "init" /\ m.from = Peer(n) /\ m.id = t.key[1] /\ m.timestamp <= last_handshake[n]

OrderInv ==
  /\ \A n \in Nodes : \A i \in DOMAIN transports[n] :
       ~transports[n][i].is_initiator => Initiated(transports[n][i], n)
  /\ InOrder

LEMMA OrderInit == Init => ClockInv /\ OrderInv
BY DEF Init, ClockInv, OrderInv, InOrder

LEMMA InitNumbers ==
  ASSUME TypeOK
  PROVE  /\ clock \in Nat
         /\ \A m \in net : m.type = "init" => m.timestamp \in Nat /\ m.id \in Nat
         /\ \A n \in Nodes : last_handshake[n] \in Nat
<1>1. \A m \in net : m.type = "init" => m.timestamp \in 1..MaxClock
  BY MessageTypes DEF TypeOK, InitMessages
<1>2. \A m \in net : m.type = "init" => m.timestamp \in Nat
  BY <1>1
<1>3. clock \in Nat /\ \A n \in Nodes : last_handshake[n] \in Nat
  BY DEF TypeOK
<1>4. QED
  BY <1>2, <1>3, Numbers

\* The clock moves only on its own, and every other step but Initiate makes no
\* initiation.
LEMMA InitSteps ==
  ASSUME TypeOK, [Next]_vars
  PROVE  /\ net \subseteq net'
         /\ \/ /\ clock' \in {clock, clock + 1}
               /\ \A m \in net' : m.type = "init" => m \in net
            \/ \E n \in Nodes : Initiate(n)
<1>1. CASE Tick \/ UNCHANGED vars
  BY <1>1 DEF Tick, vars
<1>2. ASSUME NEW n \in Nodes,
             SendData(n) \/ CookieExpires(n) \/ UpdateSecret(n) \/ Restart(n) \/ \E all \in BOOLEAN : Timers(n, all)
      PROVE  clock' = clock /\ net \subseteq net' /\ \A m \in net' : m.type = "init" => m \in net
  BY <1>2 DEF SendData, Send, CookieExpires, UpdateSecret, Restart, Timers
<1>3. ASSUME NEW n \in Nodes, NEW m \in net,
             CookieReply(n, m) \/ Respond(n, m) \/ Finish(n, m) \/ ReceiveCookie(n, m) \/ ReceiveData(n, m)
      PROVE  clock' = clock /\ net \subseteq net' /\ \A k \in net' : k.type = "init" => k \in net
  <2>1. CASE CookieReply(n, m)
    BY <2>1 DEF CookieReply, Send
  <2>2. CASE Respond(n, m)
    <3> DEFINE r == [type |-> "resp", from |-> n, id |-> fresh, to |-> m.id, mac2 |-> Signature(n), life |-> life[n]]
    <3>1. net' = net \cup {r} /\ r.type = "resp"
      BY <2>2 DEF Respond, Send
    <3> HIDE DEF r
    <3>2. clock' = clock
      BY <2>2 DEF Respond
    <3>3. QED
      BY <3>1, <3>2
  <2>3. CASE Finish(n, m) \/ ReceiveCookie(n, m) \/ ReceiveData(n, m)
    <3>1. clock' = clock /\ net' = net
      BY <2>3 DEF Finish, ReceiveCookie, ReceiveData
    <3>2. QED
      BY <3>1
  <2>4. QED
    BY <1>3, <2>1, <2>2, <2>3
<1>4. ASSUME NEW n \in Nodes, Initiate(n) PROVE net \subseteq net'
  BY <1>4 DEF Initiate, Send
<1>5. QED
  BY ArrivingTypes, <1>1, <1>2, <1>3, <1>4 DEF Next, ReceiveInit, ReceiveResp

LEMMA ClockNext == TypeOK /\ FreshInv /\ ClockInv /\ [Next]_vars => ClockInv'
<1> SUFFICES ASSUME TypeOK, FreshInv, ClockInv, [Next]_vars PROVE ClockInv'
  OBVIOUS
<1>1. CASE clock' \in {clock, clock + 1} /\ \A m \in net' : m.type = "init" => m \in net
  BY <1>1, InitNumbers DEF ClockInv
<1>2. ASSUME NEW n \in Nodes, Initiate(n) PROVE ClockInv'
  <2> DEFINE new == [type |-> "init", from |-> n, id |-> fresh, timestamp |-> Timestamp, mac2 |-> Signature(n)]
  <2>1. net' = net \cup {new} /\ clock' = clock
    BY <1>2 DEF Initiate, Send
  <2>2. new.id = fresh /\ new.timestamp = clock
    BY DEF Timestamp
  <2> HIDE DEF new
  <2>3. \A m \in net : m.type = "init" => m.id < fresh /\ m.id \in Nat /\ m.timestamp <= clock /\ m.timestamp \in Nat
    BY InitNumbers DEF FreshInv, ClockInv
  <2>4. clock \in Nat /\ fresh \in Nat
    BY Numbers, InitNumbers
  <2>5. \A m \in net' : m.type = "init" => m.timestamp <= clock'
    BY <2>1, <2>2, <2>3, <2>4
  <2>6. ASSUME NEW m \in net', NEW k \in net', m.type = "init", k.type = "init", m.from = k.from, m.id < k.id
        PROVE  m.timestamp <= k.timestamp
    <3>1. CASE m \in net /\ k \in net
      BY <2>6, <3>1 DEF ClockInv
    <3>2. CASE m = new
      BY <2>1, <2>2, <2>3, <2>4, <2>6, <3>2
    <3>3. CASE k = new /\ m \in net
      BY <2>2, <2>3, <2>6, <3>3
    <3>4. QED
      BY <2>1, <3>1, <3>2, <3>3
  <2>7. QED
    BY <2>5, <2>6 DEF ClockInv
<1>3. QED
  BY <1>1, <1>2, InitSteps

\* The sessions of n are some of those it had, perhaps confirmed.
Kept(n) ==
  \A i \in DOMAIN transports'[n] :
    /\ i \in DOMAIN transports[n]
    /\ transports'[n][i].key = transports[n][i].key
    /\ transports'[n][i].is_initiator = transports[n][i].is_initiator

Pushed(n, key, b) ==
  /\ 1 \in DOMAIN transports'[n]
  /\ transports'[n][1].key = key /\ transports'[n][1].is_initiator = b
  /\ ~transports'[n][1].has_received
  /\ \A i \in DOMAIN transports'[n] :
       i # 1 => i \in Nat /\ i - 1 \in DOMAIN transports[n] /\ transports'[n][i] = transports[n][i - 1]

LEMMA PushIsPushed ==
  ASSUME TypeOK, NEW n \in Nodes, NEW key \in Ids \X Ids, NEW b \in BOOLEAN, Push(n, key, b)
  PROVE  Pushed(n, key, b) /\ \A k \in Nodes : k # n => transports'[k] = transports[k]
<1> DEFINE t == [key |-> key, is_initiator |-> b, has_received |-> FALSE]
<1> DEFINE q == Newest(<<t>> \o transports[n])
<1>1. t \in Transports /\ transports[n] \in Seq(Transports)
  BY DEF Transports, TypeOK
<1>2. t.key = key /\ t.is_initiator = b /\ ~t.has_received
  OBVIOUS
<1>3. transports' = [transports EXCEPT ![n] = q]
  BY DEF Push
<1> HIDE DEF t
<1> HIDE DEF q
<1>4. /\ q \in Seq(Transports) /\ Len(q) \in 1..MaxTransports
      /\ q[1] = t
      /\ \A i \in 2..Len(q) : i - 1 \in DOMAIN transports[n] /\ q[i] = transports[n][i - 1]
  <2>1. q = Newest(<<t>> \o transports[n])
    BY DEF q
  <2>2. t \in Transports /\ transports[n] \in Seq(Transports)
    BY <1>1
  <2>3. q \in Seq(Transports) /\ Len(q) \in 1..MaxTransports
    BY <2>1, <2>2, NewestProperties
  <2>4. q[1] = t
    BY <2>1, <2>2, NewestProperties
  <2>5. \A i \in 2..Len(q) : i - 1 \in DOMAIN transports[n] /\ q[i] = transports[n][i - 1]
    BY <2>1, <2>2, NewestProperties
  <2>6. QED
    BY <2>3, <2>4, <2>5
<1>5. transports'[n] = q /\ \A k \in Nodes : k # n => transports'[k] = transports[k]
  BY <1>3 DEF TypeOK
<1>6. DOMAIN q = 1..Len(q)
  BY <1>4, LenProperties
<1>7. QED
  BY <1>2, <1>4, <1>5, <1>6 DEF Pushed

LEMMA TransportSteps ==
  ASSUME TypeOK, [Next]_vars, NEW n \in Nodes
  PROVE  \/ Kept(n) /\ (last_handshake'[n] = last_handshake[n] \/ transports'[n] = << >>)
         \/ \E m \in net : m \in InitMessages /\ m.from = Peer(n) /\ Respond(n, m)
         \/ \E m \in net : m \in RespMessages /\ Finish(n, m)
<1> DEFINE Goal == Kept(n) /\ (last_handshake'[n] = last_handshake[n] \/ transports'[n] = << >>)
<1>1. ASSUME transports'[n] = transports[n], last_handshake'[n] = last_handshake[n] PROVE Goal
  BY <1>1 DEF Kept
<1>2. ASSUME Tick \/ UNCHANGED vars PROVE Goal
  BY <1>1, <1>2 DEF Tick, vars
<1>3. ASSUME NEW k \in Nodes, Initiate(k) \/ SendData(k) \/ CookieExpires(k) \/ UpdateSecret(k) PROVE Goal
  BY <1>1, <1>3 DEF Initiate, SendData, CookieExpires, UpdateSecret
<1>4. ASSUME NEW k \in Nodes, NEW m \in net, CookieReply(k, m) \/ ReceiveCookie(k, m) PROVE Goal
  BY <1>1, <1>4 DEF CookieReply, ReceiveCookie
<1>5. ASSUME NEW k \in Nodes, Restart(k) \/ \E all \in BOOLEAN : Timers(k, all) PROVE Goal
  <2>1. /\ transports'[n] = transports[n] \/ transports'[n] = << >>
        /\ last_handshake'[n] = last_handshake[n] \/ transports'[n] = << >>
    BY <1>5 DEF Restart, Timers, TypeOK
  <2>2. transports'[n] = << >> => Kept(n)
    BY DEF Kept
  <2>3. QED
    BY <1>1, <2>1, <2>2
<1>6. ASSUME NEW k \in Nodes, NEW m \in net, ReceiveData(k, m) PROVE Goal
  <2>1. PICK j \in DOMAIN transports[k] :
          /\ transports' = [transports EXCEPT ![k][j].has_received = TRUE]
          /\ last_handshake' = last_handshake
    BY <1>6 DEF ReceiveData
  <2>2. CASE n # k
    BY <1>1, <2>1, <2>2 DEF TypeOK
  <2>3. CASE n = k
    <3>1. transports'[n] = [transports[n] EXCEPT ![j].has_received = TRUE]
      BY <2>1, <2>3 DEF TypeOK
    <3>2. \A i \in DOMAIN transports[n] : transports[n][i] \in Transports
      BY LenProperties DEF TypeOK
    <3>3. QED
      BY <2>1, <3>1, <3>2 DEF Kept, Transports
  <2>4. QED
    BY <2>2, <2>3
<1>7. ASSUME NEW k \in Nodes, k # n, NEW m \in net,
             \/ m \in InitMessages /\ Respond(k, m)
             \/ m \in RespMessages /\ Finish(k, m)
      PROVE  Goal
  <2>1. last_handshake'[n] = last_handshake[n]
    BY <1>7 DEF Respond, Finish, TypeOK
  <2>2. transports'[n] = transports[n]
    BY <1>7 DEF Respond, Finish, Push, TypeOK
  <2>3. QED
    BY <1>1, <2>1, <2>2
<1>8. \A m \in Arriving(n, "init") : m.from = Peer(n)
  BY DEF Arriving
<1> HIDE DEF Goal
<1>9. ASSUME NEW k \in Nodes, NEW m \in Arriving(k, "init"), ReceiveInit(k, m)
      PROVE  Goal \/ \E i \in net : i \in InitMessages /\ i.from = Peer(n) /\ Respond(n, i)
  <2>1. m \in net /\ m \in InitMessages
    BY <1>9, ArrivingTypes
  <2>2. CASE CookieReply(k, m)
    BY <1>4, <2>1, <2>2
  <2>3. CASE Respond(k, m) /\ k = n
    <3>1. m.from = Peer(n)
      BY <1>8, <2>3
    <3>2. QED
      BY <2>1, <2>3, <3>1
  <2>4. CASE Respond(k, m) /\ k # n
    BY <1>7, <2>1, <2>4
  <2>5. QED
    BY <1>9, <2>2, <2>3, <2>4 DEF ReceiveInit
<1>10. ASSUME NEW k \in Nodes, NEW m \in Arriving(k, "resp"), ReceiveResp(k, m)
       PROVE  Goal \/ \E i \in net : i \in RespMessages /\ Finish(n, i)
  <2>1. m \in net /\ m \in RespMessages
    BY <1>10, ArrivingTypes
  <2>2. CASE k = n
    BY <1>4, <1>10, <2>1, <2>2 DEF ReceiveResp
  <2>3. CASE k # n
    BY <1>4, <1>7, <1>10, <2>1, <2>3 DEF ReceiveResp
  <2>4. QED
    BY <2>2, <2>3
<1>11. ASSUME NEW k \in Nodes,
              \/ \E m \in Arriving(k, "cookie") : ReceiveCookie(k, m)
              \/ \E m \in Arriving(k, "data") : ReceiveData(k, m)
       PROVE  Goal
  BY <1>4, <1>6, <1>11, ArrivingTypes
<1>12. \/ Goal
       \/ \E m \in net : m \in InitMessages /\ m.from = Peer(n) /\ Respond(n, m)
       \/ \E m \in net : m \in RespMessages /\ Finish(n, m)
  <2>1. CASE Tick \/ UNCHANGED vars
    BY <1>2, <2>1
  <2>2. ASSUME NEW k \in Nodes, Initiate(k) \/ SendData(k) \/ CookieExpires(k) \/ UpdateSecret(k) PROVE Goal
    BY <1>3, <2>2
  <2>3. ASSUME NEW k \in Nodes, Restart(k) \/ \E all \in BOOLEAN : Timers(k, all) PROVE Goal
    BY <1>5, <2>3
  <2>4. QED
    BY <2>1, <2>2, <2>3, <1>9, <1>10, <1>11, Zenon DEF Next
<1>13. QED
  BY <1>12, Zenon DEF Goal

\* Of one node: what OrderInv says.
Ordered(n) ==
  /\ \A i \in DOMAIN transports[n] :
       ~transports[n][i].is_initiator => Initiated(transports[n][i], n)
  /\ \A i, j \in DOMAIN transports[n] :
       i < j /\ ~transports[n][i].is_initiator /\ ~transports[n][j].is_initiator
         => transports[n][i].key[1] >= transports[n][j].key[1]

LEMMA OrderedAll == OrderInv <=> \A n \in Nodes : Ordered(n)
BY DEF OrderInv, InOrder, Ordered

LEMMA InitiatedStays ==
  ASSUME NEW n \in Nodes, NEW t, Initiated(t, n), NEW q, q.key = t.key,
         last_handshake[n] \in Nat, last_handshake'[n] \in Nat, net \subseteq net',
         \A m \in net : m.type = "init" => m.timestamp \in Nat,
         last_handshake[n] <= last_handshake'[n]
  PROVE  \E m \in net' :
           m.type = "init" /\ m.from = Peer(n) /\ m.id = q.key[1] /\ m.timestamp <= last_handshake'[n]
<1>1. PICK m \in net :
        m.type = "init" /\ m.from = Peer(n) /\ m.id = t.key[1] /\ m.timestamp <= last_handshake[n]
  BY DEF Initiated
<1>2. m \in net' /\ m.id = q.key[1] /\ m.timestamp <= last_handshake'[n]
  BY <1>1
<1>3. QED
  BY <1>1, <1>2

\* The newer of two initiations has the greater timestamp, so that of the new
\* session is the newest of all.
LEMMA OrderNext == TypeOK /\ ClockInv /\ OrderInv /\ [Next]_vars => OrderInv'
<1> SUFFICES ASSUME TypeOK, ClockInv, OrderInv, [Next]_vars, NEW n \in Nodes PROVE Ordered(n)'
  BY DEF OrderInv, InOrder, Ordered, Initiated
<1>1. Ordered(n)
  BY OrderedAll
<1>2. TypeOK' /\ net \subseteq net'
  BY TypeNext, InitSteps
<1>3. /\ last_handshake[n] \in Nat
      /\ \A m \in net : m.type = "init" => m.timestamp \in Nat /\ m.id \in Nat
  BY InitNumbers
<1>4. last_handshake'[n] \in Nat
  BY <1>2 DEF TypeOK
<1>5. CASE Kept(n) /\ last_handshake'[n] = last_handshake[n]
  <2>1. ASSUME NEW i \in DOMAIN transports'[n], ~transports'[n][i].is_initiator
        PROVE  \E m \in net' : /\ m.type = "init" /\ m.from = Peer(n)
                               /\ m.id = transports'[n][i].key[1] /\ m.timestamp <= last_handshake'[n]
    <3>1. i \in DOMAIN transports[n] /\ transports'[n][i].key = transports[n][i].key
      BY <1>5, <2>1 DEF Kept
    <3>2. Initiated(transports[n][i], n)
      BY <1>1, <1>5, <2>1 DEF Kept, Ordered
    <3>3. QED
      BY <1>2, <1>3, <1>4, <1>5, <3>1, <3>2, InitiatedStays
  <2>2. \A i, j \in DOMAIN transports'[n] :
          i < j /\ ~transports'[n][i].is_initiator /\ ~transports'[n][j].is_initiator
            => transports'[n][i].key[1] >= transports'[n][j].key[1]
    BY <1>1, <1>5 DEF Kept, Ordered
  <2>3. QED
    BY <2>1, <2>2 DEF Ordered, Initiated
<1>6. CASE transports'[n] = << >>
  BY <1>6 DEF Ordered
<1>7. ASSUME NEW key \in Ids \X Ids, NEW b \in BOOLEAN, Push(n, key, b),
             last_handshake[n] <= last_handshake'[n],
             ~b => \E m \in net :
                     /\ m.type = "init" /\ m.from = Peer(n) /\ m.id = key[1]
                     /\ m.timestamp = last_handshake'[n] /\ last_handshake[n] < m.timestamp
      PROVE  Ordered(n)'
  <2>1. Pushed(n, key, b)
    BY <1>7, PushIsPushed
  <2>2. ASSUME NEW i \in DOMAIN transports'[n], i # 1, ~transports'[n][i].is_initiator
        PROVE  \E m \in net' : /\ m.type = "init" /\ m.from = Peer(n)
                               /\ m.id = transports'[n][i].key[1] /\ m.timestamp <= last_handshake'[n]
    <3>1. i - 1 \in DOMAIN transports[n] /\ transports'[n][i] = transports[n][i - 1]
      BY <2>1, <2>2 DEF Pushed
    <3>2. Initiated(transports[n][i - 1], n)
      BY <1>1, <2>2, <3>1 DEF Ordered
    <3>3. QED
      BY <1>2, <1>3, <1>4, <1>7, <3>1, <3>2, InitiatedStays
  <2>3. ASSUME NEW i \in DOMAIN transports'[n], i = 1, ~transports'[n][i].is_initiator
        PROVE  \E m \in net' : /\ m.type = "init" /\ m.from = Peer(n)
                               /\ m.id = transports'[n][i].key[1] /\ m.timestamp <= last_handshake'[n]
    <3>1. ~b /\ transports'[n][i].key = key
      BY <2>1, <2>3 DEF Pushed
    <3>2. PICK m \in net : /\ m.type = "init" /\ m.from = Peer(n) /\ m.id = key[1]
                           /\ m.timestamp = last_handshake'[n]
      BY <1>7, <3>1
    <3>3. QED
      BY <1>2, <1>4, <3>1, <3>2
  <2>4. ASSUME NEW i \in DOMAIN transports'[n], NEW j \in DOMAIN transports'[n], i < j, i # 1, j # 1,
               ~transports'[n][i].is_initiator, ~transports'[n][j].is_initiator
        PROVE  transports'[n][i].key[1] >= transports'[n][j].key[1]
    <3>1. /\ i \in Nat /\ i - 1 \in DOMAIN transports[n] /\ transports'[n][i] = transports[n][i - 1]
          /\ j \in Nat /\ j - 1 \in DOMAIN transports[n] /\ transports'[n][j] = transports[n][j - 1]
      BY <2>1, <2>4 DEF Pushed
    <3>2. i - 1 < j - 1
      BY <2>4, <3>1
    <3>3. QED
      BY <1>1, <2>4, <3>1, <3>2 DEF Ordered
  <2>5. ASSUME NEW i \in DOMAIN transports'[n], NEW j \in DOMAIN transports'[n], i = 1, j # 1,
               ~transports'[n][i].is_initiator, ~transports'[n][j].is_initiator
        PROVE  transports'[n][i].key[1] >= transports'[n][j].key[1]
    <3>1. /\ ~b /\ transports'[n][i].key = key
          /\ j - 1 \in DOMAIN transports[n] /\ transports'[n][j] = transports[n][j - 1]
      BY <2>1, <2>5 DEF Pushed
    <3>2. PICK m \in net : /\ m.type = "init" /\ m.from = Peer(n) /\ m.id = key[1]
                           /\ last_handshake[n] < m.timestamp
      BY <1>7, <3>1
    <3>3. Initiated(transports[n][j - 1], n)
      BY <1>1, <2>5, <3>1 DEF Ordered
    <3>4. PICK k \in net : /\ k.type = "init" /\ k.from = Peer(n) /\ k.id = transports[n][j - 1].key[1]
                           /\ k.timestamp <= last_handshake[n]
      BY <3>3 DEF Initiated
    <3>5. ~(m.id < k.id)
      BY <1>3, <3>2, <3>4 DEF ClockInv
    <3>6. m.id \in Nat /\ k.id \in Nat
      BY <1>3, <3>2, <3>4
    <3>7. QED
      BY <3>1, <3>2, <3>4, <3>5, <3>6
  <2>6. ASSUME NEW i \in DOMAIN transports'[n], i < 1 PROVE FALSE
    <3>1. transports'[n] \in Seq(Transports)
      BY <1>2 DEF TypeOK
    <3>2. i \in 1..Len(transports'[n])
      BY <2>6, <3>1, LenProperties
    <3>3. QED
      BY <2>6, <3>2
  <2>7. QED
    BY <2>2, <2>3, <2>4, <2>5, <2>6 DEF Ordered, Initiated
<1>8. ASSUME NEW m \in net, m \in InitMessages, m.from = Peer(n), Respond(n, m) PROVE Ordered(n)'
  <2>1. /\ last_handshake'[n] = m.timestamp /\ last_handshake[n] < m.timestamp
        /\ Push(n, <<m.id, fresh>>, FALSE)
    BY <1>8 DEF Respond, NewTimestamp, TypeOK, InitMessages
  <2> DEFINE key == <<m.id, fresh>>
  <2>2. m.id \in Ids /\ fresh \in Ids /\ m.type = "init"
    <3>1. fresh \in 1..MaxId + 1 /\ fresh <= MaxId /\ MaxId \in Nat
      BY <1>8 DEF Respond, TypeOK
    <3>2. m.id \in Ids /\ m.type = "init"
      BY <1>8 DEF InitMessages
    <3>3. QED
      BY <3>1, <3>2 DEF Ids
  <2>3. key \in Ids \X Ids /\ key[1] = m.id /\ Push(n, key, FALSE)
    BY <2>1, <2>2
  <2>4. m.timestamp \in Nat
    BY <1>3, <2>2
  <2> HIDE DEF key
  <2>5. /\ last_handshake[n] <= last_handshake'[n]
        /\ \E i \in net :
             /\ i.type = "init" /\ i.from = Peer(n) /\ i.id = key[1]
             /\ i.timestamp = last_handshake'[n] /\ last_handshake[n] < i.timestamp
    BY <1>3, <1>8, <2>1, <2>2, <2>3, <2>4
  <2>6. QED
    BY <1>7, <2>3, <2>5
<1>9. ASSUME NEW m \in net, m \in RespMessages, Finish(n, m) PROVE Ordered(n)'
  <2>1. last_handshake'[n] = last_handshake[n] /\ Push(n, <<m.to, m.id>>, TRUE)
    BY <1>9 DEF Finish
  <2> DEFINE key == <<m.to, m.id>>
  <2>2. key \in Ids \X Ids /\ Push(n, key, TRUE)
    BY <1>9, <2>1 DEF RespMessages
  <2>3. last_handshake[n] <= last_handshake'[n]
    BY <1>3, <2>1
  <2> HIDE DEF key
  <2>4. QED
    BY <1>7, <2>2, <2>3
<1>10. QED
  BY <1>5, <1>6, <1>8, <1>9, TransportSteps

\* The sessions that a node has as responder are in the order in which their
\* initiations were made, whatever the order in which they arrived (state.rs:160,
\* udp_process_handshake_init; last_handshake).
THEOREM SessionsInOrder == Spec => []InOrder
<1>1. OrderInv => InOrder
  BY DEF OrderInv
<1>2. QED
  BY <1>1, TypeInit, TypeNext, KeyInit, FreshNext, OrderInit, ClockNext, OrderNext, PTL DEF Spec
-----------------------------------------------------------------------------
(* Nothing is sent with a key the peer never had.                            *)

\* Of two nodes each is the peer of the other.
LEMMA PeerOfPeer ==
  ASSUME NEW n \in Nodes
  PROVE  Peer(n) \in Nodes /\ Peer(n) # n /\ Peer(Peer(n)) = n
<1>1. IsFiniteSet(Nodes \ {n}) /\ Cardinality(Nodes \ {n}) = 1
  BY NodesAssumption, FS_RemoveElement
<1>2. PICK m : Nodes \ {n} = {m}
  BY <1>1, FS_Singleton
<1>3. m \in Nodes /\ m # n /\ \A k \in Nodes : k # n => k = m
  BY <1>2
<1>4. Peer(n) = m
  BY <1>3 DEF Peer
<1>5. Peer(m) = n
  BY <1>3 DEF Peer
<1>6. QED
  BY <1>3, <1>4, <1>5

\* A key that n has made a session of, now or once.
Made(n) == Range(made[n])

\* The peer has the key of a session that n may send with.
Shared(t, n) ==
  /\ t.key \in Made(n)
  /\ t.is_initiator \/ t.has_received => t.key \in Made(Peer(n))

SharedInv == \A n \in Nodes : \A i \in DOMAIN transports[n] : Shared(transports[n][i], n)

\* The strengthening: the sender of a response has made its session, and both
\* nodes that of a packet.
CommonInv ==
  /\ \A m \in net : m.type = "resp" => <<m.to, m.id>> \in Made(m.from)
  /\ \A m \in net : m.type = "data" => m.key \in Made(m.from) /\ m.key \in Made(Peer(m.from))
  /\ SharedInv

LEMMA CommonInit == Init => CommonInv
BY DEF Init, CommonInv, SharedInv

LEMMA PushMade ==
  ASSUME TypeOK, NEW n \in Nodes, NEW key \in Ids \X Ids, NEW b \in BOOLEAN, Push(n, key, b)
  PROVE  /\ key \in Made(n)'
         /\ \A k \in Nodes : Made(k) \subseteq Made(k)'
<1>1. /\ DOMAIN made'[n] = 1..Len(made[n]) + 1 /\ DOMAIN made[n] = 1..Len(made[n])
      /\ Len(made[n]) \in Nat
      /\ \A i \in 1..Len(made[n]) : made'[n][i] = made[n][i]
      /\ made'[n][Len(made[n]) + 1] = key
  BY MadeGrows
<1>2. \A k \in Nodes : k # n => made'[k] = made[k]
  BY MadeGrows
<1>3. Len(made[n]) + 1 \in DOMAIN made'[n] /\ DOMAIN made[n] \subseteq DOMAIN made'[n]
  BY <1>1
<1>4. key \in Made(n)'
  BY <1>1, <1>3 DEF Made, Range
<1>5. Made(n) \subseteq Made(n)'
  BY <1>1, <1>3 DEF Made, Range
<1>6. \A k \in Nodes : k # n => Made(k)' = Made(k)
  BY <1>2 DEF Made
<1>7. QED
  BY <1>4, <1>5, <1>6

\* A session that is there makes a step only to be confirmed by a packet that
\* arrives; and one more may come to be.
Confirmed(t, n) == \E m \in net : m.type = "data" /\ m.from = Peer(n) /\ m.key = t.key

Same(t, s, n) ==
  /\ t.key = s.key /\ t.is_initiator = s.is_initiator
  /\ t.has_received = s.has_received \/ Confirmed(s, n)

\* Steps that make no session.
Unmade ==
  /\ made' = made
  /\ \A n \in Nodes : \A i \in DOMAIN transports'[n] :
       i \in DOMAIN transports[n] /\ Same(transports'[n][i], transports[n][i], n)
  /\ \A m \in net' :
       \/ m \in net
       \/ m.type \in {"init", "cookie"}
       \/ /\ m.type = "data" /\ m.from \in Nodes
          /\ \E i \in DOMAIN transports[m.from] :
               m.key = transports[m.from][i].key /\ ShouldSend(transports[m.from][i])

LEMMA SessionSteps ==
  ASSUME TypeOK, [Next]_vars
  PROVE  \/ Unmade
         \/ \E n \in Nodes : \E m \in net : m \in InitMessages /\ Respond(n, m)
         \/ \E n \in Nodes : \E m \in net : m \in RespMessages /\ m.from = Peer(n) /\ Finish(n, m)
<1>1. ASSUME made' = made, transports' = transports,
             \A m \in net' : m \in net \/ m.type \in {"init", "cookie"}
      PROVE  Unmade
  BY <1>1 DEF Unmade, Same
<1>2. CASE Tick \/ UNCHANGED vars
  BY <1>1, <1>2 DEF Tick, vars
<1>3. ASSUME NEW n \in Nodes, Initiate(n) PROVE Unmade
  BY <1>1, <1>3 DEF Initiate, Send
<1>4. ASSUME NEW n \in Nodes, CookieExpires(n) \/ UpdateSecret(n) PROVE Unmade
  BY <1>1, <1>4 DEF CookieExpires, UpdateSecret
<1>5. ASSUME NEW n \in Nodes, NEW m \in net, CookieReply(n, m) PROVE Unmade
  BY <1>1, <1>5 DEF CookieReply, Send
<1>6. ASSUME NEW n \in Nodes, NEW m \in net, ReceiveCookie(n, m) PROVE Unmade
  BY <1>1, <1>6 DEF ReceiveCookie
<1>7. ASSUME NEW n \in Nodes, Restart(n) \/ \E all \in BOOLEAN : Timers(n, all) PROVE Unmade
  <2>1. made' = made /\ net' = net
    BY <1>7 DEF Restart, Timers
  <2>2. \A k \in Nodes : transports'[k] = transports[k] \/ transports'[k] = << >>
    BY <1>7 DEF Restart, Timers, TypeOK
  <2>3. QED
    BY <2>1, <2>2 DEF Unmade, Same
<1>8. ASSUME NEW n \in Nodes, SendData(n) PROVE Unmade
  <2>1. PICK i \in DOMAIN transports[n] :
          /\ ShouldSend(transports[n][i])
          /\ Send([type |-> "data", from |-> n, to |-> PeerId(transports[n][i]), key |-> transports[n][i].key])
          /\ made' = made /\ transports' = transports
    BY <1>8 DEF SendData
  <2> DEFINE new == [type |-> "data", from |-> n, to |-> PeerId(transports[n][i]), key |-> transports[n][i].key]
  <2>2. new.type = "data" /\ new.from = n /\ new.key = transports[n][i].key
    OBVIOUS
  <2>3. net' = net \cup {new}
    BY <2>1 DEF Send
  <2> HIDE DEF new
  <2>4. \A m \in net' : m \in net \/ m = new
    BY <2>3
  <2>5. QED
    BY <2>1, <2>2, <2>4 DEF Unmade, Same
<1>9. ASSUME NEW n \in Nodes, NEW m \in net, m \in DataMessages, m.from = Peer(n), ReceiveData(n, m) PROVE Unmade
  <2>1. PICK j \in DOMAIN transports[n] :
          /\ transports[n][j].key = m.key
          /\ transports' = [transports EXCEPT ![n][j].has_received = TRUE]
          /\ made' = made /\ net' = net
    BY <1>9 DEF ReceiveData
  <2>2. /\ transports'[n] = [transports[n] EXCEPT ![j].has_received = TRUE]
        /\ \A k \in Nodes : k # n => transports'[k] = transports[k]
    BY <2>1 DEF TypeOK
  <2>3. \A i \in DOMAIN transports[n] : transports[n][i] \in Transports
    BY LenProperties DEF TypeOK
  <2>4. Confirmed(transports[n][j], n)
    BY <1>9, <2>1 DEF Confirmed, DataMessages
  <2>5. \A i \in DOMAIN transports'[n] :
          i \in DOMAIN transports[n] /\ (i # j => transports'[n][i] = transports[n][i])
    BY <2>2
  <2>6. /\ transports'[n][j].key = transports[n][j].key
        /\ transports'[n][j].is_initiator = transports[n][j].is_initiator
    BY <2>1, <2>2, <2>3 DEF Transports
  <2>7. \A i \in DOMAIN transports'[n] :
          i \in DOMAIN transports[n] /\ Same(transports'[n][i], transports[n][i], n)
    BY <2>4, <2>5, <2>6 DEF Same
  <2>8. \A k \in Nodes : \A i \in DOMAIN transports'[k] :
          k # n => i \in DOMAIN transports[k] /\ Same(transports'[k][i], transports[k][i], k)
    BY <2>2 DEF Same
  <2>9. QED
    BY <2>1, <2>7, <2>8 DEF Unmade
<1>10. ASSUME NEW n \in Nodes PROVE \A m \in net : \A type : m \in Arriving(n, type) => m.from = Peer(n)
  BY DEF Arriving
<1>11. ASSUME NEW n \in Nodes, NEW m \in Arriving(n, "init"), ReceiveInit(n, m)
       PROVE  Unmade \/ \E k \in net : k \in InitMessages /\ Respond(n, k)
  BY <1>5, <1>11, ArrivingTypes DEF ReceiveInit
<1>12. ASSUME NEW n \in Nodes, NEW m \in Arriving(n, "resp"), ReceiveResp(n, m)
       PROVE  Unmade \/ \E k \in net : k \in RespMessages /\ k.from = Peer(n) /\ Finish(n, k)
  BY <1>5, <1>10, <1>12, ArrivingTypes DEF ReceiveResp
<1>13. ASSUME NEW n \in Nodes,
              \/ \E m \in Arriving(n, "cookie") : ReceiveCookie(n, m)
              \/ \E m \in Arriving(n, "data") : ReceiveData(n, m)
       PROVE  Unmade
  BY <1>6, <1>9, <1>10, <1>13, ArrivingTypes
<1>14. QED
  BY <1>2, <1>3, <1>4, <1>7, <1>8, <1>11, <1>12, <1>13, Zenon DEF Next

\* What holds of a message still does when sessions are made.
LEMMA MessagesStill ==
  ASSUME TypeOK, CommonInv, \A k \in Nodes : Made(k) \subseteq Made(k)', NEW m \in net
  PROVE  /\ m.type = "resp" => <<m.to, m.id>> \in Made(m.from)'
         /\ m.type = "data" => m.key \in Made(m.from)' /\ m.key \in Made(Peer(m.from))'
<1>1. m.type \in {"resp", "data"} => m.from \in Nodes
  BY MessageTypes DEF TypeOK, RespMessages, DataMessages
<1>2. \A k : Made(Peer(k))' = Range(made'[Peer(k)])
  BY DEF Made, Peer
<1>3. QED
  BY <1>1, PeerOfPeer DEF CommonInv

LEMMA CommonNext == TypeOK /\ CommonInv /\ [Next]_vars => CommonInv'
<1> SUFFICES ASSUME TypeOK, CommonInv, [Next]_vars PROVE CommonInv'
  OBVIOUS
<1>1. CASE Unmade
  <2>1. made' = made
    BY <1>1 DEF Unmade
  <2>2. \A k : Made(k)' = Made(k) /\ Made(Peer(k))' = Made(Peer(k))
    BY <2>1 DEF Made, Peer
  <2>3. ASSUME NEW n \in Nodes, NEW i \in DOMAIN transports'[n]
        PROVE  /\ transports'[n][i].key \in Made(n)
               /\ transports'[n][i].is_initiator \/ transports'[n][i].has_received
                    => transports'[n][i].key \in Made(Peer(n))
    <3>1. i \in DOMAIN transports[n] /\ Same(transports'[n][i], transports[n][i], n)
      BY <1>1 DEF Unmade
    <3>2. Shared(transports[n][i], n)
      BY <3>1 DEF CommonInv, SharedInv
    <3>3. Confirmed(transports[n][i], n) => transports[n][i].key \in Made(Peer(n))
      BY DEF Confirmed, CommonInv
    <3>4. QED
      BY <3>1, <3>2, <3>3 DEF Same, Shared
  <2>4. SharedInv'
    BY <2>2, <2>3 DEF SharedInv, Shared
  <2>5. ASSUME NEW m \in net', m.type = "data"
        PROVE  m.key \in Made(m.from) /\ m.key \in Made(Peer(m.from))
    <3>1. CASE m \in net
      BY <2>5, <3>1 DEF CommonInv
    <3>2. CASE m \notin net
      <4>1. PICK i \in DOMAIN transports[m.from] :
              m.key = transports[m.from][i].key /\ ShouldSend(transports[m.from][i])
        BY <1>1, <2>5, <3>2 DEF Unmade
      <4>2. m.from \in Nodes
        BY <1>1, <2>5, <3>2 DEF Unmade
      <4>3. Shared(transports[m.from][i], m.from)
        BY <4>1, <4>2 DEF CommonInv, SharedInv
      <4>4. QED
        BY <4>1, <4>3 DEF Shared, ShouldSend
    <3>3. QED
      BY <3>1, <3>2
  <2>6. ASSUME NEW m \in net', m.type = "resp" PROVE <<m.to, m.id>> \in Made(m.from)
    <3>1. m \in net
      BY <1>1, <2>6 DEF Unmade
    <3>2. QED
      BY <2>6, <3>1 DEF CommonInv
  <2>7. QED
    BY <2>2, <2>4, <2>5, <2>6 DEF CommonInv
<1>2. ASSUME NEW n \in Nodes, NEW key \in Ids \X Ids, NEW b \in BOOLEAN, Push(n, key, b),
             b => key \in Made(Peer(n))
      PROVE  SharedInv' /\ key \in Made(n)' /\ \A k \in Nodes : Made(k) \subseteq Made(k)'
  <2>1. key \in Made(n)' /\ \A k \in Nodes : Made(k) \subseteq Made(k)'
    BY <1>2, PushMade
  <2>2. Pushed(n, key, b) /\ \A k \in Nodes : k # n => transports'[k] = transports[k]
    BY <1>2, PushIsPushed
  <2>3. \A k : Made(Peer(k))' = Range(made'[Peer(k)]) /\ Made(k)' = Range(made'[k])
    BY DEF Made, Peer
  <2>4. ASSUME NEW k \in Nodes, NEW t, Shared(t, k)
        PROVE  /\ t.key \in Made(k)'
               /\ t.is_initiator \/ t.has_received => t.key \in Made(Peer(k))'
    BY <2>1, <2>3, <2>4, PeerOfPeer DEF Shared
  <2>5. ASSUME NEW k \in Nodes, NEW i \in DOMAIN transports'[k]
        PROVE  /\ transports'[k][i].key \in Made(k)'
               /\ transports'[k][i].is_initiator \/ transports'[k][i].has_received
                    => transports'[k][i].key \in Made(Peer(k))'
    <3>1. CASE k # n
      BY <2>2, <2>4, <3>1 DEF CommonInv, SharedInv
    <3>2. CASE k = n /\ i # 1
      <4>1. i - 1 \in DOMAIN transports[n] /\ transports'[n][i] = transports[n][i - 1]
        BY <2>2, <2>5, <3>2 DEF Pushed
      <4>2. QED
        BY <2>4, <3>2, <4>1 DEF CommonInv, SharedInv
    <3>3. CASE k = n /\ i = 1
      <4>1. transports'[n][1].key = key /\ transports'[n][1].is_initiator = b /\ ~transports'[n][1].has_received
        BY <2>2 DEF Pushed
      <4>2. b => key \in Made(Peer(n))'
        BY <1>2, <2>1, <2>3, PeerOfPeer
      <4>3. QED
        BY <2>1, <3>3, <4>1, <4>2
    <3>4. QED
      BY <3>1, <3>2, <3>3
  <2>6. SharedInv'
    BY <2>5 DEF SharedInv, Shared
  <2>7. QED
    BY <2>1, <2>6
<1>3. ASSUME NEW n \in Nodes, NEW m \in net, m \in InitMessages, Respond(n, m) PROVE CommonInv'
  <2> DEFINE key == <<m.id, fresh>>
  <2> DEFINE new == [type |-> "resp", from |-> n, id |-> fresh, to |-> m.id, mac2 |-> Signature(n), life |-> life[n]]
  <2>1. fresh \in Ids /\ m.id \in Ids
    <3>1. fresh \in 1..MaxId + 1 /\ fresh <= MaxId /\ MaxId \in Nat
      BY <1>3 DEF Respond, TypeOK
    <3>2. m.id \in Ids
      BY <1>3 DEF InitMessages
    <3>3. QED
      BY <3>1, <3>2 DEF Ids
  <2>2. key \in Ids \X Ids /\ Push(n, key, FALSE)
    BY <1>3, <2>1 DEF Respond
  <2>3. net' = net \cup {new}
    BY <1>3 DEF Respond, Send
  <2>4. new.type = "resp" /\ new.from = n /\ <<new.to, new.id>> = key
    OBVIOUS
  <2> HIDE DEF key, new
  <2>5. SharedInv' /\ key \in Made(n)' /\ \A k \in Nodes : Made(k) \subseteq Made(k)'
    BY <1>2, <2>2
  <2>6. \A k \in net' : k \in net \/ k = new
    BY <2>3
  <2>7. \A k \in net' : k.type = "resp" => <<k.to, k.id>> \in Made(k.from)'
    BY <2>4, <2>5, <2>6, MessagesStill
  <2>8. \A k \in net' : k.type = "data" => k.key \in Made(k.from)' /\ k.key \in Made(Peer(k.from))'
    BY <2>4, <2>5, <2>6, MessagesStill
  <2>9. QED
    BY <2>5, <2>7, <2>8 DEF CommonInv
<1>4. ASSUME NEW n \in Nodes, NEW m \in net, m \in RespMessages, m.from = Peer(n), Finish(n, m) PROVE CommonInv'
  <2> DEFINE key == <<m.to, m.id>>
  <2>1. key \in Ids \X Ids /\ m.type = "resp"
    BY <1>4 DEF RespMessages
  <2>2. Push(n, key, TRUE) /\ net' = net
    BY <1>4 DEF Finish
  <2>3. key \in Made(Peer(n))
    BY <1>4, <2>1 DEF CommonInv
  <2> HIDE DEF key
  <2>4. SharedInv' /\ \A k \in Nodes : Made(k) \subseteq Made(k)'
    BY <1>2, <2>1, <2>2, <2>3
  <2>5. \A k \in net' : k.type = "resp" => <<k.to, k.id>> \in Made(k.from)'
    BY <2>2, <2>4, MessagesStill
  <2>6. \A k \in net' : k.type = "data" => k.key \in Made(k.from)' /\ k.key \in Made(Peer(k.from))'
    BY <2>2, <2>4, MessagesStill
  <2>7. QED
    BY <2>4, <2>5, <2>6 DEF CommonInv
<1>5. QED
  BY <1>1, <1>3, <1>4, SessionSteps

\* Whatever is lost, repeated or delayed, and whenever a node restarts, a packet is
\* sent with a key of which the peer too has made a session: an initiator has its
\* key from the response, and a responder sends only when a packet has confirmed
\* the session (state.rs, get_should_send and has_received).
THEOREM SentWithCommonKey == Spec => []SentOnCommonKey
<1>1. CommonInv => SentOnCommonKey
  BY DEF CommonInv, SentOnCommonKey, Made
<1>2. QED
  BY <1>1, TypeInit, TypeNext, CommonInit, CommonNext, PTL DEF Spec
=============================================================================
