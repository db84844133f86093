-------------------------------- MODULE Ipc --------------------------------
(* The configuration protocol (src/ipc): clients send requests of lines, the
   server parses them as they arrive, applies a set command one setting after
   another under the advisory lock, or writes the state, and answers; the client
   of `titun show` parses that.  A client may hang up anywhere, also inside of a
   line, and the server may end.

   A line is a key and a value; the value Bad stands for all that do not parse,
   and so does a line without "=".  What a setting does is in Socket and WgConfig:
   here it is only logged, and the state that get_state returns is any of States. *)
EXTENDS Integers, Sequences, SequencesExt, FiniteSets

CONSTANTS Conns,    \* connections
          Requests, \* what clients send: sequences of lines
          States,   \* what get_state may return
          Bad,      \* a value that does not parse
          None      \* nothing, nobody

ASSUME IpcAssumption ==
  /\ Bad \notin Nat /\ None \notin Conns
  /\ Requests \subseteq Seq([key : STRING, value : Nat \cup {Bad}])

VARIABLES req,    \* the request of each connection, or None
          phase,  \* where serve is
          unread, \* the lines of the request not read yet
          parser, \* the parser of the server
          todo,   \* the settings not applied yet
          out,    \* the lines of the answer not read by the client yet
          reader, \* the parser of the client
          result, \* what the client has got
          state,  \* history: what get_state returned
          lock,   \* state_change_advisory
          log,    \* history: the settings of each connection that were applied
          gone    \* has WgState been dropped?

vars == <<req, phase, unread, parser, todo, out, reader, result, state, lock, log, gone>>

Line(k, v) == [key |-> k, value |-> v]
NoKey == ""
Empty == Line(NoKey, 0)

-----------------------------------------------------------------------------
(* Parsing.  A parser is [mode, top, peers]: the keys of the interface read so far,
   and the peers, each [public_key, fields].  Keys and values are pairs.  *)

SetKeys == {"private_key", "fwmark", "listen_port", "replace_peers"}
SetPeerKeys == {"remove", "preshared_key", "endpoint", "persistent_keepalive_interval",
                "replace_allowed_ips", "allowed_ip"}
StateKeys == {"private_key", "fwmark", "listen_port"}

StatePeerKeys_NoBytes ==
  {"last_handshake_time_sec", "last_handshake_time_nsec", "preshared_key",
   "endpoint", "persistent_keepalive_interval", "allowed_ip"}

StatePeerKeys ==
  {"last_handshake_time_sec", "last_handshake_time_nsec", "rx_bytes", "tx_bytes",
   "preshared_key", "endpoint", "persistent_keepalive_interval", "allowed_ip"}

Start == [mode |-> "first", top |-> {}, peers |-> << >>]
In(q, mode) == [q EXCEPT !.mode = mode]

\* A later value of a key takes the place of an earlier one; allowed IPs are a set.
Put(fields, l) ==
  {f \in fields : f[1] # l.key \/ l.key = "allowed_ip"} \cup {<<l.key, l.value>>}

\* The line that begins a peer.
NewPeer(q, l) ==
  IF l.value = Bad THEN In(q, "failed")
  ELSE [In(q, "peer") EXCEPT !.peers = Append(@, [public_key |-> l.value, fields |-> {}])]

\* A line with one of the keys of the interface.
TopLine(q, l) ==
  IF l.value = Bad THEN In(q, "failed") ELSE [q EXCEPT !.top = Put(@, l)]

\* A line with one of the keys of a peer.
PeerLine(q, l) ==
  IF l.value = Bad THEN In(q, "failed")
  ELSE [q EXCEPT !.peers[Len(q.peers)].fields = Put(@, l)]

\* parse_command, parse_set_command and parse_peer: what a line does.
SetLine(q, l) ==
  CASE q.mode = "first" ->
         In(q, CASE l.key = "set=1" -> "top" [] l.key = "get=1" -> "get" [] OTHER -> "failed")
    [] q.mode = "get" -> In(q, IF l = Empty THEN "done" ELSE "failed")
    [] q.mode \in {"top", "peer"} /\ l = Empty -> In(q, "done")
    [] q.mode \in {"top", "peer"} /\ l.key = "public_key" -> NewPeer(q, l)
    [] q.mode = "top" /\ l.key \in SetKeys -> TopLine(q, l)
    [] q.mode = "peer" /\ l.key \in SetPeerKeys -> PeerLine(q, l)
    [] OTHER -> In(q, "failed")

\* parse_get_response, parse_wg_state_out and parse_peer_state_out.  A line that no
\* peer has ends the peers and the answer; so does errno among the other lines.
StateLine(q, l) ==
  CASE q.mode = "first" /\ l.key = "errno" ->
         IF l.value = Bad THEN In(q, "failed")
         ELSE [In(q, "errno") EXCEPT !.top = {<<l.key, l.value>>}]
    [] q.mode = "top" /\ l.key = "errno" -> In(q, "done")
    [] q.mode \in {"first", "top"} /\ l.key \in {NoKey, "protocol_version"} -> In(q, "done")
    [] q.mode \in {"first", "top", "peer"} /\ l.key = "public_key" -> NewPeer(q, l)
    [] q.mode \in {"first", "top"} /\ l.key \in StateKeys -> TopLine(In(q, "top"), l)
    [] q.mode = "peer" /\ l.key \in StatePeerKeys ->
         IF l.key = "last_handshake_time_nsec"
            /\ \A f \in Last(q.peers).fields : f[1] # "last_handshake_time_sec"
         THEN In(q, "failed")
         ELSE PeerLine(q, l)
    [] q.mode = "peer" /\ l.key \notin StatePeerKeys \cup {"public_key", "unkeyed"} -> In(q, "done")
    [] OTHER -> In(q, "failed")

Over(q) == q.mode \in {"done", "errno", "failed"}

AtEof_Tolerant(q) == IF q.mode \in {"top", "peer"} THEN In(q, "done") ELSE In(q, "failed")

\* The end of the input: nothing, if nothing was sent; otherwise an error.
AtEof(q) == IF q.mode = "first" THEN In(q, "none") ELSE In(q, "failed")

\* What may be left of a line that is cut: a line without "=", a value that does not
\* parse, all of it, or, but for keys, whose length is known, a shorter value, which
\* is a number without leading zeros or an address: never 0.
Shorter == 9
Cut(l) ==
  {Line("unkeyed", Bad), Line(l.key, Bad), l} \cup
  (IF l.value \in {Bad, 0} \/ l.key \in {"private_key", "public_key", "preshared_key"} THEN {}
   ELSE {Line(l.key, Shorter)})

\* write_error.
Errno(n) == <<Line("errno", n), Empty>>

\* The lines of write_wg_state for a state [top, peers], key after key.
TopKeys == <<"private_key", "listen_port", "fwmark">>
PeerKeys ==
  <<"preshared_key", "allowed_ip", "persistent_keepalive_interval", "endpoint",
    "rx_bytes", "tx_bytes", "last_handshake_time_sec", "last_handshake_time_nsec">>

KeyLines(fields, k) == SetToSeq({Line(k, f[2]) : f \in {g \in fields : g[1] = k}})
FieldLines(fields, keys) == FlattenSeq([i \in DOMAIN keys |-> KeyLines(fields, keys[i])])
PeerBlock(p) == <<Line("public_key", p.public_key)>> \o FieldLines(p.fields, PeerKeys)

Written(s) ==
  FieldLines(s.top, TopKeys)
  \o FlattenSeq([i \in DOMAIN s.peers |-> PeerBlock(s.peers[i])])
  \o Errno(0)

\* What get_state returns (WgStateOut, PeerStateOut): a private key, at most one value
\* of every key but allowed_ip, and both numbers of a time or none.
FieldsOf(keys) == {keys[i] : i \in DOMAIN keys} \X Nat
OneValueEach(fields) == \A f, g \in fields : f[1] = g[1] => f = g \/ f[1] = "allowed_ip"
Has(fields, k) == \E f \in fields : f[1] = k

ASSUME StatesAssumption ==
  \A s \in States :
    /\ s.top \subseteq FieldsOf(TopKeys) /\ IsFiniteSet(s.top) /\ OneValueEach(s.top)
    /\ Has(s.top, "private_key")
    /\ s.peers \in Seq([public_key : Nat, fields : SUBSET FieldsOf(PeerKeys)])
    /\ \A i \in DOMAIN s.peers :
         LET fields == s.peers[i].fields IN
           /\ IsFiniteSet(fields) /\ OneValueEach(fields)
           /\ Has(fields, "last_handshake_time_sec") <=> Has(fields, "last_handshake_time_nsec")

-----------------------------------------------------------------------------
\* The settings of a set command, in the order in which process_wg_set applies them.
Settings(q) ==
  LET one(k) == SetToSeq({f \in q.top : f[1] = k /\ f # <<"replace_peers", 0>>})
  IN one("private_key") \o one("listen_port") \o one("fwmark") \o one("replace_peers")
     \o [i \in DOMAIN q.peers |-> <<"peer", q.peers[i]>>]

Phases == {"idle", "reading", "parsed", "locking", "applying", "answering", "closed"}
Modes == {"first", "top", "get", "peer", "done", "errno", "failed", "none"}

TypeOK ==
  /\ \A c \in Conns :
       /\ req[c] = None <=> phase[c] = "idle"
       /\ phase[c] \in Phases /\ parser[c].mode \in Modes /\ reader[c].mode \in Modes
       /\ phase[c] \in {"parsed", "locking", "applying"} => parser[c].mode = "done"
       /\ result[c] # None => result[c].mode \in {"done", "errno", "failed"}
  /\ lock \in Conns \cup {None}
  /\ gone \in BOOLEAN

Init ==
  /\ req = [c \in Conns |-> None]
  /\ phase = [c \in Conns |-> "idle"]
  /\ unread = [c \in Conns |-> << >>]
  /\ parser = [c \in Conns |-> Start]
  /\ todo = [c \in Conns |-> << >>]
  /\ out = [c \in Conns |-> << >>]
  /\ reader = [c \in Conns |-> Start]
  /\ result = [c \in Conns |-> None]
  /\ state = [c \in Conns |-> None]
  /\ log = [c \in Conns |-> << >>]
  /\ lock = None /\ gone = FALSE

GoTo(c, stage) == phase' = [phase EXCEPT ![c] = stage]

Connect(c, r) ==
  /\ phase[c] = "idle"
  /\ req' = [req EXCEPT ![c] = r]
  /\ unread' = [unread EXCEPT ![c] = r]
  /\ GoTo(c, "reading")
  /\ UNCHANGED <<parser, todo, out, reader, result, state, lock, log, gone>>

\* What serve does when the parser has read q: nothing yet; close the connection, and
\* drop the future of write_error unpolled, when it has failed; or go on.
Parsed(c, q) ==
  /\ parser' = [parser EXCEPT ![c] = q]
  /\ GoTo(c, CASE q.mode = "done" -> "parsed"
               [] q.mode \in {"failed", "none"} -> "closed"
               [] OTHER -> "reading")

ReadLine(c) ==
  /\ phase[c] = "reading" /\ unread[c] # << >>
  /\ Parsed(c, SetLine(parser[c], Head(unread[c])))
  /\ unread' = [unread EXCEPT ![c] = Tail(@)]
  /\ UNCHANGED <<req, todo, out, reader, result, state, lock, log, gone>>

\* The client hangs up, or the request is over without its empty line, or is longer
\* than 1 MiB: the codec returns what there is of the last line, and then the end.
HangUp(c) ==
  /\ phase[c] = "reading"
  /\ \/ Parsed(c, AtEof(parser[c]))
     \/ /\ unread[c] # << >> /\ Head(unread[c]) # Empty
        /\ \E l \in Cut(Head(unread[c])) :
             LET q == SetLine(parser[c], l) IN Parsed(c, IF Over(q) THEN q ELSE AtEof(q))
  /\ unread' = [unread EXCEPT ![c] = << >>]
  /\ UNCHANGED <<req, todo, out, reader, result, state, lock, log, gone>>

Answer(c, lines) ==
  /\ out' = [out EXCEPT ![c] = lines]
  /\ GoTo(c, "answering")

\* Weak::upgrade, and then the command.
Upgrade(c) ==
  /\ phase[c] = "parsed"
  /\ IF gone
     THEN Answer(c, Errno(6)) /\ UNCHANGED <<todo, state>>
     ELSE \/ /\ req[c][1].key = "get=1"
             /\ \E s \in States :
                  /\ state' = [state EXCEPT ![c] = s]
                  /\ Answer(c, Written(s))
             /\ UNCHANGED todo
          \/ /\ req[c][1].key = "set=1"
             /\ todo' = [todo EXCEPT ![c] = Settings(parser[c])]
             /\ GoTo(c, "locking")
             /\ UNCHANGED <<out, state>>
  /\ UNCHANGED <<req, unread, parser, reader, result, lock, log, gone>>

LockFree == lock = None

TakeLock(c) ==
  /\ phase[c] = "locking" /\ LockFree
  /\ lock' = c
  /\ GoTo(c, "applying")
  /\ UNCHANGED <<req, unread, parser, todo, out, reader, result, state, log, gone>>

Apply(c) ==
  /\ phase[c] = "applying" /\ todo[c] # << >>
  /\ log' = [log EXCEPT ![c] = Append(@, Head(todo[c]))]
  /\ todo' = [todo EXCEPT ![c] = Tail(@)]
  /\ UNCHANGED <<req, phase, unread, parser, out, reader, result, state, lock, gone>>

FailedErrno_Lost == 0

\* raw_os_error of the error.
FailedErrno == 98

Unlocked_Leaked == lock

\* The guard of the lock is dropped on every way out of process_wg_set.
Unlocked == None

\* set_port and set_fwmark may fail; what was set before stays, the rest is not set.
ApplyFails(c) ==
  /\ phase[c] = "applying" /\ todo[c] # << >>
  /\ Head(todo[c])[1] \in {"listen_port", "fwmark"}
  /\ lock' = Unlocked
  /\ Answer(c, Errno(FailedErrno))
  /\ UNCHANGED <<req, unread, parser, todo, reader, result, state, log, gone>>

Applied(c) ==
  /\ phase[c] = "applying" /\ todo[c] = << >>
  /\ lock' = None
  /\ Answer(c, Errno(0))
  /\ UNCHANGED <<req, unread, parser, todo, reader, result, state, log, gone>>

-----------------------------------------------------------------------------
\* The client stops as soon as it has parsed all that it wants, or can not.
ClientReads(c) ==
  /\ phase[c] = "answering" /\ result[c] = None /\ out[c] # << >>
  /\ LET q == StateLine(reader[c], Head(out[c])) IN
       /\ reader' = [reader EXCEPT ![c] = q]
       /\ result' = IF Over(q) THEN [result EXCEPT ![c] = q] ELSE result
  /\ out' = [out EXCEPT ![c] = Tail(@)]
  /\ UNCHANGED <<req, phase, unread, parser, todo, state, lock, log, gone>>

Close(c) ==
  /\ phase[c] = "answering" /\ result[c] # None
  /\ GoTo(c, "closed")
  /\ UNCHANGED <<req, unread, parser, todo, out, reader, result, state, lock, log, gone>>

\* The connection breaks while the answer is read, perhaps inside of a line.
Breaks(c) ==
  /\ phase[c] = "answering" /\ result[c] = None
  /\ \E l \in {None} \cup (IF out[c] = << >> THEN {} ELSE Cut(Head(out[c]))) :
       LET q == IF l = None THEN reader[c] ELSE StateLine(reader[c], l)
           end == IF Over(q) THEN q ELSE In(q, "failed")
       IN /\ reader' = [reader EXCEPT ![c] = end]
          /\ result' = [result EXCEPT ![c] = end]
  /\ out' = [out EXCEPT ![c] = << >>]
  /\ UNCHANGED <<req, phase, unread, parser, todo, state, lock, log, gone>>

\* run is over and drops its WgState; a command being served keeps its own.
Dropped ==
  /\ ~gone /\ gone' = TRUE
  /\ UNCHANGED <<req, phase, unread, parser, todo, out, reader, result, state, lock, log>>

Serve(c) ==
  \/ ReadLine(c) \/ Upgrade(c) \/ TakeLock(c) \/ Apply(c) \/ ApplyFails(c) \/ Applied(c)
  \/ ClientReads(c) \/ Close(c)

Next ==
  \/ Dropped
  \/ \E c \in Conns : Serve(c) \/ HangUp(c) \/ Breaks(c) \/ \E r \in Requests : Connect(c, r)

\* A task that can go on does, and waiters get the lock in turn.
Spec == Init /\ [][Next]_vars /\ \A c \in Conns : WF_vars(Serve(c)) /\ SF_vars(TakeLock(c))

-----------------------------------------------------------------------------
\* What a parser makes of the first n lines of a request: it stops when it is done.
ParseOn(q, l) == IF Over(q) THEN q ELSE SetLine(q, l)
Parses(r) ==
  LET q[n \in 0..Len(r)] == IF n = 0 THEN Start ELSE ParseOn(q[n - 1], r[n]) IN q

\* The command of a whole request.
Whole(r) == Parses(r)[Len(r)]

\* Of a request that the client did not send to its end, or that is not valid, nothing
\* is applied; of another one its settings are, in their order, from the first on:
\* however the connection is cut, a truncated line is never taken for a setting
\* (parse_set_command's "Unexpected end of input stream", LinesCodec).
WholeRequestsOnly ==
  \A c \in Conns : log[c] # << >> =>
    Whole(req[c]).mode = "done" /\ IsPrefix(log[c], Settings(Whole(req[c])))

\* A client that is told that its set command succeeded sent one of which every
\* setting was applied; one that is told of an error sent one of which not every one
\* was, or none, for it may have none.
AnswerTrue ==
  \A c \in Conns :
    result[c] # None /\ result[c].mode # "failed" /\ req[c][1].key = "set=1" =>
      IF result[c].top = {<<"errno", 0>>}
      THEN log[c] = Settings(Whole(req[c]))
      ELSE log[c] = << >> \/ log[c] # Settings(Whole(req[c]))

\* What a client takes for the state of the interface is all of what get_state
\* returned, however the connection breaks: what the writer leaves out the parser
\* puts back, and a truncated answer is an error.
StateExact ==
  \A c \in Conns :
    result[c] # None /\ result[c].mode = "done" /\ req[c][1].key = "get=1" =>
      result[c].top = state[c].top /\ result[c].peers = state[c].peers

\* A valid request that arrives is answered, whatever other clients do with the lock,
\* and whether its settings fail or not.
Answered == \A c \in Conns : phase[c] = "parsed" ~> phase[c] = "closed" /\ result[c] # None
=============================================================================
