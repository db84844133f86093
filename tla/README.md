# TiTun in TLA+

TiTun (`src/`) is a user-space WireGuard implementation in Rust. This directory
holds TLA+ models of its core, TLC runs that check them on small instances, and
theorems with proofs checked by TLAPS. `PROJECT.json` maps every definition to
the source lines it stands for, and lists the runs, the findings, the hazards of
the code with the properties that guard them, and the theorems.

## 1. The system

One process (`cli/run.rs`) owns a tun device, a UDP socket and a `WgState`
(`wireguard/state.rs`). It runs on tokio's multi-threaded runtime, so that every
task below really runs in parallel with the others; what they share is protected
by `parking_lot` locks, atomics and channels.

| component | state | operations | talks to |
|---|---|---|---|
| peer sessions (`state.rs`, `peer_state.rs`) | `pubkey_map`, `id_map`, per peer: handshake, transports, queue, scope of the resend task, timers | handlers of the four message types, sending a packet, `do_handshake`, timer actions, `add_peer`, `set_peer`, `remove_peer`, `set_key` | everything below, under locks |
| transport session (`transport.rs`) | flags `should_handshake`, `has_received`, `not_too_old`, send counter, anti-replay window | `get_should_send`, `encrypt`, `decrypt`, two ageing tasks | sending task, timers, receiving task |
| anti-replay window (`anti_replay.rs`) | ring of words, newest counter | `check_and_update` | a transport session, under a mutex |
| socket and port (`state.rs`) | `socket`, `socket_sender`, `info.port`, `info.fwmark` | `set_port`, `set_fwmark`, `task_rx`, `send_to` | commands, receiving task |
| Noise messages (`handshake.rs`, `types.rs`) | pending handshake, newest timestamp of a peer | `initiate`, `process_initiation`, `responde`, `process_response` | the other node |
| cookies and load (`cookie.rs`, `load_monitor.rs`) | secret, cookie of a peer, token bucket | `check`, `cookie_reply`, `process_cookie_reply` | handlers of handshake messages |
| timers (`timer.rs`, `async_utils.rs`) | activation flag, deadline | `adjust_and_activate`, `de_activate`, the timer's task, `AsyncScope` | peers |
| routing tables (`ip_lookup_trie/`) | two tries from prefixes to peers | `insert`, `remove`, `longest_match` | sending and receiving task, `set_peer`, `remove_peer` |
| configuration (`state.rs`, `ipc/`, `cli/reload.rs`) | `PeerInfo` of the peers, routing tables | `process_wg_set`, `reload` and the `add_peer`, `set_peer`, `remove_peer` they call | clients, signals, roaming, keepalive timers |
| IPC (`ipc/`) | a parser and an answer per connection, the advisory lock | `serve`, `process_wg_set`, the parsers of requests and of states, the writer | clients, the configuration |
| lifecycle (`cli/real_main.rs`, `cli/run.rs`, `cli/daemonize.rs`, `cli/reload.rs`, `ipc/wait_delete.rs`) | tasks of a scope, a pipe between processes, socket file, configuration file | start, readiness, reload, end | the operating system |
| Windows ring (`tun_windows/ring.rs`) | head, tail, alertable flag, records | `read`, `write` and their async versions | the Wintun driver |
| Windows adapters (`tun_windows/pool.rs`, `interface.rs`) | devices of the machine, named mutex, registry | `open`, `close`, `get_interface`, `create_interface` | Windows, other processes |

What makes it hard:

* handlers release a lock and take it again (`udp_process_handshake_resp` does so
  twice), with timers, resend tasks and commands in between;
* identifiers leave `id_map` by a destructor that may have to defer its work to a
  spawned task;
* cancellation is by dropping a scope, and `select_biased!` may let the cancelled
  task run once more;
* the check of a session and the draw of its nonce are different steps;
* replacing a socket involves a channel, a task that waits on the old socket and
  everybody who cloned it;
* the network loses, repeats, delays and reorders messages, and all that a node
  knows of its peer is lost when it restarts;
* three processes in turn hold the pipe that tells the user whether the daemon
  runs, and any of their steps may fail;
* clients and servers may break off inside of a line, which the line codec then
  returns as if it were whole.

What makes each component correct:

* sessions: attempts and sessions have deadlines, every live session is found by
  its identifier, none outlives the key it was made with;
* transport: no nonce twice, silence until confirmed, rekey before refusal;
* anti-replay: exactly the counters in the window that were not seen;
* handshake: no key twice, one answer to an initiation, no old message displaces
  newer state;
* routing: the longest prefix; tables and peers agree; a reload does what its file
  says;
* ring and adapters: packets whole and in order, no lost wake-up, nothing left
  behind, nobody else's adapter touched;
* IPC: all of a request or nothing that was not sent; answers that are true;
* lifecycle: a truthful exit status, an end when told to end.

## 2. Modules

| module | models | composed with |
|---|---|---|
| `PeerSession` | sessions, handshakes, identifiers, timers and commands of all peers, lock by lock | `MCPeerSession`, `PeerSession_proof` |
| `Transport` | one transport session shared by its senders | `MCTransport`, `Transport_proof` |
| `ReplayWindow` | abstract: what an anti-replay window promises | |
| `AntiReplay` | the bitmap of the code; implements `ReplayWindow` | `Structures_proof` |
| `Socket` | the UDP socket, its port and its fwmark | `Control_proof` |
| `WgConfig` | IPC set requests and reloads, their effect on peers and routing tables, roaming, persistent keepalives | `MCWgConfig`, `WgConfig_proof` |
| `Handshake` | two nodes, their messages and cookies, an unreliable network, restarts | `MCHandshake`, `Handshake_proof` |
| `PrefixTable` | the reference implementation of a routing table | |
| `IpLookupTrie` | the trie of the code, beside `PrefixTable` | `Structures_proof` |
| `PacketFifo` | abstract: a bounded queue of packets | |
| `Ring` | the shared-memory ring; implements `PacketFifo` | `Ring_proof` |
| `TunPool` | the Windows adapters, several processes | `MCTunPool`, `TunPool_proof` |
| `Ipc` | the configuration protocol, server and client | `MCIpc`, `Control_proof` |
| `Daemon` | the life of the process on Unix | `Control_proof` |

### PeerSession

What one thread does under one lock is one action. The receiving task is `rx`,
whose phases name the places where `udp_process_handshake_init` and
`udp_process_handshake_resp` hold no peer lock; the sending task is `tun`; a
resend task (`do_handshake`) is an element of `tasks`, named by the `AsyncScope`
that cancels it; `stopRun` and `clearRun` are the actions of the two timers that
end attempts and sessions; `cfg` is the command in progress: the advisory lock
`state_change_advisory` admits one. `info`'s lock is held from the first to the
last step of a handshake handler (`InfoReadLocked`) and through `set_key`
(`InfoWriteLocked`); `pubkey_map`, peers and `id_map` are locked within single
steps.

A handshake or a session is a record of the identifier its `IdMapGuard` holds and
of the interface key it was made with. Ownership of guards is computed
(`GuardsOf`), so that every action that replaces a handshake or a session must
say which guards it drops; `DropGuards` removes their identifiers at once or
leaves any subset to spawned tasks (`pendingRemoval`), as `try_write` does.

Abstractions: time is left out (an armed timer may fire at any moment, a timer
that is not armed cannot); of the transports only their order, not their age or
confirmation (that is `Transport`); a peer may always roam; a handshake message
is accepted or refused without saying why. Objects (`PeerState`, scopes,
identifiers) come from finite sets: a `PeerState` is used once (its identity is
what matters), identifiers and scopes are reused when nothing refers to them.
An identifier is drawn fresh: a collision of two 32-bit random identifiers is
not modelled.

### Transport

Every atomic access is a step: `get_should_send` (`Choose`), `fetch_add`
(`Draw`), the rest of `encrypt` (`Encrypt`, `Reject`). `Senders` ask
`get_should_send` first; `Flusher` is the receiving task, which encrypts queued
packets with a new session without asking and unwraps the result. The ageing
tasks raise their flags at any moment. Two history variables, `sent` and
`issued`, are there for the properties.

### AntiReplay and ReplayWindow

`AntiReplay` is the ring of words of RFC 6479 with its shifts and masks as `\div`
and `%`. `ReplayWindow` is the promise: a counter is accepted if and only if it
was not accepted before and is newer than the newest minus the window. The
refinement mapping is the identity on `last`, `accepted` and `verdict`.

### Socket

`set_port` is the steps `SetPort` (`prepare_socket`), `SetPortLooks` (the sender
is cloned), `SetPortSends` or `SetPortStores`, `SetPortEnds`. `Open` computes who
refers to which socket; a port can be bound only if no open socket has it. The
history variable `overlooked` is raised by the one race that a comment in
`set_port` suspects: the command saw no sender, and the receiving task starts
before the command stores its socket. `ListensOnPort` and
`OldPortFreed` hold but for that.

### WgConfig

A request (`request`: an IPC `set` or a reload) holds `state_change_advisory` and
is a sequence of calls; `call` is the `set_peer` or `remove_peer` in progress.
`SetPeer` is `set_peer` up to the point where it releases the routing tables:
under the locks of the peer and of the tables nobody sees it in between. Then
each prefix that was taken from another peer is removed from that peer, under its
lock, with the lock of the first peer still held (`TakeRoute`). `RemoveBegins` and
`RemoveRoutes` are the two halves of `remove_peer`. A reload computes its
differences when it begins (`ReloadBegins`), with the comparison of the code: the
allowed IPs of the file as they stand against those of the peer, which are
masked; a keepalive that is absent from the file is "off" for a peer that
changes and nothing for a new one.

Meanwhile the receiving task lets peers roam, in one step for handshakes and in
two, with the tun device written in between, for transport messages; the timers
of persistent keepalives fire, end and are re-armed by anything sent.

Abstractions: IPv4 and IPv6 tables are one, from prefixes to peers (the tries are
a component of their own); a `set_peer` that fails for want of a peer cannot
happen and is left out; a `PeerState` that was removed is followed no further.
The preshared key is what the code makes of it: `set_peer` stores it also when it
is absent, although the field says "Update if `Some`." (`state.rs:609`).

### Handshake

Two nodes and the set `net` of every message ever sent: a message of it may
arrive at any time, again, late, or never. Here a handler is one step; its
threads and locks are in `PeerSession`. The cryptography is ideal: a message is a
record that only its sender makes, named by its ephemeral key, which is also the
index the sender chose; a forged message does not get past its authentication
and is therefore not in `net`. Timestamps are the ticks of the truncated clock, so
that two initiations may have the same. Whether a node is under load is chosen
for each message: `ReceiveInit` and `ReceiveResp` answer with a cookie or go on;
`mac2` is the secret it was made with. `Restart` forgets everything; `Timers`,
`CookieExpires` and `UpdateSecret` stand for time. `made` (the keys of all sessions
of a node) and the `life` in a response are history.

### IpLookupTrie and PrefixTable

`IpLookupTrie` is the patricia trie. Its nodes are in a function, `tree`, from their
key and length, which no two share, to their children and value; a box is the name
of the node in it. The methods are recursive or loops, and each node that a call
comes to is a step of its own, an action for each branch: `insert` replaces, descends
or splits, `remove` finds, misses or descends and then returns through its callers
(`Unwinds`), which drop nodes that no longer separate two others; `longest_match` keeps
the best value so far; the iterator has a stack. `stack` is the call stack. No
other thread sees the steps in between (the tables are behind a lock); they are there
because an invariant of each step is what explains why the whole call is right.
An address is the function of its bits; the integers of the code are
masked, shifted and counted and nothing else.

`PrefixTable` is `simple.rs`, the reference implementation with which the repository's
tests compare the trie: prefixes in tables by length. It gets each call
when the trie does. `MatchesReference` compares entries and results whenever no call
is in progress, `IterExact` what the iterator yields with the entries.

### Ring, PacketFifo

`Ring` has each atomic access, each copy of a record and each use of the event as
a step, with the program's code at both ends: the driver, which is not in `src/`,
follows the same protocol. Offsets are bytes, and each byte of a record holds
the identity of its packet, so that a torn read would be seen. `PacketFifo` is a
bounded queue with the bytes it takes. Two history variables hold what the bytes
are compared with: `queue`, the packets published and not yet read, and `places`,
where their records start. The refinement mapping (`INSTANCE PacketFifo WITH used <-
Used`) takes the packets from the history and the bytes from head and tail; what a
read returns, `got`, comes from the bytes alone, so that `ImplementsFifo` says that
they hold the head of the queue whenever the reader looks. All accesses are
sequentially consistent, as they are declared in the code.

### TunPool

Processes on one machine, the devices, the named mutex, and the registry entry
that a creation waits for. Every call of Windows may fail; a process may die at
any step, which abandons the mutex and leaves what it had. Another program may
have an adapter (device 0) of the same name. What Windows does is external and
reduced to what this code relies on. `get_interface` passes over a candidate that
`Interface::new` fails for or that has no compatible driver, so that it may return
None although there is one (`Found`). `faults` counts the deaths, and the failures of
calls that would have removed a device, those of the scope guard included, which
only logs them (`Abandon`).

### Ipc

`serve` reads lines (`ReadLine`) into the parser of requests, upgrades its weak
reference (`Upgrade`), and applies a `set` under the advisory lock one setting
after another (`TakeLock`, `Apply`, `ApplyFails`, `Applied`) or writes a state.
`ClientReads` is the parser of `titun show`. A connection may break anywhere
(`HangUp`, `Breaks`), also inside of a line: `Cut` is what may be left of one, a
shorter number or address that parses included. What a setting does is in
`Socket`, `WgConfig` and `PeerSession`; here it is logged, for each connection
(`log`). What a request means when all of it arrives is `Whole`: the last value of
`Parses`, a function over its lines (not a fold, so that it can be proved about).

### Daemon

The life of the process on Unix: `real_main` (the configuration is loaded before
anything else), the two forks and the pipe of `daemonize`, `run` (scope, device,
`WgState`, tasks, readiness, privileges, notification), the tasks of the scope and
its end, SIGHUP and `reload` against a file that is being rewritten, and the watch
on the socket file by inotify or by polling. A task installs its signal handler
in its first poll, `FirstPoll`, which may come late; before that the signal kills the
process. It may fail: the tasks of SIGHUP and SIGINT then warn and are over, the one
of SIGTERM panics, which ends the process. The write of the byte into the pipe may
fail too (`Notify`). A `set_port` or `set_fwmark` that fails in a reload is only logged
and the reload goes on: `loaded` is the version that was applied, and does not tell
whether port and mark could be set. "term" stands for SIGTERM, SIGINT and `stop_rx`,
"wg" for the tasks of
`WgState`. `Options` has each option with each of the others it matters to. A
socket file deleted before the watch exists is "early".

## 3. Runs

| run | module | question |
|---|---|---|
| `session_keys` | MCPeerSession | attempts and sessions always have a deadline; sessions of another interface key never stay; every session can be found by its identifier; every attempt ends |
| `session_unwrap` | MCPeerSession | a finding, see below |
| `transport_nonces` | MCTransport | no nonce twice, silence before confirmation, rekey before rejection |
| `antireplay_window` | AntiReplay | the bitmap is exact and implements the window |
| `socket_port` | Socket | the receiving task follows to the socket in use; old sockets close |
| `config_peers` | MCWgConfig | tables and peers agree; no lock is asked for twice; keepalive timers follow the configuration; a reload does what its file says |
| `handshake_network` | MCHandshake | no session key twice, one answer to an initiation, no late message displaces a newer session or cookie, nothing is sent on a session the peer never had |
| `trie_routes` | IpLookupTrie | the trie passes `self_check` between calls, holds and returns what the reference does, and iterates over every entry once |
| `ring_packets` | Ring | the ring implements the queue; no wake-up is lost; every packet is read |
| `tun_adapters` | MCTunPool | no adapter is left over or taken from another program; no registry value is missed; every open ends |
| `ipc_requests` | MCIpc | a request cut anywhere is not applied in part beyond what it said; answers are true and exact; every valid request is answered |
| `daemon_life` | Daemon | the parent's status is true and comes; the daemon ends when told; a SIGHUP is never forgotten |

Bounds, and why they are enough.

* `PeerSession`: one peer object: the threads meet only through one peer, `id_map`
  and the interface key. That several peers, or a peer and its successor for the
  same public key, take no identifiers from each other is for the theorems, which
  hold for any number of peers. Two identifiers in `session_keys`: one in use and
  one to draw, or the handshake's and the session's; three in `session_unwrap`.
  `MaxTransports` (3 in the code) is 1: every new session pushes one out.
  `QueueSize` (16) is 1: empty and full. One scope in `session_keys`, which is used
  again when nothing refers to it. Two preshared keys in `session_keys`, so that
  `set_peer` clears the peer by changing one. A cancelled scope whose task runs once more
  beside the new one needs two, in `session_unwrap` and in the theorems.
* `Transport`: three senders and the flusher with two packets, a modulus just large
  enough for the assumption that the margins hold all tasks.
* `AntiReplay`: words of 2 bits, a ring of 4, counters 0..15: the ring wraps
  twice, jumps are shorter than, equal to and longer than the ring.
* `Socket`: 3 sockets and ports: the one in use, one in the channel and one that a
  command has made, or one that the sending task still holds.
* `WgConfig`: two peers, one to take a prefix and one to lose it; two prefixes, so
  that one can be taken and another stay, one of them also written without being
  masked; keepalives off and on; one endpoint that is set or roamed to, and one
  preshared key: with two the run is too large, and `set_peer`'s change of one is in
  `session_keys` and in the theorems.
* `Handshake`: four ephemeral keys are two complete handshakes, or one crossed by
  another and a retry; two timestamps, equal and newer; two sessions of the array
  (3 in the code); one restart, timer, expiry or new secret at any place. The run
  stops at these bounds.
* `IpLookupTrie`: addresses of 3 bits, up to three prefixes: length 0, full length,
  siblings; two in a trie make a split, with or without a value in the middle, and the
  third is above, below or beside it, so that every insert and remove finds each
  kind of neighbour. Two values, to tell a replaced one from the new. The theorems
  have no bounds.
* `Ring`: 16 bytes, packets of 1 and 5 bytes, with records of 8 and 12: they wrap at
  every multiple of four, fill the ring and are refused; two identities.
* `TunPool`: two processes, two devices for them and one foreign adapter; three names
  that `get_interface` confuses, one plain, one with capitals, one with a number; one
  fault, two changes of the registry in one creation: one before and one after a look.
* `Ipc`: two connections, to meet at the lock; a `get`, two valid `set` requests and
  one that is not valid (it gives a peer a key that only an answer has), with every
  kind of line that the control distinguishes; two states, one of them with
  everything that may be absent.
* `Daemon`: two versions of the file: the one in use and a newer one; every option
  that changes the control.

Symmetry is used for safety runs only, over sets no definition tells apart (in
`handshake_network` the two nodes; its `CookieInOrder` is a property of single steps).

Deadlock is checked where the system never stops: a process that has ended (a panic
ends it, by the hook of `real_main.rs`) stutters explicitly, `Exited` and `Retired`.
`handshake_network` (at its bounds), `ipc_requests` (when every client has had its
answer) and `daemon_life` (when the daemon is gone) may stop.

Fairness. Nothing is assumed of the network, of clients that connect, of users, or
of faults.

* `AttemptsEnd`: the timer of `clear` fires when it is armed, unless new sessions put
  it off again and again (`NewSession`), and the action of `clear` gets the lock:
  the runtime polls timers, and `parking_lot` locks are held for short, non-blocking
  sections. Nothing is assumed of `stop_handshake`: each packet that is queued puts it
  off by 90 s (`peer_state.rs:211`), so that with steady traffic to a silent peer it
  is `clear` that ends the attempt.
* `OldPortFreed`: the receiving task waits again, sends complete and a waiting task
  takes a new socket; since `select_biased!` prefers a datagram, the property says
  "unless datagrams never stop".
* `EveryPacketRead`: reader and writer go on once they are in a call, and the reader
  calls again. Nothing makes anybody write.
* `OpenEnds`: a process goes on, and (strongly fair) a thread that waits for a mutex
  that is released again and again gets it.
* `Answered`: a task that can go on does, clients read their answers, and
  the lock, tokio's mutex, which queues its waiters, is strongly fair.
* `ParentEnds`, `EndsWhenTold`, `ReloadsLatest`: the kernel runs every process, and
  the runtime polls every task that was woken.

Types. `TypeOK` is checked as an invariant in `session_keys`, and proved for
`PeerSession`, `WgConfig`, `Ring`, `Socket`, `Handshake` and `TunPool`. In the other modules it
documents what the variables are; in `Transport` and `AntiReplay` it is a part of
what is proved.

### Findings

`session_unwrap` is a violation run: the `unwrap` at `state.rs:307` can fail. The
handshake was checked under a lock that is released; `stop_handshake` or `clear` may
take it before it is unwrapped. The process ends. `PROJECT.json` quotes the lines.

Other places where the code and what is said of it part, met while modelling; the
models have the behaviour, and the properties are stated so as to allow it:

* An identifier can stay in `id_map` without a guard, for ever (`state.rs:302`): the
  response handler inserts it, and meanwhile a resend task has replaced the
  handshake, so that the guard which moves into the session has another one.
* A removed peer can be put back in `id_map` by a handler or a resend task that had
  already found it (`state.rs:162`).
* A resend task can make one initiation after its attempt ended
  (`async_utils.rs:85`); the handshake it leaves has no timer to end it.
* A `set_fwmark` right after a `set_port` marks the old socket (`state.rs:894`): the
  receiving task has not put the new one in its place yet.
* The assertion in `set_endpoint` can fail: `set_peer` turns roaming off between the
  check and the call of `udp_process_transport` (`state.rs:396`).
* Two initiations that cross leave each node with a session as responder that the
  other can not confirm: the responder drops its own handshake (`state.rs:203`).
* `write_error` after a parse error is dropped without being awaited
  (`ipc/server.rs:245`): the client gets no reply.
* SIGHUP before the first poll of `reload_on_sighup` ends the process, and that poll
  may come after readiness was announced (`cli/run.rs:49`).
* A socket file deleted before the inotify watch exists is not noticed
  (`ipc/wait_delete.rs:76`).
* A relative configuration path can not be reloaded by a daemon: it has changed its
  directory (`cli/daemonize.rs`).
* `titun transform --overwrite` truncates the file before it writes it, so that a
  reload may read a broken one.
* When the IPC server does not get ready, a process in the foreground ends with
  status 0 (`cli/run.rs:156`).
* The name of an adapter is compared without a numbered suffix (`pool.rs:550`), so that
  opening "tun0" may find and delete the pool's own "tun0 2".
* Only the name that is looked for is made lower case, not that of the adapter
  (`pool.rs:518`): an adapter opened by a name with capitals is not found by its own
  `close`, and is left over. `LeftoversAccounted` allows a `close` that looks for the wrong
  name for these two reasons (`Mistakable`), and nothing else.
* `registry_open_key_wait` asks for one notification only: a change that is not the
  one it waits for leaves it waiting until the timeout.

## 4. Theorems

All are for every value of the constants allowed by the ASSUMEs, and every
length of execution.

* `PeerSession_proof`. Type correctness; `AttemptsBounded`,
  `SessionsBounded`, `KeysCurrent`, `SessionsRouted`. `SessionsBounded` and
  `AttemptsBounded` are inductive with the type invariant. `KeysCurrent` needs that
  while `set_key` runs, a peer it has cleared stays empty (no handler is inside
  `info`'s lock and no resend task passes it), and that a handshake the response
  handler has in hand is of the current key. `SessionsRouted` needs that a
  handshake and the sessions of a peer have different identifiers, so that
  `stop_handshake` and a resend drop no session's, and that the identifier the
  response handler has in hand is no other peer's, so that its late insert into
  `id_map` takes none away.
* `Transport_proof`. `NonceFresh`, `SilentUntilConfirmed`, `RekeyBeforeReject`. A
  task can draw without a check of its own only once per check, so after the
  session is retired the counter can still grow by the number of tasks: the
  invariant bounds the counter by that, which is why the assumption asks for
  margins of `Cardinality(Tasks)`; below the modulus the counter is the number of
  draws, and nonces in use are distinct and smaller. For `RekeyBeforeReject`: while
  no handshake was asked for, each nonce drawn since `RekeyAfter` is in the hands
  of a task that has yet to encrypt with it, and by the pigeonhole principle the
  tasks other than the one refused are too few to hold all of them.
* `Structures_proof`, of the two data structures every packet passes: the trie and the
  anti-replay window.
  * `AntiReplay`: `BitmapExact`, and that the bitmap implements
    `ReplayWindow`: every step of the ring maps to a step of the abstract window.
    The arithmetic of the ring (two words less than `Words` apart share no place)
    is a lemma of its own.
  * `IpLookupTrie` (its specification is called `TrieSpec`): `SelfCheck`, `MatchesReference`
    and `IterExact`, for any width of addresses, any values and any number of prefixes. A
    prefix covers those as long or longer that agree with it. The
    invariant, `TrieInv`, says of the trie what `self_check` says of a node and its
    children (`KidsRight`) and what the reads rely on: a node that covers another has
    it on the right side (`Finds`) and the root covers all (`Rooted`). What
    `self_check` sees is one level of the trie; from there to all of it would go by
    induction on paths, so each step is shown to keep these two instead. In the middle of a call the stack is a way down from the root to the current
    node, on the side of the argument at each step (`Path`), and only the
    current node may lack a child and a value at once (`NoneLoose`).
    The reference has had its call from the first step on: `InsertInv` and
    `RemoveInv` say that its table is that of the trie with the prefix put in or taken
    out, so the last step of a call has to make the trie that. `MatchInv`: the result so
    far is the best among the prefixes shorter than the current node, and the
    current node covers the rest (`Best`), which at the end is what the search
    from the longest length down finds (`BestIsLongest`). `IterInv`: each entry was
    yielded, or is at or below exactly one node of the stack. Splitting and
    dropping a node are lemmas about any trie (`PutAbove`, `GivesWay`).
* `WgConfig_proof`. Type correctness, `RoutesConsistent`, `TakesFromOthers`,
  `KeepaliveKept`, `ReloadApplied`. Types and routes are one invariant, `TypeOK` and
  `RouteInv`: a step of `set_peer` that takes a prefix away looks up a peer, which is
  there because the tables led to it and the advisory lock kept it configured.
  `RoutesConsistent` counts the prefixes that a peer is about to lose
  (`ToLose`) and those that a removed peer still has in the tables. `KeepaliveInv`
  adds that a peer which is not configured has no timer and no action. `ReloadInv`
  says what a reload has yet to do: every peer out of line with the file is in one
  of the differences left, the peers already settled are in line, and what they
  list leads to settled peers, so that no later step takes it away.
* `Ring_proof`. Type correctness, `NeverInvalid` (none of the errors of `read`
  occurs), `ImplementsFifo` and `WakeupOnItsWay`, for any capacity. `RingInv` has
  four parts. `Chained`: the records of the queue lie end to end from head to tail,
  modulo the capacity, and their sizes add up to less than it. `Stored`: the bytes of
  each hold its length and its identity. `Writing`: while the writer copies there is
  room from its tail to the head, also when the head has moved since it was loaded.
  `Reading`: the tail that the reader loaded is the end of a record, so that a
  whole one lies before it. Each step of `Ring` then is a `Put`, a `Refuse`, a
  `Get` or no step of `PacketFifo`. The arithmetic of `AlignUp` and `%` is in lemmas.
  `WakeupOnItsWay` is inductive with that `alertable` is set from before the second
  look, `Waiting`.
* `Control_proof`, of three components at once: `Ipc`, `Socket` and `Daemon` (which is
  why the specifications of the last two are called `SocketSpec` and `DaemonSpec`).
  * `Ipc`: `WholeRequestsOnly`, `AnswerTrue` and `StateExact`, for any requests and
    connections and for any states with the keys that the writer knows
    (`StatesAssumption`). While a request is read the parser is what `Parses` makes of the
    lines read so far (`ReadInv`); once it is over nothing that follows changes it
    (`OverIsWhole`), so that a command which is executed is that of the whole request
    (`DoneInv`). Only the empty line makes a parser done (`SetLineSound`), and what is
    left of a line that is cut is never empty (`CutIsNotEmpty`). Under the lock, what
    was applied followed by what is to do are the settings of the request
    (`TodoInv`). The client has read nothing of the answer, or its errno, or has
    failed, and the errno is 0 exactly if nothing was left to do (`AnswerInv`); a
    shorter errno is not 0 either. That a parser is well formed after every line
    (`ParsesSound`) goes by induction on the lines, for the set of the numbers of
    lines for which it holds (`Induct`), which follows from the least element of a
    set of natural numbers. For `StateExact`: `Leads` is the walk of a parser over lines
    from one state to another, on which no line and no piece of a line makes it done;
    walks compose (`LeadsConcat`). The lines of one key, of the keys of a peer, and of the
    peers are such walks, each shown by induction on their number, and the last ends
    with the state that was written (`LinesToShow`, `PeerWritten`, `AllWritten`). In every step of the
    answer what the client has read leads, by the lines that it has yet to read, to that
    state (`GetInv`), so that nothing but the errno line ends it there.
  * `Socket`: type correctness and `ListensOnPort`, as `ListenInv`: there is a
    sender exactly while the receiving task has run, and the channel is empty while
    there is none (`SenderInv`); a waiting task waits on the socket in place, unless
    the race of `overlooked` happened (`WaitingInv`); the newest socket, or the one in
    the hands of the command, has the port (`PortInv`).
  * `Daemon`: `ParentTruthful`, as `LifeInv`: while the parent reads and has no byte, a
    process that may still write one holds the pipe (`PipeInv`), so that the end of
    the pipe means that nobody is left; and the stages of `run` keep the order of
    watch, readiness, privileges and byte (`StageInv`).
* `Handshake_proof`. Type correctness, `NoKeyReuse`, `AnsweredOnce`, `InOrder`,
  `SentOnCommonKey`, `CookieInOrder`. All rest on `FreshInv`: ephemeral keys are drawn in order, so that
  whatever is in a message or in a node's memory is older than the next one.
  `UsedInv` adds that the key a node made its initiation with is in no session of
  its own until that handshake is taken. `AnsweredInv` relates answers and memory:
  an initiation that was answered in this life of the node has no newer timestamp
  than `last_handshake`. For `InOrder`: of two initiations of one node the later has
  no smaller timestamp (`ClockInv`), and those of the sessions in the array have none
  above `last_handshake` (`OrderInv`), so that an initiation which gets past the check
  is later than all of them.
  For `SentOnCommonKey` (`CommonInv`): both ends of a session draw its key from the
  same two ephemeral keys, and the initiator has made it only from a response of the
  responder's; so a session that may be used for sending, as initiator or because
  a message came on it, has its key among those that the peer has made. `Nodes` must
  be a finite set, for the other node to be one.
* `TunPool_proof`. Type correctness (the mutex has the one holder that is in a locked
  stage, also after a death), `ForeignKept`, `LeftoversAccounted`, `ValueNotMissed`,
  for any processes, devices and names. Every action is first shown to be one of ten
  kinds of step (`Shape`). `HandsInv` says what a process has in its hands: nothing
  before it has found or made a device; during a creation a device without a name,
  so that nobody else can find it; with a tunnel the device of that name, unless
  somebody has deleted it. With `NamesInv` (no two devices have the same name)
  `close` finds that device and no other, unless the name has capitals, or a sibling
  has a number (section 3); `LeftoversAccounted` names these closes, and is proved for
  all names. `ValueNotMissed` needs that a process that looks has asked to be notified
  or has the notice (`NoticeInv`).

Model-checked only: liveness (`AttemptsEnd`, `OldPortFreed`, `EveryPacketRead`,
`OpenEnds`, `Answered`, `ParentEnds`, `EndsWhenTold`, `ReloadsLatest`: ENABLED and
fairness are out of the prover's reach). Every invariant that a run checks is proved.
No module has a RECURSIVE operator.

## 5. Not modelled

* Load monitor: a token bucket over real time; `Handshake` lets a node be under load
  at any message.
* The loop of a timer's task (`timer.rs`): `PeerSession` and `WgConfig` let an armed
  timer fire at any moment, which covers its outcomes.
* Cryptographic primitives: pure numeric code, fixed by test vectors.
* Unix tun devices: system calls on a descriptor without further state.
* Command line, display, network set-up, Windows service and GUI: parsing of
  arguments, formatting, external commands. The JSON answer of the Windows build
  is formatting too.
* Collisions of random identifiers, of ephemeral keys and of cookies.

## 6. What is left

Type correctness of `Daemon` and `Ipc`.
