------------------------------- MODULE Socket -------------------------------
(***************************************************************************)
(* The UDP socket of the interface (WgState.socket of                      *)
(* src/wireguard/state.rs): how set_port and set_fwmark replace and mark   *)
(* it while the receiving task waits on it and another task sends with it. *)
(* The configuration commands are serialised by state_change_advisory; the *)
(* tasks are not.  A socket is open, and its port taken, as long as        *)
(* somebody refers to it.                                                  *)
(***************************************************************************)
EXTENDS Naturals, Sequences

CONSTANTS
  Sockets,  \* UdpSocket objects
  Ports,    \* port numbers, without 0
  Marks,    \* fwmarks
  NoMark,   \* fwmark 0, a member of Marks
  AnyPort,  \* port 0: the system chooses
  NoSocket

ASSUME SocketAssumption ==
  NoMark \in Marks /\ AnyPort \notin Ports /\ NoSocket \notin Sockets

VARIABLES
  port, fwmark,  \* WgInfo
  socket,        \* WgState.socket
  sender,        \* is WgState.socket_sender there?
  channel,       \* sockets in the channel to the receiving task, one at most
  portOf, mark,  \* what the sockets are bound to and marked with
  rx,            \* the receiving task
  tx,            \* the socket a task is sending with
  cfg,           \* the configuration command being executed
  overlooked     \* history: has the receiving task started after a set_port that
                 \* still has its socket to store saw that there is none?

socketVars == <<port, fwmark, socket, sender, channel, portOf, mark, rx, tx, cfg, overlooked>>

RxStates == [phase : {"spawned", "loop"}] \cup [phase : {"waiting"}, socket : Sockets]

CfgIdle == [op |-> "idle"]
CfgStates ==
  {CfgIdle} \cup [op : {"prepared", "send", "store"}, socket : Sockets, port : Ports]
            \cup [op : {"finish"}, port : Ports]

SocketTypeOK ==
  /\ port \in Ports /\ fwmark \in Marks
  /\ socket \in Sockets
  /\ sender \in BOOLEAN
  /\ channel \in Seq(Sockets) /\ Len(channel) <= 1
  /\ portOf \in [Sockets -> Ports] /\ mark \in [Sockets -> Marks]
  /\ rx \in RxStates
  /\ tx \in Sockets \cup {NoSocket}
  /\ cfg \in CfgStates
  /\ overlooked \in BOOLEAN

\* The sockets somebody refers to.
Open ==
  {socket} \cup {channel[i] : i \in DOMAIN channel}
    \cup (IF rx.phase = "waiting" THEN {rx.socket} ELSE {})
    \cup (IF cfg.op \in {"prepared", "send", "store"} THEN {cfg.socket} ELSE {})
    \cup ({tx} \ {NoSocket})

\* WgState::new, and `run` up to where it spawns the receiving task.
SocketInit ==
  /\ socket \in Sockets
  /\ port \in Ports
  /\ portOf = [s \in Sockets |-> port]
  /\ fwmark = NoMark
  /\ mark = [s \in Sockets |-> NoMark]
  /\ sender = FALSE
  /\ channel = << >>
  /\ rx = [phase |-> "spawned"]
  /\ tx = NoSocket
  /\ cfg = CfgIdle
  /\ overlooked = FALSE

-----------------------------------------------------------------------------
(* set_port and set_fwmark.                                                *)

\* prepare_socket writes the port the system has chosen back.
Assigned(p, q) == q

\* set_port(p) up to prepare_socket: a new socket with the fwmark of info.
\* (When no port can be bound or marked, set_port returns and changes nothing.)
SetPort(p) ==
  /\ cfg = CfgIdle
  /\ p # port
  /\ \E s \in Sockets \ Open, q \in Ports :
       /\ p \in {q, AnyPort}
       /\ \A o \in Open : portOf[o] # q
       /\ portOf' = [portOf EXCEPT ![s] = q]
       /\ mark' = [mark EXCEPT ![s] = fwmark]
       /\ cfg' = [op |-> "prepared", socket |-> s, port |-> Assigned(p, q)]
  /\ UNCHANGED <<port, fwmark, socket, sender, channel, rx, tx, overlooked>>

HowToDeliver_Stored == "store"

\* To the receiving task if there is one.
HowToDeliver == IF sender THEN "send" ELSE "store"

\* ... socket_sender is cloned.
SetPortLooks ==
  /\ cfg.op = "prepared"
  /\ cfg' = [cfg EXCEPT !.op = HowToDeliver]
  /\ UNCHANGED <<port, fwmark, socket, sender, channel, portOf, mark, rx, tx, overlooked>>

HasRoom == channel = << >>

\* ... the socket is sent, once there is room in the channel.
SetPortSends ==
  /\ cfg.op = "send" /\ HasRoom
  /\ channel' = Append(channel, cfg.socket)
  /\ cfg' = [op |-> "finish", port |-> cfg.port]
  /\ UNCHANGED <<port, fwmark, socket, sender, portOf, mark, rx, tx, overlooked>>

\* ... or stored.
SetPortStores ==
  /\ cfg.op = "store"
  /\ socket' = cfg.socket
  /\ cfg' = [op |-> "finish", port |-> cfg.port]
  /\ UNCHANGED <<port, fwmark, sender, channel, portOf, mark, rx, tx, overlooked>>

\* ... and the port is written to info.
SetPortEnds ==
  /\ cfg.op = "finish"
  /\ port' = cfg.port
  /\ cfg' = CfgIdle
  /\ UNCHANGED <<fwmark, socket, sender, channel, portOf, mark, rx, tx, overlooked>>

\* set_fwmark: under the locks of info and of the socket.
SetFwmark(m) ==
  /\ cfg = CfgIdle
  /\ m # fwmark
  /\ mark' = [mark EXCEPT ![socket] = m]
  /\ fwmark' = m
  /\ UNCHANGED <<port, socket, sender, channel, portOf, rx, tx, cfg, overlooked>>

-----------------------------------------------------------------------------
(* The tasks.                                                              *)

\* The receiving task goes on after that set_port has stored its socket.
OverlookedEnds == overlooked' = (overlooked /\ cfg.op = "store")

\* task_rx makes the channel.
RxStarts ==
  /\ rx.phase = "spawned"
  /\ sender' = TRUE
  /\ rx' = [phase |-> "loop"]
  /\ overlooked' = (cfg.op = "store")
  /\ UNCHANGED <<port, fwmark, socket, channel, portOf, mark, tx, cfg>>

\* udp_processing clones the socket and waits, for a datagram or a new socket.
RxWaits ==
  /\ rx.phase = "loop"
  /\ rx' = [phase |-> "waiting", socket |-> socket]
  /\ OverlookedEnds
  /\ UNCHANGED <<port, fwmark, socket, sender, channel, portOf, mark, tx, cfg>>

\* A datagram comes, and is processed.
RxReceives ==
  /\ rx.phase = "waiting"
  /\ rx' = [phase |-> "loop"]
  /\ OverlookedEnds
  /\ UNCHANGED <<port, fwmark, socket, sender, channel, portOf, mark, tx, cfg>>

RxReplaces_SameWait ==
  /\ rx.phase = "waiting" /\ channel # << >>
  /\ socket' = Head(channel)
  /\ channel' = Tail(channel)
  /\ UNCHANGED <<port, fwmark, sender, portOf, mark, rx, tx, cfg, overlooked>>

\* A new socket comes, and the loop starts again.
RxReplaces ==
  /\ rx.phase = "waiting" /\ channel # << >>
  /\ socket' = Head(channel)
  /\ channel' = Tail(channel)
  /\ rx' = [phase |-> "loop"]
  /\ OverlookedEnds
  /\ UNCHANGED <<port, fwmark, sender, portOf, mark, tx, cfg>>

\* send_to clones the socket, and awaits its send_to.
TxTakes ==
  /\ tx = NoSocket
  /\ tx' = socket
  /\ UNCHANGED <<port, fwmark, socket, sender, channel, portOf, mark, rx, cfg, overlooked>>

TxSends ==
  /\ tx # NoSocket
  /\ tx' = NoSocket
  /\ UNCHANGED <<port, fwmark, socket, sender, channel, portOf, mark, rx, cfg, overlooked>>

CfgStep == SetPortLooks \/ SetPortSends \/ SetPortStores \/ SetPortEnds

SocketNext ==
  \/ \E p \in Ports \cup {AnyPort} : SetPort(p)
  \/ CfgStep
  \/ \E m \in Marks : SetFwmark(m)
  \/ RxStarts \/ RxWaits \/ RxReceives \/ RxReplaces
  \/ TxTakes \/ TxSends

\* The tasks are polled: a pending set_port goes on, the receiving task goes
\* back to waiting, and a send completes.  A new socket is taken only when no
\* datagram is there (select_biased! asks for one first), so it is taken in the
\* end only if datagrams do not always come.
Fairness ==
  /\ WF_socketVars(CfgStep) /\ WF_socketVars(TxSends)
  /\ WF_socketVars(RxWaits) /\ WF_socketVars(RxReplaces)

SocketSpec == SocketInit /\ [][SocketNext]_socketVars /\ Fairness

-----------------------------------------------------------------------------
(* Properties.                                                             *)

\* The socket that replaces the others once the channel is empty.
Newest == IF channel # << >> THEN Head(channel) ELSE socket

\* The receiving task waits on the socket of the port that is set, or a new
\* socket is on its way that will wake it up: nobody replaces the socket behind
\* its back ("Change listen port", set_port).  The exception is the race that a
\* comment in set_port suspects: a command that saw no sender stores the socket
\* after the task has started and waits (`overlooked`).
ListensOnPort ==
  rx.phase = "waiting" /\ cfg = CfgIdle /\ channel = << >> /\ ~overlooked
    => portOf[rx.socket] = port

\* A socket that was replaced is closed and its port freed, unless datagrams
\* never stop, or the receiving task does not know of the new one: it stops
\* waiting on the old one, and nobody keeps it.
OldPortFreed ==
  \/ \A s \in Sockets : (s \in Open /\ s # Newest /\ cfg = CfgIdle)
                         ~> (s \notin Open \/ overlooked)
  \/ []<><<RxReceives>>_socketVars
=============================================================================
