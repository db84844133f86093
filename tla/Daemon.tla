------------------------------- MODULE Daemon -------------------------------
(* The life of a titun process on Unix (src/cli, src/ipc, src/async_utils.rs): options
   and the configuration file, daemonize with its two forks and its pipe, the start of
   run, the tasks bound to its scope, readiness, signals, reloads, the watch on the
   socket file, and the end.

   The tasks are polled by other threads: each gets its first poll, in which it
   installs its handler, at any moment after it was spawned.  "wg" stands for the
   tasks of WgState, "term" for those of SIGTERM, SIGINT and stop_rx.  The
   configuration file has versions; a version is whole, or broken while somebody (also
   `titun transform --overwrite`) writes it. *)
EXTENDS Integers

CONSTANT MaxVersion  \* bound: versions of the configuration file

ASSUME MaxVersionAssumption == MaxVersion \in Nat \ {0}

VARIABLES opt,       \* options, and the platform's way to watch the socket file
          main,      \* where real_main, daemonize and run are
          parent,    \* the process that was started, when it is not the daemon
          writers,   \* the processes that hold the writing end of the pipe
          told,      \* has the pipe a byte?
          task,      \* the tasks of the scope
          cancelled, \* AsyncScope has no sender any more
          pending,   \* signals the process has not looked at yet
          ready,     \* has the ready channel its message?
          user,      \* has run taken its user and group?
          socketFile, \* the socket file; "early" if it was deleted before the watch
          watch,     \* is the socket file watched?
          conf,      \* the configuration file
          reload,    \* what reload_on_sighup does: "idle", or with which version
          loaded,    \* the version of the configuration in use; 0: none
          asked      \* history: the version of the file at the last SIGHUP

daemonVars == <<opt, main, parent, writers, told, task, cancelled, pending, ready, user,
          socketFile, watch, conf, reload, loaded, asked>>

Signals == {"term", "hup"}
Tasks == Signals \cup {"ipc", "wg"}
Stages == {"options", "fork", "middle", "start", "configure", "spawn", "waiting",
           "privileges", "notify", "serving", "gone"}
Idle == [stage |-> "idle", version |-> 0]

DaemonTypeOK ==
  /\ main \in Stages
  /\ parent \in {"none", "reading", "ok", "failed"}
  /\ writers \subseteq {"parent", "middle", "daemon"}
  /\ main = "gone" => "daemon" \notin writers
  /\ told \in BOOLEAN /\ cancelled \in BOOLEAN /\ ready \in BOOLEAN /\ user \in BOOLEAN
  /\ task \in [Tasks -> {"none", "spawned", "running", "ended"}]
  /\ pending \in SUBSET Signals
  /\ socketFile \in {"none", "bound", "deleted", "early"}
  /\ watch \in BOOLEAN
  /\ conf \in [version : 1..MaxVersion, whole : BOOLEAN]
  /\ reload \in [stage : {"idle", "reading", "applying"}, version : 0..MaxVersion]
  /\ loaded \in 0..MaxVersion /\ asked \in 0..MaxVersion

\* Each option with each of the others that it matters to.
Options ==
  {[foreground |-> o[1], polling |-> o[2], path |-> o[3]] :
     o \in {<<TRUE, FALSE, "none">>, <<TRUE, TRUE, "absolute">>,
       <<TRUE, FALSE, "absolute">>, <<FALSE, FALSE, "absolute">>, <<FALSE, FALSE, "relative">>}}

DaemonInit ==
  /\ opt \in Options
  /\ main = "options" /\ parent = "none" /\ writers = {} /\ told = FALSE
  /\ task = [t \in Tasks |-> "none"]
  /\ cancelled = FALSE /\ pending = {} /\ ready = FALSE /\ user = FALSE
  /\ socketFile = "none" /\ watch = FALSE
  /\ conf = [version |-> 1, whole |-> TRUE]
  /\ reload = Idle /\ loaded = 0 /\ asked = 0

tasks == <<task, cancelled, reload>>
pipe == <<parent, writers, told>>
files == <<socketFile, watch, conf>>

-----------------------------------------------------------------------------
\* The process ends, its descriptors with it.
Died == main' = "gone" /\ writers' = writers \ {IF main = "middle" THEN "middle" ELSE "daemon"}

\* Options::run up to daemonize: the configuration is loaded before anything is forked.
LoadOptions ==
  /\ main = "options"
  /\ IF opt.path = "none" \/ conf.whole
     THEN /\ main' = IF opt.foreground THEN "start" ELSE "fork"
          /\ loaded' = IF opt.path = "none" THEN 0 ELSE conf.version
          /\ UNCHANGED writers
     ELSE Died /\ UNCHANGED loaded
  /\ UNCHANGED <<opt, parent, told, tasks, pending, ready, user, files, asked>>

\* pipe and the first fork; the parent goes on to read.
Fork ==
  /\ main = "fork"
  /\ \/ /\ main' = "middle" /\ parent' = "reading" /\ writers' = {"parent", "middle"}
     \/ /\ main' = "gone" /\ parent' = "failed" /\ UNCHANGED writers
  /\ UNCHANGED <<opt, told, tasks, pending, ready, user, files, loaded, asked>>

ParentCloses_Forgotten == FALSE /\ UNCHANGED daemonVars

\* close(w) in the parent.
ParentCloses ==
  /\ "parent" \in writers
  /\ writers' = writers \ {"parent"}
  /\ UNCHANGED <<opt, main, parent, told, tasks, pending, ready, user, files, loaded, asked>>

\* read(r): a byte, or the end when nobody can write any more.
ParentReads ==
  /\ parent = "reading" /\ "parent" \notin writers
  /\ \/ told /\ parent' = "ok"
     \/ ~told /\ writers = {} /\ parent' = "failed"
  /\ UNCHANGED <<opt, main, writers, told, tasks, pending, ready, user, files, loaded, asked>>

\* chdir, setsid and the second fork, or one of them fails.
SecondFork ==
  /\ main = "middle"
  /\ \/ main' = "start" /\ writers' = writers \cup {"daemon"}
     \/ Died
  /\ UNCHANGED <<opt, parent, told, tasks, pending, ready, user, files, loaded, asked>>

MiddleExits ==
  /\ main # "middle" /\ "middle" \in writers
  /\ writers' = writers \ {"middle"}
  /\ UNCHANGED <<opt, main, parent, told, tasks, pending, ready, user, files, loaded, asked>>

-----------------------------------------------------------------------------
\* run.  Until the first await nothing but its own errors stops it.

\* The first poll of the tasks of WgState has no effect that matters here.
Spawn(ts) ==
  task' = [t \in Tasks |->
             IF t \notin ts THEN task[t] ELSE IF t = "wg" THEN "running" ELSE "spawned"]

StartScope ==
  /\ main = "start" /\ main' = "configure"
  /\ Spawn({"term"})
  /\ UNCHANGED <<opt, pipe, cancelled, reload, pending, ready, user, files, loaded, asked>>

\* The tun device, WgState::new, key, port, fwmark and peers.
Configure ==
  /\ main = "configure"
  /\ \/ main' = "spawn" /\ UNCHANGED writers
     \/ Died
  /\ UNCHANGED <<opt, parent, told, tasks, pending, ready, user, files, loaded, asked>>

SpawnTasks ==
  /\ main = "spawn" /\ main' = "waiting"
  /\ Spawn({"wg", "hup", "ipc"})
  /\ UNCHANGED <<opt, pipe, cancelled, reload, pending, ready, user, files, loaded, asked>>

\* ready_rx: the message, or the sender is gone with the task that had it.
ReadyOrNot ==
  /\ main = "waiting"
  /\ \/ ready /\ main' = "privileges"
     \/ ~ready /\ task["ipc"] = "ended" /\ main' = "serving"
  /\ UNCHANGED <<opt, pipe, tasks, pending, ready, user, files, loaded, asked>>

DropPrivileges ==
  /\ main = "privileges"
  /\ \/ main' = "notify" /\ user' = TRUE /\ UNCHANGED writers
     \/ Died /\ UNCHANGED user
  /\ UNCHANGED <<opt, parent, told, tasks, pending, ready, files, loaded, asked>>

\* systemd is told, or the parent through the pipe, where the write may fail; the
\* handle is dropped.
Notify ==
  /\ main = "notify"
  /\ \/ /\ main' = "serving" /\ told' = ~opt.foreground
        /\ writers' = writers \ {"daemon"}
     \/ ~opt.foreground /\ Died /\ UNCHANGED told
  /\ UNCHANGED <<opt, parent, tasks, pending, ready, user, files, loaded, asked>>

End ==
  /\ main = "serving" /\ cancelled
  /\ Died
  /\ UNCHANGED <<opt, parent, told, tasks, pending, ready, user, files, loaded, asked>>

-----------------------------------------------------------------------------
\* The tasks.  A process that is gone has none.
Alive == main # "gone"
CanRun(t) == Alive /\ task[t] = "running"

TaskOver_NotCanceller(t) == task' = [task EXCEPT ![t] = "ended"] /\ UNCHANGED cancelled

\* spawn_canceller: when the future completes the scope is cancelled.
TaskOver(t) == task' = [task EXCEPT ![t] = "ended"] /\ cancelled' = TRUE

\* The first poll installs the handler of a signal.  Where that fails, the tasks of
\* SIGHUP and SIGINT warn and are over, and the one of SIGTERM panics, which ends the
\* process.
FirstPoll(t) ==
  /\ Alive /\ task[t] = "spawned"
  /\ \/ task' = [task EXCEPT ![t] = "running"] /\ UNCHANGED <<cancelled, main, writers>>
     \/ t \in Signals /\ TaskOver(t) /\ UNCHANGED <<main, writers>>
     \/ t = "term" /\ Died /\ UNCHANGED <<task, cancelled>>
  /\ UNCHANGED <<opt, parent, told, reload, pending, ready, user, files, loaded, asked>>

\* select_biased: a task that waits is dropped when the scope is cancelled.
TaskCancelled(t) ==
  /\ CanRun(t) /\ cancelled
  /\ task' = [task EXCEPT ![t] = "ended"]
  /\ reload' = IF t = "hup" THEN Idle ELSE reload
  /\ UNCHANGED <<opt, main, pipe, cancelled, pending, ready, user, files, loaded, asked>>

\* ctrl_c, SIGTERM or stop_rx completes its task.
Interrupted ==
  /\ "term" \in pending /\ CanRun("term")
  /\ TaskOver("term")
  /\ pending' = pending \ {"term"}
  /\ UNCHANGED <<opt, main, pipe, reload, ready, user, files, loaded, asked>>

\* An error ends the sending or the receiving task, or the IPC server.
TaskBreaks(t) ==
  /\ t \in {"wg", "ipc"} /\ CanRun(t)
  /\ TaskOver(t)
  /\ UNCHANGED <<opt, main, pipe, reload, pending, ready, user, files, loaded, asked>>

IpcBinds_Ready ==
  /\ CanRun("ipc") /\ socketFile = "none" /\ socketFile' = "bound" /\ ready' = TRUE
  /\ UNCHANGED <<opt, main, pipe, tasks, pending, user, watch, conf, loaded, asked>>

\* An old socket file is removed and a new one bound.
IpcBinds ==
  /\ CanRun("ipc") /\ socketFile = "none" /\ socketFile' = "bound"
  /\ UNCHANGED <<opt, main, pipe, tasks, pending, ready, user, watch, conf, loaded, asked>>

\* wait_delete: inotify, or a thread that polls the directory; then ready.
IpcWatches ==
  /\ CanRun("ipc") /\ socketFile # "none" /\ ~watch
  /\ watch' = TRUE /\ ready' = TRUE
  /\ UNCHANGED <<opt, main, pipe, tasks, pending, user, socketFile, conf, loaded, asked>>

\* The deletion is seen: inotify reports those after the watch, polling finds any.
SocketDeleted ==
  /\ CanRun("ipc") /\ watch
  /\ socketFile = "deleted" \/ (socketFile = "early" /\ opt.polling)
  /\ TaskOver("ipc")
  /\ UNCHANGED <<opt, main, pipe, reload, pending, ready, user, files, loaded, asked>>

\* reload_on_sighup: SIGHUPs that came meanwhile are one.
Hangup ==
  /\ CanRun("hup") /\ "hup" \in pending /\ reload = Idle
  /\ pending' = pending \ {"hup"}
  /\ reload' = IF opt.path = "none" THEN Idle ELSE [Idle EXCEPT !.stage = "reading"]
  /\ UNCHANGED <<opt, main, pipe, task, cancelled, ready, user, files, loaded, asked>>

\* load_config_from_path, by a blocking thread.  A daemon has left the directory that
\* a relative path is about.
CanOpen == opt.foreground \/ opt.path = "absolute"
ReloadReads ==
  /\ CanRun("hup") /\ reload.stage = "reading"
  /\ reload' = IF CanOpen /\ conf.whole THEN [stage |-> "applying", version |-> conf.version]
               ELSE Idle
  /\ UNCHANGED <<opt, main, pipe, task, cancelled, pending, ready, user, files, loaded, asked>>

\* reload goes on when set_fwmark or set_port fails and only warns: loaded is the version
\* that was applied, with the port and the mark only as far as that was possible.
ReloadApplies ==
  /\ CanRun("hup") /\ reload.stage = "applying"
  /\ loaded' = reload.version /\ reload' = Idle
  /\ UNCHANGED <<opt, main, pipe, task, cancelled, pending, ready, user, files, asked>>

-----------------------------------------------------------------------------
\* The world: signals, deletion of the socket file, changes of the configuration file.

Remembered_IdleOnly(s) == IF s = "hup" /\ reload # Idle THEN {} ELSE {s}

\* tokio remembers that a signal came until the task asks for the next one.
Remembered(s) == {s}

\* A signal without a handler ends the process.  Those that come before the daemon has
\* been forked are left out: they end a program that has started nothing yet.
Signal(s) ==
  /\ main \notin {"options", "fork", "middle", "gone"}
  /\ IF task[s] \in {"none", "spawned"}
     THEN Died /\ UNCHANGED <<pending, asked>>
     ELSE /\ pending' = pending \cup Remembered(s)
          /\ asked' = IF s = "hup" THEN conf.version ELSE asked
          /\ UNCHANGED <<main, writers>>
  /\ UNCHANGED <<opt, parent, told, tasks, ready, user, files, loaded>>

Delete ==
  /\ Alive /\ socketFile = "bound" /\ socketFile' = IF watch THEN "deleted" ELSE "early"
  /\ UNCHANGED <<opt, main, pipe, tasks, pending, ready, user, watch, conf, loaded, asked>>

\* seek, set_len(0), and only then write; when nobody will read the file it does not matter.
Rewrite ==
  /\ main = "options" \/ (CanRun("hup") /\ ~cancelled)
  /\ conf.version < MaxVersion
  /\ conf' = IF conf.whole THEN [conf EXCEPT !.whole = FALSE]
             ELSE [version |-> conf.version + 1, whole |-> TRUE]
  /\ UNCHANGED <<opt, main, pipe, tasks, pending, ready, user, socketFile, watch, loaded, asked>>

-----------------------------------------------------------------------------
Run == StartScope \/ Configure \/ SpawnTasks \/ ReadyOrNot \/ DropPrivileges \/ Notify \/ End
IpcTask == IpcBinds \/ IpcWatches \/ SocketDeleted
Reload == Hangup \/ ReloadReads \/ ReloadApplies
World == Delete \/ Rewrite \/ (\E s \in Signals : Signal(s)) \/ (\E t \in Tasks : TaskBreaks(t))

DaemonNext ==
  \/ LoadOptions \/ Fork \/ ParentCloses \/ ParentReads \/ SecondFork \/ MiddleExits
  \/ Run \/ IpcTask \/ Reload \/ World \/ Interrupted
  \/ \E t \in Tasks : FirstPoll(t) \/ TaskCancelled(t)

\* The kernel runs every process, and the runtime polls every task that was woken.
DaemonSpec ==
  /\ DaemonInit /\ [][DaemonNext]_daemonVars
  /\ WF_daemonVars(LoadOptions) /\ WF_daemonVars(Fork)
  /\ WF_daemonVars(ParentCloses) /\ WF_daemonVars(ParentReads)
  /\ WF_daemonVars(SecondFork) /\ WF_daemonVars(MiddleExits)
  /\ WF_daemonVars(Run) /\ WF_daemonVars(IpcTask)
  /\ WF_daemonVars(Reload) /\ WF_daemonVars(Interrupted)
  /\ \A t \in Tasks : WF_daemonVars(FirstPoll(t)) /\ WF_daemonVars(TaskCancelled(t))

-----------------------------------------------------------------------------
\* The process that was started tells the truth with its status (daemonize): 0 only
\* when the interface is configured, the watch on its socket is set and the user is
\* changed; 1 only when no daemon is left behind, although three processes hold the
\* pipe in turn.
ParentTruthful ==
  /\ parent = "ok" => main \in {"serving", "gone"} /\ watch /\ user
  /\ parent = "failed" => main = "gone"

\* It does not wait for ever, whichever step of the daemon fails, or signal ends it.
ParentEnds == parent = "reading" ~> parent # "reading"

\* SIGINT, SIGTERM, the end of any task, or the deletion of a watched socket file end
\* the daemon, at every stage of its start (spawn_canceller: "When the future
\* completes, this scope is cancelled").
Told == \/ "term" \in pending \/ socketFile = "deleted"
        \/ \E t \in Tasks : task[t] = "ended"
EndsWhenTold == Told ~> main = "gone"

\* After a SIGHUP the configuration in use is the one that the file had then, or a
\* later one, also when reloads and changes of the file overlap, unless the file is
\* broken at some time after, or the daemon ends.
ReloadsLatest ==
  \A v \in 1..MaxVersion :
    asked = v /\ opt.path # "none" /\ CanOpen
      ~> loaded >= v \/ main = "gone" \/ ~conf.whole
=============================================================================
