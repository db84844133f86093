------------------------------ MODULE TunPool ------------------------------
(* Wintun adapters (src/wireguard/tun_windows/pool.rs, interface.rs and the open,
   close and Drop of tun_windows.rs): processes that find, delete and create the
   adapters of one machine under a named mutex.  What Windows does is external: it
   has the devices, their names, the registry and the mutex, which passes to the
   next waiter when its owner dies.  A process opens a tunnel, runs, closes; it
   may die at any point, and then its adapter and its half-made ones stay.

   Of the registry one entry is modelled, for the process that holds the mutex:
   the value or key that it waits for, while it does.  Time is not: a wait may time out
   whenever its event is not signalled.  *)
EXTENDS Integers

CONSTANTS Procs,     \* processes on the machine
          Ids,       \* devices, numbers
          Names,     \* names of interfaces: [word, upper, number]
          MaxFaults, \* bound: deaths, and failures that leave a device behind
          MaxChanges,\* bound: changes of the registry during one creation
          None       \* no process, no device, a device's name before set_name

ASSUME TunPoolAssumption ==
  /\ Procs # {} /\ Ids \subseteq Nat /\ 0 \in Ids /\ MaxFaults \in Nat /\ MaxChanges \in Nat
  /\ Names \subseteq [word : STRING, upper : BOOLEAN, number : BOOLEAN]
  /\ None \notin Procs /\ None \notin Ids /\ None \notin Names

VARIABLES dev,    \* device -> [name, visible, member], for those that exist
          mutex,  \* the process that holds the named mutex
          died,   \* did the holder die?  (WAIT_ABANDONED)
          pc,     \* where each process is
          name,   \* AsyncTun::name, or the name given to open
          it,     \* the Interface in its hands
          reg,    \* the entry waited for (present), the notification (armed), its
                  \* event (fired), and how often the registry will change (left)
          faults  \* deaths and failures that may leave a device behind

vars == <<dev, mutex, died, pc, name, it, reg, faults>>

\* Stages of open and close.  Those of Locked hold the mutex; in those of
\* Guarded the scope guard of create_interface removes the device on failure.
Guarded == {"registered", "value_arm", "value_look", "value_wait",
            "key_look", "key_wait", "configured"}
Locked == Guarded \cup {"get", "close_get", "create"}
Unlocked == {"idle", "want_get", "delete", "want_create", "handle", "rings",
             "running", "want_close_get", "close_delete"}

Devices == DOMAIN dev

TypeOK ==
  /\ Devices \subseteq Ids
  /\ dev \in [Devices -> [name : Names \cup {None}, visible : BOOLEAN, member : BOOLEAN]]
  /\ mutex \in Procs \cup {None} /\ died \in BOOLEAN
  /\ pc \in [Procs -> Locked \cup Unlocked]
  /\ \A p \in Procs : pc[p] \in Locked <=> mutex = p /\ ~died
  /\ name \in [Procs -> Names \cup {None}]
  /\ it \in [Procs -> Ids \cup {None}]
  /\ reg \in [present : BOOLEAN, armed : BOOLEAN, fired : BOOLEAN, left : 0..MaxChanges]
  /\ faults \in 0..MaxFaults

\* A new entry to wait for, with a new event.
Wait(left) == [present |-> FALSE, armed |-> FALSE, fired |-> FALSE, left |-> left]

\* Another program may have an adapter by one of the names, or not.
Init ==
  /\ dev \in {<< >>} \cup {[d \in {0} |-> [name |-> n, visible |-> TRUE, member |-> FALSE]] : n \in Names}
  /\ mutex = None /\ died = FALSE
  /\ pc = [p \in Procs |-> "idle"]
  /\ name = [p \in Procs |-> None]
  /\ it = [p \in Procs |-> None]
  /\ reg = Wait(0)
  /\ faults = 0

GoTo(p, stage) == pc' = [pc EXCEPT ![p] = stage]
Release == mutex' = None /\ UNCHANGED died
\* dev without the device d.
Without(d) == [e \in Devices \ {d} |-> dev[e]]

\* Give up: whatever the process was to do with the interface it will not.
Fail(p) ==
  /\ GoTo(p, "idle")
  /\ it' = [it EXCEPT ![p] = None]
  /\ name' = [name EXCEPT ![p] = None]

\* What it costs that a process gives up what it has in its hands.
Abandon(p) ==
  IF it[p] \in Devices
  THEN faults < MaxFaults /\ faults' = faults + 1
  ELSE UNCHANGED faults

-----------------------------------------------------------------------------
(* The named mutex. *)

Free_NotAbandoned == mutex = None

\* wait_for_single_object takes WAIT_ABANDONED for success.
Free == mutex = None \/ died

TakeMutex(p) ==
  /\ Free
  /\ \E w \in {<<"want_get", "get">>, <<"want_create", "create">>, <<"want_close_get", "close_get">>} :
       pc[p] = w[1] /\ GoTo(p, w[2])
  /\ mutex' = p /\ died' = FALSE
  /\ UNCHANGED <<dev, name, it, reg, faults>>

-----------------------------------------------------------------------------
(* get_interface and delete. *)

Lower(n) == [n EXCEPT !.upper = FALSE]
RemoveNumberedSuffix(n) == [n EXCEPT !.number = FALSE]

\* Interface::new and its name succeed: the device is installed and named.
HasInterface(d) == dev[d].visible /\ dev[d].name # None

\* Only the name asked for is made lower case.
Matches(d, n) ==
  /\ HasInterface(d)
  /\ Lower(n) \in {dev[d].name, RemoveNumberedSuffix(dev[d].name)}

Candidates(n) == {d \in Devices : Matches(d, n)}

IsMember_Any(d) == TRUE

IsMember(d) == dev[d].member

\* What get_interface may return, in whatever order the devices are listed: a
\* device of the pool, or None, for a candidate that Interface::new fails for or that
\* has no compatible driver is passed over.  With one that is not of the pool it may
\* return AlreadyExists instead.
Found(n) == {None} \cup {d \in Candidates(n) : IsMember(d)}

Open(p, n) ==
  /\ pc[p] = "idle"
  /\ GoTo(p, "want_get")
  /\ name' = [name EXCEPT ![p] = n]
  /\ UNCHANGED <<dev, mutex, died, it, reg, faults>>

GetForOpen(p) ==
  /\ pc[p] = "get"
  /\ Release
  /\ \/ \E r \in Found(name[p]) :
          /\ it' = [it EXCEPT ![p] = r]
          /\ GoTo(p, IF r = None THEN "want_create" ELSE "delete")
          /\ UNCHANGED name
     \/ Fail(p)
  /\ UNCHANGED <<dev, reg, faults>>

\* delete looks for the device again, without the mutex.
DeleteOld(p) ==
  /\ pc[p] = "delete"
  /\ \/ /\ it[p] \in Devices
        /\ dev' = Without(it[p])
        /\ it' = [it EXCEPT ![p] = None]
        /\ GoTo(p, "want_create")
        /\ UNCHANGED <<name, faults>>
     \/ /\ Fail(p) /\ Abandon(p)
        /\ UNCHANGED dev
  /\ UNCHANGED <<mutex, died, reg>>

-----------------------------------------------------------------------------
(* create_interface: all of it holds the mutex. *)

\* Devices for a new adapter; one that somebody still refers to is not used again.
Unused == Ids \ (Devices \cup {0} \cup {it[p] : p \in Procs})

\* Select the newest compatible driver, and register a device; without a driver
\* nothing is registered.
Register(p) ==
  /\ pc[p] = "create"
  /\ \/ /\ Fail(p) /\ Release
        /\ UNCHANGED <<dev, reg>>
     \/ \E d \in Unused :
          /\ \A e \in Unused : d <= e
          /\ dev' = [e \in Devices \cup {d} |->
                       IF e = d THEN [name |-> None, visible |-> FALSE, member |-> FALSE] ELSE dev[e]]
          /\ it' = [it EXCEPT ![p] = d]
          /\ GoTo(p, "registered")
          /\ reg' = Wait(MaxChanges)
          /\ UNCHANGED <<mutex, died, name>>
  /\ UNCHANGED faults

CreateFails_DisarmedEarly(p) ==
  /\ Fail(p) /\ Release
  /\ dev' = IF pc[p] = "configured" THEN dev ELSE Without(it[p])
  /\ reg' = Wait(0)
  /\ UNCHANGED faults

\* The guard removes the device, or logs that it can not; the mutex is released.
CreateFails(p) ==
  /\ Fail(p) /\ Release
  /\ \/ dev' = Without(it[p]) /\ UNCHANGED faults
     \/ UNCHANGED dev /\ Abandon(p)
  /\ reg' = Wait(0)

\* A call of Windows returns an error.
CallFails(p) == pc[p] \in Guarded \ {"value_wait", "key_wait"} /\ CreateFails(p)

\* Install the device and describe it as one of the pool.
Install(p) ==
  /\ pc[p] = "registered"
  /\ GoTo(p, "value_arm")
  /\ dev' = [dev EXCEPT ![it[p]].visible = TRUE, ![it[p]].member = TRUE]
  /\ UNCHANGED <<mutex, died, name, it, reg, faults>>

\* registry_wait_for_value: ask to be notified, look, wait, and again.
ValueArm(p) ==
  /\ pc[p] = "value_arm"
  /\ GoTo(p, "value_look")
  /\ reg' = [reg EXCEPT !.armed = TRUE]
  /\ UNCHANGED <<dev, mutex, died, name, it, faults>>

\* When it is there, registry_open_key_wait asks once to be notified of its key.
ValueLook(p) ==
  /\ pc[p] = "value_look"
  /\ GoTo(p, IF reg.present THEN "key_look" ELSE "value_wait")
  /\ reg' = IF reg.present THEN [Wait(reg.left) EXCEPT !.armed = TRUE] ELSE reg
  /\ UNCHANGED <<dev, mutex, died, name, it, faults>>

ValueWakes_Looks(p) ==
  /\ pc[p] = "value_wait" /\ reg.fired
  /\ GoTo(p, "value_look")
  /\ reg' = [reg EXCEPT !.fired = FALSE]
  /\ UNCHANGED <<dev, mutex, died, name, it, faults>>

ValueWakes(p) ==
  /\ pc[p] = "value_wait" /\ reg.fired
  /\ GoTo(p, "value_arm")
  /\ reg' = [reg EXCEPT !.fired = FALSE]
  /\ UNCHANGED <<dev, mutex, died, name, it, faults>>

ValueTimesOut(p) == pc[p] = "value_wait" /\ ~reg.fired /\ CreateFails(p)

KeyLook(p) ==
  /\ pc[p] = "key_look"
  /\ GoTo(p, IF reg.present THEN "configured" ELSE "key_wait")
  /\ UNCHANGED <<dev, mutex, died, name, it, reg, faults>>

\* Back to the look: this loop does not ask for another notification.
KeyWakes(p) ==
  /\ pc[p] = "key_wait" /\ reg.fired
  /\ GoTo(p, "key_look")
  /\ reg' = [reg EXCEPT !.fired = FALSE]
  /\ UNCHANGED <<dev, mutex, died, name, it, faults>>

KeyTimesOut(p) == pc[p] = "key_wait" /\ ~reg.fired /\ CreateFails(p)

\* External: something changes in the registry, perhaps what is waited for.  It
\* signals the event of a notification that is asked for, once.
RegistryChanges ==
  /\ \E p \in Procs : pc[p] \in Guarded
  /\ reg.left > 0
  /\ \E there \in {reg.present, TRUE} :
       reg' = [present |-> there, armed |-> FALSE, fired |-> reg.fired \/ reg.armed,
               left |-> reg.left - 1]
  /\ UNCHANGED <<dev, mutex, died, pc, name, it, faults>>

NameTaken(n) == \E d \in Devices : dev[d].name # None /\ Lower(dev[d].name) = Lower(n)

\* set_name, which Windows refuses for a name in use; then the guard is
\* disarmed, and the mutex released.
SetName(p) ==
  /\ pc[p] = "configured"
  /\ IF NameTaken(name[p])
     THEN CreateFails(p)
     ELSE /\ dev' = [dev EXCEPT ![it[p]].name = name[p]]
          /\ GoTo(p, "handle")
          /\ Release
          /\ reg' = Wait(0)
          /\ UNCHANGED <<name, it, faults>>

-----------------------------------------------------------------------------
(* The rest of open, and close. *)

\* Interface::handle, and then the rings: both need the device to be there still.
OpenHandle(p) ==
  /\ pc[p] = "handle" /\ it[p] \in Devices
  /\ GoTo(p, "rings")
  /\ UNCHANGED <<dev, mutex, died, name, it, reg, faults>>

RegisterRings(p) ==
  /\ pc[p] = "rings" /\ it[p] \in Devices
  /\ GoTo(p, "running")
  /\ UNCHANGED <<dev, mutex, died, name, it, reg, faults>>

\* One that fails leaves the device, which no AsyncTun will close.
OpenFails(p) ==
  /\ pc[p] \in {"handle", "rings"}
  /\ Fail(p)
  /\ Abandon(p)
  /\ UNCHANGED <<dev, mutex, died, reg>>

\* Drop: close looks the interface up by its name.  An error of it is only logged.
Close(p) ==
  /\ pc[p] = "running"
  /\ GoTo(p, "want_close_get")
  /\ UNCHANGED <<dev, mutex, died, name, it, reg, faults>>

GetForClose(p) ==
  /\ pc[p] = "close_get"
  /\ Release
  /\ \/ \E r \in Found(name[p]) \ {None} :
          /\ it' = [it EXCEPT ![p] = r]
          /\ GoTo(p, "close_delete")
          /\ UNCHANGED <<name, faults>>
     \/ /\ Candidates(name[p]) = {} \/ \E d \in Candidates(name[p]) : ~IsMember(d)
        /\ Fail(p)
        /\ UNCHANGED faults
     \/ Abandon(p) /\ Fail(p)
  /\ UNCHANGED <<dev, reg>>

CloseDeletes(p) ==
  /\ pc[p] = "close_delete"
  /\ Fail(p)
  /\ \/ dev' = Without(it[p]) /\ UNCHANGED faults
     \/ UNCHANGED dev /\ Abandon(p)
  /\ UNCHANGED <<mutex, died, reg>>

\* The process is killed.  Windows abandons the mutex for it.
Die(p) ==
  /\ pc[p] # "idle"
  /\ Fail(p)
  /\ Abandon(p)
  /\ died' = (died \/ mutex = p)
  /\ reg' = IF pc[p] \in Guarded THEN Wait(0) ELSE reg
  /\ UNCHANGED <<dev, mutex>>

Creates(p) ==
  \/ Register(p) \/ CallFails(p) \/ Install(p)
  \/ ValueArm(p) \/ ValueLook(p) \/ ValueWakes(p) \/ ValueTimesOut(p)
  \/ KeyLook(p) \/ KeyWakes(p) \/ KeyTimesOut(p) \/ SetName(p)

\* A process that is not idle, running or waiting for the mutex goes on.
GoesOn(p) ==
  \/ GetForOpen(p) \/ DeleteOld(p) \/ Creates(p) \/ OpenHandle(p) \/ RegisterRings(p) \/ OpenFails(p)
  \/ GetForClose(p) \/ CloseDeletes(p)

Next ==
  \/ RegistryChanges
  \/ \E p \in Procs : TakeMutex(p) \/ GoesOn(p) \/ Close(p) \/ Die(p) \/ \E n \in Names : Open(p, n)

-----------------------------------------------------------------------------
\* A process that has begun goes on, and a thread that waits for a mutex that is
\* released again and again gets it.
Spec ==
  /\ Init /\ [][Next]_vars
  /\ \A p \in Procs : WF_vars(GoesOn(p)) /\ SF_vars(TakeMutex(p))

\* A device that a process has in its hands: it will close it, or the guard will.
Held(d) == \E p \in Procs : it[p] = d

\* Nothing this code does removes the adapter of another program, even when it has
\* the name asked for: get_interface refuses it (is_member, pool.rs:578).
ForeignKept == [][0 \in Devices => 0 \in Devices']_vars

\* A close by this name may miss the adapter d, which has it: capitals are not found
\* again, and a sibling with a number may be taken for it.
Mistakable(n, d) ==
  \/ n.upper
  \/ \E e \in Devices \ {d} :
       dev[e].name # None /\ dev[e].name.number /\ RemoveNumberedSuffix(dev[e].name) = n

\* Whatever a creation, an open or a close is doing when it fails, no adapter that is
\* there slips out of everybody's hands, with nobody left who will remove it, unless a
\* process is killed or a call of Windows that would have removed it fails (the scope
\* guards of create_interface, open's delete of the old adapter, Drop), but for the
\* closes that look for the wrong name (pool.rs:518, 550).
LeftoversAccounted ==
  [][\A d \in Devices \ {0} :
       Held(d) /\ ~Held(d)' /\ d \in Devices' =>
         \/ faults' > faults
         \/ \E p \in Procs : pc[p] = "close_get" /\ it[p] = d /\ Mistakable(name[p], d)]_vars

\* registry_wait_for_value does not miss the value: when it gives up, and not because
\* the process is killed, the value is not there (the notification is asked for again
\* before every look, pool.rs:53).
ValueNotMissed ==
  [][\A p \in Procs :
       pc[p] = "value_wait" /\ pc'[p] = "idle" /\ ~died' => ~reg.present]_vars

\* The owner of the named mutex may be killed in the middle of a creation, and two
\* processes may delete each other's adapters: still every open ends, in a running
\* tunnel or in an error (wait_for_single_object, the guards, the timeouts).
OpenEnds == \A p \in Procs : pc[p] = "want_get" ~> pc[p] \in {"running", "idle"}
=============================================================================
