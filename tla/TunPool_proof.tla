--------------------------- MODULE TunPool_proof ---------------------------
(* Proofs about TunPool, for any processes, devices and names.             *)
EXTENDS TunPool, TLAPS

USE TunPoolAssumption

\* Before get_interface has found or create_interface has made one, a process has
\* no interface in its hands; in Opened it is the one of its tunnel.
EmptyHanded == {"idle", "want_get", "get", "want_create", "create"}
Opened == {"handle", "rings", "running", "want_close_get", "close_get"}

\* What the guard of create_interface will remove is there, has no name yet, by
\* which somebody could find it, and is in nobody else's hands.
InTheMaking(p) ==
  /\ it[p] \in Devices /\ dev[it[p]].name = None
  /\ \A q \in Procs \ {p} : it[q] # it[p]
  /\ pc[p] # "registered" => dev[it[p]].visible /\ dev[it[p]].member

\* The adapter of a tunnel, unless somebody has deleted it.
OfTunnel(p) ==
  it[p] \in Devices => dev[it[p]] = [name |-> name[p], visible |-> TRUE, member |-> TRUE]

Hands(p) ==
  /\ pc[p] \in EmptyHanded => it[p] = None
  /\ pc[p] # "idle" => name[p] \in Names
  /\ pc[p] \in Guarded => InTheMaking(p)
  /\ pc[p] \in Opened => OfTunnel(p)

HandsInv == \A p \in Procs : Hands(p)

\* The adapter of another program is in nobody's hands.
ForeignInv ==
  /\ \A p \in Procs : it[p] # 0
  /\ 0 \in Devices => ~dev[0].member

\* Windows gives no two adapters the same name.
NamesInv ==
  \A d, e \in Devices :
    dev[d].name # None /\ dev[e].name # None /\ Lower(dev[d].name) = Lower(dev[e].name)
      => d = e

PoolInv == HandsInv /\ ForeignInv /\ NamesInv

-----------------------------------------------------------------------------
(* Types, in four parts. *)

DevOK ==
  /\ Devices \subseteq Ids
  /\ dev \in [Devices -> [name : Names \cup {None}, visible : BOOLEAN, member : BOOLEAN]]

MutexOK ==
  /\ mutex \in Procs \cup {None} /\ died \in BOOLEAN
  /\ pc \in [Procs -> Locked \cup Unlocked]
  /\ \A p \in Procs : pc[p] \in Locked <=> mutex = p /\ ~died

HandsOK ==
  /\ name \in [Procs -> Names \cup {None}]
  /\ it \in [Procs -> Ids \cup {None}]
  /\ faults \in 0..MaxFaults

RegOK == reg \in [present : BOOLEAN, armed : BOOLEAN, fired : BOOLEAN, left : 0..MaxChanges]

LEMMA TypeParts == TypeOK <=> DevOK /\ MutexOK /\ HandsOK /\ RegOK
BY Zenon DEF TypeOK, DevOK, MutexOK, HandsOK, RegOK

LEMMA Stages ==
  /\ Locked \cap Unlocked = {} /\ Guarded \subseteq Locked
  /\ EmptyHanded \cap Guarded = {} /\ Opened \cap Guarded = {} /\ Opened \cap EmptyHanded = {}
BY DEF Locked, Unlocked, Guarded, EmptyHanded, Opened

LEMMA TypeInit == Init => TypeOK
<1> SUFFICES ASSUME Init PROVE TypeOK
  OBVIOUS
<1>1. DevOK
  <2>1. CASE dev = << >>
    BY <2>1 DEF Devices, DevOK
  <2>2. ASSUME NEW n \in Names, dev = [d \in {0} |-> [name |-> n, visible |-> TRUE, member |-> FALSE]]
        PROVE  DevOK
    BY <2>2 DEF Devices, DevOK
  <2>3. QED
    BY <2>1, <2>2 DEF Init
<1>2. HandsOK /\ RegOK
  BY DEF Init, Wait, HandsOK, RegOK
<1>3. MutexOK
  BY Stages DEF Init, MutexOK, Unlocked
<1>4. QED
  BY <1>1, <1>2, <1>3, TypeParts

\* A step of one process that keeps the mutex, or does not have it.
LEMMA MutexStill ==
  ASSUME MutexOK, NEW p \in Procs, NEW s \in Locked \cup Unlocked, GoTo(p, s),
         UNCHANGED <<mutex, died>>, s \in Locked <=> pc[p] \in Locked
  PROVE  MutexOK'
BY DEF MutexOK, GoTo

LEMMA MutexReleased ==
  ASSUME MutexOK, NEW p \in Procs, NEW s \in Unlocked, GoTo(p, s), Release, pc[p] \in Locked
  PROVE  MutexOK'
<1>1. \A q \in Procs : pc[q] \in Locked => q = p
  BY DEF MutexOK
<1>2. QED
  BY <1>1, Stages DEF MutexOK, GoTo, Release

LEMMA Taken ==
  ASSUME NEW p \in Procs, TakeMutex(p)
  PROVE  \/ pc[p] = "want_get" /\ GoTo(p, "get")
         \/ pc[p] = "want_create" /\ GoTo(p, "create")
         \/ pc[p] = "want_close_get" /\ GoTo(p, "close_get")
<1>1. PICK w \in {<<"want_get", "get">>, <<"want_create", "create">>, <<"want_close_get", "close_get">>} :
        pc[p] = w[1] /\ GoTo(p, w[2])
  BY Zenon DEF TakeMutex
<1>2. CASE w = <<"want_get", "get">>
  BY <1>1, <1>2
<1>3. CASE w = <<"want_create", "create">>
  BY <1>1, <1>3
<1>4. CASE w = <<"want_close_get", "close_get">>
  BY <1>1, <1>4
<1>5. QED
  BY <1>2, <1>3, <1>4

LEMMA MutexTaken ==
  ASSUME MutexOK, NEW p \in Procs, TakeMutex(p)
  PROVE  MutexOK'
<1>1. \A q \in Procs : pc[q] \notin Locked
  BY DEF MutexOK, TakeMutex, Free
<1>2. GoTo(p, "get") \/ GoTo(p, "create") \/ GoTo(p, "close_get")
  BY Taken
<1>3. mutex' = p /\ died' = FALSE
  BY DEF TakeMutex
<1>4. {"get", "create", "close_get"} \subseteq Locked
  BY DEF Locked
<1>5. QED
  BY <1>1, <1>2, <1>3, <1>4 DEF MutexOK, GoTo

LEMMA MutexDied ==
  ASSUME MutexOK, NEW p \in Procs, Die(p)
  PROVE  MutexOK'
<1>1. pc' = [pc EXCEPT ![p] = "idle"] /\ mutex' = mutex /\ died' = (died \/ mutex = p)
  BY DEF Die, Fail, GoTo
<1>2. "idle" \in Unlocked /\ "idle" \notin Locked
  BY Stages DEF Unlocked
<1>3. QED
  BY <1>1, <1>2 DEF MutexOK

-----------------------------------------------------------------------------
(* What a step is for the devices and the interfaces in the hands of processes. *)

Idle(p) ==
  /\ pc' = [pc EXCEPT ![p] = "idle"]
  /\ it' = [it EXCEPT ![p] = None]
  /\ name' = [name EXCEPT ![p] = None]

\* It goes on, with what it has in its hands.
Alike(a, b) ==
  /\ {a, b} \cap {"idle", "registered"} = {} /\ b \in Locked \cup Unlocked
  /\ a \in EmptyHanded <=> b \in EmptyHanded
  /\ a \in Guarded <=> b \in Guarded
  /\ a \in Opened <=> b \in Opened

Quiet(p) ==
  /\ \E s \in Locked \cup Unlocked : Alike(pc[p], s) /\ pc' = [pc EXCEPT ![p] = s]
  /\ UNCHANGED <<dev, name, it, faults>>

Opens(p) ==
  /\ pc[p] = "idle" /\ pc' = [pc EXCEPT ![p] = "want_get"]
  /\ \E n \in Names : name' = [name EXCEPT ![p] = n]
  /\ UNCHANGED <<dev, it, faults>>

GivesUp(p) == Idle(p) /\ Abandon(p) /\ UNCHANGED dev

\* close does not find the adapter.
NotFound(p) ==
  /\ pc[p] = "close_get" /\ Idle(p) /\ UNCHANGED <<dev, faults>>
  /\ Candidates(name[p]) = {} \/ \E d \in Candidates(name[p]) : ~IsMember(d)

\* The guard, or close, removes the device.
Removes(p) == Idle(p) /\ dev' = Without(it[p]) /\ UNCHANGED faults

\* get_interface returns a device of the pool.
Finds(p) ==
  \E d \in Candidates(name[p]) :
    /\ IsMember(d)
    /\ it' = [it EXCEPT ![p] = d]
    /\ \/ pc[p] = "get" /\ pc' = [pc EXCEPT ![p] = "delete"]
       \/ pc[p] = "close_get" /\ pc' = [pc EXCEPT ![p] = "close_delete"]
    /\ UNCHANGED <<dev, name, faults>>

Deletes(p) ==
  /\ pc[p] = "delete" /\ pc' = [pc EXCEPT ![p] = "want_create"]
  /\ it[p] \in Devices /\ dev' = Without(it[p])
  /\ it' = [it EXCEPT ![p] = None]
  /\ UNCHANGED <<name, faults>>

Registers(p) ==
  \E d \in Unused :
    /\ pc[p] = "create" /\ pc' = [pc EXCEPT ![p] = "registered"]
    /\ dev' = [e \in Devices \cup {d} |->
                 IF e = d THEN [name |-> None, visible |-> FALSE, member |-> FALSE] ELSE dev[e]]
    /\ it' = [it EXCEPT ![p] = d]
    /\ UNCHANGED <<name, faults>>

GetsName(p) ==
  /\ pc[p] = "configured" /\ pc' = [pc EXCEPT ![p] = "handle"]
  /\ ~NameTaken(name[p])
  /\ dev' = [dev EXCEPT ![it[p]].name = name[p]]
  /\ UNCHANGED <<name, it, faults>>

Shape(p) ==
  \/ Quiet(p) \/ Opens(p) \/ GivesUp(p) \/ NotFound(p) \/ Removes(p) \/ Finds(p)
  \/ Deletes(p) \/ Registers(p) \/ Install(p) \/ GetsName(p)

StepOf(p) == TakeMutex(p) \/ GoesOn(p) \/ Close(p) \/ Die(p) \/ \E n \in Names : Open(p, n)

LEMMA StagesAlike ==
  /\ Alike("want_get", "get") /\ Alike("want_create", "create")
  /\ Alike("want_close_get", "close_get")
  /\ \A a \in Guarded : \A b \in Guarded :
       a # "registered" /\ b # "registered" => Alike(a, b)
  /\ Alike("handle", "rings") /\ Alike("rings", "running") /\ Alike("running", "want_close_get")
<1>1. Alike("want_get", "get") /\ Alike("want_create", "create")
  BY DEF Alike, EmptyHanded, Opened, Guarded, Locked, Unlocked
<1>2. \A a \in Guarded : \A b \in Guarded :
       a # "registered" /\ b # "registered" => Alike(a, b)
  BY DEF Alike, EmptyHanded, Opened, Guarded, Locked
<1>3. Alike("want_close_get", "close_get")
  BY DEF Alike, EmptyHanded, Opened, Guarded, Locked, Unlocked
<1>4. Alike("handle", "rings") /\ Alike("rings", "running") /\ Alike("running", "want_close_get")
  BY DEF Alike, EmptyHanded, Opened, Guarded, Locked, Unlocked
<1>5. QED
  BY <1>1, <1>2, <1>3, <1>4

LEMMA IsQuiet ==
  ASSUME NEW p \in Procs, NEW s, Alike(pc[p], s), GoTo(p, s), UNCHANGED <<dev, name, it, faults>>
  PROVE  Shape(p)
BY DEF Alike, Quiet, GoTo, Shape

LEMMA Shapes ==
  ASSUME HandsInv, DevOK, HandsOK, NEW p \in Procs, StepOf(p)
  PROVE  Shape(p)
<1> USE DEF Idle, Fail, GoTo
<1>1. CASE TakeMutex(p)
  <2>1. UNCHANGED <<dev, name, it, faults>>
    BY <1>1 DEF TakeMutex
  <2>2. \/ pc[p] = "want_get" /\ GoTo(p, "get")
        \/ pc[p] = "want_create" /\ GoTo(p, "create")
        \/ pc[p] = "want_close_get" /\ GoTo(p, "close_get")
    BY <1>1, Taken
  <2>3. QED
    BY <2>1, <2>2, StagesAlike, IsQuiet
<1>2. CASE ValueArm(p) \/ ValueLook(p) \/ ValueWakes(p) \/ KeyLook(p) \/ KeyWakes(p)
  <2>1. PICK s \in Guarded : s # "registered" /\ GoTo(p, s)
    BY <1>2 DEF ValueArm, ValueLook, ValueWakes, KeyLook, KeyWakes, Guarded
  <2>2. pc[p] \in Guarded /\ pc[p] # "registered" /\ UNCHANGED <<dev, name, it, faults>>
    BY <1>2 DEF ValueArm, ValueLook, ValueWakes, KeyLook, KeyWakes, Guarded
  <2>3. QED
    BY <2>1, <2>2, StagesAlike, IsQuiet
<1>3. CASE OpenHandle(p) \/ RegisterRings(p) \/ Close(p)
  BY <1>3, StagesAlike, IsQuiet DEF OpenHandle, RegisterRings, Close
<1>4. CASE \E n \in Names : Open(p, n)
  BY <1>4 DEF Open, Opens, Shape
<1>5. CASE Die(p) \/ OpenFails(p)
  BY <1>5 DEF Die, OpenFails, GivesUp, Shape
<1>6. pc[p] \in EmptyHanded => it[p] \notin Devices
  BY DEF HandsInv, Hands, DevOK
<1>7. CASE GetForOpen(p)
  <2>1. pc[p] = "get" /\ it[p] \notin Devices
    BY <1>6, <1>7 DEF GetForOpen, EmptyHanded
  <2>2. CASE Fail(p) /\ UNCHANGED <<dev, faults>>
    BY <2>1, <2>2 DEF GivesUp, Abandon, Shape
  <2>3. ASSUME NEW r \in Found(name[p]), it' = [it EXCEPT ![p] = r],
               GoTo(p, IF r = None THEN "want_create" ELSE "delete"),
               UNCHANGED <<dev, name, faults>>
        PROVE  Shape(p)
    <3>1. CASE r = None
      <4>1. it' = it
        BY <1>6, <1>7, <2>3, <3>1 DEF HandsInv, Hands, HandsOK, GetForOpen, EmptyHanded
      <4>2. Alike("get", "want_create")
        BY DEF Alike, EmptyHanded, Opened, Guarded, Locked, Unlocked
      <4>3. QED
        BY <2>1, <2>3, <3>1, <4>1, <4>2, IsQuiet
    <3>2. CASE r # None
      <4>1. r \in Candidates(name[p]) /\ IsMember(r)
        BY <3>2 DEF Found
      <4>2. QED
        BY <2>1, <2>3, <3>2, <4>1 DEF Finds, Shape
    <3>3. QED
      BY <3>1, <3>2
  <2>4. QED
    BY <1>7, <2>2, <2>3 DEF GetForOpen
<1>8. CASE DeleteOld(p)
  BY <1>8 DEF DeleteOld, Deletes, GivesUp, Shape
<1>9. CASE Register(p)
  <2>1. pc[p] = "create" /\ it[p] \notin Devices
    BY <1>6, <1>9 DEF Register, EmptyHanded
  <2>2. CASE Fail(p) /\ UNCHANGED <<dev, faults>>
    BY <2>1, <2>2 DEF GivesUp, Abandon, Shape
  <2>3. QED
    BY <1>9, <2>1, <2>2 DEF Register, Registers, Shape
<1>10. CASE CreateFails(p)
  BY <1>10 DEF CreateFails, Removes, GivesUp, Shape
<1>11. CASE SetName(p)
  BY <1>10, <1>11 DEF SetName, GetsName, Shape
<1>12. CASE GetForClose(p)
  <2>1. ASSUME NEW r \in Found(name[p]) \ {None}, it' = [it EXCEPT ![p] = r],
               GoTo(p, "close_delete"), UNCHANGED <<dev, name, faults>>
        PROVE  Shape(p)
    <3>1. r \in Candidates(name[p]) /\ IsMember(r)
      BY <2>1 DEF Found
    <3>2. QED
      BY <1>12, <2>1, <3>1 DEF Finds, Shape, GetForClose
  <2>2. QED
    BY <1>12, <2>1 DEF GetForClose, NotFound, GivesUp, Shape
<1>13. CASE CloseDeletes(p)
  BY <1>13 DEF CloseDeletes, Removes, GivesUp, Shape
<1>14. CASE Install(p)
  BY <1>14 DEF Shape
<1>15. CallFails(p) \/ ValueTimesOut(p) \/ KeyTimesOut(p) => CreateFails(p)
  BY DEF CallFails, ValueTimesOut, KeyTimesOut
<1>16. QED
  BY Zenon, <1>1, <1>2, <1>3, <1>4, <1>5, <1>7, <1>8, <1>9, <1>10, <1>11, <1>12, <1>13, <1>14, <1>15
     DEF StepOf, GoesOn, Creates

-----------------------------------------------------------------------------
(* What a process has in its hands, and the devices. *)

\* A step of p leaves another process what it has.
LEMMA OthersKeep ==
  ASSUME NEW p \in Procs, NEW q \in Procs \ {p}, Hands(q),
         \A r \in Procs \ {p} : it'[r] = it[r],
         pc'[q] = pc[q], name'[q] = name[q],
         it[q] \in Devices' => it[q] \in Devices /\ dev'[it[q]] = dev[it[q]],
         pc[q] \in Guarded => it[q] \in Devices' /\ it'[p] # it[q]
  PROVE  Hands(q)'
<1>1. it'[q] = it[q] /\ pc'[q] = pc[q] /\ name'[q] = name[q]
  OBVIOUS
<1>2. pc[q] \in Guarded => InTheMaking(q)'
  BY <1>1 DEF Hands, InTheMaking
<1>3. pc[q] \in Opened => OfTunnel(q)'
  BY <1>1 DEF Hands, OfTunnel
<1>4. QED
  BY <1>1, <1>2, <1>3 DEF Hands

\* Devices that go.
LEMMA WithoutKeeps ==
  ASSUME DevOK, NamesInv, NEW d, dev' = Without(d)
  PROVE  /\ Devices' = Devices \ {d} /\ \A e \in Devices' : dev'[e] = dev[e]
         /\ DevOK' /\ NamesInv'
<1>1. Devices' = Devices \ {d} /\ \A e \in Devices' : dev'[e] = dev[e]
  BY DEF Without, Devices
<1>2. DevOK'
  BY <1>1 DEF DevOK, Without
<1>3. NamesInv'
  BY <1>1 DEF NamesInv
<1>4. QED
  BY <1>1, <1>2, <1>3

\* A process that is idle has nothing.
LEMMA IdleHands ==
  ASSUME TypeOK, NEW p \in Procs, Idle(p)
  PROVE  /\ Hands(p)' /\ it'[p] = None
         /\ \A q \in Procs \ {p} : pc'[q] = pc[q] /\ it'[q] = it[q] /\ name'[q] = name[q]
<1>1. pc'[p] = "idle" /\ it'[p] = None
  BY DEF TypeOK, Idle
<1>2. \A q \in Procs \ {p} : pc'[q] = pc[q] /\ it'[q] = it[q] /\ name'[q] = name[q]
  BY DEF TypeOK, Idle
<1>3. QED
  BY <1>1, <1>2 DEF Hands, Guarded, Opened

PoolNext == PoolInv' /\ DevOK' /\ HandsOK'

LEMMA QuietStep ==
  ASSUME TypeOK, PoolInv, NEW p \in Procs, Quiet(p)
  PROVE  PoolNext
<1>1. PICK s \in Locked \cup Unlocked : Alike(pc[p], s) /\ pc' = [pc EXCEPT ![p] = s]
  BY DEF Quiet
<1>2. UNCHANGED <<dev, name, it, faults>> /\ Devices' = Devices
  BY DEF Quiet, Devices
<1>3. DevOK' /\ HandsOK' /\ ForeignInv' /\ NamesInv'
  BY <1>2, TypeParts DEF DevOK, HandsOK, PoolInv, ForeignInv, NamesInv
<1>4. Hands(p)'
  <2>1. pc'[p] = s
    BY <1>1 DEF TypeOK
  <2>2. Hands(p)
    BY DEF PoolInv, HandsInv
  <2>3. s \in Guarded => InTheMaking(p)'
    BY <1>1, <1>2, <2>1, <2>2 DEF Hands, InTheMaking, Alike
  <2>4. s \in Opened => OfTunnel(p)'
    BY <1>1, <1>2, <2>1, <2>2 DEF Hands, OfTunnel, Alike
  <2>5. QED
    BY <1>1, <1>2, <2>1, <2>2, <2>3, <2>4 DEF Hands, Alike
<1>5. ASSUME NEW q \in Procs \ {p} PROVE Hands(q)'
  <2>1. Hands(q)
    BY DEF PoolInv, HandsInv
  <2>2. pc[q] \in Guarded => it[q] \in Devices' /\ it'[p] # it[q]
    BY <1>2, <2>1 DEF Hands, InTheMaking
  <2>3. pc'[q] = pc[q]
    BY <1>1 DEF TypeOK
  <2>4. QED
    BY <1>2, <2>1, <2>2, <2>3, OthersKeep
<1>6. QED
  BY <1>3, <1>4, <1>5 DEF PoolNext, PoolInv, HandsInv

LEMMA OpensStep ==
  ASSUME TypeOK, PoolInv, NEW p \in Procs, Opens(p)
  PROVE  PoolNext
<1>1. PICK n \in Names : name' = [name EXCEPT ![p] = n]
  BY DEF Opens
<1>2. UNCHANGED <<dev, it, faults>> /\ Devices' = Devices
  BY DEF Opens, Devices
<1>3. DevOK' /\ HandsOK' /\ ForeignInv' /\ NamesInv'
  BY <1>1, <1>2, TypeParts DEF DevOK, HandsOK, PoolInv, ForeignInv, NamesInv
<1>4. Hands(p)'
  <2>1. pc'[p] = "want_get" /\ pc[p] = "idle" /\ name'[p] = n
    BY <1>1 DEF TypeOK, Opens
  <2>2. it[p] = None
    BY <2>1 DEF PoolInv, HandsInv, Hands, EmptyHanded
  <2>3. "want_get" \notin Guarded /\ "want_get" \notin Opened
    BY DEF Guarded, Opened
  <2>4. QED
    BY <1>2, <2>1, <2>2, <2>3 DEF Hands
<1>5. ASSUME NEW q \in Procs \ {p} PROVE Hands(q)'
  <2>1. Hands(q)
    BY DEF PoolInv, HandsInv
  <2>2. pc[q] \in Guarded => it[q] \in Devices' /\ it'[p] # it[q]
    BY <1>2, <2>1 DEF Hands, InTheMaking
  <2>3. pc'[q] = pc[q] /\ name'[q] = name[q]
    BY <1>1 DEF TypeOK, Opens
  <2>4. QED
    BY <1>2, <2>1, <2>2, <2>3, OthersKeep
<1>6. QED
  BY <1>3, <1>4, <1>5 DEF PoolNext, PoolInv, HandsInv

\* Giving up, with or without the device.
LEMMA IdleStep ==
  ASSUME TypeOK, PoolInv, NEW p \in Procs, Idle(p),
         dev' = dev \/ dev' = Without(it[p]), faults' \in 0..MaxFaults
  PROVE  PoolNext
<1>1. /\ DevOK' /\ NamesInv'
      /\ Devices \ {it[p]} \subseteq Devices' /\ Devices' \subseteq Devices
      /\ \A e \in Devices' : dev'[e] = dev[e]
  <2>1. CASE dev' = dev
    BY <2>1, TypeParts DEF PoolInv, DevOK, NamesInv, Devices
  <2>2. CASE dev' = Without(it[p])
    <3>1. DevOK /\ NamesInv
      BY TypeParts DEF PoolInv
    <3>2. QED
      BY <2>2, <3>1, WithoutKeeps
  <2>3. QED
    BY <2>1, <2>2
<1>2. HandsOK'
  BY DEF TypeOK, Idle, HandsOK
<1>3. /\ Hands(p)' /\ it'[p] = None
      /\ \A q \in Procs \ {p} : pc'[q] = pc[q] /\ it'[q] = it[q] /\ name'[q] = name[q]
  BY IdleHands
<1>4. ForeignInv'
  BY <1>1, <1>3 DEF PoolInv, ForeignInv
<1>5. ASSUME NEW q \in Procs \ {p} PROVE Hands(q)'
  <2>1. Hands(q)
    BY DEF PoolInv, HandsInv
  <2>2. pc[q] \in Guarded => it[q] \in Devices' /\ it'[p] # it[q]
    BY <1>1, <1>3, <2>1 DEF Hands, InTheMaking, TypeOK
  <2>3. QED
    BY <1>1, <1>3, <2>1, <2>2, OthersKeep
<1>6. QED
  BY <1>1, <1>2, <1>3, <1>4, <1>5 DEF PoolNext, PoolInv, HandsInv

LEMMA FindsStep ==
  ASSUME TypeOK, PoolInv, NEW p \in Procs, Finds(p)
  PROVE  PoolNext
<1>1. PICK d \in Candidates(name[p]) : IsMember(d) /\ it' = [it EXCEPT ![p] = d]
  BY DEF Finds
<1>2. d \in Devices /\ dev[d].member /\ dev[d].name # None
  BY <1>1 DEF Candidates, Matches, HasInterface, IsMember
<1>3. UNCHANGED <<dev, name, faults>> /\ Devices' = Devices
  BY DEF Finds, Devices
<1>4. /\ it'[p] = d /\ \A q \in Procs \ {p} : it'[q] = it[q] /\ pc'[q] = pc[q]
      /\ pc[p] # "idle" /\ pc'[p] \in {"delete", "close_delete"}
  BY <1>1 DEF TypeOK, Finds
<1>5. DevOK' /\ NamesInv'
  BY <1>3, TypeParts DEF DevOK, PoolInv, NamesInv
<1>6. HandsOK' /\ ForeignInv'
  BY <1>1, <1>2, <1>3, <1>4 DEF TypeOK, HandsOK, PoolInv, ForeignInv
<1>7. Hands(p)'
  <2>1. Hands(p)
    BY DEF PoolInv, HandsInv
  <2>2. QED
    BY <1>3, <1>4, <2>1 DEF Hands, EmptyHanded, Guarded, Opened
<1>8. ASSUME NEW q \in Procs \ {p} PROVE Hands(q)'
  <2>1. Hands(q)
    BY DEF PoolInv, HandsInv
  <2>2. pc[q] \in Guarded => it[q] \in Devices' /\ it'[p] # it[q]
    BY <1>2, <1>3, <1>4, <2>1 DEF Hands, InTheMaking
  <2>3. QED
    BY <1>3, <1>4, <2>1, <2>2, OthersKeep
<1>9. QED
  BY <1>5, <1>6, <1>7, <1>8 DEF PoolNext, PoolInv, HandsInv

LEMMA DeletesStep ==
  ASSUME TypeOK, PoolInv, NEW p \in Procs, Deletes(p)
  PROVE  PoolNext
<1>1. /\ Devices' = Devices \ {it[p]} /\ \A e \in Devices' : dev'[e] = dev[e]
      /\ DevOK' /\ NamesInv'
  <2>1. DevOK /\ NamesInv
    BY TypeParts DEF PoolInv
  <2>2. QED
    BY <2>1, WithoutKeeps DEF Deletes
<1>2. /\ it'[p] = None /\ \A q \in Procs \ {p} : it'[q] = it[q] /\ pc'[q] = pc[q]
      /\ pc[p] # "idle" /\ pc'[p] = "want_create" /\ name' = name
  BY DEF TypeOK, Deletes
<1>3. HandsOK' /\ ForeignInv'
  BY <1>1, <1>2 DEF TypeOK, HandsOK, PoolInv, ForeignInv, Deletes
<1>4. Hands(p)'
  <2>1. Hands(p)
    BY DEF PoolInv, HandsInv
  <2>2. QED
    BY <1>2, <2>1 DEF Hands, Guarded, Opened
<1>5. ASSUME NEW q \in Procs \ {p} PROVE Hands(q)'
  <2>1. Hands(q)
    BY DEF PoolInv, HandsInv
  <2>2. pc[q] \in Guarded => it[q] \in Devices' /\ it'[p] # it[q]
    BY <1>1, <1>2, <2>1 DEF Hands, InTheMaking, TypeOK
  <2>3. QED
    BY <1>1, <1>2, <2>1, <2>2, OthersKeep
<1>6. QED
  BY <1>1, <1>3, <1>4, <1>5 DEF PoolNext, PoolInv, HandsInv

\* A new device is in nobody's hands, and what somebody has is still that.
LEMMA RegistersStep ==
  ASSUME TypeOK, PoolInv, NEW p \in Procs, Registers(p)
  PROVE  PoolNext
<1>1. PICK d \in Unused :
        /\ dev' = [e \in Devices \cup {d} |->
                     IF e = d THEN [name |-> None, visible |-> FALSE, member |-> FALSE] ELSE dev[e]]
        /\ it' = [it EXCEPT ![p] = d]
        /\ pc[p] = "create" /\ pc' = [pc EXCEPT ![p] = "registered"]
        /\ UNCHANGED <<name, faults>>
  BY DEF Registers
<1>2. d \in Ids /\ d \notin Devices /\ d # 0 /\ \A q \in Procs : it[q] # d
  BY DEF Unused
<1>3. /\ Devices' = Devices \cup {d} /\ dev'[d].name = None
      /\ \A e \in Devices : dev'[e] = dev[e]
  BY <1>1, <1>2 DEF Devices
<1>4. /\ it'[p] = d /\ \A q \in Procs \ {p} : it'[q] = it[q] /\ pc'[q] = pc[q]
      /\ pc'[p] = "registered"
  BY <1>1 DEF TypeOK
<1>5. DevOK'
  BY <1>1, <1>2, <1>3, TypeParts DEF DevOK
<1>6. HandsOK' /\ ForeignInv'
  BY <1>1, <1>2, <1>3, <1>4 DEF TypeOK, HandsOK, PoolInv, ForeignInv
<1>7. NamesInv'
  BY <1>3 DEF PoolInv, NamesInv
<1>8. Hands(p)'
  <2>1. Hands(p)
    BY DEF PoolInv, HandsInv
  <2>2. InTheMaking(p)'
    BY <1>2, <1>3, <1>4 DEF InTheMaking
  <2>3. QED
    BY <1>1, <1>4, <2>1, <2>2 DEF Hands, EmptyHanded, Opened
<1>9. ASSUME NEW q \in Procs \ {p} PROVE Hands(q)'
  <2>1. Hands(q)
    BY DEF PoolInv, HandsInv
  <2>2. pc[q] \in Guarded => it[q] \in Devices' /\ it'[p] # it[q]
    BY <1>2, <1>3, <1>4, <2>1 DEF Hands, InTheMaking
  <2>3. QED
    BY <1>1, <1>2, <1>3, <1>4, <2>1, <2>2, OthersKeep
<1>10. QED
  BY <1>5, <1>6, <1>7, <1>8, <1>9 DEF PoolNext, PoolInv, HandsInv

\* A step that gives the device in the making other fields.
LEMMA FieldsStep ==
  ASSUME TypeOK, PoolInv, NEW p \in Procs, pc[p] \in Guarded,
         NEW f \in [name : Names \cup {None}, visible : BOOLEAN, member : BOOLEAN],
         dev' = [dev EXCEPT ![it[p]] = f], UNCHANGED <<name, it, faults>>,
         NEW s, pc' = [pc EXCEPT ![p] = s], f.name # None => ~NameTaken(f.name)
  PROVE  /\ DevOK' /\ HandsOK' /\ ForeignInv' /\ NamesInv'
         /\ it[p] \in Devices' /\ dev'[it[p]] = f /\ pc'[p] = s
         /\ \A q \in Procs \ {p} : it[p] # it[q] /\ Hands(q)'
<1>1. it[p] \in Devices /\ \A q \in Procs \ {p} : it[p] # it[q]
  BY DEF PoolInv, HandsInv, Hands, InTheMaking
<1>2. /\ Devices' = Devices /\ dev'[it[p]] = f
      /\ \A e \in Devices \ {it[p]} : dev'[e] = dev[e]
  BY <1>1 DEF TypeOK, Devices
<1>3. DevOK' /\ HandsOK'
  BY <1>1, <1>2 DEF TypeOK, DevOK, HandsOK
<1>4. ForeignInv'
  BY <1>2 DEF PoolInv, ForeignInv
<1>5. NamesInv'
  <2> SUFFICES ASSUME NEW d \in Devices, NEW e \in Devices, d # e,
                      dev'[d].name # None, dev'[e].name # None
               PROVE  Lower(dev'[d].name) # Lower(dev'[e].name)
    BY <1>2 DEF NamesInv
  <2>1. CASE d # it[p] /\ e # it[p]
    BY <1>2, <2>1 DEF PoolInv, NamesInv
  <2>2. CASE d = it[p]
    BY <1>2, <2>2 DEF NameTaken
  <2>3. CASE e = it[p]
    BY <1>2, <2>3 DEF NameTaken
  <2>4. QED
    BY <2>1, <2>2, <2>3
<1>6. pc'[p] = s /\ \A q \in Procs \ {p} : pc'[q] = pc[q]
  BY DEF TypeOK, Guarded
<1>7. ASSUME NEW q \in Procs \ {p} PROVE Hands(q)'
  <2>1. Hands(q)
    BY DEF PoolInv, HandsInv
  <2>2. pc[q] \in Guarded => it[q] \in Devices' /\ it'[p] # it[q]
    BY <1>1, <1>2, <2>1 DEF Hands, InTheMaking
  <2>3. QED
    BY <1>1, <1>2, <1>6, <2>1, <2>2, OthersKeep
<1>8. QED
  BY <1>1, <1>2, <1>3, <1>4, <1>5, <1>6, <1>7

LEMMA InstallStep ==
  ASSUME TypeOK, PoolInv, NEW p \in Procs, Install(p)
  PROVE  PoolNext
<1> DEFINE f == [dev[it[p]] EXCEPT !.visible = TRUE, !.member = TRUE]
<1>1. it[p] \in Devices /\ dev[it[p]].name = None /\ pc[p] \in Guarded /\ name[p] \in Names
  BY DEF PoolInv, HandsInv, Hands, InTheMaking, Install, Guarded
<1>2. dev[it[p]] \in [name : Names \cup {None}, visible : BOOLEAN, member : BOOLEAN]
  BY <1>1 DEF TypeOK
<1>3. f \in [name : Names \cup {None}, visible : BOOLEAN, member : BOOLEAN]
      /\ f.name = None /\ f.visible /\ f.member
  BY <1>1, <1>2
<1>4. dev' = [dev EXCEPT ![it[p]] = f]
  BY <1>1 DEF Install, TypeOK
<1>5. pc' = [pc EXCEPT ![p] = "value_arm"] /\ UNCHANGED <<name, it, faults>>
  BY DEF Install, GoTo
<1> HIDE DEF f
<1>6. /\ DevOK' /\ HandsOK' /\ ForeignInv' /\ NamesInv'
      /\ it[p] \in Devices' /\ dev'[it[p]] = f /\ pc'[p] = "value_arm"
      /\ \A q \in Procs \ {p} : it[p] # it[q] /\ Hands(q)'
  BY <1>1, <1>3, <1>4, <1>5, FieldsStep
<1>7. Hands(p)'
  <2>1. InTheMaking(p)'
    BY <1>3, <1>5, <1>6 DEF InTheMaking
  <2>2. QED
    BY <1>1, <1>5, <1>6, <2>1 DEF Hands, EmptyHanded, Opened
<1>8. QED
  BY <1>6, <1>7 DEF PoolNext, PoolInv, HandsInv

LEMMA NamedRecord ==
  ASSUME NEW n, NEW m, NEW r \in [name : {m}, visible : BOOLEAN, member : BOOLEAN], r.visible, r.member
  PROVE  [r EXCEPT !.name = n] = [name |-> n, visible |-> TRUE, member |-> TRUE]
<1>1. r.visible = TRUE /\ r.member = TRUE
  OBVIOUS
<1>2. r = [name |-> m, visible |-> TRUE, member |-> TRUE]
  BY <1>1
<1>3. QED
  BY <1>2

LEMMA GetsNameStep ==
  ASSUME TypeOK, PoolInv, NEW p \in Procs, GetsName(p)
  PROVE  PoolNext
<1> DEFINE f == [name |-> name[p], visible |-> TRUE, member |-> TRUE]
<1>1. /\ it[p] \in Devices /\ dev[it[p]].visible /\ dev[it[p]].member /\ dev[it[p]].name = None
      /\ pc[p] \in Guarded /\ name[p] \in Names /\ ~NameTaken(name[p])
  BY DEF PoolInv, HandsInv, Hands, InTheMaking, GetsName, Guarded
<1>2. dev[it[p]] \in [name : {None}, visible : BOOLEAN, member : BOOLEAN]
  BY <1>1 DEF TypeOK
<1>3. [dev[it[p]] EXCEPT !.name = name[p]] = f
  BY <1>1, <1>2, NamedRecord
<1>4. dev' = [dev EXCEPT ![it[p]] = f]
  BY <1>1, <1>3 DEF GetsName, TypeOK
<1>5. pc' = [pc EXCEPT ![p] = "handle"] /\ UNCHANGED <<name, it, faults>>
  BY DEF GetsName
<1>6. /\ f \in [name : Names \cup {None}, visible : BOOLEAN, member : BOOLEAN]
      /\ ~NameTaken(f.name)
  BY <1>1
<1>7. /\ DevOK' /\ HandsOK' /\ ForeignInv' /\ NamesInv'
      /\ it[p] \in Devices' /\ dev'[it[p]] = f /\ pc'[p] = "handle"
      /\ \A q \in Procs \ {p} : it[p] # it[q] /\ Hands(q)'
  <2> HIDE DEF f
  <2>1. pc[p] \in Guarded
    BY <1>1
  <2>2. QED
    BY <1>4, <1>5, <1>6, <2>1, FieldsStep
<1>8. Hands(p)'
  <2>1. OfTunnel(p)'
    BY <1>5, <1>7 DEF OfTunnel
  <2>2. QED
    BY <1>1, <1>5, <1>7, <2>1 DEF Hands, EmptyHanded, Guarded
<1>9. QED
  BY <1>7, <1>8 DEF PoolNext, PoolInv, HandsInv

LEMMA ShapeStep ==
  ASSUME TypeOK, PoolInv, NEW p \in Procs, Shape(p)
  PROVE  PoolNext
<1>1. CASE GivesUp(p)
  <2>1. faults' \in 0..MaxFaults
    BY <1>1 DEF TypeOK, GivesUp, Abandon
  <2>2. QED
    BY <1>1, <2>1, IdleStep DEF GivesUp
<1>2. CASE NotFound(p) \/ Removes(p)
  <2>1. faults' \in 0..MaxFaults
    BY <1>2 DEF TypeOK, NotFound, Removes
  <2>2. QED
    BY <1>2, <2>1, IdleStep DEF NotFound, Removes
<1>3. QED
  BY Zenon, <1>1, <1>2, QuietStep, OpensStep, FindsStep, DeletesStep, RegistersStep, InstallStep,
     GetsNameStep DEF Shape

-----------------------------------------------------------------------------
(* The whole step. *)

LEMMA MutexStep ==
  ASSUME MutexOK, NEW p \in Procs, StepOf(p)
  PROVE  MutexOK'
<1> USE Stages DEF Locked, Unlocked
<1>1. CASE TakeMutex(p)
  BY <1>1, MutexTaken
<1>2. CASE Die(p)
  BY <1>2, MutexDied
<1>3. CASE GetForOpen(p)
  <2>1. PICK s \in {"want_create", "delete", "idle"} : GoTo(p, s)
    BY <1>3 DEF GetForOpen, Fail
  <2>2. QED
    BY <1>3, <2>1, MutexReleased DEF GetForOpen
<1>4. CASE GetForClose(p)
  <2>1. PICK s \in {"close_delete", "idle"} : GoTo(p, s)
    BY <1>4 DEF GetForClose, Fail
  <2>2. QED
    BY <1>4, <2>1, MutexReleased DEF GetForClose
<1>5. CASE pc[p] \in Guarded /\ CreateFails(p)
  BY <1>5, MutexReleased DEF CreateFails, Fail
<1>6. CASE SetName(p)
  <2>1. pc[p] \in Guarded
    BY <1>6 DEF SetName, Guarded
  <2>2. QED
    BY <1>5, <1>6, <2>1, MutexReleased DEF SetName
<1>7. CASE Register(p)
  <2>1. CASE Fail(p) /\ Release
    BY <1>7, <2>1, MutexReleased DEF Fail, Register
  <2>2. CASE GoTo(p, "registered") /\ UNCHANGED <<mutex, died>>
    BY <1>7, <2>2, MutexStill DEF Register, Guarded
  <2>3. QED
    BY <1>7, <2>1, <2>2 DEF Register
<1>8. CASE \E s \in Guarded : pc[p] \in Guarded /\ GoTo(p, s) /\ UNCHANGED <<mutex, died>>
  BY <1>8, MutexStill
<1>9. Install(p) \/ ValueArm(p) \/ ValueLook(p) \/ ValueWakes(p) \/ KeyLook(p) \/ KeyWakes(p)
        => \E s \in Guarded : pc[p] \in Guarded /\ GoTo(p, s) /\ UNCHANGED <<mutex, died>>
  BY DEF Install, ValueArm, ValueLook, ValueWakes, KeyLook, KeyWakes, Guarded
<1>10. CASE \E s \in Unlocked : pc[p] \in Unlocked /\ GoTo(p, s) /\ UNCHANGED <<mutex, died>>
  BY <1>10, MutexStill
<1>11. DeleteOld(p) \/ OpenHandle(p) \/ RegisterRings(p) \/ OpenFails(p) \/ Close(p) \/ CloseDeletes(p)
         => \E s \in Unlocked : pc[p] \in Unlocked /\ GoTo(p, s) /\ UNCHANGED <<mutex, died>>
  BY DEF DeleteOld, OpenHandle, RegisterRings, OpenFails, Close, CloseDeletes, Fail
<1>12. (\E n \in Names : Open(p, n))
         => \E s \in Unlocked : pc[p] \in Unlocked /\ GoTo(p, s) /\ UNCHANGED <<mutex, died>>
  BY DEF Open
<1>13. CallFails(p) \/ ValueTimesOut(p) \/ KeyTimesOut(p) => pc[p] \in Guarded /\ CreateFails(p)
  BY DEF CallFails, ValueTimesOut, KeyTimesOut, Guarded
<1>14. QED
  BY Zenon, <1>1, <1>2, <1>3, <1>4, <1>6, <1>7, <1>5, <1>8, <1>9, <1>10, <1>11, <1>12, <1>13
     DEF StepOf, GoesOn, Creates

\* What a step of p does to the registry's entry.
LEMMA RegSteps ==
  ASSUME NEW p \in Procs, StepOf(p)
  PROVE  \/ reg' = reg
         \/ pc[p] = "create" /\ reg' = Wait(MaxChanges)
         \/ pc[p] = "value_arm" /\ reg' = [reg EXCEPT !.armed = TRUE]
         \/ pc[p] = "value_look" /\ reg' = [Wait(reg.left) EXCEPT !.armed = TRUE]
         \/ pc[p] \in {"value_wait", "key_wait"} /\ reg' = [reg EXCEPT !.fired = FALSE]
         \/ pc[p] \in Guarded /\ reg' = Wait(0)
<1>1. Register(p) => reg' = reg \/ (pc[p] = "create" /\ reg' = Wait(MaxChanges))
  BY DEF Register
<1>2. ValueArm(p) => pc[p] = "value_arm" /\ reg' = [reg EXCEPT !.armed = TRUE]
  BY DEF ValueArm
<1>3. ValueLook(p) => reg' = reg \/ (pc[p] = "value_look" /\ reg' = [Wait(reg.left) EXCEPT !.armed = TRUE])
  BY DEF ValueLook
<1>4. ValueWakes(p) \/ KeyWakes(p)
        => pc[p] \in {"value_wait", "key_wait"} /\ reg' = [reg EXCEPT !.fired = FALSE]
  BY DEF ValueWakes, KeyWakes
<1>5. CallFails(p) \/ ValueTimesOut(p) \/ KeyTimesOut(p) \/ SetName(p) => pc[p] \in Guarded /\ reg' = Wait(0)
  BY DEF CallFails, ValueTimesOut, KeyTimesOut, SetName, CreateFails, Guarded
<1>6. Die(p) => reg' = reg \/ (pc[p] \in Guarded /\ reg' = Wait(0))
  BY DEF Die
<1>7. GetForOpen(p) \/ DeleteOld(p) \/ OpenHandle(p) \/ RegisterRings(p) \/ OpenFails(p)
        \/ GetForClose(p) \/ CloseDeletes(p) \/ Close(p) \/ TakeMutex(p) \/ Install(p) \/ KeyLook(p)
        => reg' = reg
  BY DEF GetForOpen, DeleteOld, OpenHandle, RegisterRings, OpenFails, GetForClose, CloseDeletes,
         Close, TakeMutex, Install, KeyLook
<1>8. (\E n \in Names : Open(p, n)) => reg' = reg
  BY DEF Open
<1>9. QED
  BY Zenon, <1>1, <1>2, <1>3, <1>4, <1>5, <1>6, <1>7, <1>8 DEF StepOf, GoesOn, Creates

LEMMA RegStep ==
  ASSUME RegOK, NEW p \in Procs, StepOf(p)
  PROVE  RegOK'
<1>1. reg.left \in 0..MaxChanges
  BY DEF RegOK
<1>2. \A n \in {0, MaxChanges} :
        Wait(n) \in [present : BOOLEAN, armed : BOOLEAN, fired : BOOLEAN, left : 0..MaxChanges]
  BY DEF Wait
<1>3. [Wait(reg.left) EXCEPT !.armed = TRUE]
        \in [present : BOOLEAN, armed : BOOLEAN, fired : BOOLEAN, left : 0..MaxChanges]
  BY <1>1 DEF Wait
<1>4. QED
  BY <1>2, <1>3, RegSteps DEF RegOK

LEMMA ChangesStep ==
  ASSUME TypeOK, RegistryChanges
  PROVE  /\ TypeOK' /\ UNCHANGED <<dev, mutex, died, pc, name, it, faults>>
         /\ reg'.fired = (reg.fired \/ reg.armed)
<1>1. UNCHANGED <<dev, mutex, died, pc, name, it, faults>>
  BY DEF RegistryChanges
<1>2. PICK there \in {reg.present, TRUE} :
        reg' = [present |-> there, armed |-> FALSE, fired |-> reg.fired \/ reg.armed,
                left |-> reg.left - 1]
  BY DEF RegistryChanges
<1>3. reg.left \in 1..MaxChanges /\ there \in BOOLEAN /\ (reg.fired \/ reg.armed) \in BOOLEAN
  <2>1. reg.left \in 0..MaxChanges /\ reg.left > 0 /\ reg.present \in BOOLEAN
    BY DEF TypeOK, RegistryChanges
  <2>2. (reg.fired \/ reg.armed) \in BOOLEAN
    BY Zenon
  <2>3. there \in BOOLEAN
    BY <1>2, <2>1
  <2>4. QED
    BY <2>1, <2>2, <2>3
<1>4. RegOK'
  BY <1>2, <1>3 DEF RegOK
<1>5. DevOK' /\ MutexOK' /\ HandsOK'
  BY <1>1, TypeParts DEF DevOK, MutexOK, HandsOK, Devices
<1>6. TypeOK'
  BY <1>4, <1>5, TypeParts DEF TypeOK, DevOK, MutexOK, HandsOK, RegOK
<1>7. QED
  BY <1>1, <1>2, <1>6

Inv == TypeOK /\ PoolInv

LEMMA InvInit == Init => Inv
<1> SUFFICES ASSUME Init PROVE PoolInv
  BY TypeInit DEF Inv
<1>1. pc = [p \in Procs |-> "idle"] /\ it = [p \in Procs |-> None] /\ None # 0
  BY DEF Init
<1>2. HandsInv
  <2>1. \A p \in Procs : pc[p] = "idle" /\ it[p] = None
    BY Zenon, <1>1
  <2>2. "idle" \notin Guarded /\ "idle" \notin Opened
    BY DEF Guarded, Opened
  <2>3. QED
    BY Zenon, <2>1, <2>2 DEF HandsInv, Hands
<1>3. ForeignInv /\ NamesInv
  <2>1. CASE dev = << >>
    <3>1. Devices = {}
      BY <2>1 DEF Devices
    <3>2. QED
      BY <1>1, <3>1 DEF ForeignInv, NamesInv
  <2>2. ASSUME NEW n \in Names, dev = [d \in {0} |-> [name |-> n, visible |-> TRUE, member |-> FALSE]]
        PROVE  ForeignInv /\ NamesInv
    <3>1. Devices = {0} /\ ~dev[0].member
      BY <2>2 DEF Devices
    <3>2. QED
      BY <1>1, <3>1 DEF ForeignInv, NamesInv
  <2>3. QED
    BY <2>1, <2>2 DEF Init
<1>4. QED
  BY <1>2, <1>3 DEF PoolInv

LEMMA InvNext == Inv /\ [Next]_vars => Inv'
<1> SUFFICES ASSUME Inv, [Next]_vars PROVE Inv'
  OBVIOUS
<1>1. ASSUME NEW p \in Procs, StepOf(p) PROVE Inv'
  <2>1. TypeOK /\ PoolInv /\ DevOK /\ HandsOK /\ MutexOK /\ RegOK /\ HandsInv
    BY TypeParts DEF Inv, PoolInv
  <2>2. PoolInv' /\ DevOK' /\ HandsOK'
    BY <1>1, <2>1, Shapes, ShapeStep DEF PoolNext
  <2>3. MutexOK' /\ RegOK'
    BY <1>1, <2>1, MutexStep, RegStep
  <2>4. TypeOK'
    BY <2>2, <2>3 DEF TypeOK, DevOK, MutexOK, HandsOK, RegOK
  <2>5. QED
    BY <2>2, <2>4 DEF Inv
<1>2. CASE RegistryChanges
  <2>1. TypeOK' /\ UNCHANGED <<dev, pc, name, it>>
    BY <1>2, ChangesStep DEF Inv
  <2>2. PoolInv'
    BY <2>1 DEF Inv, PoolInv, HandsInv, Hands, InTheMaking, OfTunnel, ForeignInv, NamesInv, Devices
  <2>3. QED
    BY <2>1, <2>2 DEF Inv
<1>3. CASE UNCHANGED vars
  <2>1. PoolInv'
    BY <1>3 DEF vars, Inv, PoolInv, HandsInv, Hands, InTheMaking, OfTunnel, ForeignInv, NamesInv, Devices
  <2>2. TypeOK'
    BY <1>3 DEF vars, Inv, TypeOK, Devices
  <2>3. QED
    BY <2>1, <2>2 DEF Inv
<1>4. QED
  BY Zenon, <1>1, <1>2, <1>3 DEF Next, StepOf

\* Processes, devices, names and the mutex keep their types, and the mutex has the
\* one holder that is in a locked stage, whoever dies: a mutex that is abandoned
\* is taken for free (take_named_mutex, pool.rs:496).
THEOREM TypeCorrect == Spec => []TypeOK
<1>1. Spec => []Inv
  BY InvInit, InvNext, PTL DEF Spec
<1>2. QED
  BY <1>1, PTL DEF Inv

-----------------------------------------------------------------------------
(* The adapter of another program. *)

LEMMA ForeignStep ==
  ASSUME Inv, [Next]_vars
  PROVE  0 \in Devices => 0 \in Devices'
<1> SUFFICES ASSUME 0 \in Devices PROVE 0 \in Devices'
  OBVIOUS
<1>1. ASSUME NEW p \in Procs, Shape(p) PROVE 0 \in Devices'
  <2>1. it[p] # 0
    BY DEF Inv, PoolInv, ForeignInv
  <2>2. dev' = dev \/ dev' = Without(it[p]) => 0 \in Devices'
    BY <2>1 DEF Without, Devices
  <2>3. Quiet(p) \/ Opens(p) \/ GivesUp(p) \/ NotFound(p) \/ Removes(p) \/ Finds(p) \/ Deletes(p)
          => dev' = dev \/ dev' = Without(it[p])
    BY DEF Quiet, Opens, GivesUp, NotFound, Removes, Finds, Deletes
  <2>4. Registers(p) => 0 \in Devices'
    BY DEF Registers, Devices
  <2>5. Install(p) \/ GetsName(p) => Devices' = Devices
    BY DEF Install, GetsName, Devices, Inv, TypeOK
  <2>6. QED
    BY <1>1, <2>2, <2>3, <2>4, <2>5 DEF Shape
<1>2. ASSUME NEW p \in Procs, StepOf(p) PROVE 0 \in Devices'
  BY <1>1, <1>2, Shapes, TypeParts DEF Inv, PoolInv
<1>3. CASE RegistryChanges \/ UNCHANGED vars
  BY <1>3 DEF RegistryChanges, vars, Devices
<1>4. QED
  BY Zenon, <1>2, <1>3 DEF Next, StepOf

\* get_interface returns adapters of the pool only (is_member, pool.rs:578), and so
\* neither close, nor open's delete of the old adapter, nor the guard of a creation
\* that fails removes the adapter of another program.
THEOREM ForeignAdapterKept == Spec => ForeignKept
<1>1. Spec => []Inv
  BY InvInit, InvNext, PTL DEF Spec
<1>2. Inv /\ [Next]_vars => [0 \in Devices => 0 \in Devices']_vars
  BY ForeignStep
<1>3. QED
  BY <1>1, <1>2, PTL DEF Spec, ForeignKept

-----------------------------------------------------------------------------
(* Adapters that are left over. *)

LEMMA SameWord ==
  ASSUME NEW n \in Names
  PROVE  (~n.upper => Lower(n) = n) /\ (~n.number => RemoveNumberedSuffix(n) = n)
<1>1. n \in [word : STRING, upper : BOOLEAN, number : BOOLEAN]
  OBVIOUS
<1>2. ~n.upper => Lower(n) = n
  BY <1>1 DEF Lower
<1>3. ~n.number => RemoveNumberedSuffix(n) = n
  BY <1>1 DEF RemoveNumberedSuffix
<1>4. QED
  BY <1>2, <1>3

LEMMA OwnDevice ==
  ASSUME Inv, NEW p \in Procs, pc[p] = "close_get", it[p] \in Devices
  PROVE  /\ name[p] \in Names /\ dev[it[p]].name = name[p] /\ HasInterface(it[p]) /\ IsMember(it[p])
<1>1. /\ dev[it[p]] = [name |-> name[p], visible |-> TRUE, member |-> TRUE]
      /\ name[p] \in Names
  BY DEF Inv, PoolInv, HandsInv, Hands, OfTunnel, Opened
<1>2. QED
  BY <1>1 DEF HasInterface, IsMember

\* close looks for the adapter of its tunnel, unless the name has capitals.
LEMMA OwnCandidate ==
  ASSUME Inv, NEW p \in Procs, pc[p] = "close_get", it[p] \in Devices, ~name[p].upper
  PROVE  it[p] \in Candidates(name[p])
<1>1. /\ name[p] \in Names /\ dev[it[p]].name = name[p] /\ HasInterface(it[p])
  BY OwnDevice
<1>2. Lower(name[p]) = name[p]
  BY <1>1, SameWord
<1>3. QED
  BY <1>1, <1>2 DEF Candidates, Matches

\* It may take another one for it only if the name allows that.
LEMMA OtherCandidate ==
  ASSUME Inv, NEW p \in Procs, pc[p] = "close_get", it[p] \in Devices,
         NEW e \in Candidates(name[p]), e # it[p]
  PROVE  Mistakable(name[p], it[p])
<1> SUFFICES ASSUME ~name[p].upper PROVE Mistakable(name[p], it[p])
  BY DEF Mistakable
<1>1. name[p] \in Names /\ dev[it[p]].name = name[p] /\ name[p] # None
  BY OwnDevice
<1>2. Lower(name[p]) = name[p]
  BY <1>1, SameWord
<1>3. e \in Devices /\ dev[e].name # None /\ name[p] \in {dev[e].name, RemoveNumberedSuffix(dev[e].name)}
  BY <1>2 DEF Candidates, Matches, HasInterface
<1>4. dev[e].name \in Names
  BY <1>3 DEF Inv, TypeOK
<1>5. dev[e].name # name[p]
  BY <1>1, <1>3 DEF Inv, PoolInv, NamesInv
<1>6. RemoveNumberedSuffix(dev[e].name) = name[p] /\ dev[e].name.number
  BY <1>3, <1>4, <1>5, SameWord
<1>7. QED
  BY <1>3, <1>6 DEF Mistakable

Mistaken(p, d) == pc[p] = "close_get" /\ it[p] = d /\ Mistakable(name[p], d)

\* A step of p can only let slip what p has in its hands.
LEMMA SlipShape ==
  ASSUME Inv, NEW p \in Procs, Shape(p), NEW d \in Devices \ {0}, Held(d), ~Held(d)', d \in Devices'
  PROVE  faults' > faults \/ Mistaken(p, d)
<1>1. d \in Ids /\ d # None /\ faults \in Nat
  BY DEF Inv, TypeOK
<1>2. /\ \A r \in Procs : it'[r] # d
      /\ \E r \in Procs : it[r] = d
  BY DEF Held
<1>3. ASSUME NEW x, it' = [it EXCEPT ![p] = x] PROVE it[p] = d
  BY <1>2, <1>3 DEF Inv, TypeOK
<1>4. ~(UNCHANGED it)
  BY <1>2
<1>5. CASE GivesUp(p)
  <2>1. it[p] = d
    BY <1>3, <1>5 DEF GivesUp, Idle
  <2>2. faults' = faults + 1
    BY <1>5, <2>1 DEF GivesUp, Abandon
  <2>3. QED
    BY <1>1, <2>2
<1>6. CASE NotFound(p)
  <2>1. it[p] = d /\ pc[p] = "close_get"
    BY <1>3, <1>6 DEF NotFound, Idle
  <2>2. CASE name[p].upper
    BY <2>1, <2>2 DEF Mistaken, Mistakable
  <2>3. CASE ~name[p].upper
    <3>1. d \in Candidates(name[p])
      BY <2>1, <2>3, OwnCandidate
    <3>2. PICK e \in Candidates(name[p]) : ~IsMember(e)
      BY <1>6, <3>1 DEF NotFound
    <3>3. IsMember(d)
      BY <2>1, OwnDevice
    <3>4. QED
      BY <2>1, <3>2, <3>3, OtherCandidate DEF Mistaken
  <2>4. QED
    BY <2>2, <2>3
<1>7. CASE Removes(p) \/ Deletes(p)
  <2>1. it[p] = d /\ dev' = Without(it[p])
    BY <1>3, <1>7 DEF Removes, Deletes, Idle
  <2>2. d \notin Devices'
    BY <2>1 DEF Without, Devices
  <2>3. QED
    BY <2>2
<1>8. pc[p] \in {"get", "create"} => it[p] = None
  BY DEF Inv, PoolInv, HandsInv, Hands, EmptyHanded
<1>9. CASE Finds(p)
  <2>1. PICK e \in Candidates(name[p]) :
          it' = [it EXCEPT ![p] = e] /\ (pc[p] = "get" \/ pc[p] = "close_get")
    BY <1>9 DEF Finds
  <2>2. it[p] = d
    BY <1>3, <2>1
  <2>3. pc[p] = "close_get"
    BY <1>1, <1>8, <2>1, <2>2
  <2>4. e # d
    BY <1>2, <2>1 DEF Inv, TypeOK
  <2>5. QED
    BY <2>2, <2>3, <2>4, OtherCandidate DEF Mistaken
<1>10. CASE Registers(p)
  <2>1. it[p] = d
    BY <1>3, <1>10 DEF Registers
  <2>2. QED
    BY <1>1, <1>8, <1>10, <2>1 DEF Registers
<1>11. CASE Quiet(p) \/ Opens(p) \/ Install(p) \/ GetsName(p)
  BY <1>4, <1>11 DEF Quiet, Opens, Install, GetsName
<1>12. QED
  BY Zenon, <1>5, <1>6, <1>7, <1>9, <1>10, <1>11 DEF Shape

LEMMA LeftoversStep ==
  ASSUME Inv, [Next]_vars, NEW d \in Devices \ {0}, Held(d), ~Held(d)', d \in Devices'
  PROVE  faults' > faults \/ \E p \in Procs : Mistaken(p, d)
<1>1. ASSUME NEW p \in Procs, StepOf(p) PROVE faults' > faults \/ Mistaken(p, d)
  <2>1. Shape(p)
    BY <1>1, Shapes, TypeParts DEF Inv, PoolInv
  <2>2. QED
    BY <2>1, SlipShape
<1>2. it' # it
  BY DEF Held
<1>3. ~RegistryChanges /\ ~UNCHANGED vars
  BY <1>2 DEF RegistryChanges, vars
<1>4. QED
  BY Zenon, <1>1, <1>3 DEF Next, StepOf

\* However opens, creations and closes of any number of processes fail or are killed,
\* an adapter that is there slips out of everybody's hands only with a death, with a
\* failure of the call that would have removed it, or in a close that looks for the
\* wrong name: one with capitals, or one that a numbered sibling is taken for
\* (create_interface's guards and get_interface, pool.rs; open and Drop,
\* tun_windows.rs).  For all names.
THEOREM NoMoreLeftOver == Spec => LeftoversAccounted
<1>1. Spec => []Inv
  BY InvInit, InvNext, PTL DEF Spec
<1>2. Inv /\ [Next]_vars
        => [\A d \in Devices \ {0} :
              Held(d) /\ ~Held(d)' /\ d \in Devices' =>
                \/ faults' > faults
                \/ \E p \in Procs : pc[p] = "close_get" /\ it[p] = d /\ Mistakable(name[p], d)]_vars
  BY LeftoversStep DEF Mistaken
<1>3. QED
  BY <1>1, <1>2, PTL DEF Spec, LeftoversAccounted

-----------------------------------------------------------------------------
(* The registry's value is not missed. *)

\* A process that looks has asked to be notified, or the notice is there; and one
\* that waits for a value that is there has the notice.
Noticed(p) ==
  /\ pc[p] = "value_look" => reg.armed \/ reg.fired
  /\ pc[p] = "value_wait" => (reg.armed \/ reg.fired) /\ (reg.present => reg.fired)

NoticeInv == \A p \in Procs : Noticed(p)

\* Where a step of p leads, as far as it matters here.
LEMMA ValueSteps ==
  ASSUME MutexOK, NEW p \in Procs, StepOf(p)
  PROVE  /\ \A q \in Procs \ {p} : pc'[q] = pc[q]
         /\ pc'[p] = "value_look" => ValueArm(p)
         /\ pc'[p] = "value_wait" => ValueLook(p)
         /\ pc[p] = "value_wait" /\ pc'[p] = "idle" => Die(p) \/ ~reg.fired
<1> DEFINE Goal(s) == /\ s = "value_look" => ValueArm(p)
                      /\ s = "value_wait" => ValueLook(p)
                      /\ pc[p] = "value_wait" /\ s = "idle" => Die(p) \/ ~reg.fired
<1>1. \E s : GoTo(p, s) /\ Goal(s)
  <2>1. ValueArm(p) => GoTo(p, "value_look") /\ Goal("value_look")
    BY DEF ValueArm
  <2>2. ValueLook(p) => \E s : GoTo(p, s) /\ Goal(s)
    BY DEF ValueLook
  <2>3. ValueWakes(p) => GoTo(p, "value_arm") /\ Goal("value_arm")
    BY DEF ValueWakes
  <2>4. ValueTimesOut(p) \/ Die(p) => GoTo(p, "idle") /\ Goal("idle")
    BY DEF ValueTimesOut, CreateFails, Die, Fail
  <2>5. pc[p] # "value_wait" /\ GoTo(p, "idle") => \E s : GoTo(p, s) /\ Goal(s)
    OBVIOUS
  <2>6. CallFails(p) \/ KeyTimesOut(p) \/ OpenFails(p) \/ CloseDeletes(p)
          => pc[p] # "value_wait" /\ GoTo(p, "idle")
    BY DEF CallFails, KeyTimesOut, OpenFails, CloseDeletes, CreateFails, Fail
  <2>7. ASSUME NEW s \in (Locked \cup Unlocked) \ {"value_look", "value_wait", "idle"}, GoTo(p, s)
        PROVE  \E t : GoTo(p, t) /\ Goal(t)
    BY <2>7
  <2>8. TakeMutex(p) => \E s \in (Locked \cup Unlocked) \ {"value_look", "value_wait", "idle"} : GoTo(p, s)
    BY Taken DEF Locked, Unlocked
  <2>9. KeyLook(p) \/ KeyWakes(p) \/ Install(p) \/ OpenHandle(p) \/ RegisterRings(p) \/ Close(p)
          => \E s \in (Locked \cup Unlocked) \ {"value_look", "value_wait", "idle"} : GoTo(p, s)
    BY DEF KeyLook, KeyWakes, Install, OpenHandle, RegisterRings, Close, Locked, Unlocked, Guarded
  <2>10. (\E n \in Names : Open(p, n))
          => \E s \in (Locked \cup Unlocked) \ {"value_look", "value_wait", "idle"} : GoTo(p, s)
    BY DEF Open, Unlocked
  <2>11. GetForOpen(p) \/ DeleteOld(p) \/ Register(p) \/ SetName(p) \/ GetForClose(p)
          => \/ pc[p] # "value_wait" /\ GoTo(p, "idle")
             \/ \E s \in (Locked \cup Unlocked) \ {"value_look", "value_wait", "idle"} : GoTo(p, s)
    BY DEF GetForOpen, DeleteOld, Register, SetName, GetForClose, CreateFails, Fail, Locked, Unlocked, Guarded
  <2> HIDE DEF Goal
  <2>12. QED
    BY Zenon, <2>1, <2>2, <2>3, <2>4, <2>5, <2>6, <2>7, <2>8, <2>9, <2>10, <2>11
       DEF StepOf, GoesOn, Creates
<1>2. QED
  BY <1>1 DEF MutexOK, GoTo

LEMMA NoticeStep ==
  ASSUME Inv, NoticeInv, [Next]_vars
  PROVE  NoticeInv'
<1>1. ASSUME NEW p \in Procs, StepOf(p), NEW q \in Procs PROVE Noticed(q)'
  <2>1. MutexOK /\ RegOK
    BY TypeParts DEF Inv
  <2>2. Noticed(q)
    BY DEF NoticeInv
  <2>3. CASE q # p
    <3>1. pc'[q] = pc[q]
      BY <1>1, <2>1, <2>3, ValueSteps
    <3>2. pc[q] \in {"value_look", "value_wait"} => reg' = reg
      <4>1. pc[q] \in Locked => pc[p] \notin Locked
        BY <2>1, <2>3 DEF MutexOK
      <4>2. QED
        BY <1>1, <4>1, RegSteps DEF Locked, Guarded
    <3>3. QED
      BY <2>2, <3>1, <3>2 DEF Noticed
  <2>4. CASE q = p
    <3>1. ValueArm(p) => reg'.armed
      BY <2>1 DEF ValueArm, RegOK
    <3>2. ValueArm(p) => pc'[p] = "value_look"
      BY <2>1 DEF ValueArm, GoTo, MutexOK
    <3>3. ValueLook(p) /\ pc'[p] = "value_wait" => pc[p] = "value_look" /\ ~reg.present /\ reg' = reg
      BY <2>1 DEF ValueLook, GoTo, MutexOK
    <3>4. ValueLook(p) => pc'[p] # "value_look"
      BY <2>1 DEF ValueLook, GoTo, MutexOK
    <3>5. QED
      BY <1>1, <2>1, <2>2, <2>4, <3>1, <3>2, <3>3, <3>4, ValueSteps DEF Noticed
  <2>5. QED
    BY <2>3, <2>4
<1>2. CASE RegistryChanges
  <2>1. pc' = pc /\ reg'.fired = (reg.fired \/ reg.armed)
    BY <1>2, ChangesStep DEF Inv
  <2>2. QED
    BY <2>1 DEF NoticeInv, Noticed
<1>3. CASE UNCHANGED vars
  BY <1>3 DEF vars, NoticeInv, Noticed
<1>4. QED
  BY Zenon, <1>1, <1>2, <1>3 DEF Next, StepOf, NoticeInv

LEMMA ValueStep ==
  ASSUME Inv, NoticeInv, [Next]_vars, NEW p \in Procs,
         pc[p] = "value_wait", pc'[p] = "idle", ~died'
  PROVE  ~reg.present
<1>1. MutexOK /\ Noticed(p)
  BY TypeParts DEF Inv, NoticeInv
<1>2. mutex = p
  BY <1>1 DEF MutexOK, Locked, Guarded
<1>3. ~Die(p)
  BY <1>2 DEF Die
<1>4. ASSUME NEW q \in Procs, StepOf(q) PROVE ~reg.present
  BY <1>1, <1>3, <1>4, ValueSteps DEF Noticed
<1>5. pc' # pc
  OBVIOUS
<1>6. ~RegistryChanges /\ ~UNCHANGED vars
  BY <1>5 DEF RegistryChanges, vars
<1>7. QED
  BY Zenon, <1>4, <1>6 DEF Next, StepOf

\* registry_wait_for_value (pool.rs:53) gives up only when the value is not there:
\* it asks to be notified again before every look, so that a change between the look
\* and the wait is not lost.
THEOREM ValueIsNotMissed == Spec => ValueNotMissed
<1>1. Spec => []Inv
  BY InvInit, InvNext, PTL DEF Spec
<1>2. Init => NoticeInv
  <2>1. Init => pc = [p \in Procs |-> "idle"]
    BY Zenon DEF Init
  <2>2. pc = [p \in Procs |-> "idle"] => \A p \in Procs : pc[p] = "idle"
    BY Zenon
  <2>3. QED
    BY Zenon, <2>1, <2>2 DEF NoticeInv, Noticed
<1>3. Inv /\ NoticeInv /\ [Next]_vars => NoticeInv'
  BY NoticeStep
<1>4. Inv /\ NoticeInv /\ [Next]_vars
        => [\A p \in Procs :
              pc[p] = "value_wait" /\ pc'[p] = "idle" /\ ~died' => ~reg.present]_vars
  BY ValueStep
<1>5. QED
  BY <1>1, <1>2, <1>3, <1>4, PTL DEF Spec, ValueNotMissed
=============================================================================
