-------------------------- MODULE DeviceHubProofs ---------------------------
(***************************************************************************)
(* TLAPS proofs about DeviceHub, for any set of connections, devices and   *)
(* senders and any capacity: its type invariant, that the registry never   *)
(* keeps a connection the hub was told is gone, and that it implements     *)
(* Presence.                                                               *)
(***************************************************************************)
EXTENDS DeviceHub, TLAPS

LEMMA InitTypeOK == Init => TypeOK
<1> SUFFICES ASSUME Init PROVE TypeOK
    OBVIOUS
<1>1. None \in [Status -> Nat]
    BY DEF None
<1>2. writes \in [UIDs -> [Status -> Nat]] /\ notices \in [UIDs -> [Status -> Nat]]
    BY <1>1 DEF Init
<1>3. "offline" \in Status
    BY DEF Status
<1>4. queue \in [Conns -> 0..SendCap] /\ restarts \in 0..MaxRestarts
    BY BoundAssumption DEF Init
<1> QED
    BY <1>2, <1>3, <1>4 DEF Init, TypeOK

\* Starting the two goroutines keeps the counters of pending goroutines.
LEMMA SpawnTypeOK ==
    ASSUME TypeOK, NEW u \in UIDs, NEW s \in Status, Spawn(u, s)
    PROVE  /\ writes' \in [UIDs -> [Status -> Nat]]
           /\ notices' \in [UIDs -> [Status -> Nat]]
           /\ status' \in [UIDs -> Status]
           /\ shown' \in [UIDs -> Status]
BY DEF Spawn, TypeOK

LEMMA NextTypeOK == TypeOK /\ [Next]_vars => TypeOK'
<1> SUFFICES ASSUME TypeOK, [Next]_vars PROVE TypeOK'
    OBVIOUS
<1> USE ConnAssumption, BoundAssumption DEF TypeOK, pumps, effects, process
<1>1. ASSUME NEW c \in Conns, Connection(c) PROVE TypeOK'
  <2>1. CASE Serve(c) BY <2>1 DEF Serve
  <2>2. CASE StartPumps(c) BY <2>2 DEF StartPumps
  <2>3. CASE Break(c) BY <2>3 DEF Break
  <2>4. CASE Heartbeat(c)
    <3>1. DeviceUID[c] \in UIDs /\ "online" \in Status
      BY DEF Status
    <3> QED BY <2>4, <3>1, SpawnTypeOK DEF Heartbeat
  <2>5. CASE AckDone(c) BY <2>5 DEF AckDone
  <2>6. CASE ConcurrentWrite(c) BY <2>6 DEF ConcurrentWrite
  <2>7. CASE ReadFails(c) BY <2>7 DEF ReadFails
  <2>8. CASE CloseConn(c) BY <2>8 DEF CloseConn
  <2>9. CASE WritePumpTake(c) BY <2>9 DEF WritePumpTake
  <2>10. CASE WritePumpWrote(c) BY <2>10 DEF WritePumpWrote
  <2>11. CASE WritePumpFails(c) BY <2>11 DEF WritePumpFails
  <2> QED
    BY <1>1, <2>1, <2>2, <2>3, <2>4, <2>5, <2>6, <2>7, <2>8, <2>9, <2>10, <2>11
    DEF Connection
<1>2. CASE Hub
  <2>1. CASE HandleDeviceRegister
    <3>1. job \in [op : {"reg", "unreg"}, conn : Conns]
      BY <2>1 DEF HandleDeviceRegister, Idle
    <3>2. DeviceUID[job.conn] \in UIDs /\ "online" \in Status
      BY <3>1 DEF Status
    <3> QED BY <2>1, <3>1, <3>2, SpawnTypeOK DEF HandleDeviceRegister
  <2>2. CASE HandleDeviceUnregister
    <3>1. /\ job \in [op : {"reg", "unreg"}, conn : Conns]
          /\ DeviceUID[job.conn] \in UIDs
          /\ "offline" \in Status
      BY <2>2 DEF HandleDeviceUnregister, Idle, Status
    <3>2. CASE devices[DeviceUID[job.conn]] = job.conn
      BY <2>2, <3>1, <3>2, SpawnTypeOK DEF HandleDeviceUnregister
    <3>3. CASE devices[DeviceUID[job.conn]] # job.conn
      BY <2>2, <3>3 DEF HandleDeviceUnregister
    <3> QED BY <3>2, <3>3
  <2>3. ASSUME NEW c \in Conns, HubTakeRegister(c) PROVE TypeOK'
    BY <2>3 DEF HubTakeRegister
  <2>4. ASSUME NEW c \in Conns, HubTakeUnregister(c) PROVE TypeOK'
    BY <2>4 DEF HubTakeUnregister
  <2> QED BY <1>2, <2>1, <2>2, <2>3, <2>4 DEF Hub
<1>3. ASSUME NEW s \in Senders, Sender(s) PROVE TypeOK'
  <2>1. CASE Lookup(s) BY <2>1 DEF Lookup
  <2>2. CASE Control(s) BY <2>2 DEF Control
  <2>3. CASE SendToDevice(s) BY <2>3 DEF SendToDevice
  <2> QED BY <1>3, <2>1, <2>2, <2>3 DEF Sender
<1>4. ASSUME NEW u \in UIDs, NEW s \in Status, Detached(u, s) PROVE TypeOK'
  <2>1. CASE StatusWrite(u, s) BY <2>1 DEF StatusWrite
  <2>2. CASE StatusWriteFails(u, s) BY <2>2 DEF StatusWriteFails
  <2>3. CASE Notify(u, s) BY <2>3 DEF Notify
  <2>4. CASE NotifyDropped(u, s) BY <2>4 DEF NotifyDropped
  <2> QED BY <1>4, <2>1, <2>2, <2>3, <2>4 DEF Detached
<1>5. CASE Restart
  <2>1. None \in [Status -> Nat]
    BY DEF None
  <2>2. writes' \in [UIDs -> [Status -> Nat]] /\ notices' \in [UIDs -> [Status -> Nat]]
    BY <1>5, <2>1 DEF Restart
  <2>3. /\ handler' \in [Conns -> {"idle", "registering", "starting", "returned"}]
        /\ readPump' \in [Conns -> {"none", "reading", "acking", "leaving", "closing", "done"}]
        /\ writePump' \in [Conns -> {"none", "waiting", "writing", "done"}]
        /\ conn' \in [Conns -> {"up", "silent", "broken", "closed"}]
    BY <1>5 DEF Restart
  <2>4. /\ queue' \in [Conns -> 0..SendCap]
        /\ restarts' \in 0..MaxRestarts
    BY <1>5 DEF Restart
  <2> QED BY <1>5, <2>2, <2>3, <2>4 DEF Restart
<1>6. CASE UNCHANGED vars
  BY <1>6 DEF vars
<1> QED
  BY <1>1, <1>2, <1>3, <1>4, <1>5, <1>6 DEF Next, Run

\* Every variable keeps its type: DeviceHub, whatever the instance.
THEOREM TypeCorrect == Spec => []TypeOK
<1>1. Init => TypeOK BY InitTypeOK
<1>2. TypeOK /\ [Next]_vars => TypeOK' BY NextTypeOK
<1> QED BY <1>1, <1>2, PTL DEF Spec

-----------------------------------------------------------------------------
(* The registry. *)

\* The conjuncts of IInv other than the types.
Places == NoDeadEntry /\ Unstarted /\ Unadmitted /\ Admitting /\ Removing

LEMMA InitPlaces == Init => Places
BY ConnAssumption
DEF Init, Places, NoDeadEntry, Unstarted, Unadmitted, Admitting, Removing, Idle

\* Steps of the handler and of the hub, which decide what the registry names.
LEMMA HubPlaces == ASSUME TypeOK, Places, Hub PROVE Places'
<1> USE ConnAssumption DEF pumps, effects, process
<1>1. CASE HandleDeviceRegister
  <2>1. job \in [op : {"reg", "unreg"}, conn : Conns] /\ job.op = "reg"
    BY <1>1 DEF HandleDeviceRegister, TypeOK, Idle
  <2>2. NoDeadEntry'
    BY <1>1, <2>1 DEF HandleDeviceRegister, TypeOK, Places, NoDeadEntry, Admitting
  <2>3. Unstarted'
    BY <1>1 DEF HandleDeviceRegister, Places, Unstarted
  <2>4. Unadmitted'
    BY <1>1, <2>1 DEF HandleDeviceRegister, TypeOK, Places, Unadmitted, Idle
  <2>5. Admitting' /\ Removing'
    BY <1>1 DEF HandleDeviceRegister, Admitting, Removing, Idle
  <2> QED BY <2>2, <2>3, <2>4, <2>5 DEF Places
<1>2. CASE HandleDeviceUnregister
  <2>1. job \in [op : {"reg", "unreg"}, conn : Conns] /\ job.op = "unreg"
    BY <1>2 DEF HandleDeviceUnregister, TypeOK, Idle
  <2>2. /\ \A u \in UIDs : devices'[u] \in {devices[u], NoConn}
        /\ devices'[DeviceUID[job.conn]] # job.conn
        /\ UNCHANGED <<handler, readPump, writePump, target>>
        /\ job' = Idle
    BY <1>2, <2>1 DEF HandleDeviceUnregister, TypeOK
  <2>3. NoDeadEntry'
    BY <2>1, <2>2 DEF TypeOK, Places, NoDeadEntry
  <2>4. Unstarted'
    BY <2>2 DEF Places, Unstarted
  <2>5. Unadmitted'
    BY <2>2 DEF Places, Unadmitted, Idle
  <2>6. Admitting' /\ Removing'
    BY <2>2 DEF Admitting, Removing, Idle
  <2> QED BY <2>3, <2>4, <2>5, <2>6 DEF Places
<1>3. ASSUME NEW c \in Conns, HubTakeRegister(c) PROVE Places'
  <2>1. NoDeadEntry'
    BY <1>3 DEF HubTakeRegister, Places, NoDeadEntry, Idle
  <2>2. Unstarted'
    BY <1>3 DEF HubTakeRegister, TypeOK, Places, Unstarted
  <2>3. Unadmitted'
    BY <1>3 DEF HubTakeRegister, TypeOK, Places, Unadmitted, Idle
  <2>4. Admitting' /\ Removing'
    BY <1>3 DEF HubTakeRegister, TypeOK, Places, Unstarted, Unadmitted, Admitting, Removing
  <2> QED BY <2>1, <2>2, <2>3, <2>4 DEF Places
<1>4. ASSUME NEW c \in Conns, HubTakeUnregister(c) PROVE Places'
  <2>1. NoDeadEntry'
    BY <1>4 DEF HubTakeUnregister, TypeOK, Places, NoDeadEntry, Idle
  <2>2. handler[c] = "returned" /\ Unstarted'
    BY <1>4 DEF HubTakeUnregister, TypeOK, Places, Unstarted
  <2>3. Unadmitted'
    BY <1>4, <2>2 DEF HubTakeUnregister, Places, Unadmitted
  <2>4. Admitting' /\ Removing'
    BY <1>4 DEF HubTakeUnregister, TypeOK, Admitting, Removing
  <2> QED BY <2>1, <2>2, <2>3, <2>4 DEF Places
<1> QED BY <1>1, <1>2, <1>3, <1>4 DEF Hub

\* Steps of one connection leave the registry, the hub and the senders alone,
\* and neither admit a connection nor hand in its deregistration.
LEMMA ConnectionFrame ==
    ASSUME TypeOK, Places, NEW c \in Conns, Connection(c)
    PROVE  /\ UNCHANGED <<job, devices, target>>
           /\ \A d \in Conns :
                /\ readPump'[d] \in {"closing", "done"} <=> readPump[d] \in {"closing", "done"}
                /\ handler'[d] \in {"idle", "registering"} <=> handler[d] \in {"idle", "registering"}
                /\ handler'[d] # "returned" => /\ handler[d] # "returned"
                                               /\ readPump'[d] = readPump[d]
                                               /\ writePump'[d] = writePump[d]
<1> USE DEF pumps, effects, process, TypeOK, Places, Unstarted
<1>1. CASE Serve(c) BY <1>1 DEF Serve
<1>2. CASE StartPumps(c) BY <1>2 DEF StartPumps
<1>3. CASE Break(c) BY <1>3 DEF Break
<1>4. CASE Heartbeat(c) BY <1>4 DEF Heartbeat
<1>5. CASE AckDone(c) BY <1>5 DEF AckDone
<1>6. CASE ConcurrentWrite(c) BY <1>6 DEF ConcurrentWrite
<1>7. CASE ReadFails(c) BY <1>7 DEF ReadFails
<1>8. CASE CloseConn(c) BY <1>8 DEF CloseConn
<1>9. CASE WritePumpTake(c) BY <1>9 DEF WritePumpTake
<1>10. CASE WritePumpWrote(c) BY <1>10 DEF WritePumpWrote
<1>11. CASE WritePumpFails(c) BY <1>11 DEF WritePumpFails
<1> QED
  BY <1>1, <1>2, <1>3, <1>4, <1>5, <1>6, <1>7, <1>8, <1>9, <1>10, <1>11
  DEF Connection

LEMMA ConnectionPlaces ==
    ASSUME TypeOK, Places, NEW c \in Conns, Connection(c) PROVE Places'
<1> USE ConnAssumption
<1>1. UNCHANGED <<job, devices, target>>
  BY ConnectionFrame
<1>2. \A d \in Conns :
        /\ readPump'[d] \in {"closing", "done"} <=> readPump[d] \in {"closing", "done"}
        /\ handler'[d] \in {"idle", "registering"} <=> handler[d] \in {"idle", "registering"}
        /\ handler'[d] # "returned" => /\ handler[d] # "returned"
                                       /\ readPump'[d] = readPump[d]
                                       /\ writePump'[d] = writePump[d]
  BY ConnectionFrame
<1>3. NoDeadEntry'
  BY <1>1, <1>2 DEF TypeOK, Places, NoDeadEntry
<1>4. Unstarted'
  BY <1>2 DEF Places, Unstarted
<1>5. Unadmitted'
  BY <1>1, <1>2 DEF Places, Unadmitted
<1>6. Admitting' /\ Removing'
  <2>1. job.op \in {"reg", "unreg"} => job.conn \in Conns
    BY DEF TypeOK, Idle
  <2> QED BY <1>1, <1>2, <2>1 DEF Places, Admitting, Removing
<1> QED BY <1>3, <1>4, <1>5, <1>6 DEF Places

\* Senders look up admitted connections only.
LEMMA SenderPlaces ==
    ASSUME TypeOK, Places, NEW s \in Senders, Sender(s) PROVE Places'
<1> USE ConnAssumption DEF pumps, effects, process
<1>1. UNCHANGED <<handler, readPump, writePump, job, devices>>
  BY DEF Sender, Lookup, Control, SendToDevice
<1>2. \A t \in Senders :
        target'[t] \in {target[t], NoConn} \cup {devices[u] : u \in UIDs}
  BY DEF Sender, Lookup, Control, SendToDevice, TypeOK
<1>3. Unadmitted'
  BY <1>1, <1>2 DEF Places, Unadmitted
<1> QED
  BY <1>1, <1>3 DEF Places, NoDeadEntry, Unstarted, Admitting, Removing

LEMMA DetachedPlaces ==
    ASSUME Places, NEW u \in UIDs, NEW s \in Status, Detached(u, s) PROVE Places'
<1>1. UNCHANGED <<handler, readPump, writePump, job, devices, target>>
  BY DEF Detached, StatusWrite, StatusWriteFails, Notify, NotifyDropped, pumps
<1> QED
  BY <1>1 DEF Places, NoDeadEntry, Unstarted, Unadmitted, Admitting, Removing

LEMMA RestartPlaces == ASSUME TypeOK, Places, Restart PROVE Places'
BY ConnAssumption
DEF Restart, TypeOK, Places, NoDeadEntry, Unstarted, Unadmitted, Admitting, Removing, Idle

LEMMA NextPlaces == TypeOK /\ Places /\ [Next]_vars => Places'
<1> SUFFICES ASSUME TypeOK, Places, [Next]_vars PROVE Places'
  OBVIOUS
<1>1. CASE UNCHANGED vars
  BY <1>1 DEF vars, Places, NoDeadEntry, Unstarted, Unadmitted, Admitting, Removing
<1> QED
  BY <1>1, HubPlaces, ConnectionPlaces, SenderPlaces, DetachedPlaces, RestartPlaces
  DEF Next, Run

\* The inductive invariant: types, and where handler, pumps and hub stand when
\* a connection waits, is admitted or is removed.
THEOREM Inductive == Spec => []IInv
<1>1. Init => IInv
  BY InitTypeOK, InitPlaces DEF IInv, Places
<1>2. IInv /\ [Next]_vars => IInv'
  BY NextTypeOK, NextPlaces DEF IInv, Places
<1> QED BY <1>1, <1>2, PTL DEF Spec

\* No connection outlives its deregistration in the registry, whatever the
\* number of devices, connections and senders (hub.go:86-106).
THEOREM RegistryCorrect == Spec => []NoDeadEntry
<1>1. IInv => NoDeadEntry
  BY DEF IInv
<1> QED BY <1>1, Inductive, PTL

-----------------------------------------------------------------------------
(* DeviceHub implements Presence. *)

LEMMA InitRefines == Init => P!Init
BY ConnAssumption DEF Init, P!Init, stage, Idle

\* The hub's two handlers are the steps Presence sees.
LEMMA RegisterRefines ==
    ASSUME TypeOK, Places, HandleDeviceRegister
    PROVE  P!Connect(job.conn) /\ job.conn \in Conns
<1> USE ConnAssumption DEF pumps, TypeOK
<1>1. job \in [op : {"reg", "unreg"}, conn : Conns] /\ job.op = "reg"
  BY DEF HandleDeviceRegister, Idle
<1>2. job = [op |-> "reg", conn |-> job.conn]
  BY <1>1
<1>3. handler[job.conn] \notin {"idle", "registering"}
  BY <1>1 DEF Places, Unadmitted
<1>4. readPump[job.conn] \notin {"closing", "done"}
  BY <1>1 DEF Places, Admitting
<1>5. stage[job.conn] = "new"
  BY <1>1, <1>2 DEF stage
<1>6. /\ job' = Idle
      /\ UNCHANGED <<handler, readPump>>
      /\ devices' = [devices EXCEPT ![DeviceUID[job.conn]] = job.conn]
  BY DEF HandleDeviceRegister
<1>7. ASSUME NEW c \in Conns
      PROVE  stage'[c] = IF c = job.conn THEN "live" ELSE stage[c]
  BY <1>1, <1>2, <1>3, <1>4, <1>6 DEF stage, Idle
<1>8. stage' = [stage EXCEPT ![job.conn] = "live"]
  BY <1>1, <1>7 DEF stage
<1> QED BY <1>1, <1>5, <1>6, <1>8 DEF P!Connect

LEMMA UnregisterRefines ==
    ASSUME TypeOK, Places, HandleDeviceUnregister
    PROVE  P!Leave(job.conn) /\ job.conn \in Conns
<1> USE ConnAssumption DEF pumps, TypeOK
<1>1. job \in [op : {"reg", "unreg"}, conn : Conns] /\ job.op = "unreg"
  BY DEF HandleDeviceUnregister, Idle
<1>2. job = [op |-> "unreg", conn |-> job.conn]
  BY <1>1
<1>3. handler[job.conn] \notin {"idle", "registering"}
  BY <1>1 DEF Places, Unadmitted
<1>4. readPump[job.conn] \in {"closing", "done"}
  BY <1>1 DEF Places, Removing
<1>5. stage[job.conn] = "live"
  BY <1>1, <1>2, <1>3 DEF stage
<1>6. /\ job' = Idle
      /\ UNCHANGED <<handler, readPump>>
  BY DEF HandleDeviceUnregister
<1>7. devices' = [devices EXCEPT ![DeviceUID[job.conn]] =
                      IF devices[DeviceUID[job.conn]] = job.conn
                        THEN NoConn ELSE devices[DeviceUID[job.conn]]]
  BY <1>1 DEF HandleDeviceUnregister
<1>8. ASSUME NEW c \in Conns
      PROVE  stage'[c] = IF c = job.conn THEN "gone" ELSE stage[c]
  BY <1>1, <1>2, <1>3, <1>4, <1>6 DEF stage, Idle
<1>9. stage' = [stage EXCEPT ![job.conn] = "gone"]
  BY <1>1, <1>8 DEF stage
<1> QED BY <1>1, <1>5, <1>7, <1>9 DEF P!Leave

\* Going down is Presence's Reset: the connections a handler held are lost.
LEMMA RestartRefines == ASSUME TypeOK, Places, Restart PROVE P!Reset
<1> DEFINE lost == {c \in Conns : stage[c] = "new" /\ handler[c] # "idle"}
<1>1. lost \in SUBSET {c \in Conns : stage[c] = "new"}
  OBVIOUS
<1>2. ASSUME NEW c \in Conns
      PROVE  stage'[c] = IF stage[c] = "new" /\ c \notin lost THEN "new" ELSE "gone"
  <2>1. CASE handler[c] = "idle"
    BY <2>1 DEF Restart, TypeOK, stage, Idle
  <2>2. CASE handler[c] # "idle"
    BY <2>2 DEF Restart, TypeOK, stage, Idle
  <2> QED BY <2>1, <2>2
<1>3. stage' = [c \in Conns |->
                   IF stage[c] = "new" /\ c \notin lost THEN "new" ELSE "gone"]
  BY <1>2 DEF stage
<1>4. devices' = [u \in UIDs |-> NoConn]
  BY DEF Restart
<1> HIDE DEF lost
<1> QED BY <1>1, <1>3, <1>4 DEF P!Reset

\* Every other step leaves both of Presence's variables as they are.
LEMMA OthersStutter ==
    ASSUME TypeOK, Places,
           \/ UNCHANGED vars
           \/ \E c \in Conns : Connection(c) \/ HubTakeRegister(c) \/ HubTakeUnregister(c)
           \/ \E s \in Senders : Sender(s)
           \/ \E u \in UIDs, s \in Status : Detached(u, s)
    PROVE  UNCHANGED P!vars
<1> USE ConnAssumption DEF pumps, effects, process
<1> SUFFICES (\A c \in Conns : stage'[c] = stage[c]) /\ devices' = devices
  BY DEF P!vars, stage
<1>1. CASE UNCHANGED vars
  BY <1>1 DEF vars, stage
<1>2. ASSUME NEW c \in Conns, HubTakeRegister(c)
      PROVE  (\A d \in Conns : stage'[d] = stage[d]) /\ devices' = devices
  BY <1>2 DEF HubTakeRegister, TypeOK, Places, Unstarted, stage, Idle
<1>3. ASSUME NEW c \in Conns, HubTakeUnregister(c)
      PROVE  (\A d \in Conns : stage'[d] = stage[d]) /\ devices' = devices
  <2>1. handler[c] = "returned"
    BY <1>3 DEF HubTakeUnregister, TypeOK, Places, Unstarted
  <2> QED BY <1>3, <2>1 DEF HubTakeUnregister, TypeOK, stage, Idle
<1>4. ASSUME NEW c \in Conns, Connection(c)
      PROVE  (\A d \in Conns : stage'[d] = stage[d]) /\ devices' = devices
  <2>1. /\ UNCHANGED <<job, devices>>
        /\ \A d \in Conns :
            /\ readPump'[d] \in {"closing", "done"} <=> readPump[d] \in {"closing", "done"}
            /\ handler'[d] \in {"idle", "registering"} <=> handler[d] \in {"idle", "registering"}
    BY <1>4, ConnectionFrame
  <2> QED BY <2>1 DEF stage
<1>5. ASSUME NEW s \in Senders, Sender(s)
      PROVE  (\A d \in Conns : stage'[d] = stage[d]) /\ devices' = devices
  BY <1>5 DEF Sender, Lookup, Control, SendToDevice, stage
<1>6. ASSUME NEW u \in UIDs, NEW s \in Status, Detached(u, s)
      PROVE  (\A d \in Conns : stage'[d] = stage[d]) /\ devices' = devices
  BY <1>6 DEF Detached, StatusWrite, StatusWriteFails, Notify, NotifyDropped, stage
<1> QED BY <1>1, <1>2, <1>3, <1>4, <1>5, <1>6

\* The hub, its connections and everything that interleaves with them keep the
\* promise of Presence for any number of devices and connections.
THEOREM ImplementsPresence == Spec => PresenceSpec
<1>1. IInv /\ [Next]_vars => [P!Next]_(P!vars)
  <2> SUFFICES ASSUME TypeOK, Places, [Next]_vars PROVE [P!Next]_(P!vars)
    BY DEF IInv, Places
  <2>1. CASE HandleDeviceRegister
    BY <2>1, RegisterRefines DEF P!Next
  <2>2. CASE HandleDeviceUnregister
    BY <2>2, UnregisterRefines DEF P!Next
  <2>3. CASE Restart
    BY <2>3, RestartRefines DEF P!Next
  <2> QED
    BY <2>1, <2>2, <2>3, OthersStutter DEF Next, Run, Hub
<1> QED
  BY <1>1, InitRefines, Inductive, PTL DEF PresenceSpec, P!Spec, Spec
=============================================================================
