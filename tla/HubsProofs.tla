----------------------------- MODULE HubsProofs -----------------------------
(***************************************************************************)
(* Theorems about Hubs.  Each side of it is the hub of its own module: the *)
(* user side is UserHub, the device side is DeviceHub in a process that    *)
(* only stops and is not started again.  So what is proved of the two      *)
(* holds of both together, and only what they share is proved here.        *)
(***************************************************************************)
EXTENDS Hubs, TLAPS

\* The user hub, with what is proved of it.
UP == INSTANCE UserHubProofs WITH job <- clientJob, SendCap <- UserCap

\* The device hub.  A panic of the user's side stops it, which it need not see.
DP == INSTANCE DeviceHubProofs WITH
        job <- deviceJob, SendCap <- DeviceCap, Engines <- {}, Owned <- {},
        DBFails <- FALSE, panicked <- FALSE, restarts <- 0, MaxRestarts <- 0

-----------------------------------------------------------------------------
(* The queue in front of the pushes. *)

Queued ==
    /\ storing \in SUBSET Conns
    /\ pushQueue \in Seq(Users) /\ Len(pushQueue) <= PushCap

\* pushQueue holds users, and no more of them than its capacity.
LEMMA QueueBounded == Spec => []Queued
<1>1. Init => Queued
  BY QueueAssumption DEF Init, Queued
<1>2. Queued /\ [Next]_vars => Queued'
  <2> SUFFICES ASSUME Queued, [Next]_vars PROVE Queued'
    OBVIOUS
  <2>1. CASE UNCHANGED queues
    BY <2>1 DEF queues, Queued
  <2>2. CASE TakePush
    BY <2>2, QueueAssumption DEF TakePush, Queued
  <2>3. ASSUME NEW c \in Conns, DataFrame(c) PROVE Queued'
    BY <2>3 DEF DataFrame, Queued
  <2>4. ASSUME NEW c \in Conns, SendToUser(c) PROVE Queued'
    BY <2>4, QueueAssumption DEF SendToUser, Queued
  <2> QED
    BY <2>1, <2>2, <2>3, <2>4
    DEF Next, Run, vars, queues, HubHandles, TakeEvent, HubTakesDevice, DeviceConnection,
        DeviceReadFails, HubTakesClient, UserConnection, Control, ControlDone,
        DeviceStep, UserStep
<1> QED BY <1>1, <1>2, PTL DEF Spec

-----------------------------------------------------------------------------
(* The user side. *)

LEMMA ConnectionIsUsers ==
    ASSUME NEW c \in Clients, UserConnection(c), ~panicked PROVE UP!Next
<1> USE DEF UserStep
<1>1. UP!Connection(c)
  <2>1. CASE U!Serve(c) BY <2>1 DEF U!Serve, UP!Serve, UP!Connection
  <2>2. CASE U!Break(c) BY <2>2 DEF U!Break, UP!Break, UP!Connection
  <2>3. CASE U!Request(c) BY <2>3 DEF U!Request, UP!Request, UP!Connection
  <2>4. CASE \E u \in Users : U!Auth(c, u) BY <2>4 DEF U!Auth, UP!Auth, UP!Connection
  <2>5. CASE U!Adopt(c) BY <2>5 DEF U!Adopt, UP!Adopt, UP!Connection
  <2>6. CASE U!Mark(c) BY <2>6 DEF U!Mark, UP!Mark, UP!Connection
  <2>7. CASE U!Reply(c) BY <2>7 DEF U!Reply, UP!Reply, UP!Connection
  <2>8. CASE U!ReadFails(c) BY <2>8 DEF U!ReadFails, UP!ReadFails, UP!Connection
  <2>9. CASE U!CloseConn(c) BY <2>9 DEF U!CloseConn, UP!CloseConn, UP!Connection
  <2>10. CASE U!WritePumpTake(c) BY <2>10 DEF U!WritePumpTake, UP!WritePumpTake, UP!Connection
  <2>11. CASE U!Ping(c) BY <2>11 DEF U!Ping, UP!Ping, UP!Connection
  <2>12. CASE U!WritePumpWrote(c)
    BY <2>12 DEF U!WritePumpWrote, UP!WritePumpWrote, UP!Connection
  <2>13. CASE U!WritePumpEnds(c)
    BY <2>13 DEF U!WritePumpEnds, UP!WritePumpEnds, UP!Connection
  <2> QED
    BY <2>1, <2>2, <2>3, <2>4, <2>5, <2>6, <2>7, <2>8, <2>9, <2>10, <2>11, <2>12, <2>13
    DEF UserConnection
<1> QED BY <1>1 DEF UP!Next

LEMMA HubIsUsers ==
    ASSUME ~panicked,
           \/ U!HandleClientRegister \/ U!HandleClientUnregister
           \/ U!ClearRegistered \/ U!PruneUser
           \/ \E c \in Clients : U!HubTakeRegister(c) \/ U!HubTakeUnregister(c)
           \/ \E u \in Users : U!PushToUser(u)
    PROVE  UP!Next
<1> USE DEF U!Idle, UP!Idle
<1>1. UP!Hub
  <2>1. CASE U!HandleClientRegister
    BY <2>1 DEF U!HandleClientRegister, UP!HandleClientRegister, UP!Hub
  <2>2. CASE U!HandleClientUnregister
    BY <2>2 DEF U!HandleClientUnregister, UP!HandleClientUnregister, UP!Hub
  <2>3. CASE U!ClearRegistered BY <2>3 DEF U!ClearRegistered, UP!ClearRegistered, UP!Hub
  <2>4. CASE U!PruneUser BY <2>4 DEF U!PruneUser, UP!PruneUser, UP!Hub
  <2>5. ASSUME NEW c \in Clients, U!HubTakeRegister(c) \/ U!HubTakeUnregister(c) PROVE UP!Hub
    BY <2>5
    DEF U!HubTakeRegister, UP!HubTakeRegister, U!HubTakeUnregister, UP!HubTakeUnregister, UP!Hub
  <2>6. ASSUME NEW u \in Users, U!PushToUser(u) PROVE UP!Hub
    BY <2>6 DEF U!PushToUser, UP!PushToUser, UP!Hub
  <2> QED BY <2>1, <2>2, <2>3, <2>4, <2>5, <2>6
<1> QED BY <1>1 DEF UP!Next

\* Every step of the two hubs is a step of UserHub or changes nothing of it.
LEMMA NextIsUsers == ASSUME Queued, [Next]_vars PROVE [UP!Next]_(UP!vars)
<1> SUFFICES ASSUME ~UNCHANGED UP!vars PROVE UP!Next
  OBVIOUS
<1> USE DEF UP!vars, userSide
<1>1. ~panicked /\ Run
  BY DEF Next, vars
<1>2. \A u \in Users : PushToUser(u) => U!PushToUser(u)
  BY DEF PushToUser
<1>3. CASE HubHandles
  <2>1. ~DeviceStep(D!HandleDeviceRegister \/ D!HandleDeviceUnregister)
    BY DEF DeviceStep, D!HandleDeviceRegister, D!HandleDeviceUnregister, D!process
  <2> QED BY <1>1, <1>3, <2>1, HubIsUsers DEF HubHandles, UserStep
<1>4. CASE TakePush
  <2>1. Head(pushQueue) \in Users
    BY <1>4 DEF TakePush, Queued
  <2> QED BY <1>1, <1>2, <1>4, <2>1, HubIsUsers DEF TakePush
<1>5. CASE TakeEvent
  BY <1>1, <1>2, <1>5, HubIsUsers DEF TakeEvent, UserStep
<1>6. ASSUME NEW c \in Conns,
             HubTakesDevice(c) \/ DeviceConnection(c) \/ DataFrame(c) \/ SendToUser(c)
      PROVE  FALSE
  <2>1. UNCHANGED panicked
    BY <1>6
    DEF HubTakesDevice, DeviceConnection, DeviceReadFails, DataFrame, SendToUser, DeviceStep,
        D!HubTakeRegister, D!HubTakeUnregister, D!ReadFails, D!Serve, D!StartPumps, D!Break,
        D!CloseConn, D!WritePumpTake, D!WritePumpWrote, D!WritePumpFails, D!process
  <2> QED
    BY <1>6, <2>1
    DEF HubTakesDevice, DeviceConnection, DeviceReadFails, DataFrame, SendToUser, DeviceStep
<1>7. ASSUME NEW c \in Clients,
             HubTakesClient(c) \/ UserConnection(c) \/ Control(c) \/ ControlDone(c)
      PROVE  UP!Next
  <2>1. CASE HubTakesClient(c)
    BY <1>1, <2>1, HubIsUsers DEF HubTakesClient, UserStep
  <2>2. CASE UserConnection(c)
    BY <1>1, <2>2, ConnectionIsUsers
  <2>3. CASE Control(c)
    BY <1>1, <2>3 DEF Control, U!Control, UP!Control, UP!Connection, UP!Next
  <2>4. CASE ControlDone(c)
    BY <1>1, <2>4 DEF ControlDone, U!ControlDone, UP!ControlDone, UP!Connection, UP!Next
  <2> QED BY <1>7, <2>1, <2>2, <2>3, <2>4
<1> QED BY <1>1, <1>3, <1>4, <1>5, <1>6, <1>7 DEF Run

\* The user side of the two hubs is UserHub: what the device side asks of it, and what it
\* waits for there, adds no step to it (client.go, hub.go:71-85, 108-172).
THEOREM ImplementsUserHub == Spec => UP!Spec
<1>1. Init => UP!Init
  BY DEF Init, U!Init, UP!Init, U!Idle, UP!Idle
<1> QED BY <1>1, NextIsUsers, QueueBounded, PTL DEF Spec, UP!Spec

\* Beside a device hub, too, nobody's messages reach another user or a closed channel
\* after one authentication, who is authenticated is filed, and only a second
\* authentication brings the server down (client.go:47-62, hub.go:108-127).
THEOREM UsersAreServed ==
    Spec => [](U!FiledAsItself /\ U!AuthenticatedIsFiled /\ U!PanicNeedsReauth)
<1>1. UP!Spec => []UP!FiledAsItself /\ []UP!AuthenticatedIsFiled /\ []UP!PanicNeedsReauth
  BY UP!FiledUnderItself, UP!AuthenticatedAreFiled, UP!PanicsNeedReauth,
     NamesAssumption, QueueAssumption, BoundAssumption
<1>2. UP!FiledAsItself => U!FiledAsItself
  BY DEF UP!FiledAsItself, U!FiledAsItself
<1>3. UP!AuthenticatedIsFiled => U!AuthenticatedIsFiled
  BY DEF UP!AuthenticatedIsFiled, U!AuthenticatedIsFiled, UP!NoReauth, U!NoReauth,
     UP!Idle, U!Idle
<1>4. UP!PanicNeedsReauth => U!PanicNeedsReauth
  BY DEF UP!PanicNeedsReauth, U!PanicNeedsReauth, UP!NoReauth, U!NoReauth
<1> QED BY <1>1, <1>2, <1>3, <1>4, ImplementsUserHub, PTL

-----------------------------------------------------------------------------
(* The device side. *)

LEMMA ConnectionIsDevices ==
    ASSUME NEW c \in Conns, DeviceConnection(c) PROVE DP!Next
<1> USE DEF DeviceStep, DeviceReadFails, D!pumps, DP!pumps, D!effects, DP!effects,
        D!process, DP!process
<1>1. DP!Connection(c)
  <2>1. CASE D!Serve(c) BY <2>1 DEF D!Serve, DP!Serve, DP!Connection
  <2>2. CASE D!StartPumps(c) BY <2>2 DEF D!StartPumps, DP!StartPumps, DP!Connection
  <2>3. CASE D!Break(c) BY <2>3 DEF D!Break, DP!Break, DP!Connection
  <2>4. CASE D!ReadFails(c) BY <2>4 DEF D!ReadFails, DP!ReadFails, DP!Connection
  <2>5. CASE D!CloseConn(c) BY <2>5 DEF D!CloseConn, DP!CloseConn, DP!Connection
  <2>6. CASE D!WritePumpTake(c) BY <2>6 DEF D!WritePumpTake, DP!WritePumpTake, DP!Connection
  <2>7. CASE D!WritePumpWrote(c)
    BY <2>7 DEF D!WritePumpWrote, DP!WritePumpWrote, DP!Connection
  <2>8. CASE D!WritePumpFails(c)
    BY <2>8 DEF D!WritePumpFails, DP!WritePumpFails, DP!Connection
  <2> QED BY <2>1, <2>2, <2>3, <2>4, <2>5, <2>6, <2>7, <2>8 DEF DeviceConnection
<1> QED BY <1>1 DEF DP!Next, DP!Run

LEMMA HubIsDevices ==
    ASSUME \/ D!HandleDeviceRegister \/ D!HandleDeviceUnregister
           \/ \E c \in Conns : D!HubTakeRegister(c) \/ D!HubTakeUnregister(c)
    PROVE  DP!Next
<1> USE DEF D!Idle, DP!Idle, D!Spawn, DP!Spawn, D!pumps, DP!pumps, D!effects, DP!effects,
        D!process, DP!process
<1>1. CASE D!HandleDeviceRegister
  BY <1>1 DEF D!HandleDeviceRegister, DP!HandleDeviceRegister, DP!Hub, DP!Run, DP!Next
<1>2. CASE D!HandleDeviceUnregister
  BY <1>2 DEF D!HandleDeviceUnregister, DP!HandleDeviceUnregister, DP!Hub, DP!Run, DP!Next
<1>3. ASSUME NEW c \in Conns, D!HubTakeRegister(c) PROVE DP!Next
  BY <1>3 DEF D!HubTakeRegister, DP!HubTakeRegister, DP!Hub, DP!Run, DP!Next
<1>4. ASSUME NEW c \in Conns, D!HubTakeUnregister(c) PROVE DP!Next
  BY <1>4 DEF D!HubTakeUnregister, DP!HubTakeUnregister, DP!Hub, DP!Run, DP!Next
<1> QED BY <1>1, <1>2, <1>3, <1>4

LEMMA SenderIsDevices ==
    ASSUME NEW c \in Clients, D!Lookup(c) \/ D!Control(c) PROVE DP!Next
<1> USE DEF D!pumps, DP!pumps, D!effects, DP!effects, D!process, DP!process
<1>1. DP!Sender(c)
  BY DEF D!Lookup, DP!Lookup, D!Control, DP!Control, DP!Sender
<1> QED BY <1>1 DEF DP!Senders, DP!Run, DP!Next

\* Every step of the two hubs is a step of DeviceHub or changes nothing of it.
LEMMA NextIsDevices == [Next]_vars => [DP!Next]_(DP!vars)
<1> SUFFICES ASSUME [Next]_vars, ~UNCHANGED deviceSide PROVE DP!Next
  BY DEF DP!vars, deviceSide
<1>1. Run
  BY DEF Next, vars
<1>2. CASE HubHandles
  BY <1>2, HubIsDevices DEF HubHandles, DeviceStep, UserStep
<1>3. ASSUME NEW c \in Conns, HubTakesDevice(c) \/ DeviceConnection(c) PROVE DP!Next
  BY <1>3, HubIsDevices, ConnectionIsDevices DEF HubTakesDevice, DeviceStep
<1>4. ASSUME NEW c \in Clients, Control(c) \/ ControlDone(c) PROVE DP!Next
  BY <1>4, SenderIsDevices DEF Control, ControlDone
<1> QED
  BY <1>1, <1>2, <1>3, <1>4
  DEF Run, TakePush, TakeEvent, DataFrame, SendToUser, HubTakesClient, UserConnection, UserStep

\* The device side of the two hubs is DeviceHub: waiting for the other side, and for room
\* in pushQueue, adds no step to it (device_client.go, hub.go:63-68, 86-106).
THEOREM ImplementsDeviceHub == Spec => DP!Spec
<1>1. Init => DP!Init
  BY DEF Init, D!Init, DP!Init, D!Idle, DP!Idle, D!None, DP!None, D!Senders, DP!Senders,
     D!Status, DP!Status
<1> QED BY <1>1, NextIsDevices, PTL DEF Spec, DP!Spec

\* Beside a user hub, too, the registry names no connection that the hub was told is
\* gone, whoever is waiting for whom (hub.go:86-106).
THEOREM RegistryCorrect == Spec => []D!NoDeadEntry
<1>1. DP!Spec => []DP!NoDeadEntry
  BY DP!RegistryCorrect, ConnAssumption, QueueAssumption, BoundAssumption
<1>2. DP!NoDeadEntry => D!NoDeadEntry
  BY DEF DP!NoDeadEntry, D!NoDeadEntry
<1> QED BY <1>1, <1>2, ImplementsDeviceHub, PTL

\* Both hubs together implement Presence.
THEOREM ImplementsPresence == Spec => DP!PresenceSpec
<1>1. DP!Spec => DP!PresenceSpec
  BY DP!ImplementsPresence, ConnAssumption, QueueAssumption, BoundAssumption
<1> QED BY <1>1, ImplementsDeviceHub, PTL
-----------------------------------------------------------------------------
(* What the two sides share. *)

Typed == D!TypeOK /\ U!TypeOK

LEMMA SidesTyped == Spec => []Typed
<1>1. UP!Spec => []UP!TypeOK
  BY UP!TypeCorrect, NamesAssumption, QueueAssumption, BoundAssumption
<1>2. DP!Spec => []DP!TypeOK
  BY DP!TypeCorrect, ConnAssumption, QueueAssumption, BoundAssumption
<1>3. UP!TypeOK => U!TypeOK /\ panicked \in BOOLEAN
  BY DEF UP!TypeOK, U!TypeOK, UP!Client, U!Client, UP!Idle, U!Idle
<1>4. DP!TypeOK /\ panicked \in BOOLEAN => D!TypeOK
  BY DEF DP!TypeOK, D!TypeOK, DP!Idle, D!Idle, DP!Senders, D!Senders, DP!Status, D!Status
<1> QED BY <1>1, <1>2, <1>3, <1>4, ImplementsUserHub, ImplementsDeviceHub, PTL DEF Typed

\* The hub takes a message of one side only when it is busy with neither.
LEMMA NextOneGoroutine == OneGoroutine /\ [Next]_vars => OneGoroutine'
<1> SUFFICES ASSUME OneGoroutine, [Next]_vars PROVE OneGoroutine'
  OBVIOUS
<1> USE DEF OneGoroutine, deviceSide, userSide
<1>1. CASE UNCHANGED vars
  BY <1>1 DEF vars
<1>2. CASE HubHandles
  BY <1>2
  DEF HubHandles, DeviceStep, UserStep, D!HandleDeviceRegister, D!HandleDeviceUnregister,
      U!HandleClientRegister, U!HandleClientUnregister, U!ClearRegistered, U!PruneUser, U!Idle
<1>3. CASE TakePush \/ TakeEvent
  BY <1>3 DEF TakePush, TakeEvent, PushToUser, HubFree, UserStep, U!PushToUser
<1>4. ASSUME NEW c \in Conns, HubTakesDevice(c) \/ DataFrame(c) \/ SendToUser(c)
      PROVE  OneGoroutine'
  BY <1>4 DEF HubTakesDevice, DataFrame, SendToUser, HubFree, DeviceStep
<1>5. ASSUME NEW c \in Conns, DeviceConnection(c) PROVE OneGoroutine'
  BY <1>5
  DEF DeviceConnection, DeviceReadFails, DeviceStep, D!ReadFails, D!Serve, D!StartPumps,
      D!Break, D!CloseConn, D!WritePumpTake, D!WritePumpWrote, D!WritePumpFails
<1>6. ASSUME NEW c \in Clients, HubTakesClient(c) PROVE OneGoroutine'
  BY <1>6 DEF HubTakesClient, HubFree, UserStep
<1>7. ASSUME NEW c \in Clients, UserConnection(c) PROVE UNCHANGED <<deviceJob, clientJob>>
  BY <1>7
  DEF UserConnection, UserStep, U!Serve, U!Break, U!Request, U!Auth, U!Adopt, U!Mark, U!Reply,
      U!ReadFails, U!CloseConn, U!WritePumpTake, U!Ping, U!WritePumpWrote, U!WritePumpEnds
<1>8. ASSUME NEW c \in Clients, Control(c) \/ ControlDone(c)
      PROVE  UNCHANGED <<deviceJob, clientJob>>
  BY <1>8 DEF Control, ControlDone, U!Control, U!ControlDone, D!Lookup, D!Control
<1> QED BY <1>1, <1>2, <1>3, <1>4, <1>5, <1>6, <1>7, <1>8 DEF Next, Run

\* No step of the user side alone begins or ends a command.
LEMMA UserStepCommands ==
    ASSUME Typed, NEW c \in Clients, UserConnection(c) \/ HubTakesClient(c)
    PROVE  \A d \in Clients : cl'[d].read = "controlling" <=> cl[d].read = "controlling"
<1>1. cl \in [Clients -> U!Client] /\ cl[c] \in U!Client
  BY DEF Typed, U!TypeOK
<1> USE <1>1 DEF UserStep, U!Client
<1>2. CASE HubTakesClient(c)
  BY <1>2 DEF HubTakesClient, U!HubTakeRegister, U!HubTakeUnregister
<1>3. CASE \/ U!Serve(c) \/ U!Break(c) \/ U!Request(c) \/ U!Adopt(c) \/ U!Mark(c)
  BY <1>3 DEF U!Serve, U!Break, U!Request, U!Adopt, U!Mark
<1>4. CASE U!Reply(c) BY <1>4 DEF U!Reply
<1>5. CASE \E u \in Users : U!Auth(c, u) BY <1>5 DEF U!Auth
<1>6. CASE U!ReadFails(c) \/ U!CloseConn(c) BY <1>6 DEF U!ReadFails, U!CloseConn
<1>7. CASE U!WritePumpTake(c) \/ U!Ping(c) BY <1>7 DEF U!WritePumpTake, U!Ping
<1>8. CASE U!WritePumpWrote(c) \/ U!WritePumpEnds(c)
  BY <1>8 DEF U!WritePumpWrote, U!WritePumpEnds
<1> QED BY <1>2, <1>3, <1>4, <1>5, <1>6, <1>7, <1>8 DEF UserConnection

LEMMA PushCommands ==
    ASSUME Typed, NEW u \in Users, PushToUser(u)
    PROVE  \A d \in Clients : cl'[d].read = "controlling" <=> cl[d].read = "controlling"
<1>1. CASE UNCHANGED cl
  BY <1>1
<1>2. ASSUME U!PushToUser(u), NEW d \in Clients PROVE cl'[d].read = cl[d].read
  <2>1. cl[d] \in U!Client
    BY DEF Typed, U!TypeOK
  <2>2. cl'[d] = cl[d] \/ cl'[d] = [cl[d] EXCEPT !.queue = @ + 1]
    BY <1>2 DEF U!PushToUser
  <2> QED BY <2>1, <2>2 DEF U!Client
<1> QED BY <1>1, <1>2 DEF PushToUser, userSide

LEMMA HandleCommands ==
    ASSUME Typed, HubHandles
    PROVE  \A d \in Clients : cl'[d].read = "controlling" <=> cl[d].read = "controlling"
BY DEF HubHandles, DeviceStep, UserStep, userSide, U!HandleClientRegister,
    U!HandleClientUnregister, U!ClearRegistered, U!PruneUser, Typed, U!TypeOK, U!Client

\* The read pump holds a device from the lookup to the end of the send.
LEMMA NextCommanding == Typed /\ Queued /\ Commanding /\ [Next]_vars => Commanding'
<1> SUFFICES ASSUME Typed, Queued, Commanding, [Next]_vars PROVE Commanding'
  OBVIOUS
<1> USE DEF Commanding
<1>1. ASSUME UNCHANGED target,
             \A d \in Clients : cl'[d].read = "controlling" <=> cl[d].read = "controlling"
      PROVE  Commanding'
  BY <1>1
<1>2. CASE UNCHANGED vars
  BY <1>1, <1>2 DEF vars, deviceSide, userSide
<1>3. CASE HubHandles
  <2>1. UNCHANGED target
    BY <1>3
    DEF HubHandles, DeviceStep, UserStep, deviceSide, D!HandleDeviceRegister,
        D!HandleDeviceUnregister
  <2> QED BY <1>1, <1>3, <2>1, HandleCommands
<1>4. CASE TakePush \/ TakeEvent
  <2>1. PICK u \in Users : PushToUser(u) /\ UNCHANGED target
    BY <1>4 DEF TakePush, TakeEvent, UserStep, deviceSide, Queued
  <2> QED BY <1>1, <2>1, PushCommands
<1>5. ASSUME NEW c \in Conns,
             HubTakesDevice(c) \/ DeviceConnection(c) \/ DataFrame(c) \/ SendToUser(c)
      PROVE  Commanding'
  <2>1. UNCHANGED <<cl, target>>
    BY <1>5
    DEF HubTakesDevice, DeviceConnection, DeviceReadFails, DataFrame, SendToUser, DeviceStep,
        deviceSide, userSide, D!HubTakeRegister, D!HubTakeUnregister, D!ReadFails, D!Serve,
        D!StartPumps, D!Break, D!CloseConn, D!WritePumpTake, D!WritePumpWrote, D!WritePumpFails
  <2> QED BY <1>1, <2>1
<1>6. ASSUME NEW c \in Clients, HubTakesClient(c) \/ UserConnection(c) PROVE Commanding'
  <2>1. UNCHANGED target
    BY <1>6 DEF HubTakesClient, UserConnection, UserStep, deviceSide
  <2> QED BY <1>1, <1>6, <2>1, UserStepCommands
<1>7. ASSUME NEW c \in Clients, Control(c) \/ ControlDone(c) PROVE Commanding'
  <2>1. cl[c] \in U!Client /\ cl \in [Clients -> U!Client]
        /\ target \in [Clients -> Conns \cup {NoConn}]
    BY DEF Typed, U!TypeOK, D!TypeOK, D!Senders
  <2>2. CASE Control(c)
    <3>1. PICK u \in UIDs : devices[u] # NoConn /\ target' = [target EXCEPT ![c] = devices[u]]
      BY <2>2 DEF Control, D!Lookup
    <3>2. cl' = [cl EXCEPT ![c].read = "controlling"]
      BY <2>2 DEF Control, U!Control
    <3>3. cl'[c].read = "controlling" /\ target'[c] # NoConn
      BY <2>1, <3>1, <3>2 DEF U!Client
    <3> QED BY <2>1, <3>1, <3>2, <3>3
  <2>3. CASE ControlDone(c)
    <3>1. target' = [target EXCEPT ![c] = NoConn] /\ cl' = [cl EXCEPT ![c].read = "reading"]
      BY <2>3 DEF ControlDone, D!Control, U!ControlDone
    <3>2. cl'[c].read = "reading" /\ target'[c] = NoConn
      BY <2>1, <3>1 DEF U!Client
    <3> QED BY <2>1, <3>1, <3>2
  <2> QED BY <1>7, <2>2, <2>3
<1> QED BY <1>1, <1>2, <1>3, <1>4, <1>5, <1>6, <1>7 DEF Next, Run

\* Every variable keeps its type, the hub serves one side at a time, and a read pump is in
\* handleBusiness exactly while it holds the device it looked up (hub.go:61-85,
\* client.go:86-110).
THEOREM TypeCorrect == Spec => []TypeOK
<1>1. Init => OneGoroutine /\ Commanding
  BY DEF Init, D!Init, U!Init, OneGoroutine, Commanding, D!Senders
<1>2. Typed /\ Queued /\ OneGoroutine /\ Commanding <=> TypeOK
  BY DEF Typed, Queued, TypeOK
<1> QED
  BY <1>1, <1>2, SidesTyped, QueueBounded, NextOneGoroutine, NextCommanding, PTL DEF Spec
=============================================================================
