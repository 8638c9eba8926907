-------------------------------- MODULE Hubs --------------------------------
(***************************************************************************)
(* The device hub and the user hub together.  They are one Hub: one        *)
(* goroutine serves the registrations of both and the two queues of        *)
(* messages to users (Hub.Run), and each side waits on the other.  A       *)
(* user's read pump that commands a device blocks on the device's send     *)
(* channel; a device's read pump that stores a frame blocks on pushQueue,  *)
(* which only the hub empties.                                             *)
(*                                                                         *)
(* Every step is a step of DeviceHub, of UserHub, of both, or of a queue.  *)
(* Events may be published by any request.  Restarts, heartbeats and the   *)
(* goroutines that write a status, which stay pending here, are DeviceHub's *)
(* and touch nothing of what is added.                                     *)
(***************************************************************************)
EXTENDS Naturals, Sequences

CONSTANTS
    Conns, UIDs, DeviceUID, NoConn,       \* as in DeviceHub
    Clients, Users, NoUser, NoClient,     \* as in UserHub
    DeviceCap,  \* capacity of a device's send channel (256)
    UserCap,    \* capacity of a user connection's (256)
    PushCap,    \* capacity of pushQueue (10000)
    MaxPending, \* bound: heartbeats wait while this many writes are pending
    MaxAuths    \* bound: valid auth messages a connection sends

ASSUME ConnAssumption == DeviceUID \in [Conns -> UIDs] /\ NoConn \notin Conns
ASSUME NamesAssumption == NoUser \notin Users /\ NoClient \notin Clients
ASSUME QueueAssumption == {DeviceCap, UserCap, PushCap} \subseteq Nat \ {0}
ASSUME BoundAssumption == {MaxPending, MaxAuths} \subseteq Nat

VARIABLES
    handler, readPump, writePump, conn, queue,
    devices, writes, notices, status, shown, target,   \* DeviceHub's
    cl, clients, keys,                                 \* UserHub's
    panicked,
    deviceJob,   \* what the hub is doing for a device connection
    clientJob,   \* what the hub is doing for a user connection
    storing,     \* connections whose read pump is in SaveDeviceData
    pushQueue    \* users in the tasks of pushQueue

D == INSTANCE DeviceHub WITH
        job <- deviceJob, SendCap <- DeviceCap, Engines <- {}, Owned <- {},
        DBFails <- FALSE, restarts <- 0, MaxRestarts <- 0

U == INSTANCE UserHub WITH job <- clientJob, SendCap <- UserCap

deviceSide == <<handler, readPump, writePump, conn, queue, deviceJob, devices,
                writes, notices, status, shown, target>>
userSide == <<cl, clients, keys, clientJob>>
queues == <<storing, pushQueue>>

vars == <<deviceSide, userSide, queues, panicked>>

HubFree == deviceJob = D!Idle /\ clientJob = U!Idle

\* One goroutine: it is never busy for both sides.
OneGoroutine == deviceJob = D!Idle \/ clientJob = U!Idle

\* A user's read pump is in handleBusiness exactly while it holds a device.
Commanding == \A c \in Clients : cl[c].read = "controlling" <=> target[c] # NoConn

TypeOK ==
    /\ D!TypeOK
    /\ U!TypeOK
    /\ storing \in SUBSET Conns
    /\ pushQueue \in Seq(Users) /\ Len(pushQueue) <= PushCap
    /\ OneGoroutine
    /\ Commanding

Init ==
    /\ D!Init
    /\ U!Init
    /\ storing = {}
    /\ pushQueue = <<>>

DeviceStep(A) == A /\ UNCHANGED <<userSide, queues>>
UserStep(A) == A /\ UNCHANGED <<deviceSide, queues>>

-----------------------------------------------------------------------------
(* What one side asks of the other. *)

\* A control message for a connected device, then the send that may block.
Control(c) ==
    /\ U!Control(c)
    /\ D!Lookup(c)
    /\ UNCHANGED queues

\* Mutant: the command is delivered only while the device is connected.
ControlWhileUp(c) ==
    /\ target[c] # NoConn
    /\ conn[target[c]] = "up"
    /\ D!Control(c)
    /\ U!ControlDone(c)
    /\ UNCHANGED queues

ControlDone(c) ==
    /\ D!Control(c)
    /\ U!ControlDone(c)
    /\ UNCHANGED queues

\* The device's read pump runs SaveDeviceData itself.  A frame that is not stored,
\* or whose device nobody owns, holds it up for no time that matters here ...
DataFrame(c) ==
    /\ readPump[c] = "reading"
    /\ conn[c] = "up"
    /\ c \notin storing
    /\ storing' = storing \cup {c}
    /\ UNCHANGED <<deviceSide, userSide, pushQueue, panicked>>

\* ... any other waits in SendToUser for room in the queue.
SendToUser(c) ==
    /\ c \in storing
    /\ Len(pushQueue) < PushCap
    /\ \E u \in Users : pushQueue' = Append(pushQueue, u)
    /\ storing' = storing \ {c}
    /\ UNCHANGED <<deviceSide, userSide, panicked>>

-----------------------------------------------------------------------------
(* Hub.Run: one case of its select at a time. *)

PushToUser(u) == U!PushToUser(u) \/ (u \notin keys /\ UNCHANGED <<userSide, panicked>>)

\* Mutant: a task stays queued while a connection of its user has no room.
TakePushWaits ==
    /\ HubFree
    /\ pushQueue # <<>>
    /\ \A c \in clients[Head(pushQueue)] : cl[c].queue < UserCap
    /\ pushQueue' = Tail(pushQueue)
    /\ PushToUser(Head(pushQueue))
    /\ UNCHANGED <<deviceSide, storing>>

TakePush ==
    /\ HubFree
    /\ pushQueue # <<>>
    /\ pushQueue' = Tail(pushQueue)
    /\ PushToUser(Head(pushQueue))
    /\ UNCHANGED <<deviceSide, storing>>

\* Every request may have published an event, and none waits for room: an event
\* for anybody may be the next in eventQueue.
TakeEvent ==
    /\ HubFree
    /\ \E u \in Users : UserStep(PushToUser(u))

\* Mutant: a second goroutine serves the devices.
HubTakesDeviceAnyway(c) ==
    DeviceStep(D!HubTakeRegister(c) \/ D!HubTakeUnregister(c))

HubTakesDevice(c) ==
    /\ HubFree
    /\ DeviceStep(D!HubTakeRegister(c) \/ D!HubTakeUnregister(c))

HubTakesClient(c) ==
    /\ HubFree
    /\ UserStep(U!HubTakeRegister(c) \/ U!HubTakeUnregister(c))

HubHandles ==
    \/ DeviceStep(D!HandleDeviceRegister \/ D!HandleDeviceUnregister)
    \/ UserStep(\/ U!HandleClientRegister \/ U!HandleClientUnregister
                \/ U!ClearRegistered \/ U!PruneUser)

-----------------------------------------------------------------------------
(* The connections. *)

\* The device's read pump cannot notice that the socket is gone while it is in
\* SaveDeviceData.
DeviceReadFails(c) ==
    /\ c \notin storing
    /\ DeviceStep(D!ReadFails(c))

DeviceConnection(c) ==
    \/ DeviceReadFails(c)
    \/ DeviceStep(\/ D!Serve(c) \/ D!StartPumps(c) \/ D!Break(c) \/ D!CloseConn(c)
                  \/ D!WritePumpTake(c) \/ D!WritePumpWrote(c) \/ D!WritePumpFails(c))

UserConnection(c) ==
    UserStep(\/ U!Serve(c) \/ U!Break(c) \/ U!Request(c)
             \/ (\E u \in Users : U!Auth(c, u)) \/ U!Adopt(c) \/ U!Mark(c) \/ U!Reply(c)
             \/ U!ReadFails(c) \/ U!CloseConn(c)
             \/ U!WritePumpTake(c) \/ U!Ping(c) \/ U!WritePumpWrote(c) \/ U!WritePumpEnds(c))

Run ==
    \/ HubHandles \/ TakePush \/ TakeEvent
    \/ \E c \in Conns : HubTakesDevice(c) \/ DeviceConnection(c) \/ DataFrame(c) \/ SendToUser(c)
    \/ \E c \in Clients : HubTakesClient(c) \/ UserConnection(c) \/ Control(c) \/ ControlDone(c)

Next == ~panicked /\ Run

Spec == Init /\ [][Next]_vars

-----------------------------------------------------------------------------
(* Liveness. *)

Up(A) == ~panicked /\ A

\* As in DeviceHub, and nothing about one side is assumed by the other: a command goes
\* through only when the device's channel has room again and again.  Of neither side
\* is it assumed that it reads: a write ends surely only when the socket is gone.
Fairness ==
    /\ WF_vars(Up(HubHandles))
    /\ SF_vars(Up(TakePush))
    /\ \A c \in Conns :
        /\ SF_vars(Up(HubTakesDevice(c)))
        /\ SF_vars(Up(SendToUser(c)))
        /\ WF_vars(Up(\/ conn[c] # "up" /\ DeviceReadFails(c)
                      \/ DeviceStep(D!StartPumps(c) \/ D!CloseConn(c))))
        /\ WF_vars(Up(DeviceStep(D!WritePumpTake(c) \/ D!WritePumpFails(c))))
    /\ \A c \in Clients :
        /\ SF_vars(Up(HubTakesClient(c)))
        /\ SF_vars(Up(ControlDone(c)))
        /\ SF_vars(Up(UserStep(U!Reply(c))))
        /\ SF_vars(Up(UserStep(U!WritePumpTake(c))))
        /\ WF_vars(Up(UserStep(cl[c].conn \in {"broken", "closed"} /\ U!WritePumpEnds(c))))
        /\ WF_vars(Up(UserStep(\/ U!Adopt(c) \/ U!Mark(c) \/ U!CloseConn(c)
                               \/ (cl[c].conn # "up" /\ U!ReadFails(c)))))

FairSpec == Spec /\ Fairness

\* The read pump waits for room in a channel nobody empties: its own, whose write pump
\* has ended or is in a write to a user who does not read, ...
Wedged(c) ==
    /\ cl[c].read = "reply"
    /\ cl[c].queue = UserCap
    /\ cl[c].write = "done" \/ (cl[c].write = "writing" /\ cl[c].conn = "silent")

\* ... or that of a device whose write pump has died or is in a write to a device that
\* sends but does not read.
DeadDevice(c) ==
    /\ cl[c].read = "controlling"
    /\ queue[target[c]] = DeviceCap
    /\ \/ writePump[target[c]] = "done"
       \/ writePump[target[c]] = "writing" /\ conn[target[c]] = "up"

\* A user's connection that is silent or gone does not stay filed, and is not pushed to
\* for ever, whatever devices it was commanding; save when its read pump waits for
\* ever on a channel nobody empties, which nothing ends (client.go:110, 161-170; the
\* writes without a deadline at client.go:36 and device_client.go:108).
GoneIsUnfiled == \A c \in Clients :
    <>[](/\ cl[c].conn # "up" /\ (\E u \in Users : c \in clients[u])
         /\ cl[c].auths <= 1 /\ ~panicked)
    => <>[]Wedged(c) \/ <>[]DeadDevice(c)

\* A device that is gone leaves the registry, though its read pump may be
\* waiting for the hub to push other frames to a user who does not read
\* (device_client.go:31-35, 88; hub.go:161-165).
BrokenLeaves == \A c \in Conns :
    []<>(panicked \/ conn[c] = "up" \/ devices[DeviceUID[c]] # c)

\* Nobody waits for ever on the hub, which serves the six cases of its select that
\* anything is sent to and waits for none of those it serves: connections of both
\* kinds that register or deregister, and frames that wait for room in pushQueue
\* (hub.go:61-85, 181).
HubServes ==
    /\ \A c \in Clients :
        []<>(panicked \/ cl[c].read \notin {"announce", "retract", "leaving"})
    /\ \A c \in Conns :
        /\ []<>(panicked \/ handler[c] # "registering")
        /\ []<>(panicked \/ c \notin storing)
=============================================================================
