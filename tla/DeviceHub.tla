----------------------------- MODULE DeviceHub ------------------------------
(***************************************************************************)
(* The device side of the websocket hub (internal/websocket): the upgrade  *)
(* handler, the read and write pump of every device connection, the hub    *)
(* goroutine that owns the registry, the detached goroutines that record   *)
(* the device's status in the database and tell its owner, and the two     *)
(* kinds of goroutine that send a device a command.                        *)
(*                                                                         *)
(* Every goroutine is a control state per connection, every channel        *)
(* operation is a step: an unbuffered send (deviceReg, deviceUnreg) is a   *)
(* rendezvous of the sender with an idle hub, a buffered one (send) moves  *)
(* a queue length.  Messages carry nothing the properties tell apart.      *)
(***************************************************************************)
EXTENDS Naturals

CONSTANTS
    Conns,        \* the device connections the server accepts over its life
    UIDs,         \* device identifiers
    DeviceUID,    \* DeviceUID[c]: the identifier connection c was opened with
    Owned,        \* the devices that are bound to a user
    NoConn,       \* no entry in the registry, or no device looked up
    Clients,      \* user connections sending a control command (blocking send)
    Engines,      \* policy-engine goroutines sending one (non-blocking send)
    SendCap,      \* capacity of a device's send channel (256 in the code)
    DBFails,      \* whether the database may refuse a status write
    MaxPending,   \* bound: heartbeats wait while this many writes are pending
    MaxRestarts   \* bound: how often the process goes down and comes back

ASSUME ConnAssumption == DeviceUID \in [Conns -> UIDs] /\ NoConn \notin Conns
ASSUME OwnedAssumption == Owned \subseteq UIDs
ASSUME SenderAssumption == Clients \cap Engines = {}
ASSUME BoundAssumption ==
    /\ SendCap \in Nat \ {0}
    /\ DBFails \in BOOLEAN
    /\ MaxPending \in Nat
    /\ MaxRestarts \in Nat

VARIABLES
    handler,    \* handler[c]: the HTTP handler that upgraded the connection
    readPump,   \* readPump[c]: the goroutine that reads from the device
    writePump,  \* writePump[c]: the goroutine that writes to it
    conn,       \* conn[c]: the socket: up, its peer silent, broken, closed by us
    queue,      \* queue[c]: messages in the connection's send channel
    job,        \* what the hub goroutine has received and not yet handled
    devices,    \* devices[u]: the registry, Hub.devices
    writes,     \* writes[u][s]: goroutines about to write status s of u
    notices,    \* notices[u][s]: goroutines about to tell u's owner s
    status,     \* status[u]: the device_status column
    shown,      \* shown[u]: the last status u's owner was told
    target,     \* target[s]: the connection sender s has looked up
    panicked,   \* a goroutine panicked: the whole process is down
    restarts    \* how often the process has restarted

vars == <<handler, readPump, writePump, conn, queue, job, devices, writes,
          notices, status, shown, target, panicked, restarts>>

pumps == <<readPump, writePump>>
effects == <<writes, notices, status, shown>>
process == <<panicked, restarts>>

Senders == Clients \cup Engines
Status == {"online", "offline"}
None == [s \in Status |-> 0]
Idle == [op |-> "idle", conn |-> NoConn]

TypeOK ==
    /\ handler \in [Conns -> {"idle", "registering", "starting", "returned"}]
    /\ readPump \in [Conns -> {"none", "reading", "acking", "leaving", "closing", "done"}]
    /\ writePump \in [Conns -> {"none", "waiting", "writing", "done"}]
    /\ conn \in [Conns -> {"up", "silent", "broken", "closed"}]
    /\ queue \in [Conns -> 0..SendCap]
    /\ job \in [op : {"reg", "unreg"}, conn : Conns] \cup {Idle}
    /\ devices \in [UIDs -> Conns \cup {NoConn}]
    /\ writes \in [UIDs -> [Status -> Nat]]
    /\ notices \in [UIDs -> [Status -> Nat]]
    /\ status \in [UIDs -> Status]
    /\ shown \in [UIDs -> Status]
    /\ target \in [Senders -> Conns \cup {NoConn}]
    /\ panicked \in BOOLEAN
    /\ restarts \in 0..MaxRestarts

\* A fresh database: every device was created offline.
Init ==
    /\ handler = [c \in Conns |-> "idle"]
    /\ readPump = [c \in Conns |-> "none"]
    /\ writePump = [c \in Conns |-> "none"]
    /\ conn = [c \in Conns |-> "closed"]
    /\ queue = [c \in Conns |-> 0]
    /\ job = Idle
    /\ devices = [u \in UIDs |-> NoConn]
    /\ writes = [u \in UIDs |-> None]
    /\ notices = [u \in UIDs |-> None]
    /\ status = [u \in UIDs |-> "offline"]
    /\ shown = [u \in UIDs |-> "offline"]
    /\ target = [s \in Senders |-> NoConn]
    /\ panicked = FALSE
    /\ restarts = 0

-----------------------------------------------------------------------------
(* The HTTP handler of /ws/device. *)

\* Mutant: the pumps are started before the hub has been asked to register.
ServePumpsFirst(c) ==
    /\ handler[c] = "idle"
    /\ handler' = [handler EXCEPT ![c] = "registering"]
    /\ readPump' = [readPump EXCEPT ![c] = "reading"]
    /\ writePump' = [writePump EXCEPT ![c] = "waiting"]
    /\ conn' = [conn EXCEPT ![c] = "up"]
    /\ UNCHANGED <<queue, job, devices, effects, target, process>>

\* The device has authenticated and the connection is upgraded; the handler
\* blocks on the send to deviceReg.
Serve(c) ==
    /\ handler[c] = "idle"
    /\ handler' = [handler EXCEPT ![c] = "registering"]
    /\ conn' = [conn EXCEPT ![c] = "up"]
    /\ UNCHANGED <<pumps, queue, job, devices, effects, target, process>>

\* The hub receives from deviceReg.
HubTakeRegister(c) ==
    /\ handler[c] = "registering"
    /\ job = Idle
    /\ handler' = [handler EXCEPT ![c] = "starting"]
    /\ job' = [op |-> "reg", conn |-> c]
    /\ UNCHANGED <<pumps, conn, queue, devices, effects, target, process>>

\* Mutant: the write pump is forgotten.
StartReadPumpOnly(c) ==
    /\ handler[c] = "starting"
    /\ handler' = [handler EXCEPT ![c] = "returned"]
    /\ readPump' = [readPump EXCEPT ![c] = "reading"]
    /\ UNCHANGED <<writePump, conn, queue, job, devices, effects, target, process>>

\* The handler starts both pumps, which may be before the hub has handled it.
StartPumps(c) ==
    /\ handler[c] = "starting"
    /\ handler' = [handler EXCEPT ![c] = "returned"]
    /\ readPump' = [readPump EXCEPT ![c] = "reading"]
    /\ writePump' = [writePump EXCEPT ![c] = "waiting"]
    /\ UNCHANGED <<conn, queue, job, devices, effects, target, process>>

-----------------------------------------------------------------------------
(* The hub goroutine. *)

\* go UpdateDeviceStatus(uid, s) and the goroutine of notifyDeviceStatus, which
\* returns at once when nobody owns the device.
Spawn(u, s) ==
    /\ writes' = [writes EXCEPT ![u][s] = @ + 1]
    /\ notices' = IF u \in Owned THEN [notices EXCEPT ![u][s] = @ + 1] ELSE notices
    /\ UNCHANGED <<status, shown>>

HandleDeviceRegister ==
    /\ job.op = "reg"
    /\ devices' = [devices EXCEPT ![DeviceUID[job.conn]] = job.conn]
    /\ Spawn(DeviceUID[job.conn], "online")
    /\ job' = Idle
    /\ UNCHANGED <<handler, pumps, conn, queue, target, process>>

\* The hub receives from deviceUnreg, and the read pump goes on to close.
HubTakeUnregister(c) ==
    /\ readPump[c] = "leaving"
    /\ job = Idle
    /\ readPump' = [readPump EXCEPT ![c] = "closing"]
    /\ job' = [op |-> "unreg", conn |-> c]
    /\ UNCHANGED <<handler, writePump, conn, queue, devices, effects, target, process>>

\* Mutant: the entry goes whichever connection it names.
UnregisterAny ==
    /\ job.op = "unreg"
    /\ devices' = [devices EXCEPT ![DeviceUID[job.conn]] = NoConn]
    /\ Spawn(DeviceUID[job.conn], "offline")
    /\ job' = Idle
    /\ UNCHANGED <<handler, pumps, conn, queue, target, process>>

\* Mutant: the comparison with the current entry is inverted.
UnregisterReplaced ==
    /\ job.op = "unreg"
    /\ LET u == DeviceUID[job.conn] IN
       \/ /\ devices[u] # job.conn
          /\ devices' = [devices EXCEPT ![u] = NoConn]
          /\ Spawn(u, "offline")
       \/ /\ devices[u] = job.conn
          /\ UNCHANGED <<devices, effects>>
    /\ job' = Idle
    /\ UNCHANGED <<handler, pumps, conn, queue, target, process>>

\* Only the connection the registry names is removed from it; a connection
\* that another one replaced is ignored.
HandleDeviceUnregister ==
    /\ job.op = "unreg"
    /\ LET u == DeviceUID[job.conn] IN
       \/ /\ devices[u] = job.conn
          /\ devices' = [devices EXCEPT ![u] = NoConn]
          /\ Spawn(u, "offline")
       \/ /\ devices[u] # job.conn
          /\ UNCHANGED <<devices, effects>>
    /\ job' = Idle
    /\ UNCHANGED <<handler, pumps, conn, queue, target, process>>

-----------------------------------------------------------------------------
(* The read pump. *)

\* Mutant: a heartbeat is acknowledged but not recorded.
HeartbeatUnrecorded(c) ==
    /\ readPump[c] = "reading"
    /\ conn[c] = "up"
    /\ readPump' = [readPump EXCEPT ![c] = "acking"]
    /\ UNCHANGED <<handler, writePump, conn, queue, job, devices, effects, target, process>>

\* A heartbeat frame: the device is written online, and the read pump turns
\* to writing the acknowledgement itself.
Heartbeat(c) ==
    /\ readPump[c] = "reading"
    /\ conn[c] = "up"
    /\ writes[DeviceUID[c]]["online"] < MaxPending
    /\ notices[DeviceUID[c]]["online"] < MaxPending
    /\ readPump' = [readPump EXCEPT ![c] = "acking"]
    /\ Spawn(DeviceUID[c], "online")
    /\ UNCHANGED <<handler, writePump, conn, queue, job, devices, target, process>>

\* The acknowledgement is written, or fails: the code ignores the error.  No write
\* has a deadline: it may also take for ever.
AckDone(c) ==
    /\ readPump[c] = "acking"
    /\ readPump' = [readPump EXCEPT ![c] = "reading"]
    /\ UNCHANGED <<handler, writePump, conn, queue, job, devices, effects, target, process>>

\* Both pumps are inside Conn.WriteMessage, which the websocket library
\* answers with a panic when it notices ("concurrent write").
ConcurrentWrite(c) ==
    /\ readPump[c] = "acking"
    /\ writePump[c] = "writing"
    /\ panicked' = TRUE
    /\ UNCHANGED <<handler, pumps, conn, queue, job, devices, effects, target, restarts>>

\* Mutant: the deferred function closes the socket and tells the hub nothing.
ReadFailsSilently(c) ==
    /\ readPump[c] = "reading"
    /\ readPump' = [readPump EXCEPT ![c] = "closing"]
    /\ UNCHANGED <<handler, writePump, conn, queue, job, devices, effects, target, process>>

\* ReadMessage fails: the socket is gone, or no frame came within 60 seconds.
\* The deferred function blocks on the send to deviceUnreg.
ReadFails(c) ==
    /\ readPump[c] = "reading"
    /\ readPump' = [readPump EXCEPT ![c] = "leaving"]
    /\ UNCHANGED <<handler, writePump, conn, queue, job, devices, effects, target, process>>

CloseConn(c) ==
    /\ readPump[c] = "closing"
    /\ readPump' = [readPump EXCEPT ![c] = "done"]
    /\ conn' = [conn EXCEPT ![c] = "closed"]
    /\ UNCHANGED <<handler, writePump, queue, job, devices, effects, target, process>>

-----------------------------------------------------------------------------
(* The write pump.  Nothing closes the send channel, so only a failed write *)
(* ends it: when the read pump leaves, a waiting write pump stays.          *)

WritePumpTake(c) ==
    /\ writePump[c] = "waiting"
    /\ queue[c] > 0
    /\ queue' = [queue EXCEPT ![c] = @ - 1]
    /\ writePump' = [writePump EXCEPT ![c] = "writing"]
    /\ UNCHANGED <<handler, readPump, conn, job, devices, effects, target, process>>

\* The message is in the socket's buffer.  A device that does not read keeps the
\* write waiting, for ever if it goes on sending: nothing sets a write deadline.
WritePumpWrote(c) ==
    /\ writePump[c] = "writing"
    /\ conn[c] \in {"up", "silent"}
    /\ writePump' = [writePump EXCEPT ![c] = "waiting"]
    /\ UNCHANGED <<handler, readPump, conn, queue, job, devices, effects, target, process>>

WritePumpFails(c) ==
    /\ writePump[c] = "writing"
    /\ conn[c] \in {"broken", "closed"}
    /\ writePump' = [writePump EXCEPT ![c] = "done"]
    /\ conn' = [conn EXCEPT ![c] = "closed"]
    /\ UNCHANGED <<handler, readPump, queue, job, devices, effects, target, process>>

-----------------------------------------------------------------------------
(* Senders of commands: look the device up under the read lock, then send. *)

\* A control message that names neither a light nor a fan is looked up, too, but
\* sends nothing: nothing has changed when it is done with, so it is no step.
Lookup(s) ==
    /\ target[s] = NoConn
    /\ \E u \in UIDs : /\ devices[u] # NoConn
                       /\ target' = [target EXCEPT ![s] = devices[u]]
    /\ UNCHANGED <<handler, pumps, conn, queue, job, devices, effects, process>>

\* A user's control message: the send blocks while the channel is full.
Control(s) ==
    /\ target[s] # NoConn
    /\ queue[target[s]] < SendCap
    /\ queue' = [queue EXCEPT ![target[s]] = @ + 1]
    /\ target' = [target EXCEPT ![s] = NoConn]
    /\ UNCHANGED <<handler, pumps, conn, job, devices, effects, process>>

\* The policy engine's command: dropped when the channel is full.
SendToDevice(s) ==
    /\ target[s] # NoConn
    /\ queue' = [queue EXCEPT ![target[s]] = IF @ < SendCap THEN @ + 1 ELSE @]
    /\ target' = [target EXCEPT ![s] = NoConn]
    /\ UNCHANGED <<handler, pumps, conn, job, devices, effects, process>>

-----------------------------------------------------------------------------
(* The detached goroutines: in any order, their errors ignored. *)

\* Mutant: the notification's word "on" is written instead of "online".
StatusWriteOn(u, s) ==
    /\ writes[u][s] > 0
    /\ writes' = [writes EXCEPT ![u][s] = @ - 1]
    /\ status' = [status EXCEPT ![u] = IF s = "online" THEN "on" ELSE s]
    /\ UNCHANGED <<handler, pumps, conn, queue, job, devices, notices, shown,
                   target, process>>

\* UPDATE devices SET device_status = s WHERE device_uid = u
StatusWrite(u, s) ==
    /\ writes[u][s] > 0
    /\ writes' = [writes EXCEPT ![u][s] = @ - 1]
    /\ status' = [status EXCEPT ![u] = s]
    /\ UNCHANGED <<handler, pumps, conn, queue, job, devices, notices, shown,
                   target, process>>

StatusWriteFails(u, s) ==
    /\ DBFails
    /\ writes[u][s] > 0
    /\ writes' = [writes EXCEPT ![u][s] = @ - 1]
    /\ UNCHANGED <<handler, pumps, conn, queue, job, devices, notices, status, shown,
                   target, process>>

\* The owner is looked up and told through the hub's event queue.
Notify(u, s) ==
    /\ notices[u][s] > 0
    /\ notices' = [notices EXCEPT ![u][s] = @ - 1]
    /\ shown' = [shown EXCEPT ![u] = s]
    /\ UNCHANGED <<handler, pumps, conn, queue, job, devices, writes, status,
                   target, process>>

\* The lookup fails, the event queue or the user's send channel is full: the
\* event is dropped.
NotifyDropped(u, s) ==
    /\ notices[u][s] > 0
    /\ notices' = [notices EXCEPT ![u][s] = @ - 1]
    /\ UNCHANGED <<handler, pumps, conn, queue, job, devices, writes, status, shown,
                   target, process>>

-----------------------------------------------------------------------------
(* The environment. *)

\* The peer falls silent for good, so that no read succeeds any more, while a write
\* may still find room in the socket's buffer or wait; or it goes away, and whatever
\* is read or written fails.
Break(c) ==
    /\ conn[c] \in {"up", "silent"}
    /\ \E s \in {"silent", "broken"} \ {conn[c]} : conn' = [conn EXCEPT ![c] = s]
    /\ UNCHANGED <<handler, pumps, queue, job, devices, effects, target, process>>

\* The process goes down (a signal, or a panic) and starts again: everything
\* but the database and what users were told is lost, and nothing in the
\* start-up writes a status.
Restart ==
    /\ restarts < MaxRestarts
    /\ restarts' = restarts + 1
    /\ panicked' = FALSE
    /\ handler' = [c \in Conns |-> IF handler[c] = "idle" THEN "idle" ELSE "returned"]
    /\ readPump' = [c \in Conns |-> IF handler[c] = "idle" THEN "none" ELSE "done"]
    /\ writePump' = [c \in Conns |-> IF handler[c] = "idle" THEN "none" ELSE "done"]
    /\ conn' = [c \in Conns |-> "closed"]
    /\ queue' = [c \in Conns |-> 0]
    /\ job' = Idle
    /\ devices' = [u \in UIDs |-> NoConn]
    /\ writes' = [u \in UIDs |-> None]
    /\ notices' = [u \in UIDs |-> None]
    /\ target' = [s \in Senders |-> NoConn]
    /\ UNCHANGED <<status, shown>>

-----------------------------------------------------------------------------

Hub ==
    \/ HandleDeviceRegister
    \/ HandleDeviceUnregister
    \/ \E c \in Conns : HubTakeRegister(c) \/ HubTakeUnregister(c)

Connection(c) ==
    \/ Serve(c) \/ StartPumps(c) \/ Break(c)
    \/ Heartbeat(c) \/ AckDone(c) \/ ConcurrentWrite(c) \/ ReadFails(c) \/ CloseConn(c)
    \/ WritePumpTake(c) \/ WritePumpWrote(c) \/ WritePumpFails(c)

Sender(s) ==
    \/ Lookup(s)
    \/ s \in Clients /\ Control(s)
    \/ s \in Engines /\ SendToDevice(s)

Detached(u, s) ==
    \/ StatusWrite(u, s) \/ StatusWriteFails(u, s)
    \/ Notify(u, s) \/ NotifyDropped(u, s)

Run ==
    \/ Hub
    \/ \E c \in Conns : Connection(c)
    \/ \E s \in Senders : Sender(s)
    \/ \E u \in UIDs, s \in Status : Detached(u, s)

Next == (~panicked /\ Run) \/ Restart

Spec == Init /\ [][Next]_vars

-----------------------------------------------------------------------------
(* Safety. *)

\* The registry files a connection under its own identifier, and never names
\* one whose read pump has handed in its deregistration, save while the hub is
\* handling that very deregistration: a command looked up in the registry is
\* not sent to a connection the hub was already told is gone (hub.go:95-106).
NoDeadEntry ==
    \A u \in UIDs : LET c == devices[u] IN
        c # NoConn =>
            /\ DeviceUID[c] = u
            /\ readPump[c] \in {"closing", "done"} => job = [op |-> "unreg", conn |-> c]

\* What NoDeadEntry rests on: where the handler, the pumps and the hub stand
\* when a connection is waiting, being admitted, or being removed.
Unstarted == \A c \in Conns :
    handler[c] # "returned" => readPump[c] = "none" /\ writePump[c] = "none"

Unadmitted == \A c \in Conns :
    handler[c] \in {"idle", "registering"} =>
        /\ job.conn # c
        /\ \A u \in UIDs : devices[u] # c
        /\ \A s \in Senders : target[s] # c

Admitting == job.op = "reg" =>
    /\ readPump[job.conn] \notin {"closing", "done"}
    /\ \A u \in UIDs : devices[u] # job.conn

Removing == job.op = "unreg" => readPump[job.conn] \in {"closing", "done"}

IInv ==
    /\ TypeOK
    /\ NoDeadEntry
    /\ Unstarted
    /\ Unadmitted
    /\ Admitting
    /\ Removing

\* The hub as Presence sees it: a connection is live from the moment the hub
\* has filed it until the hub has handled its deregistration.
stage == [c \in Conns |->
    IF handler[c] \in {"idle", "registering"} \/ job = [op |-> "reg", conn |-> c]
      THEN "new"
    ELSE IF readPump[c] \in {"closing", "done"} /\ job # [op |-> "unreg", conn |-> c]
      THEN "gone"
    ELSE "live"]

P == INSTANCE Presence WITH current <- devices

\* The goroutines together implement Presence: the newest admitted connection
\* is the one the device is reached through, an old connection's late
\* deregistration does not take a newer one's entry, and no entry outlives its
\* connection (hub.go:86-106, device_client.go:31-35).
PresenceSpec == P!Spec

-----------------------------------------------------------------------------
(* Liveness. *)

Up(A) == ~panicked /\ A

\* Goroutines run until they block.  A read of a socket that is silent or gone fails,
\* by its deadline if by nothing else.  A write fails when the socket is gone; as long
\* as it is not, nothing says that the write ends.  Strong fairness where a goroutine
\* waits in a channel's queue while others come and go: the hub's select picks among
\* its ready cases at random, and waiting senders are served first come, first served.
\* The database and the event queue do not refuse for ever.
Fairness ==
    /\ WF_vars(Up(HandleDeviceRegister \/ HandleDeviceUnregister))
    /\ \A c \in Conns :
        /\ SF_vars(Up(HubTakeRegister(c) \/ HubTakeUnregister(c)))
        /\ WF_vars(Up(\/ StartPumps(c) \/ CloseConn(c)
                      \/ conn[c] # "up" /\ ReadFails(c)
                      \/ conn[c] \in {"broken", "closed"} /\ AckDone(c)))
        /\ WF_vars(Up(WritePumpTake(c) \/ WritePumpFails(c)))
    /\ \A s \in Clients : SF_vars(Up(Control(s)))
    /\ \A u \in UIDs, s \in Status :
        /\ WF_vars(Up(StatusWrite(u, s) \/ StatusWriteFails(u, s)))
        /\ WF_vars(Up(Notify(u, s) \/ NotifyDropped(u, s)))
    /\ \A u \in UIDs :
        /\ SF_vars(Up(StatusWrite(u, "online")))
        /\ SF_vars(Up(Notify(u, "online")))

FairSpec == Spec /\ Fairness

\* A connection whose device is silent or gone, at whatever point of the connection's
\* life, does not stay in the registry: devices are not shown, or commanded, through
\* it for ever (the deferred function of ReadPump, device_client.go:31-35); save when
\* its read pump is for ever writing an acknowledgement to a device that does not read,
\* a write that has no deadline (device_client.go:55).
BrokenLeaves == \A c \in Conns :
    <>[](conn[c] # "up" /\ devices[DeviceUID[c]] = c /\ ~panicked)
    => <>[](conn[c] = "silent" /\ readPump[c] = "acking")

\* The device's write pump is in the middle of a write, and neither is the device gone
\* nor can its read pump notice that it has fallen silent.
Unread(c) ==
    /\ writePump[c] = "writing"
    /\ conn[c] = "up" \/ (conn[c] = "silent" /\ readPump[c] = "acking")

\* A user's read pump that sends a command to a device (client.go:110) waits for ever
\* only for a write pump that has died, or for one that is for ever in one write to a
\* device that does not read (device_client.go:97-114); a device that is gone, or
\* silent, releases it.
ControlReleased == \A s \in Clients, c \in Conns :
    <>[](target[s] = c /\ ~panicked) => <>[](writePump[c] = "done") \/ <>[]Unread(c)

\* The status writes are unordered and may fail, but a device that stays
\* registered and keeps sending heartbeats is recorded online in the end, and
\* its owner told so, whatever was written before (device_client.go:50-53).
StatusHeals == \A u \in UIDs :
    ( /\ <>[](devices[u] # NoConn /\ ~panicked)
      /\ []<><<\E c \in Conns : DeviceUID[c] = u /\ Heartbeat(c)>>_vars )
    => <>[](status[u] = "online" /\ (u \in Owned => shown[u] = "online"))
=============================================================================
