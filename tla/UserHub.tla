------------------------------ MODULE UserHub -------------------------------
(***************************************************************************)
(* The user side of the websocket hub (internal/websocket): the two pumps  *)
(* of every user connection, authentication, and the hub goroutine that    *)
(* files connections by user and pushes messages to them.  The hub and the *)
(* read pump share the Client record without a lock, so each of their      *)
(* accesses to UserID and registered is a step of its own.                 *)
(***************************************************************************)
EXTENDS Naturals

CONSTANTS
    Clients,    \* the connections users open over the server's life
    Users,      \* user identifiers
    NoUser,     \* the UserID of a connection that has not authenticated (0)
    NoClient,   \* the hub is handling no connection
    SendCap,    \* capacity of a client's send channel (256 in the code)
    MaxAuths    \* bound: valid auth messages a connection sends

ASSUME NamesAssumption == NoUser \notin Users /\ NoClient \notin Clients
ASSUME BoundAssumption == SendCap \in Nat \ {0} /\ MaxAuths \in Nat

VARIABLES
    cl,        \* cl[c]: the Client record, its two pumps and its socket
    clients,   \* clients[u]: the connections filed under u (Hub.clients)
    keys,      \* the users Hub.clients has an entry for, empty or not
    job,       \* what the hub goroutine is doing
    panicked   \* a goroutine panicked: the whole process is down

vars == <<cl, clients, keys, job, panicked>>

Idle == [op |-> "idle", client |-> NoClient, key |-> NoUser]

Client ==
    [read : {"none", "reading", "controlling", "retract", "adopt", "mark",
             "announce", "reply", "leaving", "closing", "done"},
     write : {"none", "waiting", "writing", "done"},
     conn : {"up", "silent", "broken", "closed"},
     queue : 0..SendCap,
     closed : BOOLEAN,                 \* the send channel was closed
     UserID : Users \cup {NoUser},
     isAuth : BOOLEAN,
     registered : BOOLEAN,
     claim : Users \cup {NoUser},      \* the user of the token being handled
     auths : 0..MaxAuths]

TypeOK ==
    /\ cl \in [Clients -> Client]
    /\ clients \in [Users -> SUBSET Clients]
    /\ keys \in SUBSET Users
    /\ job \in [op : {"reg", "unreg", "clear", "prune"}, client : Clients,
                key : Users \cup {NoUser}] \cup {Idle}
    /\ panicked \in BOOLEAN

Init ==
    /\ cl = [c \in Clients |->
                [read |-> "none", write |-> "none", conn |-> "closed", queue |-> 0,
                 closed |-> FALSE, UserID |-> NoUser, isAuth |-> FALSE,
                 registered |-> FALSE, claim |-> NoUser, auths |-> 0]]
    /\ clients = [u \in Users |-> {}]
    /\ keys = {}
    /\ job = Idle
    /\ panicked = FALSE

-----------------------------------------------------------------------------
(* The read pump. *)

\* ServeHTTP upgrades the connection and starts both pumps.
Serve(c) ==
    /\ cl[c].read = "none"
    /\ cl' = [cl EXCEPT ![c].read = "reading", ![c].write = "waiting", ![c].conn = "up"]
    /\ UNCHANGED <<clients, keys, job, panicked>>

\* A message that is answered: a captcha, a token that is not valid, a command
\* for a device that is not connected, anything before authentication.
Request(c) ==
    /\ cl[c].read = "reading"
    /\ cl[c].conn = "up"
    /\ cl' = [cl EXCEPT ![c].read = "reply"]
    /\ UNCHANGED <<clients, keys, job, panicked>>

\* A command for a connected device: the read pump blocks on the device's send
\* channel, and answers nothing.
Control(c) ==
    /\ cl[c].read = "reading"
    /\ cl[c].conn = "up"
    /\ cl[c].isAuth
    /\ cl' = [cl EXCEPT ![c].read = "controlling"]
    /\ UNCHANGED <<clients, keys, job, panicked>>

ControlDone(c) ==
    /\ cl[c].read = "controlling"
    /\ cl' = [cl EXCEPT ![c].read = "reading"]
    /\ UNCHANGED <<clients, keys, job, panicked>>

\* A valid token for u.  A connection that is authenticated already first asks
\* the hub to unregister it.
Auth(c, u) ==
    /\ cl[c].read = "reading"
    /\ cl[c].conn = "up"
    /\ cl[c].auths < MaxAuths
    /\ cl' = [cl EXCEPT ![c].read = IF cl[c].isAuth THEN "retract" ELSE "adopt",
                        ![c].claim = u,
                        ![c].auths = @ + 1]
    /\ UNCHANGED <<clients, keys, job, panicked>>

\* handleAuth writes UserID while the hub may still be unregistering ...
Adopt(c) ==
    /\ cl[c].read = "adopt"
    /\ cl' = [cl EXCEPT ![c].read = "mark", ![c].UserID = cl[c].claim]
    /\ UNCHANGED <<clients, keys, job, panicked>>

\* ... then the two flags, and blocks on the send to register.
Mark(c) ==
    /\ cl[c].read = "mark"
    /\ cl' = [cl EXCEPT ![c].read = "announce", ![c].isAuth = TRUE,
                        ![c].registered = TRUE]
    /\ UNCHANGED <<clients, keys, job, panicked>>

\* c.send <- answer: blocks while the channel is full, panics once it is closed.
Reply(c) ==
    /\ cl[c].read = "reply"
    /\ \/ /\ cl[c].closed
          /\ panicked' = TRUE
          /\ UNCHANGED cl
       \/ /\ ~cl[c].closed
          /\ cl[c].queue < SendCap
          /\ cl' = [cl EXCEPT ![c].read = "reading", ![c].queue = @ + 1]
          /\ UNCHANGED panicked
    /\ UNCHANGED <<clients, keys, job>>

\* Mutant: the deferred function does not unregister.
ReadFailsSilently(c) ==
    /\ cl[c].read = "reading"
    /\ cl' = [cl EXCEPT ![c].read = "closing"]
    /\ UNCHANGED <<clients, keys, job, panicked>>

\* ReadMessage fails: the socket is gone, or the read deadline has passed.
\* The deferred function unregisters only an authenticated connection.
ReadFails(c) ==
    /\ cl[c].read = "reading"
    /\ cl' = [cl EXCEPT ![c].read = IF cl[c].isAuth THEN "leaving" ELSE "closing"]
    /\ UNCHANGED <<clients, keys, job, panicked>>

CloseConn(c) ==
    /\ cl[c].read = "closing"
    /\ cl' = [cl EXCEPT ![c].read = "done", ![c].conn = "closed"]
    /\ UNCHANGED <<clients, keys, job, panicked>>

-----------------------------------------------------------------------------
(* The write pump. *)

WritePumpTake(c) ==
    /\ cl[c].write = "waiting"
    /\ cl[c].queue > 0
    /\ cl' = [cl EXCEPT ![c].write = "writing", ![c].queue = @ - 1]
    /\ UNCHANGED <<clients, keys, job, panicked>>

\* Every 30 seconds, and whatever waits in the channel.
Ping(c) ==
    /\ cl[c].write = "waiting"
    /\ cl' = [cl EXCEPT ![c].write = "writing"]
    /\ UNCHANGED <<clients, keys, job, panicked>>

\* The message is in the socket's buffer.  Nothing sets a write deadline: a user who
\* does not read keeps the write waiting.
WritePumpWrote(c) ==
    /\ cl[c].write = "writing"
    /\ cl[c].conn \in {"up", "silent"}
    /\ cl' = [cl EXCEPT ![c].write = "waiting"]
    /\ UNCHANGED <<clients, keys, job, panicked>>

\* The write fails, or the channel is closed and drained.
WritePumpEnds(c) ==
    /\ \/ cl[c].write = "writing" /\ cl[c].conn \in {"broken", "closed"}
       \/ cl[c].write = "waiting" /\ cl[c].closed /\ cl[c].queue = 0
    /\ cl' = [cl EXCEPT ![c].write = "done", ![c].conn = "closed"]
    /\ UNCHANGED <<clients, keys, job, panicked>>

-----------------------------------------------------------------------------
(* The hub goroutine. *)

HubTakeRegister(c) ==
    /\ job = Idle
    /\ cl[c].read = "announce"
    /\ job' = [op |-> "reg", client |-> c, key |-> NoUser]
    /\ cl' = [cl EXCEPT ![c].read = "reply"]
    /\ UNCHANGED <<clients, keys, panicked>>

HandleClientRegister ==
    /\ job.op = "reg"
    /\ LET u == cl[job.client].UserID IN
       /\ keys' = keys \cup {u}
       /\ clients' = [clients EXCEPT ![u] = @ \cup {job.client}]
    /\ job' = Idle
    /\ UNCHANGED <<cl, panicked>>

\* From handleAuth of an authenticated connection, or from the deferred function.
HubTakeUnregister(c) ==
    /\ job = Idle
    /\ cl[c].read \in {"retract", "leaving"}
    /\ job' = [op |-> "unreg", client |-> c, key |-> NoUser]
    /\ cl' = [cl EXCEPT ![c].read = IF @ = "retract" THEN "adopt" ELSE "closing"]
    /\ UNCHANGED <<clients, keys, panicked>>

\* Mutant: the channel is closed but the connection stays filed.
UnregisterKeepsEntry ==
    /\ job.op = "unreg"
    /\ LET c == job.client
           u == cl[c].UserID
       IN \/ /\ ~cl[c].registered \/ u \notin keys
             /\ job' = Idle
             /\ UNCHANGED <<cl, panicked>>
          \/ /\ cl[c].registered /\ u \in keys
             /\ panicked' = cl[c].closed
             /\ cl' = [cl EXCEPT ![c].closed = TRUE]
             /\ job' = [op |-> "clear", client |-> c, key |-> u]
    /\ UNCHANGED <<keys, clients>>

\* handleClientUnregister up to close(client.send), under the UserID it reads.
\* Closing a closed channel panics.
HandleClientUnregister ==
    /\ job.op = "unreg"
    /\ LET c == job.client
           u == cl[c].UserID
       IN \/ /\ ~cl[c].registered \/ u \notin keys
             /\ job' = Idle
             /\ UNCHANGED <<cl, clients, panicked>>
          \/ /\ cl[c].registered /\ u \in keys
             /\ clients' = [clients EXCEPT ![u] = @ \ {c}]
             /\ panicked' = cl[c].closed
             /\ cl' = [cl EXCEPT ![c].closed = TRUE]
             /\ job' = [op |-> "clear", client |-> c, key |-> u]
    /\ UNCHANGED keys

\* client.registered = false
ClearRegistered ==
    /\ job.op = "clear"
    /\ cl' = [cl EXCEPT ![job.client].registered = FALSE]
    /\ job' = [job EXCEPT !.op = "prune"]
    /\ UNCHANGED <<clients, keys, panicked>>

\* Mutant: the entry is deleted although other connections are in it.
PruneAlways ==
    /\ job.op = "prune"
    /\ keys' = keys \ {cl[job.client].UserID}
    /\ clients' = [clients EXCEPT ![cl[job.client].UserID] = {}]
    /\ job' = Idle
    /\ UNCHANGED <<cl, panicked>>

\* When the map it removed the connection from is empty, the hub deletes the
\* entry of the UserID it reads now.
PruneUser ==
    /\ job.op = "prune"
    /\ LET u == cl[job.client].UserID IN
       \/ /\ clients[job.key] = {}
          /\ keys' = keys \ {u}
          /\ clients' = [clients EXCEPT ![u] = {}]
       \/ /\ clients[job.key] # {}
          /\ UNCHANGED <<keys, clients>>
    /\ job' = Idle
    /\ UNCHANGED <<cl, panicked>>

\* Mutant: a message is pushed into a full channel.
PushPastCapacity(u) ==
    /\ job = Idle
    /\ u \in keys
    /\ panicked' = (\E c \in clients[u] : cl[c].closed)
    /\ cl' = [c \in Clients |->
                 IF c \in clients[u] THEN [cl[c] EXCEPT !.queue = @ + 1] ELSE cl[c]]
    /\ UNCHANGED <<clients, keys, job>>

\* A message or event for u from the queues: offered to each of u's
\* connections, dropped where the channel is full.
PushToUser(u) ==
    /\ job = Idle
    /\ u \in keys
    /\ panicked' = (\E c \in clients[u] : cl[c].closed)
    /\ cl' = [c \in Clients |->
                 IF c \in clients[u] /\ cl[c].queue < SendCap
                   THEN [cl[c] EXCEPT !.queue = @ + 1] ELSE cl[c]]
    /\ UNCHANGED <<clients, keys, job>>

\* The peer falls silent for good, so that no read succeeds any more, while a write
\* may still find room in the socket's buffer or wait; or it goes away, and whatever
\* is read or written fails.
Break(c) ==
    /\ cl[c].conn \in {"up", "silent"}
    /\ \E s \in {"silent", "broken"} \ {cl[c].conn} : cl' = [cl EXCEPT ![c].conn = s]
    /\ UNCHANGED <<clients, keys, job, panicked>>

-----------------------------------------------------------------------------

Connection(c) ==
    \/ Serve(c) \/ Break(c) \/ Request(c) \/ Control(c) \/ ControlDone(c)
    \/ (\E u \in Users : Auth(c, u)) \/ Adopt(c) \/ Mark(c) \/ Reply(c)
    \/ ReadFails(c) \/ CloseConn(c)
    \/ WritePumpTake(c) \/ Ping(c) \/ WritePumpWrote(c) \/ WritePumpEnds(c)

Hub ==
    \/ HandleClientRegister \/ HandleClientUnregister \/ ClearRegistered \/ PruneUser
    \/ \E c \in Clients : HubTakeRegister(c) \/ HubTakeUnregister(c)
    \/ \E u \in Users : PushToUser(u)

Next == ~panicked /\ (Hub \/ \E c \in Clients : Connection(c))

Spec == Init /\ [][Next]_vars

-----------------------------------------------------------------------------
(* Safety. *)

NoReauth == \A c \in Clients : cl[c].auths <= 1

\* A connection that sent one token is filed under nobody but the user of that
\* token, with its flag set and its channel open, and not once the hub has been
\* told that it is gone, whatever other connections do, re-authenticating
\* included: its messages are not lost in a closed channel and no other user's
\* reach it (client.go:47-62, hub.go:108-127).
FiledAsItself ==
    \A c \in Clients, u \in Users :
        c \in clients[u] /\ cl[c].auths <= 1 =>
            /\ u \in keys
            /\ cl[c].UserID = u /\ cl[c].claim = u
            /\ cl[c].registered /\ ~cl[c].closed
            /\ cl[c].read \in {"closing", "done"} => job.op = "unreg" /\ job.client = c

\* As long as no connection authenticates twice: an authenticated connection is
\* filed from the hub's registration to its deregistration, so pushes reach it,
\* and Hub.clients keeps no entry for a user without connections.
AuthenticatedIsFiled ==
    NoReauth =>
        /\ \A c \in Clients :
            cl[c].registered /\ cl[c].read \in {"reading", "controlling", "reply", "leaving"} =>
                \/ c \in clients[cl[c].UserID]
                \/ job.op = "reg" /\ job.client = c
        /\ job = Idle => keys = {u \in Users : clients[u] # {}}

\* Only a connection that authenticates twice can bring the server down.
PanicNeedsReauth == NoReauth => ~panicked

-----------------------------------------------------------------------------
(* What the documents say and the code does not do. *)

\* README.md:378: after an auth message the connection is filed, bound to its
\* user and answered auth_success.  A second one closes the channel the answer
\* is sent on.
AuthIsAnswered == ~panicked
=============================================================================
