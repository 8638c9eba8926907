--------------------------- MODULE UserHubProofs ----------------------------
(***************************************************************************)
(* TLAPS proofs about UserHub, for any number of connections and users and *)
(* any capacity of the send channels.                                      *)
(***************************************************************************)
EXTENDS UserHub, TLAPS

\* What the read pump of every connection keeps true of its record.
Pumped == \A c \in Clients :
    /\ cl[c].registered => cl[c].isAuth
    /\ cl[c].isAuth => cl[c].auths > 0 /\ cl[c].UserID \in Users /\ cl[c].read # "none"
    /\ cl[c].read \in {"retract", "adopt", "mark"} => cl[c].auths > 0 /\ cl[c].claim \in Users
    /\ cl[c].read \notin {"retract", "adopt"} => cl[c].UserID = cl[c].claim
    /\ cl[c].read = "retract" => cl[c].auths > 1
    /\ cl[c].read = "announce" => cl[c].isAuth

\* The hub files only connections that have authenticated.
Registering == job.op = "reg" => cl[job.client].isAuth

\* A connection that authenticated once is unregistered once, at its end.
Once == \A c \in Clients : cl[c].auths <= 1 =>
    /\ cl[c].closed =>
          cl[c].read \in {"closing", "done"} /\ ~(job.op = "unreg" /\ job.client = c)
    /\ cl[c].read = "announce" => cl[c].registered
    /\ job.op = "reg" /\ job.client = c =>
          cl[c].registered /\ cl[c].read \in {"reading", "controlling", "reply", "leaving"}
    /\ job.op \in {"unreg", "clear", "prune"} /\ job.client = c =>
          cl[c].read \in {"closing", "done"}
    /\ job.op \in {"clear", "prune"} /\ job.client = c =>
          job.key = cl[c].UserID /\ \A u \in Users : c \notin clients[u]

\* The hub has an entry for whoever has a connection filed, and while it removes
\* the last one, for that one's user.
Entries == NoReauth => \A u \in Users :
    (u \in keys) <=> (clients[u] # {} \/ (job.op \in {"clear", "prune"} /\ job.key = u))

Reached == NoReauth => \A c \in Clients :
    cl[c].registered /\ cl[c].read \in {"reading", "controlling", "reply", "leaving"} =>
        \/ c \in clients[cl[c].UserID]
        \/ job.op = "reg" /\ job.client = c

Places == Pumped /\ Registering /\ Once /\ FiledAsItself /\ Entries /\ Reached /\ PanicNeedsReauth

IInv == TypeOK /\ Places

\* The hub's job, unless it is idle, is a record with all its fields.
LEMMA Job ==
    ASSUME TypeOK
    PROVE  /\ job.op \in {"reg", "unreg", "clear", "prune"} =>
                  job.client \in Clients /\ job.key \in Users \cup {NoUser} /\ job # Idle
           /\ job.op \notin {"reg", "unreg", "clear", "prune"} => job = Idle
           /\ Idle.op = "idle" /\ Idle.client = NoClient
BY DEF TypeOK, Idle

LEMMA InitIInv == Init => IInv
<1> SUFFICES ASSUME Init PROVE IInv
  OBVIOUS
<1>1. TypeOK
  <2>1. 0 \in 0..SendCap /\ 0 \in 0..MaxAuths
    BY BoundAssumption
  <2> QED BY <2>1 DEF Init, TypeOK, Client
<1>2. \A c \in Clients : /\ cl[c].read = "none" /\ cl[c].registered = FALSE
                         /\ cl[c].isAuth = FALSE /\ cl[c].UserID = NoUser
                         /\ cl[c].claim = NoUser /\ cl[c].closed = FALSE
  BY DEF Init
<1>3. job.op = "idle" /\ clients = [u \in Users |-> {}] /\ keys = {} /\ ~panicked
  BY DEF Init, Idle
<1> QED
  BY <1>1, <1>2, <1>3
  DEF IInv, Places, Pumped, Registering, Once, FiledAsItself, Entries, Reached, PanicNeedsReauth,
    NoReauth

LEMMA ServeIInv == ASSUME IInv, ~panicked, NEW c \in Clients, Serve(c) PROVE IInv'
<1>1. UNCHANGED <<clients, keys, job, panicked>>
  BY DEF Serve
<1>2. /\ cl' \in [Clients -> Client]
      /\ \A d \in Clients : d # c => cl'[d] = cl[d]
      /\ cl[c].read = "none" /\ cl'[c].read = "reading"
      /\ cl'[c].closed = cl[c].closed
      /\ cl'[c].UserID = cl[c].UserID
      /\ cl'[c].isAuth = cl[c].isAuth
      /\ cl'[c].registered = cl[c].registered
      /\ cl'[c].claim = cl[c].claim
      /\ cl'[c].auths = cl[c].auths
  <2>1. cl[c] \in Client /\ cl \in [Clients -> Client]
    BY DEF IInv, TypeOK
  <2>2. cl'[c] \in Client /\ cl' = [cl EXCEPT ![c] = cl'[c]]
    BY <2>1, BoundAssumption DEF Serve, Client
  <2> QED BY <2>1, <2>2 DEF Serve, Client
<1>3. TypeOK'
  BY <1>1, <1>2 DEF IInv, TypeOK
<1> QED
  BY <1>1, <1>2, <1>3, Job
  DEF IInv, Places, Pumped, Registering, Once, FiledAsItself, Entries, Reached, PanicNeedsReauth,
    NoReauth

LEMMA RequestIInv == ASSUME IInv, ~panicked, NEW c \in Clients, Request(c) PROVE IInv'
<1>1. UNCHANGED <<clients, keys, job, panicked>>
  BY DEF Request
<1>2. /\ cl' \in [Clients -> Client]
      /\ \A d \in Clients : d # c => cl'[d] = cl[d]
      /\ cl[c].read = "reading" /\ cl'[c].read = "reply"
      /\ cl'[c].closed = cl[c].closed
      /\ cl'[c].UserID = cl[c].UserID
      /\ cl'[c].isAuth = cl[c].isAuth
      /\ cl'[c].registered = cl[c].registered
      /\ cl'[c].claim = cl[c].claim
      /\ cl'[c].auths = cl[c].auths
  <2>1. cl[c] \in Client /\ cl \in [Clients -> Client]
    BY DEF IInv, TypeOK
  <2>2. cl'[c] \in Client /\ cl' = [cl EXCEPT ![c] = cl'[c]]
    BY <2>1, BoundAssumption DEF Request, Client
  <2> QED BY <2>1, <2>2 DEF Request, Client
<1>3. TypeOK'
  BY <1>1, <1>2 DEF IInv, TypeOK
<1> QED
  BY <1>1, <1>2, <1>3, Job
  DEF IInv, Places, Pumped, Registering, Once, FiledAsItself, Entries, Reached, PanicNeedsReauth,
    NoReauth

LEMMA ControlIInv == ASSUME IInv, ~panicked, NEW c \in Clients, Control(c) PROVE IInv'
<1>1. UNCHANGED <<clients, keys, job, panicked>>
  BY DEF Control
<1>2. /\ cl' \in [Clients -> Client]
      /\ \A d \in Clients : d # c => cl'[d] = cl[d]
      /\ cl[c].read = "reading" /\ cl'[c].read = "controlling"
      /\ cl'[c].closed = cl[c].closed
      /\ cl'[c].UserID = cl[c].UserID
      /\ cl'[c].isAuth = cl[c].isAuth
      /\ cl'[c].registered = cl[c].registered
      /\ cl'[c].claim = cl[c].claim
      /\ cl'[c].auths = cl[c].auths
  <2>1. cl[c] \in Client /\ cl \in [Clients -> Client]
    BY DEF IInv, TypeOK
  <2>2. cl'[c] \in Client /\ cl' = [cl EXCEPT ![c] = cl'[c]]
    BY <2>1, BoundAssumption DEF Control, Client
  <2> QED BY <2>1, <2>2 DEF Control, Client
<1>3. TypeOK'
  BY <1>1, <1>2 DEF IInv, TypeOK
<1> QED
  BY <1>1, <1>2, <1>3, Job
  DEF IInv, Places, Pumped, Registering, Once, FiledAsItself, Entries, Reached, PanicNeedsReauth,
    NoReauth

LEMMA ControlDoneIInv == ASSUME IInv, ~panicked, NEW c \in Clients, ControlDone(c) PROVE IInv'
<1>1. UNCHANGED <<clients, keys, job, panicked>>
  BY DEF ControlDone
<1>2. /\ cl' \in [Clients -> Client]
      /\ \A d \in Clients : d # c => cl'[d] = cl[d]
      /\ cl[c].read = "controlling" /\ cl'[c].read = "reading"
      /\ cl'[c].closed = cl[c].closed
      /\ cl'[c].UserID = cl[c].UserID
      /\ cl'[c].isAuth = cl[c].isAuth
      /\ cl'[c].registered = cl[c].registered
      /\ cl'[c].claim = cl[c].claim
      /\ cl'[c].auths = cl[c].auths
  <2>1. cl[c] \in Client /\ cl \in [Clients -> Client]
    BY DEF IInv, TypeOK
  <2>2. cl'[c] \in Client /\ cl' = [cl EXCEPT ![c] = cl'[c]]
    BY <2>1, BoundAssumption DEF ControlDone, Client
  <2> QED BY <2>1, <2>2 DEF ControlDone, Client
<1>3. TypeOK'
  BY <1>1, <1>2 DEF IInv, TypeOK
<1> QED
  BY <1>1, <1>2, <1>3, Job
  DEF IInv, Places, Pumped, Registering, Once, FiledAsItself, Entries, Reached, PanicNeedsReauth,
    NoReauth

LEMMA AuthIInv == ASSUME IInv, ~panicked, NEW c \in Clients, NEW u \in Users, Auth(c, u) PROVE IInv'
<1>1. UNCHANGED <<clients, keys, job, panicked>>
  BY DEF Auth
<1>2. /\ cl' \in [Clients -> Client]
      /\ \A d \in Clients : d # c => cl'[d] = cl[d]
      /\ cl[c].read = "reading"
      /\ cl'[c].read = IF cl[c].isAuth THEN "retract" ELSE "adopt"
      /\ cl'[c].claim = u
      /\ cl'[c].auths = cl[c].auths + 1 /\ cl[c].auths \in Nat
      /\ cl'[c].closed = cl[c].closed
      /\ cl'[c].UserID = cl[c].UserID
      /\ cl'[c].isAuth = cl[c].isAuth
      /\ cl'[c].registered = cl[c].registered
  <2>1. cl[c] \in Client /\ cl \in [Clients -> Client]
    BY DEF IInv, TypeOK
  <2>2. cl'[c] \in Client /\ cl' = [cl EXCEPT ![c] = cl'[c]]
    BY <2>1, BoundAssumption DEF Auth, Client
  <2> QED BY <2>1, <2>2 DEF Auth, Client
<1>3. TypeOK'
  BY <1>1, <1>2 DEF IInv, TypeOK
<1> QED
  BY <1>1, <1>2, <1>3, Job
  DEF IInv, Places, Pumped, Registering, Once, FiledAsItself, Entries, Reached, PanicNeedsReauth,
    NoReauth

LEMMA AdoptIInv == ASSUME IInv, ~panicked, NEW c \in Clients, Adopt(c) PROVE IInv'
<1>1. UNCHANGED <<clients, keys, job, panicked>>
  BY DEF Adopt
<1>2. /\ cl' \in [Clients -> Client]
      /\ \A d \in Clients : d # c => cl'[d] = cl[d]
      /\ cl[c].read = "adopt" /\ cl'[c].read = "mark"
      /\ cl'[c].UserID = cl[c].claim
      /\ cl'[c].closed = cl[c].closed
      /\ cl'[c].isAuth = cl[c].isAuth
      /\ cl'[c].registered = cl[c].registered
      /\ cl'[c].claim = cl[c].claim
      /\ cl'[c].auths = cl[c].auths
  <2>1. cl[c] \in Client /\ cl \in [Clients -> Client]
    BY DEF IInv, TypeOK
  <2>2. cl'[c] \in Client /\ cl' = [cl EXCEPT ![c] = cl'[c]]
    BY <2>1, BoundAssumption DEF Adopt, Client
  <2> QED BY <2>1, <2>2 DEF Adopt, Client
<1>3. TypeOK'
  BY <1>1, <1>2 DEF IInv, TypeOK
<1> QED
  BY <1>1, <1>2, <1>3, Job
  DEF IInv, Places, Pumped, Registering, Once, FiledAsItself, Entries, Reached, PanicNeedsReauth,
    NoReauth

LEMMA MarkIInv == ASSUME IInv, ~panicked, NEW c \in Clients, Mark(c) PROVE IInv'
<1>1. UNCHANGED <<clients, keys, job, panicked>>
  BY DEF Mark
<1>2. /\ cl' \in [Clients -> Client]
      /\ \A d \in Clients : d # c => cl'[d] = cl[d]
      /\ cl[c].read = "mark" /\ cl'[c].read = "announce"
      /\ cl'[c].isAuth = TRUE
      /\ cl'[c].registered = TRUE
      /\ cl'[c].closed = cl[c].closed
      /\ cl'[c].UserID = cl[c].UserID
      /\ cl'[c].claim = cl[c].claim
      /\ cl'[c].auths = cl[c].auths
  <2>1. cl[c] \in Client /\ cl \in [Clients -> Client]
    BY DEF IInv, TypeOK
  <2>2. cl'[c] \in Client /\ cl' = [cl EXCEPT ![c] = cl'[c]]
    BY <2>1, BoundAssumption DEF Mark, Client
  <2> QED BY <2>1, <2>2 DEF Mark, Client
<1>3. TypeOK'
  BY <1>1, <1>2 DEF IInv, TypeOK
<1> QED
  BY <1>1, <1>2, <1>3, Job
  DEF IInv, Places, Pumped, Registering, Once, FiledAsItself, Entries, Reached, PanicNeedsReauth,
    NoReauth

\* The channel is closed only once the connection has authenticated twice.
LEMMA ReplyIInv == ASSUME IInv, ~panicked, NEW c \in Clients, Reply(c) PROVE IInv'
<1>1. UNCHANGED <<clients, keys, job>> /\ cl[c].read = "reply"
  BY DEF Reply
<1>2. CASE cl[c].closed /\ panicked' = TRUE /\ UNCHANGED cl
  BY <1>1, <1>2
  DEF IInv, TypeOK, Places, Pumped, Registering, Once, FiledAsItself, Entries, Reached,
    PanicNeedsReauth, NoReauth
<1>3. CASE ~cl[c].closed
  <2>1. /\ cl' \in [Clients -> Client]
        /\ \A d \in Clients : d # c => cl'[d] = cl[d]
        /\ cl'[c].read = "reading"
        /\ cl'[c].closed = cl[c].closed
        /\ cl'[c].UserID = cl[c].UserID
        /\ cl'[c].isAuth = cl[c].isAuth
        /\ cl'[c].registered = cl[c].registered
        /\ cl'[c].claim = cl[c].claim
        /\ cl'[c].auths = cl[c].auths
        /\ UNCHANGED panicked
    BY <1>3, BoundAssumption DEF Reply, IInv, TypeOK, Client
  <2>2. TypeOK'
    BY <1>1, <2>1 DEF IInv, TypeOK
  <2> QED
    BY <1>1, <2>1, <2>2, Job
    DEF IInv, Places, Pumped, Registering, Once, FiledAsItself, Entries, Reached,
      PanicNeedsReauth, NoReauth
<1> QED BY <1>2, <1>3 DEF Reply

LEMMA ReadFailsIInv == ASSUME IInv, ~panicked, NEW c \in Clients, ReadFails(c) PROVE IInv'
<1>1. UNCHANGED <<clients, keys, job, panicked>>
  BY DEF ReadFails
<1>2. /\ cl' \in [Clients -> Client]
      /\ \A d \in Clients : d # c => cl'[d] = cl[d]
      /\ cl[c].read = "reading"
      /\ cl'[c].read = IF cl[c].isAuth THEN "leaving" ELSE "closing"
      /\ cl'[c].closed = cl[c].closed
      /\ cl'[c].UserID = cl[c].UserID
      /\ cl'[c].isAuth = cl[c].isAuth
      /\ cl'[c].registered = cl[c].registered
      /\ cl'[c].claim = cl[c].claim
      /\ cl'[c].auths = cl[c].auths
  <2>1. cl[c] \in Client /\ cl \in [Clients -> Client]
    BY DEF IInv, TypeOK
  <2>2. cl'[c] \in Client /\ cl' = [cl EXCEPT ![c] = cl'[c]]
    BY <2>1, BoundAssumption DEF ReadFails, Client
  <2> QED BY <2>1, <2>2 DEF ReadFails, Client
<1>3. TypeOK'
  BY <1>1, <1>2 DEF IInv, TypeOK
<1> QED
  BY <1>1, <1>2, <1>3, Job
  DEF IInv, Places, Pumped, Registering, Once, FiledAsItself, Entries, Reached, PanicNeedsReauth,
    NoReauth

LEMMA CloseConnIInv == ASSUME IInv, ~panicked, NEW c \in Clients, CloseConn(c) PROVE IInv'
<1>1. UNCHANGED <<clients, keys, job, panicked>>
  BY DEF CloseConn
<1>2. /\ cl' \in [Clients -> Client]
      /\ \A d \in Clients : d # c => cl'[d] = cl[d]
      /\ cl[c].read = "closing" /\ cl'[c].read = "done"
      /\ cl'[c].closed = cl[c].closed
      /\ cl'[c].UserID = cl[c].UserID
      /\ cl'[c].isAuth = cl[c].isAuth
      /\ cl'[c].registered = cl[c].registered
      /\ cl'[c].claim = cl[c].claim
      /\ cl'[c].auths = cl[c].auths
  <2>1. cl[c] \in Client /\ cl \in [Clients -> Client]
    BY DEF IInv, TypeOK
  <2>2. cl'[c] \in Client /\ cl' = [cl EXCEPT ![c] = cl'[c]]
    BY <2>1, BoundAssumption DEF CloseConn, Client
  <2> QED BY <2>1, <2>2 DEF CloseConn, Client
<1>3. TypeOK'
  BY <1>1, <1>2 DEF IInv, TypeOK
<1> QED
  BY <1>1, <1>2, <1>3, Job
  DEF IInv, Places, Pumped, Registering, Once, FiledAsItself, Entries, Reached, PanicNeedsReauth,
    NoReauth

LEMMA WritePumpTakeIInv == ASSUME IInv, ~panicked, NEW c \in Clients, WritePumpTake(c) PROVE IInv'
<1>1. UNCHANGED <<clients, keys, job, panicked>>
  BY DEF WritePumpTake
<1>2. /\ cl' \in [Clients -> Client]
      /\ \A d \in Clients : d # c => cl'[d] = cl[d]
      /\ cl'[c].read = cl[c].read
      /\ cl'[c].closed = cl[c].closed
      /\ cl'[c].UserID = cl[c].UserID
      /\ cl'[c].isAuth = cl[c].isAuth
      /\ cl'[c].registered = cl[c].registered
      /\ cl'[c].claim = cl[c].claim
      /\ cl'[c].auths = cl[c].auths
  <2>1. cl[c] \in Client /\ cl \in [Clients -> Client]
    BY DEF IInv, TypeOK
  <2>2. cl'[c] \in Client /\ cl' = [cl EXCEPT ![c] = cl'[c]]
    BY <2>1, BoundAssumption DEF WritePumpTake, Client
  <2> QED BY <2>1, <2>2 DEF WritePumpTake, Client
<1>3. TypeOK'
  BY <1>1, <1>2 DEF IInv, TypeOK
<1> QED
  BY <1>1, <1>2, <1>3, Job
  DEF IInv, Places, Pumped, Registering, Once, FiledAsItself, Entries, Reached, PanicNeedsReauth,
    NoReauth

LEMMA PingIInv == ASSUME IInv, ~panicked, NEW c \in Clients, Ping(c) PROVE IInv'
<1>1. UNCHANGED <<clients, keys, job, panicked>>
  BY DEF Ping
<1>2. /\ cl' \in [Clients -> Client]
      /\ \A d \in Clients : d # c => cl'[d] = cl[d]
      /\ cl'[c].read = cl[c].read
      /\ cl'[c].closed = cl[c].closed
      /\ cl'[c].UserID = cl[c].UserID
      /\ cl'[c].isAuth = cl[c].isAuth
      /\ cl'[c].registered = cl[c].registered
      /\ cl'[c].claim = cl[c].claim
      /\ cl'[c].auths = cl[c].auths
  <2>1. cl[c] \in Client /\ cl \in [Clients -> Client]
    BY DEF IInv, TypeOK
  <2>2. cl'[c] \in Client /\ cl' = [cl EXCEPT ![c] = cl'[c]]
    BY <2>1, BoundAssumption DEF Ping, Client
  <2> QED BY <2>1, <2>2 DEF Ping, Client
<1>3. TypeOK'
  BY <1>1, <1>2 DEF IInv, TypeOK
<1> QED
  BY <1>1, <1>2, <1>3, Job
  DEF IInv, Places, Pumped, Registering, Once, FiledAsItself, Entries, Reached, PanicNeedsReauth,
    NoReauth

LEMMA WritePumpWroteIInv == ASSUME IInv, ~panicked, NEW c \in Clients, WritePumpWrote(c) PROVE IInv'
<1>1. UNCHANGED <<clients, keys, job, panicked>>
  BY DEF WritePumpWrote
<1>2. /\ cl' \in [Clients -> Client]
      /\ \A d \in Clients : d # c => cl'[d] = cl[d]
      /\ cl'[c].read = cl[c].read
      /\ cl'[c].closed = cl[c].closed
      /\ cl'[c].UserID = cl[c].UserID
      /\ cl'[c].isAuth = cl[c].isAuth
      /\ cl'[c].registered = cl[c].registered
      /\ cl'[c].claim = cl[c].claim
      /\ cl'[c].auths = cl[c].auths
  <2>1. cl[c] \in Client /\ cl \in [Clients -> Client]
    BY DEF IInv, TypeOK
  <2>2. cl'[c] \in Client /\ cl' = [cl EXCEPT ![c] = cl'[c]]
    BY <2>1, BoundAssumption DEF WritePumpWrote, Client
  <2> QED BY <2>1, <2>2 DEF WritePumpWrote, Client
<1>3. TypeOK'
  BY <1>1, <1>2 DEF IInv, TypeOK
<1> QED
  BY <1>1, <1>2, <1>3, Job
  DEF IInv, Places, Pumped, Registering, Once, FiledAsItself, Entries, Reached, PanicNeedsReauth,
    NoReauth

LEMMA WritePumpEndsIInv == ASSUME IInv, ~panicked, NEW c \in Clients, WritePumpEnds(c) PROVE IInv'
<1>1. UNCHANGED <<clients, keys, job, panicked>>
  BY DEF WritePumpEnds
<1>2. /\ cl' \in [Clients -> Client]
      /\ \A d \in Clients : d # c => cl'[d] = cl[d]
      /\ cl'[c].read = cl[c].read
      /\ cl'[c].closed = cl[c].closed
      /\ cl'[c].UserID = cl[c].UserID
      /\ cl'[c].isAuth = cl[c].isAuth
      /\ cl'[c].registered = cl[c].registered
      /\ cl'[c].claim = cl[c].claim
      /\ cl'[c].auths = cl[c].auths
  <2>1. cl[c] \in Client /\ cl \in [Clients -> Client]
    BY DEF IInv, TypeOK
  <2>2. cl'[c] \in Client /\ cl' = [cl EXCEPT ![c] = cl'[c]]
    BY <2>1, BoundAssumption DEF WritePumpEnds, Client
  <2> QED BY <2>1, <2>2 DEF WritePumpEnds, Client
<1>3. TypeOK'
  BY <1>1, <1>2 DEF IInv, TypeOK
<1> QED
  BY <1>1, <1>2, <1>3, Job
  DEF IInv, Places, Pumped, Registering, Once, FiledAsItself, Entries, Reached, PanicNeedsReauth,
    NoReauth

LEMMA BreakIInv == ASSUME IInv, ~panicked, NEW c \in Clients, Break(c) PROVE IInv'
<1>1. UNCHANGED <<clients, keys, job, panicked>>
  BY DEF Break
<1>2. /\ cl' \in [Clients -> Client]
      /\ \A d \in Clients : d # c => cl'[d] = cl[d]
      /\ cl'[c].read = cl[c].read
      /\ cl'[c].closed = cl[c].closed
      /\ cl'[c].UserID = cl[c].UserID
      /\ cl'[c].isAuth = cl[c].isAuth
      /\ cl'[c].registered = cl[c].registered
      /\ cl'[c].claim = cl[c].claim
      /\ cl'[c].auths = cl[c].auths
  <2>1. cl[c] \in Client /\ cl \in [Clients -> Client]
    BY DEF IInv, TypeOK
  <2>2. cl'[c] \in Client /\ cl' = [cl EXCEPT ![c] = cl'[c]]
    BY <2>1, BoundAssumption DEF Break, Client
  <2> QED BY <2>1, <2>2 DEF Break, Client
<1>3. TypeOK'
  BY <1>1, <1>2 DEF IInv, TypeOK
<1> QED
  BY <1>1, <1>2, <1>3, Job
  DEF IInv, Places, Pumped, Registering, Once, FiledAsItself, Entries, Reached, PanicNeedsReauth,
    NoReauth

-----------------------------------------------------------------------------
(* Steps of the hub. *)

LEMMA HubTakeRegisterIInv ==
    ASSUME IInv, ~panicked, NEW c \in Clients, HubTakeRegister(c) PROVE IInv'
<1>1. /\ UNCHANGED <<clients, keys, panicked>>
      /\ job = Idle /\ job' = [op |-> "reg", client |-> c, key |-> NoUser]
  BY DEF HubTakeRegister
<1>2. /\ cl' \in [Clients -> Client]
      /\ \A d \in Clients : d # c => cl'[d] = cl[d]
      /\ cl[c].read = "announce" /\ cl'[c].read = "reply"
      /\ cl'[c].closed = cl[c].closed
      /\ cl'[c].UserID = cl[c].UserID
      /\ cl'[c].isAuth = cl[c].isAuth
      /\ cl'[c].registered = cl[c].registered
      /\ cl'[c].claim = cl[c].claim
      /\ cl'[c].auths = cl[c].auths
  BY DEF HubTakeRegister, IInv, TypeOK, Client
<1>3. TypeOK'
  BY <1>1, <1>2 DEF IInv, TypeOK
<1>4. job.op = "idle" /\ job'.op = "reg" /\ job'.client = c
  BY <1>1 DEF Idle
<1> QED
  BY <1>1, <1>2, <1>3, <1>4
  DEF IInv, Places, Pumped, Registering, Once, FiledAsItself, Entries, Reached,
    PanicNeedsReauth, NoReauth

LEMMA HubTakeUnregisterIInv ==
    ASSUME IInv, ~panicked, NEW c \in Clients, HubTakeUnregister(c) PROVE IInv'
<1>1. /\ UNCHANGED <<clients, keys, panicked>>
      /\ job = Idle /\ job' = [op |-> "unreg", client |-> c, key |-> NoUser]
  BY DEF HubTakeUnregister
<1>2. /\ cl' \in [Clients -> Client]
      /\ \A d \in Clients : d # c => cl'[d] = cl[d]
      /\ cl[c].read \in {"retract", "leaving"}
      /\ cl'[c].read = IF cl[c].read = "retract" THEN "adopt" ELSE "closing"
      /\ cl'[c].closed = cl[c].closed
      /\ cl'[c].UserID = cl[c].UserID
      /\ cl'[c].isAuth = cl[c].isAuth
      /\ cl'[c].registered = cl[c].registered
      /\ cl'[c].claim = cl[c].claim
      /\ cl'[c].auths = cl[c].auths
  BY DEF HubTakeUnregister, IInv, TypeOK, Client
<1>3. TypeOK'
  BY <1>1, <1>2 DEF IInv, TypeOK
<1>4. job.op = "idle" /\ job'.op = "unreg" /\ job'.client = c
  BY <1>1 DEF Idle
<1>5. cl[c].auths <= 1 => cl[c].read = "leaving" /\ ~cl[c].closed
  BY <1>2 DEF IInv, TypeOK, Client, Places, Pumped, Once
<1> QED
  BY <1>1, <1>2, <1>3, <1>4, <1>5
  DEF IInv, Places, Pumped, Registering, Once, FiledAsItself, Entries, Reached,
    PanicNeedsReauth, NoReauth

LEMMA HandleClientRegisterIInv == ASSUME IInv, ~panicked, HandleClientRegister PROVE IInv'
<1> DEFINE c == job.client
           u == cl[c].UserID
<1>1. /\ job.op = "reg" /\ job' = Idle /\ UNCHANGED <<cl, panicked>>
      /\ keys' = keys \cup {u} /\ clients' = [clients EXCEPT ![u] = @ \cup {c}]
  BY DEF HandleClientRegister
<1>2. c \in Clients /\ u \in Users /\ job'.op = "idle"
  BY <1>1, Job DEF IInv, Places, Pumped, Registering
<1>3. /\ clients' \in [Users -> SUBSET Clients]
      /\ clients'[u] = clients[u] \cup {c}
      /\ \A v \in Users : v # u => clients'[v] = clients[v]
  BY <1>1, <1>2 DEF IInv, TypeOK
<1> HIDE DEF c
<1>4. TypeOK'
  BY <1>1, <1>2, <1>3 DEF IInv, TypeOK
<1>5. Pumped' /\ Registering' /\ Once' /\ PanicNeedsReauth'
  BY <1>1, <1>2, <1>3
  DEF IInv, Places, Pumped, Registering, Once, PanicNeedsReauth, NoReauth
<1>6. FiledAsItself'
  BY <1>1, <1>2, <1>3 DEF c, IInv, Places, Pumped, Once, FiledAsItself
<1>7. Entries' /\ Reached'
  BY <1>1, <1>2, <1>3 DEF c, IInv, Places, Pumped, Entries, Reached, NoReauth
<1> QED BY <1>4, <1>5, <1>6, <1>7 DEF IInv, Places

\* The connection is taken out of the entry it is in, and its channel closed, which
\* was open if it authenticated once.
LEMMA HandleClientUnregisterIInv ==
    ASSUME IInv, ~panicked, HandleClientUnregister PROVE IInv'
<1> DEFINE c == job.client
           u == cl[c].UserID
<1>1. job.op = "unreg" /\ c \in Clients /\ UNCHANGED keys
  BY Job DEF HandleClientUnregister, IInv
<1>2. CASE ~cl[c].registered \/ u \notin keys
  <2>1. UNCHANGED <<cl, clients, keys, panicked>> /\ job' = Idle /\ job'.op = "idle"
    BY <1>1, <1>2, Job DEF HandleClientUnregister, IInv
  <2>2. TypeOK'
    BY <2>1 DEF IInv, TypeOK
  <2>3. \A v \in Users : cl[c].auths <= 1 => c \notin clients[v]
    BY <1>1, <1>2 DEF IInv, Places, FiledAsItself
  <2> QED
    BY <1>1, <2>1, <2>2, <2>3
    DEF IInv, Places, Pumped, Registering, Once, FiledAsItself, Entries, Reached,
      PanicNeedsReauth, NoReauth
<1>3. CASE cl[c].registered /\ u \in keys
  <2>1. /\ clients' = [clients EXCEPT ![u] = @ \ {c}]
        /\ panicked' = cl[c].closed
        /\ cl' = [cl EXCEPT ![c].closed = TRUE]
        /\ job' = [op |-> "clear", client |-> c, key |-> u]
    BY <1>3 DEF HandleClientUnregister
  <2> HIDE DEF c
  <2>2. u \in Users
    BY <1>3 DEF IInv, TypeOK
  <2>3. /\ clients' \in [Users -> SUBSET Clients]
        /\ clients'[u] = clients[u] \ {c}
        /\ \A v \in Users : v # u => clients'[v] = clients[v]
        /\ job'.op = "clear" /\ job'.client = c /\ job'.key = u
    BY <2>1, <2>2 DEF IInv, TypeOK
  <2>4. /\ cl' \in [Clients -> Client]
        /\ \A d \in Clients : d # c => cl'[d] = cl[d]
        /\ cl'[c].read = cl[c].read
        /\ cl'[c].UserID = cl[c].UserID
        /\ cl'[c].isAuth = cl[c].isAuth
        /\ cl'[c].registered = cl[c].registered
        /\ cl'[c].claim = cl[c].claim
        /\ cl'[c].auths = cl[c].auths
        /\ cl'[c].closed = TRUE
    <3>1. cl[c] \in Client /\ cl \in [Clients -> Client]
      BY <1>1 DEF IInv, TypeOK
    <3>2. cl'[c] = [cl[c] EXCEPT !.closed = TRUE] /\ cl' = [cl EXCEPT ![c] = cl'[c]]
      BY <1>1, <2>1, <3>1
    <3>3. cl'[c] \in Client
      BY <3>1, <3>2 DEF Client
    <3>4. cl' \in [Clients -> Client]
      BY <3>1, <3>2, <3>3
    <3>5. \A d \in Clients : d # c => cl'[d] = cl[d]
      BY <2>1, <3>1
    <3> QED BY <3>1, <3>2, <3>4, <3>5 DEF Client
  <2>5. TypeOK'
    <3>1. cl[c].closed \in BOOLEAN
      BY <1>1 DEF IInv, TypeOK, Client
    <3>2. job' \in [op : {"reg", "unreg", "clear", "prune"}, client : Clients,
                    key : Users \cup {NoUser}]
      BY <1>1, <2>1, <2>2
    <3> QED BY <1>1, <2>1, <2>3, <2>4, <3>1, <3>2 DEF IInv, TypeOK
  <2>6. cl[c].auths <= 1 => /\ cl[c].read \in {"closing", "done"} /\ ~cl[c].closed
                           /\ \A v \in Users : c \notin clients'[v]
    BY <1>1, <2>2, <2>3 DEF c, IInv, Places, Once, FiledAsItself
  <2>7. Pumped' /\ Registering'
    BY <1>1, <2>3, <2>4 DEF IInv, Places, Pumped, Registering
  <2>8. Once'
    BY <1>1, <2>3, <2>4, <2>6 DEF c, IInv, Places, Once, FiledAsItself
  <2>10. FiledAsItself'
    BY <1>1, <2>3, <2>4, <2>6 DEF c, IInv, Places, FiledAsItself
  <2>9. Entries' /\ Reached' /\ PanicNeedsReauth'
    BY <1>1, <1>3, <2>1, <2>2, <2>3, <2>4, <2>6
    DEF c, IInv, Places, Entries, Reached, PanicNeedsReauth, NoReauth
  <2> QED BY <2>5, <2>7, <2>8, <2>9, <2>10 DEF IInv, Places
<1> QED BY <1>2, <1>3

LEMMA ClearRegisteredIInv == ASSUME IInv, ~panicked, ClearRegistered PROVE IInv'
<1> DEFINE c == job.client
<1>1. /\ job.op = "clear" /\ c \in Clients /\ UNCHANGED <<clients, keys, panicked>>
      /\ job' = [job EXCEPT !.op = "prune"] /\ job \in [op : {"reg", "unreg", "clear", "prune"},
            client : Clients, key : Users \cup {NoUser}]
  BY Job DEF ClearRegistered, IInv, TypeOK
<1>2. job'.op = "prune" /\ job'.client = c /\ job'.key = job.key
  BY <1>1
<1>5. cl' = [cl EXCEPT ![c].registered = FALSE]
  BY DEF ClearRegistered
<1> HIDE DEF c
<1>3. /\ cl' \in [Clients -> Client]
      /\ \A d \in Clients : d # c => cl'[d] = cl[d]
      /\ cl'[c].read = cl[c].read
      /\ cl'[c].closed = cl[c].closed
      /\ cl'[c].UserID = cl[c].UserID
      /\ cl'[c].isAuth = cl[c].isAuth
      /\ cl'[c].registered = FALSE
      /\ cl'[c].claim = cl[c].claim
      /\ cl'[c].auths = cl[c].auths
  <2>1. cl[c] \in Client /\ cl \in [Clients -> Client]
    BY <1>1 DEF IInv, TypeOK
  <2>2. cl'[c] = [cl[c] EXCEPT !.registered = FALSE] /\ cl' = [cl EXCEPT ![c] = cl'[c]]
    BY <1>1, <1>5, <2>1
  <2>3. cl'[c] \in Client
    BY <2>1, <2>2 DEF Client
  <2> QED BY <1>1, <2>1, <2>2, <2>3 DEF Client
<1>4. TypeOK'
  BY <1>1, <1>3 DEF IInv, TypeOK
<1> QED
  BY <1>1, <1>2, <1>3, <1>4
  DEF c, IInv, Places, Pumped, Registering, Once, FiledAsItself, Entries, Reached,
    PanicNeedsReauth, NoReauth

\* The entry it deletes is the one it has found empty, if nobody authenticates twice.
LEMMA PruneUserIInv == ASSUME IInv, ~panicked, PruneUser PROVE IInv'
<1> DEFINE c == job.client
           u == cl[c].UserID
<1>1. /\ job.op = "prune" /\ c \in Clients /\ UNCHANGED <<cl, panicked>>
      /\ job' = Idle /\ job'.op = "idle" /\ job'.client = NoClient
  BY Job DEF PruneUser, IInv
<1>2. \/ /\ clients[job.key] = {}
         /\ keys' = keys \ {u}
         /\ clients' = [clients EXCEPT ![u] = {}]
      \/ clients[job.key] # {} /\ UNCHANGED <<keys, clients>>
  BY DEF PruneUser
<1>3. /\ clients' \in [Users -> SUBSET Clients] /\ keys' \subseteq Users
      /\ \A v \in Users \ {u} : clients'[v] = clients[v] /\ (v \in keys') = (v \in keys)
      /\ \/ u \notin keys' /\ (u \in Users => clients'[u] = {})
         \/ UNCHANGED <<keys, clients>>
  BY <1>2 DEF IInv, TypeOK
<1> HIDE DEF c
<1>4. TypeOK'
  BY <1>1, <1>3 DEF IInv, TypeOK
<1>5. Pumped' /\ Registering' /\ PanicNeedsReauth'
  BY <1>1 DEF IInv, Places, Pumped, Registering, PanicNeedsReauth, NoReauth
<1>6. Once' /\ FiledAsItself'
  BY <1>1, <1>3 DEF c, IInv, Places, Once, FiledAsItself
<1>7. NoReauth => job.key = u
  BY <1>1 DEF c, IInv, Places, Once, NoReauth
<1>8. NoReauth => \A v \in Users : clients'[v] = clients[v]
  BY <1>2, <1>3, <1>7
<1>9. Entries'
  BY <1>1, <1>2, <1>3, <1>7 DEF IInv, Places, Entries, TypeOK, NoReauth
<1>10. Reached'
  <2>1. \A d \in Clients : cl[d].registered => cl[d].UserID \in Users
    BY DEF IInv, Places, Pumped
  <2> QED BY <1>1, <1>8, <2>1 DEF IInv, Places, Reached, NoReauth
<1> QED BY <1>4, <1>5, <1>6, <1>9, <1>10 DEF IInv, Places

LEMMA PushToUserIInv ==
    ASSUME IInv, ~panicked, NEW u \in Users, PushToUser(u) PROVE IInv'
<1>1. /\ UNCHANGED <<clients, keys, job>>
      /\ panicked' = (\E c \in clients[u] : cl[c].closed)
  BY DEF PushToUser
<1>2. cl' \in [Clients -> Client]
  <2>1. \A c \in Clients : cl[c].queue < SendCap => [cl[c] EXCEPT !.queue = @ + 1] \in Client
    BY BoundAssumption DEF IInv, TypeOK, Client
  <2> QED BY <2>1 DEF PushToUser, IInv, TypeOK
<1>3. \A c \in Clients :
        /\ cl'[c].read = cl[c].read
        /\ cl'[c].closed = cl[c].closed
        /\ cl'[c].UserID = cl[c].UserID
        /\ cl'[c].isAuth = cl[c].isAuth
        /\ cl'[c].registered = cl[c].registered
        /\ cl'[c].claim = cl[c].claim
        /\ cl'[c].auths = cl[c].auths
  BY DEF PushToUser, IInv, TypeOK, Client
<1>4. TypeOK'
  BY <1>1, <1>2 DEF IInv, TypeOK
<1>5. NoReauth => ~panicked'
  BY <1>1 DEF IInv, TypeOK, Places, FiledAsItself, NoReauth
<1>6. Pumped' /\ Registering'
  BY <1>1, <1>3, Job DEF IInv, Places, Pumped, Registering
<1>7. Once' /\ FiledAsItself'
  BY <1>1, <1>3 DEF IInv, Places, Once, FiledAsItself
<1>8. Entries' /\ Reached' /\ PanicNeedsReauth'
  BY <1>1, <1>3, <1>5 DEF IInv, Places, Entries, Reached, PanicNeedsReauth, NoReauth
<1> QED BY <1>4, <1>6, <1>7, <1>8 DEF IInv, Places

LEMMA NextIInv == IInv /\ [Next]_vars => IInv'
<1> SUFFICES ASSUME IInv, [Next]_vars PROVE IInv'
  OBVIOUS
<1>1. ASSUME ~panicked, Hub PROVE IInv'
  BY <1>1, HubTakeRegisterIInv, HubTakeUnregisterIInv, HandleClientRegisterIInv,
     HandleClientUnregisterIInv, ClearRegisteredIInv, PruneUserIInv, PushToUserIInv
  DEF Hub
<1>2. ASSUME ~panicked, NEW c \in Clients, Connection(c) PROVE IInv'
  BY <1>2, ServeIInv, BreakIInv, RequestIInv, ControlIInv, ControlDoneIInv, AuthIInv,
     AdoptIInv, MarkIInv, ReplyIInv, ReadFailsIInv, CloseConnIInv, WritePumpTakeIInv,
     PingIInv, WritePumpWroteIInv, WritePumpEndsIInv
  DEF Connection
<1>3. ASSUME UNCHANGED vars PROVE IInv'
  BY <1>3
  DEF vars, IInv, TypeOK, Places, Pumped, Registering, Once, FiledAsItself, Entries, Reached,
    PanicNeedsReauth, NoReauth
<1> QED BY <1>1, <1>2, <1>3 DEF Next

-----------------------------------------------------------------------------

\* What each pump, the hub and the registry know of a connection, in every reachable
\* state.
THEOREM Inductive == Spec => []IInv
<1> QED BY InitIInv, NextIInv, PTL DEF Spec

\* Every variable keeps its type.
THEOREM TypeCorrect == Spec => []TypeOK
<1>1. IInv => TypeOK BY DEF IInv
<1> QED BY <1>1, Inductive, PTL

\* A connection that authenticated once is filed under its own user, open, and not once
\* the hub has been told that it is gone (client.go:47-62, hub.go:108-127).
THEOREM FiledUnderItself == Spec => []FiledAsItself
<1>1. IInv => FiledAsItself BY DEF IInv, Places
<1> QED BY <1>1, Inductive, PTL

\* Pushes reach every authenticated connection, and no user without one keeps an entry,
\* as long as nobody authenticates twice (hub.go:100-127).
THEOREM AuthenticatedAreFiled == Spec => []AuthenticatedIsFiled
<1>1. IInv => AuthenticatedIsFiled
  <2> SUFFICES ASSUME IInv, NoReauth
               PROVE  /\ \A c \in Clients :
                           cl[c].registered
                             /\ cl[c].read \in {"reading", "controlling", "reply", "leaving"} =>
                             \/ c \in clients[cl[c].UserID]
                             \/ job.op = "reg" /\ job.client = c
                      /\ job = Idle => keys = {u \in Users : clients[u] # {}}
    BY DEF AuthenticatedIsFiled
  <2>1. job = Idle => keys = {u \in Users : clients[u] # {}}
    BY Job DEF IInv, TypeOK, Places, Entries
  <2> QED BY <2>1 DEF IInv, Places, Reached
<1> QED BY <1>1, Inductive, PTL

\* Nobody who authenticates once can bring the server down (hub.go:108-127).
THEOREM PanicsNeedReauth == Spec => []PanicNeedsReauth
<1>1. IInv => PanicNeedsReauth BY DEF IInv, Places
<1> QED BY <1>1, Inductive, PTL
=============================================================================
