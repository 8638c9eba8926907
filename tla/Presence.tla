------------------------------ MODULE Presence ------------------------------
(***************************************************************************)
(* What the device side of the hub promises, without goroutines, channels, *)
(* sockets or a database: a device is reachable through the last of its    *)
(* connections that was admitted, an older connection that goes away takes *)
(* nothing with it, and a connection that is gone is not reachable.        *)
(***************************************************************************)
CONSTANTS
    Conns,      \* one value per websocket connection a device ever opens
    UIDs,       \* the device identifiers
    DeviceUID,  \* the identifier each connection was opened with
    NoConn      \* "this device has no connection"

VARIABLES
    stage,      \* stage[c]: "new", "live" or "gone"
    current     \* current[u]: the connection device u is reachable through

vars == <<stage, current>>

Init ==
    /\ stage = [c \in Conns |-> "new"]
    /\ current = [u \in UIDs |-> NoConn]

\* The connection is admitted and becomes the device's only way to be reached.
Connect(c) ==
    /\ stage[c] = "new"
    /\ stage' = [stage EXCEPT ![c] = "live"]
    /\ current' = [current EXCEPT ![DeviceUID[c]] = c]

\* The connection goes; the device is reachable still if another replaced it.
Leave(c) ==
    /\ stage[c] = "live"
    /\ stage' = [stage EXCEPT ![c] = "gone"]
    /\ current' = [current EXCEPT ![DeviceUID[c]] = IF @ = c THEN NoConn ELSE @]

\* The process goes down: whatever had been admitted is gone, and some of the
\* connections that were waiting to be admitted never will be.
Reset ==
    /\ \E lost \in SUBSET {c \in Conns : stage[c] = "new"} :
           stage' = [c \in Conns |->
                        IF stage[c] = "new" /\ c \notin lost THEN "new" ELSE "gone"]
    /\ current' = [u \in UIDs |-> NoConn]

Next ==
    \/ \E c \in Conns : Connect(c) \/ Leave(c)
    \/ Reset

Spec == Init /\ [][Next]_vars
=============================================================================
