--------------------------- MODULE DeviceBinding ----------------------------
(***************************************************************************)
(* Who owns one device: the row of the devices table, the Redis entry that *)
(* caches its user_id for 5 minutes to 24 hours, and the requests that     *)
(* bind, unbind, rename, set a policy, query the history or push data to   *)
(* the owner.  Requests run concurrently; each database statement and each *)
(* Redis command of a request is one step, the unbinding transaction (READ *)
(* COMMITTED) is its SELECT and then its UPDATE, DELETE and COMMIT.        *)
(* Devices share nothing here, so one device stands for each of them.      *)
(***************************************************************************)
EXTENDS Naturals

CONSTANTS
    Users,       \* user identifiers
    NoUser,      \* a NULL user_id; in the cache, the value -1
    Empty,       \* no cache entry
    Requests,    \* bound: requests in progress at any one time
    CacheFails   \* whether Redis commands may fail

ASSUME NamesAssumption == NoUser \notin Users /\ Empty \notin Users \cup {NoUser}
ASSUME FailsAssumption == CacheFails \in BOOLEAN

VARIABLES
    owner,     \* the row's user_id
    name,      \* whose choice the row's device_name is, NoUser for NULL
    policies,  \* the users with a policy on the device
    cache,     \* the entry device:user:<uid>
    req,       \* req[r]: what request slot r is doing
    past,      \* every user the device was ever bound to
    served,    \* every user the device's data was given to
    stale      \* history: the entry outlived a deletion, or came too late for one

vars == <<owner, name, policies, cache, req, past, served, stale>>

Ops == {"bind", "unbind", "rename", "policy", "history", "push"}

Free == [op |-> "none", user |-> NoUser, pc |-> "free", seen |-> NoUser,
         again |-> FALSE]

Request ==
    [op : Ops, user : Users \cup {NoUser},
     pc : {"read", "fill", "decide", "select", "update", "write", "del"},
     seen : Users \cup {NoUser},
     again : BOOLEAN]   \* history: its user lost the device meanwhile

TypeOK ==
    /\ owner \in Users \cup {NoUser}
    /\ name \in Users \cup {NoUser}
    /\ policies \in SUBSET Users
    /\ cache \in Users \cup {NoUser, Empty}
    /\ req \in [Requests -> Request \cup {Free}]
    /\ past \in SUBSET Users
    /\ served \in SUBSET Users
    /\ stale \in BOOLEAN

Init ==
    /\ owner = NoUser
    /\ name = NoUser
    /\ policies = {}
    /\ cache = Empty
    /\ req = [r \in Requests |-> Free]
    /\ past = {}
    /\ served = {}
    /\ stale = FALSE

Goto(r, label) == req' = [req EXCEPT ![r].pc = label]
Finish(r) == req' = [req EXCEPT ![r] = Free]

\* A user's request, or a frame the device sends, begins with its first step.
Begin(r, op, u, label, answer) ==
    /\ req[r] = Free
    /\ req' = [req EXCEPT ![r] = [op |-> op, user |-> u, pc |-> label, seen |-> answer,
                                  again |-> FALSE]]

-----------------------------------------------------------------------------
(* GetDeviceOwner, where unbind, history and push begin. *)

GetHit(r, op, u) ==
    /\ cache # Empty
    /\ Begin(r, op, u, "decide", cache)
    /\ UNCHANGED <<owner, name, policies, cache, past, served, stale>>

GetMiss(r, op, u) ==
    /\ cache = Empty \/ CacheFails
    /\ Begin(r, op, u, "read", NoUser)
    /\ UNCHANGED <<owner, name, policies, cache, past, served, stale>>

ReadOwner(r) ==
    /\ req[r].pc = "read"
    /\ req' = [req EXCEPT ![r].pc = "fill", ![r].seen = owner]
    /\ UNCHANGED <<owner, name, policies, cache, past, served, stale>>

\* The entry is set to what was read, however long ago; an error is ignored.
Fill(r) ==
    /\ req[r].pc = "fill"
    /\ \/ cache' = req[r].seen /\ stale' = (req[r].seen # owner)
       \/ CacheFails /\ UNCHANGED <<cache, stale>>
    /\ Goto(r, "decide")
    /\ UNCHANGED <<owner, name, policies, past, served>>

-----------------------------------------------------------------------------
(* The callers of GetDeviceOwner, with its answer in seen. *)

\* GetHistory: the user's own device only.
DecideHistory(r) ==
    /\ req[r].pc = "decide" /\ req[r].op = "history"
    /\ served' = IF req[r].seen = req[r].user THEN served \cup {req[r].user} ELSE served
    /\ Finish(r)
    /\ UNCHANGED <<owner, name, policies, cache, past, stale>>

\* Mutant: the nil check on the owner is missing.
DecidePushToNobody(r) ==
    /\ req[r].pc = "decide" /\ req[r].op = "push"
    /\ served' = served \cup {req[r].seen}
    /\ Finish(r)
    /\ UNCHANGED <<owner, name, policies, cache, past, stale>>

\* SaveDeviceData: the data is pushed to whoever is the owner.
DecidePush(r) ==
    /\ req[r].pc = "decide" /\ req[r].op = "push"
    /\ served' = served \cup ({req[r].seen} \ {NoUser})
    /\ Finish(r)
    /\ UNCHANGED <<owner, name, policies, cache, past, stale>>

\* UnBindDevice goes on to the database only for the owner.
DecideUnbind(r) ==
    /\ req[r].pc = "decide" /\ req[r].op = "unbind"
    /\ IF req[r].seen = req[r].user THEN Goto(r, "select") ELSE Finish(r)
    /\ UNCHANGED <<owner, name, policies, cache, past, served, stale>>

-----------------------------------------------------------------------------
(* Statements on the row. *)

\* Mutant: the entry is not deleted after a binding, though "nobody" is cached, too.
BindKeepsCache(r, u) ==
    /\ owner = NoUser
    /\ req[r] = Free
    /\ owner' = u
    /\ name' = u
    /\ past' = past \cup {u}
    /\ UNCHANGED <<policies, cache, req, served, stale>>

\* UPDATE ... WHERE device_uid = ? AND user_id IS NULL: atomic, and when no row
\* is affected the request is refused.
BindDevice(r, u) ==
    /\ owner = NoUser
    /\ owner' = u
    /\ name' = u
    /\ past' = past \cup {u}
    /\ Begin(r, "bind", u, "del", NoUser)
    /\ UNCHANGED <<policies, cache, served, stale>>

\* Mutant: the cached owner is trusted, and the row's user not compared.
UnbindUnselected(r) ==
    /\ req[r].pc = "select"
    /\ IF owner # NoUser THEN Goto(r, "update") ELSE Finish(r)
    /\ UNCHANGED <<owner, name, policies, cache, past, served, stale>>

\* SELECT ... WHERE device_uid = ? AND user_id = ?, without a lock.
UnbindSelect(r) ==
    /\ req[r].pc = "select"
    /\ IF owner = req[r].user THEN Goto(r, "update") ELSE Finish(r)
    /\ UNCHANGED <<owner, name, policies, cache, past, served, stale>>

\* UPDATE ... WHERE device_id = ?, which does not ask for the user again;
\* DELETE of this user's policies on the device; COMMIT.
UnbindUpdate(r) ==
    /\ req[r].pc = "update"
    /\ owner' = NoUser
    /\ name' = NoUser
    /\ policies' = policies \ {req[r].user}
    /\ req' = [q \in Requests |->
          IF q = r THEN [req[q] EXCEPT !.pc = "del"]
          ELSE IF req[q].pc = "update" /\ req[q].user = owner
            THEN [req[q] EXCEPT !.again = TRUE] ELSE req[q]]
    /\ UNCHANGED <<cache, past, served, stale>>

\* Mutant: the check asks for an owner, not for this one.
CheckBound(r, op, u) ==
    /\ owner # NoUser
    /\ Begin(r, op, u, "write", NoUser)
    /\ UNCHANGED <<owner, name, policies, cache, past, served, stale>>

\* UpdateDeviceName and CreatePolicy read the row to check its owner, and
\* refuse anyone else ...
CheckOwner(r, op, u) ==
    /\ owner = u
    /\ Begin(r, op, u, "write", NoUser)
    /\ UNCHANGED <<owner, name, policies, cache, past, served, stale>>

\* ... and then update the name by device_uid alone, or insert the policy,
\* which is refused when the device has the same policy already, anybody's.
WriteName(r) ==
    /\ req[r].pc = "write" /\ req[r].op = "rename"
    /\ name' = req[r].user
    /\ Goto(r, "del")
    /\ UNCHANGED <<owner, policies, cache, past, served, stale>>

InsertPolicy(r) ==
    /\ req[r].pc = "write" /\ req[r].op = "policy"
    /\ \/ policies' = policies \cup {req[r].user}
       \/ policies # {} /\ UNCHANGED policies
    /\ Finish(r)
    /\ UNCHANGED <<owner, name, cache, past, served, stale>>

\* The cache entry is deleted after the statement; an error is ignored.
DelCache(r) ==
    /\ req[r].pc = "del"
    /\ \/ cache' = Empty /\ stale' = FALSE
       \/ CacheFails /\ UNCHANGED cache /\ stale' = (stale \/ cache \notin {Empty, owner})
    /\ Finish(r)
    /\ UNCHANGED <<owner, name, policies, past, served>>

\* DeletePolicy of a policy of u's own, whoever owns the device now.
DeletePolicy(u) ==
    /\ u \in policies
    /\ policies' = policies \ {u}
    /\ UNCHANGED <<owner, name, cache, req, past, served, stale>>

\* Mutant: an owner's entry is stored without a time to live.
ExpireUnbound ==
    /\ cache = NoUser
    /\ cache' = Empty
    /\ stale' = FALSE
    /\ UNCHANGED <<owner, name, policies, req, past, served>>

\* The entry's time to live ends.
Expire ==
    /\ cache # Empty
    /\ cache' = Empty
    /\ stale' = FALSE
    /\ UNCHANGED <<owner, name, policies, req, past, served>>

-----------------------------------------------------------------------------

Continue(r) ==
    \/ ReadOwner(r) \/ Fill(r)
    \/ DecideHistory(r) \/ DecidePush(r) \/ DecideUnbind(r)
    \/ UnbindSelect(r) \/ UnbindUpdate(r)
    \/ WriteName(r) \/ InsertPolicy(r) \/ DelCache(r)

Arrive(r, u) ==
    \/ BindDevice(r, u)
    \/ \E op \in {"unbind", "history"} : GetHit(r, op, u) \/ GetMiss(r, op, u)
    \/ \E op \in {"rename", "policy"} : CheckOwner(r, op, u)

Report(r) == GetHit(r, "push", NoUser) \/ GetMiss(r, "push", NoUser)

Next ==
    \/ \E r \in Requests : Continue(r) \/ Report(r)
    \/ \E r \in Requests, u \in Users : Arrive(r, u)
    \/ \E u \in Users : DeletePolicy(u)
    \/ Expire

Spec == Init /\ [][Next]_vars

\* Requests run to their end, and entries expire.
FairSpec == Spec /\ WF_vars(Expire) /\ \A r \in Requests : WF_vars(Continue(r))

-----------------------------------------------------------------------------

\* The cache answers as the row does, for an owner and for none, except while a request
\* that changed the row has still to delete the entry, and when that deletion failed or
\* a lookup stored what it had read before the change: no order of bindings,
\* unbindings, lookups and renamings leaves another entry (device.go:53-54, 85-88,
\* 128-137, 163-164).
CacheFollows ==
    \/ cache \in {Empty, owner}
    \/ stale
    \/ \E r \in Requests : req[r].pc = "del" /\ req[r].op \in {"bind", "unbind"}

\* Nobody is served the device's data, names it, has a policy on it or is in
\* its cache who was not its owner at some time: a stale cache, a late fill and
\* a check long before its write mistake former owners for the owner, never
\* strangers (device.go:111-139, device_data.go:53-79, device_policy.go:23-54).
OnlyOwners ==
    /\ served \cup policies \cup ({cache, name, owner} \ {NoUser, Empty}) \subseteq past
    /\ \A r \in Requests : req[r].seen # NoUser => req[r].seen \in past

\* An unbinding removes nobody's binding but its user's own, unless another
\* unbinding took the device from its user since it looked, and the device was
\* bound anew: the cache, stale or not, and the transaction's unlocked SELECT make
\* no other victim (device.go:58-83, service/device.go:31-56).
UnbindsItsOwn == [][\A r \in Requests :
    req[r].pc = "update" /\ req'[r].pc = "del"
        => owner \in {req[r].user, NoUser} \/ req[r].again]_vars

\* However stale the cache became, once the row stays as it is the cache comes
\* to agree with it, and stays so: no former owner keeps access for ever
\* (the times to live, device.go:128-137).
CacheConverges == \A u \in Users \cup {NoUser} :
    <>[](owner = u) => <>[](cache \in {Empty, u})

=============================================================================
