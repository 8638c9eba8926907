---------------------------- MODULE Registration ----------------------------
(***************************************************************************)
(* Registration and profile updates: the users table, whose usernames,     *)
(* phone numbers and e-mail addresses are to be unique, and the Redis      *)
(* locks under which a registration checks and inserts.  A lock is a key   *)
(* with a time to live; a registration takes three, in the random order in *)
(* which Go ranges over a map, never waits for one, and gives back with an *)
(* unconditional DEL what it has taken.  Profile updates take no lock.     *)
(* The captcha a registration begins with only decides whether it begins.  *)
(***************************************************************************)
EXTENDS Naturals

CONSTANTS
    Requests,    \* bound: the registrations; the account r creates is r
    Values,      \* what the three fields may hold
    Profiles,    \* bound: what the registrations may ask for
    Settings,    \* bound: what the updates may carry
    NoAccount,   \* the registration has created no account (yet)
    Constraint   \* whether the database itself keeps the fields unique

ASSUME ConstraintAssumption == Constraint \in BOOLEAN

Fields == {"username", "phone_number", "email"}
Keys == Fields \X Values
Profile == [Fields -> Values]

ASSUME NoAccountAssumption == NoAccount \notin Profile
ASSUME ProfilesAssumption == Profiles \subseteq Profile
ASSUME SettingsAssumption ==
    Settings \subseteq UNION {[F -> Values] : F \in SUBSET {"phone_number", "email"}}

VARIABLES
    accounts,   \* accounts[r]: the row registration r inserted
    lock,       \* the keys that exist in Redis; each holds "1"
    reg,        \* reg[r]: where registration r stands
    update,     \* update[a]: the profile update of account a in progress
    lapsed,     \* history: a lock expired before its holder was done with it
    overlap     \* history: an update ran beside another request

vars == <<accounts, lock, reg, update, lapsed, overlap>>

Idle == [pc |-> "idle"]
Attempt ==
    [pc : {"lock", "check", "insert", "release"}, want : Profile, held : SUBSET Keys]
Update == [pc : {"check", "write"}, set : Settings, changed : SUBSET Fields]

TypeOK ==
    /\ accounts \in [Requests -> Profile \cup {NoAccount}]
    /\ lock \subseteq Keys
    /\ reg \in [Requests -> Attempt \cup {Idle}]
    /\ update \in [Requests -> Update \cup {Idle}]
    /\ lapsed \in BOOLEAN
    /\ overlap \in BOOLEAN

Init ==
    /\ accounts = [r \in Requests |-> NoAccount]
    /\ lock = {}
    /\ reg = [r \in Requests |-> Idle]
    /\ update = [a \in Requests |-> Idle]
    /\ lapsed = FALSE
    /\ overlap = FALSE

Registering == \E r \in Requests : reg[r] # Idle
Updating == \E a \in Requests : update[a] # Idle

Users == {a \in Requests : accounts[a] # NoAccount}
Wanted(r) == {<<f, reg[r].want[f]>> : f \in Fields}
Taken(f, v, others) == \E a \in Users \cap others : accounts[a][f] = v

-----------------------------------------------------------------------------
(* RegisterUser. *)

Goto(r, label) == reg' = [reg EXCEPT ![r].pc = label]

\* A registration that was refused may be tried again.
Register(r, p) ==
    /\ reg[r] = Idle
    /\ accounts[r] = NoAccount
    /\ reg' = [reg EXCEPT ![r] = [pc |-> "lock", want |-> p, held |-> {}]]
    /\ overlap' = (overlap \/ Updating)
    /\ UNCHANGED <<accounts, lock, update, lapsed>>

\* SETNX of one of the keys; after the last one the registration goes on.
Acquire(r, k) ==
    /\ reg[r].pc = "lock"
    /\ k \in Wanted(r) \ reg[r].held
    /\ k \notin lock
    /\ lock' = lock \cup {k}
    /\ LET held == reg[r].held \cup {k} IN
       reg' = [reg EXCEPT ![r].held = held,
                          ![r].pc = IF held = Wanted(r) THEN "check" ELSE "lock"]
    /\ UNCHANGED <<accounts, update, lapsed, overlap>>

\* Mutant: a registration waits for a lock that is taken.
RefuseNever(r, k) ==
    /\ reg[r].pc = "lock"
    /\ k \in Wanted(r) \ reg[r].held
    /\ k \notin lock
    /\ lock' \in {lock, lock \cup {k}}
    /\ Goto(r, "release")
    /\ UNCHANGED <<accounts, update, lapsed, overlap>>

\* The key exists, or Redis does not answer, in which case it may have been set
\* all the same: the registration is refused and gives back what it holds.
Refuse(r, k) ==
    /\ reg[r].pc = "lock"
    /\ k \in Wanted(r) \ reg[r].held
    /\ lock' \in {lock, lock \cup {k}}
    /\ Goto(r, "release")
    /\ UNCHANGED <<accounts, update, lapsed, overlap>>

\* Mutant: the e-mail address is not compared.
CheckTwo(r) ==
    /\ reg[r].pc = "check"
    /\ Goto(r, IF \E f \in Fields \ {"email"} : Taken(f, reg[r].want[f], Requests)
                 THEN "release" ELSE "insert")
    /\ UNCHANGED <<accounts, lock, update, lapsed, overlap>>

\* CheckUserExists, in one SELECT.
Check(r) ==
    /\ reg[r].pc = "check"
    /\ Goto(r, IF \E f \in Fields : Taken(f, reg[r].want[f], Requests)
                 THEN "release" ELSE "insert")
    /\ UNCHANGED <<accounts, lock, update, lapsed, overlap>>

\* Mutant: the row holds no address.
InsertPartly(r) ==
    /\ reg[r].pc = "insert"
    /\ accounts' = [accounts EXCEPT ![r] = [f \in Fields \ {"email"} |-> reg[r].want[f]]]
    /\ Goto(r, "release")
    /\ UNCHANGED <<lock, update, lapsed, overlap>>

\* CreateUser.
Insert(r) ==
    /\ reg[r].pc = "insert"
    /\ Constraint => ~\E f \in Fields : Taken(f, reg[r].want[f], Requests)
    /\ accounts' = [accounts EXCEPT ![r] = reg[r].want]
    /\ Goto(r, "release")
    /\ UNCHANGED <<lock, update, lapsed, overlap>>

\* The database cannot be read, the password is too weak, or the row is refused.
Fail(r) ==
    /\ reg[r].pc \in {"check", "insert"}
    /\ Goto(r, "release")
    /\ UNCHANGED <<accounts, lock, update, lapsed, overlap>>

\* Mutant: all three keys are given back, those of other registrations included.
ReleaseAll(r) ==
    /\ reg[r].pc = "release"
    /\ lock' = lock \ Wanted(r)
    /\ reg' = [reg EXCEPT ![r] = Idle]
    /\ UNCHANGED <<accounts, update, lapsed, overlap>>

\* The keys that were taken are deleted, whoever has set them since; an error
\* is ignored.
Release(r) ==
    /\ reg[r].pc = "release"
    /\ \/ /\ reg[r].held = {}
          /\ reg' = [reg EXCEPT ![r] = Idle]
          /\ UNCHANGED lock
       \/ \E k \in reg[r].held :
          /\ reg' = [reg EXCEPT ![r].held = @ \ {k}]
          /\ lock' \in {lock, lock \ {k}}
    /\ UNCHANGED <<accounts, update, lapsed, overlap>>

\* 10 seconds after it was set.
Expire(k) ==
    /\ k \in lock
    /\ lock' = lock \ {k}
    /\ lapsed' = (lapsed \/ \E r \in Requests : reg[r] # Idle /\ k \in reg[r].held)
    /\ UNCHANGED <<accounts, reg, update, overlap>>

-----------------------------------------------------------------------------
(* UpdateProfile: phone number and e-mail address, either or both. *)

\* The present row is read; when nothing differs, the request is over.
BeginUpdate(a, set) ==
    /\ a \in Users
    /\ update[a] = Idle
    /\ LET changed == {f \in DOMAIN set : set[f] # accounts[a][f]} IN
       /\ changed # {}
       /\ update' = [update EXCEPT ![a] = [pc |-> "check", set |-> set,
                                           changed |-> changed]]
    /\ overlap' = (overlap \/ Registering \/ Updating)
    /\ UNCHANGED <<accounts, lock, reg, lapsed>>

\* Mutant: only the telephone number is compared.
CheckUpdateHalf(a) ==
    /\ update[a].pc = "check"
    /\ update' = [update EXCEPT ![a] =
          IF "phone_number" \in @.changed
               /\ Taken("phone_number", @.set["phone_number"], Requests \ {a})
            THEN Idle ELSE [@ EXCEPT !.pc = "write"]]
    /\ UNCHANGED <<accounts, lock, reg, lapsed, overlap>>

\* CheckUserExistsForUpdate: does another account have what is to change?
CheckUpdate(a) ==
    /\ update[a].pc = "check"
    /\ update' = [update EXCEPT ![a] =
          IF \E f \in @.changed : Taken(f, @.set[f], Requests \ {a})
            THEN Idle ELSE [@ EXCEPT !.pc = "write"]]
    /\ UNCHANGED <<accounts, lock, reg, lapsed, overlap>>

\* UpdateUser, with every field of the request.
WriteUpdate(a) ==
    /\ update[a].pc = "write"
    /\ LET set == update[a].set IN
       /\ Constraint => ~\E f \in DOMAIN set : Taken(f, set[f], Requests \ {a})
       /\ accounts' = [accounts EXCEPT ![a] =
             [f \in Fields |-> IF f \in DOMAIN set THEN set[f] ELSE @[f]]]
    /\ update' = [update EXCEPT ![a] = Idle]
    /\ UNCHANGED <<lock, reg, lapsed, overlap>>

\* A statement fails, or the row is refused.
FailUpdate(a) ==
    /\ update[a] # Idle
    /\ update' = [update EXCEPT ![a] = Idle]
    /\ UNCHANGED <<accounts, lock, reg, lapsed, overlap>>

-----------------------------------------------------------------------------

Continue(r) ==
    \/ \E k \in Keys : Acquire(r, k) \/ Refuse(r, k)
    \/ Check(r) \/ Insert(r) \/ Fail(r) \/ Release(r)

ContinueUpdate(a) == CheckUpdate(a) \/ WriteUpdate(a) \/ FailUpdate(a)

Next ==
    \/ \E r \in Requests, p \in Profiles : Register(r, p)
    \/ \E r \in Requests : Continue(r) \/ ContinueUpdate(r)
    \/ \E a \in Requests, set \in Settings : BeginUpdate(a, set)
    \/ \E k \in Keys : Expire(k)

Spec == Init /\ [][Next]_vars

\* Requests run to their end; no lock need expire for it.
FairSpec == Spec /\ \A r \in Requests : WF_vars(Continue(r)) /\ WF_vars(ContinueUpdate(r))

-----------------------------------------------------------------------------
(* Safety. *)

Critical(r) == reg[r].pc \in {"check", "insert"}

\* Two registrations that want the same name, number or address are not between
\* their check and their insert at once, unless a lock expired under its holder:
\* neither the refusal of one, nor its release of what it had taken, frees
\* what the other holds (user.go:81-102).
MutualExclusion == ~lapsed =>
    \A r, q \in Requests :
        r # q /\ Critical(r) /\ Critical(q) => Wanted(r) \cap Wanted(q) = {}

\* The locks alone, without the database's constraint, keep the three fields
\* unique, unless one expires under its holder or a profile is updated beside
\* another request (user.go:103-134, 232-246).
UniqueIdentities == ~lapsed /\ ~overlap =>
    \A a, b \in Users, f \in Fields : accounts[a][f] = accounts[b][f] => a = b

-----------------------------------------------------------------------------
(* Liveness. *)

\* Every registration ends without waiting for a lock to expire: three locks
\* taken in any order are no deadlock, since a taken one is a refusal
\* (user.go:87-96).
RegistrationEnds == \A r \in Requests : reg[r] # Idle ~> reg[r] = Idle
=============================================================================
