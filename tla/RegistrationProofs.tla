------------------------- MODULE RegistrationProofs -------------------------
(***************************************************************************)
(* TLAPS proofs about Registration, for any number of registrations and    *)
(* updates, whatever they ask for, with the database's constraint and      *)
(* without it.                                                             *)
(***************************************************************************)
EXTENDS Registration, TLAPS

\* A registration takes only keys it wants, and all of them before it checks.
Takes == \A r \in Requests : reg[r] # Idle =>
    /\ reg[r].held \subseteq Wanted(r)
    /\ Critical(r) => reg[r].held = Wanted(r)

\* What it has taken is locked, and by nobody else, as long as no lock lapses.
Guarded == ~lapsed => \A r \in Requests : reg[r] # Idle => reg[r].held \subseteq lock
Apart == ~lapsed => \A r, q \in Requests :
    r # q /\ reg[r] # Idle /\ reg[q] # Idle => reg[r].held \cap reg[q].held = {}

\* What a registration is about to insert is not taken.
Untaken == ~lapsed /\ ~overlap => \A r \in Requests :
    reg[r].pc = "insert" => \A f \in Fields : ~Taken(f, reg[r].want[f], Requests)

\* An update runs alone, ...
Alone == ~overlap => \A a \in Requests : update[a] # Idle =>
    ~Registering /\ \A b \in Requests \ {a} : update[b] = Idle

\* ... on a row that exists, with what it read from it, and once it has checked
\* what is to change, nobody else has that.
Present == \A a \in Requests : update[a] # Idle => accounts[a] \in Profile
Unclaimed == ~overlap => \A a \in Requests : update[a] # Idle =>
    /\ \A f \in DOMAIN update[a].set \ update[a].changed :
          update[a].set[f] = accounts[a][f]
    /\ update[a].pc = "write" => \A f \in update[a].changed :
          ~Taken(f, update[a].set[f], Requests \ {a})

IInv ==
    /\ TypeOK
    /\ Takes
    /\ Guarded
    /\ Apart
    /\ Untaken
    /\ Alone
    /\ Present
    /\ Unclaimed
    /\ UniqueIdentities

LEMMA InitIInv == Init => IInv
<1> SUFFICES ASSUME Init PROVE IInv
  OBVIOUS
<1>1. /\ \A r \in Requests : reg[r] = Idle /\ update[r] = Idle /\ accounts[r] = NoAccount
      /\ Idle.pc = "idle"
  BY DEF Init, Idle
<1>2. TypeOK
  BY DEF Init, TypeOK
<1> QED
  BY <1>1, <1>2
  DEF IInv, Takes, Guarded, Apart, Untaken, Alone, Present, Unclaimed, UniqueIdentities, Users

\* A request in progress is a record with all its fields.
LEMMA Going ==
    ASSUME TypeOK, NEW r \in Requests
    PROVE  /\ reg[r] # Idle => reg[r] \in Attempt
           /\ reg[r].pc \in {"lock", "check", "insert", "release"} => reg[r] # Idle
           /\ update[r] # Idle => update[r] \in Update
           /\ update[r].pc \in {"check", "write"} => update[r] # Idle
BY DEF TypeOK, Attempt, Update, Idle

LEMMA SameRows ==
    ASSUME UNCHANGED accounts
    PROVE  /\ \A f, v, others : Taken(f, v, others)' = Taken(f, v, others)
           /\ UNCHANGED <<lapsed, overlap>> /\ UniqueIdentities => UniqueIdentities'
BY DEF Taken, Users, UniqueIdentities

LEMMA RegisterIInv ==
    ASSUME IInv, NEW r \in Requests, NEW p \in Profiles, Register(r, p) PROVE IInv'
<1> DEFINE new == [pc |-> "lock", want |-> p, held |-> {}]
<1>1. /\ reg' = [reg EXCEPT ![r] = new] /\ new # Idle /\ reg[r] = Idle
      /\ UNCHANGED <<accounts, lock, update, lapsed>>
      /\ overlap' \in BOOLEAN /\ (~overlap' => ~overlap /\ ~Updating)
  BY DEF Register, Idle, IInv, TypeOK
<1>2. new \in Attempt
  BY ProfilesAssumption DEF Attempt, Keys
<1> HIDE DEF new
<1>3. TypeOK'
  BY <1>1, <1>2 DEF IInv, TypeOK
<1>4. /\ \A q \in Requests : q # r => reg'[q] = reg[q]
      /\ reg'[r].held = {} /\ reg'[r].pc = "lock"
  BY <1>1, <1>2 DEF IInv, TypeOK, new
<1>5. Takes' /\ Guarded' /\ Apart'
  BY <1>1, <1>4 DEF IInv, Takes, Guarded, Apart, Wanted, Critical
<1>6. Untaken' /\ UniqueIdentities'
  BY <1>1, <1>4, SameRows DEF IInv, Untaken, UniqueIdentities, Users
<1>7. Alone' /\ Present' /\ Unclaimed'
  BY <1>1, <1>4, SameRows DEF IInv, Alone, Present, Unclaimed, Updating
<1> QED BY <1>3, <1>5, <1>6, <1>7 DEF IInv

LEMMA AcquireIInv ==
    ASSUME IInv, NEW r \in Requests, NEW k \in Keys, Acquire(r, k) PROVE IInv'
<1> DEFINE held == reg[r].held \cup {k}
<1>1. /\ reg[r].pc = "lock" /\ k \in Wanted(r) /\ k \notin lock /\ lock' = lock \cup {k}
      /\ UNCHANGED <<accounts, update, lapsed, overlap>>
  BY DEF Acquire
<1>2. reg[r] # Idle /\ reg[r] \in Attempt
  BY <1>1, Going DEF IInv
<1>3. /\ reg' \in [Requests -> Attempt \cup {Idle}]
      /\ \A q \in Requests : q # r => reg'[q] = reg[q]
      /\ reg'[r].held = held /\ reg'[r].want = reg[r].want
      /\ reg'[r].pc = IF held = Wanted(r) THEN "check" ELSE "lock"
  BY <1>2 DEF Acquire, IInv, TypeOK, Attempt
<1>4. TypeOK'
  BY <1>1, <1>3 DEF IInv, TypeOK
<1>5. \A q \in Requests : (reg'[q] # Idle) = (reg[q] # Idle) /\ Wanted(q)' = Wanted(q)
  BY <1>2, <1>3 DEF Idle, Wanted
<1>6. Takes'
  BY <1>1, <1>2, <1>3, <1>5 DEF IInv, Takes, Critical
<1>7. Guarded' /\ Apart'
  BY <1>1, <1>2, <1>3, <1>5 DEF IInv, Guarded, Apart
<1>8. Untaken' /\ UniqueIdentities'
  BY <1>1, <1>3, SameRows DEF IInv, Untaken
<1>9. Alone' /\ Present' /\ Unclaimed'
  BY <1>1, <1>3, <1>5, SameRows DEF IInv, Alone, Present, Unclaimed, Registering
<1> QED BY <1>4, <1>6, <1>7, <1>8, <1>9 DEF IInv

\* A registration that goes on without touching the table.
LEMMA MoveIInv ==
    ASSUME IInv, NEW r \in Requests, NEW label \in {"insert", "release"}, Goto(r, label),
           reg[r].pc \in {"lock", "check", "insert"},
           label = "insert" => /\ reg[r].pc = "check"
                               /\ \A f \in Fields : ~Taken(f, reg[r].want[f], Requests),
           lock \subseteq lock', lock' \subseteq Keys,
           UNCHANGED <<accounts, update, lapsed, overlap>>
    PROVE  IInv'
<1>1. reg[r] # Idle /\ reg[r] \in Attempt
  BY Going DEF IInv
<1>2. /\ reg' \in [Requests -> Attempt \cup {Idle}]
      /\ \A q \in Requests : q # r => reg'[q] = reg[q]
      /\ reg'[r].held = reg[r].held /\ reg'[r].want = reg[r].want /\ reg'[r].pc = label
  BY <1>1 DEF Goto, IInv, TypeOK, Attempt
<1>3. TypeOK'
  BY <1>2 DEF IInv, TypeOK
<1>4. \A q \in Requests : (reg'[q] # Idle) = (reg[q] # Idle) /\ Wanted(q)' = Wanted(q)
  BY <1>1, <1>2 DEF Idle, Wanted
<1>5. Takes' /\ Guarded' /\ Apart'
  BY <1>1, <1>2, <1>4 DEF IInv, Takes, Guarded, Apart, Critical
<1>6. Untaken' /\ UniqueIdentities'
  BY <1>2, SameRows DEF IInv, Untaken
<1>7. Alone' /\ Present' /\ Unclaimed'
  BY <1>2, <1>4, SameRows DEF IInv, Alone, Present, Unclaimed, Registering
<1> QED BY <1>3, <1>5, <1>6, <1>7 DEF IInv

LEMMA RefuseIInv ==
    ASSUME IInv, NEW r \in Requests, NEW k \in Keys, Refuse(r, k) PROVE IInv'
<1>1. lock \subseteq lock' /\ lock' \subseteq Keys
  BY DEF Refuse, IInv, TypeOK
<1> QED BY <1>1, MoveIInv DEF Refuse

LEMMA CheckIInv == ASSUME IInv, NEW r \in Requests, Check(r) PROVE IInv'
<1>1. UNCHANGED lock /\ lock \subseteq Keys
  BY DEF Check, IInv, TypeOK
<1>2. CASE \E f \in Fields : Taken(f, reg[r].want[f], Requests)
  BY <1>1, <1>2, MoveIInv DEF Check
<1>3. CASE ~\E f \in Fields : Taken(f, reg[r].want[f], Requests)
  BY <1>1, <1>3, MoveIInv DEF Check
<1> QED BY <1>2, <1>3

LEMMA FailIInv == ASSUME IInv, NEW r \in Requests, Fail(r) PROVE IInv'
<1>1. UNCHANGED lock /\ lock \subseteq Keys
  BY DEF Fail, IInv, TypeOK
<1> QED BY <1>1, MoveIInv DEF Fail

\* The row is new in each of its fields, and whoever else is about to insert wants
\* none of them.
LEMMA InsertIInv == ASSUME IInv, NEW r \in Requests, Insert(r) PROVE IInv'
<1>1. /\ reg[r].pc = "insert"
      /\ accounts' = [accounts EXCEPT ![r] = reg[r].want]
      /\ UNCHANGED <<lock, update, lapsed, overlap>>
  BY DEF Insert
<1>2. reg[r] # Idle /\ reg[r] \in Attempt /\ reg[r].want \in Profile
  BY <1>1, Going DEF IInv, Attempt
<1>3. /\ reg' \in [Requests -> Attempt \cup {Idle}]
      /\ \A q \in Requests : q # r => reg'[q] = reg[q]
      /\ reg'[r].held = reg[r].held /\ reg'[r].want = reg[r].want /\ reg'[r].pc = "release"
  BY <1>2 DEF Insert, Goto, IInv, TypeOK, Attempt
<1>4. TypeOK'
  BY <1>1, <1>2, <1>3 DEF IInv, TypeOK
<1>5. \A q \in Requests : (reg'[q] # Idle) = (reg[q] # Idle) /\ Wanted(q)' = Wanted(q)
  BY <1>2, <1>3 DEF Idle, Wanted
<1>6. Takes' /\ Guarded' /\ Apart'
  BY <1>1, <1>2, <1>3, <1>5 DEF IInv, Takes, Guarded, Apart, Critical
<1>7. /\ accounts'[r] = reg[r].want
      /\ \A a \in Requests : a # r => accounts'[a] = accounts[a]
  BY <1>1 DEF IInv, TypeOK
<1>8. Untaken'
  <2> SUFFICES ASSUME ~lapsed, ~overlap, NEW q \in Requests, reg'[q].pc = "insert",
                      NEW f \in Fields, NEW a \in Requests,
                      accounts'[a] # NoAccount, accounts'[a][f] = reg'[q].want[f]
               PROVE  FALSE
    BY <1>1 DEF Untaken, Taken, Users
  <2>1. q # r /\ reg[q].pc = "insert" /\ reg'[q] = reg[q]
    BY <1>3
  <2>2. CASE a = r
    <3>1. reg[q] # Idle
      BY <2>1, Going DEF IInv
    <3>2. <<f, reg[r].want[f]>> \in Wanted(r) \cap Wanted(q)
      BY <1>7, <2>1, <2>2 DEF Wanted
    <3>3. reg[r].held = Wanted(r) /\ reg[q].held = Wanted(q)
      BY <1>1, <1>2, <2>1, <3>1 DEF IInv, Takes, Critical
    <3> QED BY <1>2, <2>1, <3>1, <3>2, <3>3 DEF IInv, Apart
  <2>3. CASE a # r
    BY <1>7, <2>1, <2>3 DEF IInv, Untaken, Taken, Users
  <2> QED BY <2>2, <2>3
<1>9. UniqueIdentities'
  <2> SUFFICES ASSUME ~lapsed, ~overlap, NEW a \in Users', NEW b \in Users', NEW f \in Fields,
                      accounts'[a][f] = accounts'[b][f]
               PROVE  a = b
    BY <1>1 DEF UniqueIdentities
  <2>1. a \in Requests /\ b \in Requests
        /\ accounts'[a] # NoAccount /\ accounts'[b] # NoAccount
    BY DEF Users
  <2>2. \A c \in Requests : accounts[c] # NoAccount => accounts[c][f] # reg[r].want[f]
    BY <1>1 DEF IInv, Untaken, Taken, Users
  <2> QED BY <1>7, <2>1, <2>2 DEF IInv, UniqueIdentities, Users
<1>10. Alone' /\ Present'
  BY <1>1, <1>2, <1>5, <1>7 DEF IInv, Alone, Present, Registering
<1>11. Unclaimed'
  BY <1>1, <1>2, <1>3 DEF IInv, Alone, Unclaimed, Registering
<1> QED BY <1>4, <1>6, <1>8, <1>9, <1>10, <1>11 DEF IInv

\* A key that is given back is nobody else's, as long as no lock lapses.
LEMMA ReleaseIInv == ASSUME IInv, NEW r \in Requests, Release(r) PROVE IInv'
<1>1. reg[r].pc = "release" /\ UNCHANGED <<accounts, update, lapsed, overlap>>
  BY DEF Release
<1>2. reg[r] # Idle /\ reg[r] \in Attempt
  BY <1>1, Going DEF IInv
<1>3. CASE reg' = [reg EXCEPT ![r] = Idle] /\ UNCHANGED lock
  <2>1. /\ \A q \in Requests : q # r => reg'[q] = reg[q]
        /\ reg'[r] = Idle
    BY <1>3 DEF IInv, TypeOK
  <2>2. TypeOK'
    BY <1>1, <1>3 DEF IInv, TypeOK
  <2>3. Takes' /\ Guarded' /\ Apart'
    BY <1>1, <1>3, <2>1 DEF IInv, Takes, Guarded, Apart, Critical, Wanted
  <2>4. Untaken' /\ UniqueIdentities'
    BY <1>1, <2>1, SameRows DEF IInv, Untaken, Idle
  <2>5. Alone' /\ Present' /\ Unclaimed'
    BY <1>1, <2>1, SameRows DEF IInv, Alone, Present, Unclaimed, Registering
  <2> QED BY <2>2, <2>3, <2>4, <2>5 DEF IInv
<1>4. ASSUME NEW k \in reg[r].held, reg' = [reg EXCEPT ![r].held = @ \ {k}],
             lock' \in {lock, lock \ {k}}
      PROVE  IInv'
  <2>1. /\ reg' \in [Requests -> Attempt \cup {Idle}]
        /\ \A q \in Requests : q # r => reg'[q] = reg[q]
        /\ reg'[r].held = reg[r].held \ {k} /\ reg'[r].want = reg[r].want
        /\ reg'[r].pc = "release"
    BY <1>1, <1>2, <1>4 DEF IInv, TypeOK, Attempt
  <2>2. TypeOK'
    BY <1>1, <1>4, <2>1 DEF IInv, TypeOK
  <2>3. \A q \in Requests : (reg'[q] # Idle) = (reg[q] # Idle) /\ Wanted(q)' = Wanted(q)
    BY <1>2, <2>1 DEF Idle, Wanted
  <2>4. Takes' /\ Guarded' /\ Apart'
    BY <1>1, <1>2, <1>4, <2>1, <2>3 DEF IInv, Takes, Guarded, Apart, Critical
  <2>5. Untaken' /\ UniqueIdentities'
    BY <1>1, <2>1, SameRows DEF IInv, Untaken
  <2>6. Alone' /\ Present' /\ Unclaimed'
    BY <1>1, <2>1, <2>3, SameRows DEF IInv, Alone, Present, Unclaimed, Registering
  <2> QED BY <2>2, <2>4, <2>5, <2>6 DEF IInv
<1> QED BY <1>3, <1>4 DEF Release

LEMMA ExpireIInv == ASSUME IInv, NEW k \in Keys, Expire(k) PROVE IInv'
<1>1. UNCHANGED <<accounts, reg, update, overlap>> /\ lock' = lock \ {k}
  BY DEF Expire
<1>2. /\ lapsed' \in BOOLEAN
      /\ ~lapsed' => ~lapsed /\ \A r \in Requests : reg[r] # Idle => k \notin reg[r].held
  BY DEF Expire, IInv, TypeOK
<1>3. TypeOK' /\ Takes' /\ Guarded' /\ Apart'
  BY <1>1, <1>2 DEF IInv, TypeOK, Takes, Guarded, Apart, Critical, Wanted
<1>4. Untaken' /\ UniqueIdentities'
  BY <1>1, <1>2, SameRows DEF IInv, Untaken, UniqueIdentities, Users
<1>5. Alone' /\ Present' /\ Unclaimed'
  BY <1>1, SameRows DEF IInv, Alone, Present, Unclaimed, Registering
<1> QED BY <1>3, <1>4, <1>5 DEF IInv

LEMMA BeginUpdateIInv ==
    ASSUME IInv, NEW a \in Requests, NEW set \in Settings, BeginUpdate(a, set) PROVE IInv'
<1> DEFINE new == [pc |-> "check", set |-> set,
                   changed |-> {f \in DOMAIN set : set[f] # accounts[a][f]}]
<1>1. /\ update[a] = Idle /\ update' = [update EXCEPT ![a] = new]
      /\ accounts[a] # NoAccount
      /\ UNCHANGED <<accounts, lock, reg, lapsed>>
      /\ overlap' \in BOOLEAN
      /\ ~overlap' => ~overlap /\ ~Registering /\ ~Updating
  BY DEF BeginUpdate, Users, IInv, TypeOK
<1>2. new \in Update
  BY SettingsAssumption DEF Update, Fields
<1>3. /\ new.set = set /\ new.pc = "check"
      /\ \A f \in DOMAIN set \ new.changed : set[f] = accounts[a][f]
  OBVIOUS
<1> HIDE DEF new
<1>4. /\ update' \in [Requests -> Update \cup {Idle}] /\ update'[a] = new
      /\ \A b \in Requests : b # a => update'[b] = update[b]
  BY <1>1, <1>2 DEF IInv, TypeOK
<1>5. TypeOK'
  BY <1>1, <1>4 DEF IInv, TypeOK
<1>6. Takes' /\ Guarded' /\ Apart'
  BY <1>1 DEF IInv, Takes, Guarded, Apart, Critical, Wanted
<1>7. Untaken' /\ UniqueIdentities'
  BY <1>1, SameRows DEF IInv, Untaken, UniqueIdentities, Users
<1>8. Alone' /\ Present'
  BY <1>1, <1>4 DEF IInv, TypeOK, Alone, Present, Registering, Updating
<1>9. Unclaimed'
  BY <1>1, <1>3, <1>4, SameRows DEF IInv, Unclaimed, Updating
<1> QED BY <1>5, <1>6, <1>7, <1>8, <1>9 DEF IInv

\* An update that ends without writing, or goes on to write what nobody else has.
LEMMA UpdateIInv ==
    ASSUME IInv, NEW a \in Requests, NEW u, update[a] # Idle,
           update' = [update EXCEPT ![a] = u],
           \/ u = Idle
           \/ /\ u = [update[a] EXCEPT !.pc = "write"]
              /\ \A f \in update[a].changed : ~Taken(f, update[a].set[f], Requests \ {a}),
           UNCHANGED <<accounts, lock, reg, lapsed, overlap>>
    PROVE  IInv'
<1>1. update[a] \in Update
  BY Going DEF IInv
<1>2. /\ u # Idle => /\ u \in Update /\ u.set = update[a].set /\ u.changed = update[a].changed
                     /\ \A f \in u.changed : ~Taken(f, u.set[f], Requests \ {a})
      /\ u \in Update \cup {Idle}
  BY <1>1 DEF Update
<1>3. /\ update' \in [Requests -> Update \cup {Idle}] /\ update'[a] = u
      /\ \A b \in Requests : b # a => update'[b] = update[b]
  BY <1>2 DEF IInv, TypeOK
<1>4. TypeOK'
  BY <1>3 DEF IInv, TypeOK
<1>5. Takes' /\ Guarded' /\ Apart'
  BY DEF IInv, Takes, Guarded, Apart, Critical, Wanted
<1>6. Untaken' /\ UniqueIdentities'
  BY SameRows DEF IInv, Untaken
<1>7. Alone' /\ Present'
  BY <1>2, <1>3 DEF IInv, Alone, Present, Registering
<1>8. Unclaimed'
  <2> SUFFICES ASSUME ~overlap, NEW b \in Requests, update'[b] # Idle
               PROVE  /\ \A f \in DOMAIN update'[b].set \ update'[b].changed :
                            update'[b].set[f] = accounts[b][f]
                      /\ update'[b].pc = "write" => \A f \in update'[b].changed :
                            ~Taken(f, update'[b].set[f], Requests \ {b})
    BY SameRows DEF Unclaimed
  <2>1. CASE b = a
    BY <1>2, <1>3, <2>1 DEF IInv, Unclaimed
  <2>2. CASE b # a
    BY <1>3, <2>2 DEF IInv, Unclaimed
  <2> QED BY <2>1, <2>2
<1> QED BY <1>4, <1>5, <1>6, <1>7, <1>8 DEF IInv

LEMMA CheckUpdateIInv == ASSUME IInv, NEW a \in Requests, CheckUpdate(a) PROVE IInv'
<1>1. /\ update[a].pc = "check" /\ UNCHANGED <<accounts, lock, reg, lapsed, overlap>>
      /\ update' = [update EXCEPT ![a] =
            IF \E f \in update[a].changed : Taken(f, update[a].set[f], Requests \ {a})
              THEN Idle ELSE [update[a] EXCEPT !.pc = "write"]]
  BY DEF CheckUpdate, IInv, TypeOK
<1>2. update[a] # Idle
  BY <1>1, Going DEF IInv
<1> QED BY <1>1, <1>2, UpdateIInv

LEMMA FailUpdateIInv == ASSUME IInv, NEW a \in Requests, FailUpdate(a) PROVE IInv'
BY UpdateIInv DEF FailUpdate

\* What is written and was not checked is what the row holds already.
LEMMA WriteUpdateIInv == ASSUME IInv, NEW a \in Requests, WriteUpdate(a) PROVE IInv'
<1> DEFINE set == update[a].set
           row == [f \in Fields |-> IF f \in DOMAIN set THEN set[f] ELSE accounts[a][f]]
<1>1. /\ update[a].pc = "write" /\ UNCHANGED <<lock, reg, lapsed, overlap>>
      /\ accounts' = [accounts EXCEPT ![a] = row]
      /\ update' = [update EXCEPT ![a] = Idle]
  BY DEF WriteUpdate, IInv, TypeOK
<1>2. update[a] # Idle /\ update[a] \in Update /\ set \in Settings /\ accounts[a] \in Profile
  BY <1>1, Going DEF IInv, Present, Update
<1>3. row \in Profile
  <2>1. \A f \in DOMAIN set : set[f] \in Values
    BY <1>2, SettingsAssumption
  <2> QED BY <1>2, <2>1 DEF Profile
<1>4. /\ update'[a] = Idle
      /\ \A b \in Requests : b # a => update'[b] = update[b]
      /\ accounts'[a] = row
      /\ \A b \in Requests : b # a => accounts'[b] = accounts[b]
  BY <1>1 DEF IInv, TypeOK
<1>5. TypeOK'
  BY <1>1, <1>3 DEF IInv, TypeOK
<1>6. Takes' /\ Guarded' /\ Apart'
  BY <1>1 DEF IInv, Takes, Guarded, Apart, Critical, Wanted
<1>7. ~overlap => \A b \in Requests : reg[b] = Idle /\ update'[b] = Idle
  BY <1>2, <1>4 DEF IInv, Alone, Registering
<1>8. Untaken' /\ Alone' /\ Unclaimed'
  BY <1>1, <1>7 DEF Untaken, Alone, Unclaimed, Idle
<1>9. Present'
  BY <1>3, <1>4 DEF IInv, Present
<1>10. UniqueIdentities'
  <2> SUFFICES ASSUME ~lapsed, ~overlap, NEW b \in Requests, NEW c \in Requests,
                      accounts'[b] # NoAccount, accounts'[c] # NoAccount,
                      NEW f \in Fields, accounts'[b][f] = accounts'[c][f]
               PROVE  b = c
    BY <1>1 DEF UniqueIdentities, Users
  <2>1. \A d \in Requests \ {a} : accounts[d] # NoAccount => accounts[d][f] # row[f]
    <3>1. CASE f \in DOMAIN set /\ f \in update[a].changed
      BY <1>1, <1>2, <3>1 DEF IInv, Unclaimed, Taken, Users
    <3>2. CASE ~(f \in DOMAIN set /\ f \in update[a].changed)
      <4>1. row[f] = accounts[a][f]
        BY <1>2, <3>2 DEF IInv, Unclaimed
      <4> QED BY <1>1, <1>2, <4>1, NoAccountAssumption DEF IInv, UniqueIdentities, Users
    <3> QED BY <3>1, <3>2
  <2> QED BY <1>4, <2>1 DEF IInv, UniqueIdentities, Users
<1> QED BY <1>5, <1>6, <1>8, <1>9, <1>10 DEF IInv

LEMMA NextIInv == IInv /\ [Next]_vars => IInv'
<1> SUFFICES ASSUME IInv, [Next]_vars PROVE IInv'
  OBVIOUS
<1>1. ASSUME NEW r \in Requests, Continue(r) \/ ContinueUpdate(r) PROVE IInv'
  BY <1>1, AcquireIInv, RefuseIInv, CheckIInv, InsertIInv, FailIInv, ReleaseIInv,
     CheckUpdateIInv, WriteUpdateIInv, FailUpdateIInv
  DEF Continue, ContinueUpdate
<1>2. ASSUME UNCHANGED vars PROVE IInv'
  <2>1. TypeOK' /\ Takes' /\ Guarded' /\ Apart'
    BY <1>2 DEF vars, IInv, TypeOK, Takes, Guarded, Apart, Critical, Wanted
  <2>2. Untaken' /\ UniqueIdentities' /\ Alone' /\ Present' /\ Unclaimed'
    <3>1. UNCHANGED <<accounts, reg, update, lapsed, overlap>>
      BY <1>2 DEF vars
    <3>2. Untaken' /\ UniqueIdentities'
      BY <3>1, SameRows DEF IInv, Untaken
    <3>3. Alone' /\ Present' /\ Unclaimed'
      BY <3>1, SameRows DEF IInv, Alone, Present, Unclaimed, Registering
    <3> QED BY <3>2, <3>3
  <2> QED BY <2>1, <2>2 DEF IInv
<1> QED BY <1>1, <1>2, RegisterIInv, BeginUpdateIInv, ExpireIInv DEF Next

-----------------------------------------------------------------------------

\* Who holds which lock, and what each request may rely on, in every reachable state.
THEOREM Inductive == Spec => []IInv
<1> QED BY InitIInv, NextIInv, PTL DEF Spec

\* Every variable keeps its type.
THEOREM TypeCorrect == Spec => []TypeOK
<1>1. IInv => TypeOK BY DEF IInv
<1> QED BY <1>1, Inductive, PTL

\* Two registrations with a name, number or address in common never check and insert
\* at the same time, as long as no lock lapses under its holder (user.go:81-102).
THEOREM LocksExclude == Spec => []MutualExclusion
<1>1. IInv => MutualExclusion
  BY Going DEF IInv, Takes, Apart, MutualExclusion, Critical
<1> QED BY <1>1, Inductive, PTL

\* The locks keep name, number and address unique, without the database, as long as
\* none lapses and profiles are updated alone (user.go:103-134, 232-246).
THEOREM IdentitiesAreUnique == Spec => []UniqueIdentities
<1>1. IInv => UniqueIdentities BY DEF IInv
<1> QED BY <1>1, Inductive, PTL
=============================================================================
