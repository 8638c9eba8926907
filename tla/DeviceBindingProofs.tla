------------------------ MODULE DeviceBindingProofs -------------------------
(***************************************************************************)
(* TLAPS proofs about DeviceBinding, for any users and any number of       *)
(* concurrent requests, with a Redis that may fail or not: only owners are *)
(* served, and the cache follows the row as far as Redis and lookups let it.*)
(***************************************************************************)
EXTENDS DeviceBinding, TLAPS

\* Whose requests there are: those that ask for the owner are users', and those
\* past a check of the row, or past an UPDATE of it, are those of owners.  Only an
\* unbinding has a transaction.
Vetted == \A r \in Requests :
    /\ req[r].op \in {"unbind", "history"} => req[r].user \in Users
    /\ req[r].op \in {"bind", "rename", "policy"} => req[r].user \in past
    /\ req[r].pc \in {"select", "update"} => req[r].op = "unbind"

\* A transaction between its SELECT and its UPDATE has the device's owner for its
\* user, or that user has lost the device meanwhile.
Unmoved == \A r \in Requests :
    req[r].pc = "update" /\ ~req[r].again => owner = req[r].user

Careful == Vetted /\ OnlyOwners /\ Unmoved

IInv == TypeOK /\ Careful /\ CacheFollows

\* A slot that is not free holds a request, and so does one that gets another step.
LEMMA SlotType ==
    ASSUME TypeOK, NEW r \in Requests
    PROVE  /\ req[r].pc # "free" => req[r] \in Request
           /\ \A label \in {"read", "fill", "decide", "select", "update", "write", "del"} :
                req[r].pc # "free" /\ Goto(r, label) => req' \in [Requests -> Request \cup {Free}]
           /\ Finish(r) => req' \in [Requests -> Request \cup {Free}]
<1>1. req[r].pc # "free" => req[r] \in Request
  BY DEF TypeOK, Free
<1>2. ASSUME NEW label \in {"read", "fill", "decide", "select", "update", "write", "del"},
             req[r].pc # "free", Goto(r, label)
      PROVE  req' \in [Requests -> Request \cup {Free}]
  <2>1. [req[r] EXCEPT !.pc = label] \in Request
    BY <1>1, <1>2 DEF Request
  <2> QED BY <1>2, <2>1 DEF Goto, TypeOK
<1>3. Finish(r) => req' \in [Requests -> Request \cup {Free}]
  BY DEF Finish, TypeOK
<1> QED BY <1>1, <1>2, <1>3

LEMMA NextTypeOK ==
    ASSUME TypeOK, Vetted, [Next]_vars
    PROVE  TypeOK'
<1> USE NamesAssumption
<1>1. ASSUME NEW r \in Requests, Continue(r) PROVE TypeOK'
  <2>1. CASE ReadOwner(r)
    <3>1. [req[r] EXCEPT !.pc = "fill", !.seen = owner] \in Request
      BY <2>1, SlotType DEF ReadOwner, Request, TypeOK
    <3> QED BY <2>1, <3>1 DEF ReadOwner, TypeOK
  <2>2. CASE Fill(r)
    <3>1. req[r] \in Request BY <2>2, SlotType DEF Fill
    <3> QED BY <2>2, <3>1, SlotType DEF Fill, TypeOK, Request
  <2>3. CASE DecideHistory(r)
    <3>1. req[r].user \in Users BY <2>3 DEF DecideHistory, Vetted
    <3> QED BY <2>3, <3>1, SlotType DEF DecideHistory, TypeOK
  <2>4. CASE DecidePush(r)
    <3>1. req[r] \in Request BY <2>4, SlotType DEF DecidePush
    <3> QED BY <2>4, <3>1, SlotType DEF DecidePush, TypeOK, Request
  <2>5. CASE DecideUnbind(r)
    BY <2>5, SlotType DEF DecideUnbind, TypeOK
  <2>6. CASE UnbindSelect(r)
    BY <2>6, SlotType DEF UnbindSelect, TypeOK
  <2>7. CASE UnbindUpdate(r)
    <3>1. ASSUME NEW q \in Requests, req[q].pc = "update"
          PROVE  /\ [req[q] EXCEPT !.pc = "del"] \in Request
                 /\ [req[q] EXCEPT !.again = TRUE] \in Request
      BY <3>1, SlotType DEF Request
    <3>2. req' \in [Requests -> Request \cup {Free}]
      BY <2>7, <3>1 DEF UnbindUpdate, TypeOK
    <3> QED BY <2>7, <3>2 DEF UnbindUpdate, TypeOK
  <2>8. CASE WriteName(r)
    <3>1. req[r] \in Request BY <2>8, SlotType DEF WriteName
    <3> QED BY <2>8, <3>1, SlotType DEF WriteName, TypeOK, Request
  <2>9. CASE InsertPolicy(r)
    <3>1. req[r].user \in Users BY <2>9 DEF InsertPolicy, Vetted, TypeOK
    <3> QED BY <2>9, <3>1, SlotType DEF InsertPolicy, TypeOK
  <2>10. CASE DelCache(r) BY <2>10, SlotType DEF DelCache, TypeOK
  <2> QED
    BY <1>1, <2>1, <2>2, <2>3, <2>4, <2>5, <2>6, <2>7, <2>8, <2>9, <2>10 DEF Continue
<1>2. ASSUME NEW r \in Requests, NEW op \in Ops, NEW u \in Users \cup {NoUser},
             NEW label \in {"read", "decide", "write", "del"},
             NEW answer \in Users \cup {NoUser}, Begin(r, op, u, label, answer)
      PROVE  req' \in [Requests -> Request \cup {Free}]
  BY <1>2 DEF Begin, TypeOK, Request
<1>3. ASSUME NEW r \in Requests, NEW op \in Ops, NEW u \in Users \cup {NoUser}
      PROVE  GetHit(r, op, u) \/ GetMiss(r, op, u) => TypeOK'
  BY <1>2 DEF GetHit, GetMiss, TypeOK
<1>4. ASSUME NEW r \in Requests, NEW u \in Users, BindDevice(r, u) PROVE TypeOK'
  BY <1>2, <1>4 DEF BindDevice, TypeOK, Ops
<1>5. ASSUME NEW r \in Requests, NEW op \in Ops, NEW u \in Users, CheckOwner(r, op, u)
      PROVE  TypeOK'
  BY <1>2, <1>5 DEF CheckOwner, TypeOK
<1>6. ASSUME NEW u \in Users, DeletePolicy(u) PROVE TypeOK'
  BY <1>6 DEF DeletePolicy, TypeOK
<1>7. CASE Expire BY <1>7 DEF Expire, TypeOK
<1>8. CASE UNCHANGED vars BY <1>8 DEF vars, TypeOK
<1> QED
  BY <1>1, <1>3, <1>4, <1>5, <1>6, <1>7, <1>8 DEF Next, Arrive, Report, Ops

-----------------------------------------------------------------------------

LEMMA InitIInv == Init => IInv
<1>1. Init => TypeOK
  BY DEF Init, TypeOK
<1>2. Init => Careful
  BY NamesAssumption DEF Init, Careful, Vetted, OnlyOwners, Unmoved, Free
<1>3. Init => CacheFollows
  BY DEF Init, CacheFollows
<1> QED BY <1>1, <1>2, <1>3 DEF IInv

\* No slot but r's changes, and past loses nobody.
LEMMA ContinueIInv ==
    ASSUME IInv, NEW r \in Requests, Continue(r)
    PROVE  Careful'
<1> USE NamesAssumption
<1> USE DEF IInv, Careful
<1>1. CASE ReadOwner(r)
  BY <1>1 DEF ReadOwner, TypeOK, Vetted, OnlyOwners, Unmoved
<1>2. CASE Fill(r)
  BY <1>2 DEF Fill, Goto, TypeOK, Vetted, OnlyOwners, Unmoved
<1>3. CASE DecideHistory(r)
  BY <1>3 DEF DecideHistory, Finish, Free, TypeOK, Vetted, OnlyOwners, Unmoved
<1>4. CASE DecidePush(r)
  BY <1>4 DEF DecidePush, Finish, Free, TypeOK, Vetted, OnlyOwners, Unmoved
<1>5. CASE DecideUnbind(r)
  <2>1. CASE req[r].seen = req[r].user
    <3>1. \A q \in Requests : /\ req'[q].op = req[q].op /\ req'[q].user = req[q].user
                              /\ req'[q].seen = req[q].seen
                              /\ req'[q].pc = req[q].pc \/ (q = r /\ req'[q].pc = "select")
                              /\ req'[q].again = req[q].again
      BY <1>5, <2>1, SlotType DEF DecideUnbind, Goto, TypeOK, Request
    <3>2. req[r].op = "unbind" /\ UNCHANGED <<owner, name, policies, cache, past, served>>
      BY <1>5 DEF DecideUnbind
    <3>3. Vetted' BY <3>1, <3>2 DEF Vetted
    <3>4. OnlyOwners' BY <3>1, <3>2 DEF OnlyOwners
    <3>5. Unmoved' BY <3>1, <3>2 DEF Unmoved
    <3> QED BY <3>3, <3>4, <3>5
  <2>2. CASE req[r].seen # req[r].user
    BY <1>5, <2>2 DEF DecideUnbind, Finish, Free, TypeOK, Vetted, OnlyOwners, Unmoved
  <2> QED BY <2>1, <2>2
<1>6. CASE UnbindSelect(r)
  <2>1. CASE owner = req[r].user
    <3>1. \A q \in Requests : /\ req'[q].op = req[q].op /\ req'[q].user = req[q].user
                              /\ req'[q].seen = req[q].seen
                              /\ req'[q].pc = req[q].pc \/ (q = r /\ req'[q].pc = "update")
                              /\ req'[q].again = req[q].again
      BY <1>6, <2>1, SlotType DEF UnbindSelect, Goto, TypeOK, Request
    <3>2. req[r].pc = "select" /\ UNCHANGED <<owner, name, policies, cache, past, served>>
      BY <1>6 DEF UnbindSelect
    <3>3. Vetted' BY <3>1, <3>2 DEF Vetted
    <3>4. OnlyOwners' BY <3>1, <3>2 DEF OnlyOwners
    <3>5. Unmoved' BY <2>1, <3>1, <3>2 DEF Unmoved
    <3> QED BY <3>3, <3>4, <3>5
  <2>2. CASE owner # req[r].user
    BY <1>6, <2>2 DEF UnbindSelect, Finish, Free, TypeOK, Vetted, OnlyOwners, Unmoved
  <2> QED BY <2>1, <2>2
<1>7. CASE UnbindUpdate(r)
  BY <1>7 DEF UnbindUpdate, TypeOK, Vetted, OnlyOwners, Unmoved
<1>8. CASE WriteName(r)
  BY <1>8 DEF WriteName, Goto, TypeOK, Vetted, OnlyOwners, Unmoved
<1>9. CASE InsertPolicy(r)
  BY <1>9 DEF InsertPolicy, Finish, Free, TypeOK, Vetted, OnlyOwners, Unmoved
<1>10. CASE DelCache(r)
  BY <1>10 DEF DelCache, Finish, Free, TypeOK, Vetted, OnlyOwners, Unmoved
<1> QED
  BY <1>1, <1>2, <1>3, <1>4, <1>5, <1>6, <1>7, <1>8, <1>9, <1>10 DEF Continue

\* A request that begins is a stranger's only when it asks who the owner is.
LEMMA BeginIInv ==
    ASSUME IInv, NEW r \in Requests, NEW op \in Ops, NEW u \in Users \cup {NoUser},
           NEW label \in {"read", "decide", "write", "del"}, NEW answer \in past \cup {NoUser},
           Begin(r, op, u, label, answer), past \subseteq past',
           op \in {"unbind", "history"} => u \in Users,
           op \in {"bind", "rename", "policy"} => u \in past',
           owner \in {owner', NoUser}
    PROVE  /\ Vetted' /\ Unmoved'
           /\ \A q \in Requests : req'[q].seen # NoUser => req'[q].seen \in past'
<1> USE NamesAssumption DEF IInv, Careful, Begin, TypeOK
<1>1. Vetted' BY DEF Vetted
<1>2. Unmoved' BY DEF Unmoved, Vetted
<1>3. \A q \in Requests : req'[q].seen # NoUser => req'[q].seen \in past'
  BY DEF OnlyOwners
<1> QED BY <1>1, <1>2, <1>3

LEMMA ArriveIInv ==
    ASSUME IInv, NEW r \in Requests, NEW op \in Ops, NEW u \in Users \cup {NoUser}
    PROVE  /\ (op \in {"unbind", "history"} => u \in Users)
                /\ op \in {"unbind", "history", "push"}
                /\ (GetHit(r, op, u) \/ GetMiss(r, op, u)) => Careful'
           /\ u \in Users /\ BindDevice(r, u) => Careful'
           /\ u \in Users /\ op \in {"rename", "policy"} /\ CheckOwner(r, op, u)
                => Careful'
<1> USE NamesAssumption
<1>1. cache \in past \cup {NoUser, Empty} /\ owner \in past \cup {NoUser}
  BY DEF IInv, Careful, OnlyOwners, TypeOK
<1>2. ASSUME op \in {"unbind", "history"} => u \in Users, op \in {"unbind", "history", "push"},
             GetHit(r, op, u)
      PROVE  Careful'
  <2>1. Begin(r, op, u, "decide", cache) /\ cache \in past \cup {NoUser}
    BY <1>1, <1>2 DEF GetHit
  <2>2. UNCHANGED <<owner, name, policies, cache, past, served>>
    BY <1>2 DEF GetHit
  <2> QED BY <1>2, <2>1, <2>2, BeginIInv DEF IInv, Careful, OnlyOwners
<1>3. ASSUME op \in {"unbind", "history"} => u \in Users, op \in {"unbind", "history", "push"},
             GetMiss(r, op, u)
      PROVE  Careful'
  BY <1>3, BeginIInv DEF GetMiss, IInv, Careful, OnlyOwners
<1>4. ASSUME u \in Users, BindDevice(r, u)
      PROVE  Careful'
  <2>1. Begin(r, "bind", u, "del", NoUser) /\ u \in past' /\ past \subseteq past' /\ "bind" \in Ops
    BY <1>4 DEF BindDevice, Ops
  <2>2. owner = NoUser BY <1>4 DEF BindDevice
  <2>3. Vetted' /\ Unmoved' /\ \A q \in Requests : req'[q].seen # NoUser => req'[q].seen \in past'
    BY <1>4, <2>1, <2>2, BeginIInv
  <2> QED BY <1>4, <2>3 DEF BindDevice, IInv, Careful, OnlyOwners
<1>5. ASSUME u \in Users, op \in {"rename", "policy"}, CheckOwner(r, op, u)
      PROVE  Careful'
  <2>1. Begin(r, op, u, "write", NoUser) /\ u \in past
    BY <1>1, <1>5 DEF CheckOwner
  <2> QED BY <1>5, <2>1, BeginIInv DEF CheckOwner, IInv, Careful, OnlyOwners
<1> QED BY <1>2, <1>3, <1>4, <1>5

\* A step that leaves row, entry and history alone, and finishes no request that is
\* about to delete the entry, changes nothing of what the cache may be.
LEMMA CacheFrame ==
    ASSUME CacheFollows, UNCHANGED <<owner, cache, stale>>,
           \A r \in Requests : req[r].pc = "del" => req'[r].pc = "del" /\ req'[r].op = req[r].op
    PROVE  CacheFollows'
BY DEF CacheFollows

LEMMA BeginKeeps ==
    ASSUME NEW r \in Requests, NEW op, NEW u, NEW label, NEW answer,
           Begin(r, op, u, label, answer), TypeOK
    PROVE  /\ \A q \in Requests : req[q].pc = "del" => req'[q].pc = "del" /\ req'[q].op = req[q].op
           /\ req'[r].pc = label /\ req'[r].op = op
BY DEF Begin, TypeOK, Free

\* The deletion of a request is its last step, and only the steps that change the row
\* or the entry need an argument: they set the history, or go on to a deletion.
LEMMA NextCacheFollows == ASSUME IInv, [Next]_vars PROVE CacheFollows'
<1> USE DEF IInv, Careful
<1>1. ASSUME NEW r \in Requests, Continue(r) PROVE CacheFollows'
  <2>1. CASE ReadOwner(r)
    BY <2>1, CacheFrame DEF ReadOwner, TypeOK
  <2>2. CASE Fill(r)
    <3>1. CASE UNCHANGED <<cache, stale>>
      BY <2>2, <3>1, CacheFrame DEF Fill, Goto, TypeOK
    <3>2. CASE cache' = req[r].seen /\ stale' = (req[r].seen # owner)
      BY <2>2, <3>2 DEF Fill, CacheFollows
    <3> QED BY <2>2, <3>1, <3>2 DEF Fill
  <2>3. CASE DecideHistory(r)
    BY <2>3, CacheFrame DEF DecideHistory, Finish, TypeOK
  <2>4. CASE DecidePush(r)
    BY <2>4, CacheFrame DEF DecidePush, Finish, TypeOK
  <2>5. CASE DecideUnbind(r)
    BY <2>5, CacheFrame DEF DecideUnbind, Goto, Finish, TypeOK
  <2>6. CASE UnbindSelect(r)
    BY <2>6, CacheFrame DEF UnbindSelect, Goto, Finish, TypeOK
  <2>7. CASE UnbindUpdate(r)
    <3>1. req[r] \in Request /\ req[r].op = "unbind"
      BY <2>7, SlotType DEF UnbindUpdate, Vetted
    <3>2. req'[r] = [req[r] EXCEPT !.pc = "del"]
      BY <2>7 DEF UnbindUpdate
    <3> QED BY <3>1, <3>2 DEF CacheFollows, Request
  <2>8. CASE WriteName(r)
    BY <2>8, CacheFrame DEF WriteName, Goto, TypeOK
  <2>9. CASE InsertPolicy(r)
    BY <2>9, CacheFrame DEF InsertPolicy, Finish, TypeOK
  <2>10. CASE DelCache(r)
    <3>1. CASE cache' = Empty
      BY <3>1 DEF CacheFollows
    <3>2. CASE UNCHANGED cache /\ stale' = (stale \/ cache \notin {Empty, owner})
      BY <2>10, <3>2 DEF DelCache, CacheFollows
    <3> QED BY <2>10, <3>1, <3>2 DEF DelCache
  <2> QED
    BY <1>1, <2>1, <2>2, <2>3, <2>4, <2>5, <2>6, <2>7, <2>8, <2>9, <2>10 DEF Continue
<1>2. ASSUME NEW r \in Requests, NEW op, NEW u, GetHit(r, op, u) \/ GetMiss(r, op, u)
      PROVE  CacheFollows'
  BY <1>2, BeginKeeps, CacheFrame DEF GetHit, GetMiss
<1>3. ASSUME NEW r \in Requests, NEW u \in Users, BindDevice(r, u) PROVE CacheFollows'
  <2>1. req'[r].pc = "del" /\ req'[r].op = "bind"
    BY <1>3, BeginKeeps DEF BindDevice
  <2> QED BY <2>1 DEF CacheFollows
<1>4. ASSUME NEW r \in Requests, NEW op, NEW u, CheckOwner(r, op, u) PROVE CacheFollows'
  BY <1>4, BeginKeeps, CacheFrame DEF CheckOwner
<1>5. ASSUME NEW u \in Users, DeletePolicy(u) PROVE CacheFollows'
  BY <1>5, CacheFrame DEF DeletePolicy
<1>6. CASE Expire BY <1>6 DEF Expire, CacheFollows
<1>7. CASE UNCHANGED vars BY <1>7, CacheFrame DEF vars
<1> QED BY <1>1, <1>2, <1>3, <1>4, <1>5, <1>6, <1>7 DEF Next, Arrive, Report

LEMMA NextIInv == IInv /\ [Next]_vars => IInv'
<1> SUFFICES ASSUME IInv, [Next]_vars PROVE IInv'
  OBVIOUS
<1>1. TypeOK'
  BY NextTypeOK DEF IInv, Careful
<1>2. ASSUME NEW r \in Requests, Continue(r) PROVE Careful'
  BY <1>2, ContinueIInv
<1>3. ASSUME NEW r \in Requests, Report(r) PROVE Careful'
  BY <1>3, ArriveIInv DEF Report, Ops
<1>4. ASSUME NEW r \in Requests, NEW u \in Users, Arrive(r, u)
      PROVE  Careful'
  <2>1. CASE BindDevice(r, u)
    BY <2>1, ArriveIInv DEF Ops
  <2>2. ASSUME NEW op \in {"unbind", "history"}, GetHit(r, op, u) \/ GetMiss(r, op, u)
        PROVE  Careful'
    BY <2>2, ArriveIInv DEF Ops
  <2>3. ASSUME NEW op \in {"rename", "policy"}, CheckOwner(r, op, u)
        PROVE  Careful'
    BY <2>3, ArriveIInv DEF Ops
  <2> QED BY <1>4, <2>1, <2>2, <2>3 DEF Arrive
<1>5. ASSUME NEW u \in Users, DeletePolicy(u) PROVE Careful'
  BY <1>5 DEF DeletePolicy, IInv, Careful, Vetted, OnlyOwners, Unmoved
<1>6. ASSUME Expire PROVE Careful'
  <2>1. Vetted' /\ Unmoved'
    BY <1>6 DEF Expire, IInv, Careful, Vetted, Unmoved
  <2>2. OnlyOwners'
    BY <1>6 DEF Expire, IInv, Careful, OnlyOwners
  <2> QED BY <2>1, <2>2 DEF Careful
<1>7. ASSUME UNCHANGED vars PROVE Careful'
  BY <1>7 DEF vars, IInv, Careful, Vetted, OnlyOwners, Unmoved
<1>8. Careful'
  BY <1>2, <1>3, <1>4, <1>5, <1>6, <1>7 DEF Next
<1>9. CacheFollows'
  BY NextCacheFollows
<1> QED BY <1>1, <1>8, <1>9 DEF IInv

-----------------------------------------------------------------------------

\* Types, whose requests there are, and what a transaction may still believe of the
\* row it selected, are kept by every step of every request.
THEOREM Inductive == Spec => []IInv
<1> QED BY InitIInv, NextIInv, PTL DEF Spec

\* Every variable keeps its type.
THEOREM TypeCorrect == Spec => []TypeOK
<1>1. IInv => TypeOK BY DEF IInv
<1> QED BY <1>1, Inductive, PTL

\* Nobody is served, named, cached or given a policy who never owned the device,
\* however many requests race and whatever Redis refuses (device.go:111-139).
THEOREM OnlyOwnersServed == Spec => []OnlyOwners
<1>1. IInv => OnlyOwners BY DEF IInv, Careful
<1> QED BY <1>1, Inductive, PTL

\* The cache disagrees with the row only until the change's own deletion, unless that
\* failed or a lookup came late (device.go:53-54, 85-88, 128-137).
THEOREM CacheFollowsRow == Spec => []CacheFollows
<1>1. IInv => CacheFollows BY DEF IInv
<1> QED BY <1>1, Inductive, PTL

\* An unbinding removes its own user's binding, unless that user lost the device
\* between its SELECT and its UPDATE (device.go:58-83).
THEOREM UnbindsOnlyItsOwn == Spec => UnbindsItsOwn
<1>1. IInv /\ [Next]_vars =>
        [\A r \in Requests : req[r].pc = "update" /\ req'[r].pc = "del"
            => owner \in {req[r].user, NoUser} \/ req[r].again]_vars
  BY DEF IInv, Careful, Unmoved
<1> QED BY <1>1, Inductive, PTL DEF Spec, UnbindsItsOwn
=============================================================================
