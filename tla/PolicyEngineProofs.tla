------------------------- MODULE PolicyEngineProofs -------------------------
(***************************************************************************)
(* TLAPS proofs about PolicyEngine, for any number of users, policies,     *)
(* rules, requests and frames.                                             *)
(***************************************************************************)
EXTENDS PolicyEngine, TLAPS

\* Without overlap one request is under way at a time, and for the device's owner.
Alone == ~overlap => \A r, q \in Requests : req[r] # Free /\ req[q] # Free => r = q
Owned == ~overlap => \A r \in Requests : req[r] # Free => req[r].user = owner

\* The rule that is about to be inserted has no policy.
Lacking == ~overlap => \A r \in Requests :
    req[r].pc = "insert" => \A p \in table : made[p].rule # req[r].rule

Placed == Typed /\ Alone /\ Owned /\ Lacking /\ CleanUnlessRaced

IInv == Placed /\ Doing

LEMMA InitPlaced == Init => Placed
<1> SUFFICES ASSUME Init PROVE Placed
  OBVIOUS
<1>1. Quiet \in [Stages -> Nat]
  BY DEF Quiet
<1>2. Typed
  BY <1>1 DEF Init, Typed
<1>3. \A r \in Requests : req[r] = Free /\ Free.pc = "free"
  BY DEF Init, Free
<1> QED
  BY <1>2, <1>3 DEF Init, Placed, Alone, Owned, Lacking, CleanUnlessRaced

\* A request under way is a record of its kind, for a user.
LEMMA Slot ==
    ASSUME Typed, NEW r \in Requests
    PROVE  /\ req[r] # Free => req[r].user \in Users
           /\ req[r].pc \in {"exists", "update", "insert"} => req[r] # Free
           /\ req[r].pc = "insert" => req[r].rule \in Rules
           /\ req[r].pc = "update" => req[r].pc # "insert"
BY DEF Typed, Free

LEMMA Row ==
    ASSUME Typed, NEW p \in table
    PROVE  p \in Policies /\ made[p] \in Policy /\ made[p].user \in Users /\ made[p].user # NoUser
BY NamesAssumption DEF Typed, Policy

-----------------------------------------------------------------------------
(* Requests. *)

LEMMA BindPlaced == ASSUME Placed, NEW u \in Users, Bind(u) PROVE Placed'
<1>1. owner = NoUser /\ owner' = u /\ UNCHANGED <<table, made, req, engine, acts, cool, overlap>>
  BY DEF Bind
<1>2. ~overlap => table = {} /\ \A r \in Requests : req[r] = Free
  BY <1>1, Slot, Row, NamesAssumption DEF Placed, CleanUnlessRaced, Owned
<1>3. Typed'
  BY <1>1 DEF Placed, Typed
<1> QED
  BY <1>1, <1>2, <1>3 DEF Placed, Alone, Owned, Lacking, CleanUnlessRaced

\* A request begins.
LEMMA ArrivePlaced ==
    ASSUME Placed, NEW r \in Requests, NEW u \in Users, NEW label \in {"exists", "update"},
           owner = u, Arrive(r, [pc |-> label, user |-> u]),
           UNCHANGED <<owner, table, made, engine, acts, cool>>
    PROVE  Placed'
<1> DEFINE new == [pc |-> label, user |-> u]
<1>1. /\ req' = [req EXCEPT ![r] = new] /\ overlap' \in BOOLEAN
      /\ ~overlap' => ~overlap /\ \A q \in Requests : req[q] = Free
  BY DEF Arrive, Placed, Typed
<1>2. new \in [pc : {"exists", "update"}, user : Users] /\ new.pc # "insert" /\ new.user = u
  OBVIOUS
<1> HIDE DEF new
<1>3. /\ \A q \in Requests : q # r => req'[q] = req[q]
      /\ req'[r] = new
  BY <1>1 DEF Placed, Typed
<1>4. Typed'
  BY <1>1, <1>2 DEF Placed, Typed
<1>5. Free.pc # "insert"
  BY DEF Free
<1> QED
  BY <1>1, <1>2, <1>3, <1>4, <1>5 DEF Placed, Alone, Owned, Lacking, CleanUnlessRaced

\* A request ends, having taken policies out or having left them as they are.
LEMMA FinishPlaced ==
    ASSUME Placed, NEW r \in Requests, Finish(r), req[r] # Free,
           table' \subseteq table,
           \/ owner' = owner
           \/ owner' = NoUser /\ \A p \in table' : made[p].user # req[r].user,
           UNCHANGED <<made, engine, acts, cool, overlap>>
    PROVE  Placed'
<1>1. /\ req' \in [Requests -> [pc : {"exists", "update"}, user : Users]
            \cup [pc : {"insert"}, user : Users, rule : Rules] \cup {Free}]
      /\ \A q \in Requests : q # r => req'[q] = req[q]
      /\ req'[r] = Free
  BY DEF Finish, Placed, Typed
<1>2. Typed'
  BY <1>1 DEF Placed, Typed
<1>3. ~overlap => \A q \in Requests : req'[q] = Free
  BY <1>1 DEF Placed, Alone
<1>4. Free.pc # "insert"
  BY DEF Free
<1>5. CleanUnlessRaced'
  BY Row DEF Placed, CleanUnlessRaced, Owned
<1> QED BY <1>2, <1>3, <1>4, <1>5 DEF Placed, Alone, Owned, Lacking

LEMMA UnbindUpdatePlaced == ASSUME Placed, NEW r \in Requests, UnbindUpdate(r) PROVE Placed'
BY FinishPlaced, Slot DEF UnbindUpdate, Placed

LEMMA ExistsPlaced ==
    ASSUME Placed, NEW r \in Requests, NEW rule \in Rules, Exists(r, rule) PROVE Placed'
<1>1. req[r].pc = "exists" /\ req[r] # Free /\ req[r].user \in Users
  BY Slot DEF Exists, Placed
<1>2. CASE \E p \in table : made[p].rule = rule
  BY <1>1, <1>2, FinishPlaced DEF Exists
<1>3. CASE ~ \E p \in table : made[p].rule = rule
  <2> DEFINE new == [pc |-> "insert", user |-> req[r].user, rule |-> rule]
  <2>1. req' = [req EXCEPT ![r] = new]
        /\ UNCHANGED <<owner, table, made, engine, acts, cool, overlap>>
    BY <1>3 DEF Exists
  <2>2. /\ new \in [pc : {"insert"}, user : Users, rule : Rules]
        /\ new.user = req[r].user /\ new.rule = rule
    BY <1>1
  <2> HIDE DEF new
  <2>3. /\ \A q \in Requests : q # r => req'[q] = req[q]
        /\ req'[r] = new
    BY <2>1 DEF Placed, Typed
  <2>4. Typed'
    BY <2>1, <2>2 DEF Placed, Typed
  <2> QED
    BY <1>1, <1>3, <2>1, <2>2, <2>3, <2>4
    DEF Placed, Alone, Owned, Lacking, CleanUnlessRaced
<1> QED BY <1>2, <1>3

LEMMA CreatePlaced ==
    ASSUME Placed, NEW r \in Requests, NEW p \in Policies, NEW does \in Kinds, Create(r, p, does)
    PROVE  Placed'
<1> DEFINE new == [user |-> req[r].user, rule |-> req[r].rule, does |-> does]
<1>1. /\ req[r].pc = "insert" /\ req[r] # Free /\ made[p] = Unmade
      /\ made' = [made EXCEPT ![p] = new] /\ table' = table \cup {p}
      /\ UNCHANGED <<owner, engine, acts, cool, overlap>>
  BY Slot DEF Create, Placed
<1>2. /\ new \in Policy /\ new # Unmade
      /\ new.user = req[r].user /\ new.rule = req[r].rule
  BY <1>1, Slot, NamesAssumption, KindsAssumption DEF Policy, Effects, Unmade, Placed
<1> HIDE DEF new
<1>3. /\ \A q \in Policies : q # p => made'[q] = made[q]
      /\ made'[p] = new /\ made' \in [Policies -> Policy \cup {Unmade}]
  BY <1>1, <1>2 DEF Placed, Typed
<1>4. /\ req' \in [Requests -> [pc : {"exists", "update"}, user : Users]
            \cup [pc : {"insert"}, user : Users, rule : Rules] \cup {Free}]
      /\ \A q \in Requests : q # r => req'[q] = req[q]
      /\ req'[r] = Free
  BY DEF Create, Finish, Placed, Typed
<1>5. Typed'
  BY <1>1, <1>2, <1>3, <1>4 DEF Placed, Typed
<1>6. ~overlap => \A q \in Requests : req'[q] = Free
  BY <1>1, <1>4 DEF Placed, Alone
<1>7. Free.pc # "insert"
  BY DEF Free
<1>8. CleanUnlessRaced'
  BY <1>1, <1>2, <1>3 DEF Placed, Typed, CleanUnlessRaced, Owned, Lacking
<1> QED BY <1>1, <1>5, <1>6, <1>7, <1>8 DEF Placed, Alone, Owned, Lacking

LEMMA DeletePolicyPlaced ==
    ASSUME Placed, NEW p \in Policies, NEW u \in Users, DeletePolicy(p, u) PROVE Placed'
<1>1. table' = table \ {p} /\ UNCHANGED <<owner, made, req, engine, acts, cool, overlap>>
  BY DEF DeletePolicy
<1>2. Typed'
  BY <1>1 DEF Placed, Typed
<1> QED BY <1>1, <1>2 DEF Placed, Alone, Owned, Lacking, CleanUnlessRaced

-----------------------------------------------------------------------------
(* The engine and what it starts leave the requests and the table alone. *)

LEMMA EnginePlaced ==
    ASSUME Placed, UNCHANGED requests, Typed' PROVE Placed'
BY DEF requests, Placed, Alone, Owned, Lacking, CleanUnlessRaced

LEMMA EvaluateTypes == ASSUME Typed, NEW e \in Engines, Evaluate(e) PROVE Typed'
<1>1. ASSUME NEW sent \in SUBSET Rules, Upload(e, sent) \/ DataFrame(e, sent) PROVE Typed'
  BY <1>1, ZeroAssumption DEF Upload, DataFrame, SaveDeviceData, requests, Typed
<1>2. CASE Info(e)
  <2>1. engine[e].hits \in SUBSET Rules
    BY <1>2 DEF Info, Typed, Free
  <2> QED BY <1>2, <2>1 DEF Info, requests, Typed
<1>3. CASE Load(e)
  BY <1>3 DEF Load, requests, Typed
<1>4. CASE LoadFails(e)
  BY <1>4 DEF LoadFails, requests, Typed
<1>5. CASE Dispatch(e)
  BY <1>5 DEF Dispatch, requests, Typed
<1> QED BY <1>1, <1>2, <1>3, <1>4, <1>5 DEF Evaluate

LEMMA MoveTypes ==
    ASSUME Typed, NEW p \in Policies, NEW from \in Stages, NEW to, Move(p, from, to)
    PROVE  acts' \in [Policies -> [Stages -> Nat]]
BY DEF Move, Typed

LEMMA ActTypes == ASSUME Typed, NEW p \in Policies, Act(p) PROVE Typed'
<1>1. acts' \in [Policies -> [Stages -> Nat]]
  <2>1. {"alert", "control", "save", "push", "send"} \subseteq Stages
    BY DEF Stages, Effects
  <2> QED
    BY <2>1, MoveTypes
    DEF Act, TriggerAlert, AlertFiltered, SaveAlert, SaveFails, PushAlarm, TriggerControl,
        ControlFiltered, SendControl
<1>2. cool' \in SUBSET (Policies \X Effects) /\ UNCHANGED requests /\ UNCHANGED engine
  BY DEF Act, TriggerAlert, AlertFiltered, SaveAlert, SaveFails, PushAlarm, TriggerControl,
         ControlFiltered, SendControl, Typed, Effects
<1> QED BY <1>1, <1>2 DEF Typed, requests

LEMMA NextPlaced == Placed /\ [Next]_vars => Placed'
<1> SUFFICES ASSUME Placed, [Next]_vars PROVE Placed'
  OBVIOUS
<1>1. ASSUME NEW r \in Requests, Request(r) PROVE Placed'
  BY <1>1, ArrivePlaced, UnbindUpdatePlaced, ExistsPlaced, CreatePlaced
  DEF Request, UnbindSelect, CheckOwner
<1>2. ASSUME NEW e \in Engines, Evaluate(e) PROVE Placed'
  <2>1. UNCHANGED requests
    BY <1>2 DEF Evaluate, Upload, DataFrame, SaveDeviceData, Info, Load, LoadFails, Dispatch
  <2> QED BY <1>2, <2>1, EvaluateTypes, EnginePlaced DEF Placed
<1>3. ASSUME NEW p \in Policies, Act(p) PROVE Placed'
  <2>1. UNCHANGED requests
    BY <1>3 DEF Act, TriggerAlert, AlertFiltered, SaveAlert, SaveFails, PushAlarm,
                TriggerControl, ControlFiltered, SendControl
  <2> QED BY <1>3, <2>1, ActTypes, EnginePlaced DEF Placed
<1>4. ASSUME NEW p \in Policies, NEW k \in Effects, CooldownEnds(p, k) PROVE Placed'
  <2>1. Typed' /\ UNCHANGED requests
    BY <1>4 DEF CooldownEnds, Placed, Typed, requests
  <2> QED BY <2>1, EnginePlaced
<1>5. ASSUME UNCHANGED vars PROVE Placed'
  BY <1>5, EnginePlaced DEF vars, requests, Placed, Typed
<1> QED BY <1>1, <1>2, <1>3, <1>4, <1>5, BindPlaced, DeletePolicyPlaced DEF Next

-----------------------------------------------------------------------------
(* What the goroutines do. *)

\* A goroutine goes on to what its policy is for: handleAction and what it starts.
LEMMA MoveDoing ==
    ASSUME Typed, Doing, NEW p \in Policies, NEW from \in Stages, NEW to,
           Move(p, from, to), UNCHANGED <<made, engine>>,
           Effect(from) \in made[p].does => \A s \in to : Effect(s) \in made[p].does
    PROVE  Doing'
<1>1. acts[p][from] > 0 /\ acts[p] \in [Stages -> Nat]
  BY DEF Move, Typed
<1>2. made[p] # Unmade /\ \A s \in to : Effect(s) \in made[p].does
  BY <1>1 DEF Doing
<1>3. \A q \in Policies : q # p => acts'[q] = acts[q]
  BY DEF Move, Typed
<1>4. ASSUME NEW s \in Stages, acts'[p][s] > 0 PROVE acts[p][s] > 0 \/ s \in to
  <2>1. acts'[p][s] = IF s = from THEN acts[p][s] - 1
                      ELSE IF s \in to THEN acts[p][s] + 1 ELSE acts[p][s]
    BY DEF Move, Typed
  <2>2. CASE s = from BY <1>1, <2>2
  <2>3. CASE s # from BY <1>4, <2>1, <2>3
  <2> QED BY <2>2, <2>3
<1> QED BY <1>2, <1>3, <1>4 DEF Doing

LEMMA ActDoing == ASSUME Typed, Doing, NEW p \in Policies, Act(p) PROVE Doing'
<1>1. /\ {"alert", "control", "save", "push", "send"} \subseteq Stages
      /\ \A s \in {"alert", "save", "push"} : Effect(s) = "alert"
      /\ \A s \in {"control", "send"} : Effect(s) = "control"
  BY DEF Stages, Effects, Effect
<1>2. UNCHANGED <<made, engine>>
  BY DEF Act, TriggerAlert, AlertFiltered, SaveAlert, SaveFails, PushAlarm, TriggerControl,
         ControlFiltered, SendControl, requests
<1>3. \A s \in AfterAlert(p) : Effect(s) \in made[p].does
  BY <1>1 DEF AfterAlert
<1>4. CASE TriggerAlert(p)
  BY <1>1, <1>2, <1>3, <1>4, MoveDoing DEF TriggerAlert
<1>5. CASE AlertFiltered(p)
  BY <1>1, <1>2, <1>3, <1>5, MoveDoing DEF AlertFiltered
<1>6. CASE SaveAlert(p) BY <1>1, <1>2, <1>6, MoveDoing DEF SaveAlert
<1>7. CASE SaveFails(p) BY <1>1, <1>2, <1>7, MoveDoing DEF SaveFails
<1>8. CASE PushAlarm(p) BY <1>1, <1>2, <1>8, MoveDoing DEF PushAlarm
<1>9. CASE TriggerControl(p) BY <1>1, <1>2, <1>9, MoveDoing DEF TriggerControl
<1>10. CASE ControlFiltered(p) BY <1>1, <1>2, <1>10, MoveDoing DEF ControlFiltered
<1>11. CASE SendControl(p) BY <1>1, <1>2, <1>11, MoveDoing DEF SendControl
<1> QED BY <1>4, <1>5, <1>6, <1>7, <1>8, <1>9, <1>10, <1>11 DEF Act

LEMMA EvaluateDoing == ASSUME Typed, Doing, NEW e \in Engines, Evaluate(e) PROVE Doing'
<1>1. UNCHANGED made /\ \A d \in Engines : d # e => engine'[d] = engine[d]
  BY DEF Evaluate, Upload, DataFrame, SaveDeviceData, Info, Load, LoadFails, Dispatch,
         requests, Typed
<1>2. ASSUME UNCHANGED acts, engine'[e].pc = "run" => \A p \in engine'[e].todo : made[p] # Unmade
      PROVE  Doing'
  BY <1>1, <1>2 DEF Doing
<1>3. ASSUME NEW sent \in SUBSET Rules, Upload(e, sent) \/ DataFrame(e, sent) PROVE Doing'
  BY <1>2, <1>3 DEF Upload, DataFrame, SaveDeviceData, Typed
<1>4. CASE Info(e) BY <1>2, <1>4 DEF Info, Typed
<1>5. CASE Load(e)
  <2>1. \A p \in table : p \in Policies /\ made[p] # Unmade
    BY DEF Typed
  <2> QED BY <1>2, <1>5, <2>1 DEF Load, Typed
<1>6. CASE LoadFails(e) BY <1>2, <1>6 DEF LoadFails, Typed, Free
<1>7. CASE Dispatch(e)
  <2>1. engine'[e].pc # "run" /\ \A p \in engine[e].todo : made[p] # Unmade
    BY <1>7 DEF Dispatch, Typed, Doing, Free
  <2>2. ASSUME NEW p \in Policies, NEW s \in Stages, acts'[p][s] > 0
        PROVE  made[p] # Unmade /\ Effect(s) \in made[p].does
    <3>1. CASE acts[p][s] > 0 BY <3>1 DEF Doing
    <3>2. CASE p \in engine[e].todo /\ StartsAt(p, s)
      BY <2>1, <3>2 DEF Effect, StartsAt
    <3>3. CASE ~(p \in engine[e].todo /\ StartsAt(p, s))
      <4>1. acts[p][s] \in Nat BY DEF Typed
      <4>2. acts'[p][s] = acts[p][s]
        BY <1>7, <3>3, <4>1 DEF Dispatch
      <4> QED BY <2>2, <3>1, <4>2
    <3> QED BY <3>1, <3>2, <3>3
  <2> QED BY <1>1, <2>1, <2>2 DEF Doing
<1> QED BY <1>3, <1>4, <1>5, <1>6, <1>7 DEF Evaluate

\* A policy that is created was nobody's, so no goroutine is at work for it.
LEMMA CreateDoing ==
    ASSUME Typed, Doing, NEW r \in Requests, NEW p \in Policies, NEW does, Create(r, p, does)
    PROVE  Doing'
<1>1. /\ UNCHANGED <<engine, acts>> /\ made[p] = Unmade
      /\ \A q \in Policies : q # p => made'[q] = made[q]
  BY DEF Create, Typed
<1>2. \A e \in Engines : engine[e].pc = "run" => engine[e].todo \subseteq Policies
  BY DEF Typed, Free
<1> QED BY <1>1, <1>2 DEF Doing

LEMMA NextDoing == ASSUME Typed, Doing, [Next]_vars PROVE Doing'
<1>1. ASSUME UNCHANGED <<made, engine, acts>> PROVE Doing'
  BY <1>1 DEF Doing
<1>2. ASSUME NEW r \in Requests, Request(r) PROVE Doing'
  BY <1>1, <1>2, CreateDoing
  DEF Request, UnbindSelect, CheckOwner, UnbindUpdate, Exists
<1>3. ASSUME NEW u \in Users, Bind(u) \/ \E p \in Policies : DeletePolicy(p, u) PROVE Doing'
  BY <1>1, <1>3 DEF Bind, DeletePolicy
<1>4. ASSUME NEW p \in Policies, NEW k \in Effects, CooldownEnds(p, k) PROVE Doing'
  BY <1>1, <1>4 DEF CooldownEnds, requests
<1>5. CASE UNCHANGED vars BY <1>1, <1>5 DEF vars
<1> QED BY <1>2, <1>3, <1>4, <1>5, ActDoing, EvaluateDoing DEF Next

-----------------------------------------------------------------------------

\* What a request may rely on while none overlaps it, and what the engine's goroutines
\* do, in every reachable state.
THEOREM Inductive == Spec => []IInv
<1>1. Init => IInv
  <2>1. Init => Doing
    BY DEF Init, Doing, Quiet, Free
  <2> QED BY <2>1, InitPlaced DEF IInv
<1>2. IInv /\ [Next]_vars => IInv'
  BY NextPlaced, NextDoing DEF IInv, Placed
<1> QED BY <1>1, <1>2, PTL DEF Spec

\* Every variable keeps its type, and no goroutine does what its policy is not for.
THEOREM TypeCorrect == Spec => []TypeOK
<1>1. IInv => TypeOK BY DEF IInv, Placed, TypeOK
<1> QED BY <1>1, Inductive, PTL

\* Requests that do not overlap leave no policy to the next owner and no rule twice
\* (device_policy.go:23-54, repository/postgres/device.go:64-82).
THEOREM TableStaysClean == Spec => []CleanUnlessRaced
<1>1. IInv => CleanUnlessRaced BY DEF IInv, Placed
<1> QED BY <1>1, Inductive, PTL
=============================================================================
