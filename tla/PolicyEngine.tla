---------------------------- MODULE PolicyEngine ----------------------------
(***************************************************************************)
(* The policies of one device and the engine that runs them: the rows of   *)
(* device_policies, the requests that create and delete them or unbind the *)
(* device, and, for every frame the device sends, a goroutine that loads   *)
(* the rows and starts one more for each policy whose threshold the values *)
(* cross; that one raises an alarm and commands the device, each at most   *)
(* once in the 6 seconds of a Redis cooldown key.  Nothing waits for these *)
(* goroutines and nothing stops them: they work on the copy of the policy  *)
(* they were started with.                                                 *)
(***************************************************************************)
EXTENDS Naturals

CONSTANTS
    Users,      \* user identifiers
    NoUser,     \* a NULL user_id
    Policies,   \* bound: the policy_id's the table ever hands out
    Rules,      \* combinations of sensor, operator and threshold
    ZeroHits,   \* those that a frame of zeros satisfies
    Kinds,      \* bound: the sets of effects that policies are created with
    Requests,   \* bound: requests in progress at any one time
    Engines,    \* bound: frames being evaluated at any one time
    MaxActs     \* bound: frames wait while a policy has this many goroutines

ASSUME NamesAssumption == NoUser \notin Users
ASSUME ZeroAssumption == ZeroHits \subseteq Rules
ASSUME BoundAssumption == MaxActs \in Nat \ {0}
ASSUME KindsAssumption == Kinds \subseteq SUBSET {"alert", "control"}

VARIABLES
    owner,    \* the device's user_id
    table,    \* the policies that have a row
    made,     \* made[p]: user, rule and effects of p, set when p is created
    req,      \* req[r]: what request slot r is doing
    engine,   \* engine[e]: what the goroutine of a frame is doing
    acts,     \* acts[p][stage]: goroutines at that stage of acting for p
    cool,     \* the cooldown keys that exist, <<policy, effect>>
    overlap   \* history: some request began while another was under way

vars == <<owner, table, made, req, engine, acts, cool, overlap>>

requests == <<owner, table, made, req, overlap>>

Effects == {"alert", "control"}
Stages == Effects \cup {"save", "push", "send"}
Quiet == [s \in Stages |-> 0]
Free == [pc |-> "free"]
Unmade == [user |-> NoUser]

\* What a policy does: alert needs a message, control a known target.
Policy == [user : Users, rule : Rules, does : SUBSET Effects]

Typed ==
    /\ owner \in Users \cup {NoUser}
    /\ table \in SUBSET {p \in Policies : made[p] # Unmade}
    /\ made \in [Policies -> Policy \cup {Unmade}]
    /\ req \in [Requests ->
          [pc : {"exists", "update"}, user : Users]
            \cup [pc : {"insert"}, user : Users, rule : Rules] \cup {Free}]
    /\ engine \in [Engines ->
          [pc : {"info"}, hits : SUBSET Rules, sent : SUBSET Rules]
            \cup [pc : {"load"}, hits : SUBSET Rules, bound : BOOLEAN]
            \cup [pc : {"run"}, todo : SUBSET Policies] \cup {Free}]
    /\ acts \in [Policies -> [Stages -> Nat]]
    /\ cool \in SUBSET (Policies \X Effects)
    /\ overlap \in BOOLEAN

\* What a goroutine at a stage is about to do.
Effect(s) == IF s \in {"control", "send"} THEN "control" ELSE "alert"

\* The goroutines at work, and the copies they will be started from, are of policies
\* that exist or existed, and do nothing but what their policy is for.
Doing ==
    /\ \A e \in Engines : engine[e].pc = "run" => \A p \in engine[e].todo : made[p] # Unmade
    /\ \A p \in Policies, s \in Stages :
        acts[p][s] > 0 => made[p] # Unmade /\ Effect(s) \in made[p].does

TypeOK == Typed /\ Doing

Init ==
    /\ owner = NoUser
    /\ table = {}
    /\ made = [p \in Policies |-> Unmade]
    /\ req = [r \in Requests |-> Free]
    /\ engine = [e \in Engines |-> Free]
    /\ acts = [p \in Policies |-> Quiet]
    /\ cool = {}
    /\ overlap = FALSE

-----------------------------------------------------------------------------
(* Requests: binding and unbinding, creating and deleting policies. *)

Arrive(r, state) ==
    /\ req[r] = Free
    /\ req' = [req EXCEPT ![r] = state]
    /\ overlap' = (overlap \/ \E q \in Requests : req[q] # Free)

Finish(r) == req' = [req EXCEPT ![r] = Free]

Bind(u) ==
    /\ owner = NoUser
    /\ owner' = u
    /\ UNCHANGED <<table, made, req, engine, acts, cool, overlap>>

UnbindSelect(r, u) ==
    /\ owner = u
    /\ Arrive(r, [pc |-> "update", user |-> u])
    /\ UNCHANGED <<owner, table, made, engine, acts, cool>>

\* Mutant: the policies are left to the next owner.
UnbindKeepsPolicies(r) ==
    /\ req[r].pc = "update"
    /\ owner' = NoUser
    /\ Finish(r)
    /\ UNCHANGED <<table, made, engine, acts, cool, overlap>>

\* The device's row is updated by its id, this user's policies are deleted.
UnbindUpdate(r) ==
    /\ req[r].pc = "update"
    /\ owner' = NoUser
    /\ table' = {p \in table : made[p].user # req[r].user}
    /\ Finish(r)
    /\ UNCHANGED <<made, engine, acts, cool, overlap>>

\* CreatePolicy: the user owns the device ...
CheckOwner(r, u) ==
    /\ owner = u
    /\ Arrive(r, [pc |-> "exists", user |-> u])
    /\ UNCHANGED <<owner, table, made, engine, acts, cool>>

\* ... and the device has no policy of the same rule, whoever's it is ...
Exists(r, rule) ==
    /\ req[r].pc = "exists"
    /\ IF \E p \in table : made[p].rule = rule
         THEN Finish(r)
         ELSE req' = [req EXCEPT ![r] = [pc |-> "insert", user |-> req[r].user,
                                         rule |-> rule]]
    /\ UNCHANGED <<owner, table, made, engine, acts, cool, overlap>>

\* ... and then it is inserted.
Create(r, p, does) ==
    /\ req[r].pc = "insert"
    /\ made[p] = Unmade
    /\ made' = [made EXCEPT ![p] = [user |-> req[r].user, rule |-> req[r].rule,
                                    does |-> does]]
    /\ table' = table \cup {p}
    /\ Finish(r)
    /\ UNCHANGED <<owner, engine, acts, cool, overlap>>

\* DeletePolicy: what GetPolicyByID reads of a policy never changes, so the
\* check and the DELETE make one step.
DeletePolicy(p, u) ==
    /\ p \in table
    /\ made[p].user = u
    /\ table' = table \ {p}
    /\ UNCHANGED <<owner, made, req, engine, acts, cool, overlap>>

-----------------------------------------------------------------------------
(* ExecutePolicyEngine. *)

\* SaveDeviceData has stored a frame and starts the engine; sent and hits are the
\* rules that the values the device sent, and the values stored, satisfy.
SaveDeviceData(e, sent, hits) ==
    /\ engine[e] = Free
    /\ \A p \in Policies, s \in Stages : acts[p][s] < MaxActs
    /\ engine' = [engine EXCEPT ![e] = [pc |-> "info", hits |-> hits, sent |-> sent]]
    /\ UNCHANGED <<requests, acts, cool>>

\* POST /devicedata/uploaddata: what was sent is stored.
Upload(e, sent) == SaveDeviceData(e, sent, sent)

\* A frame on the device's websocket: its signature and age are checked, and a
\* fresh DeviceData is stored that has the device's identifier and zeros.
DataFrame(e, sent) == SaveDeviceData(e, sent, ZeroHits)

\* An unbound device is noticed, and the engine goes on all the same.
Info(e) ==
    /\ engine[e].pc = "info"
    /\ engine' = [engine EXCEPT ![e] = [pc |-> "load", hits |-> engine[e].hits,
                                        bound |-> owner # NoUser]]
    /\ UNCHANGED <<requests, acts, cool>>

\* Mutant: the engine keeps the policies it has once seen.
LoadCached(e) ==
    /\ engine[e].pc = "load"
    /\ engine' = [engine EXCEPT ![e] =
          [pc |-> "run", todo |-> {p \in Policies : /\ made[p] # Unmade
                                                    /\ made[p].rule \in engine[e].hits}]]
    /\ UNCHANGED <<requests, acts, cool>>

\* GetByDeviceID, and the policies the values trigger.
Load(e) ==
    /\ engine[e].pc = "load"
    /\ engine' = [engine EXCEPT ![e] =
          [pc |-> "run", todo |-> {p \in table : made[p].rule \in engine[e].hits}]]
    /\ UNCHANGED <<requests, acts, cool>>

\* The device or its policies cannot be read: the frame has no effect.
LoadFails(e) ==
    /\ engine[e].pc \in {"info", "load"}
    /\ engine' = [engine EXCEPT ![e] = Free]
    /\ UNCHANGED <<requests, acts, cool>>

\* handleAction begins with the alarm, if there is one.
StartsAt(p, s) ==
    \/ s = "alert" /\ s \in made[p].does
    \/ s = "control" /\ made[p].does = {s}

\* One goroutine for every policy in the copy, deleted meanwhile or not.
Dispatch(e) ==
    /\ engine[e].pc = "run"
    /\ acts' = [p \in Policies |->
          IF p \notin engine[e].todo THEN acts[p]
          ELSE [s \in Stages |-> acts[p][s] + IF StartsAt(p, s) THEN 1 ELSE 0]]
    /\ engine' = [engine EXCEPT ![e] = Free]
    /\ UNCHANGED <<requests, cool>>

-----------------------------------------------------------------------------
(* handleAction: the alarm first, then the control command. *)

\* One goroutine of p leaves one stage for those of a set.
Move(p, from, to) ==
    /\ acts[p][from] > 0
    /\ acts' = [acts EXCEPT ![p] = [s \in Stages |->
          IF s = from THEN acts[p][s] - 1
          ELSE IF s \in to THEN acts[p][s] + 1 ELSE acts[p][s]]]

\* Mutant: whatever raises an alarm commands the device, too.
AfterAlertAlways(p) == {"control"}

\* handleAction goes on to the command only when the policy has one.
AfterAlert(p) == made[p].does \cap {"control"}

\* Mutant: the key of the alarm is also that of the command.
TriggerAlertSharedKey(p) ==
    /\ <<p, "alert">> \notin cool
    /\ Move(p, "alert", AfterAlert(p) \cup {"save"})
    /\ cool' = cool \cup {<<p, "alert">>, <<p, "control">>}
    /\ UNCHANGED <<requests, engine>>

\* SetNX of the alarm's key succeeds: a goroutine of its own saves the alarm.
TriggerAlert(p) ==
    /\ <<p, "alert">> \notin cool
    /\ Move(p, "alert", AfterAlert(p) \cup {"save"})
    /\ cool' = cool \cup {<<p, "alert">>}
    /\ UNCHANGED <<requests, engine>>

\* The key exists already, or Redis does not answer.
AlertFiltered(p) ==
    /\ Move(p, "alert", AfterAlert(p))
    /\ UNCHANGED <<requests, engine, cool>>

SaveAlert(p) ==
    /\ Move(p, "save", {"push"})
    /\ UNCHANGED <<requests, engine, cool>>

\* The row cannot be written: the alarm is lost, its key stays.
SaveFails(p) ==
    /\ Move(p, "save", {})
    /\ UNCHANGED <<requests, engine, cool>>

\* SendToUser, to the user who created the policy.
PushAlarm(p) ==
    /\ Move(p, "push", {})
    /\ UNCHANGED <<requests, engine, cool>>

TriggerControl(p) ==
    /\ <<p, "control">> \notin cool
    /\ Move(p, "control", {"send"})
    /\ cool' = cool \cup {<<p, "control">>}
    /\ UNCHANGED <<requests, engine>>

ControlFiltered(p) ==
    /\ Move(p, "control", {})
    /\ UNCHANGED <<requests, engine, cool>>

\* GetUIDByID and SendToDevice; when they fail, the command is lost.
SendControl(p) ==
    /\ Move(p, "send", {})
    /\ UNCHANGED <<requests, engine, cool>>

\* Mutant: the command's key is stored without a time to live.
CooldownNever(p, k) ==
    /\ k = "alert"
    /\ <<p, k>> \in cool
    /\ cool' = cool \ {<<p, k>>}
    /\ UNCHANGED <<requests, engine, acts>>

\* 6 seconds after SetNX.
CooldownEnds(p, k) ==
    /\ <<p, k>> \in cool
    /\ cool' = cool \ {<<p, k>>}
    /\ UNCHANGED <<requests, engine, acts>>

-----------------------------------------------------------------------------

Request(r) ==
    \/ \E u \in Users : UnbindSelect(r, u) \/ CheckOwner(r, u)
    \/ UnbindUpdate(r)
    \/ \E rule \in Rules : Exists(r, rule)
    \/ \E p \in Policies, does \in Kinds : Create(r, p, does)

Evaluate(e) ==
    \/ \E sent \in SUBSET Rules : Upload(e, sent) \/ DataFrame(e, sent)
    \/ Info(e) \/ Load(e) \/ LoadFails(e) \/ Dispatch(e)

Act(p) ==
    \/ TriggerAlert(p) \/ AlertFiltered(p) \/ SaveAlert(p) \/ SaveFails(p) \/ PushAlarm(p)
    \/ TriggerControl(p) \/ ControlFiltered(p) \/ SendControl(p)

Next ==
    \/ \E u \in Users : Bind(u) \/ \E p \in Policies : DeletePolicy(p, u)
    \/ \E r \in Requests : Request(r)
    \/ \E e \in Engines : Evaluate(e)
    \/ \E p \in Policies : Act(p) \/ \E k \in Effects : CooldownEnds(p, k)

Spec == Init /\ [][Next]_vars

-----------------------------------------------------------------------------
(* Safety. *)

\* Requests that come one after the other keep the table clean: every policy is
\* the present owner's, and none has the rule of another; only requests that
\* overlap can leave a former owner's policy behind, or the same rule twice
\* (device_policy.go:23-54, repository/postgres/device.go:64-82).
CleanUnlessRaced == ~overlap =>
    /\ \A p \in table : made[p].user = owner
    /\ \A p, q \in table : made[p].rule = made[q].rule => p = q

-----------------------------------------------------------------------------
(* Liveness. *)

\* Goroutines run to their end, keys expire, and Redis and the database do not
\* fail for ever.
Fairness ==
    /\ \A e \in Engines : WF_vars(Info(e) \/ Load(e) \/ LoadFails(e) \/ Dispatch(e))
    /\ \A p \in Policies :
        /\ WF_vars(TriggerAlert(p) \/ AlertFiltered(p)) /\ SF_vars(TriggerAlert(p))
        /\ WF_vars(SaveAlert(p) \/ SaveFails(p)) /\ SF_vars(SaveAlert(p))
        /\ WF_vars(TriggerControl(p) \/ ControlFiltered(p)) /\ SF_vars(TriggerControl(p))
        /\ WF_vars(PushAlarm(p))
        /\ WF_vars(SendControl(p))
        /\ \A k \in Effects : WF_vars(CooldownEnds(p, k))

FairSpec == Spec /\ Fairness

\* A policy that keeps being triggered keeps acting, in each of its ways: the
\* cooldown keys, spent also on alarms that cannot be saved, filter repetitions
\* and never mute a policy, nor one effect the other (device_data.go:136-217).
KeepsActing == \A p \in Policies, k \in Effects :
    ( /\ <>[](made[p] # Unmade /\ k \in made[p].does)
      /\ []<>(\E e \in Engines : engine[e].pc = "run" /\ p \in engine[e].todo) )
    => []<>(acts[p][IF k = "alert" THEN "push" ELSE "send"] > 0)

\* A deleted policy falls silent: what engines and goroutines still hold a copy
\* of it runs out, though frames keep triggering it (device_data.go:104-131).
DeletedFallsSilent == \A p \in Policies :
    <>[](made[p] # Unmade /\ p \notin table) => <>[](acts[p] = Quiet)

-----------------------------------------------------------------------------
(* What the documents say and the code does not do. *)

\* "Data reported after the unbinding is stored, but the policy engine skips
\* devices without a user": the frame of a device that its engine has found
\* unbound, and that is unbound still, starts no action.
UnboundIsSkipped == [][\A e \in Engines :
    engine[e].pc = "load" /\ ~engine[e].bound /\ owner = NoUser /\ engine'[e].pc = "run"
        => engine'[e].todo = {}]_vars

\* "Runs after every saving of device data and matches the current values of the
\* sensors": what the engine is about to match is what the device sent.
ValuesAreMatched ==
    \A e \in Engines : engine[e].pc = "info" => engine[e].hits = engine[e].sent
=============================================================================
