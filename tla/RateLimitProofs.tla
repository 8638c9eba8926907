-------------------------- MODULE RateLimitProofs ---------------------------
(***************************************************************************)
(* TLAPS proofs about RateLimit, for any limit above one, any two times to *)
(* live and any number of requests in progress.                            *)
(***************************************************************************)
EXTENDS RateLimit, TLAPS

\* Of the requests the script counted in the counter's life, those it let pass.
Filled == IF count < Limit THEN count ELSE Limit

\* How long ago the counter began.
Begun == Window - window

\* While there is a counter, what passed since it began, the request that began
\* it apart, is less than it counts; once there is none, less than the limit.
Young ==
    /\ passed[0] = 0
    /\ count > 0 => \A n \in 0..Begun : passed[n] < Filled
    /\ count = 0 => \A n \in 0..Window : passed[n] < Limit

\* As many as the limit allows, without that first one: then the lock is set, and
\* outlasts them.
Locked == LockTime >= Window =>
    \A n \in 0..Window :
        passed[n] >= Limit - 1 /\ (count = 0 \/ n <= Begun) => lock > Window - n

\* What passed before the counter began is the end of another counter's.
Ended ==
    count > 0 => \A n \in 0..Window :
        /\ passed[n] < Filled + Limit
        /\ LockTime >= Window /\ slip > Begun => passed[n] <= Filled + Limit - 2

\* The last request that passed set the lock, or came after the counter began.
Recent ==
    /\ lock > 0 => since <= LockTime - lock
    /\ count >= Limit => since <= Begun

IInv == TypeOK /\ Young /\ Locked /\ Ended /\ Recent /\ LockCovers

LEMMA InitIInv == Init => IInv
BY LimitAssumption, TimeAssumption
DEF Init, IInv, TypeOK, Young, Locked, Ended, Recent, LockCovers, Longest

\* What the script does to the two keys.
LEMMA ScriptKeys ==
    ASSUME TypeOK, LockCovers, Script
    PROVE  /\ count' \in 1..(Limit + 1) /\ window' \in 1..Window /\ lock' \in 0..LockTime
           /\ LockCovers'
           /\ count = 0 => count' = 1 /\ window' = Window /\ lock' = lock
           /\ count > 0 => window' = window
           /\ count < Limit => count' = count + 1 /\ ~Refuses
           /\ count >= Limit => count' = Limit + 1 /\ lock' = lock /\ Refuses
           /\ count < Limit - 1 => lock' = lock
           /\ count = Limit - 1 => lock' = LockTime
BY LimitAssumption, TimeAssumption
DEF Script, Counted, Refuses, TypeOK, LockCovers

LEMMA TickIInv == ASSUME IInv, Tick PROVE IInv'
<1> USE LimitAssumption, TimeAssumption DEF IInv
<1>1. TypeOK'
  BY DEF Tick, TypeOK, Less, More, Longest
<1>2. Young'
  BY DEF Tick, TypeOK, Less, Young, Filled, Begun
<1>3. Locked'
  BY DEF Tick, TypeOK, Less, Locked, Begun
<1>4. Ended'
  BY DEF Tick, TypeOK, Less, More, Longest, Ended, Filled, Begun
<1>5. Recent'
  BY DEF Tick, TypeOK, Less, More, Longest, Recent, Begun
<1>6. LockCovers'
  BY DEF Tick, TypeOK, Less, LockCovers
<1> QED BY <1>1, <1>2, <1>3, <1>4, <1>5, <1>6

\* A request that the script lets pass is counted in every window it falls in.
LEMMA PassIInv ==
    ASSUME IInv, NEW r \in Requests, Eval(r), count < Limit
    PROVE  TypeOK' /\ Young' /\ Locked' /\ Ended' /\ Recent'
<1> USE LimitAssumption, TimeAssumption DEF IInv
<1>1. /\ passed' = [n \in 0..Window |-> IF n = 0 THEN 0 ELSE passed[n] + 1]
      /\ since' = 0
      /\ slip' = IF lock > 0 THEN 0 ELSE slip
      /\ req' = [req EXCEPT ![r] = "free"]
  BY ScriptKeys DEF Eval
<1>2. /\ count' = count + 1 /\ window' \in 1..Window /\ lock' \in 0..LockTime
      /\ count = 0 => window' = Window
      /\ count > 0 => window' = window
      /\ count = Limit - 1 => lock' = LockTime
      /\ count < Limit - 1 => lock' = lock
  BY ScriptKeys DEF Eval, TypeOK
<1>3. /\ count \in 0..(Limit - 1) /\ window \in 0..Window /\ lock \in 0..LockTime
      /\ passed \in [0..Window -> Nat] /\ slip \in 0..Longest
      /\ (count = 0) = (window = 0)
  BY DEF TypeOK
<1>0. /\ Begun \in 0..Window /\ Begun' \in 0..Window
      /\ count = 0 => Begun' = 0
      /\ count > 0 => Begun' = Begun
      /\ Filled = count /\ Filled' = count + 1
  <2>1. CASE count = 0
    <3>1. window = 0 /\ window' = Window BY <1>2, <1>3, <2>1
    <3> QED BY <1>2, <2>1, <3>1 DEF Begun, Filled
  <2>2. CASE count > 0
    <3>1. window' = window BY <1>2, <2>2
    <3> QED BY <1>2, <1>3, <2>2, <3>1 DEF Begun, Filled
  <2> QED BY <1>3, <2>1, <2>2
<1>4. TypeOK'
  <2>1. passed' \in [0..Window -> Nat] BY <1>1, <1>3
  <2>2. since' \in 0..Longest /\ slip' \in 0..Longest BY <1>1, <1>3 DEF Longest
  <2>3. count' \in 0..(Limit + 1) /\ (count' = 0) = (window' = 0) BY <1>2, <1>3
  <2> QED BY <1>1, <1>2, <2>1, <2>2, <2>3 DEF TypeOK
<1>5. Young'
  <2>1. ASSUME NEW n \in 0..Window, n <= Begun' PROVE passed'[n] < Filled'
    <3>1. CASE n = 0 BY <1>0, <1>1, <1>3, <3>1
    <3>2. CASE n > 0
      <4>1. count > 0 /\ n <= Begun BY <1>0, <1>3, <2>1, <3>2
      <4>2. passed[n] < Filled BY <1>0, <4>1 DEF Young
      <4> QED BY <1>0, <1>1, <1>3, <3>2, <4>2
    <3> QED BY <3>1, <3>2
  <2> QED BY <1>0, <1>1, <1>2, <1>3, <2>1 DEF Young
<1>6. Locked'
  <2> SUFFICES ASSUME LockTime >= Window, NEW n \in 0..Window,
                      passed'[n] >= Limit - 1, n <= Begun'
               PROVE  lock' > Window - n
    BY <1>2, <1>3 DEF Locked
  <2>1. n > 0 /\ passed'[n] = passed[n] + 1
    BY <1>1, <1>3
  <2>2. count > 0 /\ n <= Begun
    BY <1>0, <1>3, <2>1
  <2>3. passed[n] < Filled
    BY <1>0, <2>2 DEF Young
  <2>4. count = Limit - 1
    BY <1>0, <1>3, <2>1, <2>3
  <2> QED BY <1>2, <2>1, <2>4
<1>7. Ended'
  <2> SUFFICES ASSUME NEW n \in 0..Window
               PROVE  /\ passed'[n] < Filled' + Limit
                      /\ LockTime >= Window /\ slip' > Begun' => passed'[n] <= Filled' + Limit - 2
    BY DEF Ended
  <2>2. CASE count = 0
    <3>1. passed[n] < Limit
      BY <2>2 DEF Young
    <3>2. LockTime >= Window /\ passed[n] >= Limit - 1 => lock > 0
      BY <1>3, <2>2 DEF Locked
    <3>3. passed'[n] <= passed[n] + 1 /\ passed'[n] \in Nat /\ passed[n] \in Nat
      BY <1>1, <1>3
    <3> QED BY <1>0, <1>1, <1>3, <2>2, <3>1, <3>2, <3>3
  <2>3. CASE count > 0
    <3>1. /\ passed[n] < count + Limit
          /\ LockTime >= Window /\ slip > Begun => passed[n] <= count + Limit - 2
      BY <1>0, <2>3 DEF Ended
    <3>3. passed'[n] <= passed[n] + 1 /\ passed'[n] \in Nat /\ passed[n] \in Nat
      BY <1>1, <1>3
    <3> QED BY <1>0, <1>1, <1>3, <2>3, <3>1, <3>3
  <2> QED BY <1>3, <2>2, <2>3
<1>8. Recent'
  <2>1. lock' > 0 => since' <= LockTime - lock'
    <3>1. lock' = lock \/ lock' = LockTime BY <1>2, <1>3
    <3> QED BY <1>1, <1>3, <3>1
  <2>2. count' >= Limit => since' <= Begun'
    BY <1>0, <1>1
  <2> QED BY <2>1, <2>2 DEF Recent
<1> QED BY <1>4, <1>5, <1>6, <1>7, <1>8

\* One that is refused moves neither key.
LEMMA RefuseIInv ==
    ASSUME IInv, NEW r \in Requests, Eval(r), count >= Limit
    PROVE  TypeOK' /\ Young' /\ Locked' /\ Ended' /\ Recent'
<1> USE LimitAssumption, TimeAssumption DEF IInv
<1>1. /\ UNCHANGED <<passed, since, slip, window, lock>>
      /\ count' = Limit + 1
      /\ req' = [req EXCEPT ![r] = "free"]
  BY ScriptKeys DEF Eval, TypeOK
<1>2. Filled' = Filled /\ Begun' = Begun
  BY <1>1 DEF Filled, Begun, TypeOK
<1> QED
  BY <1>1, <1>2 DEF TypeOK, Young, Locked, Ended, Recent

LEMMA EvalFailsIInv == ASSUME IInv, NEW r \in Requests, EvalFails(r) PROVE IInv'
<1> USE LimitAssumption, TimeAssumption DEF IInv
<1>1. TypeOK'
  BY ScriptKeys DEF EvalFails, TypeOK, Longest
<1>2. CASE UNCHANGED <<count, window, lock, since>>
  BY <1>1, <1>2 DEF EvalFails, Young, Locked, Ended, Recent, LockCovers, Filled, Begun
<1>3. CASE Script /\ since' = IF Refuses THEN since ELSE 0
  <2>0. /\ count \in 0..(Limit + 1) /\ window \in 0..Window /\ lock \in 0..LockTime
        /\ passed \in [0..Window -> Nat] /\ slip \in 0..Longest
        /\ UNCHANGED <<passed, slip>>
    BY DEF TypeOK, EvalFails
  <2>1. Young'
    <3>1. CASE count = 0
      BY <1>3, <2>0, <3>1, ScriptKeys DEF Young, Filled, Begun
    <3>2. CASE count > 0
      <4>1. Begun' = Begun /\ Filled' >= Filled /\ count' > 0
        BY <1>3, <2>0, <3>2, ScriptKeys DEF Filled, Begun
      <4>2. Filled \in Nat /\ Filled' \in Nat /\ Begun \in 0..Window
        BY <1>1, <2>0 DEF Filled, Begun, TypeOK
      <4> QED BY <2>0, <3>2, <4>1, <4>2 DEF Young
    <3> QED BY <2>0, <3>1, <3>2
  <2>2. Locked'
    <3> SUFFICES ASSUME LockTime >= Window, NEW n \in 0..Window,
                        passed[n] >= Limit - 1, n <= Begun'
                 PROVE  lock' > Window - n
      BY <1>3, <2>0, ScriptKeys DEF Locked
    <3>1. n > 0
      BY <2>0 DEF Young
    <3>2. lock' = LockTime \/ (lock' = lock /\ Begun' = Begun /\ count > 0)
      <4>1. count = 0 => window' = Window
        BY <1>3, <2>0, ScriptKeys
      <4>2. count > 0
        BY <2>0, <3>1, <4>1 DEF Begun
      <4>3. Begun' = Begun
        BY <1>3, <2>0, <4>2, ScriptKeys DEF Begun
      <4>4. lock' = LockTime \/ lock' = lock
        BY <1>3, ScriptKeys, <2>0
      <4> QED BY <2>0, <4>2, <4>3, <4>4
    <3> QED BY <2>0, <3>1, <3>2 DEF Locked
  <2>3. Ended'
    <3> SUFFICES ASSUME NEW n \in 0..Window
                 PROVE  /\ passed[n] < Filled' + Limit
                        /\ LockTime >= Window /\ slip > Begun' => passed[n] <= Filled' + Limit - 2
      BY <2>0 DEF Ended
    <3>1. CASE count = 0
      BY <1>3, <2>0, <3>1, ScriptKeys DEF Young, Filled
    <3>2. CASE count > 0
      <4>1. Begun' = Begun /\ Filled' >= Filled /\ count' > 0
        BY <1>3, <2>0, <3>2, ScriptKeys DEF Filled, Begun
      <4>2. Filled \in Nat /\ Filled' \in Nat /\ Begun \in 0..Window
        BY <1>1, <2>0 DEF Filled, Begun, TypeOK
      <4> QED BY <2>0, <3>2, <4>1, <4>2 DEF Ended
    <3> QED BY <2>0, <3>1, <3>2
  <2>4. Recent'
    BY <1>3, ScriptKeys DEF EvalFails, TypeOK, Recent, Begun
  <2> QED BY <1>1, <1>3, <2>1, <2>2, <2>3, <2>4, ScriptKeys
<1> QED BY <1>2, <1>3 DEF EvalFails

LEMMA NextIInv == IInv /\ [Next]_vars => IInv'
<1> SUFFICES ASSUME IInv, [Next]_vars PROVE IInv'
  OBVIOUS
<1>1. ASSUME NEW r \in Requests, Arrive(r) PROVE IInv'
  BY <1>1 DEF Arrive, IInv, TypeOK, Young, Locked, Ended, Recent, LockCovers, Filled, Begun
<1>2. ASSUME NEW r \in Requests, Refused(r) PROVE UNCHANGED vars
  BY <1>2 DEF Refused
<1>3. ASSUME UNCHANGED vars PROVE IInv'
  BY <1>3 DEF vars, IInv, TypeOK, Young, Locked, Ended, Recent, LockCovers, Filled, Begun
<1>4. ASSUME NEW r \in Requests, Eval(r) PROVE IInv'
  <2>1. LockCovers'
    BY <1>4, ScriptKeys DEF Eval, IInv
  <2>2. count < Limit \/ count >= Limit
    BY LimitAssumption DEF IInv, TypeOK
  <2> QED BY <1>4, <2>1, <2>2, PassIInv, RefuseIInv DEF IInv
<1> QED BY <1>1, <1>2, <1>3, <1>4, EvalFailsIInv, TickIInv DEF Next

-----------------------------------------------------------------------------

\* What passed, by age, against what the present counter and the one before it can
\* have let through.
THEOREM Inductive == Spec => []IInv
<1> QED BY InitIInv, NextIInv, PTL DEF Spec

\* Every variable keeps its type.
THEOREM TypeCorrect == Spec => []TypeOK
<1>1. IInv => TypeOK BY DEF IInv
<1> QED BY <1>1, Inductive, PTL

\* In no window, wherever it begins, does the script let more pass than twice the
\* limit less two, and one more after a late lookup (rate_limit.go:20-33, 45-58).
THEOREM BurstsAreBounded == Spec => []BurstBound
<1>1. IInv => BurstBound
  BY LimitAssumption, TimeAssumption
  DEF IInv, TypeOK, Young, Ended, BurstBound, Filled, Begun
<1> QED BY <1>1, Inductive, PTL

\* A refusal ends by itself in the longer of the two times (rate_limit.go:21-32).
THEOREM RefusalsEnd == Spec => []RefusedBriefly
<1>1. IInv => RefusedBriefly
  BY LimitAssumption, TimeAssumption DEF IInv, TypeOK, Recent, RefusedBriefly, Longest, Begun
<1> QED BY <1>1, Inductive, PTL

\* Whoever the counter refuses finds the lock, too (rate_limit.go:54-58).
THEOREM LockOutlastsCounter == Spec => []LockCovers
<1>1. IInv => LockCovers BY DEF IInv
<1> QED BY <1>1, Inductive, PTL
=============================================================================
