------------------------------ MODULE RateLimit ------------------------------
(***************************************************************************)
(* The limiter in front of the login (pkg/utils/rate_limit.go), for one    *)
(* client address.  A request first asks whether the lock key exists and,  *)
(* in a later step, runs a Lua script that counts it; Redis runs the       *)
(* script atomically.  Both keys have a time to live.  Time passes in      *)
(* ticks, and a key is its remaining time.                                 *)
(***************************************************************************)
EXTENDS Integers

CONSTANTS
    Requests,   \* bound: requests in progress at any one time
    Limit,      \* config.Limit (5)
    Window,     \* config.Time, in ticks (60 seconds)
    LockTime    \* the lock's time to live, in ticks (60 seconds)

\* A limit of one locks with its first request; the router sets five.
ASSUME LimitAssumption == Limit \in Nat \ {0, 1}
ASSUME TimeAssumption == Window \in Nat \ {0} /\ LockTime \in Nat \ {0}

VARIABLES
    req,      \* req[r]: "free", or "eval" once r has asked for the lock
    count,    \* the counter's value, those past the limit taken as one
    window,   \* remaining time of the counter, 0 when there is none
    lock,     \* remaining time of the lock, 0 when there is none
    passed,   \* history: passed[n], how many the script let pass in the last n
              \* ticks, the present one included
    since,    \* history: ticks since the script last let one pass
    slip      \* history: ticks since one passed although the lock was set

vars == <<req, count, window, lock, passed, since, slip>>

Longest == IF Window > LockTime THEN Window ELSE LockTime

Less(n) == IF n = 0 THEN 0 ELSE n - 1
More(n) == IF n = Longest THEN n ELSE n + 1

TypeOK ==
    /\ req \in [Requests -> {"free", "eval"}]
    /\ count \in 0..(Limit + 1)
    /\ window \in 0..Window
    /\ lock \in 0..LockTime
    /\ (count = 0) = (window = 0)
    /\ passed \in [0..Window -> Nat]
    /\ since \in 0..Longest
    /\ slip \in 0..Longest

Init ==
    /\ req = [r \in Requests |-> "free"]
    /\ count = 0
    /\ window = 0
    /\ lock = 0
    /\ passed = [n \in 0..Window |-> 0]
    /\ since = Longest
    /\ slip = Longest

-----------------------------------------------------------------------------

\* EXISTS finds no lock; an error of Redis is taken for that, too.
Arrive(r) ==
    /\ req[r] = "free"
    /\ req' = [req EXCEPT ![r] = "eval"]
    /\ UNCHANGED <<count, window, lock, passed, since, slip>>

\* EXISTS finds the lock: the request is refused and leaves nothing behind.
Refused(r) ==
    /\ req[r] = "free"
    /\ lock > 0
    /\ UNCHANGED vars

Counted == IF count > Limit THEN count ELSE count + 1

Refuses == Counted > Limit

\* Mutant: the counter is never given a time to live.
ScriptNoExpire ==
    /\ count' = Counted
    /\ window' = window
    /\ lock' = IF Counted = Limit THEN LockTime ELSE lock

\* Mutant: every request starts the window anew.
ScriptRenews ==
    /\ count' = Counted
    /\ window' = Window
    /\ lock' = IF Counted = Limit THEN LockTime ELSE lock

\* Mutant: the lock is set by the first request that is refused.
ScriptLocksLate ==
    /\ count' = Counted
    /\ window' = IF count = 0 THEN Window ELSE window
    /\ lock' = IF Counted > Limit THEN LockTime ELSE lock

\* The first request of a window starts it, the last one sets the lock.
Script ==
    /\ count' = Counted
    /\ window' = IF count = 0 THEN Window ELSE window
    /\ lock' = IF Counted = Limit THEN LockTime ELSE lock

\* EVAL: the request is refused, or goes on to the login.
Eval(r) ==
    /\ req[r] = "eval"
    /\ req' = [req EXCEPT ![r] = "free"]
    /\ Script
    /\ IF Refuses
         THEN UNCHANGED <<passed, since, slip>>
         ELSE /\ passed' = [n \in 0..Window |-> IF n = 0 THEN 0 ELSE passed[n] + 1]
              /\ since' = 0
              /\ slip' = IF lock > 0 THEN 0 ELSE slip

\* EVAL fails, or its answer is lost: the request goes on, whatever the count.
EvalFails(r) ==
    /\ req[r] = "eval"
    /\ req' = [req EXCEPT ![r] = "free"]
    /\ \/ UNCHANGED <<count, window, lock, since>>
       \/ Script /\ since' = IF Refuses THEN since ELSE 0
    /\ UNCHANGED <<passed, slip>>

\* Time passes; a key at the end of its time is gone.
Tick ==
    /\ window' = Less(window)
    /\ count' = IF window <= 1 THEN 0 ELSE count
    /\ lock' = Less(lock)
    /\ passed' = [n \in 0..Window |-> IF n = 0 THEN 0 ELSE passed[n - 1]]
    /\ since' = More(since)
    /\ slip' = More(slip)
    /\ UNCHANGED req

Next ==
    \/ \E r \in Requests : Arrive(r) \/ Refused(r) \/ Eval(r) \/ EvalFails(r)
    \/ Tick

Spec == Init /\ [][Next]_vars

-----------------------------------------------------------------------------
(* Properties. *)

\* "Five logins a minute" (README.md:403), for a minute that begins anywhere:
\* of those the script answers, it lets at most 2 * Limit - 2 pass, the end of
\* one window and the beginning of the next.  One more passes only when a request
\* that had asked for the lock before it was set is counted after it, or with a
\* lock that is shorter than the window (rate_limit.go:20-33, 45-58).
BurstBound ==
    passed[Window] <= 2 * Limit - 2 + (IF slip < Window \/ LockTime < Window THEN 1 ELSE 0)

\* Being refused does not prolong the refusal: when no request has passed for
\* the longer of the two times, neither key refuses the next one
\* (rate_limit.go:21-32).
RefusedBriefly == lock > 0 \/ count >= Limit => since < Longest

\* While the counter refuses, the lock exists and outlives it, so whoever is
\* refused is told how long to wait (rate_limit.go:54-58); it takes a lock that
\* is no shorter than the window.
LockCovers == LockTime >= Window /\ count >= Limit => lock >= window
=============================================================================
