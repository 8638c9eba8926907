------------------------------ MODULE Sessions ------------------------------
(***************************************************************************)
(* The sessions of one user: the browsers and phones that sign in and out, *)
(* the captcha each sign-in spends, and the Redis set auth:tokens:<user>   *)
(* that every authenticated request is looked up in.  Each Redis command   *)
(* is a step, since nothing groups them; any of them may fail, and most    *)
(* errors are ignored.  A token carries the second it was issued in and    *)
(* nothing else that differs, so it is that second: two sign-ins of one    *)
(* second share their token.                                               *)
(***************************************************************************)
EXTENDS Naturals

CONSTANTS
    Clients,    \* the user's browsers and phones
    Captchas,   \* names of captcha keys; a name is used again for a new one
    NoCaptcha,
    Life,       \* how long a token and the set live (3 days)
    MaxTime     \* bound: ticks that pass

ASSUME NamesAssumption == NoCaptcha \notin Captchas
ASSUME TimeAssumption == Life \in Nat \ {0} /\ MaxTime \in Nat

VARIABLES
    now,       \* the time
    set,       \* the tokens in auth:tokens:<user>
    expiry,    \* when that key expires, 0 when it has no time to live
    captcha,   \* the captcha keys that exist
    spent,     \* history: captchas whose key a request has deleted
    cl,        \* cl[c]: where client c's request stands, its token and captcha
    twins,     \* history: tokens issued to two clients
    left,      \* history: tokens of sign-outs that removed nothing
    undated    \* history: an EXPIRE failed, or never came, since the last one

vars == <<now, set, expiry, captcha, spent, cl, twins, left, undated>>

Times == 0..MaxTime
NoToken == MaxTime + 1

\* exposed is a history: something befell this sign-in that the others survive.
Client ==
    [pc : {"out", "verified", "add", "expire", "in", "srem", "scard", "del"},
     token : Times \cup {NoToken},
     captcha : Captchas \cup {NoCaptcha},
     exposed : BOOLEAN]

SignedOut == [pc |-> "out", token |-> NoToken, captcha |-> NoCaptcha, exposed |-> FALSE]

TypeOK ==
    /\ now \in Times
    /\ set \in SUBSET Times
    /\ expiry \in 0..(MaxTime + Life)
    /\ set = {} => expiry = 0
    /\ captcha \in SUBSET Captchas
    /\ spent \in SUBSET Captchas
    /\ cl \in [Clients -> Client]
    /\ twins \in SUBSET Times
    /\ left \in SUBSET Times
    /\ undated \in BOOLEAN

Init ==
    /\ now = 0
    /\ set = {}
    /\ expiry = 0
    /\ captcha = {}
    /\ spent = {}
    /\ cl = [c \in Clients |-> SignedOut]
    /\ twins = {}
    /\ left = {}
    /\ undated = FALSE

-----------------------------------------------------------------------------
(* Captchas. *)

\* GenerateCaptchaService: a new id, so no request holds one of this name.
IssueCaptcha(k) ==
    /\ k \notin captcha
    /\ \A c \in Clients : cl[c].captcha # k
    /\ captcha' = captcha \cup {k}
    /\ spent' = spent \ {k}
    /\ UNCHANGED <<now, set, expiry, cl, twins, left, undated>>

\* 5 minutes after it was stored.
CaptchaExpires(k) ==
    /\ k \in captcha
    /\ captcha' = captcha \ {k}
    /\ UNCHANGED <<now, set, expiry, spent, cl, twins, left, undated>>

\* VerifyCaptcha finds the key and the right answer ...
GetCaptcha(c, k) ==
    /\ cl[c].pc = "out"
    /\ k \in captcha
    /\ cl' = [cl EXCEPT ![c].pc = "verified", ![c].captcha = k]
    /\ UNCHANGED <<now, set, expiry, captcha, spent, twins, left, undated>>

\* Mutant: the captcha is left to expire.
KeepCaptcha(k) == UNCHANGED captcha /\ spent' = spent \cup {k}

\* ... and deletes the key.
DelCaptcha(k) == captcha' = captcha \ {k} /\ spent' = spent \cup {k}

-----------------------------------------------------------------------------
(* Login. *)

\* The captcha is deleted, or that fails; the user is refused, ...
Refused(c) ==
    /\ cl[c].pc = "verified"
    /\ \/ DelCaptcha(cl[c].captcha)
       \/ UNCHANGED <<captcha, spent>>
    /\ cl' = [cl EXCEPT ![c] = SignedOut]
    /\ UNCHANGED <<now, set, expiry, twins, left, undated>>

Holders(t) == {c \in Clients : cl[c].token = t}

\* ... or the password is right and GenerateToken issues a token.
GenerateToken(c) ==
    /\ cl[c].pc = "verified"
    /\ \/ DelCaptcha(cl[c].captcha)
       \/ UNCHANGED <<captcha, spent>>
    /\ cl' = [cl EXCEPT ![c] = [SignedOut EXCEPT !.pc = "add", !.token = now]]
    /\ twins' = IF Holders(now) # {} THEN twins \cup {now} ELSE twins
    /\ UNCHANGED <<now, set, expiry, left, undated>>

\* Mutant: the error of GenerateToken is dropped with its token empty.
SAddEmpty(c) ==
    /\ cl[c].pc = "add"
    /\ set' = set \cup {NoToken}
    /\ cl' = [cl EXCEPT ![c].pc = "expire"]
    /\ UNCHANGED <<now, expiry, captcha, spent, twins, left, undated>>

\* SADD; a sign-out that has counted an empty set and not yet deleted the key
\* will delete this token with it.
SAdd(c) ==
    /\ cl[c].pc = "add"
    /\ set' = set \cup {cl[c].token}
    /\ cl' = [cl EXCEPT ![c].pc = "expire",
                        ![c].exposed = \E d \in Clients : cl[d].pc = "del"]
    /\ UNCHANGED <<now, expiry, captcha, spent, twins, left, undated>>

\* The error is ignored: the token is handed out all the same.
SAddFails(c) ==
    /\ cl[c].pc = "add"
    /\ cl' = [cl EXCEPT ![c].pc = "expire", ![c].exposed = TRUE]
    /\ UNCHANGED <<now, set, expiry, captcha, spent, twins, left, undated>>

\* Mutant: the set is given its time to live once.
ExpireOnce(c) ==
    /\ cl[c].pc = "expire"
    /\ expiry' = IF set # {} /\ expiry = 0 THEN now + Life ELSE expiry
    /\ undated' = FALSE
    /\ cl' = [cl EXCEPT ![c].pc = "in"]
    /\ UNCHANGED <<now, set, captcha, spent, twins, left>>

\* Mutant: the set has no time to live.
ExpireNever(c) ==
    /\ cl[c].pc = "expire"
    /\ cl' = [cl EXCEPT ![c].pc = "in"]
    /\ UNCHANGED <<now, set, expiry, captcha, spent, twins, left, undated>>

\* EXPIRE, and the answer; a key that is gone gets no time to live.
Expire(c) ==
    /\ cl[c].pc = "expire"
    /\ expiry' = IF set = {} THEN 0 ELSE now + Life
    /\ undated' = FALSE
    /\ cl' = [cl EXCEPT ![c].pc = "in"]
    /\ UNCHANGED <<now, set, captcha, spent, twins, left>>

\* The set keeps the time it had: too short for this token, or none.
ExpireFails(c) ==
    /\ cl[c].pc = "expire"
    /\ cl' = [cl EXCEPT ![c].pc = "in", ![c].exposed = @ \/ expiry # 0]
    /\ undated' = TRUE
    /\ UNCHANGED <<now, set, expiry, captcha, spent, twins, left>>

-----------------------------------------------------------------------------
(* JWTAUTH and Logout. *)

\* ParseToken: the token has not expired.
Valid(t) == now < t + Life

\* What the middleware lets in.
Admitted(t) == Valid(t) /\ t \in set

\* POST /user/logout, with a token the middleware admits.
Logout(c) ==
    /\ cl[c].pc = "in"
    /\ Admitted(cl[c].token)
    /\ cl' = [cl EXCEPT ![c].pc = "srem", ![c].exposed = FALSE]
    /\ UNCHANGED <<now, set, expiry, captcha, spent, twins, left, undated>>

\* Any request with a token the middleware refuses: the client must sign in.
TurnedAway(c) ==
    /\ cl[c].pc = "in"
    /\ ~Admitted(cl[c].token)
    /\ cl' = [cl EXCEPT ![c] = SignedOut]
    /\ UNCHANGED <<now, set, expiry, captcha, spent, twins, left, undated>>

\* POST /user/Logout has no middleware, finds no user and removes nothing; the
\* answer is success.  A client that merely forgets its token leaves the same.
LogoutPublic(c) ==
    /\ cl[c].pc = "in"
    /\ left' = left \cup {cl[c].token}
    /\ cl' = [cl EXCEPT ![c] = SignedOut]
    /\ UNCHANGED <<now, set, expiry, captcha, spent, twins, undated>>

\* A set of Redis that loses its last member is no key any more.
Remaining(S) == set' = S /\ expiry' = IF S = {} THEN 0 ELSE expiry

\* Mutant: the count decides, and the token itself is forgotten.
SRemNothing(c) ==
    /\ cl[c].pc = "srem"
    /\ cl' = [cl EXCEPT ![c].pc = "scard"]
    /\ UNCHANGED <<now, set, expiry, captcha, spent, twins, left, undated>>

SRem(c) ==
    /\ cl[c].pc = "srem"
    /\ Remaining(set \ {cl[c].token})
    /\ cl' = [cl EXCEPT ![c].pc = "scard", ![c].token = NoToken]
    /\ UNCHANGED <<now, captcha, spent, twins, left, undated>>

\* The handler ignores the error and answers success.
SRemFails(c) ==
    /\ cl[c].pc = "srem"
    /\ left' = left \cup {cl[c].token}
    /\ cl' = [cl EXCEPT ![c] = SignedOut]
    /\ UNCHANGED <<now, set, expiry, captcha, spent, twins, undated>>

\* Mutant: the key is deleted whatever it still holds.
SCardIgnored(c) ==
    /\ cl[c].pc = "scard"
    /\ cl' = [cl EXCEPT ![c].pc = "del"]
    /\ UNCHANGED <<now, set, expiry, captcha, spent, twins, left, undated>>

\* An empty set is deleted next; SCARD may also fail.
SCard(c) ==
    /\ cl[c].pc = "scard"
    /\ \/ set = {} /\ cl' = [cl EXCEPT ![c].pc = "del"]
       \/ cl' = [cl EXCEPT ![c] = SignedOut]
    /\ UNCHANGED <<now, set, expiry, captcha, spent, twins, left, undated>>

\* DEL, of whatever the key holds by now; or it fails.
Del(c) ==
    /\ cl[c].pc = "del"
    /\ Remaining({}) \/ UNCHANGED <<set, expiry>>
    /\ cl' = [cl EXCEPT ![c] = SignedOut]
    /\ UNCHANGED <<now, captcha, spent, twins, left, undated>>

-----------------------------------------------------------------------------

\* The histories need not keep what has expired.
Unexpired(S) == {t \in S : now' < t + Life}

\* A tick; the key may come to its end, also between SADD and EXPIRE.
Tick ==
    /\ now < MaxTime
    /\ now' = now + 1
    /\ LET ends == expiry # 0 /\ expiry <= now'
       IN  /\ Remaining(IF ends THEN {} ELSE set)
           /\ cl' = [c \in Clients |-> [cl[c] EXCEPT
                        !.exposed = @ \/ (ends /\ cl[c].pc = "expire")]]
    /\ twins' = Unexpired(twins)
    /\ left' = Unexpired(left)
    /\ UNCHANGED <<captcha, spent, undated>>

\* The server stops, and with it every request; clients keep their tokens.
Crash ==
    /\ left' = left \cup {cl[c].token : c \in {d \in Clients :
                            cl[d].pc \in {"expire", "srem"}}}
    /\ undated' = (undated \/ \E c \in Clients : cl[c].pc = "expire")
    /\ cl' = [c \in Clients |-> IF cl[c].pc = "in" THEN cl[c] ELSE SignedOut]
    /\ UNCHANGED <<now, set, expiry, captcha, spent, twins>>

Request(c) ==
    \/ \E k \in Captchas : GetCaptcha(c, k)
    \/ Refused(c) \/ GenerateToken(c)
    \/ SAdd(c) \/ SAddFails(c) \/ Expire(c) \/ ExpireFails(c)
    \/ Logout(c) \/ TurnedAway(c) \/ LogoutPublic(c)
    \/ SRem(c) \/ SRemFails(c) \/ SCard(c) \/ Del(c)

Next ==
    \/ \E k \in Captchas : IssueCaptcha(k) \/ CaptchaExpires(k)
    \/ \E c \in Clients : Request(c)
    \/ Tick
    \/ Crash

Spec == Init /\ [][Next]_vars

-----------------------------------------------------------------------------
(* Properties. *)

\* A session lasts as long as its token, whatever the user's other clients do:
\* it ends early only when Redis refused it, when its SADD came between another
\* sign-out's count and DEL, when the key lapsed between its SADD and EXPIRE, or
\* when it shares its token (user.go:176-183, 191-203).
SessionLives == \A c \in Clients :
    /\ cl[c].pc \in {"expire", "in"}
    /\ ~cl[c].exposed
    /\ cl[c].token \notin twins
    /\ Valid(cl[c].token)
    => Admitted(cl[c].token)

\* What the middleware admits is a session somebody still has, is opening or is
\* closing; only a sign-out that removed nothing leaves another
\* (user.go:191-196, transport/http/user.go:130-148).
SignedOutIsRefused == \A t \in Times :
    Admitted(t) =>
        \/ t \in left
        \/ \E c \in Clients : cl[c].token = t /\ cl[c].pc \in {"expire", "in", "srem"}

\* The set lives no longer than its last sign-in allows, unless that sign-in's
\* EXPIRE was lost: tokens nobody signs out of are not kept for ever
\* (user.go:182).
SetExpires ==
    set # {} /\ expiry = 0 => undated \/ \E c \in Clients : cl[c].pc = "expire"

\* A captcha whose key a request has deleted lets no other request in: those
\* it lets in had all read it before (user.go:329-342).
CaptchaOnce == [][\A c \in Clients :
    cl[c].captcha = NoCaptcha /\ cl'[c].captcha # NoCaptcha
        => cl'[c].captcha \notin spent]_vars
=============================================================================
