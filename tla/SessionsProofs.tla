--------------------------- MODULE SessionsProofs ---------------------------
(***************************************************************************)
(* TLAPS proofs about Sessions, for any number of clients and captchas and *)
(* any time to live.                                                       *)
(***************************************************************************)
EXTENDS Sessions, TLAPS

\* A request holds a captcha between reading and deleting it, a client a token from
\* its issue to its sign-out, and no token is from the future.
Holding == \A c \in Clients :
    /\ (cl[c].pc = "verified") = (cl[c].captcha # NoCaptcha)
    /\ (cl[c].pc \in {"add", "expire", "in", "srem"}) = (cl[c].token # NoToken)
    /\ cl[c].token # NoToken => cl[c].token <= now

\* Two clients share a token only when it is known as one of two.
Twins == \A c, d \in Clients :
    /\ c # d
    /\ cl[c].token = cl[d].token
    /\ cl[c].token # NoToken
    /\ Valid(cl[c].token)
    => cl[c].token \in twins

\* A session that must last.
Lasting(c) ==
    /\ cl[c].pc \in {"expire", "in"}
    /\ ~cl[c].exposed
    /\ cl[c].token \notin twins
    /\ Valid(cl[c].token)

\* While there is one, nobody is about to delete the set ...
Undeleted == \A c, d \in Clients : Lasting(c) => cl[d].pc # "del"

\* ... and the set's time to live, if it has one, covers it.
Dated == \A c \in Clients :
    cl[c].pc = "in" /\ ~cl[c].exposed => expiry = 0 \/ expiry >= cl[c].token + Life

\* A captcha that was deleted is gone.
Fresh == \A k \in captcha : k \notin spent

IInv ==
    /\ TypeOK
    /\ Holding
    /\ Twins
    /\ SessionLives
    /\ Undeleted
    /\ Dated
    /\ SignedOutIsRefused
    /\ SetExpires
    /\ Fresh

LEMMA InitIInv == Init => IInv
<1> SUFFICES ASSUME Init PROVE IInv
  OBVIOUS
<1> USE TimeAssumption, NamesAssumption DEF Init
<1>1. SignedOut \in Client
  BY DEF SignedOut, Client
<1>2. cl \in [Clients -> Client] /\ 0 \in Times /\ 0 \in 0..(MaxTime + Life)
  BY <1>1 DEF Times
<1>3. \A c \in Clients : cl[c].pc = "out" /\ cl[c].token = NoToken /\ cl[c].captcha = NoCaptcha
  BY DEF SignedOut
<1>4. TypeOK
  BY <1>2 DEF TypeOK
<1> QED
  BY <1>3, <1>4 DEF IInv, Holding, Twins, SessionLives, Undeleted, Lasting, Dated,
    SignedOutIsRefused, SetExpires, Fresh, Admitted

LEMMA SameTime == ASSUME UNCHANGED now PROVE \A t : Valid(t)' = Valid(t)
BY DEF Valid

LEMMA Tokens == ASSUME TypeOK, NEW c \in Clients PROVE cl[c] \in Client /\ cl[c].token \in Nat
BY TimeAssumption DEF TypeOK, Client, Times, NoToken

LEMMA GetCaptchaIInv ==
    ASSUME IInv, NEW c \in Clients, NEW k \in Captchas, GetCaptcha(c, k)
    PROVE  IInv'
<1> USE TimeAssumption, NamesAssumption
<1>1. UNCHANGED <<now, set, expiry, captcha, spent, twins, left, undated>>
  BY DEF GetCaptcha
<1>2. /\ cl' \in [Clients -> Client]
      /\ \A d \in Clients : d # c => cl'[d] = cl[d]
      /\ cl'[c].pc = "verified" /\ cl'[c].captcha = k
      /\ cl'[c].token = cl[c].token /\ cl'[c].exposed = cl[c].exposed
      /\ cl[c].pc = "out" /\ k \in captcha
  BY DEF GetCaptcha, IInv, TypeOK, Client, SignedOut, NoToken, Times
<1>4. TypeOK'
  BY <1>1, <1>2 DEF IInv, TypeOK
<1> QED
  BY <1>1, <1>2, <1>4, SameTime DEF IInv, Holding, Twins, SessionLives, Undeleted, Lasting, Dated,
    SignedOutIsRefused, SetExpires, Fresh, Admitted

LEMMA RefusedIInv ==
    ASSUME IInv, NEW c \in Clients, Refused(c)
    PROVE  IInv'
<1> USE TimeAssumption, NamesAssumption
<1>1. UNCHANGED <<now, set, expiry, twins, left, undated>>
  BY DEF Refused
<1>2. /\ cl' \in [Clients -> Client]
      /\ \A d \in Clients : d # c => cl'[d] = cl[d]
      /\ cl[c].pc = "verified"
      /\ cl'[c].pc = "out" /\ cl'[c].token = NoToken
      /\ cl'[c].captcha = NoCaptcha /\ cl'[c].exposed = FALSE
  BY DEF Refused, IInv, TypeOK, Client, SignedOut, NoToken, Times
<1>3. \/ UNCHANGED <<captcha, spent>>
      \/ /\ captcha' = captcha \ {cl[c].captcha} /\ spent' = spent \cup {cl[c].captcha}
         /\ cl[c].captcha \in Captchas
  BY <1>2 DEF Refused, DelCaptcha, IInv, TypeOK, Client, Holding
<1>4. TypeOK'
  BY <1>1, <1>2, <1>3 DEF IInv, TypeOK
<1> QED
  BY <1>1, <1>2, <1>4, <1>3, SameTime DEF IInv, Holding, Twins, SessionLives, Undeleted, Lasting, Dated,
    SignedOutIsRefused, SetExpires, Fresh, Admitted

LEMMA GenerateTokenIInv ==
    ASSUME IInv, NEW c \in Clients, GenerateToken(c)
    PROVE  IInv'
<1> USE TimeAssumption, NamesAssumption
<1>1. UNCHANGED <<now, set, expiry, left, undated>>
  BY DEF GenerateToken
<1>2. /\ cl' \in [Clients -> Client]
      /\ \A d \in Clients : d # c => cl'[d] = cl[d]
      /\ cl[c].pc = "verified"
      /\ cl'[c].pc = "add" /\ cl'[c].token = now
      /\ cl'[c].captcha = NoCaptcha /\ cl'[c].exposed = FALSE
  BY DEF GenerateToken, IInv, TypeOK, Client, SignedOut, NoToken, Times
<1>3. \/ UNCHANGED <<captcha, spent>>
      \/ /\ captcha' = captcha \ {cl[c].captcha} /\ spent' = spent \cup {cl[c].captcha}
         /\ cl[c].captcha \in Captchas
  BY <1>2 DEF GenerateToken, DelCaptcha, IInv, TypeOK, Client, Holding
<1>5. now \in Nat /\ now # NoToken /\ now \in Times /\ now <= now
  BY DEF IInv, TypeOK, Times, NoToken
<1>6. /\ twins \subseteq twins' /\ twins' \subseteq twins \cup {now}
      /\ (\E d \in Clients : cl[d].token = now) => now \in twins'
  BY DEF GenerateToken, Holders
<1>4. TypeOK'
  BY <1>1, <1>2, <1>3, <1>5, <1>6 DEF IInv, TypeOK
<1> QED
  BY <1>1, <1>2, <1>4, <1>3, <1>5, <1>6, SameTime DEF IInv, Holding, Twins, SessionLives, Undeleted, Lasting, Dated,
    SignedOutIsRefused, SetExpires, Fresh, Admitted

\* The token is in the set from here on, and nobody who is not known to is about to
\* delete that.
LEMMA SAddIInv ==
    ASSUME IInv, NEW c \in Clients, SAdd(c)
    PROVE  IInv'
<1> USE TimeAssumption, NamesAssumption
<1>1. UNCHANGED <<now, expiry, captcha, spent, twins, left, undated>>
  BY DEF SAdd
<1>2. /\ cl' \in [Clients -> Client]
      /\ \A d \in Clients : d # c => cl'[d] = cl[d]
      /\ cl[c].pc = "add" /\ cl'[c].pc = "expire"
      /\ cl'[c].token = cl[c].token /\ cl'[c].captcha = cl[c].captcha
      /\ cl'[c].exposed \/ \A d \in Clients : cl[d].pc # "del"
      /\ set' = set \cup {cl[c].token}
  BY DEF SAdd, IInv, TypeOK, Client, SignedOut, NoToken, Times
<1>3. cl[c].token \in Times
  BY <1>2 DEF IInv, TypeOK, Client, Holding
<1>4. TypeOK'
  BY <1>1, <1>2, <1>3 DEF IInv, TypeOK
<1> QED
  BY <1>1, <1>2, <1>4, <1>3, SameTime DEF IInv, Holding, Twins, SessionLives, Undeleted, Lasting, Dated,
    SignedOutIsRefused, SetExpires, Fresh, Admitted

LEMMA SAddFailsIInv ==
    ASSUME IInv, NEW c \in Clients, SAddFails(c)
    PROVE  IInv'
<1> USE TimeAssumption, NamesAssumption
<1>1. UNCHANGED <<now, set, expiry, captcha, spent, twins, left, undated>>
  BY DEF SAddFails
<1>2. /\ cl' \in [Clients -> Client]
      /\ \A d \in Clients : d # c => cl'[d] = cl[d]
      /\ cl[c].pc = "add" /\ cl'[c].pc = "expire"
      /\ cl'[c].token = cl[c].token /\ cl'[c].captcha = cl[c].captcha /\ cl'[c].exposed
  BY DEF SAddFails, IInv, TypeOK, Client, SignedOut, NoToken, Times
<1>4. TypeOK'
  BY <1>1, <1>2 DEF IInv, TypeOK
<1> QED
  BY <1>1, <1>2, <1>4, SameTime DEF IInv, Holding, Twins, SessionLives, Undeleted, Lasting, Dated,
    SignedOutIsRefused, SetExpires, Fresh, Admitted

\* The set's new time to live covers every token issued so far.
LEMMA ExpireIInv ==
    ASSUME IInv, NEW c \in Clients, Expire(c)
    PROVE  IInv'
<1> USE TimeAssumption, NamesAssumption
<1>1. UNCHANGED <<now, set, captcha, spent, twins, left>>
  BY DEF Expire
<1>2. /\ cl' \in [Clients -> Client]
      /\ \A d \in Clients : d # c => cl'[d] = cl[d]
      /\ cl[c].pc = "expire" /\ cl'[c].pc = "in"
      /\ cl'[c].token = cl[c].token /\ cl'[c].captcha = cl[c].captcha
      /\ cl'[c].exposed = cl[c].exposed
  BY DEF Expire, IInv, TypeOK, Client, SignedOut, NoToken, Times
<1>3. /\ expiry' = (IF set = {} THEN 0 ELSE now + Life)
      /\ expiry' \in 0..(MaxTime + Life)
      /\ set # {} => expiry' # 0
      /\ undated' = FALSE
  BY DEF Expire, IInv, TypeOK, Times
<1>5. \A d \in Clients : cl[d].pc \in {"expire", "in"} =>
          expiry' = 0 \/ expiry' >= cl[d].token + Life
  BY <1>3, Tokens DEF IInv, Holding, TypeOK, Times
<1>4. TypeOK'
  BY <1>1, <1>2, <1>3 DEF IInv, TypeOK
<1> QED
  BY <1>1, <1>2, <1>4, <1>3, <1>5, SameTime DEF IInv, Holding, Twins, SessionLives, Undeleted, Lasting, Dated,
    SignedOutIsRefused, SetExpires, Fresh, Admitted

LEMMA ExpireFailsIInv ==
    ASSUME IInv, NEW c \in Clients, ExpireFails(c)
    PROVE  IInv'
<1> USE TimeAssumption, NamesAssumption
<1>1. UNCHANGED <<now, set, expiry, captcha, spent, twins, left>>
  BY DEF ExpireFails
<1>2. /\ cl' \in [Clients -> Client]
      /\ \A d \in Clients : d # c => cl'[d] = cl[d]
      /\ cl[c].pc = "expire" /\ cl'[c].pc = "in"
      /\ cl'[c].token = cl[c].token /\ cl'[c].captcha = cl[c].captcha
      /\ cl'[c].exposed \/ (~cl[c].exposed /\ expiry = 0)
      /\ undated' = TRUE
  BY DEF ExpireFails, IInv, TypeOK, Client, SignedOut, NoToken, Times
<1>4. TypeOK'
  BY <1>1, <1>2 DEF IInv, TypeOK
<1> QED
  BY <1>1, <1>2, <1>4, SameTime DEF IInv, Holding, Twins, SessionLives, Undeleted, Lasting, Dated,
    SignedOutIsRefused, SetExpires, Fresh, Admitted

LEMMA LogoutIInv ==
    ASSUME IInv, NEW c \in Clients, Logout(c)
    PROVE  IInv'
<1> USE TimeAssumption, NamesAssumption
<1>1. UNCHANGED <<now, set, expiry, captcha, spent, twins, left, undated>>
  BY DEF Logout
<1>2. /\ cl' \in [Clients -> Client]
      /\ \A d \in Clients : d # c => cl'[d] = cl[d]
      /\ cl[c].pc = "in" /\ cl'[c].pc = "srem"
      /\ cl'[c].token = cl[c].token /\ cl'[c].captcha = cl[c].captcha
  BY DEF Logout, IInv, TypeOK, Client, SignedOut, NoToken, Times
<1>4. TypeOK'
  BY <1>1, <1>2 DEF IInv, TypeOK
<1> QED
  BY <1>1, <1>2, <1>4, SameTime DEF IInv, Holding, Twins, SessionLives, Undeleted, Lasting, Dated,
    SignedOutIsRefused, SetExpires, Fresh, Admitted

LEMMA TurnedAwayIInv ==
    ASSUME IInv, NEW c \in Clients, TurnedAway(c)
    PROVE  IInv'
<1> USE TimeAssumption, NamesAssumption
<1>1. UNCHANGED <<now, set, expiry, captcha, spent, twins, left, undated>>
  BY DEF TurnedAway
<1>2. /\ cl' \in [Clients -> Client]
      /\ \A d \in Clients : d # c => cl'[d] = cl[d]
      /\ cl[c].pc = "in" /\ ~Admitted(cl[c].token)
      /\ cl'[c].pc = "out" /\ cl'[c].token = NoToken
      /\ cl'[c].captcha = NoCaptcha /\ cl'[c].exposed = FALSE
  BY DEF TurnedAway, IInv, TypeOK, Client, SignedOut, NoToken, Times
<1>4. TypeOK'
  BY <1>1, <1>2 DEF IInv, TypeOK
<1> QED
  BY <1>1, <1>2, <1>4, SameTime DEF IInv, Holding, Twins, SessionLives, Undeleted, Lasting, Dated,
    SignedOutIsRefused, SetExpires, Fresh, Admitted

LEMMA LogoutPublicIInv ==
    ASSUME IInv, NEW c \in Clients, LogoutPublic(c)
    PROVE  IInv'
<1> USE TimeAssumption, NamesAssumption
<1>1. UNCHANGED <<now, set, expiry, captcha, spent, twins, undated>>
  BY DEF LogoutPublic
<1>2. /\ cl' \in [Clients -> Client]
      /\ \A d \in Clients : d # c => cl'[d] = cl[d]
      /\ cl[c].pc = "in"
      /\ cl'[c].pc = "out" /\ cl'[c].token = NoToken
      /\ cl'[c].captcha = NoCaptcha /\ cl'[c].exposed = FALSE
  BY DEF LogoutPublic, IInv, TypeOK, Client, SignedOut, NoToken, Times
<1>3. cl[c].token \in Times /\ left' = left \cup {cl[c].token}
  BY <1>2 DEF LogoutPublic, IInv, TypeOK, Client, Holding
<1>4. TypeOK'
  BY <1>1, <1>2, <1>3 DEF IInv, TypeOK
<1> QED
  BY <1>1, <1>2, <1>4, <1>3, SameTime DEF IInv, Holding, Twins, SessionLives, Undeleted, Lasting, Dated,
    SignedOutIsRefused, SetExpires, Fresh, Admitted

\* A token is taken out; no session that must last has the same.
LEMMA SRemIInv ==
    ASSUME IInv, NEW c \in Clients, SRem(c)
    PROVE  IInv'
<1> USE TimeAssumption, NamesAssumption
<1>1. UNCHANGED <<now, captcha, spent, twins, left, undated>>
  BY DEF SRem
<1>2. /\ cl' \in [Clients -> Client]
      /\ \A d \in Clients : d # c => cl'[d] = cl[d]
      /\ cl[c].pc = "srem" /\ cl'[c].pc = "scard" /\ cl'[c].token = NoToken
      /\ cl'[c].captcha = cl[c].captcha /\ cl'[c].exposed = cl[c].exposed
  BY DEF SRem, IInv, TypeOK, Client, SignedOut, NoToken, Times
<1>3. set' = set \ {cl[c].token} /\ expiry' = (IF set' = {} THEN 0 ELSE expiry)
  BY DEF SRem, Remaining
<1>4. TypeOK'
  BY <1>1, <1>2, <1>3 DEF IInv, TypeOK
<1> QED
  BY <1>1, <1>2, <1>4, <1>3, SameTime DEF IInv, Holding, Twins, SessionLives, Undeleted, Lasting, Dated,
    SignedOutIsRefused, SetExpires, Fresh, Admitted

LEMMA SRemFailsIInv ==
    ASSUME IInv, NEW c \in Clients, SRemFails(c)
    PROVE  IInv'
<1> USE TimeAssumption, NamesAssumption
<1>1. UNCHANGED <<now, set, expiry, captcha, spent, twins, undated>>
  BY DEF SRemFails
<1>2. /\ cl' \in [Clients -> Client]
      /\ \A d \in Clients : d # c => cl'[d] = cl[d]
      /\ cl[c].pc = "srem"
      /\ cl'[c].pc = "out" /\ cl'[c].token = NoToken
      /\ cl'[c].captcha = NoCaptcha /\ cl'[c].exposed = FALSE
  BY DEF SRemFails, IInv, TypeOK, Client, SignedOut, NoToken, Times
<1>3. cl[c].token \in Times /\ left' = left \cup {cl[c].token}
  BY <1>2 DEF SRemFails, IInv, TypeOK, Client, Holding
<1>4. TypeOK'
  BY <1>1, <1>2, <1>3 DEF IInv, TypeOK
<1> QED
  BY <1>1, <1>2, <1>4, <1>3, SameTime DEF IInv, Holding, Twins, SessionLives, Undeleted, Lasting, Dated,
    SignedOutIsRefused, SetExpires, Fresh, Admitted

\* Whoever goes on to delete the set has found it empty, so no session is in it.
LEMMA SCardIInv ==
    ASSUME IInv, NEW c \in Clients, SCard(c)
    PROVE  IInv'
<1> USE TimeAssumption, NamesAssumption
<1>1. UNCHANGED <<now, set, expiry, captcha, spent, twins, left, undated>>
  BY DEF SCard
<1>2. /\ cl' \in [Clients -> Client]
      /\ \A d \in Clients : d # c => cl'[d] = cl[d]
      /\ cl[c].pc = "scard"
      /\ (set = {} /\ cl'[c].pc = "del") \/ cl'[c].pc = "out"
      /\ cl'[c].token \in {cl[c].token, NoToken}
      /\ cl'[c].captcha \in {cl[c].captcha, NoCaptcha}
  <2>1. CASE set = {} /\ cl' = [cl EXCEPT ![c].pc = "del"]
    BY <2>1 DEF SCard, IInv, TypeOK, Client
  <2>2. CASE cl' = [cl EXCEPT ![c] = SignedOut]
    BY <2>2 DEF SCard, IInv, TypeOK, Client, SignedOut, NoToken
  <2> QED BY <2>1, <2>2 DEF SCard
<1>4. TypeOK'
  BY <1>1, <1>2 DEF IInv, TypeOK
<1> QED
  BY <1>1, <1>2, <1>4, SameTime DEF IInv, Holding, Twins, SessionLives, Undeleted, Lasting, Dated,
    SignedOutIsRefused, SetExpires, Fresh, Admitted

LEMMA DelIInv ==
    ASSUME IInv, NEW c \in Clients, Del(c)
    PROVE  IInv'
<1> USE TimeAssumption, NamesAssumption
<1>1. UNCHANGED <<now, captcha, spent, twins, left, undated>>
  BY DEF Del
<1>2. /\ cl' \in [Clients -> Client]
      /\ \A d \in Clients : d # c => cl'[d] = cl[d]
      /\ cl[c].pc = "del"
      /\ cl'[c].pc = "out" /\ cl'[c].token = NoToken
      /\ cl'[c].captcha = NoCaptcha /\ cl'[c].exposed = FALSE
  BY DEF Del, IInv, TypeOK, Client, SignedOut, NoToken, Times
<1>3. (set' = {} /\ expiry' = 0) \/ UNCHANGED <<set, expiry>>
  BY DEF Del, Remaining
<1>4. TypeOK'
  BY <1>1, <1>2, <1>3 DEF IInv, TypeOK
<1> QED
  BY <1>1, <1>2, <1>4, <1>3, SameTime DEF IInv, Holding, Twins, SessionLives, Undeleted, Lasting, Dated,
    SignedOutIsRefused, SetExpires, Fresh, Admitted

LEMMA TickIInv == ASSUME IInv, Tick PROVE IInv'
<1> USE TimeAssumption, NamesAssumption
<1>1. now' = now + 1 /\ now < MaxTime /\ now \in Nat /\ UNCHANGED <<captcha, spent, undated>>
  BY DEF Tick, IInv, TypeOK, Times
<1>2. /\ cl' \in [Clients -> Client]
      /\ \A c \in Clients : /\ cl'[c].pc = cl[c].pc
                            /\ cl'[c].token = cl[c].token
                            /\ cl'[c].captcha = cl[c].captcha
                            /\ cl[c].exposed => cl'[c].exposed
  BY DEF Tick, IInv, TypeOK, Client
<1>3. \A t \in Nat : Valid(t)' => Valid(t) /\ now + 1 < t + Life
  BY <1>1 DEF Valid
<1>4. /\ \A t \in twins : Valid(t)' => t \in twins'
      /\ \A t \in left : Valid(t)' => t \in left'
      /\ twins' \subseteq twins /\ left' \subseteq left
  BY DEF Tick, Unexpired, Valid
<1>5. \/ /\ set' = {} /\ expiry' = 0
         /\ expiry # 0 /\ expiry <= now + 1
         /\ \A c \in Clients : cl[c].pc = "expire" => cl'[c].exposed
      \/ set' = set /\ expiry' = (IF set = {} THEN 0 ELSE expiry)
  BY <1>1 DEF Tick, Remaining, IInv, TypeOK, Client
<1>6. TypeOK'
  <2>1. now' \in Times
    BY <1>1 DEF IInv, TypeOK, Times
  <2>2. set' \in SUBSET Times /\ expiry' \in 0..(MaxTime + Life) /\ (set' = {} => expiry' = 0)
    BY <1>5 DEF IInv, TypeOK
  <2> QED BY <1>1, <1>2, <1>4, <2>1, <2>2 DEF IInv, TypeOK
<1>7. \A c \in Clients : cl[c].token \in Nat
  BY Tokens DEF IInv
<1>8. Holding' /\ Twins' /\ Undeleted'
  BY <1>1, <1>2, <1>3, <1>4, <1>7 DEF IInv, Holding, Twins, Undeleted, Lasting
<1>9. SessionLives'
  <2> SUFFICES ASSUME NEW c \in Clients, Lasting(c)' PROVE cl[c].token \in set'
    BY <1>2 DEF SessionLives, Lasting, Admitted
  <2>1. Lasting(c) /\ Valid(cl[c].token)'
    BY <1>2, <1>3, <1>4, <1>7 DEF Lasting
  <2>2. cl[c].token \in set
    BY <2>1 DEF IInv, SessionLives, Lasting, Admitted
  <2>3. CASE cl[c].pc = "expire"
    BY <1>2, <1>5, <2>2, <2>3 DEF Lasting
  <2>4. CASE cl[c].pc = "in" /\ expiry # 0 /\ expiry <= now + 1
    <3>1. expiry >= cl[c].token + Life
      BY <2>1, <2>4 DEF IInv, Dated, Lasting
    <3>2. now + 1 < cl[c].token + Life
      BY <1>2, <1>3, <1>7, <2>1
    <3> QED BY <1>1, <1>7, <2>4, <3>1, <3>2 DEF IInv, TypeOK
  <2> QED BY <1>5, <2>1, <2>2, <2>3, <2>4 DEF Lasting
<1>11. Dated'
  BY <1>2, <1>5 DEF IInv, Dated
<1>10. SignedOutIsRefused' /\ SetExpires' /\ Fresh'
  BY <1>1, <1>2, <1>3, <1>4, <1>5, <1>7
  DEF IInv, SignedOutIsRefused, SetExpires, Fresh, Admitted, Times, TypeOK
<1> QED BY <1>6, <1>8, <1>9, <1>10, <1>11 DEF IInv

LEMMA CrashIInv == ASSUME IInv, Crash PROVE IInv'
<1> USE TimeAssumption, NamesAssumption
<1>1. UNCHANGED <<now, set, expiry, captcha, spent, twins>>
  BY DEF Crash
<1>2. /\ cl' \in [Clients -> Client]
      /\ \A c \in Clients : cl[c].pc = "in" => cl'[c] = cl[c]
      /\ \A c \in Clients : cl[c].pc # "in" =>
            cl'[c].pc = "out" /\ cl'[c].token = NoToken /\ cl'[c].captcha = NoCaptcha
  BY DEF Crash, IInv, TypeOK, Client, SignedOut, NoToken
<1>3. /\ left \subseteq left'
      /\ \A c \in Clients : cl[c].pc \in {"expire", "srem"} => cl[c].token \in left'
      /\ left' \subseteq Times
  BY DEF Crash, IInv, TypeOK, Client, Holding
<1>4. /\ undated' \in BOOLEAN
      /\ undated => undated'
      /\ \A c \in Clients : cl[c].pc = "expire" => undated'
  BY DEF Crash
<1>5. TypeOK'
  BY <1>1, <1>2, <1>3, <1>4 DEF IInv, TypeOK
<1> QED
  BY <1>1, <1>2, <1>3, <1>4, <1>5, SameTime
  DEF IInv, Holding, Twins, SessionLives, Undeleted, Lasting, Dated,
    SignedOutIsRefused, SetExpires, Fresh, Admitted

LEMMA CaptchaIInv ==
    ASSUME IInv, NEW k \in Captchas, IssueCaptcha(k) \/ CaptchaExpires(k)
    PROVE  IInv'
<1>1. UNCHANGED <<now, set, expiry, cl, twins, left, undated>>
  BY DEF IssueCaptcha, CaptchaExpires
<1>2. TypeOK' /\ Fresh'
  BY <1>1 DEF IssueCaptcha, CaptchaExpires, IInv, TypeOK, Fresh
<1> QED
  BY <1>1, <1>2, SameTime
  DEF IInv, Holding, Twins, SessionLives, Undeleted, Lasting, Dated,
    SignedOutIsRefused, SetExpires, Admitted

LEMMA NextIInv == IInv /\ [Next]_vars => IInv'
<1> SUFFICES ASSUME IInv, [Next]_vars PROVE IInv'
  OBVIOUS
<1>1. ASSUME NEW c \in Clients, Request(c) PROVE IInv'
  BY <1>1, GetCaptchaIInv, RefusedIInv, GenerateTokenIInv, SAddIInv, SAddFailsIInv,
     ExpireIInv, ExpireFailsIInv, LogoutIInv, TurnedAwayIInv, LogoutPublicIInv,
     SRemIInv, SRemFailsIInv, SCardIInv, DelIInv
  DEF Request
<1>2. ASSUME UNCHANGED vars PROVE IInv'
  BY <1>2, SameTime
  DEF vars, IInv, TypeOK, Holding, Twins, SessionLives, Undeleted, Lasting, Dated,
    SignedOutIsRefused, SetExpires, Fresh, Admitted
<1> QED BY <1>1, <1>2, TickIInv, CrashIInv, CaptchaIInv DEF Next

-----------------------------------------------------------------------------

\* Who holds which token, what the set's time to live covers and whom a deletion
\* would hit, in every reachable state.
THEOREM Inductive == Spec => []IInv
<1> QED BY InitIInv, NextIInv, PTL DEF Spec

\* Every variable keeps its type.
THEOREM TypeCorrect == Spec => []TypeOK
<1>1. IInv => TypeOK BY DEF IInv
<1> QED BY <1>1, Inductive, PTL

\* A session lasts as long as its token, whatever other clients do
\* (user.go:176-183, 191-203).
THEOREM SessionsLive == Spec => []SessionLives
<1>1. IInv => SessionLives BY DEF IInv
<1> QED BY <1>1, Inductive, PTL

\* What a client has signed out of is refused from then on (user.go:191-196).
THEOREM SignedOutStaysOut == Spec => []SignedOutIsRefused
<1>1. IInv => SignedOutIsRefused BY DEF IInv
<1> QED BY <1>1, Inductive, PTL

\* The set has a time to live unless its EXPIRE was lost (user.go:182).
THEOREM SetsExpire == Spec => []SetExpires
<1>1. IInv => SetExpires BY DEF IInv
<1> QED BY <1>1, Inductive, PTL

\* A deleted captcha lets nobody in (user.go:329-342).
THEOREM CaptchasWorkOnce == Spec => CaptchaOnce
<1> DEFINE Once == \A c \in Clients :
        cl[c].captcha = NoCaptcha /\ cl'[c].captcha # NoCaptcha
            => cl'[c].captcha \notin spent
<1>1. IInv /\ [Next]_vars => [Once]_vars
  <2> SUFFICES ASSUME IInv, Next PROVE Once
    OBVIOUS
  <2>1. ASSUME NEW d \in Clients, Request(d), NEW c \in Clients,
               cl[c].captcha = NoCaptcha, cl'[c].captcha # NoCaptcha
        PROVE  cl'[c].captcha \notin spent
    <3>1. CASE \E k \in Captchas : GetCaptcha(d, k)
      BY <2>1, <3>1 DEF GetCaptcha, IInv, TypeOK, Client, Fresh
    <3>2. CASE ~ \E k \in Captchas : GetCaptcha(d, k)
      <4> USE DEF IInv, TypeOK, Client, SignedOut
      <4>1. CASE Refused(d) \/ TurnedAway(d) \/ LogoutPublic(d) \/ Del(d)
        <5>1. cl' = [cl EXCEPT ![d] = SignedOut]
          BY <4>1 DEF Refused, TurnedAway, LogoutPublic, Del
        <5> QED BY <2>1, <5>1
      <4>4. CASE GenerateToken(d)
        BY <2>1, <4>4 DEF GenerateToken
      <4>2. CASE SAdd(d) \/ SAddFails(d) \/ Expire(d) \/ ExpireFails(d) \/ Logout(d)
        BY <2>1, <4>2 DEF SAdd, SAddFails, Expire, ExpireFails, Logout
      <4>3. CASE SRem(d) \/ SRemFails(d) \/ SCard(d)
        BY <2>1, <4>3 DEF SRem, SRemFails, SCard
      <4> QED BY <2>1, <3>2, <4>1, <4>2, <4>3, <4>4 DEF Request
    <3> QED BY <3>1, <3>2
  <2>2. ASSUME NEW c \in Clients, Tick \/ Crash \/ UNCHANGED cl
        PROVE  cl'[c].captcha \in {cl[c].captcha, NoCaptcha}
    BY <2>2 DEF Tick, Crash, IInv, TypeOK, Client, SignedOut
  <2> QED BY <2>1, <2>2 DEF Next, IssueCaptcha, CaptchaExpires
<1>2. [][Once]_vars => CaptchaOnce
  BY DEF CaptchaOnce
<1> QED BY <1>1, <1>2, Inductive, PTL DEF Spec
=============================================================================
