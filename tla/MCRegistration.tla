--------------------------- MODULE MCRegistration ---------------------------
(***************************************************************************)
(* One identity submitted twice, or two that share their e-mail address;   *)
(* an update brings a new number and repeats the address.                  *)
(***************************************************************************)
EXTENDS Registration

CONSTANTS x, y

TwoValues == {x, y}

SharedAddress == {[username |-> v, phone_number |-> v, email |-> x] : v \in {x, y}}

NewNumber == {[phone_number |-> y, email |-> x]}
=============================================================================
