------------------------------ MODULE SingleUse ------------------------------
(***************************************************************************)
(* What a mailed code promises to verify-email, whoever else handles the   *)
(* codes of the same address: a code is issued once, may be withdrawn as   *)
(* long as nobody took it, is taken by one request only, and that request  *)
(* verifies the address with it once or loses it.                          *)
(***************************************************************************)
EXTENDS Integers

CONSTANT Codes

VARIABLES
  stage,   \* stage[c]: "new", "live", "held", "spent" or "gone"
  spends   \* spends[c]: how often c has verified the address

vars == <<stage, spends>>

In(s) == {c \in Codes : stage[c] = s}
Move(C, s) == stage' = [c \in Codes |-> IF c \in C THEN s ELSE stage[c]]

Init ==
  /\ stage \in [Codes -> {"new", "live"}]
  /\ spends = [c \in Codes |-> 0]

Issue == \E c \in In("new") : Move({c}, "live") /\ UNCHANGED spends
Withdraw == \E C \in SUBSET In("live") : Move(C, "gone") /\ UNCHANGED spends
Take == \E c \in In("live") : Move({c}, "held") /\ UNCHANGED spends
Spend == \E c \in In("held") :
           Move({c}, "spent") /\ spends' = [spends EXCEPT ![c] = @ + 1]
Lose == \E c \in In("held") : Move({c}, "gone") /\ UNCHANGED spends

Next == Issue \/ Withdraw \/ Take \/ Spend \/ Lose

Spec == Init /\ [][Next]_vars
=============================================================================
