---------------------------- MODULE MCAuthCodes ----------------------------
(***************************************************************************)
(* Instances of AuthCodes for TLC.  The unit of time is five minutes.  The *)
(* first state picks a part:                                               *)
(*   overlap: two requests in flight, slow against the life of a code,     *)
(*            either of which may die                                      *)
(*   serial:  one request at a time, short against five minutes, none dies *)
(*   waiting: two requests in flight, short against five minutes, none dies*)
(***************************************************************************)
EXTENDS AuthCodes, TLC

CONSTANTS c1, c2, c3, t1, t2, p1, p2, Parts
VARIABLE part

(* Codes, tokens and requests are interchangeable.                          *)
Symmetry == Permutations(Codes) \cup Permutations(Tokens) \cup Permutations(Reqs)

MCInit == Init /\ part \in Parts

OneAtATime == \A p, q \in Reqs : req[p] # Idle /\ req[q] # Idle => p = q

(* Overlapping slow requests have two codes, one token and ten minutes,     *)
(* overlapping short ones two codes and 25 minutes.                         *)
Small ==
  LET opens == {t \in Tokens : opened[t] # NotOpened} IN
  CASE part = "overlap" -> Cardinality(Issued) <= 2 /\ Cardinality(opens) <= 1 /\ now <= 2
    [] part = "waiting" -> Cardinality(Issued) <= 2 /\ now <= 5
    [] OTHER -> OneAtATime

MCNext ==
  /\ UNCHANGED part
  /\ \/ Tick /\ (part = "overlap" \/ AtRest)
     \/ \E p \in Reqs : Arrive(p) \/ Step(p)
     \/ part = "overlap" /\ \E p \in Reqs : Fail(p)
  /\ Small'

MCSpec == MCInit /\ [][MCNext]_<<vars, part>>
-----------------------------------------------------------------------------
(* One request at a time: a reset token changes the password once.          *)
SerialTokenUsedOnce == part = "serial" => TokenUsedOnce

(* One request at a time: a token that was not replaced works for its       *)
(* fifteen minutes.                                                         *)
SerialResetTokenLasts == part = "serial" => ResetTokenLasts

(* No reset later than the lives of code and token after the code, where    *)
(* requests are short.                                                      *)
SerialResetWithinBound ==
  [][part = "serial" => \A p \in Reqs :
       Change(p) => now < born[opened[req[p].token].code] + OtpLife + ResetLife]_vars
=============================================================================
