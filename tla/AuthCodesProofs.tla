--------------------------- MODULE AuthCodesProofs ---------------------------
(***************************************************************************)
(* Proofs about AuthCodes, for any number of codes, tokens and overlapping *)
(* requests, any lives and any clock.                                      *)
(***************************************************************************)
EXTENDS MCAuthCodes, TLAPS

(* The requests on their own.                                               *)
RequestOK(r) ==
  /\ r \in Request
  /\ r.pc \in OfCode => r.code \in Issued
  /\ r.pc \in OfToken => r.token \in Tokens

RequestsOK == req \in [Reqs -> Request] /\ \A p \in Reqs : RequestOK(req[p])

LEMMA IdleOK == RequestOK(Idle)
BY DEF RequestOK, Idle, Request, PCs, OfCode, OfToken

(* A request that goes on, knowing what it knew, and issued codes that stay *)
(* issued.                                                                  *)
LEMMA SetRequest ==
  ASSUME RequestsOK, NEW p \in Reqs, NEW r, RequestOK(r), req' = [req EXCEPT ![p] = r],
         \A c \in Codes : born[c] # None => born'[c] # None
  PROVE  RequestsOK'
<1>1. r \in Request BY DEF RequestOK
<1>2. req' \in [Reqs -> Request] BY <1>1 DEF RequestsOK
<1>3. \A q \in Reqs : req'[q] = IF q = p THEN r ELSE req[q] BY DEF RequestsOK
<1>4. Issued \subseteq Issued' BY DEF Issued
<1> HIDE DEF Issued
<1>5. \A q \in Reqs : /\ req'[q].pc \in OfCode => req'[q].code \in Issued'
                      /\ req'[q].pc \in OfToken => req'[q].token \in Tokens
  BY <1>3, <1>4 DEF RequestsOK, RequestOK
<1> QED BY <1>2, <1>5 DEF RequestsOK, RequestOK, Request, OfCode, OfToken, PCs

LEMMA FinishOK ==
  ASSUME RequestsOK, NEW p \in Reqs, Finish(p),
         \A c \in Codes : born[c] # None => born'[c] # None
  PROVE  RequestsOK'
BY SetRequest, IdleOK DEF Finish

LEMMA GotoOK ==
  ASSUME RequestsOK, NEW p \in Reqs, NEW pc \in PCs, Goto(p, pc), UNCHANGED born,
         pc \in OfCode => req[p].pc \in OfCode, pc \in OfToken => req[p].pc \in OfToken
  PROVE  RequestsOK'
<1> DEFINE r == [req[p] EXCEPT !.pc = pc]
<1>1. RequestOK(req[p]) /\ req' = [req EXCEPT ![p] = r]
  BY DEF RequestsOK, Goto
<1>2. r \in Request /\ r.pc = pc /\ r.code = req[p].code /\ r.token = req[p].token
  BY <1>1 DEF RequestOK, Request
<1> HIDE DEF r
<1>3. RequestOK(r)
  BY <1>1, <1>2 DEF RequestOK
<1> QED BY <1>1, <1>3, SetRequest

-----------------------------------------------------------------------------
(* Type correctness *)

StoreOK ==
  /\ now \in Nat
  /\ ucodes \in [Codes -> Row]
  /\ resetKey \in [token : Tokens \cup {None}, until : Nat]
  /\ born \in [Codes -> Nat \cup {None}]
  /\ opened \in [Tokens -> [code : Codes \cup {None}, at : Nat]]
  /\ given \subseteq Tokens
  /\ used \in [Tokens -> Nat]
  /\ confirmed \in [Codes -> Nat]

LEMMA TypeParts == TypeOK <=> StoreOK /\ RequestsOK
BY DEF TypeOK, StoreOK, RequestsOK, RequestOK

LEMMA TypePartsNext == TypeOK' <=> StoreOK' /\ RequestsOK'
BY DEF TypeOK, StoreOK, RequestsOK, RequestOK, Row, Request, OfCode, OfToken, PCs, Issued

LEMMA InitType == Init => TypeOK
BY CodesAssumption, IdleOK
   DEF Init, TypeOK, Row, NoRow, NoKey, NotOpened, Idle, Request, PCs, OfCode, OfToken

LEMMA ArriveType ==
  ASSUME TypeOK, NEW p \in Reqs, Arrive(p)
  PROVE  TypeOK'
<1>0. RequestsOK /\ StoreOK
  BY TypeParts
<1> USE DEF RequestOK, Request, PCs, OfCode, OfToken, Idle, AllOps
<1>1. now + ShortLife \in Nat /\ given \subseteq Tokens
  BY <1>0, CodesAssumption DEF StoreOK
<1>2. PICK r : RequestOK(r) /\ Start(p, r)
  <2>1. CASE ForgotPassword(p)
    BY <2>1 DEF ForgotPassword
  <2>2. CASE ResendVerification(p)
    BY <1>1, <2>2 DEF ResendVerification
  <2>3. CASE VerifyResetOtp(p)
    BY <2>3 DEF VerifyResetOtp, Issued
  <2>4. CASE VerifyToken(p)
    BY <2>4 DEF VerifyToken, Issued
  <2>5. CASE VerifyEmail(p)
    BY <2>5 DEF VerifyEmail, Issued
  <2>6. CASE ResetPassword(p)
    BY <1>1, <2>6 DEF ResetPassword
  <2> QED BY <2>1, <2>2, <2>3, <2>4, <2>5, <2>6 DEF Arrive
<1>3. StoreOK' /\ UNCHANGED born
  BY <1>0, <1>2 DEF Start, store, history, StoreOK, Row
<1> HIDE DEF RequestOK
<1>4. RequestsOK'
  BY <1>0, <1>2, <1>3, SetRequest DEF Start
<1> QED BY <1>3, <1>4, TypePartsNext

LEMMA IssueType ==
  ASSUME TypeOK, NEW p \in Reqs, Sweep(p) \/ Purge(p) \/ Create(p)
  PROVE  TypeOK'
<1>0. RequestsOK /\ StoreOK /\ RequestOK(req[p]) /\ req[p].until \in Nat
  BY TypeParts DEF RequestsOK, RequestOK, Request
<1>1. CASE Sweep(p)
  <2> DEFINE r == [req[p] EXCEPT !.pc = "create", !.until = now + OtpLife]
  <2>0. now + OtpLife \in Nat
    BY <1>0, CodesAssumption DEF StoreOK
  <2>1. RequestOK(r)
    BY <1>0, <2>0 DEF RequestOK, Request, PCs, OfCode, OfToken
  <2>2. req' = [req EXCEPT ![p] = r]
    BY <1>0, <1>1 DEF Sweep, RequestsOK
  <2>3. RequestsOK'
    BY <1>0, <1>1, <2>1, <2>2, SetRequest DEF Sweep, history
  <2>4. StoreOK'
    BY <1>0, <1>1 DEF Sweep, StoreOK, Row, NoRow, history
  <2> QED BY <2>3, <2>4, TypePartsNext
<1>2. CASE Purge(p)
  <2>1. RequestsOK'
    BY <1>0, <1>2, GotoOK DEF Purge, history, PCs, OfCode, OfToken
  <2>2. StoreOK'
    BY <1>0, <1>2 DEF Purge, StoreOK, Row, NoRow, history
  <2> QED BY <2>1, <2>2, TypePartsNext
<1>3. CASE Create(p)
  <2>1. StoreOK'
    BY <1>0, <1>3 DEF Create, StoreOK, Row, Issued
  <2>2. \A c \in Codes : born[c] # None => born'[c] # None
    BY <1>0, <1>3 DEF Create, Issued, StoreOK
  <2>3. RequestsOK'
    BY <1>0, <1>3, <2>2, FinishOK DEF Create
  <2> QED BY <2>1, <2>3, TypePartsNext
<1> QED BY <1>1, <1>2, <1>3

LEMMA RedeemType ==
  ASSUME TypeOK, NEW p \in Reqs, Find(p) \/ Mark(p) \/ Open(p) \/ Drop(p)
  PROVE  TypeOK'
<1>0. RequestsOK /\ StoreOK /\ RequestOK(req[p]) /\ req[p] \in Request
  BY TypeParts DEF RequestsOK, RequestOK
<1> USE DEF history, store
<1>1. CASE Find(p)
  <2>1. RequestsOK'
    BY <1>0, <1>1, GotoOK, FinishOK DEF Find, PCs, OfCode, OfToken
  <2>2. StoreOK'
    BY <1>0, <1>1 DEF Find, StoreOK, Row
  <2> QED BY <2>1, <2>2, TypePartsNext
<1>2. CASE Mark(p)
  <2>1. RequestsOK'
    BY <1>0, <1>2, GotoOK, FinishOK DEF Mark, PCs, OfCode, OfToken
  <2>2. /\ ucodes' \in {ucodes, [ucodes EXCEPT ![req[p].code].verified = TRUE]}
        /\ UNCHANGED <<now, resetKey, born, opened, given, used, confirmed>>
    BY <1>2 DEF Mark
  <2>3. ucodes' \in [Codes -> Row]
    <3>1. req[p].code \in Codes /\ ucodes \in [Codes -> Row]
      BY <1>0, <1>2 DEF Mark, RequestOK, OfCode, StoreOK, Issued
    <3>2. [ucodes[req[p].code] EXCEPT !.verified = TRUE] \in Row
      BY <3>1 DEF Row
    <3> QED
      BY <2>2, <3>1, <3>2
  <2>4. StoreOK'
    BY <1>0, <2>2, <2>3 DEF StoreOK
  <2> QED BY <2>1, <2>4, TypePartsNext
<1>3. CASE Open(p)
  <2>1. PICK t \in Tokens :
          /\ resetKey' = [token |-> t, until |-> now + ResetLife]
          /\ opened' = [opened EXCEPT ![t] = [code |-> req[p].code, at |-> now]]
          /\ req' = [req EXCEPT ![p].pc = "drop", ![p].token = t]
    BY <1>3 DEF Open
  <2> DEFINE r == [req[p] EXCEPT !.pc = "drop", !.token = t]
  <2>2. RequestOK(r)
    BY <1>0, <1>3 DEF Open, RequestOK, Request, PCs, OfCode, OfToken
  <2>3. req' = [req EXCEPT ![p] = r]
    BY <1>0, <2>1 DEF RequestsOK
  <2>4. RequestsOK'
    BY <1>0, <1>3, <2>2, <2>3, SetRequest DEF Open
  <2>5. StoreOK'
    BY <1>0, <1>3, <2>1, CodesAssumption DEF Open, StoreOK, Row, Request
  <2> QED BY <2>4, <2>5, TypePartsNext
<1>4. CASE Drop(p)
  <2>1. RequestsOK'
    BY <1>0, <1>4, FinishOK DEF Drop
  <2>2. req[p].token \in Tokens
    BY <1>0, <1>4 DEF Drop, RequestOK, OfToken
  <2>3. StoreOK'
    BY <1>0, <1>4, <2>2 DEF Drop, StoreOK, Row, NoRow
  <2> QED BY <2>1, <2>3, TypePartsNext
<1> QED BY <1>1, <1>2, <1>3, <1>4

LEMMA ValidateType ==
  ASSUME TypeOK, NEW p \in Reqs, Seek(p) \/ Discard(p) \/ Consume(p) \/ Confirm(p)
  PROVE  TypeOK'
<1>0. RequestsOK /\ StoreOK /\ RequestOK(req[p])
  BY TypeParts DEF RequestsOK
<1> USE DEF history, store
<1>1. RequestsOK'
  <2>1. CASE Seek(p)
    BY <1>0, <2>1, GotoOK, FinishOK DEF Seek, PCs, OfCode, OfToken
  <2>2. CASE Discard(p)
    BY <1>0, <2>2, FinishOK DEF Discard
  <2>3. CASE Consume(p)
    BY <1>0, <2>3, GotoOK, FinishOK DEF Consume, PCs, OfCode, OfToken
  <2>4. CASE Confirm(p)
    BY <1>0, <2>4, FinishOK DEF Confirm
  <2> QED BY <2>1, <2>2, <2>3, <2>4
<1>2. StoreOK'
  <2>1. CASE Seek(p)
    BY <1>0, <2>1 DEF Seek, StoreOK, Row
  <2>2. CASE Discard(p) \/ Consume(p)
    <3>1. NoRow \in Row
      BY DEF NoRow, Row
    <3>2. ucodes' = [ucodes EXCEPT ![req[p].code] = NoRow] /\ UNCHANGED <<now, resetKey>>
      BY <2>2 DEF Discard, Consume
    <3>3. UNCHANGED history
      BY <2>2 DEF Discard, Consume
    <3>4. ucodes' \in [Codes -> Row]
      BY <1>0, <3>1, <3>2 DEF StoreOK
    <3> QED BY <1>0, <3>2, <3>3, <3>4 DEF StoreOK, Row
  <2>3. CASE Confirm(p)
    <3>1. confirmed' = [confirmed EXCEPT ![req[p].code] = @ + 1]
      BY <2>3 DEF Confirm
    <3>2. confirmed \in [Codes -> Nat] /\ req[p].code \in Codes
      BY <1>0, <2>3 DEF StoreOK, Confirm, RequestOK, OfCode, Issued
    <3>3. confirmed[req[p].code] + 1 \in Nat
      BY <3>2
    <3>4. confirmed' \in [Codes -> Nat]
      BY <3>1, <3>2, <3>3
    <3>5. UNCHANGED <<now, store, born, opened, given, used>>
      BY <2>3 DEF Confirm
    <3> QED BY <1>0, <3>4, <3>5 DEF StoreOK, Row
  <2> QED BY <2>1, <2>2, <2>3
<1> QED BY <1>1, <1>2, TypePartsNext

LEMMA ResetType ==
  ASSUME TypeOK, NEW p \in Reqs, Get(p) \/ Change(p) \/ Del(p)
  PROVE  TypeOK'
<1>0. RequestsOK /\ StoreOK /\ RequestOK(req[p])
  BY TypeParts DEF RequestsOK
<1> USE DEF history, store
<1>1. RequestsOK'
  BY <1>0, GotoOK, FinishOK DEF Get, Change, Del, PCs, OfCode, OfToken
<1>2. StoreOK'
  BY <1>0 DEF Get, Change, Del, StoreOK, Row, NoKey
<1> QED BY <1>1, <1>2, TypePartsNext

LEMMA NextType == TypeOK /\ [Next]_vars => TypeOK'
<1> SUFFICES ASSUME TypeOK, [Next]_vars PROVE TypeOK'
  OBVIOUS
<1>1. ASSUME NEW p \in Reqs, Fail(p) PROVE TypeOK'
  <2>1. RequestsOK /\ StoreOK
    BY TypeParts
  <2>2. RequestsOK' /\ StoreOK'
    BY <1>1, <2>1, FinishOK DEF Fail, store, history, StoreOK, Row
  <2> QED BY <2>2, TypePartsNext
<1>2. ASSUME NEW p \in Reqs, Arrive(p) \/ Step(p) \/ Fail(p) PROVE TypeOK'
  BY <1>1, <1>2, ArriveType, IssueType, RedeemType, ValidateType, ResetType DEF Step
<1>3. CASE Tick
  BY <1>3 DEF Tick, store, history, TypeOK, Row, Request, PCs, OfCode, OfToken, Issued
<1>4. CASE UNCHANGED vars
  BY <1>4 DEF vars, TypeOK, Row, Request, PCs, OfCode, OfToken, Issued
<1> QED BY <1>2, <1>3, <1>4 DEF Next

(* The rows, the key and the history stay well typed, and a request that    *)
(* resumes after an await has the code or the token it needs.               *)
THEOREM TypeCorrect == Spec => []TypeOK
<1>1. Init => TypeOK BY InitType
<1>2. TypeOK /\ [Next]_vars => TypeOK' BY NextType
<1> QED BY <1>1, <1>2, PTL DEF Spec

-----------------------------------------------------------------------------
(* No token for a code that can still be redeemed.  Once a code is marked   *)
(* or gone it stays so: nothing writes verified_at back, and a row is       *)
(* created once.  A request that has marked its code is followed until the  *)
(* token it generates is in the key.                                        *)

Spent(c) == born[c] # None /\ ~(ucodes[c].there /\ ~ucodes[c].verified)

TokenInv ==
  /\ \A p \in Reqs : req[p].pc \in {"open", "drop"} => Spent(req[p].code)
  /\ \A t \in Tokens : opened[t] # NotOpened => opened[t].code \in Codes /\ Spent(opened[t].code)

LEMMA SpentStable ==
  ASSUME TypeOK, [Next]_vars, NEW c \in Codes, Spent(c)
  PROVE  Spent(c)'
<1>1. /\ ucodes \in [Codes -> Row] /\ born \in [Codes -> Nat \cup {None}]
      /\ now \in Nat /\ None \notin Nat
  BY CodesAssumption DEF TypeOK
<1>2. ASSUME UNCHANGED <<ucodes, born>> PROVE Spent(c)'
  BY <1>2 DEF Spent
<1>3. ASSUME NEW x \in Codes, ucodes' = [ucodes EXCEPT ![x] = NoRow], UNCHANGED born
      PROVE  Spent(c)'
  BY <1>1, <1>3 DEF Spent, NoRow, Row
<1>4. CASE Tick \/ UNCHANGED vars
  BY <1>2, <1>4 DEF Tick, vars, store, history
<1>5. ASSUME NEW p \in Reqs, Arrive(p) \/ Fail(p) PROVE Spent(c)'
  BY <1>2, <1>5 DEF Fail, Arrive, ForgotPassword, ResendVerification, VerifyResetOtp,
     VerifyToken, VerifyEmail, ResetPassword, Start, store, history
<1>6. ASSUME NEW p \in Reqs, Step(p) PROVE Spent(c)'
  <2>0. req[p].pc \in OfCode => req[p].code \in Codes
    BY DEF TypeOK, Issued
  <2>1. CASE Sweep(p)
    BY <1>1, <2>1 DEF Sweep, Spent, NoRow, Row, history
  <2>2. CASE Purge(p)
    BY <1>1, <2>2 DEF Purge, Spent, NoRow, Row, history
  <2>3. CASE Create(p)
    <3>1. PICK x \in Codes \ Issued :
            /\ ucodes' = [ucodes EXCEPT ![x] = [until |-> req[p].until, verified |-> FALSE,
                                                there |-> TRUE]]
            /\ born' = [born EXCEPT ![x] = now]
      BY <2>3 DEF Create
    <3>2. x # c
      BY <3>1 DEF Spent, Issued
    <3> QED BY <1>1, <3>1, <3>2 DEF Spent
  <2>4. CASE Mark(p)
    BY <1>1, <2>4 DEF Mark, Spent, Row, history
  <2>5. CASE Drop(p) \/ Discard(p) \/ Consume(p)
    <3>1. ucodes' = [ucodes EXCEPT ![req[p].code] = NoRow] /\ UNCHANGED born
      BY <2>5 DEF Drop, Discard, Consume, history
    <3>2. req[p].code \in Codes
      BY <2>0, <2>5 DEF Drop, Discard, Consume, OfCode
    <3> QED BY <1>3, <3>1, <3>2
  <2>6. CASE Find(p) \/ Open(p) \/ Seek(p) \/ Confirm(p) \/ Get(p) \/ Change(p) \/ Del(p)
    BY <1>2, <2>6 DEF Find, Open, Seek, Confirm, Get, Change, Del, store, history
  <2> QED BY <1>6, <2>1, <2>2, <2>3, <2>4, <2>5, <2>6 DEF Step
<1> QED BY <1>4, <1>5, <1>6 DEF Next

(* Spent in the next state, for a code read there.                          *)
SpentThen(c) == born'[c] # None /\ ~(ucodes'[c].there /\ ~ucodes'[c].verified)

LEMMA SpentStays ==
  ASSUME TypeOK, [Next]_vars
  PROVE  \A c \in Codes : Spent(c) => SpentThen(c)
BY SpentStable DEF Spent, SpentThen

LEMMA TokenInvThen ==
  ASSUME \A p \in Reqs : req'[p].pc \in {"open", "drop"} => SpentThen(req'[p].code),
         \A t \in Tokens : opened'[t] # NotOpened =>
           opened'[t].code \in Codes /\ SpentThen(opened'[t].code)
  PROVE  TokenInv'
BY DEF TokenInv, Spent, SpentThen, NotOpened

(* A step that leaves requests and tokens as they are, or ends a request,   *)
(* or moves it to a statement where it is not followed.                     *)
LEMMA TokenFrame ==
  ASSUME TypeOK, TokenInv, [Next]_vars, UNCHANGED opened,
         \A p \in Reqs : req'[p].pc \in {"open", "drop"} =>
           req[p].pc \in {"open", "drop"} /\ req'[p].code = req[p].code
  PROVE  TokenInv'
<1>1. \A p \in Reqs : req[p].pc \in {"open", "drop"} => req[p].code \in Codes
  BY DEF TypeOK, OfCode, Issued
<1>2. \A p \in Reqs : req'[p].pc \in {"open", "drop"} => SpentThen(req'[p].code)
  BY <1>1, SpentStays DEF TokenInv
<1>3. \A t \in Tokens : opened'[t] # NotOpened =>
        opened'[t].code \in Codes /\ SpentThen(opened'[t].code)
  BY SpentStays DEF TokenInv
<1> QED BY <1>2, <1>3, TokenInvThen

LEMMA TokenInvNext == TypeOK /\ TokenInv /\ [Next]_vars => TokenInv'
<1> SUFFICES ASSUME TypeOK, TokenInv, [Next]_vars PROVE TokenInv'
  OBVIOUS
<1>0. /\ req \in [Reqs -> Request] /\ ucodes \in [Codes -> Row]
      /\ born \in [Codes -> Nat \cup {None}]
  BY DEF TypeOK
<1>1. CASE Tick \/ UNCHANGED vars
  BY <1>1, TokenFrame DEF Tick, vars, history
<1>2. ASSUME NEW p \in Reqs, Finish(p), UNCHANGED opened PROVE TokenInv'
  BY <1>0, <1>2, TokenFrame DEF Finish, Idle
<1>3. ASSUME NEW p \in Reqs, NEW pc \in PCs \ {"open", "drop"}, Goto(p, pc),
             UNCHANGED opened
      PROVE  TokenInv'
  BY <1>0, <1>3, TokenFrame DEF Goto, Request
<1>4. ASSUME NEW p \in Reqs, NEW r, r.pc \notin {"open", "drop"}, Start(p, r)
      PROVE  TokenInv'
  BY <1>0, <1>4, TokenFrame DEF Start, history
<1>5. ASSUME NEW p \in Reqs, Arrive(p) PROVE TokenInv'
  BY <1>4, <1>5 DEF Arrive, ForgotPassword, ResendVerification, VerifyResetOtp, VerifyToken,
     VerifyEmail, ResetPassword, Idle
<1>6. ASSUME NEW p \in Reqs, Fail(p) PROVE TokenInv'
  BY <1>2, <1>6 DEF Fail, history
<1>7. ASSUME NEW p \in Reqs, Step(p) PROVE TokenInv'
  <2>1. CASE Sweep(p)
    BY <1>0, <2>1, TokenFrame DEF Sweep, history, Request
  <2>2. CASE Purge(p) \/ Create(p) \/ Find(p) \/ Drop(p) \/ Seek(p) \/ Discard(p)
             \/ Consume(p) \/ Confirm(p) \/ Get(p) \/ Change(p) \/ Del(p)
    BY <1>2, <1>3, <2>2 DEF Purge, Create, Find, Drop, Seek, Discard, Consume, Confirm, Get,
       Change, Del, history, PCs
  <2>3. CASE Mark(p) /\ ~(ucodes[req[p].code].there /\ req[p].op = "verifyReset")
    BY <1>2, <2>3 DEF Mark, history
  <2>4. CASE Mark(p) /\ ucodes[req[p].code].there /\ req[p].op = "verifyReset"
    <3> DEFINE c == req[p].code
    <3>1. /\ c \in Codes /\ born[c] # None
          /\ ucodes' = [ucodes EXCEPT ![c].verified = TRUE]
          /\ Goto(p, "open") /\ UNCHANGED <<born, opened>>
      BY <2>4 DEF Mark, history, TypeOK, OfCode, Issued
    <3>2. SpentThen(c)
      BY <1>0, <3>1 DEF Row, SpentThen
    <3>3. req'[p].code = c /\ \A q \in Reqs \ {p} : req'[q] = req[q]
      BY <1>0, <3>1 DEF Goto, Request
    <3>4. \A q \in Reqs : req[q].pc \in {"open", "drop"} => req[q].code \in Codes
      BY DEF TypeOK, OfCode, Issued
    <3> HIDE DEF c
    <3>5. \A q \in Reqs : req'[q].pc \in {"open", "drop"} => SpentThen(req'[q].code)
      BY <3>2, <3>3, <3>4, SpentStays DEF TokenInv
    <3>6. \A t \in Tokens : opened'[t] # NotOpened =>
            opened'[t].code \in Codes /\ SpentThen(opened'[t].code)
      BY <3>1, SpentStays DEF TokenInv
    <3> QED BY <3>5, <3>6, TokenInvThen
  <2>5. CASE Open(p)
    <3> DEFINE c == req[p].code
    <3>1. PICK x \in Tokens :
            /\ opened' = [opened EXCEPT ![x] = [code |-> c, at |-> now]]
            /\ req' = [req EXCEPT ![p].pc = "drop", ![p].token = x]
      BY <2>5 DEF Open
    <3>2. c \in Codes /\ Spent(c)
      BY <2>5 DEF Open, TokenInv, TypeOK, OfCode, Issued
    <3>3. UNCHANGED <<ucodes, born>>
      BY <2>5 DEF Open
    <3>4. \A q \in Reqs : req'[q].code = req[q].code /\ (q # p => req'[q] = req[q])
      BY <1>0, <3>1 DEF Request
    <3>5. \A d : Spent(d) => SpentThen(d)
      BY <3>3 DEF Spent, SpentThen
    <3> HIDE DEF c
    <3>6. \A q \in Reqs : req'[q].pc \in {"open", "drop"} => SpentThen(req'[q].code)
      <4> TAKE q \in Reqs
      <4> HAVE req'[q].pc \in {"open", "drop"}
      <4>1. Spent(req[q].code)
        BY <3>2, <3>4 DEF TokenInv, c
      <4> QED BY <3>4, <3>5, <4>1
    <3>7. \A t \in Tokens : opened'[t] # NotOpened =>
            opened'[t].code \in Codes /\ SpentThen(opened'[t].code)
      <4> TAKE t \in Tokens
      <4> HAVE opened'[t] # NotOpened
      <4>1. opened \in [Tokens -> [code : Codes \cup {None}, at : Nat]]
        BY DEF TypeOK
      <4>2. CASE t = x
        BY <3>1, <3>2, <3>5, <4>1, <4>2
      <4>3. CASE t # x
        BY <3>1, <3>5, <4>1, <4>3 DEF TokenInv
      <4> QED BY <4>2, <4>3
    <3> QED BY <3>6, <3>7, TokenInvThen
  <2> QED BY <1>7, <2>1, <2>2, <2>3, <2>4, <2>5 DEF Step
<1> QED BY <1>1, <1>5, <1>6, <1>7 DEF Next

(* A reset token is never generated for a code that can still be redeemed,  *)
(* whichever requests overlap, die, or are overtaken by the clock.          *)
THEOREM TokensComeFromSpentCodes == Spec => []TokenCodeSpent
<1>1. Init => TokenInv
  BY DEF Init, TokenInv, Idle, NotOpened
<1>2. TypeOK /\ TokenInv /\ [Next]_vars => TokenInv'
  BY TokenInvNext
<1>3. TokenInv => TokenCodeSpent
  BY DEF TokenInv, TokenCodeSpent, Spent, Live
<1> QED BY <1>1, <1>2, <1>3, TypeCorrect, PTL DEF Spec

-----------------------------------------------------------------------------
(* A code verifies the email address at most once.  The row is the lock:    *)
(* deleting it hands the code to one request, and while the row is there,   *)
(* or while a request holds the code, it has verified nothing.              *)

Holds(p, c) == req[p].pc = "confirm" /\ req[p].code = c

EmailInv ==
  /\ \A c \in Codes : ucodes[c].there => born[c] # None
  /\ \A c \in Codes : (born[c] = None \/ ucodes[c].there) =>
       confirmed[c] = 0 /\ \A p \in Reqs : ~Holds(p, c)
  /\ \A c \in Codes, p \in Reqs : Holds(p, c) => confirmed[c] = 0
  /\ \A c \in Codes, p, q \in Reqs : Holds(p, c) /\ Holds(q, c) => p = q
  /\ \A c \in Codes : confirmed[c] <= 1

(* A step in which no request comes to hold a code, and no row appears but  *)
(* that of a new code.                                                      *)
Quiet ==
  /\ UNCHANGED confirmed
  /\ \A p \in Reqs : req'[p].pc = "confirm" =>
       req[p].pc = "confirm" /\ req'[p].code = req[p].code
  /\ \A c \in Codes : /\ born'[c] = None => born[c] = None
                      /\ ucodes'[c].there =>
                           born'[c] # None /\ (ucodes[c].there \/ born[c] = None)

LEMMA QuietKeeps == EmailInv /\ Quiet => EmailInv'
BY DEF EmailInv, Quiet, Holds

LEMMA EmailInvNext == TypeOK /\ EmailInv /\ [Next]_vars => EmailInv'
<1> SUFFICES ASSUME TypeOK, EmailInv, [Next]_vars PROVE EmailInv'
  OBVIOUS
<1>0. /\ req \in [Reqs -> Request] /\ ucodes \in [Codes -> Row]
      /\ born \in [Codes -> Nat \cup {None}] /\ confirmed \in [Codes -> Nat]
      /\ now \in Nat /\ None \notin Nat
      /\ \A p \in Reqs : req[p].pc \in OfCode => req[p].code \in Codes
  BY CodesAssumption DEF TypeOK, Issued
<1>1. ASSUME UNCHANGED <<ucodes, born, confirmed>>,
             \A p \in Reqs : req'[p].pc = "confirm" =>
               req[p].pc = "confirm" /\ req'[p].code = req[p].code
      PROVE  EmailInv'
  BY <1>1, QuietKeeps DEF Quiet, EmailInv
<1>2. CASE Tick \/ UNCHANGED vars
  BY <1>1, <1>2 DEF Tick, vars, store, history
<1>3. ASSUME NEW p \in Reqs, Finish(p), UNCHANGED <<ucodes, born, confirmed>>
      PROVE  EmailInv'
  BY <1>0, <1>1, <1>3 DEF Finish, Idle
<1>4. ASSUME NEW p \in Reqs, NEW pc \in PCs \ {"confirm"}, Goto(p, pc),
             UNCHANGED <<ucodes, born, confirmed>>
      PROVE  EmailInv'
  BY <1>0, <1>1, <1>4 DEF Goto, Request
<1>5. ASSUME NEW p \in Reqs, NEW r, r.pc # "confirm", Start(p, r) PROVE EmailInv'
  BY <1>0, <1>1, <1>5 DEF Start, store, history
<1>6. ASSUME NEW p \in Reqs, Arrive(p) PROVE EmailInv'
  BY <1>5, <1>6 DEF Arrive, ForgotPassword, ResendVerification, VerifyResetOtp, VerifyToken,
     VerifyEmail, ResetPassword, Idle
<1>7. ASSUME NEW p \in Reqs, Fail(p) PROVE EmailInv'
  BY <1>3, <1>7 DEF Fail, store, history
<1>8. ASSUME NEW p \in Reqs, Step(p) PROVE EmailInv'
  <2> DEFINE c == req[p].code
  <2>1. CASE Sweep(p)
    <3>1. UNCHANGED <<born, confirmed>> /\ \A x \in Codes : ucodes'[x].there => ucodes[x].there
      BY <1>0, <2>1 DEF Sweep, history, NoRow, Row
    <3>2. \A q \in Reqs : req'[q].pc = "confirm" =>
            req[q].pc = "confirm" /\ req'[q].code = req[q].code
      BY <1>0, <2>1 DEF Sweep, Request
    <3> QED BY <3>1, <3>2, QuietKeeps DEF Quiet, EmailInv
  <2>2. CASE Purge(p)
    <3>1. UNCHANGED <<born, confirmed>> /\ \A x \in Codes : ~ucodes'[x].there
      BY <1>0, <2>2 DEF Purge, history, NoRow, Row
    <3>2. \A q \in Reqs : req'[q].pc = "confirm" =>
            req[q].pc = "confirm" /\ req'[q].code = req[q].code
      BY <1>0, <2>2 DEF Purge, Goto, Request
    <3> QED BY <3>1, <3>2, QuietKeeps DEF Quiet, EmailInv
  <2>3. CASE Create(p)
    <3>1. PICK x \in Codes \ Issued :
            /\ ucodes' = [ucodes EXCEPT ![x] = [until |-> req[p].until, verified |-> FALSE,
                                                there |-> TRUE]]
            /\ born' = [born EXCEPT ![x] = now]
      BY <2>3 DEF Create
    <3>2. born[x] = None /\ born'[x] # None
      BY <1>0, <3>1 DEF Issued
    <3>3. \A y \in Codes \ {x} : ucodes'[y] = ucodes[y] /\ born'[y] = born[y]
      BY <1>0, <3>1
    <3>4. \A q \in Reqs : req'[q].pc = "confirm" =>
            req[q].pc = "confirm" /\ req'[q].code = req[q].code
      BY <1>0, <2>3 DEF Create, Finish, Idle, Request
    <3>5. UNCHANGED confirmed
      BY <2>3 DEF Create
    <3> QED BY <3>2, <3>3, <3>4, <3>5, QuietKeeps DEF Quiet, EmailInv
  <2>4. CASE Mark(p)
    <3>1. UNCHANGED <<born, confirmed>> /\ \A x \in Codes : ucodes'[x].there = ucodes[x].there
      BY <1>0, <2>4 DEF Mark, history, Row
    <3>2. \A q \in Reqs : req'[q].pc = "confirm" =>
            req[q].pc = "confirm" /\ req'[q].code = req[q].code
      BY <1>0, <2>4 DEF Mark, Goto, Finish, Idle, Request
    <3> QED BY <3>1, <3>2, QuietKeeps DEF Quiet, EmailInv
  <2>5. CASE (Drop(p) \/ Discard(p)) \/ (Consume(p) /\ ~ucodes[c].there)
    <3>1. /\ c \in Codes /\ UNCHANGED <<born, confirmed>>
          /\ ucodes' = [ucodes EXCEPT ![c] = NoRow] /\ Finish(p)
      BY <1>0, <2>5 DEF Drop, Discard, Consume, history, OfCode
    <3>2. \A x \in Codes : ucodes'[x].there => ucodes[x].there
      BY <1>0, <3>1 DEF NoRow, Row
    <3>3. \A q \in Reqs : req'[q].pc = "confirm" =>
            req[q].pc = "confirm" /\ req'[q].code = req[q].code
      BY <1>0, <3>1 DEF Finish, Idle, Request
    <3> QED BY <3>1, <3>2, <3>3, QuietKeeps DEF Quiet, EmailInv
  <2>6. CASE Consume(p) /\ ucodes[c].there
    <3>1. /\ c \in Codes /\ UNCHANGED <<born, confirmed>>
          /\ ucodes' = [ucodes EXCEPT ![c] = NoRow] /\ Goto(p, "confirm")
      BY <1>0, <2>6 DEF Consume, history, OfCode
    <3>2. ~ucodes'[c].there /\ \A x \in Codes \ {c} : ucodes'[x] = ucodes[x]
      BY <1>0, <3>1 DEF NoRow, Row
    <3>3. req'[p].code = c /\ \A q \in Reqs \ {p} : req'[q] = req[q]
      BY <1>0, <3>1 DEF Goto, Request
    <3>4. confirmed[c] = 0 /\ born[c] # None /\ \A q \in Reqs : ~Holds(q, c)
      BY <2>6, <3>1 DEF EmailInv
    <3> HIDE DEF c
    <3> QED BY <3>1, <3>2, <3>3, <3>4 DEF EmailInv, Holds
  <2>7. CASE Confirm(p)
    <3>1. /\ c \in Codes /\ UNCHANGED <<ucodes, born>> /\ Holds(p, c)
          /\ confirmed' = [confirmed EXCEPT ![c] = @ + 1] /\ Finish(p)
      BY <1>0, <2>7 DEF Confirm, store, OfCode, Holds
    <3>2. confirmed[c] = 0 /\ ~ucodes[c].there /\ born[c] # None
      BY <3>1 DEF EmailInv
    <3>3. confirmed'[c] = 1 /\ \A x \in Codes \ {c} : confirmed'[x] = confirmed[x]
      BY <1>0, <3>1, <3>2
    <3>4. req'[p].pc # "confirm" /\ \A q \in Reqs \ {p} : req'[q] = req[q]
      BY <1>0, <3>1 DEF Finish, Idle
    <3> HIDE DEF c
    <3> QED BY <3>1, <3>2, <3>3, <3>4 DEF EmailInv, Holds
  <2>8. CASE Find(p) \/ Seek(p) \/ Get(p) \/ Change(p) \/ Del(p)
    BY <1>3, <1>4, <2>8 DEF Find, Seek, Get, Change, Del, store, history, PCs
  <2>9. CASE Open(p)
    BY <1>0, <1>1, <2>9 DEF Open, Request
  <2> QED BY <1>8, <2>1, <2>2, <2>3, <2>4, <2>5, <2>6, <2>7, <2>8, <2>9 DEF Step
<1> QED BY <1>2, <1>6, <1>7, <1>8 DEF Next

LEMMA EmailInvAlways == Spec => []EmailInv
<1>1. Init => EmailInv
  BY CodesAssumption DEF Init, EmailInv, Holds, Idle, NoRow
<1>2. TypeOK /\ EmailInv /\ [Next]_vars => EmailInv'
  BY EmailInvNext
<1> QED BY <1>1, <1>2, TypeCorrect, PTL DEF Spec

(* However many requests carry the same code, one of them verifies the      *)
(* email address with it.                                                   *)
THEOREM EmailCodesSpentOnce == Spec => []EmailCodeSpentOnce
<1>1. EmailInv => EmailCodeSpentOnce
  BY DEF EmailInv, EmailCodeSpentOnce
<1> QED BY <1>1, EmailInvAlways, PTL

-----------------------------------------------------------------------------
(* The table is a supply of single-use codes.  Nearly every step leaves the *)
(* holders of codes and the counts alone and at most removes rows; it       *)
(* withdraws the codes whose rows it removes.  The others are the creation  *)
(* of a row, and the deletion that takes a code, the verification that      *)
(* spends it and the death that loses it.                                   *)

Calm ==
  /\ UNCHANGED <<born, confirmed>>
  /\ \A c \in Codes : ucodes'[c].there => ucodes[c].there
  /\ \A p \in Reqs : /\ req'[p].pc = "confirm" <=> req[p].pc = "confirm"
                     /\ req[p].pc = "confirm" => req'[p].code = req[p].code

(* The stage of a code depends on its row, its holders and its count.       *)
LEMMA StageStays ==
  ASSUME NEW c \in Codes, born'[c] = born[c], confirmed'[c] = confirmed[c],
         ucodes'[c].there <=> ucodes[c].there,
         \A p \in Reqs : (req'[p].pc = "confirm" /\ req'[p].code = c)
                           <=> (req[p].pc = "confirm" /\ req[p].code = c)
  PROVE  StageOf(c)' = StageOf(c)
<1>1. Held(c)' <=> Held(c)
  BY DEF Held
<1> QED
  BY <1>1 DEF StageOf

(* One code moves and the others stay.                                      *)
LEMMA OneMoves ==
  ASSUME NEW c \in Codes, NEW s, StageOf(c)' = s,
         \A d \in Codes \ {c} : StageOf(d)' = StageOf(d)
  PROVE  EmailCodes!Move({c}, s)
BY DEF EmailCodes!Move

LEMMA CalmWithdraws ==
  ASSUME EmailInv, Calm
  PROVE  EmailCodes!Withdraw
<1>1. PICK C \in SUBSET Codes : \A c \in Codes : c \in C <=> ucodes[c].there /\ ~ucodes'[c].there
  <2> DEFINE D == {c \in Codes : ucodes[c].there /\ ~ucodes'[c].there}
  <2>1. D \in SUBSET Codes /\ \A c \in Codes : c \in D <=> ucodes[c].there /\ ~ucodes'[c].there
    OBVIOUS
  <2> QED
    BY <2>1
<1>2. ASSUME NEW c \in C
      PROVE  StageOf(c) = "live" /\ StageOf(c)' = "gone"
  <2>1. /\ c \in Codes /\ ucodes[c].there /\ ~ucodes'[c].there
        /\ born[c] # None /\ confirmed[c] = 0 /\ \A p \in Reqs : ~Holds(p, c)
    BY <1>1 DEF EmailInv
  <2>2. born'[c] = born[c] /\ confirmed'[c] = confirmed[c]
    BY DEF Calm
  <2>3. \A p \in Reqs : ~(req'[p].pc = "confirm" /\ req'[p].code = c)
    BY <2>1 DEF Calm, Holds
  <2>4. ~(Held(c)')
    BY <2>3 DEF Held
  <2> QED
    BY <2>1, <2>2, <2>4 DEF StageOf
<1>3. ASSUME NEW c \in Codes \ C
      PROVE  StageOf(c)' = StageOf(c)
  <2>1. ucodes'[c].there <=> ucodes[c].there
    BY <1>1 DEF Calm
  <2>2. \A p \in Reqs : (req'[p].pc = "confirm" /\ req'[p].code = c)
                          <=> (req[p].pc = "confirm" /\ req[p].code = c)
    BY DEF Calm
  <2>3. born'[c] = born[c] /\ confirmed'[c] = confirmed[c]
    BY DEF Calm
  <2> QED
    BY <2>1, <2>2, <2>3, StageStays
<1>4. C \in SUBSET EmailCodes!In("live")
  BY <1>1, <1>2 DEF EmailCodes!In
<1>5. EmailCodes!Move(C, "gone")
  BY <1>2, <1>3 DEF EmailCodes!Move
<1>6. UNCHANGED confirmed
  BY DEF Calm
<1> QED
  BY <1>4, <1>5, <1>6 DEF EmailCodes!Withdraw

(* ucode.create: the row is new, since a row is created once.               *)
LEMMA CreateIssues ==
  ASSUME TypeOK, EmailInv, NEW p \in Reqs, Create(p)
  PROVE  EmailCodes!Issue
<1>1. PICK x \in Codes \ Issued :
        /\ ucodes' = [ucodes EXCEPT ![x] = [until |-> req[p].until, verified |-> FALSE,
                                            there |-> TRUE]]
        /\ born' = [born EXCEPT ![x] = now]
  BY DEF Create
<1>2. /\ req \in [Reqs -> Request] /\ ucodes \in [Codes -> Row]
      /\ born \in [Codes -> Nat \cup {None}] /\ now \in Nat /\ None \notin Nat
  BY CodesAssumption DEF TypeOK
<1>3. born[x] = None /\ born'[x] # None /\ ucodes'[x].there
  BY <1>1, <1>2 DEF Issued
<1>4. StageOf(x) = "new" /\ StageOf(x)' = "live"
  BY <1>3 DEF StageOf
<1>5. UNCHANGED confirmed
  BY DEF Create
<1>6. \A q \in Reqs : /\ req'[q].pc = "confirm" <=> req[q].pc = "confirm"
                      /\ req[q].pc = "confirm" => req'[q].code = req[q].code
  BY <1>2 DEF Create, Finish, Idle, Request
<1>7. ASSUME NEW d \in Codes \ {x}
      PROVE  StageOf(d)' = StageOf(d)
  <2>1. born'[d] = born[d] /\ ucodes'[d] = ucodes[d] /\ confirmed'[d] = confirmed[d]
    BY <1>1, <1>2, <1>5
  <2> QED
    BY <1>6, <2>1, StageStays
<1>8. EmailCodes!Move({x}, "live")
  BY <1>4, <1>7, OneMoves
<1>9. x \in EmailCodes!In("new")
  BY <1>4 DEF EmailCodes!In
<1> QED
  BY <1>5, <1>8, <1>9 DEF EmailCodes!Issue

(* ucode.delete of a row that is there: this request alone holds the code.  *)
LEMMA ConsumeTakes ==
  ASSUME TypeOK, EmailInv, NEW p \in Reqs, Consume(p), ucodes[req[p].code].there
  PROVE  EmailCodes!Take
<1>1. PICK c : c = req[p].code
  OBVIOUS
<1>2. /\ c \in Codes /\ UNCHANGED <<born, confirmed>>
      /\ ucodes' = [ucodes EXCEPT ![c] = NoRow] /\ Goto(p, "confirm")
  BY <1>1 DEF Consume, history, OfCode, TypeOK, Issued
<1>3. req \in [Reqs -> Request] /\ ucodes \in [Codes -> Row]
  BY DEF TypeOK
<1>4. ~ucodes'[c].there /\ \A d \in Codes \ {c} : ucodes'[d] = ucodes[d]
  BY <1>2, <1>3 DEF NoRow, Row
<1>5. req'[p].pc = "confirm" /\ req'[p].code = c /\ \A q \in Reqs \ {p} : req'[q] = req[q]
  BY <1>1, <1>2, <1>3 DEF Goto, Request
<1>6. born[c] # None /\ ucodes[c].there
  BY <1>1, <1>2 DEF EmailInv
<1>7. Held(c)'
  BY <1>5 DEF Held
<1>8. StageOf(c) = "live" /\ StageOf(c)' = "held"
  BY <1>2, <1>4, <1>6, <1>7 DEF StageOf
<1>9. ASSUME NEW d \in Codes \ {c}
      PROVE  StageOf(d)' = StageOf(d)
  <2>1. born'[d] = born[d] /\ ucodes'[d] = ucodes[d] /\ confirmed'[d] = confirmed[d]
    BY <1>2, <1>4
  <2>2. \A q \in Reqs : (req'[q].pc = "confirm" /\ req'[q].code = d)
                          <=> (req[q].pc = "confirm" /\ req[q].code = d)
    BY <1>1, <1>5
  <2> QED
    BY <2>1, <2>2, StageStays
<1>10. EmailCodes!Move({c}, "held")
  BY <1>2, <1>8, <1>9, OneMoves
<1>11. c \in EmailCodes!In("live")
  BY <1>2, <1>8 DEF EmailCodes!In
<1> QED
  BY <1>2, <1>10, <1>11 DEF EmailCodes!Take

(* A request that holds a code stops holding it: afterwards nobody does.    *)
LEMMA HolderLeaves ==
  ASSUME TypeOK, EmailInv, NEW p \in Reqs, NEW c \in Codes, Holds(p, c), Finish(p),
         UNCHANGED <<ucodes, born>>, \A d \in Codes \ {c} : confirmed'[d] = confirmed[d]
  PROVE  /\ StageOf(c) = "held"
         /\ StageOf(c)' = IF confirmed'[c] > 0 THEN "spent" ELSE "gone"
         /\ \A d \in Codes \ {c} : StageOf(d)' = StageOf(d)
<1>1. req \in [Reqs -> Request]
  BY DEF TypeOK
<1>2. req'[p].pc = "idle" /\ \A q \in Reqs \ {p} : req'[q] = req[q]
  BY <1>1 DEF Finish, Idle
<1>3. born[c] # None /\ ~ucodes[c].there
  BY DEF EmailInv
<1>4. StageOf(c) = "held"
  BY <1>3 DEF StageOf, Held, Holds
<1>5. \A q \in Reqs : ~(req'[q].pc = "confirm" /\ req'[q].code = c)
  BY <1>2 DEF EmailInv, Holds
<1>6. ~(Held(c)')
  BY <1>5 DEF Held
<1>7. StageOf(c)' = IF confirmed'[c] > 0 THEN "spent" ELSE "gone"
  BY <1>3, <1>6 DEF StageOf
<1>8. ASSUME NEW d \in Codes \ {c}
      PROVE  StageOf(d)' = StageOf(d)
  <2>1. \A q \in Reqs : (req'[q].pc = "confirm" /\ req'[q].code = d)
                          <=> (req[q].pc = "confirm" /\ req[q].code = d)
    BY <1>2 DEF Holds
  <2>2. born'[d] = born[d] /\ ucodes'[d] = ucodes[d] /\ confirmed'[d] = confirmed[d]
    OBVIOUS
  <2> QED
    BY <2>1, <2>2, StageStays
<1> QED
  BY <1>4, <1>7, <1>8

LEMMA ConfirmSpends ==
  ASSUME TypeOK, EmailInv, NEW p \in Reqs, Confirm(p)
  PROVE  EmailCodes!Spend
<1>1. PICK c : c = req[p].code
  OBVIOUS
<1>2. /\ c \in Codes /\ UNCHANGED <<ucodes, born>> /\ Holds(p, c)
      /\ confirmed' = [confirmed EXCEPT ![c] = @ + 1] /\ Finish(p)
  BY <1>1 DEF Confirm, store, OfCode, Holds, TypeOK, Issued
<1>3. confirmed \in [Codes -> Nat]
  BY DEF TypeOK
<1>4. confirmed'[c] > 0 /\ \A d \in Codes \ {c} : confirmed'[d] = confirmed[d]
  BY <1>2, <1>3
<1>5. /\ StageOf(c) = "held"
      /\ StageOf(c)' = IF confirmed'[c] > 0 THEN "spent" ELSE "gone"
      /\ \A d \in Codes \ {c} : StageOf(d)' = StageOf(d)
  BY <1>2, <1>4, HolderLeaves
<1>6. EmailCodes!Move({c}, "spent")
  BY <1>2, <1>4, <1>5, OneMoves
<1>7. c \in EmailCodes!In("held")
  BY <1>2, <1>5 DEF EmailCodes!In
<1> QED
  BY <1>2, <1>6, <1>7 DEF EmailCodes!Spend

LEMMA FailLoses ==
  ASSUME TypeOK, EmailInv, NEW p \in Reqs, Fail(p), req[p].pc = "confirm"
  PROVE  EmailCodes!Lose
<1>1. PICK c : c = req[p].code
  OBVIOUS
<1>2. /\ c \in Codes /\ UNCHANGED <<ucodes, born>> /\ UNCHANGED confirmed
      /\ Holds(p, c) /\ Finish(p)
  BY <1>1 DEF Fail, store, history, OfCode, Holds, TypeOK, Issued
<1>3. confirmed'[c] = 0
  BY <1>2 DEF EmailInv
<1>4. /\ StageOf(c) = "held"
      /\ StageOf(c)' = IF confirmed'[c] > 0 THEN "spent" ELSE "gone"
      /\ \A d \in Codes \ {c} : StageOf(d)' = StageOf(d)
  BY <1>2, HolderLeaves
<1>5. EmailCodes!Move({c}, "gone")
  BY <1>2, <1>3, <1>4, OneMoves
<1>6. c \in EmailCodes!In("held")
  BY <1>2, <1>4 DEF EmailCodes!In
<1> QED
  BY <1>2, <1>5, <1>6 DEF EmailCodes!Lose

(* All the other steps are calm.                                            *)
LEMMA OthersCalm ==
  ASSUME TypeOK, [Next]_vars,
         \A p \in Reqs : /\ ~Create(p) /\ ~Confirm(p)
                         /\ ~(Consume(p) /\ ucodes[req[p].code].there)
                         /\ ~(Fail(p) /\ req[p].pc = "confirm")
  PROVE  Calm
<1>0. /\ req \in [Reqs -> Request] /\ ucodes \in [Codes -> Row]
      /\ \A p \in Reqs : req[p].pc \in OfCode => req[p].code \in Codes
  BY DEF TypeOK, Issued
<1>1. ASSUME NEW p \in Reqs, Finish(p), req[p].pc # "confirm"
      PROVE  \A q \in Reqs : /\ req'[q].pc = "confirm" <=> req[q].pc = "confirm"
                             /\ req[q].pc = "confirm" => req'[q].code = req[q].code
  BY <1>0, <1>1 DEF Finish, Idle
<1>2. ASSUME NEW p \in Reqs, NEW pc, Goto(p, pc), pc # "confirm", req[p].pc # "confirm"
      PROVE  \A q \in Reqs : /\ req'[q].pc = "confirm" <=> req[q].pc = "confirm"
                             /\ req[q].pc = "confirm" => req'[q].code = req[q].code
  BY <1>0, <1>2 DEF Goto, Request
<1>3. CASE Tick \/ UNCHANGED vars
  BY <1>3 DEF Tick, vars, store, history, Calm
<1>4. ASSUME NEW p \in Reqs, NEW r, r.pc # "confirm", req[p] = Idle, Start(p, r)
      PROVE  Calm
  BY <1>0, <1>4 DEF Start, store, history, Calm, Idle
<1>5. ASSUME NEW p \in Reqs, Arrive(p)
      PROVE  Calm
  BY <1>4, <1>5 DEF Arrive, ForgotPassword, ResendVerification, VerifyResetOtp, VerifyToken,
     VerifyEmail, ResetPassword, Idle
<1>6. ASSUME NEW p \in Reqs, Fail(p)
      PROVE  Calm
  BY <1>1, <1>6 DEF Fail, store, history, Calm
<1>7. ASSUME NEW p \in Reqs, Step(p)
      PROVE  Calm
  <2>1. CASE Sweep(p)
    <3>1. UNCHANGED <<born, confirmed>> /\ \A x \in Codes : ucodes'[x].there => ucodes[x].there
      BY <1>0, <2>1 DEF Sweep, history, NoRow, Row
    <3>2. \A q \in Reqs : /\ req'[q].pc = "confirm" <=> req[q].pc = "confirm"
                          /\ req[q].pc = "confirm" => req'[q].code = req[q].code
      BY <1>0, <2>1 DEF Sweep, Request
    <3> QED
      BY <3>1, <3>2 DEF Calm
  <2>2. CASE Purge(p)
    <3>1. UNCHANGED <<born, confirmed>> /\ \A x \in Codes : ~ucodes'[x].there
      BY <1>0, <2>2 DEF Purge, history, NoRow, Row
    <3> QED
      BY <1>2, <2>2, <3>1 DEF Calm, Purge
  <2>3. CASE Mark(p)
    <3>1. UNCHANGED <<born, confirmed>> /\ \A x \in Codes : ucodes'[x].there = ucodes[x].there
      BY <1>0, <2>3 DEF Mark, history, Row
    <3> QED
      BY <1>1, <1>2, <2>3, <3>1 DEF Calm, Mark
  <2>4. CASE Drop(p) \/ Discard(p) \/ Consume(p)
    <3>1. /\ req[p].code \in Codes /\ UNCHANGED <<born, confirmed>>
          /\ ucodes' = [ucodes EXCEPT ![req[p].code] = NoRow] /\ Finish(p)
          /\ req[p].pc # "confirm"
      BY <1>0, <2>4 DEF Drop, Discard, Consume, history, OfCode
    <3>2. \A x \in Codes : ucodes'[x].there => ucodes[x].there
      BY <1>0, <3>1 DEF NoRow, Row
    <3> QED
      BY <1>1, <3>1, <3>2 DEF Calm
  <2>5. CASE Open(p)
    <3>1. UNCHANGED <<born, confirmed, ucodes>>
      BY <2>5 DEF Open
    <3>2. \A q \in Reqs : /\ req'[q].pc = "confirm" <=> req[q].pc = "confirm"
                          /\ req[q].pc = "confirm" => req'[q].code = req[q].code
      BY <1>0, <2>5 DEF Open, Request
    <3> QED
      BY <3>1, <3>2 DEF Calm
  <2>6. CASE Find(p) \/ Seek(p) \/ Get(p) \/ Change(p) \/ Del(p)
    <3>1. UNCHANGED <<born, confirmed, ucodes>> /\ req[p].pc # "confirm"
      BY <2>6 DEF Find, Seek, Get, Change, Del, store, history
    <3>2. \/ Finish(p)
          \/ \E pc \in {"mark", "discard", "consume", "change", "del"} : Goto(p, pc)
      BY <2>6 DEF Find, Seek, Get, Change, Del
    <3> QED
      BY <1>1, <1>2, <3>1, <3>2 DEF Calm
  <2> QED
    BY <1>7, <2>1, <2>2, <2>3, <2>4, <2>5, <2>6 DEF Step
<1> QED
  BY <1>3, <1>5, <1>6, <1>7 DEF Next

LEMMA StepMaps ==
  ASSUME TypeOK, EmailInv, [Next]_vars
  PROVE  EmailCodes!Next
<1>1. CASE \E p \in Reqs : Create(p)
  BY <1>1, CreateIssues DEF EmailCodes!Next
<1>2. CASE \E p \in Reqs : Consume(p) /\ ucodes[req[p].code].there
  BY <1>2, ConsumeTakes DEF EmailCodes!Next
<1>3. CASE \E p \in Reqs : Confirm(p)
  BY <1>3, ConfirmSpends DEF EmailCodes!Next
<1>4. CASE \E p \in Reqs : Fail(p) /\ req[p].pc = "confirm"
  BY <1>4, FailLoses DEF EmailCodes!Next
<1>5. CASE Calm
  BY <1>5, CalmWithdraws DEF EmailCodes!Next
<1> QED
  BY <1>1, <1>2, <1>3, <1>4, <1>5, OthersCalm

LEMMA InitMaps == Init => EmailCodes!Init
<1> SUFFICES ASSUME Init
             PROVE  EmailCodes!Init
  OBVIOUS
<1>1. confirmed = [c \in Codes |-> 0]
  BY DEF Init
<1>2. ASSUME NEW c \in Codes
      PROVE  StageOf(c) \in {"new", "live"}
  BY CodesAssumption DEF Init, StageOf, NoRow
<1> QED
  BY <1>1, <1>2 DEF EmailCodes!Init

(* For verify-email, the table that three kinds of codes and six endpoints  *)
(* share is a supply of codes each of which one request takes and spends    *)
(* once or loses: every handler step is a step of SingleUse, for any number *)
(* of codes and overlapping or dying requests (verifyEmail, validateToken). *)
THEOREM CodesAreSingleUse == Spec => ImplementsSingleUse
<1>1. TypeOK /\ EmailInv /\ [Next]_vars => EmailCodes!Next
  BY StepMaps
<1>2. Spec => [](TypeOK /\ EmailInv)
  BY EmailInvAlways, TypeCorrect, PTL
<1> QED
  BY <1>1, <1>2, InitMaps, PTL DEF Spec, ImplementsSingleUse, EmailCodes!Spec

-----------------------------------------------------------------------------
(* One request at a time, short against the unit of time.                   *)

IsOpened(t) == opened[t] # NotOpened

(* What the request in flight knows.                                        *)
ShortReq(r) ==
  /\ r.pc \in OfToken => IsOpened(r.token)
  /\ r.pc = "change" => used[r.token] = 0 /\ now < opened[r.token].at + ResetLife
  /\ r.pc = "del" => used[r.token] = 1
  /\ r.pc \in {"change", "del"} => resetKey.token = r.token
  /\ r.pc \in {"purge", "create"} => r.until <= now + OtpLife
  /\ r.pc \in {"mark", "open"} => now < born[r.code] + OtpLife

(* A code in the table was issued no longer ago than its life allows.       *)
CodesDated ==
  \A c \in Codes : ucodes[c].there => born[c] # None /\ ucodes[c].until <= born[c] + OtpLife

(* A token was generated while its code lived, and the key holds it until   *)
(* it is used or a later one replaces it.                                   *)
TokenDated(t) ==
  /\ opened[t].code \in Codes /\ born[opened[t].code] # None
  /\ opened[t].at < born[opened[t].code] + OtpLife
  /\ opened[t].at <= now

Replaced(t) == \E later \in Tokens \ {t} : IsOpened(later) /\ opened[later].at >= opened[t].at

TokensInOrder ==
  \A t \in Tokens : IsOpened(t) =>
    TokenDated(t) /\ (used[t] > 0 \/ resetKey.token = t \/ Replaced(t))

KeyOfToken ==
  \A t \in Tokens : resetKey.token = t =>
    IsOpened(t) /\ resetKey.until = opened[t].at + ResetLife

(* Only the request that has just used a token finds it still in the key.   *)
UsesCounted ==
  \A t \in Tokens : used[t] > 0 =>
    /\ used[t] = 1 /\ IsOpened(t)
    /\ resetKey.token = t => \E p \in Reqs : req[p].pc = "del" /\ req[p].token = t

ShortInv ==
  /\ OneAtATime /\ CodesDated /\ TokensInOrder /\ KeyOfToken /\ UsesCounted
  /\ \A t \in given : IsOpened(t)
  /\ \A p \in Reqs : ShortReq(req[p])

LEMMA IdlePc == Idle.pc = "idle"
BY DEF Idle

LEMMA OthersIdle ==
  ASSUME OneAtATime, NEW p \in Reqs, req[p].pc # "idle", NEW q \in Reqs \ {p}
  PROVE  req[q] = Idle /\ req[q].pc = "idle"
BY IdlePc DEF OneAtATime

LEMMA StepNotIdle ==
  ASSUME NEW p \in Reqs, Step(p)
  PROVE  req[p].pc # "idle"
BY DEF Step, Sweep, Purge, Create, Find, Mark, Open, Drop, Seek, Discard, Consume, Confirm, Get,
       Change, Del

LEMMA StepOthers ==
  ASSUME TypeOK, OneAtATime, NEW p \in Reqs, Step(p)
  PROVE  /\ \A q \in Reqs \ {p} : req'[q] = Idle /\ req'[q].pc = "idle"
         /\ OneAtATime'
<1>1. \A q \in Reqs \ {p} : req[q] = Idle /\ req[q].pc = "idle"
  BY StepNotIdle, OthersIdle
<1>2. req \in [Reqs -> Request]
  BY DEF TypeOK
<1>3. \A q \in Reqs \ {p} : req'[q] = req[q]
  BY <1>2 DEF Step, Sweep, Purge, Create, Find, Mark, Open, Drop, Seek, Discard, Consume, Confirm,
              Get, Change, Del, Finish, Goto
<1> QED
  BY <1>1, <1>3 DEF OneAtATime, Idle

(* Statements that leave the tokens, the key and the clock alone.           *)
LEMMA TokensKept ==
  ASSUME ShortInv, UNCHANGED <<now, resetKey, born, opened, given, used>>,
         \A p \in Reqs : req[p].pc # "del"
  PROVE  /\ TokensInOrder' /\ KeyOfToken' /\ UsesCounted'
         /\ \A t \in given' : IsOpened(t)'
<1>1. TokensInOrder'
  BY DEF ShortInv, TokensInOrder, TokenDated, Replaced, IsOpened, NotOpened
<1>2. KeyOfToken'
  BY DEF ShortInv, KeyOfToken, IsOpened, NotOpened
<1>3. UsesCounted'
  BY DEF ShortInv, UsesCounted, IsOpened, NotOpened
<1> QED
  BY <1>1, <1>2, <1>3 DEF ShortInv, IsOpened, NotOpened

LEMMA IssueShort ==
  ASSUME TypeOK, ShortInv, NEW p \in Reqs, Sweep(p) \/ Purge(p) \/ Create(p)
  PROVE  ShortInv'
<1>1. /\ RequestsOK /\ StoreOK /\ req[p] \in Request /\ ShortReq(req[p])
      /\ now \in Nat /\ OtpLife \in Nat /\ born \in [Codes -> Nat \cup {None}]
      /\ ucodes \in [Codes -> Row]
  BY TypeParts, CodesAssumption DEF RequestsOK, StoreOK, ShortInv
<1>2. /\ \A q \in Reqs \ {p} : req'[q] = Idle /\ req'[q].pc = "idle"
      /\ OneAtATime'
  BY StepOthers DEF ShortInv, Step
<1>3. \A q \in Reqs : req[q].pc # "del"
  BY OthersIdle DEF ShortInv, Sweep, Purge, Create
<1>4. CASE Sweep(p) \/ Purge(p)
  <2>1. /\ TokensInOrder' /\ KeyOfToken' /\ UsesCounted'
        /\ \A t \in given' : IsOpened(t)'
    BY <1>3, <1>4, TokensKept DEF Sweep, Purge, history
  <2>2. CodesDated'
    BY <1>1, <1>4 DEF Sweep, Purge, history, ShortInv, CodesDated, NoRow
  <2>3. req'[p].pc = "create" /\ req'[p].until <= now + OtpLife
    BY <1>1, <1>4 DEF Sweep, Purge, Goto, RequestsOK, Request, ShortReq
  <2>4. now' = now
    BY <1>4 DEF Sweep, Purge
  <2>5. \A q \in Reqs : ShortReq(req[q])'
    BY <1>2, <2>3, <2>4 DEF ShortReq, OfToken
  <2> QED
    BY <1>2, <2>1, <2>2, <2>5 DEF ShortInv
<1>5. CASE Create(p)
  <2>1. PICK c \in Codes \ Issued :
          /\ ucodes' = [ucodes EXCEPT ![c] = [until |-> req[p].until, verified |-> FALSE,
                                              there |-> TRUE]]
          /\ born' = [born EXCEPT ![c] = now]
    BY <1>5 DEF Create
  <2>2. /\ UNCHANGED <<now, resetKey, opened, given, used>> /\ req'[p].pc = "idle"
        /\ req[p].pc = "create" /\ req[p].until <= now + OtpLife
    BY <1>1, <1>5, IdlePc DEF Create, Finish, RequestsOK, ShortReq
  <2>3. born[c] = None /\ \A d \in Codes \ {c} : born'[d] = born[d]
    BY <1>1, <2>1 DEF Issued
  <2>4. TokensInOrder'
    BY <2>2, <2>3 DEF ShortInv, TokensInOrder, TokenDated, Replaced, IsOpened, NotOpened
  <2>5. KeyOfToken' /\ UsesCounted' /\ \A t \in given' : IsOpened(t)'
    BY <1>3, <2>2 DEF ShortInv, KeyOfToken, UsesCounted, IsOpened, NotOpened
  <2>6. now # None
    BY <1>1, CodesAssumption
  <2>7. CodesDated'
    BY <1>1, <2>1, <2>2, <2>3, <2>6 DEF ShortInv, CodesDated
  <2>8. \A q \in Reqs : ShortReq(req[q])'
    BY <1>2, <2>2 DEF ShortReq, OfToken
  <2> QED
    BY <1>2, <2>4, <2>5, <2>7, <2>8 DEF ShortInv
<1> QED
  BY <1>4, <1>5

(* A code that is found lives on while the request that found it is short.  *)
LEMMA RedeemShort ==
  ASSUME TypeOK, ShortInv, NEW p \in Reqs, Find(p) \/ Mark(p)
  PROVE  ShortInv'
<1>1. /\ RequestsOK /\ StoreOK /\ req[p] \in Request /\ ShortReq(req[p]) /\ RequestOK(req[p])
      /\ now \in Nat /\ OtpLife \in Nat /\ born \in [Codes -> Nat \cup {None}]
      /\ ucodes \in [Codes -> Row]
  BY TypeParts, CodesAssumption DEF RequestsOK, StoreOK, ShortInv
<1>2. /\ \A q \in Reqs \ {p} : req'[q] = Idle /\ req'[q].pc = "idle"
      /\ OneAtATime'
  BY StepOthers DEF ShortInv, Step
<1>3. \A q \in Reqs : req[q].pc # "del"
  BY OthersIdle DEF ShortInv, Find, Mark
<1>4. /\ TokensInOrder' /\ KeyOfToken' /\ UsesCounted'
      /\ \A t \in given' : IsOpened(t)'
  BY <1>3, TokensKept DEF Find, Mark, history, store
<1>5. CodesDated'
  BY <1>1 DEF Find, Mark, history, store, ShortInv, CodesDated, Row
<1>6. \/ req'[p].pc = "idle"
      \/ /\ req'[p].pc \in {"mark", "open"} /\ req'[p].code = req[p].code
         /\ now < born[req[p].code] + OtpLife
  <2>1. CASE Find(p)
    <3>1. CASE Live(req[p].code)
      <4>1. req[p].code \in Codes /\ ucodes[req[p].code] \in Row
        BY <1>1, <2>1 DEF Find, RequestOK, OfCode, Issued
      <4>2. /\ ucodes[req[p].code].until > now /\ born[req[p].code] \in Nat
            /\ ucodes[req[p].code].until <= born[req[p].code] + OtpLife
        BY <1>1, <3>1, <4>1 DEF Live, ShortInv, CodesDated
      <4>3. now < born[req[p].code] + OtpLife
        BY <1>1, <4>1, <4>2 DEF Row
      <4> QED
        BY <1>1, <2>1, <3>1, <4>3 DEF Find, Goto, RequestsOK, Request
    <3> QED
      BY <1>1, <2>1, <3>1, IdlePc DEF Find, Finish, RequestsOK
  <2>2. CASE Mark(p)
    BY <1>1, <2>2, IdlePc DEF Mark, Goto, Finish, RequestsOK, Request, ShortReq
  <2> QED
    BY <2>1, <2>2
<1>7. \A q \in Reqs : ShortReq(req[q])'
  <2>1. UNCHANGED <<now, born>>
    BY DEF Find, Mark, history
  <2> QED
    BY <1>2, <1>6, <2>1 DEF ShortReq, OfToken
<1> QED
  BY <1>2, <1>4, <1>5, <1>7 DEF ShortInv

(* verify-email neither opens a reset nor issues a code.                    *)
LEMMA ValidateShort ==
  ASSUME TypeOK, ShortInv, NEW p \in Reqs, Seek(p) \/ Discard(p) \/ Consume(p) \/ Confirm(p)
  PROVE  ShortInv'
<1>1. RequestsOK /\ ucodes \in [Codes -> Row]
  BY TypeParts DEF StoreOK
<1>2. /\ \A q \in Reqs \ {p} : req'[q] = Idle /\ req'[q].pc = "idle"
      /\ OneAtATime'
  BY StepOthers DEF ShortInv, Step
<1>3. \A q \in Reqs : req[q].pc # "del"
  BY OthersIdle DEF ShortInv, Seek, Discard, Consume, Confirm
<1>4. /\ TokensInOrder' /\ KeyOfToken' /\ UsesCounted'
      /\ \A t \in given' : IsOpened(t)'
  BY <1>3, TokensKept DEF Seek, Discard, Consume, Confirm, history, store
<1>5. CodesDated'
  BY <1>1 DEF Seek, Discard, Consume, Confirm, history, store, ShortInv, CodesDated, NoRow
<1>6. req'[p].pc \in {"idle", "discard", "consume", "confirm"}
  BY <1>1, IdlePc DEF Seek, Discard, Consume, Confirm, Goto, Finish, RequestsOK, Request
<1>7. \A q \in Reqs : ShortReq(req[q])'
  BY <1>2, <1>6 DEF ShortReq, OfToken
<1> QED
  BY <1>2, <1>4, <1>5, <1>7 DEF ShortInv

(* A fresh token replaces what the key held, and it is the latest.          *)
LEMMA OpenTokenShort ==
  ASSUME TypeOK, ShortInv, NEW p \in Reqs, Open(p)
  PROVE  ShortInv'
<1>1. /\ RequestsOK /\ StoreOK /\ req[p] \in Request /\ ShortReq(req[p]) /\ RequestOK(req[p])
      /\ now \in Nat /\ OtpLife \in Nat /\ ResetLife \in Nat /\ born \in [Codes -> Nat \cup {None}]
      /\ opened \in [Tokens -> [code : Codes \cup {None}, at : Nat]]
      /\ used \in [Tokens -> Nat]
  BY TypeParts, CodesAssumption DEF RequestsOK, StoreOK, ShortInv
<1>2. /\ \A q \in Reqs \ {p} : req'[q] = Idle /\ req'[q].pc = "idle"
      /\ OneAtATime'
  BY StepOthers DEF ShortInv, Step
<1>3. \A q \in Reqs : req[q].pc # "del"
  BY OthersIdle DEF ShortInv, Open
<1>4. PICK t \in Tokens :
        /\ opened[t] = NotOpened
        /\ resetKey' = [token |-> t, until |-> now + ResetLife]
        /\ opened' = [opened EXCEPT ![t] = [code |-> req[p].code, at |-> now]]
        /\ req' = [req EXCEPT ![p].pc = "drop", ![p].token = t]
  BY DEF Open
<1>5. /\ UNCHANGED <<now, ucodes, born, given, used>> /\ req[p].pc = "open"
      /\ now < born[req[p].code] + OtpLife
      /\ req[p].code \in Codes /\ born[req[p].code] # None /\ req[p].code # None
  BY <1>1, CodesAssumption DEF Open, RequestOK, OfCode, Issued, ShortReq
<1>6. /\ opened'[t] = [code |-> req[p].code, at |-> now]
      /\ \A s \in Tokens \ {t} : opened'[s] = opened[s]
      /\ resetKey'.token = t /\ resetKey'.until = now + ResetLife
      /\ opened'[t] # NotOpened /\ opened'[t].at = now /\ opened'[t].code = req[p].code
  BY <1>1, <1>4, <1>5 DEF NotOpened
<1>7. \A s \in Tokens : IsOpened(s) => s # t /\ opened'[s] = opened[s] /\ opened'[s] # NotOpened
  BY <1>4, <1>6 DEF IsOpened
<1>8. TokensInOrder'
  <2> SUFFICES ASSUME NEW s \in Tokens, opened'[s] # NotOpened
               PROVE  TokenDated(s)' /\ (used'[s] > 0 \/ resetKey'.token = s \/ Replaced(s)')
    BY DEF TokensInOrder, IsOpened, NotOpened
  <2>1. CASE s = t
    BY <1>1, <1>5, <1>6, <2>1 DEF TokenDated
  <2>2. CASE s # t
    <3>1. TokenDated(s) /\ opened'[s] = opened[s]
      BY <1>6, <2>2 DEF ShortInv, TokensInOrder, IsOpened
    <3>2. opened'[t].at >= opened'[s].at
      BY <1>1, <1>6, <3>1 DEF TokenDated
    <3>3. Replaced(s)'
      BY <1>6, <2>2, <3>2 DEF Replaced, IsOpened, NotOpened
    <3> QED
      BY <1>5, <3>1, <3>3 DEF TokenDated
  <2> QED
    BY <2>1, <2>2
<1>9. KeyOfToken'
  BY <1>6 DEF KeyOfToken, IsOpened, NotOpened
<1>10. used[t] = 0
  BY <1>1, <1>4 DEF ShortInv, UsesCounted, IsOpened
<1>11. UsesCounted'
  <2>1. ASSUME NEW s \in Tokens, used[s] > 0
        PROVE  used[s] = 1 /\ opened'[s] # NotOpened /\ s # t
    BY <1>7, <1>10, <2>1 DEF ShortInv, UsesCounted
  <2> QED
    BY <1>5, <1>6, <2>1 DEF UsesCounted, IsOpened, NotOpened
<1>12. \A s \in given' : IsOpened(s)'
  BY <1>1, <1>5, <1>7 DEF ShortInv, StoreOK, IsOpened, NotOpened
<1>13. CodesDated'
  BY <1>5 DEF ShortInv, CodesDated
<1>14. req'[p].pc = "drop" /\ req'[p].token = t
  BY <1>1, <1>4 DEF RequestsOK, Request
<1>15. \A q \in Reqs : ShortReq(req[q])'
  BY <1>2, <1>6, <1>14 DEF ShortReq, OfToken, IsOpened, NotOpened
<1> QED
  BY <1>2, <1>8, <1>9, <1>11, <1>12, <1>13, <1>15 DEF ShortInv

LEMMA DropShort ==
  ASSUME TypeOK, ShortInv, NEW p \in Reqs, Drop(p)
  PROVE  ShortInv'
<1>1. RequestsOK /\ StoreOK /\ ShortReq(req[p]) /\ ucodes \in [Codes -> Row]
  BY TypeParts DEF StoreOK, ShortInv
<1>2. /\ \A q \in Reqs \ {p} : req'[q] = Idle /\ req'[q].pc = "idle"
      /\ OneAtATime'
  BY StepOthers DEF ShortInv, Step
<1>3. \A q \in Reqs : req[q].pc # "del"
  BY OthersIdle DEF ShortInv, Drop
<1>4. /\ UNCHANGED <<now, resetKey, born, opened, used>> /\ given' = given \cup {req[p].token}
      /\ IsOpened(req[p].token) /\ req'[p].pc = "idle"
  BY <1>1, IdlePc DEF Drop, ShortReq, OfToken, Finish, RequestsOK
<1>5. TokensInOrder'
  BY <1>4 DEF ShortInv, TokensInOrder, TokenDated, Replaced, IsOpened, NotOpened
<1>6. KeyOfToken' /\ UsesCounted'
  BY <1>3, <1>4 DEF ShortInv, KeyOfToken, UsesCounted, IsOpened, NotOpened
<1>7. \A t \in given' : IsOpened(t)'
  BY <1>4 DEF ShortInv, IsOpened, NotOpened
<1>8. CodesDated'
  BY <1>1 DEF Drop, ShortInv, CodesDated, NoRow
<1>9. \A q \in Reqs : ShortReq(req[q])'
  BY <1>2, <1>4 DEF ShortReq, OfToken
<1> QED
  BY <1>2, <1>5, <1>6, <1>7, <1>8, <1>9 DEF ShortInv

(* A token found in the key has not been used: whoever used it has taken it *)
(* out since.                                                               *)
LEMMA GetShort ==
  ASSUME TypeOK, ShortInv, NEW p \in Reqs, Get(p)
  PROVE  ShortInv'
<1>1. /\ RequestsOK /\ StoreOK /\ ShortReq(req[p]) /\ RequestOK(req[p])
      /\ used \in [Tokens -> Nat]
  BY TypeParts DEF RequestsOK, StoreOK, ShortInv
<1>2. /\ \A q \in Reqs \ {p} : req'[q] = Idle /\ req'[q].pc = "idle"
      /\ OneAtATime'
  BY StepOthers DEF ShortInv, Step
<1>3. \A q \in Reqs : req[q].pc # "del"
  BY OthersIdle DEF ShortInv, Get
<1>4. UNCHANGED <<now, ucodes, resetKey, born, opened, given, used>>
  BY DEF Get, store, history
<1>5. /\ TokensInOrder' /\ KeyOfToken' /\ UsesCounted'
      /\ \A t \in given' : IsOpened(t)'
  BY <1>3, <1>4, TokensKept
<1>6. CodesDated'
  BY <1>4 DEF ShortInv, CodesDated
<1>7. CASE resetKey.token = req[p].token /\ now < resetKey.until
  <2>1. req'[p].pc = "change" /\ req'[p].token = req[p].token
    BY <1>1, <1>7 DEF Get, Goto, RequestsOK, Request
  <2>2. req[p].token \in Tokens /\ req[p].pc = "get"
    BY <1>1 DEF Get, RequestOK, OfToken
  <2>3. /\ IsOpened(req[p].token) /\ used[req[p].token] = 0
        /\ now < opened[req[p].token].at + ResetLife
    BY <1>1, <1>3, <1>7, <2>2 DEF ShortInv, UsesCounted, KeyOfToken
  <2>4. \A q \in Reqs : ShortReq(req[q])'
    BY <1>2, <1>4, <1>7, <2>1, <2>3 DEF ShortReq, OfToken, IsOpened, NotOpened
  <2> QED
    BY <1>2, <1>5, <1>6, <2>4 DEF ShortInv
<1>8. CASE ~(resetKey.token = req[p].token /\ now < resetKey.until)
  <2>1. req'[p].pc = "idle"
    BY <1>1, <1>8, IdlePc DEF Get, Finish, RequestsOK
  <2>2. \A q \in Reqs : ShortReq(req[q])'
    BY <1>2, <2>1 DEF ShortReq, OfToken
  <2> QED
    BY <1>2, <1>5, <1>6, <2>2 DEF ShortInv
<1> QED
  BY <1>7, <1>8

LEMMA ChangeShort ==
  ASSUME TypeOK, ShortInv, NEW p \in Reqs, Change(p)
  PROVE  ShortInv'
<1>1. /\ RequestsOK /\ StoreOK /\ ShortReq(req[p]) /\ RequestOK(req[p])
      /\ used \in [Tokens -> Nat]
  BY TypeParts DEF RequestsOK, StoreOK, ShortInv
<1>2. /\ \A q \in Reqs \ {p} : req'[q] = Idle /\ req'[q].pc = "idle"
      /\ OneAtATime'
  BY StepOthers DEF ShortInv, Step
<1>3. \A q \in Reqs : req[q].pc # "del"
  BY OthersIdle DEF ShortInv, Change
<1>4. PICK t \in Tokens : t = req[p].token
  BY <1>1 DEF Change, RequestOK, OfToken
<1>5. /\ UNCHANGED <<now, ucodes, resetKey, born, opened, given>>
      /\ used' = [used EXCEPT ![t] = @ + 1]
      /\ req'[p].pc = "del" /\ req'[p].token = t
      /\ used[t] = 0 /\ IsOpened(t) /\ resetKey.token = t
  BY <1>1, <1>4 DEF Change, store, Goto, RequestsOK, Request, ShortReq, OfToken
<1>6. used'[t] = 1 /\ \A s \in Tokens \ {t} : used'[s] = used[s]
  BY <1>1, <1>5
<1>7. TokensInOrder'
  <2>1. \A s \in Tokens : used[s] > 0 => used'[s] > 0
    BY <1>5, <1>6
  <2> QED
    BY <1>5, <2>1 DEF ShortInv, TokensInOrder, TokenDated, Replaced, IsOpened, NotOpened
<1>8. KeyOfToken' /\ CodesDated' /\ \A s \in given' : IsOpened(s)'
  BY <1>5 DEF ShortInv, KeyOfToken, CodesDated, IsOpened, NotOpened
<1>9. UsesCounted'
  <2> SUFFICES ASSUME NEW s \in Tokens, used'[s] > 0
               PROVE  /\ used'[s] = 1 /\ opened'[s] # NotOpened
                      /\ resetKey'.token = s => req'[p].pc = "del" /\ req'[p].token = s
    BY DEF UsesCounted, IsOpened, NotOpened
  <2>1. CASE s = t
    BY <1>5, <1>6, <2>1 DEF IsOpened
  <2>2. CASE s # t
    BY <1>5, <1>6, <2>2 DEF ShortInv, UsesCounted, IsOpened
  <2> QED
    BY <2>1, <2>2
<1>10. \A q \in Reqs : ShortReq(req[q])'
  BY <1>2, <1>5, <1>6 DEF ShortReq, OfToken, IsOpened, NotOpened
<1> QED
  BY <1>2, <1>7, <1>8, <1>9, <1>10 DEF ShortInv

(* redis.del takes the token the request has used, and no other.            *)
LEMMA DelShort ==
  ASSUME TypeOK, ShortInv, NEW p \in Reqs, Del(p)
  PROVE  ShortInv'
<1>1. /\ RequestsOK /\ StoreOK /\ ShortReq(req[p]) /\ RequestOK(req[p])
      /\ used \in [Tokens -> Nat]
  BY TypeParts DEF RequestsOK, StoreOK, ShortInv
<1>2. /\ \A q \in Reqs \ {p} : req'[q] = Idle /\ req'[q].pc = "idle"
      /\ OneAtATime'
  BY StepOthers DEF ShortInv, Step
<1>3. /\ UNCHANGED <<now, ucodes, born, opened, given, used>>
      /\ resetKey' = NoKey /\ req'[p].pc = "idle"
      /\ used[req[p].token] = 1 /\ resetKey.token = req[p].token
  BY <1>1, IdlePc DEF Del, history, ShortReq, Finish, RequestsOK
<1>4. \A t \in Tokens : resetKey'.token # t
  BY <1>3, CodesAssumption DEF NoKey
<1>5. TokensInOrder'
  BY <1>3 DEF ShortInv, TokensInOrder, TokenDated, Replaced, IsOpened, NotOpened
<1>6. KeyOfToken'
  BY <1>4 DEF KeyOfToken
<1>7. UsesCounted'
  BY <1>3, <1>4 DEF ShortInv, UsesCounted, IsOpened, NotOpened
<1>8. CodesDated' /\ \A t \in given' : IsOpened(t)'
  BY <1>3 DEF ShortInv, CodesDated, IsOpened, NotOpened
<1>9. \A q \in Reqs : ShortReq(req[q])'
  BY <1>2, <1>3 DEF ShortReq, OfToken
<1> QED
  BY <1>2, <1>5, <1>6, <1>7, <1>8, <1>9 DEF ShortInv

LEMMA ArriveShort ==
  ASSUME TypeOK, ShortInv, NEW p \in Reqs, Arrive(p), OneAtATime'
  PROVE  ShortInv'
<1>1. /\ RequestsOK /\ now \in Nat /\ ShortLife \in Nat /\ OtpLife \in Nat /\ ShortLife <= OtpLife
  BY TypeParts, CodesAssumption DEF StoreOK
<1>2. UNCHANGED <<now, ucodes, resetKey, born, opened, given, used>>
  BY DEF Arrive, ForgotPassword, ResendVerification, VerifyResetOtp, VerifyToken, VerifyEmail,
         ResetPassword, Start, store, history
<1>3. /\ \A q \in Reqs \ {p} : req'[q] = req[q]
      /\ \/ req'[p].pc \in {"sweep", "find", "seek"}
         \/ req'[p].pc = "purge" /\ req'[p].until = now + ShortLife
         \/ req'[p].pc = "get" /\ req'[p].token \in given
  BY <1>1 DEF Arrive, ForgotPassword, ResendVerification, VerifyResetOtp, VerifyToken, VerifyEmail,
         ResetPassword, Start, RequestsOK, Idle
<1>4. \A q \in Reqs \ {p} : req[q].pc = "idle"
  <2>1. req'[p] # Idle
    BY <1>3, IdlePc
  <2> QED
    BY <1>3, <2>1, IdlePc DEF OneAtATime, Idle
<1>5. \A q \in Reqs : req[q].pc # "del"
  BY <1>4, IdlePc DEF Arrive
<1>6. /\ TokensInOrder' /\ KeyOfToken' /\ UsesCounted'
      /\ \A t \in given' : IsOpened(t)'
  BY <1>2, <1>5, TokensKept
<1>7. CodesDated'
  BY <1>2 DEF ShortInv, CodesDated
<1>8. ShortReq(req[p])'
  BY <1>1, <1>2, <1>3 DEF ShortReq, ShortInv, OfToken, IsOpened, NotOpened
<1>9. \A q \in Reqs : ShortReq(req[q])'
  BY <1>3, <1>4, <1>8 DEF ShortReq, OfToken
<1> QED
  BY <1>6, <1>7, <1>9 DEF ShortInv

LEMMA TickShort ==
  ASSUME TypeOK, ShortInv, Tick, AtRest
  PROVE  ShortInv'
<1>1. /\ StoreOK /\ now \in Nat /\ UNCHANGED <<ucodes, resetKey, req, born, opened, given, used>>
      /\ now' = now + 1 /\ opened \in [Tokens -> [code : Codes \cup {None}, at : Nat]]
  BY TypeParts DEF StoreOK, Tick, store, history
<1>2. \A q \in Reqs : req[q].pc = "idle" /\ req[q] = Idle
  BY IdlePc DEF AtRest
<1>3. TokensInOrder'
  BY <1>1 DEF ShortInv, TokensInOrder, TokenDated, Replaced, IsOpened, NotOpened
<1>4. KeyOfToken' /\ UsesCounted' /\ CodesDated' /\ \A t \in given' : IsOpened(t)'
  BY <1>1 DEF ShortInv, KeyOfToken, UsesCounted, CodesDated, IsOpened, NotOpened
<1>5. \A q \in Reqs : ShortReq(req[q])'
  BY <1>1, <1>2 DEF ShortReq, OfToken
<1>6. OneAtATime'
  BY <1>1 DEF ShortInv, OneAtATime, Idle
<1> QED
  BY <1>3, <1>4, <1>5, <1>6 DEF ShortInv

LEMMA ShortInit == Init => ShortInv
<1> SUFFICES ASSUME Init
             PROVE  ShortInv
  OBVIOUS
<1>1. \A p \in Reqs : req[p] = Idle /\ req[p].pc = "idle"
  BY IdlePc DEF Init
<1>2. CodesDated
  BY CodesAssumption DEF Init, CodesDated, NoRow
<1>3. \A t \in Tokens : ~IsOpened(t) /\ used[t] = 0 /\ resetKey.token # t
  BY CodesAssumption DEF Init, IsOpened, NoKey
<1>4. TokensInOrder /\ KeyOfToken /\ UsesCounted
  BY <1>3 DEF TokensInOrder, KeyOfToken, UsesCounted
<1>5. given = {}
  BY DEF Init
<1> QED
  BY <1>1, <1>2, <1>4, <1>5 DEF ShortInv, OneAtATime, ShortReq, OfToken

SerialPart == TypeOK /\ (part = "serial" => ShortInv)

LEMMA SerialPartInit == MCInit => SerialPart
BY InitType, ShortInit DEF MCInit, SerialPart

LEMMA SerialPartNext == SerialPart /\ [MCNext]_<<vars, part>> => SerialPart'
<1> SUFFICES ASSUME SerialPart, [MCNext]_<<vars, part>>
             PROVE  SerialPart'
  OBVIOUS
<1>1. [Next]_vars
  BY DEF MCNext, Next
<1>2. TypeOK' /\ TypeOK /\ part' = part
  BY <1>1, NextType DEF SerialPart, MCNext
<1>3. ASSUME part = "serial"
      PROVE  ShortInv'
  <2>1. ShortInv
    BY <1>3 DEF SerialPart
  <2>2. CASE Tick /\ AtRest
    BY <1>2, <2>1, <2>2, TickShort
  <2>3. ASSUME NEW p \in Reqs, Arrive(p), OneAtATime'
        PROVE  ShortInv'
    BY <1>2, <2>1, <2>3, ArriveShort
  <2>4. ASSUME NEW p \in Reqs, Step(p)
        PROVE  ShortInv'
    BY <1>2, <2>1, <2>4, IssueShort, RedeemShort, ValidateShort, OpenTokenShort, DropShort, GetShort,
       ChangeShort, DelShort DEF Step
  <2>5. CASE UNCHANGED <<vars, part>>
    <3>1. UNCHANGED <<now, ucodes, resetKey, born, opened, given, used, req>>
      BY <2>5 DEF vars
    <3>2. TokensInOrder'
      BY <2>1, <3>1 DEF ShortInv, TokensInOrder, TokenDated, Replaced, IsOpened, NotOpened
    <3>3. KeyOfToken' /\ UsesCounted' /\ CodesDated' /\ OneAtATime' /\ \A t \in given' : IsOpened(t)'
      BY <2>1, <3>1 DEF ShortInv, KeyOfToken, UsesCounted, CodesDated, OneAtATime, Idle, IsOpened,
                        NotOpened
    <3>4. \A q \in Reqs : ShortReq(req[q])'
      BY <2>1, <3>1 DEF ShortInv, ShortReq, OfToken, IsOpened, NotOpened
    <3> QED
      BY <3>2, <3>3, <3>4 DEF ShortInv
  <2>6. MCNext => \/ Tick /\ AtRest
                  \/ \E p \in Reqs : (Arrive(p) /\ OneAtATime') \/ Step(p)
    <3>1. Small' => OneAtATime'
      BY <1>2, <1>3 DEF Small
    <3> QED
      BY <1>3, <3>1 DEF MCNext
  <2> QED
    BY <2>2, <2>3, <2>4, <2>5, <2>6
<1> QED
  BY <1>2, <1>3 DEF SerialPart

(* Requests that do not overlap use a reset token once: between the GET     *)
(* that finds it and the DEL that takes it nobody else finds it.            *)
THEOREM TokensUsedOnce == MCSpec => []SerialTokenUsedOnce
<1>1. SerialPart => SerialTokenUsedOnce
  <2> SUFFICES ASSUME SerialPart, part = "serial", NEW t \in Tokens
               PROVE  used[t] <= 1
    BY DEF SerialTokenUsedOnce, TokenUsedOnce
  <2>1. used[t] \in Nat
    BY TypeParts DEF SerialPart, StoreOK
  <2> QED
    BY <2>1 DEF SerialPart, ShortInv, UsesCounted
<1> QED
  BY <1>1, SerialPartInit, SerialPartNext, PTL DEF MCSpec

(* A token handed out and neither used nor replaced works for its fifteen   *)
(* minutes: redis.del removes no key but the one its request has used.      *)
THEOREM TokensLast == MCSpec => []SerialResetTokenLasts
<1>1. SerialPart => SerialResetTokenLasts
  <2> SUFFICES ASSUME SerialPart, part = "serial", NEW t \in given,
                      ~(now >= opened[t].at + ResetLife)
               PROVE  \/ used[t] > 0
                      \/ resetKey.token = t /\ now < resetKey.until
                      \/ Replaced(t)
    BY DEF SerialResetTokenLasts, ResetTokenLasts, Replaced, IsOpened
  <2>1. /\ StoreOK /\ t \in Tokens /\ now \in Nat /\ ResetLife \in Nat
        /\ opened[t] \in [code : Codes \cup {None}, at : Nat]
    BY TypeParts, CodesAssumption DEF SerialPart, StoreOK
  <2>2. IsOpened(t) /\ TokensInOrder /\ KeyOfToken
    BY DEF SerialPart, ShortInv
  <2>3. resetKey.token = t => now < resetKey.until
    BY <2>1, <2>2 DEF KeyOfToken
  <2> QED
    BY <2>1, <2>2, <2>3 DEF TokensInOrder
<1> QED
  BY <1>1, SerialPartInit, SerialPartNext, PTL DEF MCSpec

(* No password is reset later than the lives of a code and of a token after *)
(* the code was issued, where requests are short: the token is opened while *)
(* its code lives and found while the key does.                             *)
THEOREM ResetsInTime == MCSpec => SerialResetWithinBound
<1>1. SerialPart /\ [MCNext]_<<vars, part>> =>
        [part = "serial" => \A p \in Reqs :
           Change(p) => now < born[opened[req[p].token].code] + OtpLife + ResetLife]_vars
  <2> SUFFICES ASSUME SerialPart, part = "serial", NEW p \in Reqs, Change(p)
               PROVE  now < born[opened[req[p].token].code] + OtpLife + ResetLife
    OBVIOUS
  <2>1. /\ RequestsOK /\ StoreOK /\ ShortInv /\ now \in Nat
        /\ OtpLife \in Nat /\ ResetLife \in Nat
    BY TypeParts, CodesAssumption DEF SerialPart, StoreOK
  <2>2. PICK t \in Tokens : t = req[p].token
    BY <2>1 DEF Change, RequestsOK, RequestOK, OfToken
  <2>3. now < opened[t].at + ResetLife /\ IsOpened(t)
    BY <2>1, <2>2 DEF ShortInv, ShortReq, Change, OfToken
  <2>4. /\ TokenDated(t) /\ opened[t].at \in Nat /\ born[opened[t].code] \in Nat
    <3>1. TokenDated(t) /\ opened[t].at \in Nat
      BY <2>1, <2>3 DEF ShortInv, TokensInOrder, StoreOK
    <3> QED
      BY <2>1, <3>1 DEF TokenDated, StoreOK
  <2>5. PICK b \in Nat, a \in Nat : b = born[opened[t].code] /\ a = opened[t].at
    BY <2>4
  <2>6. now < a + ResetLife /\ a < b + OtpLife
    BY <2>3, <2>4, <2>5 DEF TokenDated
  <2> QED
    BY <2>1, <2>2, <2>5, <2>6
<1> QED
  BY <1>1, SerialPartInit, SerialPartNext, PTL DEF MCSpec, SerialResetWithinBound
=============================================================================
