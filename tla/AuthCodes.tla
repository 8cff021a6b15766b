------------------------------ MODULE AuthCodes ------------------------------
(***************************************************************************)
(* The one-time codes of one account (the ucodes rows of its email address)*)
(* and the key password_reset:<email> in Redis, which a code opens for     *)
(* fifteen minutes.  Three endpoints mail codes, three redeem them and one *)
(* resets the password.  None of them uses a transaction: every awaited    *)
(* call of UcodeRepository, Prisma or Redis is a step of its own, and      *)
(* requests interleave between them.  A code stands for its row: rows with *)
(* the same six digits are not told apart.                                 *)
(***************************************************************************)
EXTENDS Integers, FiniteSets

CONSTANTS
  Codes,         \* the ucodes rows an instance creates
  Tokens,        \* the reset tokens it generates
  Reqs,          \* HTTP requests that can be in flight together
  Ops,           \* the endpoints the clients of an instance call
  OtpLife,       \* life of a code of register, forgot-password, resend-otp
  ShortLife,     \* life of a code of resend-verification-email
  ResetLife,     \* life of the Redis key
  MaxTime,       \* bound on the clock
  MaxUses,       \* bound on the resets a client tries with one used token
  SlowRequests,  \* can the clock advance while a request is in flight
  MayFail,       \* can a request die between two of its calls
  None           \* no row, no key, no value

AllOps == {"forgot", "resend", "verifyReset", "verifyToken", "verifyEmail", "reset"}

ASSUME CodesAssumption ==
  /\ {OtpLife, ShortLife, ResetLife, MaxTime, MaxUses} \subseteq Nat
  /\ ShortLife <= OtpLife
  /\ Ops \subseteq AllOps
  /\ {SlowRequests, MayFail} \subseteq BOOLEAN
  /\ None \notin Nat \cup Codes \cup Tokens \cup AllOps

VARIABLES
  now,        \* the clock of the server and of Redis
  ucodes,     \* ucodes[c]: expired_at and verified_at of row c
  resetKey,   \* password_reset:<email>: its token and when it expires
  req,        \* req[p]: the handler request p runs and what it has read
  born,       \* history: when row c was created
  opened,     \* history: the code token t was generated for, and when
  given,      \* history: the tokens a response has carried to a client
  used,       \* history: how often token t changed the password
  confirmed   \* history: how often code c verified the email address

store == <<ucodes, resetKey>>
history == <<born, opened, given, used, confirmed>>
vars == <<now, ucodes, resetKey, req, born, opened, given, used, confirmed>>

NoRow == [until |-> 0, verified |-> FALSE, there |-> FALSE]
NoKey == [token |-> None, until |-> 0]
NotOpened == [code |-> None, at |-> 0]
Idle == [pc |-> "idle", op |-> None, code |-> None, token |-> None, until |-> 0]

Issued == {c \in Codes : born[c] # None}
(* Mutant: expired_at is not compared. *)
LiveForEver(c) == ucodes[c].there /\ ~ucodes[c].verified
(* What verifyToken looks for.                                              *)
Live(c) == ucodes[c].there /\ ucodes[c].until > now /\ ~ucodes[c].verified

Finish(p) == req' = [req EXCEPT ![p] = Idle]
Goto(p, pc) == req' = [req EXCEPT ![p].pc = pc]
Start(p, r) ==
  /\ req' = [req EXCEPT ![p] = r]
  /\ UNCHANGED <<now, store, history>>

-----------------------------------------------------------------------------
(* Requests arrive.  The account exists: a row of users is never deleted.   *)

(* forgotPassword and resendToken are the same statements.                  *)
ForgotPassword(p) ==
  /\ "forgot" \in Ops
  /\ Start(p, [Idle EXCEPT !.pc = "sweep", !.op = "forgot"])

(* resendVerificationEmail: createToken fixes expired_at before it deletes. *)
ResendVerification(p) ==
  /\ "resend" \in Ops
  /\ Start(p, [Idle EXCEPT !.pc = "purge", !.op = "resend", !.until = now + ShortLife])

(* verifyResetOtp and verifyToken call UcodeRepository.verifyToken.         *)
VerifyResetOtp(p) ==
  /\ "verifyReset" \in Ops
  /\ \E c \in Issued : Start(p, [Idle EXCEPT !.pc = "find", !.op = "verifyReset",
                                             !.code = c])

VerifyToken(p) ==
  /\ "verifyToken" \in Ops
  /\ \E c \in Issued : Start(p, [Idle EXCEPT !.pc = "find", !.op = "verifyToken",
                                             !.code = c])

(* verifyEmail calls UcodeRepository.validateToken.                         *)
VerifyEmail(p) ==
  /\ "verifyEmail" \in Ops
  /\ \E c \in Issued : Start(p, [Idle EXCEPT !.pc = "seek", !.op = "verifyEmail",
                                             !.code = c])

(* resetPasswordWithToken.                                                  *)
ResetPassword(p) ==
  /\ "reset" \in Ops
  /\ \E t \in given :
       /\ used[t] < MaxUses
       /\ Start(p, [Idle EXCEPT !.pc = "get", !.op = "reset", !.token = t])

-----------------------------------------------------------------------------
(* Issuing a code *)

(* deleteExpiredTokens; the new expired_at is computed when it returns.     *)
Sweep(p) ==
  /\ req[p].pc = "sweep"
  /\ ucodes' = [c \in Codes |-> IF ucodes[c].until < now \/ ucodes[c].verified
                                THEN NoRow ELSE ucodes[c]]
  /\ req' = [req EXCEPT ![p].pc = "create", ![p].until = now + OtpLife]
  /\ UNCHANGED <<now, resetKey, history>>

(* createToken: ucode.deleteMany of every row of the email.                 *)
Purge(p) ==
  /\ req[p].pc = "purge"
  /\ ucodes' = [c \in Codes |-> NoRow]
  /\ Goto(p, "create")
  /\ UNCHANGED <<now, resetKey, history>>

(* ucode.create.  The mail is only queued.                                  *)
Create(p) ==
  /\ req[p].pc = "create"
  /\ \E c \in Codes \ Issued :
       /\ ucodes' = [ucodes EXCEPT ![c] = [until |-> req[p].until, verified |-> FALSE,
                                           there |-> TRUE]]
       /\ born' = [born EXCEPT ![c] = now]
  /\ Finish(p)
  /\ UNCHANGED <<now, resetKey, opened, given, used, confirmed>>

-----------------------------------------------------------------------------
(* Redeeming a code *)

(* ucode.findFirst of verifyToken.                                          *)
Find(p) ==
  /\ req[p].pc = "find"
  /\ IF Live(req[p].code) THEN Goto(p, "mark") ELSE Finish(p)
  /\ UNCHANGED <<now, store, history>>

AfterMark(op) == IF op = "verifyReset" THEN "open" ELSE "idle"

(* Mutant: verified_at is not set. *)
MarkNothing(p) ==
  LET c == req[p].code IN
  /\ req[p].pc = "mark"
  /\ UNCHANGED ucodes
  /\ IF ucodes[c].there /\ req[p].op = "verifyReset" THEN Goto(p, "open") ELSE Finish(p)
  /\ UNCHANGED <<now, resetKey, history>>

(* ucode.update of verified_at by id: it throws when the row is gone.       *)
Mark(p) ==
  LET c == req[p].code IN
  /\ req[p].pc = "mark"
  /\ ucodes' = IF ucodes[c].there THEN [ucodes EXCEPT ![c].verified = TRUE] ELSE ucodes
  /\ IF ucodes[c].there /\ req[p].op = "verifyReset" THEN Goto(p, "open") ELSE Finish(p)
  /\ UNCHANGED <<now, resetKey, history>>

(* Mutant: the token is stored and not returned. *)
OpenUnseen(p) ==
  /\ req[p].pc = "open"
  /\ \E t \in Tokens :
       /\ opened[t] = NotOpened
       /\ resetKey' = [token |-> t, until |-> now + ResetLife]
       /\ opened' = [opened EXCEPT ![t] = [code |-> req[p].code, at |-> now]]
       /\ Goto(p, "drop")
  /\ UNCHANGED <<now, ucodes, born, given, used, confirmed>>

(* Mutant: the key lives for a third of the time. *)
OpenShort(p) ==
  /\ req[p].pc = "open"
  /\ \E t \in Tokens :
       /\ opened[t] = NotOpened
       /\ resetKey' = [token |-> t, until |-> now + 1]
       /\ opened' = [opened EXCEPT ![t] = [code |-> req[p].code, at |-> now]]
       /\ req' = [req EXCEPT ![p].pc = "drop", ![p].token = t]
  /\ UNCHANGED <<now, ucodes, born, given, used, confirmed>>

(* redis.setex of a fresh token, over whatever the key held.                *)
Open(p) ==
  /\ req[p].pc = "open"
  /\ \E t \in Tokens :
       /\ opened[t] = NotOpened
       /\ resetKey' = [token |-> t, until |-> now + ResetLife]
       /\ opened' = [opened EXCEPT ![t] = [code |-> req[p].code, at |-> now]]
       /\ req' = [req EXCEPT ![p].pc = "drop", ![p].token = t]
  /\ UNCHANGED <<now, ucodes, born, given, used, confirmed>>

(* deleteToken, and the response with the reset token.                      *)
Drop(p) ==
  /\ req[p].pc = "drop"
  /\ ucodes' = [ucodes EXCEPT ![req[p].code] = NoRow]
  /\ given' = given \cup {req[p].token}
  /\ Finish(p)
  /\ UNCHANGED <<now, resetKey, born, opened, used, confirmed>>

(* validateToken: verified_at is not asked, and a code that expires now is  *)
(* still good.                                                              *)
Seek(p) ==
  LET row == ucodes[req[p].code] IN
  /\ req[p].pc = "seek"
  /\ IF ~row.there THEN Finish(p)
     ELSE IF row.until < now THEN Goto(p, "discard") ELSE Goto(p, "consume")
  /\ UNCHANGED <<now, store, history>>

Discard(p) ==
  /\ req[p].pc = "discard"
  /\ ucodes' = [ucodes EXCEPT ![req[p].code] = NoRow]
  /\ Finish(p)
  /\ UNCHANGED <<now, resetKey, history>>

(* Mutant: deleteMany, which deletes nothing without complaint. *)
ConsumeMany(p) ==
  /\ req[p].pc = "consume"
  /\ ucodes' = [ucodes EXCEPT ![req[p].code] = NoRow]
  /\ Goto(p, "confirm")
  /\ UNCHANGED <<now, resetKey, history>>

(* ucode.delete by id: it throws when the row is gone.                      *)
Consume(p) ==
  /\ req[p].pc = "consume"
  /\ ucodes' = [ucodes EXCEPT ![req[p].code] = NoRow]
  /\ IF ucodes[req[p].code].there THEN Goto(p, "confirm") ELSE Finish(p)
  /\ UNCHANGED <<now, resetKey, history>>

(* user.update of email_verified_at.                                        *)
Confirm(p) ==
  /\ req[p].pc = "confirm"
  /\ confirmed' = [confirmed EXCEPT ![req[p].code] = @ + 1]
  /\ Finish(p)
  /\ UNCHANGED <<now, store, born, opened, given, used>>

-----------------------------------------------------------------------------
(* Resetting the password *)

(* redis.get: an expired key is not there.                                  *)
Get(p) ==
  /\ req[p].pc = "get"
  /\ IF resetKey.token = req[p].token /\ now < resetKey.until
     THEN Goto(p, "change") ELSE Finish(p)
  /\ UNCHANGED <<now, store, history>>

(* UserRepository.changePassword.                                           *)
Change(p) ==
  /\ req[p].pc = "change"
  /\ used' = [used EXCEPT ![req[p].token] = @ + 1]
  /\ Goto(p, "del")
  /\ UNCHANGED <<now, store, born, opened, given, confirmed>>

(* Mutant: the key is kept. *)
DelNothing(p) ==
  /\ req[p].pc = "del"
  /\ Finish(p)
  /\ UNCHANGED <<now, store, history>>

(* redis.del: whatever token the key holds by now.                          *)
Del(p) ==
  /\ req[p].pc = "del"
  /\ resetKey' = NoKey
  /\ Finish(p)
  /\ UNCHANGED <<now, ucodes, history>>

-----------------------------------------------------------------------------
(* The process dies or a call fails: what was done stays.                   *)
Fail(p) ==
  /\ MayFail
  /\ req[p] # Idle
  /\ Finish(p)
  /\ UNCHANGED <<now, store, history>>

AtRest == \A p \in Reqs : req[p] = Idle

(* The unit of time is far longer than a request, unless SlowRequests.      *)
Tick ==
  /\ now < MaxTime
  /\ SlowRequests \/ AtRest
  /\ now' = now + 1
  /\ UNCHANGED <<store, req, history>>

(* Right after register: one code, mailed with the registration.            *)
Init ==
  /\ now = 0
  /\ \E c \in Codes :
       /\ ucodes = [x \in Codes |-> IF x = c THEN [until |-> OtpLife, verified |-> FALSE,
                                                   there |-> TRUE]
                                    ELSE NoRow]
       /\ born = [x \in Codes |-> IF x = c THEN 0 ELSE None]
  /\ resetKey = NoKey
  /\ req = [p \in Reqs |-> Idle]
  /\ opened = [t \in Tokens |-> NotOpened]
  /\ given = {}
  /\ used = [t \in Tokens |-> 0]
  /\ confirmed = [c \in Codes |-> 0]

Arrive(p) ==
  /\ req[p] = Idle
  /\ \/ ForgotPassword(p) \/ ResendVerification(p) \/ VerifyResetOtp(p)
     \/ VerifyToken(p) \/ VerifyEmail(p) \/ ResetPassword(p)

Step(p) ==
  \/ Sweep(p) \/ Purge(p) \/ Create(p)
  \/ Find(p) \/ Mark(p) \/ Open(p) \/ Drop(p)
  \/ Seek(p) \/ Discard(p) \/ Consume(p) \/ Confirm(p)
  \/ Get(p) \/ Change(p) \/ Del(p)

Next == Tick \/ \E p \in Reqs : Arrive(p) \/ Step(p) \/ Fail(p)

Spec == Init /\ [][Next]_vars

-----------------------------------------------------------------------------
(* Properties *)

Row == [until : Nat, verified : BOOLEAN, there : BOOLEAN]
PCs == {"idle", "sweep", "purge", "create", "find", "mark", "open", "drop", "seek",
        "discard", "consume", "confirm", "get", "change", "del"}

(* The statements that need the code, or the token, of their request.       *)
OfCode == {"find", "mark", "open", "drop", "seek", "discard", "consume", "confirm"}
OfToken == {"drop", "get", "change", "del"}

Request == [pc : PCs, op : AllOps \cup {None}, code : Codes \cup {None},
            token : Tokens \cup {None}, until : Nat]

(* The rows, the key and the history are of their types, and a request that *)
(* stopped at an await resumes with the code or the token it needs.         *)
TypeOK ==
  /\ now \in Nat
  /\ ucodes \in [Codes -> Row]
  /\ resetKey \in [token : Tokens \cup {None}, until : Nat]
  /\ req \in [Reqs -> Request]
  /\ \A p \in Reqs : /\ req[p].pc \in OfCode => req[p].code \in Issued
                     /\ req[p].pc \in OfToken => req[p].token \in Tokens
  /\ born \in [Codes -> Nat \cup {None}]
  /\ opened \in [Tokens -> [code : Codes \cup {None}, at : Nat]]
  /\ given \subseteq Tokens
  /\ used \in [Tokens -> Nat]
  /\ confirmed \in [Codes -> Nat]

(* A code verifies the email address at most once, however many requests    *)
(* carry it: only one of them deletes its row (ucode.repository.ts:121).    *)
EmailCodeSpentOnce == \A c \in Codes : confirmed[c] <= 1

(* A reset token is only ever generated for a code that nothing can redeem  *)
(* any more, even if the request dies before it deletes the row: verified_at*)
(* is written before the token (auth.service.ts:747, 763).                  *)
TokenCodeSpent == \A t \in Tokens : opened[t] # NotOpened => ~Live(opened[t].code)

(* Where requests are short against minutes, no reset happens later than    *)
(* the lives of a code and of a token after the code was issued.            *)
ResetWithinBound ==
  [][\A p \in Reqs :
       Change(p) => now < born[opened[req[p].token].code] + OtpLife + ResetLife]_vars

(* The request that holds a consumed code.                                  *)
Held(c) == \E p \in Reqs : req[p].pc = "confirm" /\ req[p].code = c

StageOf(c) ==
  IF born[c] = None THEN "new"
  ELSE IF ucodes[c].there THEN "live"
  ELSE IF Held(c) THEN "held"
  ELSE IF confirmed[c] > 0 THEN "spent"
  ELSE "gone"

EmailCodes == INSTANCE SingleUse WITH
  stage <- [c \in Codes |-> StageOf(c)], spends <- confirmed

(* For verify-email the table of codes, shared by three kinds of codes and  *)
(* six endpoints, is a supply of single-use codes (auth.service.ts:973).    *)
ImplementsSingleUse == EmailCodes!Spec

(* auth.service.ts:883 "Delete the used reset token": a reset token changes *)
(* the password once.                                                       *)
TokenUsedOnce == \A t \in Tokens : used[t] <= 1

(* auth.service.ts:762 "Store reset token in Redis with 15 minutes expiry": *)
(* a token handed out, never used and not replaced by a later one can be    *)
(* used for its fifteen minutes.                                            *)
ResetTokenLasts ==
  \A t \in given :
    \/ now >= opened[t].at + ResetLife
    \/ used[t] > 0
    \/ resetKey.token = t /\ now < resetKey.until
    \/ \E later \in Tokens \ {t} :
         opened[later] # NotOpened /\ opened[later].at >= opened[t].at
=============================================================================
