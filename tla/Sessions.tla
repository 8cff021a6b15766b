------------------------------- MODULE Sessions -------------------------------
(***************************************************************************)
(* A church from its registration on, and the sessions of its admin:       *)
(* createChurch, unifiedLogin and refreshToken of auth.service.ts, update, *)
(* updateStatus and softDelete of churches.service.ts.  A church stands    *)
(* for its e-mail and domain, both unique, and for its admin's account,    *)
(* which has that e-mail.  The refresh token of an account is one key in   *)
(* Redis; a token is the device and the day of the login that signed it.   *)
(***************************************************************************)
EXTENDS Naturals

CONSTANTS
  Churches, Names, Devices, Reqs,
  Life,      \* days a refresh token is kept in Redis (7)
  LastDay,   \* bounds the clock of an instance
  None

SessionsAssumption ==
  /\ Life \in Nat \ {0} /\ LastDay \in Nat \ {0}
  /\ None \notin Churches \cup Names \cup Devices

VARIABLES
  church,   \* name, status and deletion of a church; state new: not created
  adminRole,\* how many roles are named CHURCH_ADMIN
  redis,    \* refresh_token:<admin>: token and the day it expires
  device,   \* the refresh token a device was given, and for which church
  latest,   \* the token of the last login, for the property
  today, req

vars == <<church, adminRole, redis, device, latest, today, req>>

Status == {"PENDING", "ACTIVE", "SUSPENDED"}
NoToken == [device |-> None, day |-> 0]
Idle == [op |-> None, pc |-> "idle", church |-> None, arg |-> None, token |-> NoToken]

Created == {c \in Churches : church[c].state # "new"}

(* Mutant: the key is set without EX. *)
StoredForEver(c) == redis[c].token

(* The key of an account, while Redis keeps it.                             *)
Stored(c) == IF redis[c].expires > today THEN redis[c].token ELSE NoToken

Init ==
  /\ church = [c \in Churches |-> [state |-> "new", name |-> None, status |-> "PENDING"]]
  /\ adminRole = 0
  /\ redis = [c \in Churches |-> [token |-> NoToken, expires |-> 0]]
  /\ device = [d \in Devices |-> [token |-> NoToken, church |-> None]]
  /\ latest = [c \in Churches |-> NoToken]
  /\ today = 1
  /\ req = [p \in Reqs |-> Idle]

At(p, o, pc) == req[p].op = o /\ req[p].pc = pc
Finish(p) == req' = [req EXCEPT ![p] = Idle]
Call(p, o, c, x, t) ==
  req' = [req EXCEPT ![p] = [op |-> o, pc |-> "read", church |-> c, arg |-> x, token |-> t]]

(* Churches are registered, changed by a super admin or by their own admin; *)
(* a device logs in with the right password or refreshes with its token.    *)
Arrive(p) ==
  /\ req[p] = Idle
  /\ \/ \E c \in Churches, n \in Names : Call(p, "create", c, n, NoToken)
     \/ \E c \in Churches, n \in Names : Call(p, "update", c, n, NoToken)
     \/ \E c \in Churches, s \in Status : Call(p, "status", c, s, NoToken)
     \/ \E c \in Churches : Call(p, "delete", c, None, NoToken)
     \/ \E c \in Churches, d \in Devices : Call(p, "login", c, d, NoToken)
     \/ \E d \in Devices :
          device[d].church # None /\ Call(p, "refresh", device[d].church, d, device[d].token)
  /\ UNCHANGED <<church, adminRole, redis, device, latest, today>>

Check(p, ok) ==
  /\ req' = [req EXCEPT ![p] = IF ok THEN [@ EXCEPT !.pc = "write"] ELSE Idle]
  /\ UNCHANGED <<church, adminRole, redis, device, latest, today>>
-----------------------------------------------------------------------------
(* No church, deleted ones included, has the e-mail, the domain or the name. *)
CreateCheck(p) ==
  /\ At(p, "create", "read")
  /\ Check(p, req[p].church \notin Created
              /\ \A c \in Created : church[c].name # req[p].arg)

(* The transaction looks for the role CHURCH_ADMIN and creates it if none   *)
(* is there; it fails on an e-mail taken meanwhile.  The status is PENDING, *)
(* or what the registration asks for.                                       *)
CreateRole(p) ==
  /\ At(p, "create", "write")
  /\ req' = [req EXCEPT ![p].pc = IF adminRole = 0 THEN "createRole" ELSE "commit"]
  /\ UNCHANGED <<church, adminRole, redis, device, latest, today>>

CreateChurch(p) ==
  LET c == req[p].church IN
  /\ \/ At(p, "create", "commit")
     \/ At(p, "create", "createRole")
  /\ IF c \in Created THEN UNCHANGED <<church, adminRole>>
     ELSE /\ \E s \in Status :
               church' = [church EXCEPT ![c] = [state |-> "live", name |-> req[p].arg, status |-> s]]
          /\ adminRole' = IF req[p].pc = "createRole" THEN adminRole + 1 ELSE adminRole
  /\ Finish(p) /\ UNCHANGED <<redis, device, latest, today>>

(* resolveChurchId and findOne, then one statement by the church's id.      *)
ChurchCheck(p) ==
  /\ req[p].op \in {"update", "status", "delete"} /\ req[p].pc = "read"
  /\ Check(p, church[req[p].church].state = "live")

ChurchWrite(p) ==
  LET c == req[p].church IN
  /\ req[p].op \in {"update", "status", "delete"} /\ req[p].pc = "write"
  /\ church' = CASE req[p].op = "update" -> [church EXCEPT ![c].name = req[p].arg]
                 [] req[p].op = "status" -> [church EXCEPT ![c].status = req[p].arg]
                 [] req[p].op = "delete" -> [church EXCEPT ![c].state = "deleted"]
  /\ Finish(p) /\ UNCHANGED <<adminRole, redis, device, latest, today>>

(* The admin's account is verified and ACTIVE; the church must be ACTIVE,   *)
(* and is not asked whether it is deleted.                                  *)
LoginCheck(p) ==
  LET c == req[p].church IN
  /\ At(p, "login", "read") /\ Check(p, c \in Created /\ church[c].status = "ACTIVE")

LoginToken(p) == [device |-> req[p].arg, day |-> today]

LoginStore(p) ==
  LET c == req[p].church  d == req[p].arg  t == LoginToken(p) IN
  /\ At(p, "login", "write")
  /\ redis' = [redis EXCEPT ![c] = [token |-> t, expires |-> today + Life]]
  /\ device' = [device EXCEPT ![d] = [token |-> t, church |-> c]]
  /\ latest' = [latest EXCEPT ![c] = t]
  /\ Finish(p) /\ UNCHANGED <<church, adminRole, today>>

(* A refresh is answered when the token it brings is the one stored.        *)
Refresh(p) ==
  /\ At(p, "refresh", "read")
  /\ LET t == Stored(req[p].church) IN
     IF t = NoToken \/ t # req[p].token THEN Finish(p)
     ELSE req' = [req EXCEPT ![p].pc = "answered"]
  /\ UNCHANGED <<church, adminRole, redis, device, latest, today>>

Answer(p) == req[p].pc = "answered" /\ Finish(p)
             /\ UNCHANGED <<church, adminRole, redis, device, latest, today>>

Tick ==
  /\ today < LastDay /\ today' = today + 1
  /\ UNCHANGED <<church, adminRole, redis, device, latest, req>>

Step(p) ==
  \/ CreateCheck(p) \/ CreateRole(p) \/ CreateChurch(p)
  \/ ChurchCheck(p) \/ ChurchWrite(p)
  \/ LoginCheck(p) \/ LoginStore(p) \/ Refresh(p) \/ Answer(p)

Next == Tick \/ \E p \in Reqs : Arrive(p) \/ Step(p)

Spec == Init /\ [][Next]_vars
-----------------------------------------------------------------------------
TypeOK ==
  /\ church \in [Churches -> [state : {"new", "live", "deleted"},
                              name : Names \cup {None}, status : Status]]
  /\ \A c \in Churches : redis[c].token.device \in Devices \cup {None}
  /\ today \in 1..LastDay

(* When a refresh is granted, its token was signed by the account's last    *)
(* login, at most Life days ago, whatever logins on other devices happened  *)
(* before (auth.service.ts:479 and 1263).                                   *)
RefreshFollowsLatestLogin ==
  [][\A p \in Reqs :
       req[p].pc = "read" /\ req'[p].pc = "answered" =>
         /\ req[p].token = latest[req[p].church]
         /\ today < req[p].token.day + Life]_vars
=============================================================================
