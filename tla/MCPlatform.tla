------------------------------ MODULE MCPlatform ------------------------------
(***************************************************************************)
(* Small instances of AccessControl, Sessions and Seed for TLC.  The first *)
(* state picks a part; only that part moves, so their state spaces add.    *)
(*   admins: overlapping requests of the platform's admins, which may die  *)
(*   roles, perms: one request at a time about roles, and about what they  *)
(*                 grant                                                   *)
(*   sessions: overlapping registrations, logins and refreshes             *)
(*   seed: runs of the seed program, dying anywhere, with an edit between  *)
(***************************************************************************)
EXTENDS AccessControl, TLC

CONSTANTS r1, r2, x1, x2, u1, u2, m1, p1, p2, Parts,
  SessionChurches, SessionNames, Devices, Life, LastDay,   \* of Sessions
  SeedProgram, SeedChurches, MaxRuns, MaxEdits             \* of Seed
VARIABLES part,
  sChurch, sAdminRole, sRedis, sDevice, sLatest, sToday, sReq,
  dRows, dGone, dCounter, dFresh, dAt, dEnded, dRuns, dEdits

sVars == <<sChurch, sAdminRole, sRedis, sDevice, sLatest, sToday, sReq>>
dVars == <<dRows, dGone, dCounter, dFresh, dAt, dEnded, dRuns, dEdits>>

Symmetry == Permutations(Reqs) \cup Permutations(Roles)

Ses == INSTANCE Sessions WITH
  Churches <- SessionChurches, Names <- SessionNames,
  church <- sChurch, adminRole <- sAdminRole, redis <- sRedis, device <- sDevice,
  latest <- sLatest, today <- sToday, req <- sReq

SeedRoles == {"CHURCH_ADMIN", "PASTOR"}
SeedPeople == {"u", "pro"}
Steps == INSTANCE SeedSteps WITH
  Roles <- SeedRoles, Perms <- {"assign_role"},
  Granted <- {"assign_role"} \X SeedRoles, Rules <- {<<"PASTOR", "CHURCH_ADMIN">>},
  Churches <- {"c"}, People <- SeedPeople, AdminOf <- [c \in {"c"} |-> "admin"],
  ChurchOf <- [u \in SeedPeople |-> "c"],
  RoleOf <- [u \in SeedPeople |-> IF u = "u" THEN "PASTOR" ELSE None],
  Pros <- {"pro"}, Reviews <- {<<"u", "pro">>}, Contents <- {"k"}
SmallProgram == Steps!Program
Sd == INSTANCE Seed WITH
  Program <- SeedProgram, Churches <- SeedChurches,
  rows <- dRows, gone <- dGone, counter <- dCounter, fresh <- dFresh, at <- dAt,
  ended <- dEnded, runs <- dRuns, edits <- dEdits

ASSUME PlatformAssumption ==
  /\ AccessAssumption /\ Ses!SessionsAssumption
  /\ Steps!SeedDataAssumption /\ Sd!SeedAssumption /\ Sd!ProgramAssumption
  /\ "pastor" \in Names /\ {"k1", "k2"} \subseteq Keys /\ r1 \in Roles /\ m1 \in Members

Calls == [admins |-> AdminOps \cup {"togglePerm"},
          roles |-> {"createRole", "updateRole", "toggleRole", "removeRole", "assignRole", "revoke"},
          perms |-> PermOps \cup {"assignPermissions", "createAdmin"}]

(* Overlapping requests find two permissions in use; a role the member      *)
(* holds is there when permissions come and go.                             *)
MCInit ==
  /\ part \in Parts
  /\ role = [r \in Roles |-> IF part = "perms" /\ r = r1
                             THEN [state |-> "live", name |-> "pastor", on |-> TRUE] ELSE NoRole]
  /\ holders = IF part = "perms" THEN {<<r1, m1>>} ELSE {}
  /\ perm = [x \in Perms |-> IF part = "admins"
               THEN [state |-> "live", key |-> IF x = x1 THEN "k1" ELSE "k2", on |-> TRUE]
               ELSE NoPerm]
  /\ Quiet /\ Ses!Init /\ Sd!Init

(* The second admin's account is created, the first is there and updated,   *)
(* and suspended when it is; only the first permission is switched off.     *)
Asked(r) ==
  /\ r.op \in Calls[part]
  /\ r.op = "createAdmin" => r.user = u2 /\ (part = "admins" => r.list \in {{}, {x2}})
  /\ r.op \in {"updateAdmin", "toggleAdmin", "removeAdmin"} => r.user = u1
  /\ r.op = "updateAdmin" => ~r.on /\ (r.name = None <=> r.list = {})
  /\ part = "admins" /\ r.op = "togglePerm" => r.id = x1

Serial == part \in {"roles", "perms"}

AccessNext ==
  /\ part \in DOMAIN Calls
  /\ \E p \in Reqs :
       \/ Arrive(p) /\ Asked(req'[p]) /\ (Serial => req = [q \in Reqs |-> Idle])
       \/ RoleStep(p)
       \/ PermStep(p)
       \/ AdminStep(p)
       \/ ~Serial /\ Fail(p)
  /\ UNCHANGED <<part, sVars, dVars>>

(* The second church is only registered, with the status a church has then. *)
SessionsNext ==
  /\ part = "sessions" /\ Ses!Next
  /\ sChurch'["c2"].status = "PENDING"
  /\ \A p \in Reqs : sReq'[p].church = "c2" => sReq'[p].op = "create"
  /\ UNCHANGED <<part, vars, dVars>>
SeedNext == part = "seed" /\ Sd!Next /\ UNCHANGED <<part, vars, sVars>>

MCNext == AccessNext \/ SessionsNext \/ SeedNext
MCSpec == MCInit /\ [][MCNext]_<<vars, part, sVars, dVars>>
-----------------------------------------------------------------------------
(* The types of all parts. *)
PlatformTypeOK ==
  CASE part = "seed" -> Sd!TypeOK
    [] part = "sessions" -> Ses!TypeOK
    [] OTHER -> TypeOK

(* One request at a time: no two live roles have a name, no two permissions *)
(* a key.                                                                   *)
SerialNamesUnique == Serial => NamesUnique

(* One request at a time: a removed permission lets nobody pass.            *)
SerialDeletedPermitsNothing == Serial => DeletedPermitsNothing

(* A refresh is granted to the last login of the account, for seven days.   *)
RefreshFollowsLatestLogin == Ses!RefreshFollowsLatestLogin

(* A run of the seed that ends heals what dead runs left.                   *)
SeedHeals == part = "seed" => Sd!SeedHeals

(* The seed creates nothing twice.                                          *)
NothingTwice == part = "seed" => Sd!NothingTwice
=============================================================================
