-------------------------- MODULE AccessControlProofs --------------------------
(***************************************************************************)
(* Proofs about AccessControl: the personal role of an admin is one, and   *)
(* grants the list last given to the admin, for any number of admins,      *)
(* permissions and overlapping requests that may die.                      *)
(*                                                                         *)
(* The endpoints that rename, delete or fill any role by its id are left   *)
(* out: with them the statement can fail.  Inv adds what makes it          *)
(* inductive: which requests hold the row of an admin (Locked), what they  *)
(* have found under it (Mine, Seen), and that an admin or a role that is   *)
(* not there yet has nothing (Unborn, Clean, Unlisted).                    *)
(***************************************************************************)
EXTENDS AccessControl, TLAPS

ById == {"updateRole", "removeRole", "assignPermissions"}
Stages == {"validate", "role", "delete", "insert", "commit"}
RoleRow == [state : States, name : Names \cup Admins \cup {None}, on : BOOLEAN]
AdminRow == [state : States, on : BOOLEAN]
Request ==
  [op : AllOps \cup {None}, pc : {"idle", "read", "write"} \cup Stages,
   id : Roles \cup Perms \cup {None}, user : Users \cup {None},
   name : Names \cup Keys \cup {None, "list"},
   list : SUBSET Perms, old : SUBSET Perms, on : BOOLEAN]

Types ==
  /\ role \in [Roles -> RoleRow]
  /\ grants \subseteq Perms \X Roles
  /\ admin \in [Admins -> AdminRow]
  /\ lock \in [Admins -> Reqs \cup {None}]
  /\ last \in [Admins -> SUBSET Perms]
  /\ req \in [Reqs -> Request]

(* What a request carries. *)
Sound(r) ==
  /\ r.op \in Ops \cup {None}
  /\ r.op = "createRole" => r.name \in Names
  /\ r.op = "toggleRole" => r.id \in Roles
  /\ r.op \in AdminOps => r.user \in Admins
Fields == \A p \in Reqs : Sound(req[p])

Updating(p) == req[p].op = "updateAdmin" /\ req[p].pc # "read"
Known == \A p \in Reqs : Updating(p) => req[p].user \notin New(admin)
Locked == \A p \in Reqs : Updating(p) /\ req[p].pc \in Stages => lock[req[p].user] = p
Mine ==
  \A p \in Reqs :
    Updating(p) /\ req[p].pc \in {"delete", "insert"} => req[p].id \in RolesNamed(req[p].user)
Seen ==
  \A p \in Reqs : Updating(p) /\ req[p].pc = "insert" => GrantsOf(req[p].id) \subseteq req[p].old
Clean == \A r \in New(role) : GrantsOf(r) = {}
Unborn == \A u \in New(admin) : RolesNamed(u) = {}
Unlisted == \A u \in Admins : RolesNamed(u) = {} => last[u] = {}

Inv ==
  /\ Types /\ Fields /\ Known /\ Locked /\ Mine /\ Seen
  /\ Clean /\ Unborn /\ Unlisted /\ PersonalRoleIsLastList
-----------------------------------------------------------------------------
LEMMA IdleSound ==
  ASSUME AccessAssumption
  PROVE  Idle \in Request /\ Sound(Idle) /\ Idle.op # "updateAdmin"
BY DEF AccessAssumption, Idle, Request, Sound, AllOps, AdminOps, RoleOps, PermOps

LEMMA InitInv ==
  ASSUME AccessAssumption, Init
  PROVE  Inv
<1> USE DEF Init, Quiet, NoRole, AccessAssumption
<1>1. role \in [Roles -> RoleRow] /\ admin \in [Admins -> AdminRow]
  BY DEF RoleRow, AdminRow, States
<1>2. Types
  BY <1>1, IdleSound DEF Types
<1>3. \A p \in Reqs : req[p] = Idle
  OBVIOUS
<1>4. Fields /\ Known /\ Locked /\ Mine /\ Seen
  BY <1>3, IdleSound DEF Fields, Known, Locked, Mine, Seen, Updating
<1>5. \A u : RolesNamed(u) = {}
  BY DEF RolesNamed, Live
<1>6. Clean /\ Unborn /\ Unlisted /\ PersonalRoleIsLastList
  BY <1>5 DEF Clean, Unborn, Unlisted, PersonalRoleIsLastList, GrantsOf, New
<1>7. QED
  BY <1>2, <1>4, <1>6 DEF Inv

(* The parts of Inv about requests, after a step that moves or ends the one *)
(* of p: what the others have found still stands.                           *)
LEMMA OthersStep ==
  ASSUME AccessAssumption, Inv, NEW p \in Reqs, NEW r \in Request, Sound(r),
         r.op = "updateAdmin" /\ r.pc # "read" => r.user \notin New(admin),
         r.op = "updateAdmin" /\ r.pc \in Stages => lock'[r.user] = p,
         req' = [req EXCEPT ![p] = r], role' \in [Roles -> RoleRow],
         New(admin)' \subseteq New(admin),
         \A q \in Reqs \ {p} : \A u \in Admins : lock[u] = q => lock'[u] = q,
         \A q \in Reqs \ {p}, u \in Admins :
           Updating(q) /\ req[q].pc \in {"delete", "insert"} /\ u = req[q].user
             => req[q].id \in RolesNamed(u)',
         \A q \in Reqs \ {p}, s \in Roles :
           Updating(q) /\ req[q].pc = "insert" /\ s = req[q].id
             => GrantsOf(s)' \subseteq GrantsOf(s),
         r.op = "updateAdmin" /\ r.pc \in {"delete", "insert"} =>
           \A u \in Admins : u = r.user => r.id \in RolesNamed(u)',
         r.op = "updateAdmin" /\ r.pc = "insert" =>
           \A s \in Roles : s = r.id => GrantsOf(s)' \subseteq r.old
  PROVE  req' \in [Reqs -> Request] /\ Fields' /\ Known' /\ Locked' /\ Mine' /\ Seen'
<1> USE DEF Inv
<1>1. req' \in [Reqs -> Request]
  BY DEF Types
<1>2. \A q \in Reqs : req'[q] = IF q = p THEN r ELSE req[q]
  BY DEF Types
<1>3. Fields' /\ Known'
  BY <1>2 DEF Fields, Known, Updating
<1>4. Locked'
  <2> SUFFICES ASSUME NEW q \in Reqs, Updating(q)', req'[q].pc \in Stages
               PROVE  lock'[req'[q].user] = q
    BY DEF Locked
  <2>1. CASE q = p
    BY <2>1, <1>2 DEF Updating
  <2>2. CASE q # p
    <3>1. req'[q] = req[q] /\ Updating(q) /\ req[q].user \in Admins
      BY <2>2, <1>2 DEF Updating, Fields, Sound, AdminOps
    <3>2. QED
      BY <2>2, <3>1 DEF Locked
  <2>3. QED
    BY <2>1, <2>2
<1>5. Mine' /\ Seen'
  <2> SUFFICES ASSUME NEW q \in Reqs, Updating(q)', (req[q].pc \in {"delete", "insert"})'
               PROVE  /\ (req[q].id \in RolesNamed(req[q].user))'
                      /\ (req[q].pc = "insert" => GrantsOf(req[q].id) \subseteq req[q].old)'
    BY DEF Mine, Seen
  <2>1. PICK u, s : u = req'[q].user /\ s = req'[q].id
    OBVIOUS
  <2>2. u \in Admins
    BY <2>1, <1>3 DEF Updating, Fields, Sound, AdminOps
  <2>3. s \in RolesNamed(u)' /\ (req'[q].pc = "insert" => GrantsOf(s)' \subseteq req'[q].old)
    <3>1. CASE q = p
      <4>1. s \in RolesNamed(u)'
        BY <3>1, <1>2, <2>1, <2>2 DEF Updating
      <4>2. s \in Roles
        BY <4>1 DEF RolesNamed, Live
      <4>3. QED
        BY <3>1, <1>2, <2>1, <4>1, <4>2 DEF Updating
    <3>2. CASE q # p
      <4>1. req'[q] = req[q] /\ Updating(q)
        BY <3>2, <1>2 DEF Updating
      <4>2. s \in RolesNamed(u)'
        BY <3>2, <4>1, <2>1, <2>2
      <4>3. s \in Roles
        BY <4>1, <2>1, <2>2 DEF Mine, RolesNamed, Live, Types
      <4>4. req[q].pc = "insert" => GrantsOf(s) \subseteq req[q].old
        BY <4>1, <2>1 DEF Seen, GrantsOf
      <4>5. QED
        BY <3>2, <4>1, <4>2, <4>3, <4>4, <2>1
    <3>3. QED
      BY <3>1, <3>2
  <2>4. QED
    BY <2>1, <2>3 DEF RolesNamed, GrantsOf
<1>6. QED
  BY <1>1, <1>3, <1>4, <1>5

(* A step that leaves the personal roles, the grants and the lists alone,   *)
(* gives no other request's row away, and moves its request to where it     *)
(* relies on nothing but the row.                                           *)
LEMMA CalmStep ==
  ASSUME AccessAssumption, Inv, NEW p \in Reqs, NEW r \in Request, Sound(r),
         r.op = "updateAdmin" /\ r.pc # "read" => r.user \notin New(admin),
         r.op = "updateAdmin" /\ r.pc \in Stages =>
           r.pc \notin {"delete", "insert"} /\ lock'[r.user] = p,
         req' = [req EXCEPT ![p] = r],
         role' \in [Roles -> RoleRow],
         \A u \in Admins : RolesNamed(u)' = RolesNamed(u),
         New(role)' \subseteq New(role),
         admin' \in [Admins -> AdminRow], New(admin)' \subseteq New(admin),
         lock' \in [Admins -> Reqs \cup {None}],
         \A q \in Reqs \ {p} : \A u \in Admins : lock[u] = q => lock'[u] = q,
         UNCHANGED <<grants, last>>
  PROVE  Inv'
<1> USE DEF Inv
<1>1. \A s : GrantsOf(s)' = GrantsOf(s)
  BY DEF GrantsOf
<1>2. \A q \in Reqs \ {p}, u \in Admins :
        Updating(q) /\ req[q].pc \in {"delete", "insert"} /\ u = req[q].user
          => req[q].id \in RolesNamed(u)'
  BY DEF Mine
<1>3. req' \in [Reqs -> Request] /\ Fields' /\ Known' /\ Locked' /\ Mine' /\ Seen'
  BY <1>1, <1>2, OthersStep DEF Stages
<1>4. Types'
  BY <1>3 DEF Types
<1>5. New(admin) \subseteq Admins
  BY DEF New, Types
<1>6. Clean' /\ Unborn' /\ Unlisted' /\ PersonalRoleIsLastList'
  BY <1>1, <1>5 DEF Clean, Unborn, Unlisted, PersonalRoleIsLastList
<1>7. QED
  BY <1>3, <1>4, <1>6
-----------------------------------------------------------------------------
(* A handler that ends without a write to the personal roles. *)
LEMMA EndStep ==
  ASSUME AccessAssumption, Inv, NEW p \in Reqs, Finish(p),
         role' \in [Roles -> RoleRow],
         \A u \in Admins : RolesNamed(u)' = RolesNamed(u),
         New(role)' \subseteq New(role),
         admin' \in [Admins -> AdminRow], New(admin)' \subseteq New(admin),
         lock' \in [Admins -> Reqs \cup {None}],
         \A q \in Reqs \ {p} : \A u \in Admins : lock[u] = q => lock'[u] = q,
         UNCHANGED <<grants, last>>
  PROVE  Inv'
BY CalmStep, IdleSound DEF Finish

(* A step that writes nothing but its own request. *)
LEMMA ReadStep ==
  ASSUME AccessAssumption, Inv, NEW p \in Reqs, NEW r \in Request, Sound(r),
         r.op = "updateAdmin" /\ r.pc # "read" => r.user \notin New(admin),
         r.pc \notin Stages,
         req' = [req EXCEPT ![p] = r],
         UNCHANGED <<role, grants, admin, lock, last>>
  PROVE  Inv'
<1>1. \A u \in Admins : RolesNamed(u)' = RolesNamed(u)
  BY DEF RolesNamed, Live
<1>2. New(role)' \subseteq New(role) /\ New(admin)' \subseteq New(admin)
  BY DEF New
<1>3. /\ role' \in [Roles -> RoleRow] /\ admin' \in [Admins -> AdminRow]
      /\ lock' \in [Admins -> Reqs \cup {None}]
  BY DEF Inv, Types
<1>4. UNCHANGED <<grants, last>> /\ \A q \in Reqs \ {p} : \A u \in Admins : lock[u] = q => lock'[u] = q
  OBVIOUS
<1>5. QED
  BY <1>1, <1>2, <1>3, <1>4, CalmStep

LEMMA RefuseInv ==
  ASSUME AccessAssumption, Inv, NEW p \in Reqs, Refuse(p)
  PROVE  Inv'
<1>1. Idle.pc \notin Stages
  BY DEF Idle, Stages
<1>2. QED
  BY <1>1, ReadStep, IdleSound DEF Refuse, Finish

(* A request that goes on to its write, with another field set. *)
LEMMA ToWrite ==
  ASSUME AccessAssumption, Inv, NEW p \in Reqs, NEW b \in BOOLEAN,
         req[p].op = "updateAdmin" => req[p].user \notin New(admin),
         \/ req' = [req EXCEPT ![p].pc = "write"]
         \/ req' = [req EXCEPT ![p].pc = "write", ![p].on = b],
         UNCHANGED <<role, grants, admin, lock, last>>
  PROVE  Inv'
<1>0. req[p] \in Request /\ Sound(req[p]) /\ req \in [Reqs -> Request]
  BY DEF Inv, Types, Fields
<1>1. PICK r : r \in {[req[p] EXCEPT !.pc = "write"], [req[p] EXCEPT !.pc = "write", !.on = b]}
               /\ req' = [req EXCEPT ![p] = r]
  BY <1>0 DEF Request
<1>2. r \in Request /\ r.pc = "write" /\ r.op = req[p].op /\ r.user = req[p].user
      /\ r.id = req[p].id /\ r.name = req[p].name
  BY <1>0, <1>1 DEF Request
<1>3. Sound(r)
  BY <1>0, <1>2 DEF Sound
<1>4. r.pc \notin Stages
  BY <1>2 DEF Stages
<1>5. QED
  BY <1>1, <1>2, <1>3, <1>4, ReadStep

LEMMA CheckInv ==
  ASSUME AccessAssumption, Inv, NEW p \in Reqs, NEW ok, Check(p, ok),
         req[p].op = "updateAdmin" /\ ok => req[p].user \notin New(admin)
  PROVE  Inv'
<1>1. CASE ok
  BY <1>1, ToWrite DEF Check, Goto
<1>2. CASE ~ok
  BY <1>2, RefuseInv DEF Check
<1>3. QED
  BY <1>1, <1>2

LEMMA CallInv ==
  ASSUME AccessAssumption, Inv, NEW p \in Reqs, NEW o \in AllOps,
         NEW i \in Roles \cup Perms \cup {None}, NEW u \in Users \cup {None},
         NEW n \in Names \cup Keys \cup {None, "list"}, NEW l \in SUBSET Perms,
         NEW b \in BOOLEAN, Call(p, o, i, u, n, l, b),
         o = "createRole" => n \in Names, o = "toggleRole" => i \in Roles,
         o \in AdminOps => u \in Admins
  PROVE  Inv'
<1> DEFINE r == [op |-> o, pc |-> "read", id |-> i, user |-> u, name |-> n, list |-> l,
                 old |-> {}, on |-> b]
<1>1. r \in Request
  BY DEF Request
<1>2. Sound(r)
  BY DEF Sound, Call
<1>3. r.pc = "read" /\ r.pc \notin Stages
  BY DEF Stages
<1>4. req' = [req EXCEPT ![p] = r] /\ UNCHANGED <<role, grants, admin, lock, last>>
  BY DEF Call
<1> HIDE DEF r
<1>5. QED
  BY <1>1, <1>2, <1>3, <1>4, ReadStep

LEMMA ArriveInv ==
  ASSUME AccessAssumption, Inv, NEW p \in Reqs, Arrive(p)
  PROVE  Inv'
<1>1. {"createAdmin", "updateAdmin", "toggleAdmin", "removeAdmin", "createRole", "updateRole",
       "toggleRole", "removeRole", "assignPermissions", "assignRole", "revoke", "createPerm",
       "updatePerm", "togglePerm", "removePerm"} = AllOps
  BY DEF AllOps, AdminOps, RoleOps, PermOps
<1>2. CASE \E n \in Names : Call(p, "createRole", None, None, n, {}, FALSE)
  BY <1>1, <1>2, CallInv DEF AdminOps
<1>3. CASE \E r \in Roles, n \in Names \cup {None} : Call(p, "updateRole", r, None, n, {}, FALSE)
  BY <1>1, <1>3, CallInv DEF AdminOps
<1>4. CASE \E r \in Roles, o \in {"toggleRole", "removeRole"} : Call(p, o, r, None, None, {}, FALSE)
  BY <1>1, <1>4, CallInv DEF AdminOps
<1>5. CASE \E r \in Roles, l \in SUBSET Perms : Call(p, "assignPermissions", r, None, None, l, FALSE)
  BY <1>1, <1>5, CallInv DEF AdminOps
<1>6. CASE \E r \in Roles, u \in Members, o \in {"assignRole", "revoke"} :
             Call(p, o, r, u, None, {}, FALSE)
  BY <1>1, <1>6, CallInv DEF AdminOps, Users
<1>7. CASE \E k \in Keys : Call(p, "createPerm", None, None, k, {}, FALSE)
  BY <1>1, <1>7, CallInv DEF AdminOps
<1>8. CASE \E x \in Perms, k \in Keys : Call(p, "updatePerm", x, None, k, {}, FALSE)
  BY <1>1, <1>8, CallInv DEF AdminOps
<1>9. CASE \E x \in Perms, o \in {"togglePerm", "removePerm"} : Call(p, o, x, None, None, {}, FALSE)
  BY <1>1, <1>9, CallInv DEF AdminOps
<1>10. CASE \E u \in Admins, l \in SUBSET Perms : Call(p, "createAdmin", None, u, None, l, FALSE)
  BY <1>1, <1>10, CallInv DEF Users
<1>11. CASE \E u \in Admins, b \in BOOLEAN, l \in SUBSET Perms, n \in {None, "list"} :
              (n = None => l = {}) /\ Call(p, "updateAdmin", None, u, n, l, b)
  <2>1. PICK u \in Admins, b \in BOOLEAN, l \in SUBSET Perms, n \in {None, "list"} :
               Call(p, "updateAdmin", None, u, n, l, b)
    BY <1>11
  <2> DEFINE r == [op |-> "updateAdmin", pc |-> "read", id |-> None, user |-> u, name |-> n,
                   list |-> l, old |-> {}, on |-> b]
  <2>2. r \in Request
    BY <1>1 DEF Request, Users
  <2>3. Sound(r)
    BY <2>1 DEF Sound, Call
  <2>4. r.pc = "read" /\ r.pc \notin Stages
    BY DEF Stages
  <2>5. req' = [req EXCEPT ![p] = r] /\ UNCHANGED <<role, grants, admin, lock, last>>
    BY <2>1 DEF Call
  <2> HIDE DEF r
  <2>6. QED
    BY <2>2, <2>3, <2>4, <2>5, ReadStep
<1>12. CASE \E u \in Admins, o \in {"toggleAdmin", "removeAdmin"} :
              Call(p, o, None, u, None, {}, FALSE)
  BY <1>1, <1>12, CallInv DEF Users
<1>13. QED
  BY <1>2, <1>3, <1>4, <1>5, <1>6, <1>7, <1>8, <1>9, <1>10, <1>11, <1>12 DEF Arrive
-----------------------------------------------------------------------------
(* The endpoints about roles: names of roles are not those of personal      *)
(* roles, and a switch changes no name.                                     *)
LEMMA RoleStepInv ==
  ASSUME AccessAssumption, Inv, Ops \cap ById = {}, NEW p \in Reqs, RoleStep(p)
  PROVE  Inv'
<1>0. req[p].op \in Ops \cup {None} /\ Sound(req[p]) /\ req[p] \in Request /\ Types
  BY DEF Inv, Fields, Sound, Types
<1>01. None \notin ById
  BY DEF AccessAssumption, ById, AllOps, RoleOps
<1>02. req[p].op \notin ById
  BY <1>0, <1>01
<1>03. /\ admin' = admin => New(admin)' \subseteq New(admin)
       /\ lock' = lock => \A q \in Reqs \ {p} : \A u \in Admins : lock[u] = q => lock'[u] = q
  BY DEF New
<1>1. CASE CreateRoleCheck(p) \/ HolderCheck(p)
  BY <1>1, CheckInv DEF CreateRoleCheck, HolderCheck, At
<1>2. CASE CreateRole(p)
  <2> USE DEF CreateRole, At
  <2>1. PICK r \in New(role) :
          role' = [role EXCEPT ![r] = [state |-> "live", name |-> req[p].name, on |-> TRUE]]
    BY <1>2
  <2>2. r \in Roles /\ req[p].name \in Names
    BY <1>0, <1>2 DEF New, Types, Sound
  <2>3. role' \in [Roles -> RoleRow]
    BY <1>0, <2>1, <2>2 DEF Types, RoleRow, States
  <2>4. \A u \in Admins : RolesNamed(u)' = RolesNamed(u)
    BY <1>0, <2>1, <2>2 DEF RolesNamed, Live, New, Types, AccessAssumption
  <2>5. New(role)' \subseteq New(role)
    BY <1>0, <2>1, <2>2 DEF New, Types
  <2>6. QED
    BY <1>0, <1>03, <1>2, <2>3, <2>4, <2>5, EndStep DEF Types
<1>3. CASE ToggleRoleCheck(p)
  BY <1>3, ToWrite, RefuseInv, <1>0 DEF ToggleRoleCheck, At, Types, RoleRow
<1>4. CASE ToggleRole(p)
  <2> USE DEF ToggleRole, At
  <2>1. role' = [role EXCEPT ![req[p].id].on = req[p].on] /\ req[p].id \in Roles
    BY <1>0, <1>4 DEF Sound
  <2>2. role' \in [Roles -> RoleRow]
    BY <1>0, <2>1 DEF Types, RoleRow, Request
  <2>3. \A r \in Roles : role'[r].state = role[r].state /\ role'[r].name = role[r].name
    BY <1>0, <2>1 DEF Types, RoleRow
  <2>4. \A u \in Admins : RolesNamed(u)' = RolesNamed(u)
    BY <1>0, <2>2, <2>3 DEF RolesNamed, Live, Types
  <2>5. New(role)' \subseteq New(role)
    BY <1>0, <2>2, <2>3 DEF New, Types
  <2>6. QED
    BY <1>0, <1>03, <1>4, <2>2, <2>4, <2>5, EndStep DEF Types
<1>5. CASE SetHolder(p)
  <2>1. UNCHANGED <<role, grants, admin, lock, last>> /\ req' = [req EXCEPT ![p] = Idle]
    BY <1>5 DEF SetHolder, Finish
  <2>2. Idle.pc \notin Stages
    BY DEF Idle, Stages
  <2>3. QED
    BY <2>1, <2>2, ReadStep, IdleSound
<1>6. CASE UpdateRoleCheck(p) \/ UpdateRole(p) \/ RemoveRoleCheck(p) \/ RemoveRole(p)
           \/ AssignCheck(p) \/ AssignDelete(p) \/ AssignInsert(p)
  BY <1>02, <1>6 DEF UpdateRoleCheck, UpdateRole, RemoveRoleCheck, RemoveRole, AssignCheck,
                     AssignDelete, AssignInsert, At, ById
<1>7. QED
  BY <1>1, <1>2, <1>3, <1>4, <1>5, <1>6 DEF RoleStep

(* The endpoints about permissions: a removal takes its permission from the *)
(* roles and from the lists.                                                *)
LEMMA RemovePermInv ==
  ASSUME AccessAssumption, Inv, NEW p \in Reqs, RemovePerm(p)
  PROVE  Inv'
<1>1. PICK x : /\ grants' = {g \in grants : g[1] # x}
               /\ last' = [u \in Admins |-> last[u] \ {x}]
               /\ req' = [req EXCEPT ![p] = Idle]
               /\ UNCHANGED <<role, admin, lock>>
  BY DEF RemovePerm, Finish
<1>2. \A s \in Roles : GrantsOf(s)' = GrantsOf(s) \ {x}
  BY <1>1 DEF GrantsOf
<1>3. \A u \in Admins : RolesNamed(u)' = RolesNamed(u) /\ RolesNamed(u) \subseteq Roles
  BY <1>1 DEF RolesNamed, Live, Inv, Types
<1>4. New(role)' = New(role) /\ New(admin)' = New(admin) /\ New(role) \subseteq Roles
  BY <1>1 DEF New, Inv, Types
<1>5. /\ role' \in [Roles -> RoleRow] /\ admin' \in [Admins -> AdminRow]
      /\ lock' \in [Admins -> Reqs \cup {None}] /\ grants' \subseteq Perms \X Roles
      /\ last' \in [Admins -> SUBSET Perms]
  BY <1>1 DEF Inv, Types
<1>6. \A q \in Reqs \ {p}, u \in Admins :
        Updating(q) /\ req[q].pc \in {"delete", "insert"} /\ u = req[q].user
          => req[q].id \in RolesNamed(u)'
  BY <1>3 DEF Inv, Mine
<1>7. req' \in [Reqs -> Request] /\ Fields' /\ Known' /\ Locked' /\ Mine' /\ Seen'
  BY <1>1, <1>2, <1>4, <1>5, <1>6, IdleSound, OthersStep
<1>8. Types'
  BY <1>5, <1>7 DEF Types
<1>9. Clean' /\ Unborn' /\ Unlisted'
  <2>1. New(admin) \subseteq Admins
    BY DEF New, Inv, Types
  <2>2. QED
    BY <1>1, <1>2, <1>3, <1>4, <2>1 DEF Clean, Unborn, Unlisted, Inv
<1>10. PersonalRoleIsLastList'
  BY <1>1, <1>2, <1>3 DEF PersonalRoleIsLastList, Inv
<1>11. QED
  BY <1>7, <1>8, <1>9, <1>10 DEF Inv

LEMMA PermStepInv ==
  ASSUME AccessAssumption, Inv, NEW p \in Reqs, PermStep(p)
  PROVE  Inv'
<1>1. CASE CreatePermCheck(p) \/ UpdatePermCheck(p) \/ RemovePermCheck(p)
  BY <1>1, CheckInv DEF CreatePermCheck, UpdatePermCheck, RemovePermCheck, At
<1>2. CASE TogglePermCheck(p)
  <2>1. CASE Refuse(p)
    BY <2>1, RefuseInv
  <2>2. CASE ~Refuse(p)
    <3>1. PICK b : /\ req' = [req EXCEPT ![p].pc = "write", ![p].on = b] /\ b \in BOOLEAN
                   /\ UNCHANGED <<role, grants, admin, lock, last>>
      BY <1>2, <2>2 DEF TogglePermCheck
    <3>2. QED
      BY <1>2, <3>1, ToWrite DEF TogglePermCheck, At
  <2>3. QED
    BY <2>1, <2>2
<1>3. CASE CreatePerm(p) \/ UpdatePerm(p) \/ TogglePerm(p)
  <2>1. UNCHANGED <<role, grants, admin, lock, last>> /\ req' = [req EXCEPT ![p] = Idle]
    BY <1>3 DEF CreatePerm, UpdatePerm, TogglePerm, Finish
  <2>2. Idle.pc \notin Stages
    BY DEF Idle, Stages
  <2>3. QED
    BY <2>1, <2>2, ReadStep, IdleSound
<1>4. CASE RemovePerm(p)
  BY <1>4, RemovePermInv
<1>5. QED
  BY <1>1, <1>2, <1>3, <1>4 DEF PermStep
-----------------------------------------------------------------------------
(* An account is created with its role: neither was there before.           *)
LEMMA CreateAdminInv ==
  ASSUME AccessAssumption, Inv, NEW p \in Reqs, CreateAdmin(p)
  PROVE  Inv'
<1> USE DEF Inv
<1>0. req[p].user \in Admins /\ req[p].list \subseteq Perms /\ req' = [req EXCEPT ![p] = Idle]
      /\ lock' = lock
  BY DEF Types, Request, CreateAdmin, At, Fields, Sound, AdminOps, Finish
<1>1. CASE UNCHANGED <<role, admin, grants, holders, last>>
  <2>1. Idle.pc \notin Stages
    BY DEF Idle, Stages
  <2>2. QED
    BY <1>0, <1>1, <2>1, ReadStep, IdleSound
<1>2. CASE ~UNCHANGED <<role, admin, grants, holders, last>>
  <2>1. PICK u, list : u = req[p].user /\ list = req[p].list
    OBVIOUS
  <2>2. u \in New(admin) /\ u \in Admins /\ list \subseteq Perms
    BY <1>0, <1>2, <2>1 DEF CreateAdmin
  <2>3. PICK r \in New(role) :
          /\ role' = [role EXCEPT ![r] = [state |-> "live", name |-> u, on |-> TRUE]]
          /\ admin' = [admin EXCEPT ![u] = [state |-> "live", on |-> TRUE]]
          /\ grants' = grants \cup (list \X {r})
          /\ last' = [last EXCEPT ![u] = list]
    BY <1>2, <2>1 DEF CreateAdmin
  <2>4. r \in Roles /\ GrantsOf(r) = {} /\ RolesNamed(u) = {}
    BY <2>2, <2>3 DEF New, Types, Clean, Unborn
  <2>5. /\ role' \in [Roles -> RoleRow] /\ admin' \in [Admins -> AdminRow]
        /\ grants' \subseteq Perms \X Roles /\ last' \in [Admins -> SUBSET Perms]
    BY <2>2, <2>3, <2>4 DEF Types, RoleRow, AdminRow, States
  <2>6. RolesNamed(u)' = {r} /\ \A v \in Admins \ {u} : RolesNamed(v)' = RolesNamed(v)
    BY <2>3, <2>4 DEF RolesNamed, Live, New, Types
  <2>7. GrantsOf(r)' = list /\ \A s \in Roles \ {r} : GrantsOf(s)' = GrantsOf(s)
    BY <2>2, <2>3, <2>4 DEF GrantsOf
  <2>8. New(role)' \subseteq New(role) \ {r} /\ New(admin)' \subseteq New(admin) \ {u}
    BY <2>2, <2>3, <2>4 DEF New, Types
  <2>9. \A v \in Admins : RolesNamed(v) \subseteq Roles \ {r}
    BY <2>3 DEF RolesNamed, Live, New, Types
  <2>10. \A q \in Reqs \ {p}, v \in Admins :
           Updating(q) /\ req[q].pc \in {"delete", "insert"} /\ v = req[q].user
             => req[q].id \in RolesNamed(v)' /\ req[q].id # r
    BY <2>4, <2>6, <2>9 DEF Mine
  <2>11. \A q \in Reqs \ {p}, s \in Roles :
           Updating(q) /\ req[q].pc = "insert" /\ s = req[q].id
             => GrantsOf(s)' \subseteq GrantsOf(s)
    <3> SUFFICES ASSUME NEW q \in Reqs \ {p}, NEW s \in Roles,
                        Updating(q), req[q].pc = "insert", s = req[q].id
                 PROVE  GrantsOf(s)' \subseteq GrantsOf(s)
      OBVIOUS
    <3>1. req[q].user \in Admins
      BY DEF Updating, Fields, Sound, AdminOps
    <3>2. QED
      BY <2>7, <2>10, <3>1
  <2>12. req' \in [Reqs -> Request] /\ Fields' /\ Known' /\ Locked' /\ Mine' /\ Seen'
    BY <1>0, <2>5, <2>8, <2>10, <2>11, IdleSound, OthersStep
  <2>13. Types'
    BY <1>0, <2>5, <2>12 DEF Types
  <2>14. Clean' /\ Unborn'
    <3>1. New(role) \subseteq Roles /\ New(admin) \subseteq Admins
      BY DEF New, Types
    <3>2. QED
      BY <2>6, <2>7, <2>8, <3>1 DEF Clean, Unborn
  <2>15. last'[u] = list /\ \A v \in Admins \ {u} : last'[v] = last[v]
    BY <2>2, <2>3 DEF Types
  <2>16. Unlisted' /\ PersonalRoleIsLastList'
    BY <2>2, <2>6, <2>7, <2>9, <2>15 DEF Unlisted, PersonalRoleIsLastList
  <2>17. QED
    BY <2>12, <2>13, <2>14, <2>16
<1>3. QED
  BY <1>1, <1>2

(* What an update of an admin knows of its own user. *)
LEMMA Own ==
  ASSUME AccessAssumption, Inv, NEW p \in Reqs, NEW c, At(p, "updateAdmin", c), c # "read"
  PROVE  /\ req[p] \in Request /\ Sound(req[p]) /\ req[p].user \in Admins
         /\ req[p].user \notin New(admin)
         /\ c \in Stages => lock[req[p].user] = p
BY DEF Inv, Types, Fields, Sound, AdminOps, Known, Locked, Updating, At

(* The role is found or made; nothing but the row of the user keeps a       *)
(* second one out.                                                          *)
LEMMA SyncRoleInv ==
  ASSUME AccessAssumption, Inv, NEW p \in Reqs, SyncRole(p)
  PROVE  Inv'
<1> USE DEF Inv
<1>0. /\ req[p] \in Request /\ Sound(req[p]) /\ req[p].op = "updateAdmin"
      /\ req[p].user \in Admins /\ req[p].user \notin New(admin) /\ lock[req[p].user] = p
  BY Own DEF SyncRole, At, Stages
<1>1. PICK u : u = req[p].user
  OBVIOUS
<1>2. PICK r \in Roles :
        /\ req' = [req EXCEPT ![p].pc = "delete", ![p].id = r]
        /\ \/ r \in RolesNamed(u) /\ role' = role
           \/ /\ RolesNamed(u) = {} /\ r \in New(role)
              /\ role' = [role EXCEPT ![r] = [state |-> "live", name |-> u, on |-> TRUE]]
  BY <1>1 DEF SyncRole, RolesNamed, Live, New, Types
<1>3. UNCHANGED <<grants, admin, lock, last>>
  BY DEF SyncRole
<1>4. PICK x : x = [req[p] EXCEPT !.pc = "delete", !.id = r] /\ req' = [req EXCEPT ![p] = x]
  BY <1>2 DEF Types
<1>5. /\ x \in Request /\ Sound(x)
      /\ x.op = "updateAdmin" /\ x.pc = "delete" /\ x.user = u /\ x.id = r
  BY <1>0, <1>1, <1>4 DEF Request, Sound, AdminOps, Stages
<1>6. role' \in [Roles -> RoleRow]
  <2>1. CASE role' = role
    BY <2>1 DEF Types
  <2>2. CASE role' = [role EXCEPT ![r] = [state |-> "live", name |-> u, on |-> TRUE]]
    BY <1>0, <1>1, <2>2 DEF Types, RoleRow, States
  <2>3. QED
    BY <1>2, <2>1, <2>2
<1>7. \A s \in Roles : GrantsOf(s)' = GrantsOf(s)
  BY <1>3 DEF GrantsOf
<1>8. /\ \A v \in Admins \ {u} : RolesNamed(v)' = RolesNamed(v)
      /\ r \in RolesNamed(u)'
      /\ RolesNamed(u)' = IF role' = role THEN RolesNamed(u) ELSE {r}
  BY <1>0, <1>1, <1>2 DEF RolesNamed, Live, New, Types
<1>9. New(role)' \subseteq New(role) /\ New(admin)' = New(admin)
  BY <1>2, <1>3 DEF New, Types
<1>10. \A v \in Admins : RolesNamed(v) \subseteq Roles /\ RolesNamed(v) \subseteq RolesNamed(v)'
  BY <1>2, <1>8 DEF RolesNamed, Live, Types
<1>11. \A q \in Reqs \ {p}, v \in Admins :
         Updating(q) /\ req[q].pc \in {"delete", "insert"} /\ v = req[q].user
           => req[q].id \in RolesNamed(v)'
  BY <1>10 DEF Mine
<1>12. req' \in [Reqs -> Request] /\ Fields' /\ Known' /\ Locked' /\ Mine' /\ Seen'
  <2>1. x.op = "updateAdmin" /\ x.pc \in {"delete", "insert"} =>
          \A v \in Admins : v = x.user => x.id \in RolesNamed(v)'
    BY <1>5, <1>8
  <2>2. x.op = "updateAdmin" /\ x.pc \in Stages => lock'[x.user] = p
    BY <1>0, <1>1, <1>3, <1>5
  <2>3. x.op = "updateAdmin" /\ x.pc # "read" => x.user \notin New(admin)
    BY <1>0, <1>1, <1>5
  <2>4. \A q \in Reqs \ {p} : \A v \in Admins : lock[v] = q => lock'[v] = q
    BY <1>3
  <2>5. \A q \in Reqs \ {p}, s \in Roles :
          Updating(q) /\ req[q].pc = "insert" /\ s = req[q].id => GrantsOf(s)' \subseteq GrantsOf(s)
    BY <1>7
  <2>6. x.op = "updateAdmin" /\ x.pc = "insert" =>
          \A s \in Roles : s = x.id => GrantsOf(s)' \subseteq x.old
    BY <1>5
  <2>7. QED
    BY <1>4, <1>5, <1>6, <1>9, <1>11, <2>1, <2>2, <2>3, <2>4, <2>5, <2>6, OthersStep
<1>13. Types'
  BY <1>3, <1>6, <1>12 DEF Types
<1>14. Clean' /\ Unborn'
  <2>1. New(role) \subseteq Roles /\ New(admin) \subseteq Admins \ {u}
    BY <1>0, <1>1 DEF New, Types
  <2>2. QED
    BY <1>7, <1>8, <1>9, <2>1 DEF Clean, Unborn
<1>15. Unlisted'
  BY <1>3, <1>8, <1>10 DEF Unlisted
<1>16. PersonalRoleIsLastList'
  <2>1. CASE role' = role
    BY <1>3, <1>7, <1>8, <1>10, <2>1 DEF PersonalRoleIsLastList
  <2>2. CASE role' # role
    <3>1. GrantsOf(r) = {} /\ last[u] = {}
      BY <1>0, <1>1, <1>2, <2>2 DEF Clean, Unlisted
    <3>2. QED
      BY <1>3, <1>7, <1>8, <1>10, <2>2, <3>1 DEF PersonalRoleIsLastList
  <2>3. QED
    BY <2>1, <2>2
<1>17. QED
  BY <1>12, <1>13, <1>14, <1>15, <1>16

LEMMA SyncDeleteInv ==
  ASSUME AccessAssumption, Inv, NEW p \in Reqs, SyncDelete(p)
  PROVE  Inv'
<1> USE DEF Inv
<1>0. /\ req[p] \in Request /\ Sound(req[p]) /\ req[p].op = "updateAdmin" /\ req[p].pc = "delete"
      /\ req[p].user \in Admins /\ req[p].user \notin New(admin) /\ lock[req[p].user] = p
  BY Own DEF SyncDelete, At, Stages
<1>1. PICK u, r : u = req[p].user /\ r = req[p].id
  OBVIOUS
<1>2. r \in RolesNamed(u)
  BY <1>0, <1>1 DEF Mine, Updating
<1>3. GrantsOf(r) \in SUBSET Perms
  BY DEF GrantsOf
<1>4. req' = [req EXCEPT ![p].pc = "insert", ![p].old = GrantsOf(r)]
      /\ UNCHANGED <<role, grants, admin, lock, last>>
  BY <1>1 DEF SyncDelete
<1>5. PICK x : x = [req[p] EXCEPT !.pc = "insert", !.old = GrantsOf(r)]
               /\ req' = [req EXCEPT ![p] = x]
  BY <1>4 DEF Types
<1>6. /\ x \in Request /\ Sound(x)
      /\ x.op = "updateAdmin" /\ x.pc = "insert" /\ x.user = u /\ x.id = r /\ x.old = GrantsOf(r)
  BY <1>0, <1>1, <1>3, <1>5 DEF Request, Sound, AdminOps, Stages
<1>7. \A s : GrantsOf(s)' = GrantsOf(s) /\ RolesNamed(s)' = RolesNamed(s)
  BY <1>4 DEF GrantsOf, RolesNamed, Live
<1>8. New(role)' = New(role) /\ New(admin)' = New(admin)
  BY <1>4 DEF New
<1>9. \A q \in Reqs \ {p}, v \in Admins :
        Updating(q) /\ req[q].pc \in {"delete", "insert"} /\ v = req[q].user
          => req[q].id \in RolesNamed(v)'
  BY <1>7 DEF Mine
<1>10. role' \in [Roles -> RoleRow]
  BY <1>4 DEF Types
<1>11. req' \in [Reqs -> Request] /\ Fields' /\ Known' /\ Locked' /\ Mine' /\ Seen'
  <2>1. x.op = "updateAdmin" /\ x.pc \in {"delete", "insert"} =>
          \A v \in Admins : v = x.user => x.id \in RolesNamed(v)'
    BY <1>2, <1>6, <1>7
  <2>2. x.op = "updateAdmin" /\ x.pc \in Stages => lock'[x.user] = p
    BY <1>0, <1>1, <1>4, <1>6
  <2>3. x.op = "updateAdmin" /\ x.pc # "read" => x.user \notin New(admin)
    BY <1>0, <1>1, <1>6
  <2>4. \A q \in Reqs \ {p} : \A v \in Admins : lock[v] = q => lock'[v] = q
    BY <1>4
  <2>5. \A q \in Reqs \ {p}, s \in Roles :
          Updating(q) /\ req[q].pc = "insert" /\ s = req[q].id => GrantsOf(s)' \subseteq GrantsOf(s)
    BY <1>7
  <2>6. x.op = "updateAdmin" /\ x.pc = "insert" =>
          \A s \in Roles : s = x.id => GrantsOf(s)' \subseteq x.old
    BY <1>6, <1>7
  <2>7. QED
    BY <1>5, <1>6, <1>8, <1>9, <1>10, <2>1, <2>2, <2>3, <2>4, <2>5, <2>6, OthersStep
<1>12. Types'
  BY <1>4, <1>11 DEF Types
<1>13. Clean' /\ Unborn' /\ Unlisted' /\ PersonalRoleIsLastList'
  BY <1>4, <1>7, <1>8 DEF Clean, Unborn, Unlisted, PersonalRoleIsLastList
<1>14. QED
  BY <1>11, <1>12, <1>13

(* The insert: what the DELETE saw is all the role had, since nobody else   *)
(* works on the role while the user's row is locked.                        *)
LEMMA SyncInsertInv ==
  ASSUME AccessAssumption, Inv, NEW p \in Reqs, SyncInsert(p)
  PROVE  Inv'
<1> USE DEF Inv
<1>0. /\ req[p] \in Request /\ Sound(req[p]) /\ req[p].op = "updateAdmin" /\ req[p].pc = "insert"
      /\ req[p].user \in Admins /\ req[p].user \notin New(admin) /\ lock[req[p].user] = p
  BY Own DEF SyncInsert, At, Stages
<1>1. PICK u, r, list, seen :
        u = req[p].user /\ r = req[p].id /\ list = req[p].list /\ seen = req[p].old
  OBVIOUS
<1>2. r \in RolesNamed(u) /\ r \in Roles /\ list \in SUBSET Perms
      /\ GrantsOf(r) \subseteq seen /\ seen \subseteq Perms
  BY <1>0, <1>1 DEF Mine, Seen, Updating, RolesNamed, Live, Types, Request
<1>3. UNCHANGED <<role, admin>>
  BY DEF SyncInsert
<1>4. /\ \A v \in Admins : RolesNamed(v)' = RolesNamed(v) /\ RolesNamed(v) \subseteq Roles
      /\ New(role)' = New(role) /\ New(admin)' = New(admin)
      /\ role' \in [Roles -> RoleRow] /\ admin' \in [Admins -> AdminRow]
  BY <1>3 DEF RolesNamed, Live, New, Types
<1>5. CASE Collides(r, seen, list)
  <2>1. Finish(p) /\ lock' = [lock EXCEPT ![u] = None] /\ UNCHANGED <<grants, last>>
    BY <1>1, <1>5 DEF SyncInsert
  <2>2. lock' \in [Admins -> Reqs \cup {None}]
    BY <2>1 DEF Types
  <2>3. \A q \in Reqs \ {p} : \A v \in Admins : lock[v] = q => lock'[v] = q
    BY <1>0, <1>1, <2>1 DEF Types
  <2>4. QED
    BY <1>4, <2>1, <2>2, <2>3, EndStep
<1>6. CASE ~Collides(r, seen, list)
  <2>1. /\ req' = [req EXCEPT ![p].pc = "commit"] /\ lock' = lock
        /\ grants' = (grants \ (seen \X {r})) \cup (list \X {r})
        /\ last' = [last EXCEPT ![u] = list]
    BY <1>1, <1>6 DEF SyncInsert, Goto, Replaced
  <2>2. PICK x : x = [req[p] EXCEPT !.pc = "commit"] /\ req' = [req EXCEPT ![p] = x]
    BY <2>1 DEF Types
  <2>3. x \in Request /\ Sound(x) /\ x.op = "updateAdmin" /\ x.pc = "commit" /\ x.user = u
    BY <1>0, <1>1, <2>2 DEF Request, Sound, AdminOps, Stages
  <2>4. GrantsOf(r)' = list /\ \A s \in Roles \ {r} : GrantsOf(s)' = GrantsOf(s)
    BY <1>2, <2>1 DEF GrantsOf
  <2>5. \A q \in Reqs \ {p}, v \in Admins :
          Updating(q) /\ req[q].pc \in {"delete", "insert"} /\ v = req[q].user
            => req[q].id \in RolesNamed(v)' /\ v # u
    <3> SUFFICES ASSUME NEW q \in Reqs \ {p}, NEW v \in Admins, Updating(q),
                        req[q].pc \in {"delete", "insert"}, v = req[q].user
                 PROVE  req[q].id \in RolesNamed(v) /\ v # u
      BY <1>4
    <3>1. lock[v] = q
      BY DEF Locked, Stages
    <3>2. QED
      BY <1>0, <1>1, <3>1 DEF Mine
  <2>6. \A q \in Reqs \ {p}, s \in Roles :
          Updating(q) /\ req[q].pc = "insert" /\ s = req[q].id
            => GrantsOf(s)' \subseteq GrantsOf(s)
    <3> SUFFICES ASSUME NEW q \in Reqs \ {p}, NEW s \in Roles,
                        Updating(q), req[q].pc = "insert", s = req[q].id
                 PROVE  GrantsOf(s)' \subseteq GrantsOf(s)
      OBVIOUS
    <3>1. PICK v \in Admins : v = req[q].user
      BY DEF Updating, Fields, Sound, AdminOps
    <3>2. s \in RolesNamed(v) /\ v # u
      BY <1>4, <2>5, <3>1
    <3>3. role[s].name = v /\ role[r].name = u
      BY <1>2, <3>2 DEF RolesNamed
    <3>4. QED
      BY <2>4, <3>2, <3>3
  <2>7. req' \in [Reqs -> Request] /\ Fields' /\ Known' /\ Locked' /\ Mine' /\ Seen'
    <3>1. \A q \in Reqs \ {p} : \A v \in Admins : lock[v] = q => lock'[v] = q
      BY <2>1
    <3>2. /\ x.op = "updateAdmin" /\ x.pc \in Stages => lock'[x.user] = p
          /\ x.op = "updateAdmin" /\ x.pc # "read" => x.user \notin New(admin)
      BY <1>0, <1>1, <2>1, <2>3
    <3>3. x.pc \notin {"delete", "insert"}
      BY <2>3
    <3>4. QED
      BY <1>4, <2>2, <2>3, <2>5, <2>6, <3>1, <3>2, <3>3, OthersStep
  <2>8. Types'
    BY <1>2, <1>4, <2>1, <2>7 DEF Types
  <2>9. last'[u] = list /\ \A v \in Admins \ {u} : last'[v] = last[v]
    BY <1>0, <1>1, <2>1 DEF Types
  <2>10. Clean' /\ Unborn' /\ Unlisted'
    <3>1. r \notin New(role) /\ New(role) \subseteq Roles /\ New(admin) \subseteq Admins
      BY <1>2 DEF RolesNamed, Live, New, Types
    <3>2. QED
      BY <1>2, <1>4, <2>4, <2>9, <3>1 DEF Clean, Unborn, Unlisted
  <2>11. PersonalRoleIsLastList'
    <3>1. \A v \in Admins \ {u} : r \notin RolesNamed(v)
      BY <1>2 DEF RolesNamed
    <3>2. \A s \in RolesNamed(u) : s = r
      BY <1>0, <1>1, <1>2 DEF PersonalRoleIsLastList
    <3>3. QED
      BY <1>4, <2>4, <2>9, <3>1, <3>2 DEF PersonalRoleIsLastList
  <2>12. QED
    BY <2>7, <2>8, <2>10, <2>11
<1>7. QED
  BY <1>5, <1>6

(* The steps of an update that only take or give back the row.              *)
LEMMA HoldRowInv ==
  ASSUME AccessAssumption, Inv, NEW p \in Reqs,
         UpdateAdminLock(p) \/ SyncValidate(p) \/ UpdateAdminCommit(p)
  PROVE  Inv'
<1> USE DEF Inv
<1>0. PICK u \in Admins :
        /\ u = req[p].user /\ u \notin New(admin) /\ req[p] \in Request /\ Sound(req[p])
        /\ req[p].op = "updateAdmin"
        /\ lock[u] = p \/ UpdateAdminLock(p)
  BY Own DEF UpdateAdminLock, SyncValidate, UpdateAdminCommit, At, Stages
<1>1. UNCHANGED <<role, grants, last>>
  BY DEF UpdateAdminLock, SyncValidate, UpdateAdminCommit
<1>2. /\ \A v \in Admins : RolesNamed(v)' = RolesNamed(v)
      /\ New(role)' \subseteq New(role) /\ role' \in [Roles -> RoleRow]
  BY <1>1 DEF RolesNamed, Live, New, Types
<1>3. admin' = admin => admin' \in [Admins -> AdminRow] /\ New(admin)' \subseteq New(admin)
  BY DEF New, Types
<1>4. CASE UpdateAdminLock(p)
  <2>1. PICK c \in {"commit", "validate"} :
          req' = [req EXCEPT ![p].pc = c] /\ lock' = [lock EXCEPT ![u] = p] /\ lock[u] = None
    BY <1>0, <1>4 DEF UpdateAdminLock, Goto, RowFree
  <2>2. PICK x : x = [req[p] EXCEPT !.pc = c] /\ req' = [req EXCEPT ![p] = x]
    BY <2>1 DEF Types
  <2>3. x \in Request /\ Sound(x) /\ x.op = "updateAdmin" /\ x.pc = c /\ x.user = u
    BY <1>0, <2>1, <2>2 DEF Request, Sound, AdminOps, Stages
  <2>4. /\ lock' \in [Admins -> Reqs \cup {None}] /\ lock'[u] = p
        /\ \A q \in Reqs \ {p} : \A v \in Admins : lock[v] = q => lock'[v] = q
    BY <2>1 DEF Types, AccessAssumption
  <2>5. admin' = admin
    BY <1>4 DEF UpdateAdminLock
  <2>6. /\ x.op = "updateAdmin" /\ x.pc # "read" => x.user \notin New(admin)
        /\ x.op = "updateAdmin" /\ x.pc \in Stages =>
             x.pc \notin {"delete", "insert"} /\ lock'[x.user] = p
    BY <1>0, <2>1, <2>3, <2>4
  <2>7. QED
    BY <1>1, <1>2, <1>3, <2>2, <2>3, <2>4, <2>5, <2>6, CalmStep
<1>5. CASE SyncValidate(p)
  <2>0. admin' = admin
    BY <1>5 DEF SyncValidate
  <2>1. CASE Finish(p) /\ lock' = [lock EXCEPT ![u] = None]
    <3>1. lock[u] = p
      BY <1>0, <1>5 DEF SyncValidate, UpdateAdminLock, At, Locked, Updating, Stages
    <3>2. /\ lock' \in [Admins -> Reqs \cup {None}]
          /\ \A q \in Reqs \ {p} : \A v \in Admins : lock[v] = q => lock'[v] = q
      BY <2>1, <3>1 DEF Types
    <3>3. QED
      BY <1>1, <1>2, <1>3, <2>0, <2>1, <3>2, EndStep
  <2>2. CASE Goto(p, "role") /\ lock' = lock
    <3>1. PICK x : x = [req[p] EXCEPT !.pc = "role"] /\ req' = [req EXCEPT ![p] = x]
      BY <2>2 DEF Types, Goto
    <3>2. x \in Request /\ Sound(x) /\ x.op = "updateAdmin" /\ x.pc = "role" /\ x.user = u
      BY <1>0, <3>1 DEF Request, Sound, AdminOps, Stages
    <3>3. /\ lock' \in [Admins -> Reqs \cup {None}] /\ lock'[u] = p
          /\ \A q \in Reqs \ {p} : \A v \in Admins : lock[v] = q => lock'[v] = q
      BY <1>0, <1>5, <2>2 DEF Types, SyncValidate, UpdateAdminLock, At, Locked, Updating, Stages
    <3>4. QED
      BY <1>0, <1>1, <1>2, <1>3, <2>0, <3>1, <3>2, <3>3, CalmStep
  <2>3. QED
    BY <1>0, <1>5, <2>1, <2>2 DEF SyncValidate
<1>6. CASE UpdateAdminCommit(p)
  <2>1. /\ admin' = [admin EXCEPT ![u].on = req[p].on] /\ lock' = [lock EXCEPT ![u] = None]
        /\ Finish(p) /\ lock[u] = p
    BY <1>0, <1>6 DEF UpdateAdminCommit, UpdateAdminLock, At
  <2>2. /\ lock' \in [Admins -> Reqs \cup {None}]
        /\ \A q \in Reqs \ {p} : \A v \in Admins : lock[v] = q => lock'[v] = q
    BY <2>1 DEF Types
  <2>3. /\ admin' \in [Admins -> AdminRow]
        /\ \A v \in Admins : admin'[v].state = admin[v].state
    BY <1>0, <2>1 DEF Types, AdminRow, Request
  <2>4. New(admin)' \subseteq New(admin)
    BY <2>3 DEF New, Types
  <2>5. QED
    BY <1>1, <1>2, <2>1, <2>2, <2>3, <2>4, EndStep
<1>7. QED
  BY <1>4, <1>5, <1>6

(* The status or the deletion of an admin. *)
LEMMA AdminRowInv ==
  ASSUME AccessAssumption, Inv, NEW p \in Reqs, ToggleAdmin(p) \/ RemoveAdmin(p)
  PROVE  Inv'
<1> USE DEF Inv
<1>0. PICK u \in Admins : u = req[p].user /\ req[p] \in Request
  BY DEF ToggleAdmin, RemoveAdmin, At, Types, Fields, Sound, AdminOps
<1>1. UNCHANGED <<role, grants, lock, last>> /\ Finish(p)
  BY DEF ToggleAdmin, RemoveAdmin
<1>2. /\ \A v \in Admins : RolesNamed(v)' = RolesNamed(v)
      /\ New(role)' \subseteq New(role) /\ role' \in [Roles -> RoleRow]
      /\ lock' \in [Admins -> Reqs \cup {None}]
  BY <1>1 DEF RolesNamed, Live, New, Types
<1>3. CASE admin' = [admin EXCEPT ![u].on = req[p].on]
  <2>1. /\ admin' \in [Admins -> AdminRow]
        /\ \A v \in Admins : admin'[v].state = admin[v].state
    BY <1>0, <1>3 DEF Types, AdminRow, Request
  <2>2. New(admin)' \subseteq New(admin)
    BY <2>1 DEF New, Types
  <2>3. QED
    BY <1>1, <1>2, <2>1, <2>2, EndStep
<1>4. CASE admin' = [admin EXCEPT ![u] = [state |-> "deleted", on |-> FALSE]]
  <2>1. admin' \in [Admins -> AdminRow] /\ New(admin)' \subseteq New(admin)
    BY <1>0, <1>4 DEF Types, AdminRow, States, New
  <2>2. QED
    BY <1>1, <1>2, <2>1, EndStep
<1>5. QED
  BY <1>0, <1>3, <1>4 DEF ToggleAdmin, RemoveAdmin

LEMMA AdminStepInv ==
  ASSUME AccessAssumption, Inv, NEW p \in Reqs, AdminStep(p)
  PROVE  Inv'
<1>1. CASE CreateAdminCheck(p) \/ UpdateAdminCheck(p) \/ RemoveAdminCheck(p)
  <2>1. \A u \in Live(admin) : u \notin New(admin)
    BY DEF Live, New
  <2>2. QED
    BY <1>1, <2>1, CheckInv DEF CreateAdminCheck, UpdateAdminCheck, RemoveAdminCheck, At
<1>2. CASE ToggleAdminCheck(p)
  <2>1. CASE Refuse(p)
    BY <2>1, RefuseInv
  <2>2. CASE ~Refuse(p)
    <3>1. PICK b : /\ req' = [req EXCEPT ![p].pc = "write", ![p].on = b] /\ b \in BOOLEAN
                   /\ UNCHANGED <<role, grants, admin, lock, last>>
      BY <1>2, <2>2 DEF ToggleAdminCheck
    <3>2. QED
      BY <1>2, <3>1, ToWrite DEF ToggleAdminCheck, At
  <2>3. QED
    BY <2>1, <2>2
<1>3. CASE UpdateAdminLock(p) \/ SyncValidate(p) \/ UpdateAdminCommit(p)
  BY <1>3, HoldRowInv
<1>4. CASE ToggleAdmin(p) \/ RemoveAdmin(p)
  BY <1>4, AdminRowInv
<1>5. QED
  BY <1>1, <1>2, <1>3, <1>4, CreateAdminInv, SyncRoleInv, SyncDeleteInv, SyncInsertInv
     DEF AdminStep

(* A request that dies gives back its own row only. *)
LEMMA FailInv ==
  ASSUME AccessAssumption, Inv, NEW p \in Reqs, Fail(p)
  PROVE  Inv'
<1>1. /\ lock' = [u \in Admins |-> IF lock[u] = p THEN None ELSE lock[u]]
      /\ Finish(p) /\ UNCHANGED <<role, grants, admin, last>>
  BY DEF Fail
<1>2. /\ lock' \in [Admins -> Reqs \cup {None}]
      /\ \A q \in Reqs \ {p} : \A u \in Admins : lock[u] = q => lock'[u] = q
  BY <1>1 DEF Inv, Types
<1>3. /\ \A u \in Admins : RolesNamed(u)' = RolesNamed(u)
      /\ New(role)' \subseteq New(role) /\ role' \in [Roles -> RoleRow]
      /\ New(admin)' \subseteq New(admin) /\ admin' \in [Admins -> AdminRow]
  BY <1>1 DEF RolesNamed, Live, New, Inv, Types
<1>4. QED
  BY <1>1, <1>2, <1>3, EndStep

LEMMA NextInv ==
  ASSUME AccessAssumption, Inv, Ops \cap ById = {}, [Next]_vars
  PROVE  Inv'
<1>1. CASE Next
  BY <1>1, ArriveInv, RoleStepInv, PermStepInv, AdminStepInv, FailInv DEF Next
<1>2. CASE UNCHANGED vars
  BY <1>2 DEF vars, Inv, Types, Fields, Known, Locked, Mine, Seen, Clean, Unborn, Unlisted,
              PersonalRoleIsLastList, Updating, RolesNamed, Live, New, GrantsOf
<1>3. QED
  BY <1>1, <1>2

(* Whatever updates of whatever admins overlap or die, an admin has one     *)
(* personal role and it grants the list last given: the replacement of      *)
(* system-admins.service.ts:126 under the lock of :493.  Assumed is that no *)
(* request renames, deletes or fills a role by its id.                      *)
THEOREM OnePersonalRole ==
  ASSUME AccessAssumption, Ops \cap ById = {}
  PROVE  Spec => []PersonalRoleIsLastList
<1>1. Init => Inv
  BY InitInv
<1>2. Inv /\ [Next]_vars => Inv'
  BY NextInv
<1>3. Inv => PersonalRoleIsLastList
  BY DEF Inv
<1>4. QED
  BY <1>1, <1>2, <1>3, PTL DEF Spec
=============================================================================
