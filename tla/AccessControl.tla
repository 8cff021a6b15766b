----------------------------- MODULE AccessControl -----------------------------
(***************************************************************************)
(* Roles, permissions and the platform's admins: roles.service.ts,         *)
(* permissions.service.ts, system-admins.service.ts and the guard that     *)
(* reads what they write.  Rows of roles, permissions and users have a     *)
(* state; a row of permission_roles is a pair in grants, a row of          *)
(* role_users a pair in holders.  The personal role of an admin has the    *)
(* name admin_role_<id>: here, the admin.                                  *)
(*                                                                         *)
(* A handler is a request that steps from one database call to the next;   *)
(* the reads before its first write are one step.  A transaction is the    *)
(* step that commits it, except where its statements read at different     *)
(* times: the replacement of a role's permissions deletes the rows its     *)
(* DELETE sees and inserts the list later.                                 *)
(***************************************************************************)
CONSTANTS
  Roles, Perms, Admins, Members,  \* rows of roles and permissions, users
  Names, Keys,      \* names of roles, keys (action and category) of permissions
  SystemNames,      \* super_admin and system_admin
  Seeded,           \* the admins the seed created, without a personal role
  Reqs,             \* requests in flight
  Ops,              \* the endpoints that are called
  MayFail,          \* whether a request may die between two steps
  None

AdminOps == {"createAdmin", "updateAdmin", "toggleAdmin", "removeAdmin"}
RoleOps == {"createRole", "updateRole", "toggleRole", "removeRole",
            "assignPermissions", "assignRole", "revoke"}
PermOps == {"createPerm", "updatePerm", "togglePerm", "removePerm"}
AllOps == AdminOps \cup RoleOps \cup PermOps

AccessAssumption ==
  /\ SystemNames \subseteq Names
  /\ Seeded \subseteq Admins
  /\ Names \cap Admins = {}
  /\ None \notin Roles \cup Perms \cup Admins \cup Members \cup Names \cup Keys \cup Reqs
  /\ None \notin AllOps

VARIABLES
  role,     \* roles: state, name and status
  perm,     \* permissions: state, key and status
  grants,   \* permission_roles: <<permission, role>>
  holders,  \* role_users: <<role, user>>
  admin,    \* users of type ADMIN: state and status
  lock,     \* who holds the row of a user, in a transaction
  last,     \* what was last given to an admin, for the properties
  req       \* the requests

vars == <<role, perm, grants, holders, admin, lock, last, req>>

Users == Admins \cup Members
States == {"new", "live", "deleted"}

Live(table) == {x \in DOMAIN table : table[x].state = "live"}
New(table) == {x \in DOMAIN table : table[x].state = "new"}
RolesNamed(n) == {r \in Live(role) : role[r].name = n}
ActivePerms == {x \in Live(perm) : perm[x].on}
IsSystem(r) == role[r].name \in SystemNames
GrantsOf(r) == {x \in Perms : <<x, r>> \in grants}
-----------------------------------------------------------------------------
Idle == [op |-> None, pc |-> "idle", id |-> None, user |-> None, name |-> None,
         list |-> {}, old |-> {}, on |-> FALSE]

(* Nothing is granted, the seeded admins are there, no request is on.       *)
Quiet ==
  /\ grants = {}
  /\ admin = [u \in Admins |->
       [state |-> IF u \in Seeded THEN "live" ELSE "new", on |-> u \in Seeded]]
  /\ lock = [u \in Admins |-> None]
  /\ last = [u \in Admins |-> {}]
  /\ req = [p \in Reqs |-> Idle]

NoRole == [state |-> "new", name |-> None, on |-> FALSE]
NoPerm == [state |-> "new", key |-> None, on |-> FALSE]

Init ==
  /\ role = [r \in Roles |-> NoRole] /\ perm = [x \in Perms |-> NoPerm]
  /\ holders = {} /\ Quiet

Call(p, o, id, u, n, l, b) ==
  /\ o \in Ops /\ req[p].pc = "idle"
  /\ req' = [req EXCEPT ![p] = [op |-> o, pc |-> "read", id |-> id, user |-> u,
                                name |-> n, list |-> l, old |-> {}, on |-> b]]
  /\ UNCHANGED <<role, perm, grants, holders, admin, lock, last>>

(* An update of an admin carries no list (name None), or one, maybe empty.  *)
Arrive(p) ==
  \/ \E n \in Names : Call(p, "createRole", None, None, n, {}, FALSE)
  \/ \E r \in Roles, n \in Names \cup {None} : Call(p, "updateRole", r, None, n, {}, FALSE)
  \/ \E r \in Roles, o \in {"toggleRole", "removeRole"} : Call(p, o, r, None, None, {}, FALSE)
  \/ \E r \in Roles, l \in SUBSET Perms : Call(p, "assignPermissions", r, None, None, l, FALSE)
  \/ \E r \in Roles, u \in Members, o \in {"assignRole", "revoke"} :
       Call(p, o, r, u, None, {}, FALSE)
  \/ \E k \in Keys : Call(p, "createPerm", None, None, k, {}, FALSE)
  \/ \E x \in Perms, k \in Keys : Call(p, "updatePerm", x, None, k, {}, FALSE)
  \/ \E x \in Perms, o \in {"togglePerm", "removePerm"} : Call(p, o, x, None, None, {}, FALSE)
  \/ \E u \in Admins, l \in SUBSET Perms : Call(p, "createAdmin", None, u, None, l, FALSE)
  \/ \E u \in Admins, b \in BOOLEAN, l \in SUBSET Perms, n \in {None, "list"} :
       (n = None => l = {}) /\ Call(p, "updateAdmin", None, u, n, l, b)
  \/ \E u \in Admins, o \in {"toggleAdmin", "removeAdmin"} :
       Call(p, o, None, u, None, {}, FALSE)

At(p, o, pc) == req[p].op = o /\ req[p].pc = pc
Goto(p, pc) == req' = [req EXCEPT ![p].pc = pc]
Finish(p) == req' = [req EXCEPT ![p] = Idle]

(* A handler that throws before it has written anything. *)
Refuse(p) == Finish(p) /\ UNCHANGED <<role, perm, grants, holders, admin, lock, last>>

(* The reads of a handler: on to its first write, or refused. *)
Check(p, ok) ==
  IF ok THEN Goto(p, "write") /\ UNCHANGED <<role, perm, grants, holders, admin, lock, last>>
        ELSE Refuse(p)
-----------------------------------------------------------------------------
(* roles.service.ts: names are kept apart by the check alone.               *)

CreateRoleCheck(p) == At(p, "createRole", "read") /\ Check(p, RolesNamed(req[p].name) = {})

CreateRole(p) ==
  /\ At(p, "createRole", "write")
  /\ \E r \in New(role) :
       role' = [role EXCEPT ![r] = [state |-> "live", name |-> req[p].name, on |-> TRUE]]
  /\ Finish(p) /\ UNCHANGED <<perm, grants, holders, admin, lock, last>>

(* Mutant: a new title is not looked for among the other roles. *)
AnyTitle(r, n) == TRUE

TitleFree(r, n) == n = role[r].name \/ RolesNamed(n) \ {r} = {}

(* Without a title the name that was read is written back.                  *)
UpdateRoleCheck(p) ==
  LET r == req[p].id  n == req[p].name IN
  /\ At(p, "updateRole", "read")
  /\ IF r \in Live(role) /\ (n # None => ~IsSystem(r) /\ TitleFree(r, n))
     THEN /\ req' = [req EXCEPT ![p].pc = "write",
                                ![p].name = IF n = None THEN role[r].name ELSE n]
          /\ UNCHANGED <<role, perm, grants, holders, admin, lock, last>>
     ELSE Refuse(p)

UpdateRole(p) ==
  /\ At(p, "updateRole", "write")
  /\ role' = [role EXCEPT ![req[p].id].name = req[p].name]
  /\ Finish(p) /\ UNCHANGED <<perm, grants, holders, admin, lock, last>>

RemoveRoleCheck(p) ==
  LET r == req[p].id IN
  /\ At(p, "removeRole", "read")
  /\ Check(p, r \in Live(role) /\ ~IsSystem(r) /\ ~\E u \in Users : <<r, u>> \in holders)

RemoveRole(p) ==
  /\ At(p, "removeRole", "write")
  /\ role' = [role EXCEPT ![req[p].id].state = "deleted", ![req[p].id].on = FALSE]
  /\ Finish(p) /\ UNCHANGED <<perm, grants, holders, admin, lock, last>>

ToggleRoleCheck(p) ==
  LET r == req[p].id IN
  /\ At(p, "toggleRole", "read")
  /\ IF r \in Live(role) /\ ~IsSystem(r)
     THEN /\ req' = [req EXCEPT ![p].pc = "write", ![p].on = ~role[r].on]
          /\ UNCHANGED <<role, perm, grants, holders, admin, lock, last>>
     ELSE Refuse(p)

ToggleRole(p) ==
  /\ At(p, "toggleRole", "write")
  /\ role' = [role EXCEPT ![req[p].id].on = req[p].on]
  /\ Finish(p) /\ UNCHANGED <<perm, grants, holders, admin, lock, last>>

(* The replacement of a role's permissions, DELETE then INSERT in one       *)
(* transaction: the DELETE takes the rows it sees, the INSERT fails on a    *)
(* row another transaction has committed since.                             *)
Replaced(r, seen, list) == (grants \ (seen \X {r})) \cup (list \X {r})
Collides(r, seen, list) == (GrantsOf(r) \ seen) \cap list # {}

AssignCheck(p) ==
  /\ At(p, "assignPermissions", "read")
  /\ Check(p, req[p].id \in Live(role) /\ req[p].list \subseteq Live(perm))

AssignDelete(p) ==
  /\ At(p, "assignPermissions", "write")
  /\ req' = [req EXCEPT ![p].pc = "insert", ![p].old = GrantsOf(req[p].id)]
  /\ UNCHANGED <<role, perm, grants, holders, admin, lock, last>>

AssignInsert(p) ==
  LET r == req[p].id  list == req[p].list  seen == req[p].old IN
  /\ At(p, "assignPermissions", "insert")
  /\ IF Collides(r, seen, list) THEN UNCHANGED <<grants, last>>
     ELSE /\ grants' = Replaced(r, seen, list)
          /\ last' = [u \in Admins |-> IF role[r].name = u THEN list ELSE last[u]]
  /\ Finish(p) /\ UNCHANGED <<role, perm, holders, admin, lock>>

(* church-role-assignment: a member's role in the church is replaced; the   *)
(* role is looked up by its id, deleted or not.                             *)
HolderCheck(p) ==
  \/ At(p, "assignRole", "read") /\ Check(p, req[p].id \notin New(role))
  \/ At(p, "revoke", "read") /\ Check(p, TRUE)

SetHolder(p) ==
  LET u == req[p].user IN
  /\ req[p].op \in {"assignRole", "revoke"} /\ req[p].pc = "write"
  /\ holders' = {h \in holders : h[2] # u} \cup
                (IF req[p].op = "assignRole" THEN {<<req[p].id, u>>} ELSE {})
  /\ Finish(p) /\ UNCHANGED <<role, perm, grants, admin, lock, last>>
-----------------------------------------------------------------------------
(* permissions.service.ts: the key is unique in the table, deleted rows     *)
(* included; the check looks at the live ones.                              *)

KeyFree(k, rows, x) == \A y \in rows \ {x} : perm[y].key # k

CreatePermCheck(p) ==
  At(p, "createPerm", "read") /\ Check(p, KeyFree(req[p].name, Live(perm), None))

CreatePerm(p) ==
  /\ At(p, "createPerm", "write")
  /\ IF KeyFree(req[p].name, Perms, None)
     THEN \E x \in New(perm) :
            perm' = [perm EXCEPT ![x] = [state |-> "live", key |-> req[p].name, on |-> TRUE]]
     ELSE UNCHANGED perm
  /\ Finish(p) /\ UNCHANGED <<role, grants, holders, admin, lock, last>>

UpdatePermCheck(p) ==
  /\ At(p, "updatePerm", "read")
  /\ Check(p, req[p].id \in Live(perm) /\ KeyFree(req[p].name, Live(perm), req[p].id))

UpdatePerm(p) ==
  /\ At(p, "updatePerm", "write")
  /\ perm' = IF KeyFree(req[p].name, Perms, req[p].id)
             THEN [perm EXCEPT ![req[p].id].key = req[p].name] ELSE perm
  /\ Finish(p) /\ UNCHANGED <<role, grants, holders, admin, lock, last>>

TogglePermCheck(p) ==
  LET x == req[p].id IN
  /\ At(p, "togglePerm", "read")
  /\ IF x \in Live(perm)
     THEN /\ req' = [req EXCEPT ![p].pc = "write", ![p].on = ~perm[x].on]
          /\ UNCHANGED <<role, perm, grants, holders, admin, lock, last>>
     ELSE Refuse(p)

TogglePerm(p) ==
  /\ At(p, "togglePerm", "write")
  /\ perm' = [perm EXCEPT ![req[p].id].on = req[p].on]
  /\ Finish(p) /\ UNCHANGED <<role, grants, holders, admin, lock, last>>

RemovePermCheck(p) == At(p, "removePerm", "read") /\ Check(p, req[p].id \in Live(perm))

(* Mutant: a removed permission keeps its status. *)
DeletedOnly(x) == [perm[x] EXCEPT !.state = "deleted"]

DeletedAndOff(x) == [perm[x] EXCEPT !.state = "deleted", !.on = FALSE]

(* One transaction: its rows in permission_roles go, the row is marked.     *)
RemovePerm(p) ==
  LET x == req[p].id IN
  /\ At(p, "removePerm", "write")
  /\ grants' = {g \in grants : g[1] # x}
  /\ perm' = [perm EXCEPT ![x] = DeletedAndOff(x)]
  /\ last' = [u \in Admins |-> last[u] \ {x}]
  /\ Finish(p) /\ UNCHANGED <<role, holders, admin, lock>>
-----------------------------------------------------------------------------
(* system-admins.service.ts                                                 *)

(* Any list of existing permissions is taken; the categories of a request   *)
(* stand for a list of active ones.                                         *)
CreateAdminCheck(p) == At(p, "createAdmin", "read") /\ Check(p, req[p].user \in New(admin))

(* One transaction: the account, its role, the grants, the assignment.  It  *)
(* fails on an e-mail taken meanwhile and on an unknown permission.         *)
CreateAdmin(p) ==
  LET u == req[p].user  list == req[p].list IN
  /\ At(p, "createAdmin", "write")
  /\ IF u \in New(admin) /\ list \cap New(perm) = {}
     THEN \E r \in New(role) :
            /\ role' = [role EXCEPT ![r] = [state |-> "live", name |-> u, on |-> TRUE]]
            /\ admin' = [admin EXCEPT ![u] = [state |-> "live", on |-> TRUE]]
            /\ grants' = grants \cup (list \X {r})
            /\ holders' = holders \cup {<<r, u>>}
            /\ last' = [last EXCEPT ![u] = list]
     ELSE UNCHANGED <<role, admin, grants, holders, last>>
  /\ Finish(p) /\ UNCHANGED <<perm, lock>>

UpdateAdminCheck(p) ==
  At(p, "updateAdmin", "read") /\ Check(p, req[p].user \in Live(admin))

(* Mutant: nothing is locked when permissions are synchronised. *)
RowAnyway(u) == TRUE

(* A statement on the row of a user waits for the transaction that has it.  *)
RowFree(u) == lock[u] = None

(* The row of the user stays locked until the outer transaction ends, within *)
(* Prisma's time limit; the list, if it is not empty, is synchronised by     *)
(* other connections meanwhile.                                              *)
UpdateAdminLock(p) ==
  LET u == req[p].user IN
  /\ At(p, "updateAdmin", "write") /\ RowFree(u)
  /\ lock' = [lock EXCEPT ![u] = p]
  /\ Goto(p, IF req[p].list = {} THEN "commit" ELSE "validate")
  /\ UNCHANGED <<role, perm, grants, holders, admin, last>>

(* A permission that is missing or inactive throws, and rolls back.         *)
SyncValidate(p) ==
  LET u == req[p].user IN
  /\ At(p, "updateAdmin", "validate")
  /\ IF req[p].list \subseteq ActivePerms
     THEN Goto(p, "role") /\ UNCHANGED lock
     ELSE Finish(p) /\ lock' = [lock EXCEPT ![u] = None]
  /\ UNCHANGED <<role, perm, grants, holders, admin, last>>

(* getOrCreateAdminRole: a statement of its own, committed at once.         *)
SyncRole(p) ==
  LET u == req[p].user  mine == RolesNamed(u) IN
  /\ At(p, "updateAdmin", "role")
  /\ \/ \E r \in mine :
          /\ req' = [req EXCEPT ![p].pc = "delete", ![p].id = r]
          /\ UNCHANGED role
     \/ /\ mine = {}
        /\ \E r \in New(role) :
             /\ role' = [role EXCEPT ![r] = [state |-> "live", name |-> u, on |-> TRUE]]
             /\ req' = [req EXCEPT ![p].pc = "delete", ![p].id = r]
  /\ UNCHANGED <<perm, grants, holders, admin, lock, last>>

SyncDelete(p) ==
  /\ At(p, "updateAdmin", "delete")
  /\ req' = [req EXCEPT ![p].pc = "insert", ![p].old = GrantsOf(req[p].id)]
  /\ UNCHANGED <<role, perm, grants, holders, admin, lock, last>>

(* The inner transaction commits its inserts and, where it is missing, the  *)
(* assignment; or it fails, and the outer one with it.                      *)
SyncInsert(p) ==
  LET u == req[p].user  r == req[p].id  list == req[p].list  seen == req[p].old IN
  /\ At(p, "updateAdmin", "insert")
  /\ IF Collides(r, seen, list)
     THEN /\ Finish(p) /\ lock' = [lock EXCEPT ![u] = None]
          /\ UNCHANGED <<grants, holders, last>>
     ELSE /\ Goto(p, "commit") /\ UNCHANGED lock
          /\ grants' = Replaced(r, seen, list)
          /\ holders' = holders \cup {<<r, u>>}
          /\ last' = [last EXCEPT ![u] = list]
  /\ UNCHANGED <<role, perm, admin>>

(* The outer transaction commits the fields of the user: here, its status.  *)
UpdateAdminCommit(p) ==
  LET u == req[p].user IN
  /\ At(p, "updateAdmin", "commit")
  /\ admin' = [admin EXCEPT ![u].on = req[p].on]
  /\ lock' = [lock EXCEPT ![u] = None]
  /\ Finish(p) /\ UNCHANGED <<role, perm, grants, holders, last>>

ToggleAdminCheck(p) ==
  LET u == req[p].user IN
  /\ At(p, "toggleAdmin", "read")
  /\ IF u \in Live(admin)
     THEN /\ req' = [req EXCEPT ![p].pc = "write", ![p].on = ~admin[u].on]
          /\ UNCHANGED <<role, perm, grants, holders, admin, lock, last>>
     ELSE Refuse(p)

ToggleAdmin(p) ==
  /\ At(p, "toggleAdmin", "write") /\ RowFree(req[p].user)
  /\ admin' = [admin EXCEPT ![req[p].user].on = req[p].on]
  /\ Finish(p) /\ UNCHANGED <<role, perm, grants, holders, lock, last>>

RemoveAdminCheck(p) == At(p, "removeAdmin", "read") /\ Check(p, req[p].user \in Live(admin))

RemoveAdmin(p) ==
  /\ At(p, "removeAdmin", "write") /\ RowFree(req[p].user)
  /\ admin' = [admin EXCEPT ![req[p].user] = [state |-> "deleted", on |-> FALSE]]
  /\ Finish(p) /\ UNCHANGED <<role, perm, grants, holders, lock, last>>
-----------------------------------------------------------------------------
(* A request dies: what it committed stays, its transaction is rolled back. *)
Fail(p) ==
  /\ MayFail /\ req[p].pc # "idle"
  /\ lock' = [u \in Admins |-> IF lock[u] = p THEN None ELSE lock[u]]
  /\ Finish(p) /\ UNCHANGED <<role, perm, grants, holders, admin, last>>

RoleStep(p) ==
  \/ CreateRoleCheck(p) \/ CreateRole(p) \/ UpdateRoleCheck(p) \/ UpdateRole(p)
  \/ RemoveRoleCheck(p) \/ RemoveRole(p) \/ ToggleRoleCheck(p) \/ ToggleRole(p)
  \/ AssignCheck(p) \/ AssignDelete(p) \/ AssignInsert(p)
  \/ HolderCheck(p) \/ SetHolder(p)

PermStep(p) ==
  \/ CreatePermCheck(p) \/ CreatePerm(p) \/ UpdatePermCheck(p) \/ UpdatePerm(p)
  \/ TogglePermCheck(p) \/ TogglePerm(p) \/ RemovePermCheck(p) \/ RemovePerm(p)

AdminStep(p) ==
  \/ CreateAdminCheck(p) \/ CreateAdmin(p)
  \/ UpdateAdminCheck(p) \/ UpdateAdminLock(p) \/ SyncValidate(p) \/ SyncRole(p)
  \/ SyncDelete(p) \/ SyncInsert(p) \/ UpdateAdminCommit(p)
  \/ ToggleAdminCheck(p) \/ ToggleAdmin(p) \/ RemoveAdminCheck(p) \/ RemoveAdmin(p)

Next == \E p \in Reqs : Arrive(p) \/ RoleStep(p) \/ PermStep(p) \/ AdminStep(p) \/ Fail(p)

Spec == Init /\ [][Next]_vars
-----------------------------------------------------------------------------
(* The rows of the tables and what a request carries. *)
TypeOK ==
  /\ role \in [Roles -> [state : States, name : Names \cup Admins \cup {None}, on : BOOLEAN]]
  /\ perm \in [Perms -> [state : States, key : Keys \cup {None}, on : BOOLEAN]]
  /\ grants \subseteq Perms \X Roles /\ holders \subseteq Roles \X Users
  /\ admin \in [Admins -> [state : States, on : BOOLEAN]]
  /\ lock \in [Admins -> Reqs \cup {None}]
  /\ last \in [Admins -> SUBSET Perms]
  /\ \A p \in Reqs : req[p].list \subseteq Perms /\ req[p].old \subseteq Perms

(* An admin has one personal role, and it grants the list last given to the *)
(* admin, whole, less permissions removed since: create                     *)
(* (system-admins.service.ts:264) and the replacement in update (:126),     *)
(* however updates overlap or die.  What keeps a second replacement out is  *)
(* the lock the outer transaction has on the user's row.                    *)
PersonalRoleIsLastList ==
  \A u \in Admins :
    /\ \A r, s \in RolesNamed(u) : r = s
    /\ \A r \in RolesNamed(u) : GrantsOf(r) = last[u]

(* Two live roles never share a name (roles.service.ts:259), two            *)
(* permissions never a key.                                                 *)
NamesUnique ==
  /\ \A r, s \in Live(role) : role[r].name = role[s].name => r = s
  /\ \A x, y \in Perms \ New(perm) : perm[x].key = perm[y].key => x = y

(* The guard (permissions.guard.ts:54): it looks at the status of the       *)
(* permissions a user's roles grant, and at no deletion.                    *)
Passes(u, x) == \E r \in Roles : <<r, u>> \in holders /\ <<x, r>> \in grants /\ perm[x].on

(* A permission that was removed lets nobody pass the guard, whatever lists *)
(* were given before or name it since (permissions.service.ts:356).         *)
DeletedPermitsNothing ==
  \A u \in Users, x \in Perms : Passes(u, x) => perm[x].state # "deleted"
=============================================================================
