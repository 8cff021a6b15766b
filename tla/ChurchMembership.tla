--------------------------- MODULE ChurchMembership ---------------------------
(***************************************************************************)
(* Who belongs to which church, with which role, and how many members the  *)
(* church claims to have.                                                  *)
(*                                                                         *)
(* Five services write the same four tables (users, church_members,        *)
(* role_users and the cached churches.church_members column): auth,        *)
(* member-request, members-directory, church-role-assignment, helpers and  *)
(* the platform's admin/user service.  Every HTTP request runs its handler *)
(* as a chain of awaited database calls, so two requests interleave at     *)
(* every await.  A handler that uses $transaction is three steps here:     *)
(*   validate   the reads before the transaction, each taken as made at    *)
(*              one moment;                                                *)
(*   Stage      the statements of the transaction: its own checks, the     *)
(*              constraint violations that abort it, the row locks it      *)
(*              takes, and the member count it computes from its own       *)
(*              writes and from what others have committed (PostgreSQL's   *)
(*              READ COMMITTED, which the client leaves as it is);         *)
(*   Commit     its writes become visible, all at once.                    *)
(* A handler without a transaction is one step per statement.              *)
(***************************************************************************)
EXTENDS Integers, FiniteSets

CONSTANTS
  Users,            \* email addresses: an account may exist for each
  Churches,         \* churches created by createChurch or by the seed
  Roles,            \* rows of the roles table
  Rules,            \* role_assignment_rules: <<from_role, to_role>>
  AssignPermitted,  \* roles whose permissions hold assign/Role
  Owner,            \* church.user_id: the CHURCH_ADMIN account of each church
  Seed,             \* members present at the start: <<user, church, role>>
  SuperAdmins,      \* accounts of type SUPER_ADMIN
  SystemAdmins,     \* accounts of type ADMIN
  Reqs,             \* HTTP requests that can be in flight together
  Ops,              \* the endpoints the clients of an instance call
  MayFail,          \* can a request die between two of its statements
  None,             \* no row, no value
  NoChurch          \* role_users.churchId = NULL

UserStatus == {"PENDING", "ACTIVE", "SUSPENDED", "REJECTED"}
AllOps == {"register", "createUser", "createHelper", "approve", "add",
           "addNew", "removeHelper", "adminUpdate", "delete", "remove",
           "assign", "removeRole", "updateMember", "setStatus"}

ASSUME ConstantsAssumption ==
  /\ IsFiniteSet(Users)
  /\ {"HELPER", "CHURCH_MEMBER", "CHURCH_ADMIN"} \subseteq Roles
  /\ Rules \subseteq Roles \X Roles
  /\ AssignPermitted \subseteq Roles
  /\ Owner \in [Churches -> Users]
  /\ Seed \subseteq Users \X Churches \X Roles
  /\ SuperAdmins \cup SystemAdmins \subseteq Users
  /\ Ops \subseteq AllOps
  /\ MayFail \in BOOLEAN
  /\ None \notin Users \cup Churches \cup Roles \cup UserStatus \cup AllOps
  /\ NoChurch \notin Churches \cup {None}

VARIABLES
  users,          \* users[u]: the account's status and deleted_at
  member,         \* member[u][c]: the church_members row of u at c
  roleUser,       \* roleUser[u][r]: the churchId of row (r, u) of role_users
  churchMembers,  \* churchMembers[c]: the cached churches.church_members
  req             \* req[p]: the handler request p runs and what it has read

vars == <<users, member, roleUser, churchMembers, req>>
tables == <<users, member, roleUser, churchMembers>>

NoAccount == [status |-> "NONE", deleted |-> FALSE]
NoMembership == [status |-> "NONE", deleted |-> FALSE]
Pending == [status |-> "PENDING", deleted |-> FALSE]
Enabled == [status |-> "ACTIVE", deleted |-> FALSE]
(* Mutant: the status is set, deleted_at is forgotten. *)
RemovedKeepsRow == [status |-> "REMOVED", deleted |-> FALSE]
Removed == [status |-> "REMOVED", deleted |-> TRUE]

Present(u) == users[u].status # "NONE"
Live(u) == Present(u) /\ ~users[u].deleted
Exists(row) == row.status # "NONE"
Active(row) == row.status = "ACTIVE" /\ ~row.deleted

ActiveMembers(c) == {u \in Users : Active(member[u][c])}
ActiveCount(c) == Cardinality(ActiveMembers(c))

(* The church a request acts for: `take: 1` of the caller's active,         *)
(* undeleted memberships, in no stated order.                               *)
ActiveChurches(a) == {c \in Churches : Active(member[a][c])}
CallerChurch(a) == IF ActiveChurches(a) = {} THEN {None} ELSE ActiveChurches(a)
(* Queries that filter on status ACTIVE alone, and on nothing at all.       *)
StatusActiveAt(u) == {c \in Churches : member[u][c].status = "ACTIVE"}
RowsOf(u) == {c \in Churches : Exists(member[u][c])}
FirstOf(S) == IF S = {} THEN {None} ELSE S

RolesOf(a) == {r \in Roles : roleUser[a][r] # None}
ScopedRolesOf(a) == {r \in Roles : roleUser[a][r] \in Churches}
HasRule(from, role) == \E f \in from : <<f, role>> \in Rules
(* canAssignRole of members-directory and admin/user: any row counts.       *)
CanAssign(a, role) == a \in SuperAdmins \/ HasRule(RolesOf(a), role)
(* canAssignRole of church-role-assignment: rows with a church, or ADMIN.   *)
CanAssignScoped(a, role) ==
  a \in SuperAdmins \cup SystemAdmins \/ HasRule(ScopedRolesOf(a), role)

ChurchAdmins == {Owner[c] : c \in Churches}
Staff == SuperAdmins \cup SystemAdmins \cup ChurchAdmins
(* PermissionsGuard on assign/Role, reading role_users at the request.      *)
MayAssign(a) == a \in SuperAdmins \/ RolesOf(a) \cap AssignPermitted # {}

-----------------------------------------------------------------------------
(* Requests *)

Idle == [pc |-> "idle", op |-> None, by |-> None, user |-> None,
         church |-> None, role |-> None, status |-> None, join |-> FALSE,
         count |-> 0, stale |-> FALSE]

(* Mutant: addMember does not recount. *)
RecountsWithoutAdd == {"register", "createUser", "approve"}
Recounts == {"register", "createUser", "approve", "add", "addNew"}
(* Requests that carry a member count computed earlier and not yet written. *)
Counted(r) == r.pc = "write" \/ (r.pc = "staged" /\ r.op \in Recounts)

Start(p, r) ==
  /\ req' = [req EXCEPT ![p] = r]
  /\ UNCHANGED tables

Finish(p) == req' = [req EXCEPT ![p] = Idle]

(* A transaction past its statements holds the row locks of its user until  *)
(* it commits; a statement of another request on those rows waits.          *)
(* Mutant: a transaction locks its user before it runs its checks. *)
LockedEarly(p, u) ==
  \E q \in Reqs \ {p} : req[q].pc \in {"open", "staged"} /\ req[q].user = u
Locked(p, u) == \E q \in Reqs \ {p} : req[q].pc = "staged" /\ req[q].user = u

(* Mutant: the rows of the church are not deleted. *)
WithoutChurchNoOp(roles, c) == roles
WithoutChurch(roles, c) == [r \in Roles |-> IF roles[r] = c THEN None ELSE roles[r]]
NoRoles == [r \in Roles |-> None]

-----------------------------------------------------------------------------
(* Validation: the reads and the early returns in front of the writes. *)

(* auth.register: the email is free; the church was picked from the list.   *)
Register(p) ==
  /\ "register" \in Ops
  /\ \E u \in Users, c \in Churches :
       /\ ~Present(u)
       /\ Start(p, [Idle EXCEPT !.pc = "open", !.op = "register", !.user = u,
                                !.church = c])

(* admin/user.createUserByAdmin: as register, for any church.               *)
CreateUserByAdmin(p) ==
  /\ "createUser" \in Ops
  /\ \E u \in Users, c \in Churches :
       /\ ~Present(u)
       /\ Start(p, [Idle EXCEPT !.pc = "open", !.op = "createUser", !.user = u,
                                !.church = c])

(* helpers.createHelper: the church whose user_id is the caller.            *)
CreateHelper(p) ==
  /\ "createHelper" \in Ops
  /\ \E u \in Users, c \in Churches :
       /\ ~Present(u)
       /\ Start(p, [Idle EXCEPT !.pc = "open", !.op = "createHelper", !.user = u,
                                !.church = c, !.role = "HELPER"])

(* member-request.approveUser: the first undeleted membership, of whatever  *)
(* status, of an undeleted user without a helper or member role anywhere.   *)
ApproveUser(p) ==
  /\ "approve" \in Ops
  /\ \E u \in Users, c \in Churches, role \in {"HELPER", "CHURCH_MEMBER"} :
       /\ Live(u)
       /\ Exists(member[u][c]) /\ ~member[u][c].deleted
       /\ roleUser[u]["HELPER"] = None /\ roleUser[u]["CHURCH_MEMBER"] = None
       /\ Start(p, [Idle EXCEPT !.pc = "open", !.op = "approve", !.user = u,
                                !.church = c, !.role = role])

(* members-directory.addMember: a super admin names the church, any other   *)
(* caller adds to their own.  The account, if any, is looked up here.       *)
AddMember(p) ==
  /\ Ops \cap {"add", "addNew"} # {}
  /\ \E a \in Staff, u \in Users, c \in Churches, role \in Roles :
       /\ (IF Present(u) THEN "add" ELSE "addNew") \in Ops
       /\ a \in SuperAdmins \/ c \in ActiveChurches(a)
       /\ CanAssign(a, role)
       /\ Start(p, [Idle EXCEPT !.pc = "open",
                                !.op = IF Present(u) THEN "add" ELSE "addNew",
                                !.user = u, !.church = c, !.role = role])

(* helpers.removeHelperRole: the helper of the caller's church goes back to *)
(* being a plain member.                                                    *)
RemoveHelperRole(p) ==
  /\ "removeHelper" \in Ops
  /\ \E u \in Users, c \in Churches :
       /\ roleUser[u]["HELPER"] = c
       /\ Active(member[u][c])
       /\ Start(p, [Idle EXCEPT !.pc = "open", !.op = "removeHelper", !.user = u,
                                !.church = c, !.role = "CHURCH_MEMBER"])

(* The test admin/user makes before it updates or deletes: one arbitrary    *)
(* membership of the user, deleted or not, is of the admin's church.        *)
SameChurch(a, u, home) ==
  a \in SuperAdmins \/ home \in FirstOf(RowsOf(u))

(* The role goes to the church of the body, else to the admin's church      *)
(* `home`; None is an undefined churchId.                                   *)
AdminUpdate(a, u, body, role, status, home) ==
  [Idle EXCEPT !.pc = "open", !.op = "adminUpdate", !.by = a, !.user = u,
               !.church = IF body # None THEN body ELSE home,
               !.role = role, !.status = status,
               !.join = body # None /\ a \in SuperAdmins]

(* admin/user.updateUser.                                                   *)
AdminUpdateUser(p) ==
  /\ "adminUpdate" \in Ops
  /\ \E a \in Staff, u \in Users, body \in Churches \cup {None},
        role \in Roles \cup {None}, status \in UserStatus \cup {None} :
       \E home \in CallerChurch(a) :
         /\ Live(u)
         /\ SameChurch(a, u, home)
         /\ Start(p, AdminUpdate(a, u, body, role, status, home))

(* admin/user.deleteUser.                                                   *)
DeleteUser(p) ==
  /\ "delete" \in Ops
  /\ \E a \in SuperAdmins \cup SystemAdmins, u \in Users :
       \E home \in CallerChurch(a) :
         /\ Live(u)
         /\ SameChurch(a, u, home)
         /\ u # a
         /\ Start(p, [Idle EXCEPT !.pc = "open", !.op = "delete", !.user = u])

(* members-directory.removeMember: the first membership with status ACTIVE. *)
RemoveMember(p) ==
  /\ "remove" \in Ops
  /\ \E a \in Staff, u \in Users :
       \E home \in CallerChurch(a), c \in StatusActiveAt(u) :
         /\ Live(u)
         /\ a \in SuperAdmins \/ home = c
         /\ Start(p, [Idle EXCEPT !.pc = "mark", !.op = "remove", !.user = u,
                                  !.church = c])

(* Without a church there is no role to change.                             *)
MemberUpdate(a, u, c, role, status) ==
  [Idle EXCEPT !.pc = "put", !.op = "updateMember", !.by = a, !.user = u,
               !.church = c, !.status = status,
               !.role = IF c = None THEN None ELSE role]

(* members-directory.updateMember: the account first, then the role.        *)
UpdateMember(p) ==
  /\ "updateMember" \in Ops
  /\ \E a \in Staff, u \in Users, body \in Churches \cup {None},
        role \in Roles \cup {None}, status \in {"ACTIVE", "SUSPENDED", None} :
       \E home \in CallerChurch(a) :
         LET c == IF a \in SuperAdmins /\ body # None THEN body ELSE home IN
         /\ Live(u)
         /\ a \in SuperAdmins \/ home \in StatusActiveAt(u)
         /\ Start(p, MemberUpdate(a, u, c, role, status))

(* Mutant: the target's membership is not looked up. *)
AssignToAnyone(p) ==
  /\ "assign" \in Ops
  /\ \E a, u \in Users, role \in Roles :
       \E c \in ActiveChurches(a) :
         /\ MayAssign(a)
         /\ CanAssignScoped(a, role)
         /\ Start(p, [Idle EXCEPT !.pc = "drop", !.op = "assign", !.user = u,
                                  !.church = c, !.role = role])

(* church-role-assignment.assignRole and updateUserRole.                    *)
AssignRole(p) ==
  /\ "assign" \in Ops
  /\ \E a \in Users, u \in Users, role \in Roles :
       \E c \in ActiveChurches(a) :
         /\ MayAssign(a)
         /\ CanAssignScoped(a, role)
         /\ Active(member[u][c])
         /\ Start(p, [Idle EXCEPT !.pc = "drop", !.op = "assign", !.user = u,
                                  !.church = c, !.role = role])

(* church-role-assignment.removeRole.                                       *)
RemoveRole(p) ==
  /\ "removeRole" \in Ops
  /\ \E a \in Users, u \in Users :
       \E c \in ActiveChurches(a) :
         /\ MayAssign(a)
         /\ Active(member[u][c])
         /\ Start(p, [Idle EXCEPT !.pc = "drop", !.op = "removeRole", !.user = u,
                                  !.church = c])

(* admin/user.updateUserStatus: nobody suspends themselves.                 *)
UpdateUserStatus(p) ==
  /\ "setStatus" \in Ops
  /\ \E a \in SuperAdmins \cup SystemAdmins, u \in Users, status \in UserStatus :
       /\ Live(u)
       /\ u = a => status = "ACTIVE"
       /\ Start(p, [Idle EXCEPT !.pc = "put", !.op = "setStatus", !.user = u,
                                !.status = status])

-----------------------------------------------------------------------------
(* What each transaction writes: the account, the membership rows and the   *)
(* role rows of its user.                                                   *)

Before(u) == [account |-> users[u], rows |-> member[u], roles |-> roleUser[u]]

RegisterWrites(r) ==
  [Before(r.user) EXCEPT !.account = Pending, !.rows[r.church] = Pending]

CreateUserWrites(r) ==
  [Before(r.user) EXCEPT !.account = Enabled, !.rows[r.church] = Enabled]

(* Mutant: the account is created without its membership. *)
CreateWithoutRow(r) ==
  [Before(r.user) EXCEPT !.account = Enabled, !.roles[r.role] = r.church]

(* addMember for a new email, and createHelper. *)
CreateWithRoleWrites(r) ==
  [Before(r.user) EXCEPT !.account = Enabled, !.rows[r.church] = Enabled,
                         !.roles[r.role] = r.church]

(* The membership is updated by its id: deleted_at stays what it is.        *)
ApproveWrites(r) ==
  [Before(r.user) EXCEPT !.account.status = "ACTIVE",
                         !.rows[r.church].status = "ACTIVE",
                         !.roles[r.role] = r.church]

(* addMember for an account that exists: its status is left alone.          *)
AddWrites(r) ==
  [Before(r.user) EXCEPT !.rows[r.church] = Enabled,
                         !.roles[r.role] = r.church]

RemoveHelperWrites(r) ==
  LET held == roleUser[r.user] IN
  [Before(r.user) EXCEPT
     !.roles = [x \in Roles |->
                  IF x = "CHURCH_MEMBER" THEN r.church
                  ELSE IF x = "HELPER" /\ held[x] = r.church THEN None
                  ELSE held[x]]]

(* A churchId that is undefined is no filter: every role row is deleted.    *)
AfterDeleteMany(r) ==
  IF r.church = None THEN NoRoles ELSE WithoutChurch(roleUser[r.user], r.church)

AdminUpdateWrites(r) ==
  [account |-> IF r.status = None THEN users[r.user]
               ELSE [users[r.user] EXCEPT !.status = r.status],
   rows |-> IF r.join /\ ~Exists(member[r.user][r.church])
            THEN [member[r.user] EXCEPT ![r.church] = Enabled]
            ELSE member[r.user],
   roles |-> IF r.role = None THEN roleUser[r.user]
             ELSE [AfterDeleteMany(r) EXCEPT
                     ![r.role] = IF r.church = None THEN NoChurch ELSE r.church]]

(* Mutant: the role rows are kept. *)
DeleteKeepsRoles(r) ==
  [account |-> [status |-> "SUSPENDED", deleted |-> TRUE],
   rows |-> [c \in Churches |-> IF Exists(member[r.user][c]) THEN Removed
                                ELSE NoMembership],
   roles |-> roleUser[r.user]]

DeleteUserWrites(r) ==
  [account |-> [status |-> "SUSPENDED", deleted |-> TRUE],
   rows |-> [c \in Churches |-> IF Exists(member[r.user][c]) THEN Removed
                                ELSE NoMembership],
   roles |-> NoRoles]

Writes(r) ==
  CASE r.op = "register" -> RegisterWrites(r)
    [] r.op = "createUser" -> CreateUserWrites(r)
    [] r.op \in {"createHelper", "addNew"} -> CreateWithRoleWrites(r)
    [] r.op = "approve" -> ApproveWrites(r)
    [] r.op = "add" -> AddWrites(r)
    [] r.op = "removeHelper" -> RemoveHelperWrites(r)
    [] r.op = "adminUpdate" -> AdminUpdateWrites(r)
    [] OTHER -> DeleteUserWrites(r)

(* Why a transaction aborts: its own checks, the unique email, the unique   *)
(* (church, user) of church_members, the key (role, user) of role_users.    *)
Refused(r) ==
  LET row == member[r.user][r.church]
      held == roleUser[r.user]
  IN CASE r.op \in {"register", "createUser", "createHelper", "addNew"} -> Present(r.user)
       [] r.op = "approve" -> held[r.role] # None
       [] r.op = "add" -> \/ Exists(row) /\ (row.deleted \/ row.status = "ACTIVE")
                          \/ held[r.role] \notin {None, r.church}
       [] r.op = "removeHelper" -> held["CHURCH_MEMBER"] # None
       [] r.op = "adminUpdate" -> r.role # None /\ (\/ ~CanAssign(r.by, r.role)
                                                   \/ AfterDeleteMany(r)[r.role] # None)
       [] OTHER -> FALSE

(* Mutant: the count runs on another connection than the transaction. *)
CountCommitted(r) == ActiveCount(r.church)

(* tx.churchMember.count: own writes, and what others have committed.       *)
CountInside(r) ==
  Cardinality({u \in Users : Active(IF u = r.user THEN Writes(r).rows[r.church]
                                    ELSE member[u][r.church])})

Stage(p) ==
  /\ req[p].pc = "open"
  /\ ~Locked(p, req[p].user)
  /\ IF Refused(req[p]) THEN Finish(p)
     ELSE req' = [req EXCEPT ![p].pc = "staged",
                             ![p].count = IF req[p].op \in Recounts
                                          THEN CountInside(req[p]) ELSE 0]
  /\ UNCHANGED tables

(* A count another request still carries is stale once a membership of the  *)
(* same church became active or stopped being so.  `stale` is a history     *)
(* variable: no guard reads it.                                             *)
Settle(p, u) ==
  req' = [q \in Reqs |->
            IF q = p THEN Idle
            ELSE IF Counted(req[q]) /\ Active(member[u][req[q].church])
                                       # Active(member'[u][req[q].church])
            THEN [req[q] EXCEPT !.stale = TRUE]
            ELSE req[q]]

Commit(p) ==
  LET r == req[p]
      w == Writes(r)
  IN /\ r.pc = "staged"
     /\ users' = [users EXCEPT ![r.user] = w.account]
     /\ member' = [member EXCEPT ![r.user] = w.rows]
     /\ roleUser' = [roleUser EXCEPT ![r.user] = w.roles]
     /\ churchMembers' =
          IF r.op \in Recounts THEN [churchMembers EXCEPT ![r.church] = r.count]
          ELSE IF r.op = "createHelper"
          THEN [churchMembers EXCEPT ![r.church] = @ + 1]
          ELSE churchMembers
     /\ Settle(p, r.user)

-----------------------------------------------------------------------------
(* Handlers without a transaction: one step per statement. *)

(* removeMember: churchMember.updateMany over the (user, church) row.       *)
MarkRemoved(p) ==
  LET r == req[p] IN
  /\ r.pc = "mark"
  /\ ~Locked(p, r.user)
  /\ member' = [member EXCEPT ![r.user][r.church] = Removed]
  /\ req' = [q \in Reqs |->
               IF q = p THEN [r EXCEPT !.pc = "drop"]
               ELSE IF /\ Counted(req[q]) /\ req[q].church = r.church
                       /\ Active(member[r.user][r.church])
               THEN [req[q] EXCEPT !.stale = TRUE]
               ELSE req[q]]
  /\ UNCHANGED <<users, roleUser, churchMembers>>

(* Mutant: a removal goes on to create a role. *)
AfterDropGrant == [remove |-> "grant", assign |-> "grant", updateMember |-> "grant"]

AfterDrop == [remove |-> "count", assign |-> "grant", updateMember |-> "grant"]

(* roleUser.deleteMany of the user's rows at the church: rows another       *)
(* transaction has not committed are not seen, so nothing waits.            *)
DropRoles(p) ==
  LET r == req[p] IN
  /\ r.pc = "drop"
  /\ roleUser' = [roleUser EXCEPT ![r.user] = WithoutChurch(@, r.church)]
  /\ IF r.op = "removeRole" THEN Finish(p)
     ELSE req' = [req EXCEPT ![p].pc = AfterDrop[r.op]]
  /\ UNCHANGED <<users, member, churchMembers>>

(* roleUser.create: refused when the user holds the role in any church.     *)
GrantRole(p) ==
  LET r == req[p] IN
  /\ r.pc = "grant"
  /\ ~Locked(p, r.user)
  /\ roleUser' = IF roleUser[r.user][r.role] # None THEN roleUser
                 ELSE [roleUser EXCEPT ![r.user][r.role] = r.church]
  /\ Finish(p)
  /\ UNCHANGED <<users, member, churchMembers>>

(* removeMember: churchMember.count, then church.update with the result.    *)
CountMembers(p) ==
  /\ req[p].pc = "count"
  /\ req' = [req EXCEPT ![p].pc = "write", ![p].count = ActiveCount(req[p].church)]
  /\ UNCHANGED tables

WriteCount(p) ==
  /\ req[p].pc = "write"
  /\ churchMembers' = [churchMembers EXCEPT ![req[p].church] = req[p].count]
  /\ Finish(p)
  /\ UNCHANGED <<users, member, roleUser>>

(* user.update by id, of updateMember and updateUserStatus.                 *)
PutUser(p) ==
  LET r == req[p] IN
  /\ r.pc = "put"
  /\ ~Locked(p, r.user)
  /\ users' = IF r.status = None THEN users
              ELSE [users EXCEPT ![r.user].status = r.status]
  /\ IF r.role = None THEN Finish(p) ELSE req' = [req EXCEPT ![p].pc = "allow"]
  /\ UNCHANGED <<member, roleUser, churchMembers>>

(* Mutant: updateMember does not ask whether the role may be assigned. *)
AllowAnyRole(p) ==
  /\ req[p].pc = "allow"
  /\ req' = [req EXCEPT ![p].pc = "drop"]
  /\ UNCHANGED tables

(* updateMember asks whether the role may be assigned after that update.    *)
AllowRole(p) ==
  LET r == req[p] IN
  /\ r.pc = "allow"
  /\ IF CanAssign(r.by, r.role) THEN req' = [req EXCEPT ![p].pc = "drop"]
     ELSE Finish(p)
  /\ UNCHANGED tables

(* The process dies, the client connection or a statement fails: an open    *)
(* transaction rolls back, statements already run stay.                     *)
Fail(p) ==
  /\ MayFail
  /\ req[p] # Idle
  /\ Finish(p)
  /\ UNCHANGED tables

-----------------------------------------------------------------------------
Seeded(u) == u \in SuperAdmins \cup SystemAdmins \cup ChurchAdmins
             \/ \E s \in Seed : s[1] = u

SeedMember(u, c) == Owner[c] = u \/ \E s \in Seed : s[1] = u /\ s[2] = c

SeedRole(u, r) ==
  {c \in Churches : (r = "CHURCH_ADMIN" /\ Owner[c] = u) \/ <<u, c, r>> \in Seed}

(* The platform after createChurch for every church and the members of Seed *)
(* approved or added.                                                       *)
Init ==
  /\ users = [u \in Users |-> IF Seeded(u) THEN Enabled ELSE NoAccount]
  /\ member = [u \in Users |-> [c \in Churches |->
                 IF SeedMember(u, c) THEN Enabled ELSE NoMembership]]
  /\ roleUser = [u \in Users |-> [r \in Roles |->
                   IF SeedRole(u, r) = {} THEN None
                   ELSE CHOOSE c \in SeedRole(u, r) : TRUE]]
  /\ churchMembers = [c \in Churches |-> ActiveCount(c)]
  /\ req = [p \in Reqs |-> Idle]

Step(p) ==
  \/ Stage(p) \/ Commit(p)
  \/ MarkRemoved(p) \/ DropRoles(p) \/ GrantRole(p)
  \/ CountMembers(p) \/ WriteCount(p)
  \/ PutUser(p) \/ AllowRole(p)

Arrive(p) ==
  /\ req[p] = Idle
  /\ \/ Register(p) \/ CreateUserByAdmin(p) \/ CreateHelper(p)
     \/ ApproveUser(p) \/ AddMember(p) \/ RemoveHelperRole(p)
     \/ AdminUpdateUser(p) \/ DeleteUser(p)
     \/ RemoveMember(p) \/ UpdateMember(p) \/ AssignRole(p)
     \/ RemoveRole(p) \/ UpdateUserStatus(p)

Next == \E p \in Reqs : Arrive(p) \/ Step(p) \/ Fail(p)

Spec == Init /\ [][Next]_vars

(* The event loop runs every continuation and PostgreSQL queues the waiters *)
(* of a row lock in order, so no statement waits for ever.                  *)
FairSpec == Spec /\ \A p \in Reqs : SF_vars(Step(p))
-----------------------------------------------------------------------------
(* Properties *)

PCs == {"idle", "open", "staged", "mark", "drop", "grant", "count", "write",
        "put", "allow"}

Request == [pc : PCs, op : AllOps \cup {None}, by : Users \cup {None},
            user : Users \cup {None}, church : Churches \cup {None},
            role : Roles \cup {None}, status : UserStatus \cup {None},
            join : BOOLEAN, count : Nat, stale : BOOLEAN]

Account == [status : UserStatus \cup {"NONE"}, deleted : BOOLEAN]
Row == [status : {"NONE", "PENDING", "ACTIVE", "REMOVED"}, deleted : BOOLEAN]
RoleCell == Churches \cup {None, NoChurch}

(* The operations that act at one church, and those that grant a role.      *)
AtChurch == AllOps \ {"adminUpdate", "delete", "setStatus", "updateMember"}
Granting == {"createHelper", "approve", "add", "addNew", "removeHelper", "assign"}
InTransaction == {"register", "createUser", "createHelper", "approve", "add",
                  "addNew", "removeHelper", "adminUpdate", "delete"}

(* A request under way knows its user, and what its next statements need.   *)
RequestOK(r) ==
  \/ r = Idle
  \/ /\ r \in Request
     /\ r.op \in AllOps
     /\ r.user \in Users
     /\ r.op \in AtChurch => r.church \in Churches
     /\ r.op \in Granting => r.role \in Roles
     /\ r.join => r.church \in Churches
     /\ r.op \in {"adminUpdate", "updateMember"} => r.by \in Users
     /\ r.op = "setStatus" => r.role = None
     /\ r.op = "updateMember" /\ r.role # None => r.church \in Churches
     /\ r.pc # "idle"
     /\ r.pc \in {"open", "staged"} => r.op \in InTransaction
     /\ r.pc \in {"mark", "count", "write"} => r.op = "remove"
     /\ r.pc = "put" => r.op \in {"updateMember", "setStatus"}
     /\ r.pc = "allow" => r.op = "updateMember" /\ r.role # None
     /\ r.pc \in {"drop", "grant"} =>
          \/ r.op = "assign"
          \/ r.op = "updateMember" /\ r.role # None
          \/ r.pc = "drop" /\ r.op \in {"remove", "removeRole"}

(* Every table holds rows of its schema, and every request under way        *)
(* carries the values its remaining statements use.                         *)
TypeOK ==
  /\ users \in [Users -> Account]
  /\ member \in [Users -> [Churches -> Row]]
  /\ roleUser \in [Users -> [Roles -> RoleCell]]
  /\ churchMembers \in [Churches -> Nat]
  /\ req \in [Reqs -> Request]
  /\ \A p \in Reqs : RequestOK(req[p])

(* A recount that no other change of the church's membership overtook       *)
(* leaves churches.church_members equal to the number of its active,        *)
(* undeleted members: the count includes the handler's own writes           *)
(* (auth.service.ts:315-327, memeber-request.service.ts:473-485).           *)
FreshCountIsExact ==
  [][\A p \in Reqs, c \in Churches :
       /\ Commit(p) \/ WriteCount(p)
       /\ Counted(req[p]) /\ ~req[p].stale /\ req[p].church = c
       => churchMembers'[c] = ActiveCount(c)']_vars

(* However recounts, increments and failures interleave, a church never     *)
(* claims more members than it has membership rows.                         *)
CountWithinRows ==
  \A c \in Churches :
    churchMembers[c] <= Cardinality({u \in Users : Exists(member[u][c])})

(* The roles the handlers give without asking a rule.                       *)
Unruled == {"HELPER", "CHURCH_MEMBER"}
ClosedUnderRules(S) == \A rule \in Rules : rule[1] \in S => rule[2] \in S
SeededRoles == {"CHURCH_ADMIN"} \cup {s[3] : s \in Seed}

(* Where no platform account takes part, no sequence of calls gives anybody *)
(* a role that the assignment rules do not reach from the roles the church  *)
(* started with, not even through handlers whose check and whose write are  *)
(* apart (canAssignRole, members-directory.service.ts:1070).                *)
RolesFollowRules ==
  SuperAdmins \cup SystemAdmins = {} =>
    \A S \in SUBSET Roles :
      Unruled \cup SeededRoles \subseteq S /\ ClosedUnderRules(S)
      => \A u \in Users : RolesOf(u) \subseteq S

(* A role in a church is only held by somebody who has a membership row     *)
(* there, removed or not: the handlers of a church check the membership of  *)
(* the user or create it.  admin/user.updateUser takes the church of a role *)
(* from the request body and is outside the claim.                          *)
RoleNeedsMembershipRow ==
  SuperAdmins = {} /\ "adminUpdate" \notin Ops =>
    \A u \in Users, r \in Roles :
      roleUser[u][r] \in Churches => Exists(member[u][roleUser[u][r]])

AtRest == \A p \in Reqs : req[p] = Idle

(* What must hold between requests that do not overlap, each for the        *)
(* handlers MCChurchMembership names.                                       *)
CounterIsExact ==
  AtRest => \A c \in Churches : churchMembers[c] = ActiveCount(c)

RolesAreOfActiveMembers ==
  AtRest => \A u \in Users, r \in Roles :
    roleUser[u][r] \in Churches => Active(member[u][roleUser[u][r]])

DeletedHoldsNothing ==
  AtRest => \A u \in Users : users[u].deleted =>
    RolesOf(u) = {} /\ ActiveChurches(u) = {}

(* One request at a time: a membership is REMOVED exactly when its row is   *)
(* soft-deleted, so the queries that test one column and those that test    *)
(* the other agree.                                                         *)
RemovedIffDeleted ==
  \A u \in Users, c \in Churches :
    member[u][c].status = "REMOVED" <=> member[u][c].deleted

(* Whatever row locks it waits for, a request ends.                         *)
RequestsEnd == \A p \in Reqs : req[p] # Idle ~> req[p] = Idle

(* members-directory.service.ts:444 "Create or reactivate membership":      *)
(* adding somebody who was removed brings the membership back.              *)
AddReactivates ==
  [][\A p \in Reqs :
       /\ Stage(p) /\ req[p].op = "add"
       /\ member[req[p].user][req[p].church].status = "REMOVED"
       /\ roleUser[req[p].user][req[p].role] \in {None, req[p].church}
       => req'[p].pc = "staged"]_vars

(* members-directory.service.ts:824 "Remove role assignment for this        *)
(* church": somebody who is no longer a member has no role left once all    *)
(* requests are over.                                                       *)
RemovalDropsRoles ==
  AtRest => \A u \in Users, c \in Churches :
    member[u][c].status = "REMOVED" => \A r \in Roles : roleUser[u][r] # c
=============================================================================
