------------------------ MODULE ChurchMembershipProofs ------------------------
(* Theorems about ChurchMembership, for every value of its constants. *)
EXTENDS MCChurchMembership, FiniteSetTheorems, TLAPS

(* Counting the active members of a church gives a natural number. *)
LEMMA CountType ==
  ASSUME NEW S, S \subseteq Users
  PROVE  Cardinality(S) \in Nat
BY FS_Subset, FS_CardinalityType, ConstantsAssumption

LEMMA ActiveCountType == ASSUME NEW c PROVE ActiveCount(c) \in Nat
<1>1. ActiveMembers(c) \subseteq Users BY DEF ActiveMembers
<1> QED BY <1>1, CountType DEF ActiveCount

LEMMA CountInsideType == ASSUME NEW r PROVE CountInside(r) \in Nat
<1> DEFINE S == {u \in Users : Active(IF u = r.user THEN Writes(r).rows[r.church]
                                      ELSE member[u][r.church])}
<1>1. S \subseteq Users OBVIOUS
<1>2. CountInside(r) = Cardinality(S) BY DEF CountInside
<1> QED BY <1>1, <1>2, CountType

(* What a transaction writes is well typed. *)
WriteType == [account : Account, rows : [Churches -> Row], roles : [Roles -> RoleCell]]

LEMMA WritesType ==
  ASSUME TypeOK, NEW r, RequestOK(r), r.op \in InTransaction
  PROVE  Writes(r) \in WriteType
<1> USE DEF WriteType, Account, Row, RoleCell
<1>0. /\ r \in Request /\ r.user \in Users
      /\ r.op \in AtChurch => r.church \in Churches
      /\ r.op \in Granting => r.role \in Roles
      /\ r.join => r.church \in Churches
  BY ConstantsAssumption DEF RequestOK, Idle, InTransaction, AllOps
<1>1. Before(r.user) \in WriteType
  BY <1>0 DEF TypeOK, Before
<1>2. Pending \in Row /\ Enabled \in Row /\ Removed \in Row /\ NoMembership \in Row
      /\ Pending \in Account /\ Enabled \in Account
  BY DEF Pending, Enabled, Removed, NoMembership, UserStatus
<1>3. CASE r.op = "register"
  BY <1>0, <1>1, <1>2, <1>3 DEF Writes, RegisterWrites, AtChurch, AllOps
<1>4. CASE r.op = "createUser"
  BY <1>0, <1>1, <1>2, <1>4 DEF Writes, CreateUserWrites, AtChurch, AllOps
<1>5. CASE r.op \in {"createHelper", "addNew"}
  BY <1>0, <1>1, <1>2, <1>5 DEF Writes, CreateWithRoleWrites, AtChurch, AllOps, Granting
<1>6. CASE r.op = "approve"
  BY <1>0, <1>1, <1>2, <1>6 DEF Writes, ApproveWrites, AtChurch, AllOps, Granting, UserStatus
<1>7. CASE r.op = "add"
  BY <1>0, <1>1, <1>2, <1>7 DEF Writes, AddWrites, AtChurch, AllOps, Granting
<1>8. CASE r.op = "removeHelper"
  <2>1. r.church \in Churches
    BY <1>0, <1>8 DEF AtChurch, AllOps
  <2>2. roleUser[r.user] \in [Roles -> RoleCell]
    BY <1>0 DEF TypeOK
  <2>3. [x \in Roles |-> IF x = "CHURCH_MEMBER" THEN r.church
                        ELSE IF x = "HELPER" /\ roleUser[r.user][x] = r.church THEN None
                        ELSE roleUser[r.user][x]] \in [Roles -> RoleCell]
    BY <2>1, <2>2
  <2> QED BY <1>1, <1>8, <2>3 DEF Writes, RemoveHelperWrites
<1>9. CASE r.op = "adminUpdate"
  <2>1. AfterDeleteMany(r) \in [Roles -> RoleCell]
    BY <1>0 DEF TypeOK, AfterDeleteMany, NoRoles, WithoutChurch
  <2>2. AdminUpdateWrites(r).account \in Account
    <3>1. users[r.user] \in Account
      BY <1>0 DEF TypeOK
    <3>2. r.status \in UserStatus \cup {None}
      BY <1>0 DEF Request
    <3> QED BY <3>1, <3>2 DEF AdminUpdateWrites
  <2>3. AdminUpdateWrites(r).rows \in [Churches -> Row]
    BY <1>0, <1>2 DEF AdminUpdateWrites, TypeOK
  <2>4. AdminUpdateWrites(r).roles \in [Roles -> RoleCell]
    BY <1>0, <2>1 DEF AdminUpdateWrites, TypeOK, Request
  <2>5. Writes(r) = AdminUpdateWrites(r)
    BY <1>9 DEF Writes
  <2> QED BY <2>2, <2>3, <2>4, <2>5 DEF AdminUpdateWrites
<1>10. CASE r.op = "delete"
  BY <1>0, <1>1, <1>2, <1>10
     DEF Writes, DeleteUserWrites, NoRoles, UserStatus, TypeOK
<1> QED BY <1>3, <1>4, <1>5, <1>6, <1>7, <1>8, <1>9, <1>10 DEF InTransaction

-----------------------------------------------------------------------------
(* Requests *)

LEMMA IdleOK == Idle \in Request /\ RequestOK(Idle)
BY DEF Idle, Request, RequestOK, PCs

LEMMA RequestOKType == ASSUME NEW r, RequestOK(r) PROVE r \in Request
BY IdleOK DEF RequestOK

RequestsOK == req \in [Reqs -> Request] /\ \A p \in Reqs : RequestOK(req[p])

(* Replacing one request by a proper one keeps them all proper. *)
LEMMA SetRequest ==
  ASSUME RequestsOK, NEW p \in Reqs, NEW r, RequestOK(r), req' = [req EXCEPT ![p] = r]
  PROVE  RequestsOK'
<1>1. r \in Request BY RequestOKType
<1> HIDE DEF RequestOK
<1>2. req' \in [Reqs -> Request] BY <1>1 DEF RequestsOK
<1>3. \A q \in Reqs : req'[q] = IF q = p THEN r ELSE req[q] BY DEF RequestsOK
<1>4. \A q \in Reqs : RequestOK(req'[q]) BY <1>3 DEF RequestsOK
<1> QED BY <1>2, <1>4 DEF RequestsOK, RequestOK, Request, Idle

LEMMA FinishType == ASSUME RequestsOK, NEW p \in Reqs, Finish(p) PROVE RequestsOK'
BY SetRequest, IdleOK DEF Finish

LEMMA StartType ==
  ASSUME RequestsOK, NEW p \in Reqs, NEW r, RequestOK(r), Start(p, r)
  PROVE  RequestsOK' /\ UNCHANGED tables
BY SetRequest DEF Start

(* Every handler starts with a request that knows what it needs.            *)
LEMMA ArriveType ==
  ASSUME RequestsOK, TypeOK, NEW p \in Reqs, Arrive(p)
  PROVE  RequestsOK' /\ UNCHANGED tables
<1> USE DEF Request, PCs, Idle, AllOps, InTransaction, AtChurch, Granting,
            UserStatus
<1>r. {"HELPER", "CHURCH_MEMBER"} \subseteq Roles
  BY ConstantsAssumption
<1>a. Staff \subseteq Users
  BY ConstantsAssumption DEF Staff, ChurchAdmins
<1>c. \A a : CallerChurch(a) \subseteq Churches \cup {None}
  BY DEF CallerChurch, ActiveChurches
<1>1. CASE Register(p)
  BY <1>1, SetRequest DEF Register, RequestOK, Start
<1>2. CASE CreateUserByAdmin(p)
  BY <1>2, SetRequest DEF CreateUserByAdmin, RequestOK, Start
<1>3. CASE CreateHelper(p)
  BY <1>3, SetRequest, <1>r DEF CreateHelper, RequestOK, Start
<1>4. CASE ApproveUser(p)
  <2>1. PICK u \in Users, c \in Churches, role \in {"HELPER", "CHURCH_MEMBER"} :
          Start(p, [Idle EXCEPT !.pc = "open", !.op = "approve", !.user = u,
                                   !.church = c, !.role = role])
    BY <1>4 DEF ApproveUser
  <2>2. RequestOK([Idle EXCEPT !.pc = "open", !.op = "approve", !.user = u,
                                   !.church = c, !.role = role])
    BY <1>r, <1>a, <1>c, <2>1 DEF RequestOK
  <2> QED BY <2>1, <2>2, StartType
<1>5. CASE AddMember(p)
  <2>1. PICK u \in Users, c \in Churches, role \in Roles :
          Start(p, [Idle EXCEPT !.pc = "open",
                                   !.op = IF Present(u) THEN "add" ELSE "addNew",
                                   !.user = u, !.church = c, !.role = role])
    BY <1>5 DEF AddMember
  <2>2. RequestOK([Idle EXCEPT !.pc = "open",
                                   !.op = IF Present(u) THEN "add" ELSE "addNew",
                                   !.user = u, !.church = c, !.role = role])
    BY <1>r, <1>a, <1>c, <2>1 DEF RequestOK
  <2> QED BY <2>1, <2>2, StartType
<1>6. CASE RemoveHelperRole(p)
  BY <1>6, SetRequest, <1>r DEF RemoveHelperRole, RequestOK, Start
<1>7. CASE AdminUpdateUser(p)
  <2>1. PICK a \in Staff, u \in Users, body \in Churches \cup {None},
          role \in Roles \cup {None}, status \in UserStatus \cup {None} :
          \E home \in CallerChurch(a) :
            Start(p, AdminUpdate(a, u, body, role, status, home))
    BY <1>7 DEF AdminUpdateUser
  <2>2. PICK home \in Churches \cup {None} :
          Start(p, AdminUpdate(a, u, body, role, status, home))
    BY <1>c, <2>1
  <2> DEFINE church == IF body # None THEN body ELSE home
             join == body # None /\ a \in SuperAdmins
  <2>3. /\ church \in Churches \cup {None} /\ join \in BOOLEAN
        /\ join => church \in Churches
    BY <1>c, <2>2
  <2>4. AdminUpdate(a, u, body, role, status, home) =
          [Idle EXCEPT !.pc = "open", !.op = "adminUpdate", !.by = a, !.user = u,
                       !.church = church, !.role = role, !.status = status,
                       !.join = join]
    BY DEF AdminUpdate
  <2> HIDE DEF church, join
  <2>5. RequestOK([Idle EXCEPT !.pc = "open", !.op = "adminUpdate", !.by = a,
                     !.user = u, !.church = church, !.role = role,
                     !.status = status, !.join = join])
    <3>1. a \in Users /\ u \in Users /\ role \in Roles \cup {None}
          /\ status \in UserStatus \cup {None}
      BY <1>a
    <3> QED BY <2>3, <3>1 DEF RequestOK
  <2> QED BY <2>2, <2>4, <2>5, StartType
<1>8. CASE DeleteUser(p)
  BY <1>8, SetRequest DEF DeleteUser, RequestOK, Start
<1>9. CASE RemoveMember(p)
  BY <1>9, SetRequest DEF RemoveMember, StatusActiveAt, RequestOK, Start
<1>10. CASE UpdateMember(p)
  <2>1. PICK a \in Staff, u \in Users, role \in Roles \cup {None},
          status \in {"ACTIVE", "SUSPENDED", None}, c \in Churches \cup {None} :
          Start(p, MemberUpdate(a, u, c, role, status))
    BY <1>10, <1>c DEF UpdateMember
  <2>2. RequestOK(MemberUpdate(a, u, c, role, status))
    BY <1>a DEF MemberUpdate, RequestOK
  <2> QED BY <2>1, <2>2, StartType
<1>11. CASE AssignRole(p)
  <2>1. PICK u \in Users, c \in Churches, role \in Roles :
          Start(p, [Idle EXCEPT !.pc = "drop", !.op = "assign", !.user = u,
                                   !.church = c, !.role = role])
    BY <1>11 DEF AssignRole, ActiveChurches
  <2>2. RequestOK([Idle EXCEPT !.pc = "drop", !.op = "assign", !.user = u,
                                   !.church = c, !.role = role])
    BY <1>r, <1>a, <1>c, <2>1 DEF RequestOK
  <2> QED BY <2>1, <2>2, StartType
<1>12. CASE RemoveRole(p)
  BY <1>12, SetRequest DEF RemoveRole, ActiveChurches, RequestOK, Start
<1>13. CASE UpdateUserStatus(p)
  BY <1>13, SetRequest DEF UpdateUserStatus, RequestOK, Start
<1> QED
  BY <1>1, <1>2, <1>3, <1>4, <1>5, <1>6, <1>7, <1>8, <1>9, <1>10, <1>11, <1>12,
     <1>13 DEF Arrive

(* A request that learns its count is stale stays a proper request.         *)
LEMMA StaleOK ==
  ASSUME NEW r, RequestOK(r), Counted(r)
  PROVE  RequestOK([r EXCEPT !.stale = TRUE])
<1> DEFINE s == [r EXCEPT !.stale = TRUE]
<1>1. r # Idle /\ r \in Request
  BY DEF RequestOK, Counted, Idle
<1>2. s \in Request
  BY <1>1 DEF Request
<1>3. /\ s.pc = r.pc /\ s.op = r.op /\ s.user = r.user /\ s.church = r.church
      /\ s.role = r.role /\ s.join = r.join /\ s.by = r.by
  BY <1>1 DEF Request
<1> HIDE DEF s
<1>4. RequestOK(s)
  BY <1>1, <1>2, <1>3 DEF RequestOK
<1> QED BY <1>4 DEF s

(* The hand-overs from one statement of a handler to the next.              *)
NextPc(r, x) ==
  \/ r.pc = "mark" /\ x = "drop"
  \/ r.pc = "drop" /\ r.op # "removeRole" /\ x = AfterDrop[r.op]
  \/ r.pc = "put" /\ r.role # None /\ x = "allow"
  \/ r.pc = "allow" /\ x = "drop"

LEMMA NextPcOK ==
  ASSUME NEW r, RequestOK(r), NEW x, NextPc(r, x)
  PROVE  RequestOK([r EXCEPT !.pc = x])
<1> DEFINE s == [r EXCEPT !.pc = x]
<1>1. r # Idle /\ r \in Request
  BY RequestOKType DEF NextPc, Idle
<1>2. /\ r.pc = "mark" => x = "drop" /\ r.op = "remove"
      /\ r.pc = "drop" => \/ x = "count" /\ r.op = "remove"
                          \/ x = "grant" /\ r.op = "assign"
                          \/ x = "grant" /\ r.op = "updateMember" /\ r.role # None
      /\ r.pc = "put" => x = "allow" /\ r.op = "updateMember" /\ r.role # None
      /\ r.pc = "allow" => x = "drop" /\ r.op = "updateMember" /\ r.role # None
      /\ r.pc \in {"mark", "drop", "put", "allow"}
  BY <1>1 DEF NextPc, RequestOK, AfterDrop
<1>3. x \in {"drop", "count", "grant", "allow"}
  BY <1>2
<1>4. s \in Request
  BY <1>1, <1>3 DEF Request, PCs
<1>5. /\ s.pc = x /\ s.op = r.op /\ s.user = r.user /\ s.church = r.church
      /\ s.role = r.role /\ s.join = r.join /\ s.by = r.by
  BY <1>1 DEF Request
<1> HIDE DEF s
<1>6. RequestOK(s)
  BY <1>1, <1>2, <1>3, <1>4, <1>5 DEF RequestOK
<1> QED BY <1>6 DEF s

LEMMA SettleType ==
  ASSUME RequestsOK, NEW p \in Reqs, NEW u, Settle(p, u)
  PROVE  RequestsOK'
<1>1. \A q \in Reqs : RequestOK(req'[q])
  BY StaleOK, IdleOK DEF Settle, RequestsOK
<1>2. DOMAIN req' = Reqs /\ req' = [q \in Reqs |-> req'[q]]
  BY DEF Settle
<1>3. \A q \in Reqs : req'[q] \in Request
  BY <1>1, RequestOKType
<1> QED BY <1>1, <1>2, <1>3 DEF RequestsOK, RequestOK, Request, Idle

-----------------------------------------------------------------------------
(* Type correctness *)

TablesOK ==
  /\ users \in [Users -> Account]
  /\ member \in [Users -> [Churches -> Row]]
  /\ roleUser \in [Users -> [Roles -> RoleCell]]
  /\ churchMembers \in [Churches -> Nat]

LEMMA TypeParts == TypeOK <=> TablesOK /\ RequestsOK
BY DEF TypeOK, TablesOK, RequestsOK

LEMMA TypePartsNext == TypeOK' <=> TablesOK' /\ RequestsOK'
BY DEF TypeOK, TablesOK, RequestsOK, Account, Row, RoleCell, RequestOK, Request, Idle

LEMMA InitType == Init => TypeOK
<1> SUFFICES ASSUME Init PROVE TypeOK
  OBVIOUS
<1>1. users \in [Users -> Account]
  BY DEF Init, Account, Enabled, NoAccount, UserStatus
<1>2. member \in [Users -> [Churches -> Row]]
  BY DEF Init, Row, Enabled, NoMembership
<1>3. roleUser \in [Users -> [Roles -> RoleCell]]
  <2>1. ASSUME NEW u \in Users, NEW r \in Roles, SeedRole(u, r) # {}
        PROVE  (CHOOSE c \in SeedRole(u, r) : TRUE) \in Churches
    BY <2>1 DEF SeedRole
  <2> QED BY <2>1 DEF Init, RoleCell
<1>4. churchMembers \in [Churches -> Nat]
  BY ActiveCountType DEF Init
<1>5. RequestsOK
  BY IdleOK DEF Init, RequestsOK
<1> QED BY <1>1, <1>2, <1>3, <1>4, <1>5 DEF TypeOK, RequestsOK

LEMMA StageType ==
  ASSUME TypeOK, NEW p \in Reqs, Stage(p)
  PROVE  TypeOK'
<1>1. RequestOK(req[p]) /\ RequestsOK /\ TablesOK
  BY TypeParts DEF RequestsOK
<1>2. TablesOK'
  BY <1>1 DEF Stage, tables, TablesOK, Account, Row, RoleCell
<1>3. RequestsOK'
  <2>1. CASE Refused(req[p])
    BY <1>1, <2>1, FinishType DEF Stage
  <2>2. CASE ~Refused(req[p])
    <3> DEFINE n == IF req[p].op \in Recounts THEN CountInside(req[p]) ELSE 0
               r == [req[p] EXCEPT !.pc = "staged", !.count = n]
    <3>1. n \in Nat
      BY CountInsideType
    <3>2. req' = [req EXCEPT ![p] = r]
      BY <1>1, <2>2 DEF Stage, RequestsOK
    <3>3. req[p].pc = "open"
      BY DEF Stage
    <3> HIDE DEF n
    <3>4. req[p] \in Request /\ req[p] # Idle
      BY <1>1, <3>3, RequestOKType DEF Idle
    <3>5. r \in Request
      BY <3>1, <3>4 DEF Request, PCs
    <3>6. /\ r.pc = "staged" /\ r.op = req[p].op /\ r.user = req[p].user
          /\ r.church = req[p].church /\ r.role = req[p].role
          /\ r.join = req[p].join /\ r.by = req[p].by
      BY <3>4 DEF Request
    <3> HIDE DEF r
    <3>7. RequestOK(r)
      BY <1>1, <3>3, <3>4, <3>5, <3>6 DEF RequestOK
    <3> QED BY <1>1, <3>2, <3>7, SetRequest
  <2> QED BY <2>1, <2>2
<1> QED BY <1>2, <1>3, TypePartsNext

LEMMA CommitType ==
  ASSUME TypeOK, NEW p \in Reqs, Commit(p)
  PROVE  TypeOK'
<1> DEFINE r == req[p]
           w == Writes(r)
<1>0. RequestOK(r) /\ RequestsOK /\ TablesOK
  BY TypeParts DEF RequestsOK
<1>1. r \in Request /\ r.pc = "staged" /\ r.op \in InTransaction /\ r.user \in Users
      /\ (r.op \in Recounts \cup {"createHelper"} => r.church \in Churches)
  BY <1>0 DEF Commit, RequestOK, Idle, Recounts, AtChurch, AllOps
<1>2. w \in WriteType
  BY <1>0, <1>1, WritesType
<1>3. /\ users' = [users EXCEPT ![r.user] = w.account]
      /\ member' = [member EXCEPT ![r.user] = w.rows]
      /\ roleUser' = [roleUser EXCEPT ![r.user] = w.roles]
      /\ churchMembers' = IF r.op \in Recounts
                          THEN [churchMembers EXCEPT ![r.church] = r.count]
                          ELSE IF r.op = "createHelper"
                          THEN [churchMembers EXCEPT ![r.church] = @ + 1]
                          ELSE churchMembers
      /\ Settle(p, r.user)
  BY DEF Commit
<1> HIDE DEF r, w
<1>4. users' \in [Users -> Account] /\ member' \in [Users -> [Churches -> Row]]
      /\ roleUser' \in [Users -> [Roles -> RoleCell]]
  BY <1>0, <1>1, <1>2, <1>3 DEF TablesOK, WriteType
<1>5. churchMembers' \in [Churches -> Nat]
  BY <1>0, <1>1, <1>3 DEF TablesOK, Request
<1>6. RequestsOK'
  BY <1>0, <1>3, SettleType
<1>7. TablesOK'
  BY <1>4, <1>5 DEF TablesOK, Account, Row, RoleCell
<1> QED BY <1>6, <1>7, TypePartsNext

LEMMA MarkRemovedType ==
  ASSUME TypeOK, NEW p \in Reqs, MarkRemoved(p)
  PROVE  TypeOK'
<1>1. RequestOK(req[p]) /\ RequestsOK /\ TablesOK /\ req[p].pc = "mark"
  BY TypeParts DEF RequestsOK, MarkRemoved
<1>2. TablesOK'
  BY <1>1 DEF MarkRemoved, TablesOK, Account, Row, RoleCell, Removed
<1>3. \A q \in Reqs : RequestOK(req'[q])
  <2>1. RequestOK([req[p] EXCEPT !.pc = "drop"])
    BY <1>1, NextPcOK DEF NextPc
  <2> QED BY <1>1, <2>1, StaleOK DEF MarkRemoved, RequestsOK
<1>4. req' = [q \in Reqs |-> req'[q]]
  BY DEF MarkRemoved
<1>5. \A q \in Reqs : req'[q] \in Request
  BY <1>3, RequestOKType
<1>6. RequestsOK'
  BY <1>3, <1>4, <1>5 DEF RequestsOK, RequestOK, Request, Idle
<1> QED BY <1>2, <1>6, TypePartsNext

LEMMA DropRolesType ==
  ASSUME TypeOK, NEW p \in Reqs, DropRoles(p)
  PROVE  TypeOK'
<1>1. RequestOK(req[p]) /\ RequestsOK /\ TablesOK /\ req[p].pc = "drop"
  BY TypeParts DEF RequestsOK, DropRoles
<1>2. TablesOK'
  BY <1>1 DEF DropRoles, TablesOK, Account, Row, RoleCell, WithoutChurch
<1>3. RequestsOK'
  <2>1. CASE req[p].op = "removeRole"
    BY <1>1, <2>1, FinishType DEF DropRoles
  <2>2. CASE req[p].op # "removeRole"
    <3>1. RequestOK([req[p] EXCEPT !.pc = AfterDrop[req[p].op]])
      BY <1>1, <2>2, NextPcOK DEF NextPc
    <3>2. req' = [req EXCEPT ![p] = [req[p] EXCEPT !.pc = AfterDrop[req[p].op]]]
      BY <1>1, <2>2 DEF DropRoles, RequestsOK
    <3> QED BY <1>1, <3>1, <3>2, SetRequest
  <2> QED BY <2>1, <2>2
<1> QED BY <1>2, <1>3, TypePartsNext

LEMMA GrantRoleType ==
  ASSUME TypeOK, NEW p \in Reqs, GrantRole(p)
  PROVE  TypeOK'
<1>1. RequestOK(req[p]) /\ RequestsOK /\ TablesOK /\ req[p].pc = "grant"
  BY TypeParts DEF RequestsOK, GrantRole
<1>2. req[p].user \in Users /\ req[p].role \in Roles /\ req[p].church \in Churches
  BY <1>1, ConstantsAssumption
     DEF RequestOK, Idle, AtChurch, Granting, AllOps, Request
<1>3. roleUser' \in [Users -> [Roles -> RoleCell]]
  BY <1>1, <1>2 DEF GrantRole, TablesOK, RoleCell
<1>4. TablesOK'
  BY <1>1, <1>3 DEF GrantRole, TablesOK, Account, Row, RoleCell
<1>5. RequestsOK'
  BY <1>1, FinishType DEF GrantRole
<1> QED BY <1>4, <1>5, TypePartsNext

LEMMA CountMembersType ==
  ASSUME TypeOK, NEW p \in Reqs, CountMembers(p)
  PROVE  TypeOK'
<1> DEFINE n == ActiveCount(req[p].church)
           r == [req[p] EXCEPT !.pc = "write", !.count = n]
<1>1. RequestOK(req[p]) /\ RequestsOK /\ TablesOK /\ req[p].pc = "count"
  BY TypeParts DEF RequestsOK, CountMembers
<1>2. n \in Nat
  BY ActiveCountType
<1>3. req' = [req EXCEPT ![p] = r]
  BY <1>1 DEF CountMembers, RequestsOK
<1> HIDE DEF n
<1>4. req[p] \in Request /\ req[p] # Idle
  BY <1>1, RequestOKType DEF Idle
<1>5. r \in Request
  BY <1>2, <1>4 DEF Request, PCs
<1>6. /\ r.pc = "write" /\ r.op = req[p].op /\ r.user = req[p].user
      /\ r.church = req[p].church /\ r.role = req[p].role
          /\ r.join = req[p].join /\ r.by = req[p].by
  BY <1>4 DEF Request
<1> HIDE DEF r
<1>7. RequestOK(r)
  BY <1>1, <1>4, <1>5, <1>6 DEF RequestOK
<1>8. RequestsOK'
  BY <1>1, <1>3, <1>7, SetRequest
<1>9. TablesOK'
  BY <1>1 DEF CountMembers, tables, TablesOK, Account, Row, RoleCell
<1> QED BY <1>8, <1>9, TypePartsNext

LEMMA WriteCountType ==
  ASSUME TypeOK, NEW p \in Reqs, WriteCount(p)
  PROVE  TypeOK'
<1>1. RequestOK(req[p]) /\ RequestsOK /\ TablesOK /\ req[p].pc = "write"
  BY TypeParts DEF RequestsOK, WriteCount
<1>2. req[p].count \in Nat
  BY <1>1, RequestOKType DEF Request
<1>3. churchMembers' \in [Churches -> Nat]
  BY <1>1, <1>2 DEF WriteCount, TablesOK
<1>4. TablesOK'
  BY <1>1, <1>3 DEF WriteCount, TablesOK, Account, Row, RoleCell
<1>5. RequestsOK'
  BY <1>1, FinishType DEF WriteCount
<1> QED BY <1>4, <1>5, TypePartsNext

LEMMA PutUserType ==
  ASSUME TypeOK, NEW p \in Reqs, PutUser(p)
  PROVE  TypeOK'
<1>1. RequestOK(req[p]) /\ RequestsOK /\ TablesOK /\ req[p].pc = "put"
  BY TypeParts DEF RequestsOK, PutUser
<1>2. req[p].status \in UserStatus \cup {None}
  BY <1>1, RequestOKType DEF Request
<1>3. users' \in [Users -> Account]
  BY <1>1, <1>2 DEF PutUser, TablesOK, Account
<1>4. TablesOK'
  BY <1>1, <1>3 DEF PutUser, TablesOK, Account, Row, RoleCell
<1>5. RequestsOK'
  <2>1. CASE req[p].role = None
    BY <1>1, <2>1, FinishType DEF PutUser
  <2>2. CASE req[p].role # None
    <3>1. RequestOK([req[p] EXCEPT !.pc = "allow"])
      BY <1>1, <2>2, NextPcOK DEF NextPc
    <3>2. req' = [req EXCEPT ![p] = [req[p] EXCEPT !.pc = "allow"]]
      BY <1>1, <2>2 DEF PutUser, RequestsOK
    <3> QED BY <1>1, <3>1, <3>2, SetRequest
  <2> QED BY <2>1, <2>2
<1> QED BY <1>4, <1>5, TypePartsNext

LEMMA AllowRoleType ==
  ASSUME TypeOK, NEW p \in Reqs, AllowRole(p)
  PROVE  TypeOK'
<1>1. RequestOK(req[p]) /\ RequestsOK /\ TablesOK /\ req[p].pc = "allow"
  BY TypeParts DEF RequestsOK, AllowRole
<1>2. TablesOK'
  BY <1>1 DEF AllowRole, tables, TablesOK, Account, Row, RoleCell
<1>3. RequestOK([req[p] EXCEPT !.pc = "drop"])
  BY <1>1, NextPcOK DEF NextPc
<1>4. \/ req' = [req EXCEPT ![p] = [req[p] EXCEPT !.pc = "drop"]]
      \/ Finish(p)
  BY <1>1 DEF AllowRole, RequestsOK
<1>5. RequestsOK'
  BY <1>1, <1>3, <1>4, SetRequest, FinishType
<1> QED BY <1>2, <1>5, TypePartsNext

LEMMA ArriveKeepsType ==
  ASSUME TypeOK, NEW p \in Reqs, Arrive(p) \/ Fail(p)
  PROVE  TypeOK'
<1>1. RequestsOK /\ TablesOK
  BY TypeParts
<1>2. RequestsOK' /\ UNCHANGED tables
  BY <1>1, ArriveType, FinishType DEF Fail
<1>3. TablesOK'
  BY <1>1, <1>2 DEF tables, TablesOK, Account, Row, RoleCell
<1> QED BY <1>2, <1>3, TypePartsNext

LEMMA NextType == TypeOK /\ [Next]_vars => TypeOK'
<1> SUFFICES ASSUME TypeOK, [Next]_vars PROVE TypeOK'
  OBVIOUS
<1>1. ASSUME NEW p \in Reqs, Arrive(p) \/ Step(p) \/ Fail(p) PROVE TypeOK'
  BY <1>1, ArriveKeepsType, StageType, CommitType, MarkRemovedType, DropRolesType,
     GrantRoleType, CountMembersType, WriteCountType, PutUserType, AllowRoleType
     DEF Step
<1>2. CASE UNCHANGED vars
  BY <1>2 DEF vars, TypeOK, Account, Row, RoleCell, Request, RequestOK, Idle
<1> QED BY <1>1, <1>2 DEF Next

(* Every reachable state of every instance is well typed: each row holds    *)
(* values of its schema, and a handler that stopped at an await resumes     *)
(* with the user, church and role its remaining statements use.             *)
THEOREM TypeCorrect == Spec => []TypeOK
<1>1. Init => TypeOK BY InitType
<1>2. TypeOK /\ [Next]_vars => TypeOK' BY NextType
<1> QED BY <1>1, <1>2, PTL DEF Spec

-----------------------------------------------------------------------------
(* Roles follow the assignment rules *)

(* The requests that will write r.role without asking a rule again.         *)
Cleared(r) ==
  \/ r.op \in Granting /\ r.pc \in {"open", "staged", "drop", "grant"}
  \/ r.op = "updateMember" /\ r.pc \in {"drop", "grant"}
  \/ r.op = "adminUpdate" /\ r.pc = "staged" /\ r.role # None

RolesWithin(S) ==
  /\ \A u \in Users : RolesOf(u) \subseteq S
  /\ \A p \in Reqs : Cleared(req[p]) => req[p].role \in S

(* A set of roles that holds what the handlers give unasked and what the    *)
(* church started with, and that is closed under the rules.                 *)
Reach(S) == S \subseteq Roles /\ Unruled \cup SeededRoles \subseteq S
            /\ ClosedUnderRules(S)

NoPlatform == SuperAdmins \cup SystemAdmins = {}

(* Role cells never hold None by accident: None is no church.               *)
LEMMA CellFacts == \A c \in Churches : c # None
BY ConstantsAssumption

LEMMA CanAssignWithin ==
  ASSUME NoPlatform, NEW S, Reach(S), \A u \in Users : RolesOf(u) \subseteq S,
         NEW a \in Users, NEW role, CanAssign(a, role) \/ CanAssignScoped(a, role)
  PROVE  role \in S
<1>1. ScopedRolesOf(a) \subseteq RolesOf(a)
  BY CellFacts DEF ScopedRolesOf, RolesOf
<1>2. PICK f \in RolesOf(a) : <<f, role>> \in Rules
  BY <1>1 DEF NoPlatform, CanAssign, CanAssignScoped, HasRule
<1> QED BY <1>2 DEF Reach, ClosedUnderRules

LEMMA RolesWithinInit ==
  ASSUME NEW S, Reach(S), Init
  PROVE  RolesWithin(S)
<1>1. ASSUME NEW u \in Users, NEW r \in Roles, roleUser[u][r] # None
      PROVE  r \in S
  BY <1>1 DEF Init, SeedRole, Reach, SeededRoles
<1>2. \A p \in Reqs : ~Cleared(req[p])
  BY ConstantsAssumption DEF Init, Cleared, Idle, Granting
<1> QED BY <1>1, <1>2 DEF RolesWithin, RolesOf

(* A step that leaves the role rows alone and clears no request keeps it.   *)
LEMMA RolesWithinFrame ==
  ASSUME NEW S, RolesWithin(S), UNCHANGED roleUser,
         \A p \in Reqs : Cleared(req'[p]) => Cleared(req[p]) /\ req'[p].role = req[p].role
  PROVE  RolesWithin(S)'
BY DEF RolesWithin, RolesOf, Cleared

LEMMA FinishFrame ==
  ASSUME RequestsOK, NEW p \in Reqs, Finish(p)
  PROVE  \A q \in Reqs : Cleared(req'[q]) => Cleared(req[q]) /\ req'[q].role = req[q].role
<1>1. ~Cleared(Idle)
  BY ConstantsAssumption DEF Cleared, Idle, Granting
<1> QED BY <1>1 DEF Finish, RequestsOK

LEMMA StartWithin ==
  ASSUME NEW S, RolesWithin(S), RequestsOK, NEW p \in Reqs, NEW r, Start(p, r),
         Cleared(r) => r.role \in S
  PROVE  RolesWithin(S)'
<1>1. \A q \in Reqs : req'[q] = IF q = p THEN r ELSE req[q]
  BY DEF Start, RequestsOK
<1>2. \A q \in Reqs : Cleared(req'[q]) => req'[q].role \in S
  BY <1>1 DEF RolesWithin
<1> QED BY <1>2 DEF RolesWithin, RolesOf, Cleared, Start, tables

LEMMA ArriveWithin ==
  ASSUME NoPlatform, NEW S, Reach(S), RolesWithin(S), TypeOK, NEW p \in Reqs, Arrive(p)
  PROVE  RolesWithin(S)'
<1>0. RequestsOK
  BY TypeParts
<1>1. {"HELPER", "CHURCH_MEMBER"} \subseteq S
  BY DEF Reach, Unruled
<1>3. Staff \subseteq Users
  BY ConstantsAssumption DEF Staff, ChurchAdmins
<1>4. \A a \in Users : \A role : CanAssign(a, role) \/ CanAssignScoped(a, role) => role \in S
  BY CanAssignWithin DEF RolesWithin
<1>5. UNCHANGED roleUser
  BY <1>0, ArriveType DEF tables
<1>r. SUFFICES /\ Cleared(req'[p]) => req'[p].role \in S
               /\ \A q \in Reqs \ {p} : req'[q] = req[q]
  <2>1. \A q \in Reqs : Cleared(req'[q]) => req'[q].role \in S
    BY <1>r DEF RolesWithin
  <2> QED BY <1>5, <2>1 DEF RolesWithin, RolesOf, Cleared
<1> USE <1>0 DEF Granting, Cleared, Start, RequestsOK, Idle
<1>6. CASE Register(p)
  BY <1>6 DEF Register
<1>7. CASE CreateUserByAdmin(p)
  BY <1>7 DEF CreateUserByAdmin
<1>8. CASE CreateHelper(p)
  BY <1>8, <1>1 DEF CreateHelper
<1>9. CASE ApproveUser(p)
  BY <1>9, <1>1 DEF ApproveUser
<1>10. CASE AddMember(p)
  BY <1>10, <1>3, <1>4 DEF AddMember
<1>11. CASE RemoveHelperRole(p)
  BY <1>11, <1>1 DEF RemoveHelperRole
<1>12. CASE AdminUpdateUser(p)
  BY <1>12 DEF AdminUpdateUser, AdminUpdate
<1>13. CASE DeleteUser(p)
  BY <1>13 DEF DeleteUser
<1>14. CASE RemoveMember(p)
  BY <1>14 DEF RemoveMember
<1>15. CASE UpdateMember(p)
  BY <1>15 DEF UpdateMember, MemberUpdate
<1>16. CASE AssignRole(p)
  BY <1>16, <1>4 DEF AssignRole
<1>17. CASE RemoveRole(p)
  BY <1>17 DEF RemoveRole
<1>18. CASE UpdateUserStatus(p)
  BY <1>18 DEF UpdateUserStatus
<1> QED
  BY <1>6, <1>7, <1>8, <1>9, <1>10, <1>11, <1>12, <1>13, <1>14, <1>15, <1>16,
     <1>17, <1>18 DEF Arrive

LEMMA StageWithin ==
  ASSUME NoPlatform, NEW S, Reach(S), RolesWithin(S), TypeOK, NEW p \in Reqs, Stage(p)
  PROVE  RolesWithin(S)'
<1>0. RequestsOK /\ req[p].pc = "open" /\ UNCHANGED roleUser
  BY TypeParts DEF Stage, tables
<1>1. CASE Refused(req[p])
  BY <1>0, <1>1, FinishFrame, RolesWithinFrame DEF Stage
<1>2. CASE ~Refused(req[p])
  <2>1. /\ req'[p].op = req[p].op /\ req'[p].role = req[p].role
        /\ \A q \in Reqs \ {p} : req'[q] = req[q]
    BY <1>0, <1>2 DEF Stage, RequestsOK, Request
  <2>2. Cleared(req'[p]) => req[p].role \in S
    <3>1. CASE req[p].op \in Granting
      BY <1>0, <3>1 DEF RolesWithin, Cleared
    <3>2. CASE req[p].op = "adminUpdate" /\ req[p].role # None
      <4>1. CanAssign(req[p].by, req[p].role)
        BY <1>2, <3>2 DEF Refused
      <4>2. req[p].by \in Users
        BY <1>0, <3>2, ConstantsAssumption DEF RequestsOK, RequestOK, Idle
      <4> QED BY <4>1, <4>2, CanAssignWithin DEF RolesWithin
    <3> QED BY <2>1, <1>0, <1>2, <3>1, <3>2 DEF Cleared, Stage, RequestsOK, Request
  <2> QED BY <1>0, <2>1, <2>2 DEF RolesWithin, RolesOf, Cleared
<1> QED BY <1>1, <1>2

(* What a cleared transaction writes into role_users.                       *)
LEMMA WritesWithin ==
  ASSUME NEW S, Reach(S), RolesWithin(S), TypeOK, NEW p \in Reqs, Commit(p)
  PROVE  \A x \in Roles : Writes(req[p]).roles[x] # None => x \in S
<1> DEFINE r == req[p]
<1>1. /\ r.pc = "staged" /\ r.op \in InTransaction /\ r.user \in Users
      /\ RequestOK(r) /\ RequestsOK
  BY TypeParts DEF Commit, RequestsOK, RequestOK, Idle
<1>2. r.op \in Granting \/ (r.op = "adminUpdate" /\ r.role # None) => r.role \in S
  BY <1>1 DEF RolesWithin, Cleared
<1>3. \A x \in Roles : roleUser[r.user][x] # None => x \in S
  BY <1>1 DEF RolesWithin, RolesOf
<1>4. roleUser[r.user] \in [Roles -> RoleCell]
  BY <1>1 DEF TypeOK
<1>5. {"HELPER", "CHURCH_MEMBER"} \subseteq S
  BY DEF Reach, Unruled
<1> SUFFICES \A x \in Roles : Writes(r).roles[x] # None => x \in S
  OBVIOUS
<1> HIDE DEF r
<1>6. CASE r.op \in {"register", "createUser"}
  BY <1>3, <1>6 DEF Writes, RegisterWrites, CreateUserWrites, Before
<1>7. CASE r.op \in {"createHelper", "addNew"}
  BY <1>2, <1>3, <1>4, <1>7 DEF Writes, CreateWithRoleWrites, Before, Granting
<1>8. CASE r.op = "approve"
  BY <1>2, <1>3, <1>4, <1>8 DEF Writes, ApproveWrites, Before, Granting
<1>9. CASE r.op = "add"
  BY <1>2, <1>3, <1>4, <1>9 DEF Writes, AddWrites, Before, Granting
<1>10. CASE r.op = "removeHelper"
  BY <1>3, <1>5, <1>10 DEF Writes, RemoveHelperWrites, Before
<1>11. CASE r.op = "adminUpdate"
  <2>1. \A x \in Roles : AfterDeleteMany(r)[x] # None => x \in S
    BY <1>3 DEF AfterDeleteMany, NoRoles, WithoutChurch
  <2>2. AfterDeleteMany(r) \in [Roles -> RoleCell]
    BY <1>4 DEF AfterDeleteMany, NoRoles, WithoutChurch, RoleCell
  <2> QED BY <1>2, <1>3, <2>1, <2>2, <1>11 DEF Writes, AdminUpdateWrites
<1>12. CASE r.op = "delete"
  BY <1>12 DEF Writes, DeleteUserWrites, NoRoles
<1> QED
  BY <1>1, <1>6, <1>7, <1>8, <1>9, <1>10, <1>11, <1>12 DEF InTransaction

(* Requests other than p only learn that their count is stale.              *)
LEMMA SettleFrame ==
  ASSUME RequestsOK, NEW p \in Reqs, NEW u, Settle(p, u)
  PROVE  \A q \in Reqs : Cleared(req'[q]) => Cleared(req[q]) /\ req'[q].role = req[q].role
<1>1. ~Cleared(Idle)
  BY ConstantsAssumption DEF Cleared, Idle, Granting
<1>2. \A q \in Reqs \ {p} :
        /\ req'[q].op = req[q].op /\ req'[q].pc = req[q].pc
        /\ req'[q].role = req[q].role
  BY DEF Settle, RequestsOK, Request
<1>3. req'[p] = Idle
  BY DEF Settle
<1> QED BY <1>1, <1>2, <1>3 DEF Cleared

LEMMA CommitWithin ==
  ASSUME NEW S, Reach(S), RolesWithin(S), TypeOK, NEW p \in Reqs, Commit(p)
  PROVE  RolesWithin(S)'
<1>1. \A x \in Roles : Writes(req[p]).roles[x] # None => x \in S
  BY WritesWithin
<1>2. \A q \in Reqs : Cleared(req'[q]) => Cleared(req[q]) /\ req'[q].role = req[q].role
  BY SettleFrame, TypeParts DEF Commit
<1>3. \A u \in Users, x \in Roles : roleUser'[u][x] # None => x \in S
  <2>1. roleUser' = [roleUser EXCEPT ![req[p].user] = Writes(req[p]).roles]
    BY DEF Commit
  <2>2. roleUser \in [Users -> [Roles -> RoleCell]]
    BY DEF TypeOK
  <2> QED BY <1>1, <2>1, <2>2 DEF RolesWithin, RolesOf
<1>4. \A q \in Reqs : Cleared(req'[q]) => req'[q].role \in S
  BY <1>2 DEF RolesWithin
<1> QED BY <1>3, <1>4 DEF RolesWithin, RolesOf, Cleared

LEMMA HandoverFrame ==
  ASSUME RequestsOK, NEW p \in Reqs, NEW x, NextPc(req[p], x),
         req' = [req EXCEPT ![p] = [req[p] EXCEPT !.pc = x]]
  PROVE  /\ \A q \in Reqs \ {p} : req'[q] = req[q]
         /\ req'[p].op = req[p].op /\ req'[p].role = req[p].role /\ req'[p].pc = x
BY DEF RequestsOK, Request

LEMMA StatementsWithin ==
  ASSUME NoPlatform, NEW S, Reach(S), RolesWithin(S), TypeOK, NEW p \in Reqs,
         \/ MarkRemoved(p) \/ DropRoles(p) \/ GrantRole(p) \/ CountMembers(p)
         \/ WriteCount(p) \/ PutUser(p) \/ AllowRole(p) \/ Fail(p)
  PROVE  RolesWithin(S)'
<1>0. /\ RequestsOK /\ RequestOK(req[p]) /\ req[p] \in Request
      /\ roleUser \in [Users -> [Roles -> RoleCell]]
  BY TypeParts, RequestOKType DEF RequestsOK, TablesOK
<1>1. CASE MarkRemoved(p)
  <2>1. ~Cleared(req'[p])
    BY <1>0, <1>1 DEF MarkRemoved, RequestOK, Idle, Cleared, Granting, Request
  <2>2. \A q \in Reqs \ {p} : /\ req'[q].op = req[q].op /\ req'[q].pc = req[q].pc
                              /\ req'[q].role = req[q].role
    BY <1>0, <1>1 DEF MarkRemoved, RequestsOK, Request
  <2>3. \A q \in Reqs : Cleared(req'[q]) => Cleared(req[q]) /\ req'[q].role = req[q].role
    BY <2>1, <2>2 DEF Cleared
  <2> QED BY <1>1, <2>3, RolesWithinFrame DEF MarkRemoved
<1>2. CASE DropRoles(p)
  <2>1. \A q \in Reqs : Cleared(req'[q]) => Cleared(req[q]) /\ req'[q].role = req[q].role
    <3>1. CASE req[p].op = "removeRole"
      BY <1>0, <1>2, <3>1, FinishFrame DEF DropRoles
    <3>2. CASE req[p].op # "removeRole"
      <4>1. /\ NextPc(req[p], AfterDrop[req[p].op])
            /\ req' = [req EXCEPT ![p] = [req[p] EXCEPT !.pc = AfterDrop[req[p].op]]]
        BY <1>0, <1>2, <3>2 DEF DropRoles, NextPc, RequestsOK
      <4>2. /\ \A q \in Reqs \ {p} : req'[q] = req[q]
            /\ req'[p].op = req[p].op /\ req'[p].role = req[p].role
        BY <1>0, <4>1, HandoverFrame
      <4>3. Cleared(req'[p]) => Cleared(req[p])
        <5>1. req[p].pc = "drop" /\ req[p].op # "adminUpdate"
          BY <1>0, <1>2 DEF DropRoles, RequestOK, Idle
        <5> QED BY <4>2, <5>1 DEF Cleared
      <4> QED BY <4>2, <4>3
    <3> QED BY <3>1, <3>2
  <2>2. \A u \in Users, x \in Roles : roleUser'[u][x] # None => x \in S
    BY <1>0, <1>2 DEF DropRoles, WithoutChurch, RolesWithin, RolesOf
  <2>3. \A q \in Reqs : Cleared(req'[q]) => req'[q].role \in S
    BY <2>1 DEF RolesWithin
  <2> QED BY <2>2, <2>3 DEF RolesWithin, RolesOf, Cleared
<1>3. CASE GrantRole(p)
  <2>1. \A q \in Reqs : Cleared(req'[q]) => Cleared(req[q]) /\ req'[q].role = req[q].role
    BY <1>0, <1>3, FinishFrame DEF GrantRole
  <2>2. req[p].role \in S
    <3>1. req[p].op \in {"assign", "updateMember"} /\ req[p].pc = "grant"
      BY <1>0, <1>3 DEF GrantRole, RequestOK, Idle
    <3> QED BY <3>1 DEF RolesWithin, Cleared, Granting
  <2>3. \A u \in Users, x \in Roles : roleUser'[u][x] # None => x \in S
    BY <1>0, <1>3, <2>2 DEF GrantRole, RolesWithin, RolesOf
  <2>4. \A q \in Reqs : Cleared(req'[q]) => req'[q].role \in S
    BY <2>1 DEF RolesWithin
  <2> QED BY <2>3, <2>4 DEF RolesWithin, RolesOf, Cleared
<1>4. CASE CountMembers(p)
  <2>1. /\ \A q \in Reqs \ {p} : req'[q] = req[q]
        /\ req'[p].op = req[p].op /\ req'[p].pc = "write"
    BY <1>0, <1>4 DEF CountMembers, RequestsOK, Request
  <2>2. ~Cleared(req'[p])
    BY <2>1 DEF Cleared
  <2>3. \A q \in Reqs : Cleared(req'[q]) => Cleared(req[q]) /\ req'[q].role = req[q].role
    BY <2>1, <2>2
  <2> QED BY <1>4, <2>3, RolesWithinFrame DEF CountMembers, tables
<1>5. CASE WriteCount(p) \/ Fail(p)
  BY <1>0, <1>5, FinishFrame, RolesWithinFrame DEF WriteCount, Fail, tables
<1>6. CASE PutUser(p)
  <2>1. CASE req[p].role = None
    BY <1>0, <1>6, <2>1, FinishFrame, RolesWithinFrame DEF PutUser
  <2>2. CASE req[p].role # None
    <3>1. /\ NextPc(req[p], "allow")
          /\ req' = [req EXCEPT ![p] = [req[p] EXCEPT !.pc = "allow"]]
      BY <1>0, <1>6, <2>2 DEF PutUser, NextPc, RequestsOK
    <3>2. (\A q \in Reqs \ {p} : req'[q] = req[q]) /\ req'[p].pc = "allow"
      BY <1>0, <3>1, HandoverFrame
    <3>3. ~Cleared(req'[p])
      BY <3>2 DEF Cleared
    <3>4. \A q \in Reqs : Cleared(req'[q]) => Cleared(req[q]) /\ req'[q].role = req[q].role
      BY <3>2, <3>3
    <3> QED BY <1>6, <3>4, RolesWithinFrame DEF PutUser
  <2> QED BY <2>1, <2>2
<1>7. CASE AllowRole(p)
  <2>1. CASE ~CanAssign(req[p].by, req[p].role)
    BY <1>0, <1>7, <2>1, FinishFrame, RolesWithinFrame DEF AllowRole, tables
  <2>2. CASE CanAssign(req[p].by, req[p].role)
    <3>1. /\ NextPc(req[p], "drop")
          /\ req' = [req EXCEPT ![p] = [req[p] EXCEPT !.pc = "drop"]]
      BY <1>0, <1>7, <2>2 DEF AllowRole, NextPc, RequestsOK
    <3>2. (\A q \in Reqs \ {p} : req'[q] = req[q]) /\ req'[p].role = req[p].role
      BY <1>0, <3>1, HandoverFrame
    <3>3. req[p].by \in Users
      BY <1>0, <1>7 DEF AllowRole, RequestOK, Idle
    <3>4. req[p].role \in S
      BY <2>2, <3>3, CanAssignWithin DEF RolesWithin
    <3>5. \A q \in Reqs : Cleared(req'[q]) => req'[q].role \in S
      BY <3>2, <3>4 DEF RolesWithin
    <3> QED BY <1>7, <3>5 DEF AllowRole, tables, RolesWithin, RolesOf, Cleared
  <2> QED BY <2>1, <2>2
<1> QED BY <1>1, <1>2, <1>3, <1>4, <1>5, <1>6, <1>7

(* Every set of roles that is closed under the rules and holds the initial  *)
(* ones bounds the roles held and the roles about to be given.              *)
RolesInv == TypeOK /\ (NoPlatform => \A S : Reach(S) => RolesWithin(S))

LEMMA RolesInvInit == Init => RolesInv
BY InitType, RolesWithinInit DEF RolesInv

LEMMA RolesInvNext == RolesInv /\ [Next]_vars => RolesInv'
<1> SUFFICES ASSUME RolesInv, [Next]_vars PROVE RolesInv'
  OBVIOUS
<1>1. TypeOK'
  BY NextType DEF RolesInv
<1>2. ASSUME NoPlatform, NEW S, Reach(S) PROVE RolesWithin(S)'
  <2>1. TypeOK /\ RolesWithin(S)
    BY <1>2 DEF RolesInv
  <2>2. ASSUME NEW p \in Reqs, Arrive(p) \/ Step(p) \/ Fail(p) PROVE RolesWithin(S)'
    BY <1>2, <2>1, <2>2, ArriveWithin, StageWithin, CommitWithin, StatementsWithin
       DEF Step
  <2>3. CASE UNCHANGED vars
    BY <2>1, <2>3 DEF vars, RolesWithin, RolesOf, Cleared
  <2> QED BY <2>2, <2>3 DEF Next
<1> QED BY <1>1, <1>2 DEF RolesInv, NoPlatform, Reach, Unruled, SeededRoles, ClosedUnderRules

(* Without platform accounts nobody ever gets a role out of reach of the    *)
(* assignment rules: the test of canAssignRole, made statements before the  *)
(* role is written, stays good because roles only ever spread along rules.  *)
THEOREM RolesReachable == Spec => []RolesFollowRules
<1>1. Init => RolesInv BY RolesInvInit
<1>2. RolesInv /\ [Next]_vars => RolesInv' BY RolesInvNext
<1>3. RolesInv => RolesFollowRules
  BY DEF RolesInv, RolesFollowRules, NoPlatform, Reach, RolesWithin
<1> QED BY <1>1, <1>2, <1>3, PTL DEF Spec

-----------------------------------------------------------------------------
(* A role in a church needs a membership row there.  A row once there is    *)
(* never taken away, so what a handler has read of it before its first      *)
(* statement still holds at its last; the other handlers write the row and  *)
(* the role together.                                                       *)

NoAdminUpdate == SuperAdmins = {} /\ "adminUpdate" \notin Ops

(* The requests that give a role at a church whose row they have read.      *)
NeedsRow(r) ==
  \/ r.op \in {"approve", "removeHelper", "assign"}
  \/ r.op = "updateMember" /\ r.role # None

RoleRows ==
  \A u \in Users, x \in Roles, c \in Churches : roleUser[u][x] = c => Exists(member[u][c])

ReadRows ==
  /\ \A p \in Reqs, u \in Users, c \in Churches :
       NeedsRow(req[p]) /\ req[p].user = u /\ req[p].church = c => Exists(member[u][c])
  /\ \A p \in Reqs : req[p].op # "adminUpdate"

RowsStay ==
  \A u \in Users, c \in Churches : Exists(member[u][c]) => Exists(member'[u][c])

(* A request under way is the same request, or it has ended.                *)
GoesOn(q) ==
  \/ req'[q] = Idle
  \/ /\ req'[q].op = req[q].op /\ req'[q].user = req[q].user
     /\ req'[q].church = req[q].church /\ req'[q].role = req[q].role

LEMMA IdleNeedsNothing == ~NeedsRow(Idle) /\ Idle.op # "adminUpdate"
BY ConstantsAssumption DEF NeedsRow, Idle, AllOps

LEMMA ReadRowsKept ==
  ASSUME ReadRows, RowsStay, \A q \in Reqs : GoesOn(q)
  PROVE  ReadRows'
<1>1. \A q \in Reqs : req'[q].op # "adminUpdate"
  BY IdleNeedsNothing DEF ReadRows, GoesOn
<1>2. ASSUME NEW q \in Reqs, NEW u \in Users, NEW c \in Churches,
             NeedsRow(req'[q]), req'[q].user = u, req'[q].church = c
      PROVE  Exists(member'[u][c])
  <2>1. req'[q] # Idle
    BY <1>2, IdleNeedsNothing
  <2>2. NeedsRow(req[q]) /\ req[q].user = u /\ req[q].church = c
    BY <1>2, <2>1 DEF GoesOn, NeedsRow
  <2> QED
    BY <2>2 DEF ReadRows, RowsStay
<1> QED
  BY <1>1, <1>2 DEF ReadRows, NeedsRow, Exists

(* One request changes its pc and the like, and the others stay.            *)
LEMMA StepGoesOn ==
  ASSUME RequestsOK, NEW p \in Reqs,
         \/ Stage(p) \/ DropRoles(p) \/ GrantRole(p) \/ CountMembers(p)
         \/ WriteCount(p) \/ PutUser(p) \/ AllowRole(p) \/ Fail(p)
  PROVE  \A q \in Reqs : GoesOn(q)
<1>1. CASE Finish(p)
  BY <1>1 DEF Finish, GoesOn, RequestsOK
<1>2. ASSUME NEW x, req' = [req EXCEPT ![p].pc = x]
      PROVE  \A q \in Reqs : GoesOn(q)
  BY <1>2 DEF GoesOn, RequestsOK, Request
<1>3. ASSUME NEW x, NEW n, req' = [req EXCEPT ![p].pc = x, ![p].count = n]
      PROVE  \A q \in Reqs : GoesOn(q)
  BY <1>3 DEF GoesOn, RequestsOK, Request
<1>4. CASE Stage(p)
  BY <1>1, <1>3, <1>4 DEF Stage
<1>5. CASE CountMembers(p)
  BY <1>3, <1>5 DEF CountMembers
<1>6. CASE DropRoles(p) \/ PutUser(p) \/ AllowRole(p)
  BY <1>1, <1>2, <1>6 DEF DropRoles, PutUser, AllowRole
<1>7. CASE GrantRole(p) \/ WriteCount(p) \/ Fail(p)
  BY <1>1, <1>7 DEF GrantRole, WriteCount, Fail
<1> QED
  BY <1>4, <1>5, <1>6, <1>7

LEMMA OverGoesOn ==
  ASSUME RequestsOK, NEW p \in Reqs, Commit(p) \/ MarkRemoved(p)
  PROVE  \A q \in Reqs : GoesOn(q)
<1>1. CASE Commit(p)
  BY <1>1 DEF Commit, Settle, GoesOn, RequestsOK, Request
<1>2. CASE MarkRemoved(p)
  BY <1>2 DEF MarkRemoved, GoesOn, RequestsOK, Request
<1> QED
  BY <1>1, <1>2

(* What a transaction writes keeps the rows of its user, and every role in  *)
(* a church it leaves has a row there.                                      *)
LEMMA WritesRows ==
  ASSUME TypeOK, RoleRows, ReadRows, NEW p \in Reqs, Commit(p)
  PROVE  /\ \A c \in Churches : Exists(member[req[p].user][c]) => Exists(Writes(req[p]).rows[c])
         /\ \A x \in Roles, c \in Churches :
              Writes(req[p]).roles[x] = c => Exists(Writes(req[p]).rows[c])
<1> DEFINE r == req[p]
<1>1. /\ r.pc = "staged" /\ r.op \in InTransaction /\ r.user \in Users /\ RequestOK(r)
      /\ r.op \in AtChurch => r.church \in Churches
  BY TypeParts DEF Commit, RequestsOK, RequestOK, Idle
<1>2. r.op \in InTransaction \ {"adminUpdate"}
  BY <1>1 DEF ReadRows
<1>3. member[r.user] \in [Churches -> Row] /\ roleUser[r.user] \in [Roles -> RoleCell]
  BY <1>1 DEF TypeOK
<1>4. \A x \in Roles, c \in Churches : roleUser[r.user][x] = c => Exists(member[r.user][c])
  BY <1>1 DEF RoleRows
<1>5. r.op \in {"approve", "removeHelper"} => Exists(member[r.user][r.church])
  BY <1>1 DEF ReadRows, NeedsRow, AtChurch, AllOps
<1>6. Exists(Pending) /\ Exists(Enabled) /\ Exists(Removed)
  BY DEF Exists, Pending, Enabled, Removed
<1>7. \A c \in Churches : c # None
  BY CellFacts
<1> SUFFICES /\ \A c \in Churches : Exists(member[r.user][c]) => Exists(Writes(r).rows[c])
             /\ \A x \in Roles, c \in Churches :
                  Writes(r).roles[x] = c => Exists(Writes(r).rows[c])
  OBVIOUS
<1> HIDE DEF r
<1>8. CASE r.op \in {"register", "createUser"}
  <2>1. PICK new \in {Pending, Enabled} :
          /\ Writes(r).rows = [member[r.user] EXCEPT ![r.church] = new]
          /\ Writes(r).roles = roleUser[r.user]
    BY <1>8 DEF Writes, RegisterWrites, CreateUserWrites, Before
  <2> QED
    BY <1>3, <1>4, <1>6, <2>1
<1>9. CASE r.op \in {"createHelper", "addNew", "add"}
  <2>1. /\ Writes(r).rows = [member[r.user] EXCEPT ![r.church] = Enabled]
        /\ Writes(r).roles = [roleUser[r.user] EXCEPT ![r.role] = r.church]
    BY <1>9 DEF Writes, CreateWithRoleWrites, AddWrites, Before
  <2>2. r.church \in Churches
    BY <1>1, <1>9 DEF AtChurch, AllOps
  <2>3. Exists(Writes(r).rows[r.church])
    BY <1>3, <1>6, <2>1, <2>2
  <2>4. \A c \in Churches : Exists(member[r.user][c]) => Exists(Writes(r).rows[c])
    BY <1>3, <1>6, <2>1
  <2>5. ASSUME NEW x \in Roles, NEW c \in Churches, Writes(r).roles[x] = c
        PROVE  Exists(Writes(r).rows[c])
    <3>1. CASE c = r.church
      BY <2>3, <3>1
    <3>2. CASE c # r.church
      <4>1. roleUser[r.user][x] = c
        BY <1>3, <2>1, <2>5, <3>2
      <4> QED
        BY <1>4, <2>4, <4>1
    <3> QED
      BY <3>1, <3>2
  <2> QED
    BY <2>4, <2>5
<1>10. CASE r.op = "approve"
  <2>1. /\ Writes(r).rows = [member[r.user] EXCEPT ![r.church].status = "ACTIVE"]
        /\ Writes(r).roles = [roleUser[r.user] EXCEPT ![r.role] = r.church]
    BY <1>10 DEF Writes, ApproveWrites, Before
  <2>2. \A c \in Churches : Exists(member[r.user][c]) => Exists(Writes(r).rows[c])
    <3> SUFFICES ASSUME NEW c \in Churches, Exists(member[r.user][c])
                 PROVE  Exists(Writes(r).rows[c])
      OBVIOUS
    <3>1. CASE c = r.church
      <4>1. Writes(r).rows[c].status = "ACTIVE"
        BY <1>3, <2>1, <3>1 DEF Row
      <4> QED
        BY <4>1 DEF Exists
    <3>2. CASE c # r.church
      <4>1. Writes(r).rows[c] = member[r.user][c]
        BY <1>3, <2>1, <3>2
      <4> QED
        BY <4>1
    <3> QED
      BY <3>1, <3>2
  <2>3. ASSUME NEW x \in Roles, NEW c \in Churches, Writes(r).roles[x] = c
        PROVE  Exists(Writes(r).rows[c])
    <3>1. c = r.church \/ roleUser[r.user][x] = c
      BY <1>3, <2>1, <2>3
    <3>2. Exists(member[r.user][c])
      BY <1>4, <1>5, <1>10, <3>1
    <3> QED
      BY <2>2, <3>2
  <2> QED
    BY <2>2, <2>3
<1>11. CASE r.op = "removeHelper"
  <2>1. Writes(r).rows = member[r.user]
    BY <1>11 DEF Writes, RemoveHelperWrites, Before
  <2>2. Writes(r).roles = [x \in Roles |->
                             IF x = "CHURCH_MEMBER" THEN r.church
                             ELSE IF x = "HELPER" /\ roleUser[r.user][x] = r.church THEN None
                             ELSE roleUser[r.user][x]]
    BY <1>11 DEF Writes, RemoveHelperWrites, Before
  <2>3. ASSUME NEW x \in Roles, NEW c \in Churches, Writes(r).roles[x] = c
        PROVE  c = r.church \/ roleUser[r.user][x] = c
    BY <1>7, <2>2, <2>3
  <2> QED
    BY <1>4, <1>5, <1>11, <2>1, <2>3
<1>12. CASE r.op = "delete"
  <2>1. /\ Writes(r).rows = [c \in Churches |-> IF Exists(member[r.user][c]) THEN Removed
                                                ELSE NoMembership]
        /\ Writes(r).roles = NoRoles
    BY <1>12 DEF Writes, DeleteUserWrites
  <2>2. \A x \in Roles, c \in Churches : Writes(r).roles[x] # c
    BY <1>7, <2>1 DEF NoRoles
  <2>3. \A c \in Churches : Exists(member[r.user][c]) => Writes(r).rows[c] = Removed
    BY <2>1
  <2> QED
    BY <1>6, <2>2, <2>3
<1> QED
  BY <1>2, <1>8, <1>9, <1>10, <1>11, <1>12 DEF InTransaction

LEMMA CommitRows ==
  ASSUME TypeOK, RoleRows, ReadRows, NEW p \in Reqs, Commit(p)
  PROVE  RowsStay /\ RoleRows'
<1>1. /\ member' = [member EXCEPT ![req[p].user] = Writes(req[p]).rows]
      /\ roleUser' = [roleUser EXCEPT ![req[p].user] = Writes(req[p]).roles]
  BY DEF Commit
<1>2. member \in [Users -> [Churches -> Row]] /\ roleUser \in [Users -> [Roles -> RoleCell]]
  BY DEF TypeOK
<1>3. /\ \A c \in Churches : Exists(member[req[p].user][c]) => Exists(Writes(req[p]).rows[c])
      /\ \A x \in Roles, c \in Churches :
           Writes(req[p]).roles[x] = c => Exists(Writes(req[p]).rows[c])
  BY WritesRows
<1>4. PICK v, w : v = req[p].user /\ w = Writes(req[p])
  OBVIOUS
<1>5. ASSUME NEW u \in Users, NEW c \in Churches
      PROVE  /\ Exists(member[u][c]) => Exists(member'[u][c])
             /\ \A x \in Roles : roleUser'[u][x] = c => Exists(member'[u][c])
  <2>1. CASE u = v
    <3>1. member'[u] = w.rows /\ roleUser'[u] = w.roles
      BY <1>1, <1>2, <1>4, <2>1
    <3> QED
      BY <1>3, <1>4, <2>1, <3>1
  <2>2. CASE u # v
    <3>1. member'[u] = member[u] /\ roleUser'[u] = roleUser[u]
      BY <1>1, <1>2, <1>4, <2>2
    <3> QED
      BY <3>1 DEF RoleRows
  <2> QED
    BY <2>1, <2>2
<1>6. RowsStay
  BY <1>5 DEF RowsStay
<1>7. RoleRows'
  BY <1>5 DEF RoleRows, Exists
<1> QED
  BY <1>6, <1>7

LEMMA MarkRows ==
  ASSUME TypeOK, RoleRows, NEW p \in Reqs, MarkRemoved(p)
  PROVE  RowsStay /\ RoleRows'
<1>1. /\ member' = [member EXCEPT ![req[p].user][req[p].church] = Removed]
      /\ roleUser' = roleUser
  BY DEF MarkRemoved
<1>2. member \in [Users -> [Churches -> Row]]
  BY DEF TypeOK
<1>3. Exists(Removed)
  BY DEF Exists, Removed
<1> HIDE DEF Exists, Removed
<1>4. RowsStay
  BY <1>1, <1>2, <1>3 DEF RowsStay
<1> QED
  BY <1>1, <1>4 DEF RowsStay, RoleRows, Exists

(* A role is given at a church whose row the handler has read.              *)
LEMMA GrantRows ==
  ASSUME TypeOK, RoleRows, ReadRows, NEW p \in Reqs, GrantRole(p)
  PROVE  RoleRows'
<1>1. /\ member' = member
      /\ roleUser' = IF roleUser[req[p].user][req[p].role] # None THEN roleUser
                     ELSE [roleUser EXCEPT ![req[p].user][req[p].role] = req[p].church]
      /\ req[p].pc = "grant"
  BY DEF GrantRole
<1>2. roleUser \in [Users -> [Roles -> RoleCell]]
  BY DEF TypeOK
<1>3. NeedsRow(req[p]) /\ req[p].user \in Users
  BY <1>1, TypeParts DEF RequestsOK, RequestOK, Idle, NeedsRow
<1>4. \A c \in Churches : req[p].church = c => Exists(member[req[p].user][c])
  BY <1>3 DEF ReadRows
<1>5. ASSUME NEW u \in Users, NEW x \in Roles, NEW c \in Churches, roleUser'[u][x] = c
      PROVE  Exists(member[u][c])
  <2>1. roleUser[u][x] = c \/ (u = req[p].user /\ c = req[p].church)
    BY <1>1, <1>2, <1>5
  <2> QED
    BY <1>4, <2>1 DEF RoleRows
<1> QED
  BY <1>1, <1>5 DEF RoleRows, Exists

LEMMA DropRows ==
  ASSUME TypeOK, RoleRows, NEW p \in Reqs, DropRoles(p)
  PROVE  RoleRows'
<1>1. /\ member' = member
      /\ roleUser' = [roleUser EXCEPT ![req[p].user] = WithoutChurch(@, req[p].church)]
  BY DEF DropRoles
<1>2. roleUser \in [Users -> [Roles -> RoleCell]]
  BY DEF TypeOK
<1>3. ASSUME NEW u \in Users, NEW x \in Roles, NEW c \in Churches, roleUser'[u][x] = c
      PROVE  roleUser[u][x] = c
  BY <1>1, <1>2, <1>3, CellFacts DEF WithoutChurch
<1> QED
  BY <1>1, <1>3 DEF RoleRows, Exists

(* What a handler reads of the membership before it starts.                 *)
LEMMA ArriveRows ==
  ASSUME NoAdminUpdate, TypeOK, RoleRows, ReadRows, NEW p \in Reqs, Arrive(p)
  PROVE  RoleRows' /\ ReadRows'
<1>0. RequestsOK
  BY TypeParts
<1>1. UNCHANGED tables
  BY <1>0, ArriveType
<1>2. RoleRows'
  BY <1>1 DEF tables, RoleRows, Exists
<1>3. SUFFICES /\ req'[p].op # "adminUpdate"
               /\ \A u \in Users, c \in Churches :
                    NeedsRow(req'[p]) /\ req'[p].user = u /\ req'[p].church = c
                      => Exists(member[u][c])
               /\ \A q \in Reqs \ {p} : req'[q] = req[q]
  <2>1. \A q \in Reqs : req'[q].op # "adminUpdate"
    BY <1>3 DEF ReadRows
  <2>2. ASSUME NEW q \in Reqs, NEW u \in Users, NEW c \in Churches,
               NeedsRow(req'[q]), req'[q].user = u, req'[q].church = c
        PROVE  Exists(member[u][c])
    BY <1>3, <2>2 DEF ReadRows
  <2> QED
    BY <1>1, <1>2, <2>1, <2>2 DEF tables, ReadRows, NeedsRow, Exists
<1> USE <1>0 DEF NeedsRow, Start, RequestsOK, Idle
<1>4. CASE Register(p)
  BY <1>4 DEF Register
<1>5. CASE CreateUserByAdmin(p)
  BY <1>5 DEF CreateUserByAdmin
<1>6. CASE CreateHelper(p)
  BY <1>6 DEF CreateHelper
<1>7. CASE ApproveUser(p)
  BY <1>7 DEF ApproveUser
<1>8. CASE AddMember(p)
  BY <1>8 DEF AddMember
<1>9. CASE RemoveHelperRole(p)
  BY <1>9 DEF RemoveHelperRole, Active, Exists
<1>10. ~AdminUpdateUser(p)
  BY DEF AdminUpdateUser, NoAdminUpdate
<1>11. CASE DeleteUser(p)
  BY <1>11 DEF DeleteUser
<1>12. CASE RemoveMember(p)
  BY <1>12 DEF RemoveMember
<1>13. CASE UpdateMember(p)
  <2>1. PICK a \in Staff, u \in Users, role \in Roles \cup {None},
             status \in {"ACTIVE", "SUSPENDED", None} :
          \E home \in StatusActiveAt(u) : Start(p, MemberUpdate(a, u, home, role, status))
    BY <1>13 DEF UpdateMember, NoAdminUpdate
  <2>2. PICK home \in StatusActiveAt(u) : Start(p, MemberUpdate(a, u, home, role, status))
    BY <2>1
  <2>3. home \in Churches /\ Exists(member[u][home])
    BY DEF StatusActiveAt, Exists
  <2> QED
    BY <2>2, <2>3 DEF MemberUpdate
<1>14. CASE AssignRole(p)
  BY <1>14 DEF AssignRole, Active, Exists, ActiveChurches
<1>15. CASE RemoveRole(p)
  BY <1>15 DEF RemoveRole
<1>16. CASE UpdateUserStatus(p)
  BY <1>16 DEF UpdateUserStatus
<1> QED
  BY <1>4, <1>5, <1>6, <1>7, <1>8, <1>9, <1>10, <1>11, <1>12, <1>13, <1>14, <1>15,
     <1>16 DEF Arrive

RowsInv == TypeOK /\ (NoAdminUpdate => RoleRows /\ ReadRows)

LEMMA RowsInvInit == Init => RowsInv
<1> SUFFICES ASSUME Init
             PROVE  RowsInv
  OBVIOUS
<1>1. TypeOK
  BY InitType
<1>2. ASSUME NEW u \in Users, NEW x \in Roles, NEW c \in Churches, roleUser[u][x] = c
      PROVE  Exists(member[u][c])
  <2>1. c \in SeedRole(u, x)
    BY <1>2, CellFacts DEF Init
  <2>2. SeedMember(u, c)
    BY <2>1 DEF SeedRole, SeedMember
  <2>3. member[u][c] = Enabled
    BY <2>2 DEF Init
  <2> QED
    BY <2>3 DEF Exists, Enabled
<1>3. \A p \in Reqs : req[p] = Idle
  BY DEF Init
<1> QED
  BY <1>1, <1>2, <1>3, IdleNeedsNothing DEF RowsInv, RoleRows, ReadRows

LEMMA RowsInvNext == RowsInv /\ [Next]_vars => RowsInv'
<1> SUFFICES ASSUME RowsInv, [Next]_vars
             PROVE  RowsInv'
  OBVIOUS
<1>1. TypeOK /\ RequestsOK /\ TypeOK'
  BY NextType, TypeParts DEF RowsInv
<1>2. ASSUME NoAdminUpdate
      PROVE  RoleRows' /\ ReadRows'
  <2>1. RoleRows /\ ReadRows
    BY <1>2 DEF RowsInv
  <2>2. ASSUME NEW p \in Reqs, Arrive(p)
        PROVE  RoleRows' /\ ReadRows'
    BY <1>1, <1>2, <2>1, <2>2, ArriveRows
  <2>3. ASSUME NEW p \in Reqs, Commit(p) \/ MarkRemoved(p)
        PROVE  RoleRows' /\ ReadRows'
    <3>1. RowsStay /\ RoleRows'
      BY <1>1, <2>1, <2>3, CommitRows, MarkRows
    <3>2. \A q \in Reqs : GoesOn(q)
      BY <1>1, <2>3, OverGoesOn
    <3> QED
      BY <2>1, <3>1, <3>2, ReadRowsKept
  <2>4. ASSUME NEW p \in Reqs,
               \/ Stage(p) \/ DropRoles(p) \/ GrantRole(p) \/ CountMembers(p)
               \/ WriteCount(p) \/ PutUser(p) \/ AllowRole(p) \/ Fail(p)
        PROVE  RoleRows' /\ ReadRows'
    <3>1. member' = member
      BY <2>4 DEF Stage, DropRoles, GrantRole, CountMembers, WriteCount, PutUser, AllowRole,
                  Fail, tables
    <3>2. RowsStay
      BY <3>1 DEF RowsStay
    <3>3. \A q \in Reqs : GoesOn(q)
      BY <1>1, <2>4, StepGoesOn
    <3>4. CASE GrantRole(p) \/ DropRoles(p)
      BY <1>1, <2>1, <3>2, <3>3, <3>4, GrantRows, DropRows, ReadRowsKept
    <3>5. CASE UNCHANGED roleUser
      BY <2>1, <3>1, <3>2, <3>3, <3>5, ReadRowsKept DEF RoleRows, Exists
    <3> QED
      BY <2>4, <3>4, <3>5 DEF Stage, CountMembers, WriteCount, PutUser, AllowRole, Fail, tables
  <2>5. CASE UNCHANGED vars
    BY <2>1, <2>5 DEF vars, RoleRows, ReadRows, NeedsRow, Exists
  <2> QED
    BY <2>2, <2>3, <2>4, <2>5 DEF Next, Step
<1> QED
  BY <1>1, <1>2 DEF RowsInv, NoAdminUpdate

(* Nobody holds a role in a church without a membership row there, removed  *)
(* or not: the services of a church ask for the row or write it with the    *)
(* role, and no service takes a row away, so it is still there when         *)
(* roleUser.create runs, however many requests overlap or die.              *)
THEOREM RolesHaveRows == Spec => []RoleNeedsMembershipRow
<1>1. RowsInv => RoleNeedsMembershipRow
  BY DEF RowsInv, RoleNeedsMembershipRow, NoAdminUpdate, RoleRows
<1> QED
  BY <1>1, RowsInvInit, RowsInvNext, PTL DEF Spec

-----------------------------------------------------------------------------
(* What the operations have read of their user and row when they begin.     *)

New == {"register", "createUser", "createHelper", "addNew"}
OfAccount == {"approve", "add", "adminUpdate", "delete", "remove", "updateMember", "setStatus"}

Knows(r) ==
  /\ r.op \in New => ~Present(r.user)
  /\ r.op \in OfAccount => Present(r.user)
  /\ r.op \in OfAccount \ {"add"} => ~users[r.user].deleted
  /\ r.op = "approve" => Exists(member[r.user][r.church]) /\ ~member[r.user][r.church].deleted
  /\ r.op \in {"removeHelper", "assign", "removeRole"} => Active(member[r.user][r.church])
  /\ r.op = "remove" /\ r.pc = "mark" => member[r.user][r.church].status = "ACTIVE"

Fresh(r) == /\ ~r.stale /\ r.op \in Ops
            /\ r.pc = IF r.op \in InTransaction THEN "open"
                      ELSE IF r.op = "remove" THEN "mark"
                      ELSE IF r.op \in {"updateMember", "setStatus"} THEN "put"
                      ELSE "drop"

LEMMA ArriveKnows ==
  ASSUME TypeOK, NEW p \in Reqs, Arrive(p)
  PROVE  /\ Knows(req'[p]) /\ Fresh(req'[p])
         /\ \A q \in Reqs \ {p} : req'[q] = req[q]
<1>0. RequestsOK
  BY TypeParts
<1> USE <1>0 DEF Start, RequestsOK, Idle, Knows, Fresh, New, OfAccount, InTransaction,
                 Live, Exists, Active
<1>1. CASE Register(p)
  BY <1>1 DEF Register
<1>2. CASE CreateUserByAdmin(p)
  BY <1>2 DEF CreateUserByAdmin
<1>3. CASE CreateHelper(p)
  BY <1>3 DEF CreateHelper
<1>4. CASE ApproveUser(p)
  BY <1>4 DEF ApproveUser
<1>5. CASE AddMember(p)
  BY <1>5 DEF AddMember
<1>6. CASE RemoveHelperRole(p)
  BY <1>6 DEF RemoveHelperRole
<1>7. CASE AdminUpdateUser(p)
  BY <1>7 DEF AdminUpdateUser, AdminUpdate
<1>8. CASE DeleteUser(p)
  BY <1>8 DEF DeleteUser
<1>9. CASE RemoveMember(p)
  BY <1>9 DEF RemoveMember, StatusActiveAt
<1>10. CASE UpdateMember(p)
  BY <1>10 DEF UpdateMember, MemberUpdate
<1>11. CASE AssignRole(p)
  BY <1>11 DEF AssignRole, ActiveChurches
<1>12. CASE RemoveRole(p)
  BY <1>12 DEF RemoveRole, ActiveChurches
<1>13. CASE UpdateUserStatus(p)
  BY <1>13 DEF UpdateUserStatus
<1> QED
  BY <1>1, <1>2, <1>3, <1>4, <1>5, <1>6, <1>7, <1>8, <1>9, <1>10, <1>11, <1>12,
     <1>13 DEF Arrive

(* What a transaction writes, column by column.                             *)
LEMMA WrittenRows ==
  ASSUME TypeOK, NEW r, RequestOK(r), r.op \in InTransaction
  PROVE  /\ r.op = "register" =>
              Writes(r).rows = [member[r.user] EXCEPT ![r.church] = Pending]
         /\ r.op \in {"createUser", "createHelper", "addNew", "add"} =>
              Writes(r).rows = [member[r.user] EXCEPT ![r.church] = Enabled]
         /\ r.op = "approve" =>
              Writes(r).rows = [member[r.user] EXCEPT ![r.church].status = "ACTIVE"]
         /\ r.op = "removeHelper" => Writes(r).rows = member[r.user]
         /\ r.op = "adminUpdate" =>
              \/ Writes(r).rows = member[r.user]
              \/ /\ r.church \in Churches /\ ~Exists(member[r.user][r.church])
                 /\ Writes(r).rows = [member[r.user] EXCEPT ![r.church] = Enabled]
         /\ r.op = "delete" =>
              Writes(r).rows = [c \in Churches |-> IF Exists(member[r.user][c])
                                                   THEN Removed ELSE NoMembership]
<1>1. r.op = "register" => Writes(r).rows = [member[r.user] EXCEPT ![r.church] = Pending]
  BY DEF Writes, RegisterWrites, Before
<1>2. r.op \in {"createUser", "createHelper", "addNew", "add"} =>
        Writes(r).rows = [member[r.user] EXCEPT ![r.church] = Enabled]
  BY DEF Writes, CreateUserWrites, CreateWithRoleWrites, AddWrites, Before
<1>3. r.op = "approve" =>
        Writes(r).rows = [member[r.user] EXCEPT ![r.church].status = "ACTIVE"]
  BY DEF Writes, ApproveWrites, Before
<1>4. r.op = "removeHelper" => Writes(r).rows = member[r.user]
  BY DEF Writes, RemoveHelperWrites, Before
<1>5. ASSUME r.op = "adminUpdate"
      PROVE  \/ Writes(r).rows = member[r.user]
             \/ /\ r.church \in Churches /\ ~Exists(member[r.user][r.church])
                /\ Writes(r).rows = [member[r.user] EXCEPT ![r.church] = Enabled]
  <2>1. r.join => r.church \in Churches
    BY DEF RequestOK, Idle
  <2>2. Writes(r) = AdminUpdateWrites(r)
    BY <1>5 DEF Writes
  <2> QED
    BY <2>1, <2>2 DEF AdminUpdateWrites
<1>6. r.op = "delete" =>
        Writes(r).rows = [c \in Churches |-> IF Exists(member[r.user][c])
                                             THEN Removed ELSE NoMembership]
  BY DEF Writes, DeleteUserWrites
<1> QED
  BY <1>1, <1>2, <1>3, <1>4, <1>5, <1>6

LEMMA WrittenAccount ==
  ASSUME TypeOK, NEW r, RequestOK(r), r.op \in InTransaction
  PROVE  /\ r.op = "register" => Writes(r).account = Pending
         /\ r.op \in {"createUser", "createHelper", "addNew"} => Writes(r).account = Enabled
         /\ r.op = "approve" =>
              Writes(r).account = [users[r.user] EXCEPT !.status = "ACTIVE"]
         /\ r.op \in {"add", "removeHelper"} => Writes(r).account = users[r.user]
         /\ r.op = "adminUpdate" =>
              \/ Writes(r).account = users[r.user]
              \/ /\ r.status \in UserStatus
                 /\ Writes(r).account = [users[r.user] EXCEPT !.status = r.status]
         /\ r.op = "delete" =>
              Writes(r).account = [status |-> "SUSPENDED", deleted |-> TRUE]
<1>1. r.op = "register" => Writes(r).account = Pending
  BY DEF Writes, RegisterWrites, Before
<1>2. r.op \in {"createUser", "createHelper", "addNew"} => Writes(r).account = Enabled
  BY DEF Writes, CreateUserWrites, CreateWithRoleWrites, Before
<1>3. r.op = "approve" => Writes(r).account = [users[r.user] EXCEPT !.status = "ACTIVE"]
  BY DEF Writes, ApproveWrites, Before
<1>4. r.op \in {"add", "removeHelper"} => Writes(r).account = users[r.user]
  BY DEF Writes, AddWrites, RemoveHelperWrites, Before
<1>5. ASSUME r.op = "adminUpdate"
      PROVE  \/ Writes(r).account = users[r.user]
             \/ /\ r.status \in UserStatus
                /\ Writes(r).account = [users[r.user] EXCEPT !.status = r.status]
  <2>1. r.status \in UserStatus \cup {None}
    BY <1>5, RequestOKType DEF Request
  <2>2. Writes(r) = AdminUpdateWrites(r)
    BY <1>5 DEF Writes
  <2> QED
    BY <2>1, <2>2 DEF AdminUpdateWrites
<1>6. r.op = "delete" => Writes(r).account = [status |-> "SUSPENDED", deleted |-> TRUE]
  BY DEF Writes, DeleteUserWrites
<1> QED
  BY <1>1, <1>2, <1>3, <1>4, <1>5, <1>6

LEMMA WrittenRoles ==
  ASSUME NEW r, r.op \in InTransaction
  PROVE  /\ r.op \in {"register", "createUser"} => Writes(r).roles = roleUser[r.user]
         /\ r.op \in {"createHelper", "addNew", "approve", "add"} =>
              Writes(r).roles = [roleUser[r.user] EXCEPT ![r.role] = r.church]
         /\ r.op = "removeHelper" =>
              Writes(r).roles = [x \in Roles |->
                IF x = "CHURCH_MEMBER" THEN r.church
                ELSE IF x = "HELPER" /\ roleUser[r.user][x] = r.church THEN None
                ELSE roleUser[r.user][x]]
         /\ r.op = "delete" => Writes(r).roles = NoRoles
<1>1. r.op \in {"register", "createUser"} => Writes(r).roles = roleUser[r.user]
  BY DEF Writes, RegisterWrites, CreateUserWrites, Before
<1>2. r.op \in {"createHelper", "addNew", "approve", "add"} =>
        Writes(r).roles = [roleUser[r.user] EXCEPT ![r.role] = r.church]
  BY DEF Writes, CreateWithRoleWrites, ApproveWrites, AddWrites, Before
<1>3. r.op = "removeHelper" =>
        Writes(r).roles = [x \in Roles |->
          IF x = "CHURCH_MEMBER" THEN r.church
          ELSE IF x = "HELPER" /\ roleUser[r.user][x] = r.church THEN None
          ELSE roleUser[r.user][x]]
  BY DEF Writes, RemoveHelperWrites, Before
<1>4. r.op = "delete" => Writes(r).roles = NoRoles
  BY DEF Writes, DeleteUserWrites
<1> QED
  BY <1>1, <1>2, <1>3, <1>4

-----------------------------------------------------------------------------
(* The row locks: no two transactions past their statements have the same   *)
(* user, and nobody else touches the account or the rows of their user.     *)

Locks ==
  \A p, q \in Reqs : req[p].pc = "staged" /\ req[q].pc = "staged" /\ p # q
                     => req[p].user # req[q].user

(* Another request's step changes nothing of a request but its history.     *)
Alike(s, r) ==
  /\ s.pc = r.pc /\ s.op = r.op /\ s.by = r.by /\ s.user = r.user /\ s.church = r.church
  /\ s.role = r.role /\ s.status = r.status /\ s.count = r.count

LEMMA OthersAlike ==
  ASSUME RequestsOK, NEW p \in Reqs, Step(p) \/ Fail(p), NEW q \in Reqs \ {p}
  PROVE  Alike(req'[q], req[q])
<1>1. CASE Commit(p)
  BY <1>1 DEF Commit, Settle, Alike, RequestsOK, Request
<1>2. CASE MarkRemoved(p)
  BY <1>2 DEF MarkRemoved, Alike, RequestsOK, Request
<1>3. CASE Stage(p) \/ Fail(p)
  BY <1>3 DEF Stage, Fail, Finish, Alike, RequestsOK
<1>4. CASE DropRoles(p) \/ GrantRole(p) \/ CountMembers(p)
  BY <1>4 DEF DropRoles, GrantRole, CountMembers, Finish, Alike, RequestsOK
<1>5. CASE WriteCount(p) \/ PutUser(p) \/ AllowRole(p)
  BY <1>5 DEF WriteCount, PutUser, AllowRole, Finish, Alike, RequestsOK
<1> QED
  BY <1>1, <1>2, <1>3, <1>4, <1>5 DEF Step

(* What a request becomes by a step of its own: it ends, or it goes on with *)
(* what it knew, its count being set by Stage and CountMembers only.        *)
Own(s, r) ==
  /\ s.op = r.op /\ s.by = r.by /\ s.user = r.user /\ s.church = r.church
  /\ s.role = r.role /\ s.status = r.status

LEMMA OwnStep ==
  ASSUME RequestsOK, NEW p \in Reqs, Step(p) \/ Fail(p)
  PROVE  \/ req'[p] = Idle
         \/ /\ Stage(p) /\ ~Refused(req[p]) /\ Own(req'[p], req[p])
            /\ req'[p].pc = "staged" /\ req'[p].stale = req[p].stale
            /\ req'[p].count = IF req[p].op \in Recounts THEN CountInside(req[p]) ELSE 0
         \/ /\ CountMembers(p) /\ Own(req'[p], req[p])
            /\ req'[p].pc = "write" /\ req'[p].stale = req[p].stale
            /\ req'[p].count = ActiveCount(req[p].church)
         \/ /\ MarkRemoved(p) \/ DropRoles(p) \/ PutUser(p) \/ AllowRole(p)
            /\ NextPc(req[p], req'[p].pc) /\ Own(req'[p], req[p])
            /\ req'[p].stale = req[p].stale
<1>1. CASE Finish(p) \/ Commit(p)
  BY <1>1 DEF Finish, Commit, Settle, RequestsOK
<1>2. CASE Stage(p) /\ ~Refused(req[p])
  BY <1>2 DEF Stage, Own, RequestsOK, Request
<1>3. CASE CountMembers(p)
  BY <1>3 DEF CountMembers, Own, RequestsOK, Request
<1>4. CASE MarkRemoved(p)
  BY <1>4 DEF MarkRemoved, NextPc, Own, RequestsOK, Request
<1>5. CASE DropRoles(p) /\ ~Finish(p)
  BY <1>5 DEF DropRoles, NextPc, Own, RequestsOK, Request
<1>6. CASE PutUser(p) /\ ~Finish(p)
  BY <1>6 DEF PutUser, NextPc, Own, RequestsOK, Request
<1>7. CASE AllowRole(p) /\ ~Finish(p)
  BY <1>7 DEF AllowRole, NextPc, Own, RequestsOK, Request
<1> QED
  BY <1>1, <1>2, <1>3, <1>4, <1>5, <1>6, <1>7 DEF Step, Stage, GrantRole, WriteCount, Fail

LEMMA NextPcNames ==
  ASSUME NEW r, RequestOK(r), NEW x, NextPc(r, x)
  PROVE  x \in {"drop", "count", "grant", "allow"} /\ r.pc \in {"mark", "drop", "put", "allow"}
         /\ (x = "count" => r.pc = "drop" /\ r.op = "remove")
<1>1. r # Idle
  BY DEF NextPc, Idle
<1> QED
  BY <1>1 DEF NextPc, RequestOK, AfterDrop

LEMMA IdlePc == Idle.pc = "idle" /\ Idle.op \notin AllOps /\ ~Idle.stale
BY ConstantsAssumption DEF Idle

LEMMA LocksStep ==
  ASSUME RequestsOK, Locks, NEW p \in Reqs, Step(p) \/ Fail(p)
  PROVE  Locks'
<1>1. \A q \in Reqs \ {p} : req'[q].pc = req[q].pc /\ req'[q].user = req[q].user
  BY OthersAlike DEF Alike
<1>2. \/ req'[p].pc # "staged"
      \/ \A q \in Reqs \ {p} : req[q].pc = "staged" => req[q].user # req'[p].user
  <2>1. Stage(p) => ~Locked(p, req[p].user)
    BY DEF Stage
  <2>2. Stage(p) /\ Own(req'[p], req[p]) =>
          \A q \in Reqs \ {p} : req[q].pc = "staged" => req[q].user # req'[p].user
    BY <2>1 DEF Locked, Own
  <2>3. NextPc(req[p], req'[p].pc) => req'[p].pc # "staged"
    BY NextPcNames DEF RequestsOK
  <2> QED
    BY <2>2, <2>3, OwnStep, IdlePc
<1> QED
  BY <1>1, <1>2 DEF Locks

LEMMA LockHolds ==
  ASSUME TypeOK, Locks, NEW p \in Reqs, Step(p) \/ Fail(p),
         NEW q \in Reqs \ {p}, req[q].pc = "staged"
  PROVE  users'[req[q].user] = users[req[q].user] /\ member'[req[q].user] = member[req[q].user]
<1>0. users \in [Users -> Account] /\ member \in [Users -> [Churches -> Row]]
  BY DEF TypeOK
<1>1. CASE UNCHANGED <<users, member>>
  BY <1>1
<1>2. CASE Commit(p)
  BY <1>0, <1>2 DEF Commit, Locks
<1>3. CASE MarkRemoved(p)
  BY <1>0, <1>3 DEF MarkRemoved, Locked
<1>4. CASE PutUser(p)
  BY <1>0, <1>4 DEF PutUser, Locked
<1> QED
  BY <1>1, <1>2, <1>3, <1>4
     DEF Step, Stage, DropRoles, GrantRole, CountMembers, WriteCount, AllowRole, Fail, tables

-----------------------------------------------------------------------------
(* A church never claims more members than it has rows.                     *)

RowUsers(c) == {u \in Users : Exists(member[u][c])}
RowsAndUser(r) == RowUsers(r.church) \cup {r.user}

RowsPresent == \A u \in Users, c \in Churches : Exists(member[u][c]) => Present(u)

(* A count computed and not yet written is covered by rows that are there,  *)
(* with the row its own transaction is about to write.                      *)
CountReq(r) ==
  /\ r.op \in OfAccount => Present(r.user)
  /\ r.pc = "staged" /\ r.op \in New => ~Present(r.user)
  /\ r.pc = "staged" /\ r.op \in Recounts => r.count <= Cardinality(RowsAndUser(r))
  /\ r.pc = "write" => r.count <= Cardinality(RowUsers(r.church))

CountInv ==
  /\ TypeOK /\ Locks /\ RowsPresent /\ CountWithinRows
  /\ \A p \in Reqs : CountReq(req[p])

LEMMA RowUsersFinite ==
  ASSUME NEW c
  PROVE  RowUsers(c) \subseteq Users /\ IsFiniteSet(RowUsers(c)) /\ Cardinality(RowUsers(c)) \in Nat
BY FS_Subset, FS_CardinalityType, ConstantsAssumption DEF RowUsers

LEMMA FewerUsers ==
  ASSUME NEW S, NEW T, S \subseteq T, T \subseteq Users
  PROVE  Cardinality(S) <= Cardinality(T) /\ Cardinality(S) \in Nat /\ Cardinality(T) \in Nat
BY FS_Subset, FS_CardinalityType, ConstantsAssumption

(* The tables of a step: rows and accounts are not taken away, and a new    *)
(* row has an account.                                                      *)
PresentStay == \A u \in Users : Present(u) => users'[u].status # "NONE"

LEMMA CommitExists ==
  ASSUME TypeOK, NEW r, RequestOK(r), r.op \in InTransaction, r.user \in Users,
         RowsPresent, CountReq(r), r.pc = "staged"
  PROVE  /\ \A c \in Churches : Exists(member[r.user][c]) => Exists(Writes(r).rows[c])
         /\ r.op \in Recounts \cup {"createHelper"} => Exists(Writes(r).rows[r.church])
         /\ Present(r.user) => Writes(r).account.status # "NONE"
         /\ \A c \in Churches : Exists(Writes(r).rows[c]) => Writes(r).account.status # "NONE"
<1>1. member[r.user] \in [Churches -> Row] /\ users[r.user] \in Account
  BY DEF TypeOK
<1>2. r.op \in AtChurch => r.church \in Churches
  BY IdleOK DEF RequestOK, Idle, InTransaction
<1>3. /\ Exists(Pending) /\ Exists(Enabled) /\ Exists(Removed)
      /\ Pending.status # "NONE" /\ Enabled.status # "NONE" /\ ~Exists(NoMembership)
  BY DEF Exists, Pending, Enabled, Removed, NoMembership
<1>4. \A c \in Churches : Exists(member[r.user][c]) => Present(r.user)
  BY DEF RowsPresent
<1>5. r.op \in OfAccount => Present(r.user)
  BY DEF CountReq
<1>6. CASE r.op \in New \cup {"add"}
  <2>1. PICK new \in {Pending, Enabled} :
          Writes(r).rows = [member[r.user] EXCEPT ![r.church] = new]
    BY <1>6, WrittenRows DEF New
  <2>2. r.church \in Churches
    BY <1>2, <1>6 DEF AtChurch, AllOps, New
  <2>3. /\ Exists(Writes(r).rows[r.church])
        /\ \A c \in Churches : Exists(member[r.user][c]) => Exists(Writes(r).rows[c])
    BY <1>1, <1>3, <2>1, <2>2
  <2>4. Writes(r).account.status # "NONE"
    BY <1>3, <1>5, <1>6, WrittenAccount DEF New, OfAccount, Present
  <2> QED
    BY <2>3, <2>4
<1>7. CASE r.op = "approve"
  <2>1. /\ Writes(r).rows = [member[r.user] EXCEPT ![r.church].status = "ACTIVE"]
        /\ Writes(r).account = [users[r.user] EXCEPT !.status = "ACTIVE"]
    BY <1>7, WrittenRows, WrittenAccount
  <2>2. r.church \in Churches
    BY <1>2, <1>7 DEF AtChurch, AllOps
  <2>3. /\ Writes(r).rows[r.church].status = "ACTIVE"
        /\ \A c \in Churches \ {r.church} : Writes(r).rows[c] = member[r.user][c]
    BY <1>1, <2>1, <2>2 DEF Row
  <2>4. \A c \in Churches : Exists(member[r.user][c]) => Exists(Writes(r).rows[c])
    BY <2>3 DEF Exists
  <2>5. Writes(r).account.status # "NONE"
    BY <1>1, <2>1 DEF Account
  <2> QED
    BY <2>3, <2>4, <2>5 DEF Exists
<1>8. CASE r.op = "removeHelper"
  <2>1. Writes(r).rows = member[r.user] /\ Writes(r).account = users[r.user]
    BY <1>8, WrittenRows, WrittenAccount
  <2> QED
    BY <1>4, <1>8, <2>1 DEF Recounts, Present
<1>9. CASE r.op = "adminUpdate"
  <2>1. \/ Writes(r).rows = member[r.user]
        \/ r.church \in Churches /\ Writes(r).rows = [member[r.user] EXCEPT ![r.church] = Enabled]
    BY <1>9, WrittenRows
  <2>2. \A c \in Churches : Exists(member[r.user][c]) => Exists(Writes(r).rows[c])
    BY <1>1, <1>3, <2>1
  <2>3. Writes(r).account.status # "NONE"
    <3>1. users[r.user].status # "NONE"
      BY <1>5, <1>9 DEF OfAccount, Present
    <3>2. CASE Writes(r).account = users[r.user]
      BY <3>1, <3>2
    <3>3. CASE /\ r.status \in UserStatus
               /\ Writes(r).account = [users[r.user] EXCEPT !.status = r.status]
      BY <1>1, <3>3 DEF Account, UserStatus
    <3> QED
      BY <1>9, <3>2, <3>3, WrittenAccount
  <2> QED
    BY <1>9, <2>2, <2>3 DEF Recounts
<1>10. CASE r.op = "delete"
  <2>1. Writes(r).rows = [c \in Churches |-> IF Exists(member[r.user][c])
                                             THEN Removed ELSE NoMembership]
    BY <1>10, WrittenRows
  <2>2. Writes(r).account = [status |-> "SUSPENDED", deleted |-> TRUE]
    BY <1>10, WrittenAccount
  <2>3. Writes(r).account.status # "NONE"
    BY <2>2
  <2> QED
    BY <1>3, <1>10, <2>1, <2>3 DEF Recounts
<1> QED
  BY <1>6, <1>7, <1>8, <1>9, <1>10 DEF InTransaction, New

LEMMA TablesStep ==
  ASSUME CountInv, NEW p \in Reqs, Step(p) \/ Fail(p)
  PROVE  RowsStay /\ PresentStay /\ RowsPresent'
<1>0. /\ TypeOK /\ RowsPresent /\ CountReq(req[p])
      /\ users \in [Users -> Account] /\ member \in [Users -> [Churches -> Row]]
  BY DEF CountInv, TypeOK
<1>1. RequestsOK
  BY <1>0, TypeParts
<1>2. CASE UNCHANGED <<users, member>>
  BY <1>0, <1>2 DEF RowsStay, PresentStay, RowsPresent, Present, Exists
<1>3. CASE Commit(p)
  <2>1. /\ RequestOK(req[p]) /\ req[p].op \in InTransaction /\ req[p].user \in Users
        /\ req[p].pc = "staged"
    BY <1>1, <1>3, IdleOK DEF Commit, RequestsOK, RequestOK, Idle
  <2>2. /\ users' = [users EXCEPT ![req[p].user] = Writes(req[p]).account]
        /\ member' = [member EXCEPT ![req[p].user] = Writes(req[p]).rows]
    BY <1>3 DEF Commit
  <2> DEFINE r == req[p]
             w == Writes(r)
  <2>3. /\ \A c \in Churches : Exists(member[r.user][c]) => Exists(w.rows[c])
        /\ Present(r.user) => w.account.status # "NONE"
        /\ \A c \in Churches : Exists(w.rows[c]) => w.account.status # "NONE"
    BY <1>0, <2>1, CommitExists
  <2> HIDE DEF r, w
  <2>4. users' = [users EXCEPT ![r.user] = w.account] /\ member' = [member EXCEPT ![r.user] = w.rows]
        /\ r.user \in Users
    BY <2>1, <2>2 DEF r, w
  <2>5. \A u \in Users : /\ users'[u] = IF u = r.user THEN w.account ELSE users[u]
                         /\ member'[u] = IF u = r.user THEN w.rows ELSE member[u]
    BY <1>0, <2>4
  <2> QED
    BY <1>0, <2>3, <2>5 DEF RowsStay, PresentStay, RowsPresent, Present, Exists
<1>4. CASE MarkRemoved(p)
  <2>1. /\ member' = [member EXCEPT ![req[p].user][req[p].church] = Removed]
        /\ users' = users /\ Present(req[p].user) /\ Exists(Removed)
    <3>1. req[p].op = "remove"
      BY <1>1, <1>4 DEF MarkRemoved, RequestsOK, RequestOK, Idle
    <3> QED
      BY <1>0, <1>4, <3>1 DEF MarkRemoved, CountReq, OfAccount, Exists, Removed
  <2> HIDE DEF Removed
  <2>2. RowsStay
    BY <1>0, <2>1 DEF RowsStay, Exists
  <2>3. \A u \in Users, c \in Churches : Exists(member'[u][c]) => Present(u)
    BY <1>0, <2>1 DEF RowsPresent
  <2> QED
    BY <2>1, <2>2, <2>3 DEF RowsPresent, PresentStay, Present, Exists
<1>5. CASE PutUser(p)
  <2>1. member' = member
    BY <1>5 DEF PutUser
  <2>2. req[p].status \in UserStatus \cup {None}
    BY <1>1 DEF RequestsOK, Request
  <2>3. \A u \in Users : users'[u].status # "NONE" \/ users'[u] = users[u]
    BY <1>0, <1>5, <2>2 DEF PutUser, Account, UserStatus
  <2>4. \A u \in Users : Present(u) => users'[u].status # "NONE"
    BY <2>3 DEF Present
  <2> QED
    BY <1>0, <2>1, <2>4 DEF RowsStay, PresentStay, RowsPresent, Present, Exists
<1> QED
  BY <1>2, <1>3, <1>4, <1>5
     DEF Step, Stage, DropRoles, GrantRole, CountMembers, WriteCount, AllowRole, Fail, tables

LEMMA CountedUsers ==
  ASSUME NEW r, NEW c
  PROVE  /\ CountInside(r) <= Cardinality(RowsAndUser(r)) \/ r.user \notin Users
         /\ ActiveCount(c) <= Cardinality(RowUsers(c))
<1>1. \A row : Active(row) => Exists(row)
  BY DEF Active, Exists
<1>2. ActiveMembers(c) \subseteq RowUsers(c) /\ RowUsers(c) \subseteq Users
  BY <1>1 DEF ActiveMembers, RowUsers
<1>3. ASSUME r.user \in Users
      PROVE  CountInside(r) <= Cardinality(RowsAndUser(r))
  <2> DEFINE S == {u \in Users : Active(IF u = r.user THEN Writes(r).rows[r.church]
                                        ELSE member[u][r.church])}
  <2>1. S \subseteq RowsAndUser(r) /\ RowsAndUser(r) \subseteq Users
    BY <1>1, <1>3 DEF RowsAndUser, RowUsers
  <2> QED
    BY <2>1, FewerUsers DEF CountInside
<1> QED
  BY <1>2, <1>3, FewerUsers DEF ActiveCount

(* Rows that stay keep a count covered.                                     *)
NextRowUsers(c) == {u \in Users : Exists(member'[u][c])}

LEMMA CoverStays ==
  ASSUME RowsStay, NEW c \in Churches, NEW u \in Users
  PROVE  /\ Cardinality(RowUsers(c)) <= Cardinality(NextRowUsers(c))
         /\ Cardinality(RowUsers(c) \cup {u}) <= Cardinality(NextRowUsers(c) \cup {u})
         /\ Cardinality(RowUsers(c)) \in Nat /\ Cardinality(NextRowUsers(c)) \in Nat
         /\ Cardinality(RowUsers(c) \cup {u}) \in Nat
         /\ Cardinality(NextRowUsers(c) \cup {u}) \in Nat
<1>1. RowUsers(c) \subseteq NextRowUsers(c) /\ NextRowUsers(c) \subseteq Users
  BY DEF RowsStay, RowUsers, NextRowUsers
<1>2. RowUsers(c) \cup {u} \subseteq NextRowUsers(c) \cup {u} /\ NextRowUsers(c) \cup {u} \subseteq Users
  BY <1>1
<1> QED
  BY <1>1, <1>2, FewerUsers

LEMMA RequestNames ==
  ASSUME NEW r, RequestOK(r), r # Idle
  PROVE  /\ r.user \in Users /\ r.op \in AllOps /\ r \in Request
         /\ r.pc = "staged" => r.op \in InTransaction
         /\ r.op \in Recounts \cup {"createHelper"} => r.church \in Churches
         /\ r.pc \in {"mark", "count", "write"} => r.church \in Churches /\ r.op = "remove"
BY DEF RequestOK, Recounts, AtChurch, AllOps

LEMMA OthersCount ==
  ASSUME CountInv, NEW p \in Reqs, Step(p) \/ Fail(p), NEW q \in Reqs \ {p}
  PROVE  CountReq(req[q])'
<1>1. TypeOK /\ RequestsOK /\ Locks /\ RequestOK(req[q]) /\ CountReq(req[q])
  BY TypeParts DEF CountInv, RequestsOK
<1>2. Alike(req'[q], req[q])
  BY <1>1, OthersAlike
<1>3. RowsStay /\ PresentStay
  BY TablesStep
<1>4. CASE req[q] = Idle
  BY <1>2, <1>4, IdlePc DEF Alike, CountReq, OfAccount, AllOps
<1>5. CASE req[q] # Idle
  <2>1. req[q].user \in Users
    BY <1>1, <1>5, RequestNames
  <2>2. req[q].op \in OfAccount => users'[req[q].user].status # "NONE"
    BY <1>1, <1>3, <2>1 DEF CountReq, PresentStay
  <2>3. req[q].pc = "staged" /\ req[q].op \in New => ~(users'[req[q].user].status # "NONE")
    BY <1>1, LockHolds DEF CountReq, Present
  <2>4. ASSUME req[q].pc = "staged", req[q].op \in Recounts
        PROVE  req[q].count <= Cardinality(NextRowUsers(req[q].church) \cup {req[q].user})
    <3>1. req[q].church \in Churches /\ req[q].count \in Nat
      BY <1>1, <1>5, <2>4, RequestNames DEF Request
    <3>2. req[q].count <= Cardinality(RowUsers(req[q].church) \cup {req[q].user})
      BY <1>1, <2>4 DEF CountReq, RowsAndUser
    <3>3. PICK c \in Churches, u \in Users, n \in Nat :
             c = req[q].church /\ u = req[q].user /\ n = req[q].count
      BY <2>1, <3>1
    <3>4. /\ Cardinality(RowUsers(c) \cup {u}) <= Cardinality(NextRowUsers(c) \cup {u})
          /\ Cardinality(RowUsers(c) \cup {u}) \in Nat
          /\ Cardinality(NextRowUsers(c) \cup {u}) \in Nat
      BY <1>3, CoverStays
    <3>5. n <= Cardinality(NextRowUsers(c) \cup {u})
      BY <3>2, <3>3, <3>4
    <3> QED
      BY <3>3, <3>5
  <2>5. ASSUME req[q].pc = "write"
        PROVE  req[q].count <= Cardinality(NextRowUsers(req[q].church))
    <3>1. req[q].church \in Churches /\ req[q].count \in Nat
      BY <1>1, <1>5, <2>5, RequestNames DEF Request
    <3>2. req[q].count <= Cardinality(RowUsers(req[q].church))
      BY <1>1, <2>5 DEF CountReq
    <3>3. PICK c \in Churches, u \in Users, n \in Nat :
             c = req[q].church /\ u = req[q].user /\ n = req[q].count
      BY <2>1, <3>1
    <3>4. /\ Cardinality(RowUsers(c)) <= Cardinality(NextRowUsers(c))
          /\ Cardinality(RowUsers(c)) \in Nat /\ Cardinality(NextRowUsers(c)) \in Nat
      BY <1>3, CoverStays
    <3>5. n <= Cardinality(NextRowUsers(c))
      BY <3>2, <3>3, <3>4
    <3> QED
      BY <3>3, <3>5
  <2>6. \A c : NextRowUsers(c) = {u \in Users : Exists(member'[u][c])}
    BY DEF NextRowUsers
  <2> QED
    BY <1>2, <2>2, <2>3, <2>4, <2>5, <2>6
       DEF Alike, CountReq, Present, RowsAndUser, RowUsers, Exists
<1> QED
  BY <1>4, <1>5

LEMMA RefusedNew ==
  ASSUME NEW r, r.op \in New, ~Refused(r)
  PROVE  ~Present(r.user)
<1>1. r.op \in {"register", "createUser", "createHelper", "addNew"}
  BY DEF New
<1> QED
  BY <1>1 DEF Refused

LEMMA OwnCount ==
  ASSUME CountInv, NEW p \in Reqs, Step(p) \/ Fail(p)
  PROVE  CountReq(req[p])'
<1>1. TypeOK /\ RequestsOK /\ RequestOK(req[p]) /\ CountReq(req[p])
  BY TypeParts DEF CountInv, RequestsOK
<1>2. RowsStay /\ PresentStay
  BY TablesStep
<1>3. CASE req'[p] = Idle
  BY <1>3, IdlePc DEF CountReq, OfAccount, AllOps
<1>4. ASSUME Own(req'[p], req[p]), req[p] # Idle
      PROVE  req'[p].op \in OfAccount => users'[req'[p].user].status # "NONE"
  BY <1>1, <1>2, <1>4, RequestNames DEF CountReq, PresentStay, Own
<1>5. CASE /\ Stage(p) /\ ~Refused(req[p]) /\ Own(req'[p], req[p])
           /\ req'[p].pc = "staged" /\ req'[p].stale = req[p].stale
           /\ req'[p].count = IF req[p].op \in Recounts THEN CountInside(req[p]) ELSE 0
  <2>1. UNCHANGED <<users, member>> /\ req[p] # Idle
    BY <1>5, IdlePc DEF Stage, tables
  <2>2. req[p].op \in New => ~Present(req[p].user)
    BY <1>5, RefusedNew
  <2>3. req[p].op \in Recounts => req'[p].count <= Cardinality(RowsAndUser(req[p]))
    BY <1>1, <1>5, <2>1, CountedUsers, RequestNames
  <2> QED
    BY <1>4, <1>5, <2>1, <2>2, <2>3
       DEF Own, CountReq, Present, RowsAndUser, RowUsers, Exists
<1>6. CASE /\ CountMembers(p) /\ Own(req'[p], req[p])
           /\ req'[p].pc = "write" /\ req'[p].stale = req[p].stale
           /\ req'[p].count = ActiveCount(req[p].church)
  <2>1. UNCHANGED <<users, member>> /\ req[p] # Idle
    BY <1>6, IdlePc DEF CountMembers, tables
  <2>2. req'[p].count <= Cardinality(RowUsers(req[p].church))
    BY <1>6, CountedUsers
  <2> QED
    BY <1>4, <1>6, <2>1, <2>2 DEF Own, CountReq, Present, RowUsers, Exists
<1>7. CASE /\ MarkRemoved(p) \/ DropRoles(p) \/ PutUser(p) \/ AllowRole(p)
           /\ NextPc(req[p], req'[p].pc) /\ Own(req'[p], req[p])
           /\ req'[p].stale = req[p].stale
  <2>1. req'[p].pc \notin {"staged", "write"} /\ req[p] # Idle
    BY <1>1, <1>7, NextPcNames, IdlePc
  <2> QED
    BY <1>4, <1>7, <2>1 DEF CountReq, Present
<1> QED
  BY <1>1, <1>3, <1>5, <1>6, <1>7, OwnStep

(* churches.church_members is written by a commit and by WriteCount.        *)
LEMMA CounterCovered ==
  ASSUME CountInv, NEW p \in Reqs, Step(p) \/ Fail(p)
  PROVE  CountWithinRows'
<1>1. /\ TypeOK /\ RequestsOK /\ RequestOK(req[p]) /\ CountReq(req[p]) /\ RowsPresent
      /\ CountWithinRows
      /\ churchMembers \in [Churches -> Nat] /\ member \in [Users -> [Churches -> Row]]
  BY TypeParts DEF CountInv, RequestsOK, TypeOK
<1>2. RowsStay
  BY TablesStep
<1>3. SUFFICES ASSUME NEW c \in Churches
               PROVE  churchMembers'[c] <= Cardinality(NextRowUsers(c))
  BY DEF CountWithinRows, NextRowUsers, Exists
<1>4. /\ churchMembers[c] <= Cardinality(RowUsers(c)) /\ churchMembers[c] \in Nat
      /\ Cardinality(NextRowUsers(c)) \in Nat /\ Cardinality(RowUsers(c)) \in Nat
  BY <1>1, FewerUsers, RowUsersFinite DEF CountWithinRows, RowUsers, NextRowUsers
<1>5. ASSUME NEW u \in Users
      PROVE  Cardinality(RowUsers(c)) <= Cardinality(NextRowUsers(c))
  BY <1>2, CoverStays
<1>6. CASE churchMembers'[c] = churchMembers[c]
  <2>1. RowUsers(c) \subseteq NextRowUsers(c) /\ NextRowUsers(c) \subseteq Users
    BY <1>2 DEF RowsStay, RowUsers, NextRowUsers
  <2> QED
    BY <1>4, <1>6, <2>1, FewerUsers
<1>7. CASE WriteCount(p) /\ churchMembers'[c] # churchMembers[c]
  <2>1. /\ req[p].pc = "write" /\ UNCHANGED member
        /\ churchMembers' = [churchMembers EXCEPT ![req[p].church] = req[p].count]
    BY <1>7 DEF WriteCount
  <2>2. c = req[p].church /\ churchMembers'[c] = req[p].count
    BY <1>1, <1>7, <2>1
  <2>3. NextRowUsers(c) = RowUsers(c)
    BY <2>1 DEF NextRowUsers, RowUsers
  <2> QED
    BY <1>1, <2>1, <2>2, <2>3 DEF CountReq
<1>8. CASE Commit(p) /\ churchMembers'[c] # churchMembers[c]
  <2> DEFINE r == req[p]
             w == Writes(r)
  <2>1. /\ r.pc = "staged" /\ member' = [member EXCEPT ![r.user] = w.rows]
        /\ \/ r.op \in Recounts /\ churchMembers' = [churchMembers EXCEPT ![r.church] = r.count]
           \/ r.op = "createHelper" /\ churchMembers' = [churchMembers EXCEPT ![r.church] = @ + 1]
    BY <1>8 DEF Commit
  <2>2. r # Idle /\ r.user \in Users /\ r.op \in InTransaction
    BY <1>1, <2>1, IdlePc, RequestNames
  <2>3. Exists(w.rows[c]) /\ c = r.church
    <3>1. c = r.church
      BY <1>1, <1>8, <2>1
    <3>2. r.op \in Recounts \cup {"createHelper"}
      BY <2>1
    <3> QED
      BY <1>1, <2>1, <2>2, <3>1, <3>2, CommitExists
  <2> HIDE DEF r, w
  <2>4. member'[r.user] = w.rows
    BY <1>1, <2>1, <2>2
  <2>5. RowUsers(c) \cup {r.user} \subseteq NextRowUsers(c) /\ NextRowUsers(c) \subseteq Users
    BY <1>2, <2>2, <2>3, <2>4 DEF RowsStay, RowUsers, NextRowUsers
  <2>6. /\ Cardinality(RowUsers(c) \cup {r.user}) <= Cardinality(NextRowUsers(c))
        /\ Cardinality(RowUsers(c) \cup {r.user}) \in Nat
    BY <2>5, FewerUsers
  <2>7. CASE r.op \in Recounts
    <3>1. churchMembers'[c] = r.count
      BY <1>1, <2>1, <2>3, <2>7 DEF Recounts
    <3>2. r.count <= Cardinality(RowUsers(c) \cup {r.user})
      BY <1>1, <2>1, <2>3, <2>7 DEF CountReq, RowsAndUser, r
    <3>3. r.count \in Nat
      BY <1>1, <2>2, RequestNames DEF r, Request
    <3> QED
      BY <1>4, <2>6, <3>1, <3>2, <3>3
  <2>8. CASE r.op = "createHelper"
    <3>1. churchMembers'[c] = churchMembers[c] + 1
      BY <1>1, <2>1, <2>3, <2>8 DEF Recounts
    <3>2. r.user \notin RowUsers(c)
      BY <1>1, <2>1, <2>8 DEF CountReq, RowsPresent, RowUsers, New, r
    <3>3. Cardinality(RowUsers(c) \cup {r.user}) = Cardinality(RowUsers(c)) + 1
      BY <3>2, RowUsersFinite, FS_AddElement
    <3> QED
      BY <1>4, <2>6, <3>1, <3>3
  <2> QED
    BY <2>1, <2>7, <2>8
<1> QED
  BY <1>6, <1>7, <1>8
     DEF Step, Stage, MarkRemoved, DropRoles, GrantRole, CountMembers, PutUser, AllowRole, Fail,
         tables

LEMMA CountInvInit == Init => CountInv
<1> SUFFICES ASSUME Init
             PROVE  CountInv
  OBVIOUS
<1>1. TypeOK
  BY InitType
<1>2. \A p \in Reqs : req[p] = Idle
  BY DEF Init
<1>3. Locks /\ \A p \in Reqs : CountReq(req[p])
  BY <1>2, IdlePc DEF Locks, CountReq, OfAccount, AllOps
<1>4. RowsPresent
  <2> SUFFICES ASSUME NEW u \in Users, NEW c \in Churches, Exists(member[u][c])
               PROVE  Present(u)
    BY DEF RowsPresent
  <2>1. SeedMember(u, c)
    BY DEF Init, Exists, NoMembership
  <2>2. Seeded(u)
    BY <2>1 DEF SeedMember, Seeded, ChurchAdmins
  <2> QED
    BY <2>2 DEF Init, Present, Enabled
<1>5. CountWithinRows
  BY CountedUsers DEF Init, CountWithinRows, RowUsers
<1> QED
  BY <1>1, <1>3, <1>4, <1>5 DEF CountInv

LEMMA CountInvNext == CountInv /\ [Next]_vars => CountInv'
<1> SUFFICES ASSUME CountInv, [Next]_vars
             PROVE  CountInv'
  OBVIOUS
<1>1. TypeOK /\ RequestsOK /\ TypeOK'
  BY NextType, TypeParts DEF CountInv
<1>2. ASSUME NEW p \in Reqs, Step(p) \/ Fail(p)
      PROVE  CountInv'
  <2>1. Locks'
    BY <1>1, <1>2, LocksStep DEF CountInv
  <2>2. RowsPresent' /\ CountWithinRows'
    BY <1>2, TablesStep, CounterCovered
  <2>3. ASSUME NEW q \in Reqs
        PROVE  CountReq(req[q])'
    BY <1>2, OwnCount, OthersCount
  <2> QED
    BY <1>1, <2>1, <2>2, <2>3 DEF CountInv
<1>3. ASSUME NEW p \in Reqs, Arrive(p)
      PROVE  CountInv'
  <2>1. UNCHANGED tables
    BY <1>1, <1>3, ArriveType
  <2>2. /\ Knows(req'[p]) /\ Fresh(req'[p])
        /\ \A q \in Reqs \ {p} : req'[q] = req[q]
    BY <1>1, <1>3, ArriveKnows
  <2>3. req'[p].pc \in {"open", "mark", "put", "drop"}
    BY <2>2 DEF Fresh
  <2>4. Locks'
    BY <2>2, <2>3 DEF CountInv, Locks
  <2>5. RowsPresent' /\ CountWithinRows'
    BY <2>1 DEF CountInv, RowsPresent, CountWithinRows, Present, Exists, tables
  <2>6. ASSUME NEW q \in Reqs
        PROVE  CountReq(req[q])'
    BY <2>1, <2>2, <2>3
       DEF CountInv, CountReq, Knows, Present, Exists, RowsAndUser, RowUsers, tables
  <2> QED
    BY <1>1, <2>4, <2>5, <2>6 DEF CountInv
<1>4. CASE UNCHANGED vars
  BY <1>1, <1>4 DEF CountInv, vars, Locks, RowsPresent, CountWithinRows, CountReq, Present, Exists,
              RowsAndUser, RowUsers
<1> QED
  BY <1>2, <1>3, <1>4 DEF Next

(* A church never claims more members than it has membership rows: every    *)
(* recount counts active rows, of which none is ever taken away, its own    *)
(* transaction writes the row it counts beforehand, and createHelper adds   *)
(* one only for an account that has no row yet.                             *)
THEOREM CounterWithinRows == Spec => []CountWithinRows
<1>1. CountInv => CountWithinRows
  BY DEF CountInv
<1> QED
  BY <1>1, CountInvInit, CountInvNext, PTL DEF Spec

-----------------------------------------------------------------------------
(* A count that is not stale is exact.                                      *)

(* The row a recounting transaction writes at its church.                   *)
RowWritten(r) ==
  IF r.op = "register" THEN Pending
  ELSE IF r.op = "approve" THEN [member[r.user][r.church] EXCEPT !.status = "ACTIVE"]
  ELSE Enabled

ActiveInside(r) ==
  {u \in Users : Active(IF u = r.user THEN RowWritten(r) ELSE member[u][r.church])}

FreshReq(r) ==
  /\ r.pc = "staged" /\ r.op \in Recounts /\ ~r.stale => r.count = Cardinality(ActiveInside(r))
  /\ r.pc = "write" /\ ~r.stale => r.count = ActiveCount(r.church)

FreshInv == TypeOK /\ Locks /\ \A p \in Reqs : FreshReq(req[p])

LEMMA WrittenRow ==
  ASSUME TypeOK, NEW r, RequestOK(r), r # Idle, r.op \in Recounts
  PROVE  Writes(r).rows[r.church] = RowWritten(r)
<1>1. r.user \in Users /\ r.church \in Churches /\ member[r.user] \in [Churches -> Row]
  BY RequestNames DEF TypeOK
<1>2. r.op \in InTransaction
  BY DEF Recounts, InTransaction
<1>3. CASE r.op = "register"
  <2>1. Writes(r).rows = [member[r.user] EXCEPT ![r.church] = Pending]
    BY <1>2, <1>3, WrittenRows
  <2> QED
    BY <1>1, <1>3, <2>1 DEF RowWritten
<1>5. CASE r.op \in {"createUser", "addNew", "add"}
  <2>1. Writes(r).rows = [member[r.user] EXCEPT ![r.church] = Enabled]
    BY <1>2, <1>5, WrittenRows
  <2> QED
    BY <1>1, <1>5, <2>1 DEF RowWritten
<1>4. CASE r.op = "approve"
  <2>1. Writes(r).rows = [member[r.user] EXCEPT ![r.church].status = "ACTIVE"]
    BY <1>2, <1>4, WrittenRows
  <2> QED
    BY <1>1, <1>4, <2>1 DEF RowWritten
<1> QED
  BY <1>3, <1>4, <1>5 DEF Recounts

LEMMA CountedInside ==
  ASSUME TypeOK, NEW r, RequestOK(r), r # Idle, r.op \in Recounts
  PROVE  CountInside(r) = Cardinality(ActiveInside(r))
BY WrittenRow DEF CountInside, ActiveInside

(* What another request changes at the church of a count is nothing, or the *)
(* count is stale.                                                          *)
LEMMA SteadyRows ==
  ASSUME TypeOK, NEW p \in Reqs, Step(p) \/ Fail(p), NEW q \in Reqs \ {p},
         Counted(req[q]), ~req'[q].stale
  PROVE  /\ ~req[q].stale
         /\ \A u \in Users : Active(member'[u][req[q].church]) <=> Active(member[u][req[q].church])
<1>0. /\ RequestsOK /\ RequestOK(req[q]) /\ req[q] \in Request
      /\ member \in [Users -> [Churches -> Row]]
  BY TypeParts DEF RequestsOK, TypeOK
<1>1. req[q].church \in Churches /\ req[q].user \in Users
  <2>1. req[q] # Idle
    BY IdlePc DEF Counted
  <2> QED
    BY <1>0, <2>1, RequestNames DEF Counted
<1>2. CASE Commit(p)
  <2>1. member' = [member EXCEPT ![req[p].user] = Writes(req[p]).rows]
    BY <1>2 DEF Commit
  <2>2. req'[q] = IF Active(member[req[p].user][req[q].church])
                     # Active(member'[req[p].user][req[q].church])
                  THEN [req[q] EXCEPT !.stale = TRUE] ELSE req[q]
    BY <1>2 DEF Commit, Settle
  <2>3. [req[q] EXCEPT !.stale = TRUE].stale
    BY <1>0 DEF Request
  <2>4. /\ ~req[q].stale
        /\ Active(member'[req[p].user][req[q].church]) <=> Active(member[req[p].user][req[q].church])
    BY <2>2, <2>3 DEF Active
  <2>5. \A u \in Users : u # req[p].user => member'[u] = member[u]
    BY <1>0, <2>1
  <2> QED
    BY <2>4, <2>5
<1>3. CASE MarkRemoved(p)
  <2>1. /\ member' = [member EXCEPT ![req[p].user][req[p].church] = Removed]
        /\ req'[q] = IF req[q].church = req[p].church /\ Active(member[req[p].user][req[p].church])
                     THEN [req[q] EXCEPT !.stale = TRUE] ELSE req[q]
    BY <1>3 DEF MarkRemoved
  <2>2. [req[q] EXCEPT !.stale = TRUE].stale
    BY <1>0 DEF Request
  <2>3. /\ ~req[q].stale
        /\ req[q].church = req[p].church => ~Active(member[req[p].user][req[p].church])
    BY <2>1, <2>2
  <2>4. ~Active(Removed)
    BY DEF Active, Removed
  <2>5. \A u \in Users : \/ member'[u][req[q].church] = member[u][req[q].church]
                         \/ /\ u = req[p].user /\ req[q].church = req[p].church
                            /\ member'[u][req[q].church] = Removed
    BY <1>0, <1>1, <2>1
  <2> QED
    BY <2>3, <2>4, <2>5
<1>4. CASE UNCHANGED member /\ req'[q] = req[q]
  BY <1>4
<1> QED
  BY <1>0, <1>2, <1>3, <1>4
     DEF Step, Stage, DropRoles, GrantRole, CountMembers, WriteCount, PutUser, AllowRole, Fail,
         tables, Finish, RequestsOK

LEMMA OthersFresh ==
  ASSUME FreshInv, NEW p \in Reqs, Step(p) \/ Fail(p), NEW q \in Reqs \ {p}
  PROVE  FreshReq(req[q])'
<1>1. TypeOK /\ RequestsOK /\ Locks /\ FreshReq(req[q])
  BY TypeParts DEF FreshInv
<1>2. Alike(req'[q], req[q])
  BY <1>1, OthersAlike
<1>3. ASSUME req[q].pc = "staged", req[q].op \in Recounts, ~req'[q].stale
      PROVE  req[q].count = Cardinality({u \in Users :
               Active(IF u = req[q].user
                      THEN IF req[q].op = "register" THEN Pending
                           ELSE IF req[q].op = "approve"
                           THEN [member'[req[q].user][req[q].church] EXCEPT !.status = "ACTIVE"]
                           ELSE Enabled
                      ELSE member'[u][req[q].church])})
  <2> DEFINE S == {u \in Users :
               Active(IF u = req[q].user
                      THEN IF req[q].op = "register" THEN Pending
                           ELSE IF req[q].op = "approve"
                           THEN [member'[req[q].user][req[q].church] EXCEPT !.status = "ACTIVE"]
                           ELSE Enabled
                      ELSE member'[u][req[q].church])}
  <2>1. ~req[q].stale
        /\ \A u \in Users : Active(member'[u][req[q].church]) <=> Active(member[u][req[q].church])
    BY <1>1, <1>3, SteadyRows DEF Counted
  <2>2. member'[req[q].user] = member[req[q].user]
    BY <1>1, <1>3, LockHolds
  <2>3. req[q].count = Cardinality(ActiveInside(req[q]))
    BY <1>1, <1>3, <2>1 DEF FreshReq
  <2>4. ActiveInside(req[q]) = S
    BY <2>1, <2>2 DEF ActiveInside, RowWritten
  <2> QED
    BY <2>3, <2>4
<1>4. ASSUME req[q].pc = "write", ~req'[q].stale
      PROVE  req[q].count = Cardinality({u \in Users : Active(member'[u][req[q].church])})
  <2>1. ~req[q].stale
        /\ \A u \in Users : Active(member'[u][req[q].church]) <=> Active(member[u][req[q].church])
    BY <1>1, <1>4, SteadyRows DEF Counted
  <2>2. req[q].count = Cardinality(ActiveMembers(req[q].church))
    BY <1>1, <1>4, <2>1 DEF FreshReq, ActiveCount
  <2>3. ActiveMembers(req[q].church) = {u \in Users : Active(member'[u][req[q].church])}
    BY <2>1 DEF ActiveMembers
  <2> QED
    BY <2>2, <2>3
<1> QED
  BY <1>2, <1>3, <1>4
     DEF FreshReq, Alike, ActiveInside, RowWritten, ActiveCount, ActiveMembers, Active, Pending, Enabled

LEMMA OwnFresh ==
  ASSUME FreshInv, NEW p \in Reqs, Step(p) \/ Fail(p)
  PROVE  FreshReq(req[p])'
<1>1. TypeOK /\ RequestsOK /\ RequestOK(req[p])
  BY TypeParts DEF FreshInv, RequestsOK
<1>2. CASE req'[p] = Idle
  BY <1>2, IdlePc DEF FreshReq
<1>3. CASE /\ Stage(p) /\ ~Refused(req[p]) /\ Own(req'[p], req[p])
           /\ req'[p].pc = "staged" /\ req'[p].stale = req[p].stale
           /\ req'[p].count = IF req[p].op \in Recounts THEN CountInside(req[p]) ELSE 0
  <2>1. member' = member /\ req[p] # Idle
    BY <1>3, IdlePc DEF Stage, tables
  <2>2. req[p].op \in Recounts => req'[p].count = Cardinality(ActiveInside(req[p]))
    BY <1>1, <1>3, <2>1, CountedInside
  <2> QED
    BY <1>3, <2>1, <2>2 DEF FreshReq, Own, ActiveInside, RowWritten, Active, Pending, Enabled
<1>4. CASE /\ CountMembers(p) /\ Own(req'[p], req[p])
           /\ req'[p].pc = "write" /\ req'[p].stale = req[p].stale
           /\ req'[p].count = ActiveCount(req[p].church)
  <2>1. member' = member
    BY <1>4 DEF CountMembers, tables
  <2> QED
    BY <1>4, <2>1 DEF FreshReq, Own, ActiveCount, ActiveMembers, Active
<1>5. CASE /\ MarkRemoved(p) \/ DropRoles(p) \/ PutUser(p) \/ AllowRole(p)
           /\ NextPc(req[p], req'[p].pc) /\ Own(req'[p], req[p])
           /\ req'[p].stale = req[p].stale
  BY <1>1, <1>5, NextPcNames DEF FreshReq
<1> QED
  BY <1>1, <1>2, <1>3, <1>4, <1>5, OwnStep

LEMMA FreshInvInit == Init => FreshInv
<1> SUFFICES ASSUME Init
             PROVE  FreshInv
  OBVIOUS
<1>1. \A p \in Reqs : req[p] = Idle
  BY DEF Init
<1> QED
  BY <1>1, InitType, IdlePc DEF FreshInv, Locks, FreshReq

LEMMA FreshInvNext == FreshInv /\ [Next]_vars => FreshInv'
<1> SUFFICES ASSUME FreshInv, [Next]_vars
             PROVE  FreshInv'
  OBVIOUS
<1>1. TypeOK /\ RequestsOK /\ TypeOK'
  BY NextType, TypeParts DEF FreshInv
<1>2. ASSUME NEW p \in Reqs, Step(p) \/ Fail(p)
      PROVE  FreshInv'
  <2>1. Locks'
    BY <1>1, <1>2, LocksStep DEF FreshInv
  <2>2. ASSUME NEW q \in Reqs
        PROVE  FreshReq(req[q])'
    BY <1>2, OwnFresh, OthersFresh
  <2> QED
    BY <1>1, <2>1, <2>2 DEF FreshInv
<1>3. ASSUME NEW p \in Reqs, Arrive(p)
      PROVE  FreshInv'
  <2>1. UNCHANGED tables
    BY <1>1, <1>3, ArriveType
  <2>2. Fresh(req'[p]) /\ \A q \in Reqs \ {p} : req'[q] = req[q]
    BY <1>1, <1>3, ArriveKnows
  <2>3. req'[p].pc \in {"open", "mark", "put", "drop"}
    BY <2>2 DEF Fresh
  <2>4. Locks'
    BY <2>2, <2>3 DEF FreshInv, Locks
  <2>5. FreshReq(req[p])'
    BY <2>3 DEF FreshReq
  <2>6. ASSUME NEW q \in Reqs \ {p}
        PROVE  FreshReq(req[q])'
    <3>1. req'[q] = req[q] /\ member' = member /\ FreshReq(req[q])
      BY <2>1, <2>2 DEF tables, FreshInv
    <3>2. RowWritten(req[q])' = RowWritten(req[q])
      BY <3>1 DEF RowWritten, Pending, Enabled
    <3>3. ActiveInside(req[q])' = ActiveInside(req[q])
      BY <3>1, <3>2 DEF ActiveInside, Active
    <3>4. ActiveCount(req[q].church)' = ActiveCount(req[q].church)
      BY <3>1 DEF ActiveCount, ActiveMembers, Active
    <3> QED
      BY <3>1, <3>3, <3>4 DEF FreshReq
  <2> QED
    BY <1>1, <2>4, <2>5, <2>6 DEF FreshInv
<1>4. CASE UNCHANGED vars
  BY <1>1, <1>4 DEF FreshInv, vars, Locks, FreshReq, ActiveInside, RowWritten, ActiveCount,
              ActiveMembers, Active, Pending, Enabled
<1> QED
  BY <1>2, <1>3, <1>4 DEF Next

(* What a commit or the last statement of removeMember writes.              *)
LEMMA FreshWrites ==
  ASSUME FreshInv, NEW p \in Reqs, NEW c \in Churches, Commit(p) \/ WriteCount(p),
         Counted(req[p]), ~req[p].stale, req[p].church = c
  PROVE  churchMembers'[c] = Cardinality({u \in Users : Active(member'[u][c])})
<1>1. /\ TypeOK /\ RequestsOK /\ RequestOK(req[p]) /\ FreshReq(req[p])
      /\ churchMembers \in [Churches -> Nat] /\ member \in [Users -> [Churches -> Row]]
  BY TypeParts DEF FreshInv, RequestsOK, TypeOK
<1>2. CASE WriteCount(p)
  <2>1. /\ req[p].pc = "write" /\ member' = member
        /\ churchMembers' = [churchMembers EXCEPT ![req[p].church] = req[p].count]
    BY <1>2 DEF WriteCount
  <2> QED
    BY <1>1, <2>1 DEF FreshReq, ActiveCount, ActiveMembers
<1>3. CASE Commit(p)
  <2>1. /\ req[p].pc = "staged" /\ req[p].op \in Recounts /\ req[p] # Idle
        /\ member' = [member EXCEPT ![req[p].user] = Writes(req[p]).rows]
        /\ churchMembers' = [churchMembers EXCEPT ![req[p].church] = req[p].count]
    BY <1>3, IdlePc DEF Commit, Counted
  <2>2. churchMembers'[c] = Cardinality(ActiveInside(req[p]))
    BY <1>1, <2>1 DEF FreshReq
  <2>3. \A u \in Users : member'[u][c] = IF u = req[p].user THEN RowWritten(req[p])
                                         ELSE member[u][c]
    BY <1>1, <2>1, WrittenRow
  <2>4. ActiveInside(req[p]) = {u \in Users : Active(member'[u][c])}
    BY <2>3 DEF ActiveInside
  <2> QED
    BY <2>2, <2>4
<1> QED
  BY <1>2, <1>3

(* A recount nothing overtook is exact when it is written, whatever other   *)
(* requests did meanwhile: the row lock keeps the rows of its own user, and *)
(* every other change of an active membership of the church marks it stale. *)
THEOREM RecountIsExact == Spec => FreshCountIsExact
<1>1. FreshInv /\ [Next]_vars =>
        [\A p \in Reqs, c \in Churches :
           /\ Commit(p) \/ WriteCount(p)
           /\ Counted(req[p]) /\ ~req[p].stale /\ req[p].church = c
           => churchMembers'[c] = ActiveCount(c)']_vars
  <2> SUFFICES ASSUME FreshInv, NEW p \in Reqs, NEW c \in Churches,
                      Commit(p) \/ WriteCount(p), Counted(req[p]), ~req[p].stale, req[p].church = c
               PROVE  churchMembers'[c] = ActiveCount(c)'
    OBVIOUS
  <2>1. churchMembers'[c] = Cardinality({u \in Users : Active(member'[u][c])})
    BY FreshWrites
  <2> QED
    BY <2>1 DEF ActiveCount, ActiveMembers, Active
<1> QED
  BY <1>1, FreshInvInit, FreshInvNext, PTL DEF Spec, FreshCountIsExact

-----------------------------------------------------------------------------
(* One request at a time.  What a handler has read stays true until its     *)
(* last statement, and no count is ever stale.                              *)

OneRequest == \A p, q \in Reqs : p = q

StatusAgrees ==
  \A u \in Users, c \in Churches : member[u][c].status = "REMOVED" <=> member[u][c].deleted

SerialInv ==
  /\ CountInv /\ FreshInv /\ StatusAgrees
  /\ \A p \in Reqs : Knows(req[p]) /\ ~req[p].stale

LEMMA IdleKnows == ASSUME NEW r, r = Idle PROVE r.op \notin AllOps /\ Knows(r) /\ ~r.stale
<1>1. r.op \notin AllOps /\ ~r.stale
  BY IdlePc
<1> QED
  BY <1>1 DEF Knows, New, OfAccount, AllOps

LEMMA OwnKnows ==
  ASSUME TypeOK, NEW p \in Reqs, Step(p) \/ Fail(p), Knows(req[p]), ~req[p].stale
  PROVE  Knows(req[p])' /\ ~req'[p].stale
<1>1. RequestsOK /\ RequestOK(req[p]) /\ users \in [Users -> Account]
  BY TypeParts DEF RequestsOK, TypeOK
<1>2. CASE req'[p] = Idle
  <2>1. req'[p].op \notin AllOps /\ ~req'[p].stale
    BY <1>2, IdlePc
  <2> QED
    BY <2>1 DEF Knows, New, OfAccount, AllOps
<1>3. CASE /\ UNCHANGED <<users, member>> /\ Own(req'[p], req[p])
           /\ req'[p].pc # "mark" /\ req'[p].stale = req[p].stale
  BY <1>3 DEF Knows, Own, Present, Exists, Active
<1>4. CASE /\ MarkRemoved(p) /\ Own(req'[p], req[p])
           /\ NextPc(req[p], req'[p].pc) /\ req'[p].stale = req[p].stale
  <2>1. req[p].op = "remove" /\ req'[p].pc # "mark" /\ users' = users
    BY <1>1, <1>4, NextPcNames, IdlePc DEF MarkRemoved, RequestOK
  <2> QED
    BY <1>4, <2>1 DEF Knows, Own, Present, New, OfAccount
<1>5. CASE /\ PutUser(p) /\ Own(req'[p], req[p])
           /\ NextPc(req[p], req'[p].pc) /\ req'[p].stale = req[p].stale
  <2>1. req[p].op \in {"updateMember", "setStatus"} /\ req'[p].pc # "mark"
    BY <1>1, <1>5, NextPcNames, IdlePc DEF PutUser, RequestOK
  <2>2. req[p].user \in Users /\ req[p].status \in UserStatus \cup {None}
    BY <1>1, <1>5, IdlePc, RequestNames DEF PutUser, Request
  <2>3. \/ users'[req[p].user] = users[req[p].user]
        \/ users'[req[p].user] = [users[req[p].user] EXCEPT !.status = req[p].status]
           /\ req[p].status \in UserStatus
    BY <1>1, <1>5, <2>2 DEF PutUser
  <2>4. /\ Present(req[p].user) => users'[req[p].user].status # "NONE"
        /\ users'[req[p].user].deleted = users[req[p].user].deleted
    BY <1>1, <2>2, <2>3 DEF Present, Account, UserStatus
  <2> QED
    BY <1>5, <2>1, <2>4 DEF Knows, Own, Present, New, OfAccount
<1>6. CASE Stage(p) \/ CountMembers(p) \/ DropRoles(p) \/ AllowRole(p)
  <2>1. UNCHANGED <<users, member>>
    BY <1>6 DEF Stage, CountMembers, DropRoles, AllowRole, tables
  <2>2. NextPc(req[p], req'[p].pc) => req'[p].pc # "mark"
    BY <1>1, NextPcNames
  <2>3. ~MarkRemoved(p) /\ ~PutUser(p)
    BY <1>6 DEF Stage, CountMembers, DropRoles, AllowRole, MarkRemoved, PutUser
  <2> QED
    BY <1>1, <1>2, <1>3, <2>1, <2>2, <2>3, OwnStep
<1> QED
  BY <1>1, <1>2, <1>4, <1>5, <1>6, OwnStep

(* The rows a commit writes are in agreement.                               *)
LEMMA StatusStep ==
  ASSUME SerialInv, NEW p \in Reqs, Step(p) \/ Fail(p)
  PROVE  StatusAgrees'
<1>1. /\ TypeOK /\ StatusAgrees /\ Knows(req[p]) /\ RequestsOK /\ RequestOK(req[p])
      /\ member \in [Users -> [Churches -> Row]]
  BY TypeParts DEF SerialInv, CountInv, RequestsOK, TypeOK
<1>2. CASE UNCHANGED member
  BY <1>1, <1>2 DEF StatusAgrees
<1>3. CASE MarkRemoved(p)
  <2>1. /\ member' = [member EXCEPT ![req[p].user][req[p].church] = Removed]
        /\ Removed.status = "REMOVED" /\ Removed.deleted
    BY <1>3 DEF MarkRemoved, Removed
  <2> HIDE DEF Removed
  <2>2. ASSUME NEW u \in Users, NEW c \in Churches
        PROVE  member'[u][c] = Removed \/ member'[u][c] = member[u][c]
    BY <1>1, <2>1
  <2> QED
    BY <1>1, <2>1, <2>2 DEF StatusAgrees
<1>4. CASE Commit(p)
  <2> DEFINE r == req[p]
             w == Writes(r)
  <2>1. r.pc = "staged" /\ member' = [member EXCEPT ![r.user] = w.rows]
    BY <1>4 DEF Commit
  <2>2. r # Idle /\ r.user \in Users /\ r.op \in InTransaction
    BY <1>1, <2>1, IdlePc, RequestNames
  <2>3. member[r.user] \in [Churches -> Row]
    BY <1>1, <2>2
  <2>4. /\ Pending.status # "REMOVED" /\ ~Pending.deleted
        /\ Enabled.status # "REMOVED" /\ ~Enabled.deleted
        /\ Removed.status = "REMOVED" /\ Removed.deleted
        /\ NoMembership.status # "REMOVED" /\ ~NoMembership.deleted
    BY DEF Pending, Enabled, Removed, NoMembership
  <2>5. \A c \in Churches : w.rows[c].status = "REMOVED" <=> w.rows[c].deleted
    <3> SUFFICES ASSUME NEW c \in Churches
                 PROVE  w.rows[c].status = "REMOVED" <=> w.rows[c].deleted
      OBVIOUS
    <3>0. member[r.user][c].status = "REMOVED" <=> member[r.user][c].deleted
      BY <1>1, <2>2 DEF StatusAgrees
    <3>1. CASE w.rows[c] \in {Pending, Enabled, Removed, NoMembership, member[r.user][c]}
      BY <2>4, <3>0, <3>1
    <3>2. CASE r.op = "approve"
      <4>1. w.rows = [member[r.user] EXCEPT ![r.church].status = "ACTIVE"]
        BY <1>1, <2>2, <3>2, WrittenRows
      <4>2. ~member[r.user][r.church].deleted
        BY <1>1, <3>2 DEF Knows
      <4>3. CASE c = r.church
        <5>1. w.rows[c].status = "ACTIVE" /\ w.rows[c].deleted = member[r.user][c].deleted
          BY <2>3, <4>1, <4>3 DEF Row
        <5> QED
          BY <4>2, <4>3, <5>1
      <4> QED
        BY <2>3, <3>1, <4>1, <4>3
    <3>3. CASE r.op = "delete"
      <4>1. w.rows = [x \in Churches |-> IF Exists(member[r.user][x])
                                         THEN Removed ELSE NoMembership]
        BY <1>1, <2>2, <3>3, WrittenRows
      <4> QED
        BY <3>1, <4>1
    <3>4. CASE r.op = "register"
      <4>1. w.rows = [member[r.user] EXCEPT ![r.church] = Pending]
        BY <1>1, <2>2, <3>4, WrittenRows
      <4> QED
        BY <2>3, <3>1, <4>1
    <3>5. CASE r.op \in InTransaction \ {"approve", "delete", "register"}
      <4>1. \/ w.rows = [member[r.user] EXCEPT ![r.church] = Enabled]
            \/ w.rows = member[r.user]
        BY <1>1, <2>2, <3>5, WrittenRows DEF InTransaction
      <4> QED
        BY <2>3, <3>1, <4>1
    <3> QED
      BY <2>2, <3>2, <3>3, <3>4, <3>5
  <2> HIDE DEF r, w
  <2>6. \A u \in Users : member'[u] = IF u = r.user THEN w.rows ELSE member[u]
    BY <1>1, <2>1
  <2> QED
    BY <1>1, <2>5, <2>6 DEF StatusAgrees
<1> QED
  BY <1>2, <1>3, <1>4
     DEF Step, Stage, DropRoles, GrantRole, CountMembers, WriteCount, PutUser, AllowRole, Fail,
         tables

LEMMA SerialInit == Init => SerialInv
<1> SUFFICES ASSUME Init
             PROVE  SerialInv
  OBVIOUS
<1>1. \A p \in Reqs : req[p] = Idle
  BY DEF Init
<1>2. StatusAgrees
  BY DEF Init, StatusAgrees, Enabled, NoMembership
<1> QED
  BY <1>1, <1>2, CountInvInit, FreshInvInit, IdleKnows DEF SerialInv

LEMMA SerialNext ==
  ASSUME OneRequest, SerialInv, [Next]_vars
  PROVE  SerialInv'
<1>1. TypeOK /\ RequestsOK /\ CountInv' /\ FreshInv'
  BY TypeParts, CountInvNext, FreshInvNext DEF SerialInv, CountInv
<1>2. ASSUME NEW p \in Reqs, Step(p) \/ Fail(p)
      PROVE  SerialInv'
  <2>1. Knows(req[p])' /\ ~req'[p].stale
    BY <1>1, <1>2, OwnKnows DEF SerialInv
  <2>2. Reqs = {p}
    BY DEF OneRequest
  <2> QED
    BY <1>1, <1>2, <2>1, <2>2, StatusStep DEF SerialInv
<1>3. ASSUME NEW p \in Reqs, Arrive(p)
      PROVE  SerialInv'
  <2>1. UNCHANGED tables /\ Knows(req'[p]) /\ Fresh(req'[p])
    BY <1>1, <1>3, ArriveType, ArriveKnows
  <2>2. Reqs = {p}
    BY DEF OneRequest
  <2>3. Knows(req[p])' /\ ~req'[p].stale
    BY <2>1 DEF Knows, Fresh, Present, Exists, Active, tables
  <2>4. StatusAgrees'
    BY <2>1 DEF SerialInv, StatusAgrees, tables
  <2> QED
    BY <1>1, <2>2, <2>3, <2>4 DEF SerialInv
<1>4. CASE UNCHANGED vars
  <2>1. \A p \in Reqs : Knows(req[p])' /\ ~req'[p].stale
    BY <1>4 DEF SerialInv, vars, Knows, Present, Exists, Active
  <2> QED
    BY <1>1, <1>4, <2>1 DEF SerialInv, StatusAgrees, vars
<1> QED
  BY <1>2, <1>3, <1>4 DEF Next

(* Requests that do not overlap keep the two columns that say a membership  *)
(* is over in agreement: approveUser, the one handler that sets the status  *)
(* without deleted_at, has read an undeleted row that is still undeleted    *)
(* when it commits.                                                         *)
THEOREM RemovalColumnsAgree ==
  ASSUME OneRequest
  PROVE  Spec => []RemovedIffDeleted
<1>1. SerialInv /\ [Next]_vars => SerialInv'
  BY SerialNext
<1>2. SerialInv => RemovedIffDeleted
  BY DEF SerialInv, StatusAgrees, RemovedIffDeleted
<1> QED
  BY <1>1, <1>2, SerialInit, PTL DEF Spec

-----------------------------------------------------------------------------
(* Roles belong to active members, between requests that do not overlap.    *)

Only(S) == \A p \in Reqs : req[p] = Idle \/ req[p].op \in S

(* The endpoints that ask for the membership of the one they give a role.   *)
RoleOps == AllOps \ {"adminUpdate", "delete", "updateMember"}

(* removeMember has ended the membership and comes to the roles next.       *)
Dropping(r, u, c) == r.op = "remove" /\ r.pc = "drop" /\ r.user = u /\ r.church = c

RolesSettled ==
  \A u \in Users, x \in Roles, c \in Churches :
    roleUser[u][x] = c => Active(member[u][c]) \/ \E p \in Reqs : Dropping(req[p], u, c)

LEMMA CommitRoles ==
  ASSUME OneRequest, SerialInv, RolesSettled, NEW p \in Reqs, Commit(p), req[p].op \in RoleOps,
         NEW x \in Roles, NEW c \in Churches, Writes(req[p]).roles[x] = c
  PROVE  Active(Writes(req[p]).rows[c])
<1> DEFINE r == req[p]
<1>1. /\ TypeOK /\ RequestsOK /\ RequestOK(r) /\ Knows(r) /\ RowsPresent
      /\ r.pc = "staged"
  BY TypeParts DEF SerialInv, CountInv, RequestsOK, Commit
<1>2. r # Idle /\ r.user \in Users /\ r.op \in InTransaction
  BY <1>1, IdlePc, RequestNames
<1>3. r.op \in AtChurch => r.church \in Churches
  BY <1>1, <1>2 DEF RequestOK
<1>4. member[r.user] \in [Churches -> Row] /\ roleUser[r.user] \in [Roles -> RoleCell]
  BY <1>1, <1>2 DEF TypeOK
<1>5. \A y \in Roles, d \in Churches : roleUser[r.user][y] = d => Active(member[r.user][d])
  BY <1>1, <1>2 DEF RolesSettled, Dropping, OneRequest
<1>6. /\ r.op \in New => \A y \in Roles, d \in Churches : roleUser[r.user][y] # d
      /\ r.op = "approve" => ~member[r.user][r.church].deleted
      /\ r.op = "removeHelper" => Active(member[r.user][r.church])
  BY <1>1, <1>2, <1>5 DEF Knows, RowsPresent, Active, Exists
<1>7. Active(Enabled)
  BY DEF Active, Enabled
<1>8. \A d \in Churches : d # None
  BY CellFacts
<1>9. Writes(r).roles[x] = c
  OBVIOUS
<1>10. r.op \in InTransaction \cap RoleOps
  BY <1>2
<1> SUFFICES Active(Writes(r).rows[c])
  OBVIOUS
<1> HIDE DEF r
<1>11. CASE r.op \in {"register", "createUser"}
  <2>1. Writes(r).roles = roleUser[r.user]
    BY <1>2, <1>11, WrittenRoles
  <2> QED
    BY <1>6, <1>9, <1>11, <2>1 DEF New
<1>12. CASE r.op \in {"createHelper", "addNew", "add"}
  <2>1. Writes(r).roles = [roleUser[r.user] EXCEPT ![r.role] = r.church]
    BY <1>2, <1>12, WrittenRoles
  <2>2. Writes(r).rows = [member[r.user] EXCEPT ![r.church] = Enabled]
    BY <1>1, <1>2, <1>12, WrittenRows
  <2>3. c = r.church \/ roleUser[r.user][x] = c
    BY <1>4, <1>9, <2>1
  <2> QED
    BY <1>4, <1>5, <1>7, <2>2, <2>3
<1>13. CASE r.op = "approve"
  <2>1. Writes(r).roles = [roleUser[r.user] EXCEPT ![r.role] = r.church]
    BY <1>2, <1>13, WrittenRoles
  <2>2. Writes(r).rows = [member[r.user] EXCEPT ![r.church].status = "ACTIVE"]
    BY <1>1, <1>2, <1>13, WrittenRows
  <2>3. c = r.church \/ roleUser[r.user][x] = c
    BY <1>4, <1>9, <2>1
  <2>4. CASE c = r.church
    <3>1. Writes(r).rows[c].status = "ACTIVE" /\ Writes(r).rows[c].deleted = member[r.user][c].deleted
      BY <1>4, <2>2, <2>4 DEF Row
    <3> QED
      BY <1>6, <1>13, <2>4, <3>1 DEF Active
  <2>5. CASE c # r.church
    BY <1>4, <1>5, <2>2, <2>3, <2>5
  <2> QED
    BY <2>4, <2>5
<1>14. CASE r.op = "removeHelper"
  <2>1. Writes(r).roles = [y \in Roles |->
          IF y = "CHURCH_MEMBER" THEN r.church
          ELSE IF y = "HELPER" /\ roleUser[r.user][y] = r.church THEN None
          ELSE roleUser[r.user][y]]
    BY <1>2, <1>14, WrittenRoles
  <2>2. Writes(r).rows = member[r.user]
    BY <1>1, <1>2, <1>14, WrittenRows
  <2>3. c = r.church \/ roleUser[r.user][x] = c
    BY <1>8, <1>9, <2>1
  <2> QED
    BY <1>5, <1>6, <1>14, <2>2, <2>3
<1> QED
  BY <1>10, <1>11, <1>12, <1>13, <1>14 DEF InTransaction, RoleOps

LEMMA RolesSettledStep ==
  ASSUME OneRequest, SerialInv, RolesSettled, NEW p \in Reqs, Step(p), req[p].op \in RoleOps
  PROVE  RolesSettled'
<1>1. /\ TypeOK /\ RequestsOK /\ RequestOK(req[p]) /\ Knows(req[p])
      /\ roleUser \in [Users -> [Roles -> RoleCell]] /\ member \in [Users -> [Churches -> Row]]
  BY TypeParts DEF SerialInv, CountInv, RequestsOK, TypeOK
<1>2. Reqs = {p}
  BY DEF OneRequest
<1>3. SUFFICES ASSUME NEW u \in Users, NEW x \in Roles, NEW c \in Churches, roleUser'[u][x] = c
               PROVE  Active(member'[u][c]) \/ Dropping(req'[p], u, c)
  BY DEF RolesSettled, Dropping, Active
<1>4. roleUser[u][x] = c => Active(member[u][c]) \/ Dropping(req[p], u, c)
  BY <1>2 DEF RolesSettled
<1>5. CASE UNCHANGED <<member, roleUser>> /\ req[p].pc # "drop"
  BY <1>3, <1>4, <1>5 DEF Dropping
<1>6. CASE Commit(p)
  <2>1. /\ member' = [member EXCEPT ![req[p].user] = Writes(req[p]).rows]
        /\ roleUser' = [roleUser EXCEPT ![req[p].user] = Writes(req[p]).roles]
        /\ req[p].pc = "staged"
    BY <1>6 DEF Commit
  <2>2. CASE u = req[p].user
    <3>1. member'[u] = Writes(req[p]).rows /\ roleUser'[u] = Writes(req[p]).roles
      BY <1>1, <2>1, <2>2
    <3>2. Writes(req[p]).roles[x] = c
      BY <1>3, <3>1
    <3> QED
      BY <1>6, <3>1, <3>2, CommitRoles
  <2>3. CASE u # req[p].user
    <3>1. member'[u] = member[u] /\ roleUser'[u] = roleUser[u]
      BY <1>1, <2>1, <2>3
    <3> QED
      BY <1>3, <1>4, <2>1, <3>1 DEF Dropping
  <2> QED
    BY <2>2, <2>3
<1>7. CASE MarkRemoved(p)
  <2>1. /\ member' = [member EXCEPT ![req[p].user][req[p].church] = Removed]
        /\ roleUser' = roleUser /\ req[p].pc = "mark"
        /\ req'[p] = [req[p] EXCEPT !.pc = "drop"]
    BY <1>7 DEF MarkRemoved
  <2>2. req[p].op = "remove" /\ req[p] \in Request
    BY <1>1, <2>1, IdlePc, RequestNames
  <2>3. CASE u = req[p].user /\ c = req[p].church
    BY <2>1, <2>2, <2>3 DEF Dropping, Request
  <2>4. CASE ~(u = req[p].user /\ c = req[p].church)
    <3>1. member'[u][c] = member[u][c]
      BY <1>1, <2>1, <2>4
    <3> QED
      BY <1>3, <1>4, <2>1, <3>1 DEF Dropping
  <2> QED
    BY <2>3, <2>4
<1>8. CASE DropRoles(p)
  <2>1. /\ roleUser' = [roleUser EXCEPT ![req[p].user] = WithoutChurch(@, req[p].church)]
        /\ member' = member
    BY <1>8 DEF DropRoles
  <2>2. roleUser[u][x] = c /\ ~(u = req[p].user /\ c = req[p].church)
    BY <1>1, <1>3, <2>1, CellFacts DEF WithoutChurch
  <2> QED
    BY <1>4, <2>1, <2>2 DEF Dropping
<1>9. CASE GrantRole(p)
  <2>1. /\ req[p].pc = "grant" /\ member' = member
        /\ \/ roleUser' = roleUser
           \/ roleUser' = [roleUser EXCEPT ![req[p].user][req[p].role] = req[p].church]
    BY <1>9 DEF GrantRole
  <2>2. Active(member[req[p].user][req[p].church])
    <3>1. req[p].op = "assign"
      BY <1>1, <2>1, IdlePc DEF RequestOK, RoleOps
    <3> QED
      BY <1>1, <3>1 DEF Knows
  <2>3. roleUser[u][x] = c \/ (u = req[p].user /\ c = req[p].church)
    BY <1>1, <1>3, <2>1
  <2> QED
    BY <1>4, <2>1, <2>2, <2>3 DEF Dropping
<1>10. CASE Stage(p) \/ CountMembers(p) \/ WriteCount(p) \/ PutUser(p) \/ AllowRole(p)
  BY <1>5, <1>10 DEF Stage, CountMembers, WriteCount, PutUser, AllowRole, tables
<1> QED
  BY <1>6, <1>7, <1>8, <1>9, <1>10 DEF Step

(* The others of Next: nobody is being removed when a request arrives.      *)
LEMMA RolesSettledArrive ==
  ASSUME OneRequest, SerialInv, RolesSettled, NEW p \in Reqs, Arrive(p)
  PROVE  RolesSettled'
<1>1. UNCHANGED tables
  BY TypeParts, ArriveType DEF SerialInv, CountInv
<1>2. req[p] = Idle /\ Reqs = {p}
  BY DEF OneRequest, Arrive
<1> QED
  BY <1>1, <1>2, IdlePc DEF RolesSettled, Dropping, tables, Active

LEMMA RolesSettledInit == Init => RolesSettled
<1> SUFFICES ASSUME Init, NEW u \in Users, NEW x \in Roles, NEW c \in Churches, roleUser[u][x] = c
             PROVE  Active(member[u][c])
  BY DEF RolesSettled
<1>1. c \in SeedRole(u, x)
  BY CellFacts DEF Init
<1>2. SeedMember(u, c)
  BY <1>1 DEF SeedRole, SeedMember
<1> QED
  BY <1>2 DEF Init, Active, Enabled

LEMMA RolesAtRest == RolesSettled => RolesAreOfActiveMembers
BY IdlePc DEF RolesSettled, RolesAreOfActiveMembers, AtRest, Dropping

-----------------------------------------------------------------------------
(* The cached counter, between requests that do not overlap.                *)

CounterOps == AllOps \ {"adminUpdate", "delete"}

(* removeMember has ended a membership and not yet written the new count.   *)
Recounting(r, c) == r.op = "remove" /\ r.pc \in {"drop", "count", "write"} /\ r.church = c

CounterSettled ==
  \A c \in Churches : churchMembers[c] = ActiveCount(c) \/ \E p \in Reqs : Recounting(req[p], c)

LEMMA CounterSettledStep ==
  ASSUME OneRequest, SerialInv, CounterSettled, NEW p \in Reqs, Step(p), req[p].op \in CounterOps
  PROVE  CounterSettled'
<1>1. /\ TypeOK /\ RequestsOK /\ RequestOK(req[p]) /\ Knows(req[p]) /\ ~req[p].stale /\ FreshInv
      /\ churchMembers \in [Churches -> Nat] /\ member \in [Users -> [Churches -> Row]]
      /\ RowsPresent
  BY TypeParts DEF SerialInv, CountInv, RequestsOK, TypeOK
<1>2. Reqs = {p}
  BY DEF OneRequest
<1> DEFINE later(c) == Cardinality({u \in Users : Active(member'[u][c])})
<1>3. SUFFICES ASSUME NEW c \in Churches
               PROVE  churchMembers'[c] = later(c) \/ Recounting(req'[p], c)
  BY DEF CounterSettled, Recounting, Active, ActiveCount, ActiveMembers
<1>4. churchMembers[c] = ActiveCount(c) \/ Recounting(req[p], c)
  BY <1>2 DEF CounterSettled
<1>5. (\A u \in Users : Active(member'[u][c]) <=> Active(member[u][c])) => later(c) = ActiveCount(c)
  <2>1. ASSUME \A u \in Users : Active(member'[u][c]) <=> Active(member[u][c])
        PROVE  {u \in Users : Active(member'[u][c])} = ActiveMembers(c)
    BY <2>1 DEF ActiveMembers
  <2> QED
    BY <2>1 DEF ActiveCount
<1> HIDE DEF later
<1>6. CASE /\ UNCHANGED <<member, churchMembers>>
           /\ Recounting(req[p], c) => Recounting(req'[p], c)
  BY <1>4, <1>5, <1>6
<1>7. CASE (Commit(p) \/ WriteCount(p)) /\ Counted(req[p])
  <2>1. CASE c = req[p].church
    BY <1>1, <1>7, <2>1, FreshWrites DEF later
  <2>2. CASE c # req[p].church
    <3>1. churchMembers'[c] = churchMembers[c] /\ ~Recounting(req[p], c)
      BY <1>1, <1>7, <2>2 DEF Commit, WriteCount, Counted, Recounting
    <3>2. CASE WriteCount(p)
      BY <1>4, <1>5, <3>1, <3>2 DEF WriteCount
    <3>3. CASE Commit(p)
      <4>1. /\ req[p].pc = "staged" /\ req[p].op \in Recounts
            /\ member' = [member EXCEPT ![req[p].user] = Writes(req[p]).rows]
        BY <1>7, <3>3 DEF Commit, Counted
      <4>2. req[p] # Idle /\ req[p].user \in Users /\ req[p].op \in InTransaction
        BY <1>1, <4>1, IdlePc, RequestNames
      <4>3. Writes(req[p]).rows[c] = member[req[p].user][c]
        <5>1. \/ \E new : Writes(req[p]).rows = [member[req[p].user] EXCEPT ![req[p].church] = new]
              \/ Writes(req[p]).rows = [member[req[p].user] EXCEPT ![req[p].church].status = "ACTIVE"]
          BY <1>1, <4>1, <4>2, WrittenRows DEF Recounts
        <5>2. member[req[p].user] \in [Churches -> Row]
          BY <1>1, <4>2
        <5> QED
          BY <2>2, <5>1, <5>2
      <4>4. \A u \in Users : member'[u][c] = member[u][c]
        BY <1>1, <4>1, <4>3
      <4> QED
        BY <1>4, <1>5, <3>1, <4>4
    <3> QED
      BY <1>7, <3>2, <3>3
  <2> QED
    BY <2>1, <2>2
<1>8. CASE Commit(p) /\ req[p].op = "createHelper"
  <2>1. /\ req[p].pc = "staged"
        /\ member' = [member EXCEPT ![req[p].user] = Writes(req[p]).rows]
        /\ churchMembers' = [churchMembers EXCEPT ![req[p].church] = @ + 1]
    BY <1>8 DEF Commit, Recounts
  <2>2. /\ req[p] # Idle /\ req[p].user \in Users /\ req[p].op \in InTransaction
        /\ req[p].church \in Churches
    BY <1>1, <1>8, <2>1, IdlePc, RequestNames
  <2>3. /\ ~Recounting(req[p], c) /\ ~Present(req[p].user)
        /\ Writes(req[p]).rows = [member[req[p].user] EXCEPT ![req[p].church] = Enabled]
    BY <1>1, <1>8, <2>2, WrittenRows DEF Recounting, Knows, New
  <2>4. CASE c # req[p].church
    <3>1. churchMembers'[c] = churchMembers[c] /\ \A u \in Users : member'[u][c] = member[u][c]
      BY <1>1, <2>1, <2>2, <2>3, <2>4
    <3> QED
      BY <1>4, <1>5, <2>3, <3>1
  <2>5. CASE c = req[p].church
    <3>1. churchMembers'[c] = churchMembers[c] + 1
      BY <1>1, <2>1, <2>5
    <3>2. \A u \in Users : member'[u][c] = IF u = req[p].user THEN Enabled ELSE member[u][c]
      BY <1>1, <2>1, <2>2, <2>3, <2>5
    <3>3. req[p].user \notin ActiveMembers(c)
      BY <1>1, <2>2, <2>3 DEF ActiveMembers, RowsPresent, Active, Exists
    <3>4. {u \in Users : Active(member'[u][c])} = ActiveMembers(c) \cup {req[p].user}
      BY <2>2, <3>2 DEF ActiveMembers, Active, Enabled
    <3>5. ActiveMembers(c) \subseteq Users
      BY DEF ActiveMembers
    <3>6. IsFiniteSet(ActiveMembers(c))
      BY <3>5, FS_Subset, ConstantsAssumption
    <3>7. later(c) = ActiveCount(c) + 1
      BY <3>3, <3>4, <3>6, FS_AddElement DEF later, ActiveCount
    <3> QED
      BY <1>4, <2>3, <3>1, <3>7
  <2> QED
    BY <2>4, <2>5
<1>9. CASE Commit(p) /\ req[p].op = "removeHelper"
  <2>1. /\ req[p].pc = "staged" /\ churchMembers' = churchMembers
        /\ member' = [member EXCEPT ![req[p].user] = Writes(req[p]).rows]
    BY <1>9 DEF Commit, Recounts
  <2>2. req[p] # Idle /\ req[p].user \in Users /\ req[p].op \in InTransaction
    BY <1>1, <2>1, IdlePc, RequestNames
  <2>3. Writes(req[p]).rows = member[req[p].user]
    BY <1>1, <1>9, <2>2, WrittenRows
  <2>4. member' = member
    BY <1>1, <2>1, <2>2, <2>3
  <2> QED
    BY <1>4, <1>5, <1>9, <2>1, <2>4 DEF Recounting
<1>10. CASE MarkRemoved(p)
  <2>1. /\ member' = [member EXCEPT ![req[p].user][req[p].church] = Removed]
        /\ churchMembers' = churchMembers /\ req[p].pc = "mark"
        /\ req'[p] = [req[p] EXCEPT !.pc = "drop"]
    BY <1>10 DEF MarkRemoved
  <2>2. req[p].op = "remove" /\ req[p] \in Request
    BY <1>1, <2>1, IdlePc, RequestNames
  <2>3. CASE c = req[p].church
    BY <2>1, <2>2, <2>3 DEF Recounting, Request
  <2>4. CASE c # req[p].church
    <3>1. \A u \in Users : member'[u][c] = member[u][c]
      BY <1>1, <2>1, <2>4
    <3> QED
      BY <1>4, <1>5, <2>1, <3>1 DEF Recounting
  <2> QED
    BY <2>3, <2>4
<1>11. CASE DropRoles(p)
  <2>1. UNCHANGED <<member, churchMembers>> /\ req[p] # Idle
    BY <1>11, IdlePc DEF DropRoles
  <2>2. ASSUME Recounting(req[p], c)
        PROVE  Recounting(req'[p], c)
    <3>1. req' = [req EXCEPT ![p].pc = "count"]
      BY <1>11, <2>2 DEF DropRoles, Recounting, AfterDrop
    <3>2. req'[p] = [req[p] EXCEPT !.pc = "count"] /\ req[p] \in Request
      BY <1>1, <3>1 DEF RequestsOK
    <3> QED
      BY <2>2, <3>2 DEF Recounting, Request
  <2> QED
    BY <1>6, <2>1, <2>2
<1>12. CASE CountMembers(p)
  <2>1. UNCHANGED <<member, churchMembers>>
    BY <1>12 DEF CountMembers, tables
  <2>2. req'[p].pc = "write" /\ req'[p].op = req[p].op /\ req'[p].church = req[p].church
    BY <1>1, <1>12 DEF CountMembers, RequestsOK, Request
  <2> QED
    BY <1>6, <2>1, <2>2 DEF Recounting
<1>13. CASE Stage(p) \/ GrantRole(p) \/ PutUser(p) \/ AllowRole(p)
  <2>1. UNCHANGED <<member, churchMembers>> /\ ~Recounting(req[p], c)
    BY <1>13 DEF Stage, GrantRole, PutUser, AllowRole, tables, Recounting
  <2> QED
    BY <1>6, <2>1
<1>14. Commit(p) => \/ Counted(req[p]) \/ req[p].op \in {"createHelper", "removeHelper"}
  <2> SUFFICES ASSUME Commit(p)
               PROVE  Counted(req[p]) \/ req[p].op \in {"createHelper", "removeHelper"}
    OBVIOUS
  <2>1. req[p].pc = "staged" /\ req[p] # Idle
    BY IdlePc DEF Commit
  <2>2. req[p].op \in InTransaction
    BY <1>1, <2>1, RequestNames
  <2> QED
    BY <2>1, <2>2 DEF Counted, InTransaction, Recounts, CounterOps
<1>15. WriteCount(p) => Counted(req[p])
  BY DEF WriteCount, Counted
<1> QED
  BY <1>7, <1>8, <1>9, <1>10, <1>11, <1>12, <1>13, <1>14, <1>15 DEF Step

LEMMA CounterSettledArrive ==
  ASSUME OneRequest, SerialInv, CounterSettled, NEW p \in Reqs, Arrive(p)
  PROVE  CounterSettled'
<1>1. UNCHANGED tables
  BY TypeParts, ArriveType DEF SerialInv, CountInv
<1>2. req[p] = Idle /\ Reqs = {p}
  BY DEF OneRequest, Arrive
<1> QED
  BY <1>1, <1>2, IdlePc
     DEF CounterSettled, Recounting, tables, Active, ActiveCount, ActiveMembers

LEMMA CounterAtRest == CounterSettled => CounterIsExact
BY IdlePc DEF CounterSettled, CounterIsExact, AtRest, Recounting

-----------------------------------------------------------------------------
(* Accounts the platform has deleted, between requests that do not overlap. *)

DeletedClean ==
  /\ \A u \in Users : users[u].deleted =>
       /\ Present(u)
       /\ \A x \in Roles : roleUser[u][x] = None
       /\ \A c \in Churches : ~Active(member[u][c])
  /\ \A p \in Reqs : req[p] # Idle => ~users[req[p].user].deleted

LEMMA DeletedCleanStep ==
  ASSUME OneRequest, SerialInv, DeletedClean, NEW p \in Reqs, Step(p) \/ Fail(p)
  PROVE  DeletedClean'
<1>1. /\ TypeOK /\ RequestsOK /\ RequestOK(req[p]) /\ Knows(req[p])
      /\ users \in [Users -> Account] /\ roleUser \in [Users -> [Roles -> RoleCell]]
      /\ member \in [Users -> [Churches -> Row]]
  BY TypeParts DEF SerialInv, CountInv, RequestsOK, TypeOK
<1>2. Reqs = {p}
  BY DEF OneRequest
<1>3. req[p] # Idle /\ req[p].user \in Users /\ ~users[req[p].user].deleted
  <2>1. req[p] # Idle
    BY IdlePc DEF Step, Stage, Commit, MarkRemoved, DropRoles, GrantRole, CountMembers,
                  WriteCount, PutUser, AllowRole, Fail
  <2> QED
    BY <1>1, <2>1, RequestNames DEF DeletedClean
<1>4. req'[p] = Idle \/ req'[p].user = req[p].user
  BY <1>1, OwnStep DEF Own
<1>5. PICK v \in Users : v = req[p].user
  BY <1>3
<1>6. \A u \in Users \ {v} :
        users'[u] = users[u] /\ roleUser'[u] = roleUser[u] /\ member'[u] = member[u]
  <2>1. CASE Commit(p)
    BY <1>1, <1>5, <2>1 DEF Commit
  <2>2. CASE MarkRemoved(p) \/ DropRoles(p) \/ GrantRole(p) \/ PutUser(p)
    BY <1>1, <1>5, <2>2 DEF MarkRemoved, DropRoles, GrantRole, PutUser
  <2>3. CASE UNCHANGED <<users, roleUser, member>>
    BY <2>3
  <2> QED
    BY <2>1, <2>2, <2>3 DEF Step, Stage, CountMembers, WriteCount, AllowRole, Fail, tables
<1>7. ASSUME ~Commit(p)
      PROVE  ~users'[v].deleted
  <2>1. users' = users \/ users' = [users EXCEPT ![v].status = req[p].status]
    BY <1>5, <1>7 DEF Step, Stage, MarkRemoved, DropRoles, GrantRole, CountMembers, WriteCount,
                      PutUser, AllowRole, Fail, tables
  <2>2. users'[v].deleted = users[v].deleted
    BY <1>1, <2>1 DEF Account
  <2> QED
    BY <1>3, <1>5, <2>2
<1>8. ASSUME Commit(p), users'[v].deleted
      PROVE  /\ users'[v].status # "NONE"
             /\ \A x \in Roles : roleUser'[v][x] = None
             /\ \A c \in Churches : ~Active(member'[v][c])
  <2> DEFINE r == req[p]
             w == Writes(r)
  <2>1. r.op \in InTransaction
    BY <1>1, <1>3, <1>8, RequestNames DEF Commit
  <2>2. users'[v] = w.account /\ roleUser'[v] = w.roles /\ member'[v] = w.rows
    BY <1>1, <1>5, <1>8 DEF Commit
  <2>3. r.op = "delete"
    <3>1. ~Pending.deleted /\ ~Enabled.deleted
      BY DEF Pending, Enabled
    <3>2. users[v] \in Account /\ ~users[v].deleted
      BY <1>1, <1>3, <1>5
    <3>3. r.op # "delete" =>
            \/ w.account \in {Pending, Enabled, users[v]}
            \/ \E s : w.account = [users[v] EXCEPT !.status = s]
      BY <1>1, <1>5, <2>1, WrittenAccount DEF InTransaction
    <3>4. r.op # "delete" => ~w.account.deleted
      BY <3>1, <3>2, <3>3 DEF Account
    <3> QED
      BY <1>8, <2>2, <3>4
  <2>4. /\ w.rows = [c \in Churches |-> IF Exists(member[r.user][c]) THEN Removed
                                        ELSE NoMembership]
        /\ w.roles = NoRoles
    BY <1>1, <2>1, <2>3, WrittenRows, WrittenRoles
  <2>5. w.account = [status |-> "SUSPENDED", deleted |-> TRUE]
    BY <1>1, <2>1, <2>3, WrittenAccount
  <2>6. ~Active(Removed) /\ ~Active(NoMembership)
    BY DEF Active, Removed, NoMembership
  <2> HIDE DEF r, w
  <2>7. w.account.status # "NONE"
    BY <2>5
  <2> QED
    BY <2>2, <2>4, <2>6, <2>7 DEF NoRoles
<1>9. req'[p] # Idle => ~users'[v].deleted
  <2>1. Commit(p) => req'[p] = Idle
    BY DEF Commit, Settle
  <2> QED
    BY <1>7, <2>1
<1>10. ASSUME NEW u \in Users, users'[u].deleted
       PROVE  /\ users'[u].status # "NONE"
              /\ \A x \in Roles : roleUser'[u][x] = None
              /\ \A c \in Churches : ~Active(member'[u][c])
  <2>1. CASE u = v
    BY <1>7, <1>8, <1>10, <2>1
  <2>2. CASE u # v
    <3>1. users'[u] = users[u] /\ roleUser'[u] = roleUser[u] /\ member'[u] = member[u]
      BY <1>6, <2>2
    <3> QED
      BY <1>10, <3>1 DEF DeletedClean, Present
  <2> QED
    BY <2>1, <2>2
<1>11. \A q \in Reqs : req'[q] # Idle => ~users'[req'[q].user].deleted
  BY <1>2, <1>4, <1>5, <1>9
<1> QED
  BY <1>10, <1>11 DEF DeletedClean, Present, Active, Idle

LEMMA DeletedCleanArrive ==
  ASSUME OneRequest, SerialInv, DeletedClean, NEW p \in Reqs, Arrive(p), req'[p].op # "add"
  PROVE  DeletedClean'
<1>1. TypeOK /\ RequestsOK /\ UNCHANGED tables /\ TypeOK' /\ RequestOK(req'[p])
  <2>1. TypeOK /\ RequestsOK
    BY TypeParts DEF SerialInv, CountInv
  <2>2. RequestsOK' /\ UNCHANGED tables
    BY <2>1, ArriveType
  <2>3. TypeOK'
    BY <2>1, <2>2, ArriveKeepsType
  <2> QED
    BY <2>1, <2>2, <2>3 DEF TypeOK
<1>2. Knows(req'[p]) /\ Fresh(req'[p]) /\ Reqs = {p}
  BY <1>1, ArriveKnows DEF OneRequest
<1>3. req'[p].user \in Users /\ req'[p].op \in AllOps
  <2>1. req'[p] # Idle
    BY <1>2, IdlePc DEF Fresh
  <2> QED
    BY <1>1, <2>1, RequestNames
<1>4. ~users[req'[p].user].deleted
  <2>1. CASE req'[p].op \in OfAccount
    BY <1>2, <2>1 DEF Knows
  <2>2. CASE req'[p].op \in New
    BY <1>2, <1>3, <2>2 DEF Knows, DeletedClean
  <2>3. CASE req'[p].op \in {"removeHelper", "assign", "removeRole"}
    <3>1. Active(member[req'[p].user][req'[p].church])
      BY <1>2, <2>3 DEF Knows
    <3>2. req'[p].church \in Churches
      <4>1. req'[p] # Idle
        BY <1>2, IdlePc DEF Fresh
      <4> QED
        BY <1>1, <2>3, <4>1 DEF RequestOK, AtChurch, AllOps
    <3> QED
      BY <1>3, <3>1, <3>2 DEF DeletedClean
  <2> QED
    BY <1>3, <2>1, <2>2, <2>3 DEF AllOps, OfAccount, New
<1> QED
  BY <1>1, <1>2, <1>4 DEF DeletedClean, tables, Present, Active, Idle

LEMMA DeletedCleanInit == Init => DeletedClean
<1> SUFFICES ASSUME Init
             PROVE  DeletedClean
  OBVIOUS
<1>1. \A u \in Users : ~users[u].deleted
  BY DEF Init, Enabled, NoAccount
<1>2. \A p \in Reqs : req[p] = Idle
  BY DEF Init
<1> QED
  BY <1>1, <1>2 DEF DeletedClean

LEMMA DeletedAtRest == DeletedClean => DeletedHoldsNothing
BY DEF DeletedClean, DeletedHoldsNothing, RolesOf, ActiveChurches

-----------------------------------------------------------------------------
(* The scenarios of the runs: only the endpoints of the scenario are        *)
(* called, and it never changes.                                            *)

CallsOnly == Only(Calls[scenario])

ScenarioInv ==
  /\ SerialInv /\ CallsOnly
  /\ scenario = "church" /\ ~MayFail => RolesSettled /\ CounterSettled
  /\ scenario = "platform" => DeletedClean

LEMMA ScenarioCalls ==
  /\ \A s : s = "church" => Calls[s] \subseteq RoleOps \cap CounterOps
  /\ \A s : s = "platform" => "add" \notin Calls[s]
BY DEF Calls, RoleOps, CounterOps, AllOps

LEMMA ScenarioInit == MCInit => ScenarioInv
BY SerialInit, RolesSettledInit, DeletedCleanInit
   DEF MCInit, ScenarioInv, CallsOnly, Only, Init, CounterSettled

LEMMA CallsOnlyNext ==
  ASSUME OneRequest, ScenarioInv, [MCNext]_<<vars, scenario>>
  PROVE  CallsOnly' /\ scenario' = scenario
<1>1. scenario' = scenario
  BY DEF MCNext
<1>2. RequestsOK
  BY TypeParts DEF ScenarioInv, SerialInv, CountInv
<1>3. ASSUME NEW p \in Reqs, Arrive(p), Asked(req'[p])
      PROVE  CallsOnly'
  <2>1. Reqs = {p}
    BY DEF OneRequest
  <2> QED
    BY <1>1, <1>3, <2>1 DEF CallsOnly, Only, Asked, Idle
<1>4. ASSUME NEW p \in Reqs, Step(p) \/ Fail(p)
      PROVE  CallsOnly'
  <2>1. Reqs = {p}
    BY DEF OneRequest
  <2>2. req'[p] = Idle \/ req'[p].op = req[p].op
    BY <1>2, <1>4, OwnStep DEF Own
  <2>3. req'[p] = Idle \/ req[p] # Idle
    BY <1>4, IdlePc DEF Step, Stage, Commit, MarkRemoved, DropRoles, GrantRole, CountMembers,
                        WriteCount, PutUser, AllowRole, Fail
  <2> QED
    BY <1>1, <2>1, <2>2, <2>3 DEF ScenarioInv, CallsOnly, Only, Idle
<1>5. CASE UNCHANGED <<vars, scenario>>
  BY <1>5 DEF ScenarioInv, CallsOnly, Only, vars, Idle
<1> QED
  BY <1>1, <1>3, <1>4, <1>5 DEF MCNext

LEMMA ScenarioNext ==
  ASSUME OneRequest, ScenarioInv, [MCNext]_<<vars, scenario>>
  PROVE  ScenarioInv'
<1>1. [Next]_vars
  BY DEF MCNext, Next
<1>2. SerialInv' /\ CallsOnly' /\ scenario' = scenario
  BY <1>1, SerialNext, CallsOnlyNext DEF ScenarioInv
<1>3. ASSUME NEW p \in Reqs, Arrive(p), Asked(req'[p])
      PROVE  ScenarioInv'
  <2>1. scenario = "platform" => req'[p].op # "add"
    BY <1>3, ScenarioCalls DEF Asked
  <2> QED
    BY <1>2, <1>3, <2>1, RolesSettledArrive, CounterSettledArrive, DeletedCleanArrive
       DEF ScenarioInv
<1>4. ASSUME NEW p \in Reqs, Step(p)
      PROVE  ScenarioInv'
  <2>1. req[p] # Idle
    BY <1>4, IdlePc DEF Step, Stage, Commit, MarkRemoved, DropRoles, GrantRole, CountMembers,
                        WriteCount, PutUser, AllowRole
  <2>2. req[p].op \in Calls[scenario]
    BY <2>1 DEF ScenarioInv, CallsOnly, Only
  <2>3. scenario = "church" => req[p].op \in RoleOps \cap CounterOps
    BY <2>2, ScenarioCalls
  <2> QED
    BY <1>2, <1>4, <2>3, RolesSettledStep, CounterSettledStep, DeletedCleanStep DEF ScenarioInv
<1>5. ASSUME NEW p \in Reqs, Fail(p)
      PROVE  ScenarioInv'
  <2>1. MayFail
    BY <1>5 DEF Fail
  <2> QED
    BY <1>2, <1>5, <2>1, DeletedCleanStep DEF ScenarioInv
<1>6. CASE UNCHANGED <<vars, scenario>>
  <2>1. RolesSettled => RolesSettled'
    BY <1>6 DEF vars, RolesSettled, Dropping, Active
  <2>2. CounterSettled => CounterSettled'
    BY <1>6 DEF vars, CounterSettled, Recounting, Active, ActiveCount, ActiveMembers
  <2>3. DeletedClean => DeletedClean'
    BY <1>6 DEF vars, DeletedClean, Present, Active, Idle
  <2> QED
    BY <1>2, <2>1, <2>2, <2>3 DEF ScenarioInv
<1> QED
  BY <1>3, <1>4, <1>5, <1>6 DEF MCNext

(* The services of a church, called one at a time, leave its counter equal  *)
(* to the number of its active members: every handler that changes that     *)
(* number recounts or adds the one account it creates.                      *)
THEOREM CounterExact ==
  ASSUME OneRequest, MayFail = FALSE
  PROVE  MCSpec => []CounterExactAtRest
<1>1. ScenarioInv /\ [MCNext]_<<vars, scenario>> => ScenarioInv'
  BY ScenarioNext
<1>2. ScenarioInv => CounterExactAtRest
  BY CounterAtRest DEF ScenarioInv, CounterExactAtRest
<1> QED
  BY <1>1, <1>2, ScenarioInit, PTL DEF MCSpec

(* Called one at a time they leave a role in a church with active members   *)
(* only: removeMember takes the roles with the membership, and whoever      *)
(* gives a role asks for the membership or writes it.                       *)
THEOREM RolesActive ==
  ASSUME OneRequest, MayFail = FALSE
  PROVE  MCSpec => []RolesOfActiveMembers
<1>1. ScenarioInv /\ [MCNext]_<<vars, scenario>> => ScenarioInv'
  BY ScenarioNext
<1>2. ScenarioInv => RolesOfActiveMembers
  BY RolesAtRest DEF ScenarioInv, RolesOfActiveMembers
<1> QED
  BY <1>1, <1>2, ScenarioInit, PTL DEF MCSpec

(* An account the platform deletes keeps no role and no active membership,  *)
(* and no handler that runs alone gives it one again.                       *)
THEOREM DeletedEmpty ==
  ASSUME OneRequest
  PROVE  MCSpec => []DeletedKeepsNothing
<1>1. ScenarioInv /\ [MCNext]_<<vars, scenario>> => ScenarioInv'
  BY ScenarioNext
<1>2. ScenarioInv => DeletedKeepsNothing
  BY DeletedAtRest DEF ScenarioInv, DeletedKeepsNothing
<1> QED
  BY <1>1, <1>2, ScenarioInit, PTL DEF MCSpec
=============================================================================
