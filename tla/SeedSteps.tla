------------------------------- MODULE SeedSteps -------------------------------
(***************************************************************************)
(* The steps of prisma/seed.ts, in their order.  A step names the row it   *)
(* looks for, what a transaction creates with that row, the rows it hangs  *)
(* on (without them it warns and skips), and the row in whose creation it  *)
(* is nested, if any: the comments of a post and the votes of a review are *)
(* created only by the run that creates their post or review.              *)
(***************************************************************************)
EXTENDS Sequences

LOCAL INSTANCE SequencesExt

CONSTANTS
  Roles, Perms,          \* rolesData, permissionsData
  Granted, Rules,        \* rolePermissionsMap, roleAssignmentRules
  Churches, People,      \* churchesData, the users of each church
  AdminOf,               \* the account of a church's admin
  ChurchOf, RoleOf,      \* of a person; RoleOf is None for some
  Pros,                  \* the people who are PRO_USERs
  Reviews,               \* pairs of a reviewer and a professional
  Contents,              \* posts of a church, ads, announcements: keys
  None

SeedDataAssumption ==
  /\ Granted \subseteq Perms \X Roles /\ Rules \subseteq Roles \X Roles
  /\ ChurchOf \in [People -> Churches] /\ RoleOf \in [People -> Roles \cup {None}]
  /\ Pros \subseteq People /\ Reviews \subseteq (People \ Pros) \X Pros

Task(row, needs, under) == [row |-> row, with |-> {}, needs |-> needs, under |-> under]
Each(S, Op(_)) == LET s == SetToSeq(S) IN [i \in DOMAIN s |-> Op(s[i])]

User(x) == <<"user", x>>            Role(r) == <<"role", r>>
Perm(x) == <<"perm", x>>            Church(c) == <<"church", c>>
Member(u, c) == <<"member", u, c>>  Review(v) == <<"review", v>>
Post(c, k) == <<"post", c, k>>

Accounts ==
  Each({"superadmin", "platform"}, LAMBDA x : Task(User(x), {}, None))
AssignableRoles == Each(Roles, LAMBDA r : Task(Role(r), {}, None))
Permissions == Each(Perms, LAMBDA x : Task(Perm(x), {}, None))
Grants == Each(Granted, LAMBDA g : Task(<<"grant", g[1], g[2]>>, {Perm(g[1]), Role(g[2])}, None))
AssignmentRules ==
  Each(Rules, LAMBDA r : Task(<<"rule", r[1], r[2]>>, {Role(r[1]), Role(r[2])}, None))
(* With a church come the account and the membership of its admin.          *)
ChurchesAndAdmins ==
  Each(Churches, LAMBDA c : [Task(Church(c), {}, None) EXCEPT
         !.with = {User(AdminOf[c]), Member(AdminOf[c], c)}])
AdminRoles ==
  Each(Churches, LAMBDA c : Task(<<"holds", AdminOf[c]>>,
         {User(AdminOf[c]), Member(AdminOf[c], c), Role("CHURCH_ADMIN")}, None))

(* A user, the membership and the role: three statements. *)
ChurchUsers ==
  FlattenSeq(Each(People, LAMBDA u :
    LET c == ChurchOf[u] IN
    <<Task(User(u), {Church(c)}, None), Task(Member(u, c), {Church(c), User(u)}, None)>> \o
    (IF RoleOf[u] = None THEN <<>>
     ELSE <<Task(<<"holds", u>>, {User(u), Role(RoleOf[u])}, None)>>)))

(* Everyone of the church who is no professional follows those who are.     *)
Follows ==
  Each({f \in (People \ Pros) \X Pros : ChurchOf[f[1]] = ChurchOf[f[2]]},
       LAMBDA f : Task(<<"follow", f[1], f[2]>>,
                       {Member(f[1], ChurchOf[f[1]]), Member(f[2], ChurchOf[f[2]])}, None))
ReviewsAndVotes ==
  FlattenSeq(Each(Reviews, LAMBDA v :
    <<Task(Review(v), {User(v[1]), User(v[2])}, None), Task(<<"vote", v>>, {}, Review(v))>>))
MemberCounts == Each(Churches, LAMBDA c : Task(<<"count", c>>, {Church(c)}, None))
ChurchPosts ==
  FlattenSeq(Each(Churches \X Contents, LAMBDA x :
    LET post == Post(x[1], x[2]) IN
    <<Task(post, {Church(x[1])}, None), Task(<<"comment", x>>, {}, post),
      Task(<<"reply", x>>, {}, post), Task(<<"react", x>>, {}, post)>>))
AdsRows == Each(Contents, LAMBDA k : Task(<<"ad", k>>, {}, None))
AdMetrics == Each(Contents, LAMBDA k : Task(<<"metric", k>>, {<<"ad", k>>}, None))
Announcements ==
  Each(Contents, LAMBDA k : Task(<<"announcement", k>>, {User("superadmin")}, None))
AuditLogs == Each(Churches, LAMBDA c : Task(<<"log", c>>, {User("superadmin")}, None))
NotificationSettings == Each(People, LAMBDA u : Task(<<"setting", u>>, {User(u)}, None))

Program ==
  Accounts \o AssignableRoles \o Permissions \o Grants \o AssignmentRules
  \o ChurchesAndAdmins \o AdminRoles \o ChurchUsers \o Follows \o ReviewsAndVotes
  \o MemberCounts \o ChurchPosts \o AdsRows \o AdMetrics \o Announcements
  \o AuditLogs \o NotificationSettings
=============================================================================
