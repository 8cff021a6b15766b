-------------------------- MODULE MCChurchMembership --------------------------
(***************************************************************************)
(* Small instances of ChurchMembership for TLC.  A run covers several      *)
(* scenarios: the first state picks one, and from then on only its         *)
(* endpoints are called, so their state spaces add and do not multiply.    *)
(***************************************************************************)
EXTENDS ChurchMembership, TLC

CONSTANTS admin1, admin2, root, u1, u2, c1, c2, p1, p2,
          Scenarios   \* the scenarios of a run

VARIABLE scenario

ThreeRoles == {"HELPER", "CHURCH_MEMBER", "CHURCH_ADMIN"}
FiveRoles == ThreeRoles \cup {"PASTOR", "ELDER"}

(* A chain of two grants, and ELDER, a role no rule leads to.               *)
ChainRules == {<<"CHURCH_ADMIN", "PASTOR">>, <<"PASTOR", "HELPER">>}
AdminRules == {<<"CHURCH_ADMIN", "HELPER">>}
AdminPermitted == {"CHURCH_ADMIN"}
Permitted == {"CHURCH_ADMIN", "PASTOR"}

OneOwner == [c \in {c1} |-> admin1]
TwoOwners == [c \in {c1, c2} |-> IF c = c1 THEN admin1 ELSE admin2]

NoSeed == {}
MemberSeed == {<<u1, c1, "CHURCH_MEMBER">>}

(* Requests are interchangeable. *)
RequestSymmetry == Permutations(Reqs)

(* The handlers of a church, those of the platform left out.                *)
ChurchOps == AllOps \ {"adminUpdate", "delete", "setStatus"}

(* counting: what touches the member counter; moving: what moves roles;     *)
(* updating: an update sets the status, then the role; the others name what *)
(* they are about.                                                          *)
Calls ==
  [counting |-> {"register", "createUser", "createHelper", "approve", "add",
                 "addNew", "remove"},
   moving |-> {"approve", "add", "remove", "assign", "removeRole", "removeHelper"},
   updating |-> {"updateMember", "assign", "remove"},
   locking |-> {"approve", "add", "remove", "assign"},
   church |-> {"register", "approve", "add", "addNew", "removeHelper", "remove",
               "assign", "removeRole", "createHelper"},
   platform |-> {"createUser", "adminUpdate", "delete", "setStatus"},
   readding |-> {"add", "remove"},
   removing |-> {"assign", "remove"}]

(* Nobody acts on the super admin or on the admin of the second church;     *)
(* updates stay with two accounts; the updates of the platform give two of  *)
(* the roles and one status.                                                *)
Asked(r) ==
  /\ r.op \in Calls[scenario]
  /\ r.user \notin {root, admin2}
  /\ scenario = "updating" => r.user # u2
  /\ scenario = "platform" =>
       r.role \in Unruled \cup {None} /\ r.status \in {"SUSPENDED", None}

MCInit == Init /\ scenario \in Scenarios

MCNext ==
  /\ \E p \in Reqs : \/ Arrive(p) /\ Asked(req'[p])
                     \/ Step(p) \/ Fail(p)
  /\ UNCHANGED scenario

MCSpec == MCInit /\ [][MCNext]_<<vars, scenario>>
MCFairSpec == MCSpec /\ \A p \in Reqs : SF_vars(Step(p))
-----------------------------------------------------------------------------
(* One request at a time, none dying: between the requests of a church its  *)
(* cached counter is the number of its active members (deleteUser and       *)
(* updateUser of admin/user change memberships and do not recount).         *)
CounterExactAtRest == scenario = "church" => CounterIsExact

(* One request at a time: only active members hold a role in a church, as   *)
(* long as no admin/user.updateUser names a church in its body.             *)
RolesOfActiveMembers == scenario = "church" => RolesAreOfActiveMembers

(* One request at a time: an account the platform deleted keeps no role and *)
(* no active membership.  addMember finds a deleted account by its email    *)
(* and is no call of this scenario.                                         *)
DeletedKeepsNothing == scenario = "platform" => DeletedHoldsNothing
=============================================================================
