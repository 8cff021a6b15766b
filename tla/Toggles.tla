-------------------------------- MODULE Toggles --------------------------------
(***************************************************************************)
(* The three toggles of the community: a reaction to a post, a helpful     *)
(* vote on a review, following a person.  Each looks for the row of target *)
(* and user and, in a later statement, deletes it by its id or creates it  *)
(* under a unique key of target and user.  Posts are deleted for good,     *)
(* their reactions before them; reviews and accounts are deleted softly.   *)
(* Requests overlap and may die.                                           *)
(***************************************************************************)
EXTENDS Integers, FiniteSets

CONSTANTS
  Kind,       \* of each target: "post", "review" or "account"
  Users,      \* those whose church is the target's, the author left out
  Reqs, MaxCalls, MayDie

Targets == DOMAIN Kind
TogglesAssumption == MaxCalls \in Nat /\ MayDie \in BOOLEAN

VARIABLES
  live,    \* targets that are there
  id,      \* id of the row of a target and a user; 0: there is none
  net,     \* how often the user was told "on", less how often "off"
  req, calls

vars == <<live, id, net, req, calls>>
Pairs == Targets \X Users
Idle == [op |-> "none"]
Quiet == UNCHANGED <<live, id, net>>

Init ==
  /\ live = Targets /\ id = [x \in Pairs |-> 0] /\ net = [x \in Pairs |-> 0] /\ req = [p \in Reqs |-> Idle] /\ calls = 0

Arrive(p, r) == req[p] = Idle /\ calls < MaxCalls /\ calls' = calls + 1 /\ req' = [req EXCEPT ![p] = r]
Ends(p) == req' = [req EXCEPT ![p] = Idle] /\ UNCHANGED calls
-----------------------------------------------------------------------------
(* The row that is found is remembered by its id; the next row's id is this *)
(* call's number.                                                           *)
Look(p, kind) ==
  \E t \in live, u \in Users :
    /\ Kind[t] = kind
    /\ Arrive(p, [op |-> IF id[<<t, u>>] = 0 THEN "create" ELSE "delete",
                  at |-> <<t, u>>, id |-> id[<<t, u>>], new |-> calls + 1])
    /\ Quiet

reactToPost(p) == Look(p, "post")
markReviewHelpful(p) == Look(p, "review")
toggleFollow(p) == Look(p, "account")

(* Mutant: whatever row is there is deleted, and no row is no error. *)
AnyRow(r) == TRUE

SameRow(r) == id[r.at] = r.id

(* The delete fails where the row of this id is gone, and nothing changes.  *)
Delete(p) ==
  LET r == req[p] IN
  /\ r.op = "delete"
  /\ IF SameRow(r)
     THEN id' = [id EXCEPT ![r.at] = 0] /\ net' = [net EXCEPT ![r.at] = @ - 1]
     ELSE UNCHANGED <<id, net>>
  /\ Ends(p) /\ UNCHANGED live

(* The create fails where there is a row, or the post is gone for good.     *)
Free(r) == id[r.at] = 0 /\ (Kind[r.at[1]] = "post" => r.at[1] \in live)

Create(p) ==
  LET r == req[p] IN
  /\ r.op = "create"
  /\ IF Free(r)
     THEN id' = [id EXCEPT ![r.at] = r.new] /\ net' = [net EXCEPT ![r.at] = @ + 1]
     ELSE UNCHANGED <<id, net>>
  /\ Ends(p) /\ UNCHANGED live

Cleared(f, t) == [x \in Pairs |-> IF x[1] = t THEN 0 ELSE f[x]]

(* removePost: the reactions, then the post and what came meanwhile.        *)
RemovePost(p) ==
  \E t \in live :
    /\ Kind[t] = "post" /\ Arrive(p, [op |-> "remove", at |-> <<t>>])
    /\ id' = Cleared(id, t) /\ net' = Cleared(net, t)
    /\ UNCHANGED live

Cascade(p) ==
  LET t == req[p].at[1] IN
  /\ req[p].op = "remove"
  /\ live' = live \ {t}
  /\ id' = Cleared(id, t) /\ net' = Cleared(net, t)
  /\ Ends(p)

Remove(t) ==
  /\ t \in live /\ Kind[t] # "post" /\ calls < MaxCalls
  /\ live' = live \ {t} /\ calls' = calls + 1 /\ UNCHANGED <<id, net, req>>

Die(p) == MayDie /\ req[p] # Idle /\ Ends(p) /\ Quiet

Next ==
  \/ \E p \in Reqs : \/ reactToPost(p) \/ markReviewHelpful(p) \/ toggleFollow(p)
                     \/ Delete(p) \/ Create(p) \/ RemovePost(p) \/ Cascade(p) \/ Die(p)
  \/ \E t \in Targets : Remove(t)

Spec == Init /\ [][Next]_vars
-----------------------------------------------------------------------------
TypeOK ==
  /\ live \subseteq Targets /\ id \in [Pairs -> 0..MaxCalls] /\ calls \in 0..MaxCalls

(* The answers add up: of the clicks of one user on one target that were    *)
(* answered, those told "on" are ahead of those told "off" by one where     *)
(* there is a row, and even where there is none.  A second click on a row   *)
(* another click has deleted fails and is told nothing                      *)
(* (community.service.ts:1149, pro-user-review.service.ts:476, :670).       *)
AnswersAddUp == \A x \in Pairs : net[x] = IF id[x] = 0 THEN 0 ELSE 1
=============================================================================
