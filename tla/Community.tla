------------------------------- MODULE Community -------------------------------
(***************************************************************************)
(* application/community: posts, comments and replies of one church, with  *)
(* their pictures on disk.  A picture is stored before its row is created  *)
(* and deleted before its row is; what is below a row is deleted in        *)
(* statements of their own, and by the foreign keys' cascades with what    *)
(* came meanwhile.  Every await is a step of its own, requests overlap.    *)
(* Reactions are in Toggles, the paged lists in Listings.                  *)
(***************************************************************************)
EXTENDS Naturals, FiniteSets

CONSTANTS
  Posts, Comments, Replies,   \* ids
  Users, Reqs,
  MaxCalls,                   \* bound of an instance
  MayDie                      \* whether requests may die

Items == Posts \cup Comments \cup Replies
CommunityAssumption ==
  /\ MaxCalls \in Nat /\ MayDie \in BOOLEAN /\ "none" \notin Items
  /\ Posts \cap Comments = {} /\ Posts \cap Replies = {} /\ Comments \cap Replies = {}

VARIABLES
  item,     \* rows by id: state, author, row they belong to, with a picture or not
  files,    \* pictures stored, each under the id of its row
  member,   \* users with an active membership of the church
  behind,   \* rows that came, or failed to come, behind a removal's look at what to delete
  broken,   \* rows in the list of a removal that died
  req, calls

vars == <<item, files, member, behind, broken, req, calls>>

NoItem == [state |-> "new", by |-> "none", under |-> "none", picture |-> FALSE]
Idle == [op |-> "none"]
Live(i) == item[i].state = "live"
Below(i) == {j \in Items : Live(j) /\ item[j].under = i}
Tree(i) == {i} \cup Below(i) \cup UNION {Below(j) : j \in Below(i)}

Init ==
  /\ item = [i \in Items |-> NoItem] /\ files = {} /\ member = Users /\ behind = {} /\ broken = {}
  /\ req = [p \in Reqs |-> Idle] /\ calls = 0

Arrive(p, r) == req[p] = Idle /\ calls < MaxCalls /\ calls' = calls + 1 /\ req' = [req EXCEPT ![p] = r]
Becomes(p, r) == req' = [req EXCEPT ![p] = r] /\ UNCHANGED calls
Ends(p) == Becomes(p, Idle)
-----------------------------------------------------------------------------
(* Rows the looks of removals that are under way have passed.               *)
Doomed == UNION {req[p].tree : p \in {q \in Reqs : req[q].op \in {"unlink", "delete"}}}

Fresh(i) == item[i] = NoItem /\ \A p \in Reqs : req[p].op = "insert" => req[p].id # i

(* A post, comment or reply: its author is an active member of the church,  *)
(* what it belongs to is there, and its picture is stored.                  *)
Write(p, i, u, under) ==
  /\ Fresh(i) /\ u \in member
  /\ \E picture \in BOOLEAN :
       /\ Arrive(p, [op |-> "insert", id |-> i,
                     row |-> [state |-> "live", by |-> u, under |-> under, picture |-> picture]])
       /\ files' = IF picture THEN files \cup {i} ELSE files
  /\ UNCHANGED <<item, member, behind, broken>>

createPost(p) == \E i \in Posts, u \in Users : Write(p, i, u, "none")
addComment(p) == \E i \in Comments, u \in Users, t \in Posts : Live(t) /\ Write(p, i, u, t)
replyToComment(p) == \E i \in Replies, u \in Users, t \in Comments : Live(t) /\ Write(p, i, u, t)

(* The foreign key refuses a row whose post or comment has gone.            *)
Insert(p) ==
  LET r == req[p]
      there == r.row.under = "none" \/ Live(r.row.under) IN
  /\ r.op = "insert"
  /\ item' = [item EXCEPT ![r.id] = IF there THEN r.row ELSE [@ EXCEPT !.state = "gone"]]
  /\ behind' = IF ~there \/ r.row.under \in Doomed \cup behind THEN behind \cup {r.id} ELSE behind
  /\ Ends(p) /\ UNCHANGED <<files, member, broken>>
-----------------------------------------------------------------------------
(* Mutant: the pictures of replies are left on disk. *)
CommentsOnly(i) == {i} \cup Below(i)

PicturesOf(i) == Tree(i)

(* Only the author removes a row, as an active member; what is below it is  *)
(* read once, and the pictures go one by one.                               *)
Remove(p, i) ==
  /\ Live(i) /\ item[i].by \in member
  /\ Arrive(p, [op |-> "unlink", id |-> i, tree |-> Tree(i),
                todo |-> {j \in PicturesOf(i) : item[j].picture}])
  /\ UNCHANGED <<item, files, member, behind, broken>>

removePost(p) == \E i \in Posts : Remove(p, i)
deleteComment(p) == \E i \in Comments : Remove(p, i)
deleteReply(p) == \E i \in Replies : Remove(p, i)

Unlink(p) ==
  LET r == req[p] IN
  /\ r.op = "unlink" /\ r.todo # {}
  /\ \E j \in r.todo :
       files' = files \ {j} /\ Becomes(p, [r EXCEPT !.todo = @ \ {j}])
  /\ UNCHANGED <<item, member, behind, broken>>

(* deleteMany of the replies to each comment that was read, of all comments *)
(* of the post, and of the replies to a comment.                            *)
Gone(S) == [i \in Items |-> IF i \in S THEN [item[i] EXCEPT !.state = "gone"] ELSE item[i]]

DeleteReplies(p) ==
  LET r == req[p] IN
  /\ r.op = "unlink" /\ r.todo = {} /\ r.id \notin Replies
  /\ item' = Gone({i \in Replies : Live(i) /\ item[i].under \in r.tree})
  /\ Becomes(p, [r EXCEPT !.op = "delete"])
  /\ UNCHANGED <<files, member, behind, broken>>

DeleteComments(p) ==
  LET r == req[p]
      comments == Below(r.id) IN
  /\ r.op = "delete" /\ r.id \in Posts /\ comments # {}
  /\ item' = Gone(UNION {Tree(i) : i \in comments})
  /\ UNCHANGED <<files, member, behind, broken, req, calls>>

(* The row itself, with all that hangs on it by now; where another request  *)
(* has deleted it the statement fails.                                      *)
DeleteRow(p) ==
  LET r == req[p] IN
  /\ r.op = "delete" \/ (r.op = "unlink" /\ r.todo = {} /\ r.id \in Replies)
  /\ item' = IF Live(r.id) THEN Gone(Tree(r.id)) ELSE item
  /\ Ends(p) /\ UNCHANGED <<files, member, behind, broken>>

(* A request dies with what it has done so far; a picture that was stored   *)
(* stays without a row, rows whose pictures are gone stay.                  *)
Die(p) ==
  LET r == req[p] IN
  /\ MayDie /\ r # Idle /\ Ends(p)
  /\ IF r.op = "insert"
     THEN behind' = behind \cup {r.id} /\ item' = [item EXCEPT ![r.id].state = "gone"] /\ UNCHANGED broken
     ELSE broken' = broken \cup r.tree /\ UNCHANGED <<item, behind>>
  /\ UNCHANGED <<files, member>>

(* Memberships end and begin elsewhere. *)
Membership(u) ==
  /\ calls < MaxCalls /\ calls' = calls + 1
  /\ member' = IF u \in member THEN member \ {u} ELSE member \cup {u}
  /\ UNCHANGED <<item, files, behind, broken, req>>

Next ==
  \/ \E p \in Reqs :
       \/ createPost(p) \/ addComment(p) \/ replyToComment(p) \/ Insert(p)
       \/ removePost(p) \/ deleteComment(p) \/ deleteReply(p)
       \/ Unlink(p) \/ DeleteReplies(p) \/ DeleteComments(p) \/ DeleteRow(p)
       \/ Die(p)
  \/ \E u \in Users : Membership(u)

Spec == Init /\ [][Next]_vars
-----------------------------------------------------------------------------
TypeOK ==
  /\ \A i \in Items : item[i].state \in {"new", "live", "gone"}
  /\ files \subseteq Items /\ member \subseteq Users /\ behind \cup broken \subseteq Items
  /\ calls \in 0..MaxCalls

Arriving(i) == \E p \in Reqs : req[p].op = "insert" /\ req[p].id = i

(* The disk agrees with the rows.  A row that readers see has its picture,  *)
(* unless a removal that is under way or died has it in its list; a picture *)
(* without a row is on its way in, or its request died, or it has come      *)
(* behind a removal's look: the cascade or the foreign key took its row and *)
(* nothing takes the picture (community.service.ts:741, :752, :781, :989).  *)
DiskAgrees ==
  \A i \in Items :
    /\ Live(i) /\ item[i].picture /\ i \notin files => i \in Doomed \cup broken
    /\ i \in files /\ ~Live(i) => Arriving(i) \/ i \in behind \cup broken
=============================================================================
