------------------------------- MODULE Feedback -------------------------------
(***************************************************************************)
(* application/pro-user-review: reviews of professionals, replies to them, *)
(* and the pictures of both.  There is one review of a pair of persons for *)
(* ever: a deleted one keeps its row and its unique key.  Every await is a *)
(* step of its own, requests overlap and may die.  Helpful votes and       *)
(* follows are in Toggles, the paged lists in Listings.                    *)
(***************************************************************************)
EXTENDS Naturals, FiniteSets

CONSTANTS
  Pairs,      \* reviewer and reviewed; names the review as well
  Replies,    \* ids
  Reqs, MaxCalls, MayDie

FeedbackAssumption ==
  MaxCalls \in Nat /\ MayDie \in BOOLEAN /\ Pairs \cap Replies = {} /\ "none" \notin Pairs

VARIABLES
  review,     \* by pair: state, the call that wrote it, with pictures or not
  reply,      \* by id: state, the review, the call, with pictures or not
  files,      \* pictures stored, by the call they came with
  sameChurch, \* pairs whose two active memberships are of one church
  wrote,      \* pairs whose reviewer was told the review was submitted
  loose,      \* calls whose pictures have no row, or lose it unseen
  broken,     \* reviews and replies whose deletion died
  req, calls

vars == <<review, reply, files, sameChurch, wrote, loose, broken, req, calls>>

NoReview == [state |-> "new", call |-> 0, pictures |-> FALSE]
NoReply == [state |-> "new", to |-> "none", call |-> 0, pictures |-> FALSE]
Idle == [op |-> "none"]
Live(i) == review[i].state = "live"

Init ==
  /\ review = [i \in Pairs |-> NoReview] /\ reply = [j \in Replies |-> NoReply]
  /\ files = {} /\ sameChurch = Pairs /\ wrote = {} /\ loose = {} /\ broken = {}
  /\ req = [p \in Reqs |-> Idle] /\ calls = 0

Arrive(p, r) == req[p] = Idle /\ calls < MaxCalls /\ calls' = calls + 1 /\ req' = [req EXCEPT ![p] = r]
Becomes(p, r) == req' = [req EXCEPT ![p] = r] /\ UNCHANGED calls
Ends(p) == Becomes(p, Idle)
NoRows == UNCHANGED <<review, reply, sameChurch>>
NoGhosts == UNCHANGED <<wrote, loose, broken>>
-----------------------------------------------------------------------------
(* Mutant: a deleted review is no obstacle. *)
NoneLive(i) == ~Live(i)

NoneEver(i) == review[i] = NoReview

(* Looked for with the deleted ones, before the pictures are stored.        *)
ReviewCheck(p, i) ==
  /\ i \in sameChurch /\ NoneEver(i)
  /\ \E pictures \in BOOLEAN :
       /\ Arrive(p, [op |-> "submit", id |-> i, call |-> calls + 1, pictures |-> pictures])
       /\ files' = IF pictures THEN files \cup {calls + 1} ELSE files
  /\ NoRows /\ NoGhosts

(* The unique key refuses the later of two; its pictures stay on disk.      *)
createReview(p) ==
  LET r == req[p] IN
  /\ r.op = "submit"
  /\ IF NoneEver(r.id)
     THEN /\ review' = [review EXCEPT ![r.id] =
                          [state |-> "live", call |-> r.call, pictures |-> r.pictures]]
          /\ wrote' = wrote \cup {r.id} /\ UNCHANGED loose
     ELSE loose' = loose \cup {r.call} /\ UNCHANGED <<review, wrote>>
  /\ Ends(p) /\ UNCHANGED <<reply, files, sameChurch, broken>>

(* The rating and the comment are replaced; pictures stay as they are, and  *)
(* a review deleted after the look stays deleted.                           *)
UpdateCheck(p, i) ==
  Live(i) /\ Arrive(p, [op |-> "rate", id |-> i]) /\ UNCHANGED files /\ NoRows /\ NoGhosts
updateReview(p) == req[p].op = "rate" /\ Ends(p) /\ UNCHANGED files /\ NoRows /\ NoGhosts

RepliesTo(i) == {j \in Replies : reply[j].to = i}
PicturesOf(i) ==
  (IF review[i].pictures THEN {review[i].call} ELSE {}) \cup
  {reply[j].call : j \in {k \in RepliesTo(i) : reply[k].pictures}}

(* The replies are read with the review; the pictures of all go, one by     *)
(* one, then the review's row is marked.  The replies' rows stay.           *)
DeleteCheck(p, i) ==
  /\ Live(i)
  /\ Arrive(p, [op |-> "unlink", id |-> i, todo |-> PicturesOf(i), all |-> {i} \cup RepliesTo(i)])
  /\ UNCHANGED files /\ NoRows /\ NoGhosts

Unlink(p) ==
  LET r == req[p] IN
  /\ r.op = "unlink" /\ r.todo # {}
  /\ \E f \in r.todo : files' = files \ {f} /\ Becomes(p, [r EXCEPT !.todo = @ \ {f}])
  /\ NoRows /\ NoGhosts

deleteReview(p) ==
  LET r == req[p] IN
  /\ r.op = "unlink" /\ r.todo = {} /\ r.id \in Pairs
  /\ review' = [review EXCEPT ![r.id].state = "deleted"]
  /\ loose' = loose \cup {reply[j].call : j \in RepliesTo(r.id) \ r.all}
  /\ Ends(p) /\ UNCHANGED <<reply, files, sameChurch, wrote, broken>>
-----------------------------------------------------------------------------
(* Only the reviewed replies, to a review that is not deleted.              *)
ReplyCheck(p, i, j) ==
  /\ Live(i) /\ reply[j] = NoReply /\ \A q \in Reqs : req[q].op = "reply" => req[q].id # j
  /\ \E pictures \in BOOLEAN :
       /\ Arrive(p, [op |-> "reply", id |-> j, to |-> i, call |-> calls + 1, pictures |-> pictures])
       /\ files' = IF pictures THEN files \cup {calls + 1} ELSE files
  /\ NoRows /\ NoGhosts

replyToReview(p) ==
  LET r == req[p] IN
  /\ r.op = "reply"
  /\ reply' = [reply EXCEPT ![r.id] =
                  [state |-> "live", to |-> r.to, call |-> r.call, pictures |-> r.pictures]]
  /\ loose' = IF Live(r.to) THEN loose ELSE loose \cup {r.call}
  /\ Ends(p) /\ UNCHANGED <<review, files, sameChurch, wrote, broken>>

ReplyDeleteCheck(p, j) ==
  /\ reply[j].state = "live"
  /\ Arrive(p, [op |-> "unlink", id |-> j, all |-> {j},
                todo |-> IF reply[j].pictures THEN {reply[j].call} ELSE {}])
  /\ UNCHANGED files /\ NoRows /\ NoGhosts

deleteReply(p) ==
  LET r == req[p] IN
  /\ r.op = "unlink" /\ r.todo = {} /\ r.id \in Replies
  /\ reply' = [reply EXCEPT ![r.id].state = "deleted"]
  /\ Ends(p) /\ UNCHANGED <<review, files, sameChurch>> /\ NoGhosts

(* A request dies with what it has done so far.                             *)
Die(p) ==
  LET r == req[p] IN
  /\ MayDie /\ r # Idle /\ Ends(p)
  /\ loose' = IF r.op \in {"submit", "reply"} THEN loose \cup {r.call} ELSE loose
  /\ broken' = IF r.op = "unlink" THEN broken \cup r.all ELSE broken
  /\ UNCHANGED <<review, reply, files, sameChurch, wrote>>

(* One of the two leaves the church or comes to it. *)
Move(i) ==
  /\ calls < MaxCalls /\ calls' = calls + 1
  /\ sameChurch' = IF i \in sameChurch THEN sameChurch \ {i} ELSE sameChurch \cup {i}
  /\ UNCHANGED <<review, reply, files, req>> /\ NoGhosts

Next ==
  \/ \E p \in Reqs :
       \/ \E i \in Pairs : \/ ReviewCheck(p, i) \/ UpdateCheck(p, i) \/ DeleteCheck(p, i)
                           \/ \E j \in Replies : ReplyCheck(p, i, j)
       \/ \E j \in Replies : ReplyDeleteCheck(p, j)
       \/ createReview(p) \/ updateReview(p) \/ Unlink(p) \/ deleteReview(p)
       \/ replyToReview(p) \/ deleteReply(p) \/ Die(p)
  \/ \E i \in Pairs : Move(i)

Spec == Init /\ [][Next]_vars
-----------------------------------------------------------------------------
TypeOK ==
  /\ \A i \in Pairs : review[i].state \in {"new", "live", "deleted"}
  /\ \A j \in Replies : reply[j].state \in {"new", "live", "deleted"}
  /\ files \cup loose \subseteq 1..MaxCalls /\ sameChurch \cup wrote \subseteq Pairs
  /\ broken \subseteq Pairs \cup Replies

Deleting(i) == \E p \in Reqs : req[p].op = "unlink" /\ i \in req[p].all
Submitting(f) == \E p \in Reqs : req[p].op \in {"submit", "reply"} /\ req[p].call = f

(* What readers see of a review, its replies and their pictures hangs       *)
(* together: a review, or a reply below one, that is shown with pictures    *)
(* has them on disk unless its deletion is under way or died.  What is      *)
(* stored beyond that is on its way in, or lost to a race for the unique    *)
(* key, a reply behind the look of a deletion, or a request that died       *)
(* (pro-user-review.service.ts:184, :201, :431, :436).                      *)
ShownWithPictures ==
  /\ \A i \in Pairs :
       Live(i) /\ review[i].pictures /\ review[i].call \notin files => Deleting(i) \/ i \in broken
  /\ \A j \in Replies :
       reply[j].state = "live" /\ reply[j].pictures /\ Live(reply[j].to)
       /\ reply[j].call \notin files
         => Deleting(j) \/ j \in broken
  /\ \A f \in files :
       \/ Submitting(f) \/ f \in loose
       \/ \E i \in Pairs : review[i].call = f /\ (Live(i) \/ i \in broken)
       \/ \E j \in Replies : reply[j].call = f /\ (reply[j].state = "live" \/ j \in broken)

(* Whoever was told of a review submitted still has its row, shown or       *)
(* deleted: nobody writes a second one after deleting the first             *)
(* (pro-user-review.service.ts:184, schema.prisma:239).                     *)
ReviewedOnce == [][\A i \in wrote : review'[i].call = review[i].call]_vars
=============================================================================
