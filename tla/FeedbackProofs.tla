--------------------------- MODULE FeedbackProofs ---------------------------
(***************************************************************************)
(* Proofs about reviews, their replies and their pictures: whoever was told*)
(* of a review submitted still has its row, and what is stored belongs to  *)
(* a row or to a request on its way to one.                                *)
(*                                                                         *)
(* FeedbackInv is the invariant; PicturesProofs takes from it that the rows*)
(* and the stored pictures agree.                                          *)
(***************************************************************************)
EXTENDS ContentProofs

-----------------------------------------------------------------------------
(***************************************************************************)
(* Reviews and replies.  A row is treated alike whichever of the two it    *)
(* is: it has a state, the call that wrote it and whether it came with     *)
(* pictures.  Pictures are named by calls, so what has to be known is whom *)
(* a call belongs to: a row, a request on its way to a row, or nobody.     *)
(***************************************************************************)
Opinions == ReviewPairs \cup ReviewReplies

OpinionRow(x) == IF x \in ReviewPairs THEN fReview[x] ELSE fReply[x]
Made(x) == OpinionRow(x).state # "new"
CallOf(x) == OpinionRow(x).call
Pictured(x) == OpinionRow(x).pictures

Submitting(p) == fReq[p].op \in {"submit", "reply"}
Unlinking(p) == fReq[p].op = "unlink"

RowStates == {"new", "live", "deleted"}
ReviewRows == [state : RowStates, call : Nat, pictures : BOOLEAN]
ReplyRows == [state : RowStates, to : ReviewPairs \cup {"none"}, call : Nat, pictures : BOOLEAN]

Submits == [op : {"submit"}, id : ReviewPairs, call : Nat, pictures : BOOLEAN]
Answers == [op : {"reply"}, id : ReviewReplies, to : ReviewPairs, call : Nat, pictures : BOOLEAN]
Rates == [op : {"rate"}, id : ReviewPairs]
Unlinks == [op : {"unlink"}, id : Opinions, todo : SUBSET Nat, all : SUBSET Opinions]
FeedbackRequest == {Fb!Idle} \cup Submits \cup Answers \cup Rates \cup Unlinks

FeedbackTypes ==
  /\ fReview \in [ReviewPairs -> ReviewRows] /\ fReply \in [ReviewReplies -> ReplyRows]
  /\ fFiles \subseteq Nat /\ fCalls \in Nat
  /\ fReq \in [Reqs -> FeedbackRequest]

(* The calls there are of have been made, and none is numbered 0.           *)
CallsMade ==
  /\ \A x \in Opinions : CallOf(x) <= fCalls
  /\ \A f \in fFiles : f <= fCalls /\ f # 0
  /\ \A p \in Reqs : Submitting(p) => fReq[p].call <= fCalls /\ fReq[p].call # 0
  /\ \A p \in Reqs : Unlinking(p) => \A f \in fReq[p].todo : f <= fCalls

(* A call belongs to one row or to one request, and no deletion is after    *)
(* the pictures of a request.                                               *)
CallsOwned ==
  /\ \A x, y \in Opinions : Made(x) /\ Made(y) /\ CallOf(x) = CallOf(y) => x = y
  /\ \A p, q \in Reqs : Submitting(p) /\ Submitting(q) /\ fReq[p].call = fReq[q].call => p = q
  /\ \A p \in Reqs, x \in Opinions : Submitting(p) /\ Made(x) => CallOf(x) # fReq[p].call
  /\ \A p, q \in Reqs : Submitting(p) /\ Unlinking(q) => fReq[p].call \notin fReq[q].todo

(* Only a row that came with pictures has some; a request that brings some  *)
(* has stored them.                                                         *)
PicturesStored ==
  /\ \A x \in Opinions : Made(x) /\ CallOf(x) \in fFiles => Pictured(x)
  /\ \A p \in Reqs : Submitting(p) => (fReq[p].pictures <=> fReq[p].call \in fFiles)

(* What a deletion is after: its own row, and the replies to it.            *)
UnlinksOwn ==
  \A p \in Reqs : Unlinking(p) =>
    /\ fReq[p].id \in fReq[p].all
    /\ \A x \in fReq[p].all : Made(x)
    /\ \A x \in fReq[p].all : x # fReq[p].id => x \in ReviewReplies /\ fReply[x].to = fReq[p].id
    /\ \A x \in Opinions : Made(x) /\ CallOf(x) \in fReq[p].todo => x \in fReq[p].all
    /\ CallOf(fReq[p].id) \in fFiles => CallOf(fReq[p].id) \in fReq[p].todo

(* A reply is to a review there has been, and two are not on the way to the *)
(* same row.                                                                *)
RepliesBelong ==
  /\ \A p \in Reqs : fReq[p].op = "reply" => ~Made(fReq[p].id) /\ Made(fReq[p].to)
  /\ \A p, q \in Reqs : fReq[p].op = "reply" /\ fReq[q].op = "reply" /\ fReq[p].id = fReq[q].id => p = q
  /\ \A j \in ReviewReplies : Made(j) => fReply[j].to \in ReviewPairs /\ Made(fReply[j].to)
  /\ \A j \in ReviewReplies : ~Made(j) => fReply[j].to = "none" /\ fReply[j].call = 0

WroteOnce == fWrote \subseteq ReviewPairs /\ \A i \in fWrote : Made(i)

FeedbackInv ==
  /\ FeedbackTypes /\ CallsMade /\ CallsOwned /\ PicturesStored /\ UnlinksOwn /\ RepliesBelong
  /\ WroteOnce /\ Fb!ShownWithPictures

LEMMA FeedbackInit == Fb!Init => FeedbackInv
<1> SUFFICES ASSUME Fb!Init
             PROVE  FeedbackInv
  OBVIOUS
<1>1. FeedbackTypes
  <2>1. Fb!NoReview \in ReviewRows
    BY DEF Fb!NoReview, ReviewRows, RowStates
  <2>2. Fb!NoReply \in ReplyRows
    BY DEF Fb!NoReply, ReplyRows, RowStates
  <2>3. Fb!Idle \in FeedbackRequest
    BY DEF FeedbackRequest
  <2> QED
    BY <2>1, <2>2, <2>3 DEF Fb!Init, FeedbackTypes
<1>2. \A x \in Opinions : OpinionRow(x).state = "new" /\ OpinionRow(x).call = 0
  BY DEF Fb!Init, Opinions, OpinionRow, Fb!NoReview, Fb!NoReply
<1>3. \A p \in Reqs : fReq[p].op = "none"
  BY DEF Fb!Init, Fb!Idle
<1>4. \A p \in Reqs : ~Submitting(p) /\ ~Unlinking(p) /\ fReq[p].op # "reply"
  BY <1>3 DEF Submitting, Unlinking
<1>5. \A x \in Opinions : ~Made(x) /\ CallOf(x) = 0
  BY <1>2 DEF Made, CallOf
<1>6. fFiles = {} /\ fCalls = 0 /\ fWrote = {}
  BY DEF Fb!Init
<1>7. CallsMade /\ CallsOwned /\ PicturesStored /\ UnlinksOwn
  BY <1>4, <1>5, <1>6 DEF CallsMade, CallsOwned, PicturesStored, UnlinksOwn
<1>8. RepliesBelong
  <2>1. \A j \in ReviewReplies : j \in Opinions /\ fReply[j].to = "none" /\ fReply[j].call = 0
    BY DEF Fb!Init, Fb!NoReply, Opinions
  <2> QED
    BY <1>4, <1>5, <2>1 DEF RepliesBelong
<1>9. Fb!ShownWithPictures
  <2>1. \A i \in ReviewPairs : fReview[i].state = "new"
    BY DEF Fb!Init, Fb!NoReview
  <2>2. \A j \in ReviewReplies : fReply[j].state = "new"
    BY DEF Fb!Init, Fb!NoReply
  <2> QED
    BY <1>6, <2>1, <2>2 DEF Fb!ShownWithPictures, Fb!Live
<1> QED
  BY <1>1, <1>6, <1>7, <1>8, <1>9 DEF FeedbackInv, WroteOnce

LEMMA FeedbackKinds ==
  ASSUME NEW r \in FeedbackRequest
  PROVE  /\ r.op = "submit" => r \in Submits
         /\ r.op = "reply" => r \in Answers
         /\ r.op = "unlink" => r \in Unlinks
<1>1. r = Fb!Idle \/ r \in Submits \/ r \in Answers \/ r \in Rates \/ r \in Unlinks
  BY DEF FeedbackRequest
<1>2. r = Fb!Idle => r.op = "none"
  BY DEF Fb!Idle
<1>3. r \in Submits => r.op = "submit"
  BY DEF Submits
<1>4. r \in Answers => r.op = "reply"
  BY DEF Answers
<1>5. r \in Rates => r.op = "rate"
  BY DEF Rates
<1>6. r \in Unlinks => r.op = "unlink"
  BY DEF Unlinks
<1> QED
  BY <1>1, <1>2, <1>3, <1>4, <1>5, <1>6

(* The fields a request of each kind has.                                   *)
LEMMA FeedbackFields ==
  ASSUME FeedbackTypes, NEW p \in Reqs
  PROVE  /\ Submitting(p) => fReq[p].id \in Opinions /\ fReq[p].call \in Nat
                             /\ fReq[p].pictures \in BOOLEAN
         /\ fReq[p].op = "submit" => fReq[p].id \in ReviewPairs
         /\ fReq[p].op = "reply" => fReq[p].id \in ReviewReplies /\ fReq[p].to \in ReviewPairs
         /\ Unlinking(p) => /\ fReq[p].id \in Opinions /\ fReq[p].todo \subseteq Nat
                            /\ fReq[p].all \subseteq Opinions
<1>1. fReq[p] \in FeedbackRequest
  BY DEF FeedbackTypes
<1>2. fReq[p].op = "submit" => /\ fReq[p].id \in ReviewPairs /\ fReq[p].call \in Nat
                               /\ fReq[p].pictures \in BOOLEAN
  BY <1>1, FeedbackKinds DEF Submits
<1>3. fReq[p].op = "reply" => /\ fReq[p].id \in ReviewReplies /\ fReq[p].to \in ReviewPairs
                              /\ fReq[p].call \in Nat /\ fReq[p].pictures \in BOOLEAN
  BY <1>1, FeedbackKinds DEF Answers
<1>4. fReq[p].op = "unlink" => /\ fReq[p].id \in Opinions /\ fReq[p].todo \subseteq Nat
                               /\ fReq[p].all \subseteq Opinions
  BY <1>1, FeedbackKinds DEF Unlinks
<1> QED
  BY <1>2, <1>3, <1>4 DEF Submitting, Unlinking, Opinions

LEMMA OpinionFields ==
  ASSUME FeedbackTypes, NEW x \in Opinions
  PROVE  OpinionRow(x).state \in RowStates /\ CallOf(x) \in Nat /\ Pictured(x) \in BOOLEAN
<1>1. CASE x \in ReviewPairs
  <2>1. fReview[x] \in ReviewRows /\ OpinionRow(x) = fReview[x]
    BY <1>1 DEF FeedbackTypes, OpinionRow
  <2> QED
    BY <2>1 DEF ReviewRows, CallOf, Pictured
<1>2. CASE x \notin ReviewPairs
  <2>1. fReply[x] \in ReplyRows /\ OpinionRow(x) = fReply[x]
    BY <1>2 DEF FeedbackTypes, OpinionRow, Opinions
  <2> QED
    BY <2>1 DEF ReplyRows, CallOf, Pictured
<1> QED
  BY <1>1, <1>2

(* A request ends: of the others all is as it was.                          *)
LEMMA FeedbackEnds ==
  ASSUME FeedbackTypes, NEW p \in Reqs, Fb!Ends(p)
  PROVE  /\ \A q \in Reqs : q # p => fReq'[q] = fReq[q]
         /\ fReq'[p].op = "none" /\ ~Submitting(p)' /\ ~Unlinking(p)'
         /\ fCalls' = fCalls /\ fReq' \in [Reqs -> FeedbackRequest]
<1>1. fReq' = [fReq EXCEPT ![p] = Fb!Idle] /\ fCalls' = fCalls
  BY DEF Fb!Ends, Fb!Becomes
<1>2. Fb!Idle \in FeedbackRequest /\ Fb!Idle.op = "none"
  BY DEF FeedbackRequest, Fb!Idle
<1>3. fReq'[p] = Fb!Idle
  BY <1>1 DEF FeedbackTypes
<1> QED
  BY <1>1, <1>2, <1>3 DEF FeedbackTypes, Submitting, Unlinking

(* A request arrives, or one that is under way changes.                     *)
LEMMA FeedbackBecomes ==
  ASSUME FeedbackTypes, NEW p \in Reqs, NEW r \in FeedbackRequest, fReq' = [fReq EXCEPT ![p] = r]
  PROVE  /\ \A q \in Reqs : q # p => fReq'[q] = fReq[q]
         /\ fReq'[p] = r /\ fReq' \in [Reqs -> FeedbackRequest]
BY DEF FeedbackTypes

RowsStay == UNCHANGED <<fReview, fReply>>

LEMMA RowsStayed ==
  ASSUME RowsStay
  PROVE  \A x : (Made(x)' <=> Made(x)) /\ CallOf(x)' = CallOf(x) /\ (Pictured(x)' <=> Pictured(x))
BY DEF RowsStay, Made, CallOf, Pictured, OpinionRow

(* A request ends without a row: by what died of it or was refused, its     *)
(* pictures or the rows it was after are on record.                         *)
LEMMA EndsOnRecord ==
  ASSUME FeedbackInv, NEW p \in Reqs, Fb!Ends(p), RowsStay,
         fFiles' = fFiles, fWrote' = fWrote,
         fLoose \subseteq fLoose', fBroken \subseteq fBroken',
         Submitting(p) => fReq[p].call \in fLoose',
         Unlinking(p) => fReq[p].all \subseteq fBroken'
  PROVE  FeedbackInv'
<1>0. FeedbackTypes
  BY DEF FeedbackInv
<1>1. /\ \A q \in Reqs : q # p => fReq'[q] = fReq[q]
      /\ fReq'[p].op = "none" /\ ~Submitting(p)' /\ ~Unlinking(p)'
      /\ fCalls' = fCalls /\ fReq' \in [Reqs -> FeedbackRequest]
  BY <1>0, FeedbackEnds
<1>2. \A q \in Reqs : /\ Submitting(q)' => q # p /\ Submitting(q)
                      /\ Unlinking(q)' => q # p /\ Unlinking(q)
                      /\ fReq'[q].op = "reply" => q # p
  BY <1>1 DEF Submitting, Unlinking
<1>3. fReview' = fReview /\ fReply' = fReply
  BY DEF RowsStay
<1>4. \A x : (Made(x)' <=> Made(x)) /\ CallOf(x)' = CallOf(x) /\ (Pictured(x)' <=> Pictured(x))
  BY RowsStayed
<1>5. FeedbackTypes'
  BY <1>1, <1>3 DEF FeedbackInv, FeedbackTypes
<1>6. CallsMade'
  BY <1>1, <1>2, <1>4 DEF FeedbackInv, CallsMade
<1>7. CallsOwned'
  BY <1>1, <1>2, <1>4 DEF FeedbackInv, CallsOwned
<1>8. PicturesStored'
  BY <1>1, <1>2, <1>4 DEF FeedbackInv, PicturesStored
<1>9. UnlinksOwn'
  BY <1>1, <1>2, <1>3, <1>4 DEF FeedbackInv, UnlinksOwn
<1>10. RepliesBelong'
  BY <1>1, <1>2, <1>3, <1>4 DEF FeedbackInv, RepliesBelong
<1>11. WroteOnce'
  BY <1>4 DEF FeedbackInv, WroteOnce
<1>12. \A x : Fb!Deleting(x) => Fb!Deleting(x)' \/ x \in fBroken'
  BY <1>1 DEF Fb!Deleting, Unlinking
<1>13. \A f : Fb!Submitting(f) => Fb!Submitting(f)' \/ f \in fLoose'
  BY <1>1 DEF Fb!Submitting, Submitting
<1>14. Fb!ShownWithPictures'
  <2>1. Fb!ShownWithPictures
    BY DEF FeedbackInv
  <2>2. \A i \in ReviewPairs : Fb!Live(i)' <=> Fb!Live(i)
    BY <1>3 DEF Fb!Live
  <2>3. \A x : Fb!Live(x)' <=> Fb!Live(x)
    BY <1>3 DEF Fb!Live
  <2> QED
    BY <1>3, <1>12, <1>13, <2>1, <2>3 DEF Fb!ShownWithPictures
<1> QED
  BY <1>5, <1>6, <1>7, <1>8, <1>9, <1>10, <1>11, <1>14 DEF FeedbackInv

(* A review or a reply is on its way, with the pictures of this call.       *)
LEMMA SubmitArrives ==
  ASSUME FeedbackInv, NEW p \in Reqs, NEW r \in Submits \cup Answers, Fb!Arrive(p, r), RowsStay,
         r.call = fCalls + 1, fFiles' = IF r.pictures THEN fFiles \cup {fCalls + 1} ELSE fFiles,
         UNCHANGED <<fWrote, fLoose, fBroken>>,
         r.op = "reply" => /\ ~Made(r.id) /\ Made(r.to)
                           /\ \A q \in Reqs : fReq[q].op = "reply" => fReq[q].id # r.id
  PROVE  FeedbackInv'
<1>0. FeedbackTypes
  BY DEF FeedbackInv
<1>1. /\ fReq' = [fReq EXCEPT ![p] = r] /\ fReq[p] = Fb!Idle /\ fCalls' = fCalls + 1
      /\ r \in FeedbackRequest
  BY DEF Fb!Arrive, FeedbackRequest
<1>2. /\ \A q \in Reqs : q # p => fReq'[q] = fReq[q]
      /\ fReq'[p] = r /\ fReq' \in [Reqs -> FeedbackRequest]
  BY <1>0, <1>1, FeedbackBecomes
<1>3. r.op \in {"submit", "reply"} /\ r.pictures \in BOOLEAN
  BY DEF Submits, Answers
<1>4. fReq[p].op = "none"
  BY <1>1 DEF Fb!Idle
<1>5. ~Submitting(p) /\ ~Unlinking(p) /\ Submitting(p)' /\ ~Unlinking(p)'
  BY <1>2, <1>3, <1>4 DEF Submitting, Unlinking
<1>6. \A q \in Reqs : q # p => (Submitting(q)' <=> Submitting(q)) /\ (Unlinking(q)' <=> Unlinking(q))
  BY <1>2 DEF Submitting, Unlinking
<1>7. fCalls \in Nat /\ fFiles \subseteq Nat
  BY <1>0 DEF FeedbackTypes
<1>8. fReview' = fReview /\ fReply' = fReply
  BY DEF RowsStay
<1>9. \A x : (Made(x)' <=> Made(x)) /\ CallOf(x)' = CallOf(x) /\ (Pictured(x)' <=> Pictured(x))
  BY RowsStayed
<1>10. \A x \in Opinions : CallOf(x) \in Nat /\ CallOf(x) <= fCalls
  BY <1>0, OpinionFields DEF FeedbackInv, CallsMade
<1>11. \A q \in Reqs : Submitting(q) => fReq[q].call \in Nat /\ fReq[q].call <= fCalls
  BY <1>0, FeedbackFields DEF FeedbackInv, CallsMade
<1>12. \A q \in Reqs : Unlinking(q) => fReq[q].todo \subseteq Nat /\ \A f \in fReq[q].todo : f <= fCalls
  BY <1>0, FeedbackFields DEF FeedbackInv, CallsMade
<1>13. \A f \in fFiles : f \in Nat /\ f <= fCalls /\ f # 0
  BY <1>7 DEF FeedbackInv, CallsMade
<1>14. \A f : f \in Nat /\ f <= fCalls => f # fCalls + 1 /\ f <= fCalls + 1
  BY <1>7
<1>15. \A f : f \in Nat /\ f <= fCalls => (f \in fFiles' <=> f \in fFiles)
  BY <1>14
<1>16. FeedbackTypes'
  BY <1>0, <1>1, <1>2, <1>7, <1>8 DEF FeedbackTypes
<1>17. CallsMade'
  <2>1. \A q \in Reqs : Submitting(q)' => fReq'[q].call <= fCalls' /\ fReq'[q].call # 0
    <3> SUFFICES ASSUME NEW q \in Reqs, Submitting(q)'
                 PROVE  fReq'[q].call <= fCalls' /\ fReq'[q].call # 0
      OBVIOUS
    <3>1. CASE q = p
      BY <1>1, <1>2, <1>7, <3>1
    <3>2. CASE q # p
      BY <1>1, <1>2, <1>6, <1>11, <1>14, <3>2 DEF FeedbackInv, CallsMade
    <3> QED
      BY <3>1, <3>2
  <2>2. \A q \in Reqs : Unlinking(q)' => \A f \in fReq'[q].todo : f <= fCalls'
    BY <1>1, <1>2, <1>5, <1>6, <1>12, <1>14
  <2>3. \A x \in Opinions : CallOf(x)' <= fCalls'
    BY <1>1, <1>9, <1>10, <1>14
  <2>4. \A f \in fFiles' : f <= fCalls' /\ f # 0
    BY <1>1, <1>7, <1>13, <1>14
  <2> QED
    BY <2>1, <2>2, <2>3, <2>4 DEF CallsMade
<1>18. CallsOwned'
  <2>1. \A q \in Reqs : q # p /\ Submitting(q)' => fReq'[q].call # fReq'[p].call
    BY <1>2, <1>6, <1>11, <1>14
  <2>2. \A x \in Opinions : CallOf(x)' # fReq'[p].call
    BY <1>2, <1>9, <1>10, <1>14
  <2>3. \A q \in Reqs : Unlinking(q)' => fReq'[p].call \notin fReq'[q].todo
    BY <1>2, <1>5, <1>6, <1>12, <1>14
  <2>4. \A x, y \in Opinions : Made(x)' /\ Made(y)' /\ CallOf(x)' = CallOf(y)' => x = y
    BY <1>9 DEF FeedbackInv, CallsOwned
  <2>5. \A q, s \in Reqs : Submitting(q)' /\ Submitting(s)' /\ fReq'[q].call = fReq'[s].call => q = s
    BY <1>2, <1>6, <2>1 DEF FeedbackInv, CallsOwned
  <2>6. \A q \in Reqs, x \in Opinions : Submitting(q)' /\ Made(x)' => CallOf(x)' # fReq'[q].call
    BY <1>2, <1>6, <1>9, <2>2 DEF FeedbackInv, CallsOwned
  <2>7. \A q, s \in Reqs : Submitting(q)' /\ Unlinking(s)' => fReq'[q].call \notin fReq'[s].todo
    BY <1>2, <1>5, <1>6, <2>3 DEF FeedbackInv, CallsOwned
  <2> QED
    BY <2>4, <2>5, <2>6, <2>7 DEF CallsOwned
<1>19. PicturesStored'
  <2>1. \A x \in Opinions : Made(x)' /\ CallOf(x)' \in fFiles' => Pictured(x)'
    BY <1>9, <1>10, <1>15 DEF FeedbackInv, PicturesStored
  <2>2. \A q \in Reqs : Submitting(q)' => (fReq'[q].pictures <=> fReq'[q].call \in fFiles')
    <3> SUFFICES ASSUME NEW q \in Reqs, Submitting(q)'
                 PROVE  fReq'[q].pictures <=> fReq'[q].call \in fFiles'
      OBVIOUS
    <3>1. CASE q = p
      <4>1. fCalls + 1 \notin fFiles
        BY <1>13, <1>14
      <4> QED
        BY <1>2, <3>1, <4>1
    <3>2. CASE q # p
      BY <1>2, <1>6, <1>11, <1>15, <3>2 DEF FeedbackInv, PicturesStored
    <3> QED
      BY <3>1, <3>2
  <2> QED
    BY <2>1, <2>2 DEF PicturesStored
<1>20. UnlinksOwn'
  <2>1. \A q \in Reqs : Unlinking(q)' => q # p /\ fReq'[q] = fReq[q] /\ Unlinking(q)
    BY <1>2, <1>5, <1>6
  <2>2. ASSUME NEW q \in Reqs, Unlinking(q)
        PROVE  CallOf(fReq[q].id) \in fFiles' => CallOf(fReq[q].id) \in fReq[q].todo
    <3>1. fReq[q].id \in Opinions
      BY <1>0, <2>2, FeedbackFields
    <3>2. CallOf(fReq[q].id) \in fFiles' <=> CallOf(fReq[q].id) \in fFiles
      BY <1>10, <1>15, <3>1
    <3> QED
      BY <2>2, <3>2 DEF FeedbackInv, UnlinksOwn
  <2> QED
    BY <1>8, <1>9, <2>1, <2>2 DEF FeedbackInv, UnlinksOwn
<1>21. RepliesBelong'
  <2>1. r.op = "reply" => /\ ~Made(r.id)' /\ Made(r.to)'
                          /\ \A q \in Reqs : fReq[q].op = "reply" => fReq[q].id # r.id
    BY <1>9
  <2> QED
    BY <1>2, <1>8, <1>9, <2>1 DEF FeedbackInv, RepliesBelong
<1>22. WroteOnce'
  BY <1>9 DEF FeedbackInv, WroteOnce
<1>23. Fb!ShownWithPictures'
  <2>1. Fb!ShownWithPictures
    BY DEF FeedbackInv
  <2>2. \A x : Fb!Live(x)' <=> Fb!Live(x)
    BY <1>8 DEF Fb!Live
  <2>3. \A x : Fb!Deleting(x) => Fb!Deleting(x)'
    BY <1>2, <1>4 DEF Fb!Deleting
  <2>4. \A f : Fb!Submitting(f) => Fb!Submitting(f)'
    BY <1>2, <1>4 DEF Fb!Submitting
  <2>5. \A f : f = fCalls + 1 => Fb!Submitting(f)'
    BY <1>2, <1>3 DEF Fb!Submitting
  <2>6. fFiles \subseteq fFiles' /\ \A f \in fFiles' : f \in fFiles \/ f = fCalls + 1
    OBVIOUS
  <2> QED
    BY <1>8, <2>1, <2>2, <2>3, <2>4, <2>5, <2>6 DEF Fb!ShownWithPictures
<1> QED
  BY <1>16, <1>17, <1>18, <1>19, <1>20, <1>21, <1>22, <1>23 DEF FeedbackInv

(* A request that is about no row, or a deletion that has looked for what   *)
(* it is after.                                                             *)
LEMMA OtherArrives ==
  ASSUME FeedbackInv, NEW p \in Reqs, NEW r \in Rates \cup Unlinks, Fb!Arrive(p, r), RowsStay,
         UNCHANGED <<fFiles, fWrote, fLoose, fBroken>>,
         r.op = "unlink" =>
           /\ r.id \in r.all
           /\ \A x \in r.all : Made(x)
           /\ \A x \in r.all : x # r.id => x \in ReviewReplies /\ fReply[x].to = r.id
           /\ \A f \in r.todo : \E x \in r.all : Made(x) /\ CallOf(x) = f
           /\ CallOf(r.id) \in fFiles => CallOf(r.id) \in r.todo
  PROVE  FeedbackInv'
<1>0. FeedbackTypes
  BY DEF FeedbackInv
<1>1. /\ fReq' = [fReq EXCEPT ![p] = r] /\ fReq[p] = Fb!Idle /\ fCalls' = fCalls + 1
      /\ r \in FeedbackRequest
  BY DEF Fb!Arrive, FeedbackRequest
<1>2. /\ \A q \in Reqs : q # p => fReq'[q] = fReq[q]
      /\ fReq'[p] = r /\ fReq' \in [Reqs -> FeedbackRequest]
  BY <1>0, <1>1, FeedbackBecomes
<1>3. r.op \in {"rate", "unlink"}
  BY DEF Rates, Unlinks
<1>4. r.op = "unlink" => r.all \subseteq Opinions
  BY <1>1, FeedbackKinds DEF Unlinks
<1>5. fReq[p].op = "none"
  BY <1>1 DEF Fb!Idle
<1>6. ~Submitting(p)' /\ ~Unlinking(p) /\ fReq'[p].op # "reply" /\ ~Submitting(p)
  BY <1>2, <1>3, <1>5 DEF Submitting, Unlinking
<1>7. \A q \in Reqs : q # p => (Submitting(q)' <=> Submitting(q)) /\ (Unlinking(q)' <=> Unlinking(q))
  BY <1>2 DEF Submitting, Unlinking
<1>8. fReview' = fReview /\ fReply' = fReply
  BY DEF RowsStay
<1>9. \A x : (Made(x)' <=> Made(x)) /\ CallOf(x)' = CallOf(x) /\ (Pictured(x)' <=> Pictured(x))
  BY RowsStayed
<1>10. \A f : f \in Nat /\ f <= fCalls => f <= fCalls'
  BY <1>0, <1>1 DEF FeedbackTypes
<1>11. \A x \in Opinions : CallOf(x) \in Nat /\ CallOf(x) <= fCalls
  BY <1>0, OpinionFields DEF FeedbackInv, CallsMade
<1>12. \A q \in Reqs : Submitting(q) => fReq[q].call \in Nat /\ fReq[q].call <= fCalls
  BY <1>0, FeedbackFields DEF FeedbackInv, CallsMade
<1>13. \A q \in Reqs : Unlinking(q) => fReq[q].todo \subseteq Nat /\ \A f \in fReq[q].todo : f <= fCalls
  BY <1>0, FeedbackFields DEF FeedbackInv, CallsMade
<1>14. \A f \in fFiles : f \in Nat /\ f <= fCalls /\ f # 0
  BY <1>0 DEF FeedbackInv, CallsMade, FeedbackTypes
<1>15. Unlinking(p)' => r.op = "unlink"
  BY <1>2 DEF Unlinking
<1>16. FeedbackTypes'
  BY <1>0, <1>1, <1>2, <1>8 DEF FeedbackTypes
<1>17. CallsMade'
  <2>1. \A q \in Reqs : Submitting(q)' => fReq'[q].call <= fCalls' /\ fReq'[q].call # 0
    BY <1>2, <1>6, <1>7, <1>10, <1>12 DEF FeedbackInv, CallsMade
  <2>2. \A q \in Reqs : Unlinking(q)' => \A f \in fReq'[q].todo : f <= fCalls'
    <3> SUFFICES ASSUME NEW q \in Reqs, Unlinking(q)', NEW f \in fReq'[q].todo
                 PROVE  f <= fCalls'
      OBVIOUS
    <3>1. CASE q = p
      BY <1>2, <1>4, <1>10, <1>11, <1>15, <3>1
    <3>2. CASE q # p
      BY <1>2, <1>7, <1>10, <1>13, <3>2
    <3> QED
      BY <3>1, <3>2
  <2>3. \A x \in Opinions : CallOf(x)' <= fCalls'
    BY <1>9, <1>10, <1>11
  <2>4. \A f \in fFiles' : f <= fCalls' /\ f # 0
    BY <1>10, <1>14
  <2> QED
    BY <2>1, <2>2, <2>3, <2>4 DEF CallsMade
<1>18. CallsOwned'
  <2>1. \A q \in Reqs : Submitting(q)' => Submitting(q) /\ fReq'[q] = fReq[q]
    BY <1>2, <1>6, <1>7
  <2>2. \A x, y \in Opinions : Made(x)' /\ Made(y)' /\ CallOf(x)' = CallOf(y)' => x = y
    BY <1>9 DEF FeedbackInv, CallsOwned
  <2>3. \A q, s \in Reqs : Submitting(q)' /\ Submitting(s)' /\ fReq'[q].call = fReq'[s].call => q = s
    BY <2>1 DEF FeedbackInv, CallsOwned
  <2>4. \A q \in Reqs, x \in Opinions : Submitting(q)' /\ Made(x)' => CallOf(x)' # fReq'[q].call
    BY <2>1, <1>9 DEF FeedbackInv, CallsOwned
  <2>5. \A q, s \in Reqs : Submitting(q)' /\ Unlinking(s)' => fReq'[q].call \notin fReq'[s].todo
    <3> SUFFICES ASSUME NEW q \in Reqs, NEW s \in Reqs, Submitting(q)', Unlinking(s)'
                 PROVE  fReq'[q].call \notin fReq'[s].todo
      OBVIOUS
    <3>1. CASE s = p
      <4>1. \A x \in r.all : Made(x) => CallOf(x) # fReq[q].call
        BY <1>4, <1>15, <2>1, <3>1 DEF FeedbackInv, CallsOwned
      <4> QED
        BY <1>2, <1>15, <2>1, <3>1, <4>1
    <3>2. CASE s # p
      BY <1>2, <1>7, <2>1, <3>2 DEF FeedbackInv, CallsOwned
    <3> QED
      BY <3>1, <3>2
  <2> QED
    BY <2>2, <2>3, <2>4, <2>5 DEF CallsOwned
<1>19. PicturesStored'
  BY <1>2, <1>6, <1>7, <1>9 DEF FeedbackInv, PicturesStored
<1>20. UnlinksOwn'
  <2>1. r.op = "unlink" => \A x \in Opinions : Made(x) /\ CallOf(x) \in r.todo => x \in r.all
    BY <1>4 DEF FeedbackInv, CallsOwned
  <2>2. \A q \in Reqs : Unlinking(q)' /\ q # p => fReq'[q] = fReq[q] /\ Unlinking(q)
    BY <1>2, <1>7
  <2> QED
    BY <1>2, <1>8, <1>9, <1>15, <2>1, <2>2 DEF FeedbackInv, UnlinksOwn
<1>21. RepliesBelong'
  BY <1>2, <1>6, <1>8, <1>9 DEF FeedbackInv, RepliesBelong
<1>22. WroteOnce'
  BY <1>9 DEF FeedbackInv, WroteOnce
<1>23. Fb!ShownWithPictures'
  <2>1. Fb!ShownWithPictures
    BY DEF FeedbackInv
  <2>2. \A x : Fb!Live(x)' <=> Fb!Live(x)
    BY <1>8 DEF Fb!Live
  <2>3. \A x : Fb!Deleting(x) => Fb!Deleting(x)'
    BY <1>2, <1>5 DEF Fb!Deleting
  <2>4. \A f : Fb!Submitting(f) => Fb!Submitting(f)'
    BY <1>2, <1>5 DEF Fb!Submitting
  <2> QED
    BY <1>8, <2>1, <2>2, <2>3, <2>4 DEF Fb!ShownWithPictures
<1> QED
  BY <1>16, <1>17, <1>18, <1>19, <1>20, <1>21, <1>22, <1>23 DEF FeedbackInv

(* A picture goes: it is one of a row the deletion is after.                *)
LEMMA UnlinkInv ==
  ASSUME FeedbackInv, NEW p \in Reqs, Fb!Unlink(p)
  PROVE  FeedbackInv'
<1>0. FeedbackTypes
  BY DEF FeedbackInv
<1>1. Unlinking(p)
  BY DEF Fb!Unlink, Unlinking
<1>2. PICK f \in fReq[p].todo :
        fFiles' = fFiles \ {f} /\ Fb!Becomes(p, [fReq[p] EXCEPT !.todo = @ \ {f}])
  BY DEF Fb!Unlink
<1>3. fReq[p] \in Unlinks
  BY <1>0, <1>1, FeedbackKinds DEF FeedbackTypes, Unlinking
<1>4. PICK r : r = [fReq[p] EXCEPT !.todo = @ \ {f}] /\ fReq' = [fReq EXCEPT ![p] = r] /\ fCalls' = fCalls
  BY <1>2 DEF Fb!Becomes
<1>5. /\ r \in Unlinks /\ r.op = "unlink" /\ r.id = fReq[p].id /\ r.all = fReq[p].all
      /\ r.todo = fReq[p].todo \ {f}
  BY <1>3, <1>4 DEF Unlinks
<1>6. r \in FeedbackRequest
  BY <1>5 DEF FeedbackRequest
<1>7. /\ \A q \in Reqs : q # p => fReq'[q] = fReq[q]
      /\ fReq'[p] = r /\ fReq' \in [Reqs -> FeedbackRequest]
  BY <1>0, <1>4, <1>6, FeedbackBecomes
<1>8. \A q \in Reqs : /\ Submitting(q)' => Submitting(q) /\ q # p /\ fReq'[q] = fReq[q]
                      /\ Submitting(q) => Submitting(q)' /\ q # p
                      /\ Unlinking(q)' <=> Unlinking(q)
                      /\ fReq'[q].op = "reply" => q # p
  BY <1>1, <1>5, <1>7 DEF Submitting, Unlinking
<1>9. fReview' = fReview /\ fReply' = fReply
  BY DEF Fb!Unlink, Fb!NoRows
<1>10. \A x : (Made(x)' <=> Made(x)) /\ CallOf(x)' = CallOf(x) /\ (Pictured(x)' <=> Pictured(x))
  BY <1>9, RowsStayed DEF RowsStay
<1>11. \A q \in Reqs : Submitting(q) => fReq[q].call # f
  BY <1>1 DEF FeedbackInv, CallsOwned
<1>12. \A x \in Opinions : Made(x) /\ CallOf(x) = f => x \in fReq[p].all
  BY <1>1 DEF FeedbackInv, UnlinksOwn
<1>13. UNCHANGED <<fWrote, fLoose, fBroken>>
  BY DEF Fb!Unlink, Fb!NoGhosts
<1>14. FeedbackTypes'
  BY <1>0, <1>2, <1>4, <1>7, <1>9 DEF FeedbackTypes
<1>15. CallsMade'
  BY <1>1, <1>2, <1>4, <1>5, <1>7, <1>8, <1>10 DEF FeedbackInv, CallsMade
<1>16. CallsOwned'
  BY <1>1, <1>5, <1>7, <1>8, <1>10 DEF FeedbackInv, CallsOwned
<1>17. PicturesStored'
  BY <1>2, <1>7, <1>8, <1>10, <1>11 DEF FeedbackInv, PicturesStored
<1>18. UnlinksOwn'
  BY <1>2, <1>5, <1>7, <1>8, <1>9, <1>10 DEF FeedbackInv, UnlinksOwn
<1>19. RepliesBelong'
  BY <1>7, <1>8, <1>9, <1>10 DEF FeedbackInv, RepliesBelong
<1>20. WroteOnce'
  BY <1>10, <1>13 DEF FeedbackInv, WroteOnce
<1>21. Fb!ShownWithPictures'
  <2>1. \A x : Fb!Live(x)' <=> Fb!Live(x)
    BY <1>9 DEF Fb!Live
  <2>2. \A x : Fb!Deleting(x)' <=> Fb!Deleting(x)
    BY <1>1, <1>5, <1>7 DEF Fb!Deleting, Unlinking
  <2>3. \A x \in fReq[p].all : Fb!Deleting(x)
    BY <1>1 DEF Fb!Deleting, Unlinking
  <2>4. \A g : Fb!Submitting(g) => Fb!Submitting(g)'
    BY <1>7, <1>8 DEF Fb!Submitting, Submitting
  <2>5. \A i \in ReviewPairs : Fb!Live(i) /\ fReview[i].call = f => i \in fReq[p].all
    BY <1>12 DEF Fb!Live, Made, CallOf, OpinionRow, Opinions
  <2>6. \A j \in ReviewReplies : fReply[j].state = "live" /\ fReply[j].call = f => j \in fReq[p].all
    <3>1. \A j \in ReviewReplies : j \notin ReviewPairs
      BY ContentAssumption DEF ContentAssumption, Fb!FeedbackAssumption
    <3> QED
      BY <1>12, <3>1 DEF Made, CallOf, OpinionRow, Opinions
  <2>7. Fb!ShownWithPictures
    BY DEF FeedbackInv
  <2>8. \A i \in ReviewPairs :
          Fb!Live(i)' /\ fReview'[i].pictures /\ fReview'[i].call \notin fFiles' => Fb!Deleting(i)' \/ i \in fBroken'
    BY <1>2, <1>9, <1>13, <2>1, <2>2, <2>3, <2>5, <2>7 DEF Fb!ShownWithPictures
  <2>9. \A j \in ReviewReplies :
          fReply[j].state = "live" /\ fReply[j].pictures /\ Fb!Live(fReply[j].to)
          /\ fReply[j].call \notin fFiles' => Fb!Deleting(j)' \/ j \in fBroken'
    BY <1>2, <1>13, <2>2, <2>3, <2>6, <2>7 DEF Fb!ShownWithPictures
  <2>10. \A g \in fFiles' :
           \/ Fb!Submitting(g)' \/ g \in fLoose'
           \/ \E i \in ReviewPairs : fReview[i].call = g /\ (Fb!Live(i) \/ i \in fBroken)
           \/ \E j \in ReviewReplies : fReply[j].call = g /\ (fReply[j].state = "live" \/ j \in fBroken)
    BY <1>2, <1>13, <2>4, <2>7 DEF Fb!ShownWithPictures
  <2> QED
    BY <1>9, <1>13, <2>1, <2>8, <2>9, <2>10 DEF Fb!ShownWithPictures
<1> QED
  BY <1>14, <1>15, <1>16, <1>17, <1>18, <1>19, <1>20, <1>21 DEF FeedbackInv

(* A request's row is written: the calls are still owned.                   *)
LEMMA SubmissionLands ==
  ASSUME FeedbackInv, NEW p \in Reqs, NEW i \in Opinions, Submitting(p), ~Made(i), Fb!Ends(p),
         fFiles' = fFiles,
         \A x \in Opinions : x # i => /\ (Made(x)' <=> Made(x)) /\ CallOf(x)' = CallOf(x)
                                      /\ (Pictured(x)' <=> Pictured(x)),
         CallOf(i)' = fReq[p].call, Pictured(i)' <=> fReq[p].pictures,
         \A j \in ReviewReplies : j # i => fReply'[j].to = fReply[j].to
  PROVE  CallsMade' /\ CallsOwned' /\ PicturesStored' /\ UnlinksOwn'
<1>0. FeedbackTypes
  BY DEF FeedbackInv
<1>1. /\ \A q \in Reqs : q # p => fReq'[q] = fReq[q]
      /\ fReq'[p].op = "none" /\ ~Submitting(p)' /\ ~Unlinking(p)'
      /\ fCalls' = fCalls /\ fReq' \in [Reqs -> FeedbackRequest]
  BY <1>0, FeedbackEnds
<1>2. \A q \in Reqs : /\ Submitting(q)' => q # p /\ Submitting(q) /\ fReq'[q] = fReq[q]
                      /\ Unlinking(q)' => q # p /\ Unlinking(q) /\ fReq'[q] = fReq[q]
  BY <1>1 DEF Submitting, Unlinking
<1>3. CallsMade'
  <2>1. fReq[p].call <= fCalls
    BY DEF FeedbackInv, CallsMade
  <2>2. \A x \in Opinions : CallOf(x)' <= fCalls'
    BY <1>1, <2>1 DEF FeedbackInv, CallsMade
  <2> QED
    BY <1>1, <1>2, <2>2 DEF FeedbackInv, CallsMade
<1>4. CallsOwned'
  <2>1. \A x \in Opinions : Made(x) => CallOf(x) # fReq[p].call
    BY DEF FeedbackInv, CallsOwned
  <2>2. \A x, y \in Opinions : Made(x)' /\ Made(y)' /\ CallOf(x)' = CallOf(y)' => x = y
    BY <2>1 DEF FeedbackInv, CallsOwned
  <2>3. \A q, s \in Reqs : Submitting(q)' /\ Submitting(s)' /\ fReq'[q].call = fReq'[s].call => q = s
    BY <1>2 DEF FeedbackInv, CallsOwned
  <2>4. \A q \in Reqs : Submitting(q)' => fReq'[q].call # fReq[p].call
    BY <1>2 DEF FeedbackInv, CallsOwned
  <2>5. \A q \in Reqs, x \in Opinions : Submitting(q)' /\ Made(x)' => CallOf(x)' # fReq'[q].call
    BY <1>2, <2>4 DEF FeedbackInv, CallsOwned
  <2>6. \A q, s \in Reqs : Submitting(q)' /\ Unlinking(s)' => fReq'[q].call \notin fReq'[s].todo
    BY <1>2 DEF FeedbackInv, CallsOwned
  <2> QED
    BY <2>2, <2>3, <2>5, <2>6 DEF CallsOwned
<1>5. PicturesStored'
  <2>1. fReq[p].pictures <=> fReq[p].call \in fFiles
    BY DEF FeedbackInv, PicturesStored
  <2>2. \A x \in Opinions : Made(x)' /\ CallOf(x)' \in fFiles' => Pictured(x)'
    BY <2>1 DEF FeedbackInv, PicturesStored
  <2>3. \A q \in Reqs : Submitting(q)' => (fReq'[q].pictures <=> fReq'[q].call \in fFiles')
    BY <1>2 DEF FeedbackInv, PicturesStored
  <2> QED
    BY <2>2, <2>3 DEF PicturesStored
<1>6. UnlinksOwn'
  <2>1. \A q \in Reqs : Unlinking(q) => /\ fReq[q].all \subseteq Opinions /\ fReq[q].id \in fReq[q].all
                                        /\ i \notin fReq[q].all /\ fReq[p].call \notin fReq[q].todo
    BY <1>0, FeedbackFields DEF FeedbackInv, UnlinksOwn, CallsOwned
  <2>2. ASSUME NEW q \in Reqs, Unlinking(q)
        PROVE  /\ \A x \in fReq[q].all : Made(x)'
               /\ \A x \in fReq[q].all : x # fReq[q].id => x \in ReviewReplies /\ fReply'[x].to = fReq[q].id
               /\ \A x \in Opinions : Made(x)' /\ CallOf(x)' \in fReq[q].todo => x \in fReq[q].all
               /\ \A x : x = fReq[q].id => (CallOf(x)' \in fFiles' => CallOf(x)' \in fReq[q].todo)
    BY <2>1, <2>2 DEF FeedbackInv, UnlinksOwn
  <2> QED
    BY <1>2, <2>1, <2>2 DEF UnlinksOwn
<1> QED
  BY <1>3, <1>4, <1>5, <1>6

LEMMA ReviewWritten ==
  ASSUME FeedbackInv, NEW p \in Reqs, Fb!createReview(p)
  PROVE  FeedbackInv'
<1>0. FeedbackTypes
  BY DEF FeedbackInv
<1>1. fReq[p].op = "submit" /\ Submitting(p) /\ ~Unlinking(p)
  BY DEF Fb!createReview, Submitting, Unlinking
<1>2. Fb!Ends(p) /\ UNCHANGED <<fReply, fFiles, fSameChurch, fBroken>>
  BY DEF Fb!createReview
<1>3. CASE ~Fb!NoneEver(fReq[p].id)
  <2>1. fLoose' = fLoose \cup {fReq[p].call} /\ fReview' = fReview /\ fWrote' = fWrote
    BY <1>3 DEF Fb!createReview
  <2>2. RowsStay
    BY <1>2, <2>1 DEF RowsStay
  <2>3. Submitting(p) => fReq[p].call \in fLoose'
    BY <2>1
  <2>4. fFiles' = fFiles /\ fLoose \subseteq fLoose' /\ fBroken \subseteq fBroken'
    BY <1>2, <2>1
  <2> QED
    BY <1>1, <1>2, <2>1, <2>2, <2>3, <2>4, EndsOnRecord
<1>4. CASE Fb!NoneEver(fReq[p].id)
  <2>0. PICK i : i = fReq[p].id
    OBVIOUS
  <2>1. PICK x : /\ x = [state |-> "live", call |-> fReq[p].call, pictures |-> fReq[p].pictures]
                 /\ fReview' = [fReview EXCEPT ![i] = x]
    BY <1>4, <2>0 DEF Fb!createReview
  <2>2. i \in ReviewPairs /\ i \in Opinions /\ fReq[p].call \in Nat /\ fReq[p].pictures \in BOOLEAN
    BY <1>0, <1>1, <2>0, FeedbackFields DEF Opinions
  <2>3. /\ x \in ReviewRows /\ x.state = "live" /\ x.call = fReq[p].call
        /\ x.pictures <=> fReq[p].pictures
    BY <2>1, <2>2 DEF ReviewRows, RowStates
  <2>4. fReview'[i] = x /\ \A k \in ReviewPairs : k # i => fReview'[k] = fReview[k]
    BY <1>0, <2>1, <2>2 DEF FeedbackTypes
  <2>5. ~Made(i)
    BY <1>4, <2>0, <2>2 DEF Fb!NoneEver, Fb!NoReview, Made, OpinionRow
  <2>6. \A k \in Opinions : k # i => /\ (Made(k)' <=> Made(k)) /\ CallOf(k)' = CallOf(k)
                                     /\ (Pictured(k)' <=> Pictured(k))
    BY <1>2, <2>4 DEF Made, CallOf, Pictured, OpinionRow
  <2>7. Made(i)' /\ CallOf(i)' = fReq[p].call /\ (Pictured(i)' <=> fReq[p].pictures)
    BY <2>2, <2>3, <2>4 DEF Made, CallOf, Pictured, OpinionRow
  <2>8. \A j \in ReviewReplies : fReply'[j] = fReply[j]
    BY <1>2
  <2>9. CallsMade' /\ CallsOwned' /\ PicturesStored' /\ UnlinksOwn'
    BY <1>1, <1>2, <2>2, <2>5, <2>6, <2>7, <2>8, SubmissionLands
  <2>10. /\ \A q \in Reqs : q # p => fReq'[q] = fReq[q]
         /\ fReq'[p].op = "none" /\ ~Unlinking(p)'
         /\ fCalls' = fCalls /\ fReq' \in [Reqs -> FeedbackRequest]
    BY <1>0, <1>2, FeedbackEnds
  <2>11. FeedbackTypes'
    BY <1>0, <1>2, <2>1, <2>3, <2>10 DEF FeedbackTypes
  <2>12. \A y \in ReviewPairs : y \in Opinions /\ (Made(y) => Made(y)')
    BY <2>6, <2>7 DEF Opinions
  <2>13. \A j \in ReviewReplies : j \in Opinions /\ j # i /\ (Made(j) <=> Made(j)')
    BY <2>2, <2>6, ContentAssumption DEF Opinions, ContentAssumption, Fb!FeedbackAssumption
  <2>14. RepliesBelong'
    <3>1. ASSUME NEW q \in Reqs, fReq'[q].op = "reply"
          PROVE  fReq'[q] = fReq[q] /\ fReq[q].op = "reply" /\ fReq[q].id \in ReviewReplies
                 /\ fReq[q].to \in ReviewPairs
      BY <1>0, <2>10, <3>1, FeedbackFields
    <3>2. ASSUME NEW q \in Reqs, fReq'[q].op = "reply", NEW k, k = fReq[q].id, NEW t, t = fReq[q].to
          PROVE  ~Made(k)' /\ Made(t)'
      BY <3>1, <3>2, <2>12, <2>13 DEF FeedbackInv, RepliesBelong
    <3> QED
      BY <1>2, <3>1, <3>2, <2>8, <2>12, <2>13 DEF FeedbackInv, RepliesBelong
  <2>15. WroteOnce'
    <3>1. fWrote' = fWrote \cup {i}
      BY <1>4, <2>0 DEF Fb!createReview
    <3> QED
      BY <2>2, <2>7, <2>12, <3>1 DEF FeedbackInv, WroteOnce
  <2>16. Fb!ShownWithPictures'
    <3>1. UNCHANGED <<fLoose, fBroken>> /\ fFiles' = fFiles
      BY <1>2, <1>4, <2>0 DEF Fb!createReview
    <3>2. \A k : Fb!Deleting(k)' <=> Fb!Deleting(k)
      BY <1>1, <2>10 DEF Fb!Deleting, Unlinking
    <3>3. \A f : Fb!Submitting(f) => Fb!Submitting(f)' \/ f = fReq[p].call
      BY <2>10 DEF Fb!Submitting
    <3>4. Fb!Live(i)' /\ \A k \in ReviewPairs : k # i => (Fb!Live(k)' <=> Fb!Live(k))
      BY <2>3, <2>4 DEF Fb!Live
    <3>5. fReq[p].pictures => fReq[p].call \in fFiles
      BY <1>1 DEF FeedbackInv, PicturesStored
    <3>6. \A j \in ReviewReplies : fReply[j].state = "live" => fReply[j].to # i /\ fReply[j].to \in ReviewPairs
      <4>1. \A j \in ReviewReplies : fReply[j].state = "live" => Made(j)
        BY ContentAssumption DEF Made, OpinionRow, ContentAssumption, Fb!FeedbackAssumption
      <4> QED
        BY <2>5, <4>1 DEF FeedbackInv, RepliesBelong
    <3>7. ~Fb!Live(i) /\ fReview[i].call = 0
      BY <1>4, <2>0 DEF Fb!NoneEver, Fb!NoReview, Fb!Live
    <3>8. \A f \in fFiles : f # 0
      BY DEF FeedbackInv, CallsMade
    <3>9. Fb!ShownWithPictures
      BY DEF FeedbackInv
    <3>10. \A k \in ReviewPairs :
             Fb!Live(k)' /\ fReview'[k].pictures /\ fReview'[k].call \notin fFiles
               => Fb!Deleting(k) \/ k \in fBroken
      BY <2>3, <2>4, <3>4, <3>5, <3>9 DEF Fb!ShownWithPictures
    <3>11. \A j \in ReviewReplies :
             fReply[j].state = "live" /\ fReply[j].pictures /\ Fb!Live(fReply[j].to)
             /\ fReply[j].call \notin fFiles => Fb!Deleting(j) \/ j \in fBroken
      BY <3>9 DEF Fb!ShownWithPictures
    <3>12. ASSUME NEW j \in ReviewReplies, fReply[j].state = "live", NEW t, t = fReply[j].to
           PROVE  Fb!Live(t)' <=> Fb!Live(t)
      BY <3>4, <3>6, <3>12
    <3>13. \A f \in fFiles :
             \/ Fb!Submitting(f)' \/ f \in fLoose
             \/ \E k \in ReviewPairs : fReview'[k].call = f /\ (Fb!Live(k)' \/ k \in fBroken)
             \/ \E j \in ReviewReplies : fReply[j].call = f /\ (fReply[j].state = "live" \/ j \in fBroken)
      <4> SUFFICES ASSUME NEW f \in fFiles, ~Fb!Submitting(f)', f \notin fLoose,
                          ~\E j \in ReviewReplies : fReply[j].call = f /\ (fReply[j].state = "live" \/ j \in fBroken)
                   PROVE  \E k \in ReviewPairs : fReview'[k].call = f /\ (Fb!Live(k)' \/ k \in fBroken)
        OBVIOUS
      <4>1. CASE f = fReq[p].call
        BY <2>2, <2>3, <2>4, <3>4, <4>1
      <4>2. CASE f # fReq[p].call
        <5>1. PICK k \in ReviewPairs : fReview[k].call = f /\ (Fb!Live(k) \/ k \in fBroken)
          BY <3>3, <3>9, <4>2 DEF Fb!ShownWithPictures
        <5>2. k # i
          BY <3>7, <3>8, <5>1
        <5> QED
          BY <2>4, <3>4, <5>1, <5>2
      <4> QED
        BY <4>1, <4>2
    <3> QED
      BY <1>2, <3>1, <3>2, <3>10, <3>11, <3>12, <3>13 DEF Fb!ShownWithPictures
  <2> QED
    BY <2>9, <2>11, <2>14, <2>15, <2>16 DEF FeedbackInv
<1> QED
  BY <1>3, <1>4

LEMMA ReplyWritten ==
  ASSUME FeedbackInv, NEW p \in Reqs, Fb!replyToReview(p)
  PROVE  FeedbackInv'
<1>0. FeedbackTypes
  BY DEF FeedbackInv
<1>1. fReq[p].op = "reply" /\ Submitting(p) /\ ~Unlinking(p)
  BY DEF Fb!replyToReview, Submitting, Unlinking
<1>2. Fb!Ends(p) /\ UNCHANGED <<fReview, fFiles, fSameChurch, fWrote, fBroken>> /\ fLoose \subseteq fLoose'
  BY DEF Fb!replyToReview
<1>3. PICK j : j = fReq[p].id
  OBVIOUS
<1>4. PICK t : t = fReq[p].to
  OBVIOUS
<1>5. PICK x : /\ x = [state |-> "live", to |-> t, call |-> fReq[p].call, pictures |-> fReq[p].pictures]
               /\ fReply' = [fReply EXCEPT ![j] = x]
  BY <1>3, <1>4 DEF Fb!replyToReview
<1>6. /\ j \in ReviewReplies /\ j \in Opinions /\ t \in ReviewPairs /\ t \in Opinions
      /\ fReq[p].call \in Nat /\ fReq[p].pictures \in BOOLEAN
  BY <1>0, <1>1, <1>3, <1>4, FeedbackFields DEF Opinions
<1>7. /\ x \in ReplyRows /\ x.state = "live" /\ x.call = fReq[p].call /\ x.to = t
      /\ x.pictures <=> fReq[p].pictures
  BY <1>5, <1>6 DEF ReplyRows, RowStates
<1>8. fReply'[j] = x /\ \A k \in ReviewReplies : k # j => fReply'[k] = fReply[k]
  BY <1>0, <1>5, <1>6 DEF FeedbackTypes
<1>9. ~Made(j) /\ Made(t)
  BY <1>1, <1>3, <1>4 DEF FeedbackInv, RepliesBelong
<1>10. \A k \in ReviewReplies : k \notin ReviewPairs
  BY ContentAssumption DEF ContentAssumption, Fb!FeedbackAssumption
<1>11. \A k \in Opinions : k # j => /\ (Made(k)' <=> Made(k)) /\ CallOf(k)' = CallOf(k)
                                    /\ (Pictured(k)' <=> Pictured(k))
  BY <1>2, <1>8 DEF Made, CallOf, Pictured, OpinionRow, Opinions
<1>12. Made(j)' /\ CallOf(j)' = fReq[p].call /\ (Pictured(j)' <=> fReq[p].pictures)
  BY <1>6, <1>7, <1>8, <1>10 DEF Made, CallOf, Pictured, OpinionRow
<1>13. \A k \in ReviewReplies : k # j => fReply'[k].to = fReply[k].to
  BY <1>8
<1>14. fFiles' = fFiles
  BY <1>2
<1>15. CallsMade' /\ CallsOwned' /\ PicturesStored' /\ UnlinksOwn'
  BY <1>1, <1>2, <1>6, <1>9, <1>11, <1>12, <1>13, <1>14, SubmissionLands
<1>16. /\ \A q \in Reqs : q # p => fReq'[q] = fReq[q]
       /\ fReq'[p].op = "none" /\ ~Unlinking(p)'
       /\ fCalls' = fCalls /\ fReq' \in [Reqs -> FeedbackRequest]
  BY <1>0, <1>2, FeedbackEnds
<1>17. FeedbackTypes'
  BY <1>0, <1>2, <1>5, <1>7, <1>16 DEF FeedbackTypes
<1>18. \A y \in ReviewPairs : y \in Opinions /\ y # j /\ (Made(y) <=> Made(y)')
  BY <1>6, <1>10, <1>11 DEF Opinions
<1>19. \A k \in ReviewReplies : k \in Opinions /\ (k # j => (Made(k) <=> Made(k)'))
  BY <1>11 DEF Opinions
<1>20. RepliesBelong'
  <2>1. ASSUME NEW q \in Reqs, fReq'[q].op = "reply"
        PROVE  /\ fReq'[q] = fReq[q] /\ fReq[q].op = "reply" /\ fReq[q].id \in ReviewReplies
               /\ fReq[q].to \in ReviewPairs /\ q # p
    BY <1>0, <1>16, <2>1, FeedbackFields
  <2>2. ASSUME NEW q \in Reqs, fReq'[q].op = "reply", NEW k, k = fReq[q].id, NEW u, u = fReq[q].to
        PROVE  ~Made(k)' /\ Made(u)'
    <3>1. k # j
      BY <1>1, <1>3, <2>1, <2>2 DEF FeedbackInv, RepliesBelong
    <3> QED
      BY <1>18, <1>19, <2>1, <2>2, <3>1 DEF FeedbackInv, RepliesBelong
  <2>3. ASSUME NEW k \in ReviewReplies
        PROVE  Made(k)' => fReply'[k].to \in ReviewPairs /\ \A u : u = fReply'[k].to => Made(u)'
    <3>1. CASE k = j
      BY <1>6, <1>7, <1>8, <1>9, <1>18, <3>1
    <3>2. CASE k # j
      BY <1>8, <1>18, <1>19, <3>2 DEF FeedbackInv, RepliesBelong
    <3> QED
      BY <3>1, <3>2
  <2>4. \A k \in ReviewReplies : ~Made(k)' => fReply'[k].to = "none" /\ fReply'[k].call = 0
    BY <1>8, <1>12, <1>19 DEF FeedbackInv, RepliesBelong
  <2>5. \A q, s \in Reqs :
          fReq'[q].op = "reply" /\ fReq'[s].op = "reply" /\ fReq'[q].id = fReq'[s].id => q = s
    BY <2>1 DEF FeedbackInv, RepliesBelong
  <2> QED
    BY <2>1, <2>2, <2>3, <2>4, <2>5 DEF RepliesBelong
<1>21. WroteOnce'
  BY <1>2, <1>18 DEF FeedbackInv, WroteOnce
<1>22. Fb!ShownWithPictures'
  <2>1. fBroken' = fBroken /\ fReview' = fReview
    BY <1>2
  <2>2. \A k : Fb!Deleting(k)' <=> Fb!Deleting(k)
    BY <1>1, <1>16 DEF Fb!Deleting, Unlinking
  <2>3. \A f : Fb!Submitting(f) => Fb!Submitting(f)' \/ f = fReq[p].call
    BY <1>16 DEF Fb!Submitting
  <2>4. \A k : Fb!Live(k)' <=> Fb!Live(k)
    BY <2>1 DEF Fb!Live
  <2>5. fReq[p].pictures => fReq[p].call \in fFiles
    BY <1>1 DEF FeedbackInv, PicturesStored
  <2>6. fReply[j].call = 0
    BY <1>6, <1>9 DEF FeedbackInv, RepliesBelong
  <2>7. \A f \in fFiles : f # 0
    BY DEF FeedbackInv, CallsMade
  <2>8. Fb!ShownWithPictures
    BY DEF FeedbackInv
  <2>9. \A k \in ReviewPairs :
          Fb!Live(k) /\ fReview[k].pictures /\ fReview[k].call \notin fFiles
            => Fb!Deleting(k) \/ k \in fBroken
    BY <2>8 DEF Fb!ShownWithPictures
  <2>10. ASSUME NEW k \in ReviewReplies
         PROVE  fReply'[k].state = "live" /\ fReply'[k].pictures /\ Fb!Live(fReply'[k].to)
                /\ fReply'[k].call \notin fFiles => Fb!Deleting(k) \/ k \in fBroken
    <3>1. CASE k = j
      BY <1>7, <1>8, <2>5, <3>1
    <3>2. CASE k # j
      BY <1>8, <2>8, <3>2 DEF Fb!ShownWithPictures
    <3> QED
      BY <3>1, <3>2
  <2>11. \A f \in fFiles :
           \/ Fb!Submitting(f)' \/ f \in fLoose'
           \/ \E k \in ReviewPairs : fReview[k].call = f /\ (Fb!Live(k) \/ k \in fBroken)
           \/ \E k \in ReviewReplies : fReply'[k].call = f /\ (fReply'[k].state = "live" \/ k \in fBroken)
    <3> SUFFICES ASSUME NEW f \in fFiles, ~Fb!Submitting(f)', f \notin fLoose',
                        ~\E k \in ReviewPairs : fReview[k].call = f /\ (Fb!Live(k) \/ k \in fBroken)
                 PROVE  \E k \in ReviewReplies : fReply'[k].call = f /\ (fReply'[k].state = "live" \/ k \in fBroken)
      OBVIOUS
    <3>1. CASE f = fReq[p].call
      BY <1>6, <1>7, <1>8, <3>1
    <3>2. CASE f # fReq[p].call
      <4>1. PICK k \in ReviewReplies : fReply[k].call = f /\ (fReply[k].state = "live" \/ k \in fBroken)
        BY <1>2, <2>3, <2>8, <3>2 DEF Fb!ShownWithPictures
      <4>2. k # j
        BY <2>6, <2>7, <4>1
      <4> QED
        BY <1>8, <4>1, <4>2
    <3> QED
      BY <3>1, <3>2
  <2> QED
    BY <1>14, <2>1, <2>2, <2>4, <2>9, <2>10, <2>11 DEF Fb!ShownWithPictures
<1> QED
  BY <1>15, <1>17, <1>20, <1>21, <1>22 DEF FeedbackInv

(* A row that is marked deleted keeps its call and its pictures' mark.      *)
LEMMA MarkedOnly ==
  ASSUME FeedbackInv, NEW p \in Reqs, Fb!Ends(p), fFiles' = fFiles, fWrote' = fWrote,
         \A x \in Opinions : /\ (Made(x)' <=> Made(x)) /\ CallOf(x)' = CallOf(x)
                             /\ (Pictured(x)' <=> Pictured(x)),
         \A j \in ReviewReplies : fReply'[j].to = fReply[j].to /\ fReply'[j].call = fReply[j].call
  PROVE  CallsMade' /\ CallsOwned' /\ PicturesStored' /\ UnlinksOwn' /\ RepliesBelong' /\ WroteOnce'
<1>0. FeedbackTypes
  BY DEF FeedbackInv
<1>1. /\ \A q \in Reqs : q # p => fReq'[q] = fReq[q]
      /\ fReq'[p].op = "none" /\ ~Submitting(p)' /\ ~Unlinking(p)'
      /\ fCalls' = fCalls /\ fReq' \in [Reqs -> FeedbackRequest]
  BY <1>0, FeedbackEnds
<1>2. \A q \in Reqs : /\ Submitting(q)' => q # p /\ Submitting(q) /\ fReq'[q] = fReq[q]
                      /\ Unlinking(q)' => q # p /\ Unlinking(q) /\ fReq'[q] = fReq[q]
                      /\ fReq'[q].op = "reply" => q # p /\ fReq'[q] = fReq[q]
  BY <1>1 DEF Submitting, Unlinking
<1>3. \A q \in Reqs : /\ Unlinking(q) => fReq[q].all \subseteq Opinions /\ fReq[q].id \in Opinions
                      /\ fReq[q].op = "reply" => fReq[q].id \in Opinions /\ fReq[q].to \in Opinions
  BY <1>0, FeedbackFields DEF Opinions
<1>4. CallsMade'
  BY <1>1, <1>2 DEF FeedbackInv, CallsMade
<1>5. CallsOwned'
  BY <1>2 DEF FeedbackInv, CallsOwned
<1>6. PicturesStored'
  BY <1>2 DEF FeedbackInv, PicturesStored
<1>7. UnlinksOwn'
  <2>1. ASSUME NEW q \in Reqs, Unlinking(q)
        PROVE  /\ fReq[q].id \in fReq[q].all
               /\ \A x \in fReq[q].all : Made(x)'
               /\ \A x \in fReq[q].all : x # fReq[q].id => x \in ReviewReplies /\ fReply'[x].to = fReq[q].id
               /\ \A x \in Opinions : Made(x)' /\ CallOf(x)' \in fReq[q].todo => x \in fReq[q].all
               /\ \A x : x = fReq[q].id => (CallOf(x)' \in fFiles' => CallOf(x)' \in fReq[q].todo)
    BY <1>3, <2>1 DEF FeedbackInv, UnlinksOwn
  <2> QED
    BY <1>2, <2>1 DEF UnlinksOwn
<1>8. RepliesBelong'
  <2>1. ASSUME NEW q \in Reqs, fReq[q].op = "reply", NEW k, k = fReq[q].id, NEW u, u = fReq[q].to
        PROVE  ~Made(k)' /\ Made(u)'
    BY <1>3, <2>1 DEF FeedbackInv, RepliesBelong
  <2>2. ASSUME NEW k \in ReviewReplies
        PROVE  /\ Made(k)' => fReply'[k].to \in ReviewPairs /\ \A u : u = fReply'[k].to => Made(u)'
               /\ ~Made(k)' => fReply'[k].to = "none" /\ fReply'[k].call = 0
    BY DEF FeedbackInv, RepliesBelong, Opinions
  <2>3. \A q, s \in Reqs :
          fReq'[q].op = "reply" /\ fReq'[s].op = "reply" /\ fReq'[q].id = fReq'[s].id => q = s
    BY <1>2 DEF FeedbackInv, RepliesBelong
  <2> QED
    BY <1>2, <2>1, <2>2, <2>3 DEF RepliesBelong
<1>9. WroteOnce'
  BY DEF FeedbackInv, WroteOnce, Opinions
<1> QED
  BY <1>4, <1>5, <1>6, <1>7, <1>8, <1>9

(* The deleted review's own picture has gone by then.                       *)
LEMMA ReviewDeleted ==
  ASSUME FeedbackInv, NEW p \in Reqs, Fb!deleteReview(p)
  PROVE  FeedbackInv'
<1>0. FeedbackTypes
  BY DEF FeedbackInv
<1>1. Unlinking(p) /\ ~Submitting(p) /\ fReq[p].todo = {}
  BY DEF Fb!deleteReview, Unlinking, Submitting
<1>2. /\ Fb!Ends(p) /\ UNCHANGED <<fReply, fFiles, fSameChurch, fWrote, fBroken>>
      /\ fLoose \subseteq fLoose'
  BY DEF Fb!deleteReview
<1>3. PICK i : i = fReq[p].id
  OBVIOUS
<1>4. i \in ReviewPairs /\ i \in Opinions
  BY <1>3 DEF Fb!deleteReview, Opinions
<1>5. PICK x : x = [fReview[i] EXCEPT !.state = "deleted"] /\ fReview' = [fReview EXCEPT ![i] = x]
  BY <1>3 DEF Fb!deleteReview
<1>6. /\ x \in ReviewRows /\ x.state = "deleted" /\ x.call = fReview[i].call
      /\ x.pictures = fReview[i].pictures
  BY <1>0, <1>4, <1>5 DEF FeedbackTypes, ReviewRows, RowStates
<1>7. fReview'[i] = x /\ \A k \in ReviewPairs : k # i => fReview'[k] = fReview[k]
  BY <1>0, <1>4, <1>5 DEF FeedbackTypes
<1>8. Made(i)
  BY <1>1, <1>3 DEF FeedbackInv, UnlinksOwn
<1>9. \A k \in Opinions : /\ (Made(k)' <=> Made(k)) /\ CallOf(k)' = CallOf(k)
                          /\ (Pictured(k)' <=> Pictured(k))
  BY <1>2, <1>4, <1>6, <1>7, <1>8 DEF Made, CallOf, Pictured, OpinionRow
<1>10. \A j \in ReviewReplies : fReply'[j].to = fReply[j].to /\ fReply'[j].call = fReply[j].call
  BY <1>2
<1>11. fFiles' = fFiles /\ fWrote' = fWrote
  BY <1>2
<1>12. CallsMade' /\ CallsOwned' /\ PicturesStored' /\ UnlinksOwn' /\ RepliesBelong' /\ WroteOnce'
  BY <1>2, <1>9, <1>10, <1>11, MarkedOnly
<1>13. /\ \A q \in Reqs : q # p => fReq'[q] = fReq[q]
       /\ fReq'[p].op = "none" /\ fCalls' = fCalls /\ fReq' \in [Reqs -> FeedbackRequest]
  BY <1>0, <1>2, FeedbackEnds
<1>14. FeedbackTypes'
  BY <1>0, <1>2, <1>5, <1>6, <1>13 DEF FeedbackTypes
<1>15. Fb!ShownWithPictures'
  <2>1. fBroken' = fBroken /\ fReply' = fReply
    BY <1>2
  <2>2. \A k : Fb!Deleting(k) => Fb!Deleting(k)' \/ k \in fReq[p].all
    BY <1>13 DEF Fb!Deleting
  <2>3. \A f : Fb!Submitting(f) => Fb!Submitting(f)'
    BY <1>1, <1>13 DEF Fb!Submitting, Submitting
  <2>4. ~Fb!Live(i)'
    BY <1>6, <1>7 DEF Fb!Live
  <2>5. \A k \in ReviewPairs : k # i => (Fb!Live(k)' <=> Fb!Live(k))
    BY <1>7 DEF Fb!Live
  <2>6. fReview[i].call \notin fFiles
    <3>1. CallOf(fReq[p].id) \notin fFiles
      BY <1>1 DEF FeedbackInv, UnlinksOwn
    <3> QED
      BY <1>3, <1>4, <3>1 DEF CallOf, OpinionRow
  <2>7. \A k \in fReq[p].all : k # i => k \in ReviewReplies /\ fReply[k].to = i
    BY <1>1, <1>3 DEF FeedbackInv, UnlinksOwn
  <2>8. \A k \in ReviewPairs : k \notin ReviewReplies
    BY ContentAssumption DEF ContentAssumption, Fb!FeedbackAssumption
  <2>9. Fb!ShownWithPictures
    BY DEF FeedbackInv
  <2>10. ASSUME NEW k \in ReviewPairs
         PROVE  Fb!Live(k)' /\ fReview'[k].pictures /\ fReview'[k].call \notin fFiles
                  => Fb!Deleting(k)' \/ k \in fBroken
    <3>1. CASE k = i
      BY <2>4, <3>1
    <3>2. CASE k # i
      BY <1>7, <2>2, <2>5, <2>7, <2>8, <2>9, <3>2 DEF Fb!ShownWithPictures
    <3> QED
      BY <3>1, <3>2
  <2>11. ASSUME NEW k \in ReviewReplies, NEW u, u = fReply[k].to
         PROVE  fReply[k].state = "live" /\ fReply[k].pictures /\ Fb!Live(u)'
                /\ fReply[k].call \notin fFiles => Fb!Deleting(k)' \/ k \in fBroken
    <3>1. CASE u = i
      BY <2>4, <3>1
    <3>2. CASE u # i
      <4>1. k \notin fReq[p].all
        BY <1>4, <2>7, <2>8, <2>11, <3>2
      <4>2. fReply[k].state = "live" => u \in ReviewPairs
        <5>1. fReply[k].state = "live" => Made(k)
          BY <2>8 DEF Made, OpinionRow
        <5> QED
          BY <2>11, <5>1 DEF FeedbackInv, RepliesBelong
      <4>3. fReply[k].state = "live" => (Fb!Live(u)' => Fb!Live(u))
        BY <2>5, <3>2, <4>2
      <4> QED
        BY <2>2, <2>9, <2>11, <4>1, <4>3 DEF Fb!ShownWithPictures
    <3> QED
      BY <3>1, <3>2
  <2>12. \A f \in fFiles :
           \/ Fb!Submitting(f)' \/ f \in fLoose'
           \/ \E k \in ReviewPairs : fReview'[k].call = f /\ (Fb!Live(k)' \/ k \in fBroken)
           \/ \E j \in ReviewReplies : fReply[j].call = f /\ (fReply[j].state = "live" \/ j \in fBroken)
    <3> SUFFICES ASSUME NEW f \in fFiles, ~Fb!Submitting(f)', f \notin fLoose',
                        ~\E j \in ReviewReplies : fReply[j].call = f /\ (fReply[j].state = "live" \/ j \in fBroken)
                 PROVE  \E k \in ReviewPairs : fReview'[k].call = f /\ (Fb!Live(k)' \/ k \in fBroken)
      OBVIOUS
    <3>1. PICK k \in ReviewPairs : fReview[k].call = f /\ (Fb!Live(k) \/ k \in fBroken)
      BY <1>2, <2>3, <2>9 DEF Fb!ShownWithPictures
    <3>2. k # i
      BY <2>6, <3>1
    <3> QED
      BY <1>7, <2>5, <3>1, <3>2
  <2> QED
    BY <1>11, <2>1, <2>10, <2>11, <2>12 DEF Fb!ShownWithPictures
<1> QED
  BY <1>12, <1>14, <1>15 DEF FeedbackInv

LEMMA ReplyDeleted ==
  ASSUME FeedbackInv, NEW p \in Reqs, Fb!deleteReply(p)
  PROVE  FeedbackInv'
<1>0. FeedbackTypes
  BY DEF FeedbackInv
<1>1. Unlinking(p) /\ ~Submitting(p) /\ fReq[p].todo = {}
  BY DEF Fb!deleteReply, Unlinking, Submitting
<1>2. Fb!Ends(p) /\ UNCHANGED <<fReview, fFiles, fSameChurch, fWrote, fLoose, fBroken>>
  BY DEF Fb!deleteReply, Fb!NoGhosts
<1>3. PICK j : j = fReq[p].id
  OBVIOUS
<1>4. j \in ReviewReplies /\ j \in Opinions /\ j \notin ReviewPairs
  BY <1>3, ContentAssumption DEF Fb!deleteReply, Opinions, ContentAssumption, Fb!FeedbackAssumption
<1>5. PICK x : x = [fReply[j] EXCEPT !.state = "deleted"] /\ fReply' = [fReply EXCEPT ![j] = x]
  BY <1>3 DEF Fb!deleteReply
<1>6. /\ x \in ReplyRows /\ x.state = "deleted" /\ x.call = fReply[j].call
      /\ x.pictures = fReply[j].pictures /\ x.to = fReply[j].to
  BY <1>0, <1>4, <1>5 DEF FeedbackTypes, ReplyRows, RowStates
<1>7. fReply'[j] = x /\ \A k \in ReviewReplies : k # j => fReply'[k] = fReply[k]
  BY <1>0, <1>4, <1>5 DEF FeedbackTypes
<1>8. Made(j)
  BY <1>1, <1>3 DEF FeedbackInv, UnlinksOwn
<1>9. \A k \in Opinions : /\ (Made(k)' <=> Made(k)) /\ CallOf(k)' = CallOf(k)
                          /\ (Pictured(k)' <=> Pictured(k))
  BY <1>2, <1>4, <1>6, <1>7, <1>8 DEF Made, CallOf, Pictured, OpinionRow, Opinions
<1>10. \A k \in ReviewReplies : fReply'[k].to = fReply[k].to /\ fReply'[k].call = fReply[k].call
  BY <1>6, <1>7
<1>11. fFiles' = fFiles /\ fWrote' = fWrote
  BY <1>2
<1>12. CallsMade' /\ CallsOwned' /\ PicturesStored' /\ UnlinksOwn' /\ RepliesBelong' /\ WroteOnce'
  BY <1>2, <1>9, <1>10, <1>11, MarkedOnly
<1>13. /\ \A q \in Reqs : q # p => fReq'[q] = fReq[q]
       /\ fReq'[p].op = "none" /\ fCalls' = fCalls /\ fReq' \in [Reqs -> FeedbackRequest]
  BY <1>0, <1>2, FeedbackEnds
<1>14. FeedbackTypes'
  BY <1>0, <1>2, <1>5, <1>6, <1>13 DEF FeedbackTypes
<1>15. Fb!ShownWithPictures'
  <2>1. fBroken' = fBroken /\ fReview' = fReview /\ fLoose' = fLoose
    BY <1>2
  <2>2. \A k : Fb!Live(k)' <=> Fb!Live(k)
    BY <2>1 DEF Fb!Live
  <2>3. \A k \in fReq[p].all : k = j \/ (k \in ReviewReplies /\ Made(k) /\ fReply[k].to = j)
    BY <1>1, <1>3 DEF FeedbackInv, UnlinksOwn
  <2>4. \A k \in ReviewReplies : Made(k) => fReply[k].to # j
    BY <1>4 DEF FeedbackInv, RepliesBelong
  <2>5. fReq[p].all = {j}
    BY <1>1, <1>3, <2>3, <2>4 DEF FeedbackInv, UnlinksOwn
  <2>6. \A k : Fb!Deleting(k) => Fb!Deleting(k)' \/ k = j
    BY <1>13, <2>5 DEF Fb!Deleting
  <2>7. \A f : Fb!Submitting(f) => Fb!Submitting(f)'
    BY <1>1, <1>13 DEF Fb!Submitting, Submitting
  <2>8. fReply[j].call \notin fFiles
    <3>1. CallOf(fReq[p].id) \notin fFiles
      BY <1>1 DEF FeedbackInv, UnlinksOwn
    <3> QED
      BY <1>3, <1>4, <3>1 DEF CallOf, OpinionRow
  <2>9. Fb!ShownWithPictures
    BY DEF FeedbackInv
  <2>10. \A k \in ReviewPairs : Fb!Live(k) /\ fReview[k].pictures /\ fReview[k].call \notin fFiles
                                  => Fb!Deleting(k)' \/ k \in fBroken
    BY <1>4, <2>6, <2>9 DEF Fb!ShownWithPictures
  <2>11. \A k \in ReviewReplies :
           fReply'[k].state = "live" /\ fReply'[k].pictures /\ Fb!Live(fReply'[k].to)
           /\ fReply'[k].call \notin fFiles => Fb!Deleting(k)' \/ k \in fBroken
    BY <1>6, <1>7, <2>6, <2>9 DEF Fb!ShownWithPictures
  <2>12. \A f \in fFiles :
           \/ Fb!Submitting(f)' \/ f \in fLoose
           \/ \E k \in ReviewPairs : fReview[k].call = f /\ (Fb!Live(k) \/ k \in fBroken)
           \/ \E k \in ReviewReplies : fReply'[k].call = f /\ (fReply'[k].state = "live" \/ k \in fBroken)
    BY <1>7, <2>7, <2>8, <2>9 DEF Fb!ShownWithPictures
  <2> QED
    BY <1>11, <2>1, <2>2, <2>10, <2>11, <2>12 DEF Fb!ShownWithPictures
<1> QED
  BY <1>12, <1>14, <1>15 DEF FeedbackInv

LEMMA FeedbackArrivals ==
  ASSUME FeedbackInv, NEW p \in Reqs
  PROVE  /\ \A i \in ReviewPairs : /\ Fb!ReviewCheck(p, i) => FeedbackInv'
                                   /\ Fb!UpdateCheck(p, i) => FeedbackInv'
                                   /\ Fb!DeleteCheck(p, i) => FeedbackInv'
         /\ \A i \in ReviewPairs, j \in ReviewReplies : Fb!ReplyCheck(p, i, j) => FeedbackInv'
         /\ \A j \in ReviewReplies : Fb!ReplyDeleteCheck(p, j) => FeedbackInv'
<1>0. FeedbackTypes /\ fCalls + 1 \in Nat
  BY DEF FeedbackInv, FeedbackTypes
<1>10. \A k \in ReviewReplies : k \notin ReviewPairs
  BY ContentAssumption DEF ContentAssumption, Fb!FeedbackAssumption
<1>1. ASSUME NEW i \in ReviewPairs, Fb!ReviewCheck(p, i)
      PROVE  FeedbackInv'
  <2>1. PICK b \in BOOLEAN :
          /\ Fb!Arrive(p, [op |-> "submit", id |-> i, call |-> fCalls + 1, pictures |-> b])
          /\ fFiles' = IF b THEN fFiles \cup {fCalls + 1} ELSE fFiles
    BY <1>1 DEF Fb!ReviewCheck
  <2> DEFINE r == [op |-> "submit", id |-> i, call |-> fCalls + 1, pictures |-> b]
  <2>2. r \in Submits
    BY <1>0 DEF Submits
  <2>3. r.call = fCalls + 1 /\ r.op # "reply" /\ (r.pictures = b)
    OBVIOUS
  <2>4. Fb!Arrive(p, r)
    BY <2>1
  <2> HIDE DEF r
  <2>5. r \in Submits \cup Answers
    BY <2>2
  <2>6. fFiles' = IF r.pictures THEN fFiles \cup {fCalls + 1} ELSE fFiles
    BY <2>1, <2>3
  <2>7. RowsStay /\ UNCHANGED <<fWrote, fLoose, fBroken>>
    BY <1>1 DEF Fb!ReviewCheck, Fb!NoRows, Fb!NoGhosts, RowsStay
  <2> QED
    BY <2>3, <2>4, <2>5, <2>6, <2>7, SubmitArrives
<1>2. ASSUME NEW i \in ReviewPairs, NEW j \in ReviewReplies, Fb!ReplyCheck(p, i, j)
      PROVE  FeedbackInv'
  <2>1. PICK b \in BOOLEAN :
          /\ Fb!Arrive(p, [op |-> "reply", id |-> j, to |-> i, call |-> fCalls + 1, pictures |-> b])
          /\ fFiles' = IF b THEN fFiles \cup {fCalls + 1} ELSE fFiles
    BY <1>2 DEF Fb!ReplyCheck
  <2> DEFINE r == [op |-> "reply", id |-> j, to |-> i, call |-> fCalls + 1, pictures |-> b]
  <2>2. r \in Answers
    BY <1>0 DEF Answers
  <2>3. r.call = fCalls + 1 /\ r.id = j /\ r.to = i /\ (r.pictures = b)
    OBVIOUS
  <2>4. Fb!Arrive(p, r)
    BY <2>1
  <2> HIDE DEF r
  <2>5. r \in Submits \cup Answers
    BY <2>2
  <2>6. fFiles' = IF r.pictures THEN fFiles \cup {fCalls + 1} ELSE fFiles
    BY <2>1, <2>3
  <2>7. RowsStay /\ UNCHANGED <<fWrote, fLoose, fBroken>>
    BY <1>2 DEF Fb!ReplyCheck, Fb!NoRows, Fb!NoGhosts, RowsStay
  <2>8. ~Made(j) /\ Made(i)
    BY <1>2, <1>10 DEF Fb!ReplyCheck, Fb!Live, Fb!NoReply, Made, OpinionRow
  <2>9. \A q \in Reqs : fReq[q].op = "reply" => fReq[q].id # j
    BY <1>2 DEF Fb!ReplyCheck
  <2>10. /\ ~Made(r.id) /\ Made(r.to)
         /\ \A q \in Reqs : fReq[q].op = "reply" => fReq[q].id # r.id
    BY <2>3, <2>8, <2>9
  <2> QED
    BY <2>3, <2>4, <2>5, <2>6, <2>7, <2>10, SubmitArrives
<1>3. ASSUME NEW i \in ReviewPairs, Fb!UpdateCheck(p, i)
      PROVE  FeedbackInv'
  <2> DEFINE r == [op |-> "rate", id |-> i]
  <2>1. r \in Rates /\ r.op # "unlink"
    BY DEF Rates
  <2>2. Fb!Arrive(p, r)
    BY <1>3 DEF Fb!UpdateCheck
  <2> HIDE DEF r
  <2>3. r \in Rates \cup Unlinks
    BY <2>1
  <2>4. RowsStay /\ UNCHANGED <<fFiles, fWrote, fLoose, fBroken>>
    BY <1>3 DEF Fb!UpdateCheck, Fb!NoRows, Fb!NoGhosts, RowsStay
  <2> QED
    BY <2>1, <2>2, <2>3, <2>4, OtherArrives
<1>4. ASSUME NEW i \in ReviewPairs, Fb!DeleteCheck(p, i)
      PROVE  FeedbackInv'
  <2> DEFINE r == [op |-> "unlink", id |-> i, todo |-> Fb!PicturesOf(i), all |-> {i} \cup Fb!RepliesTo(i)]
  <2>1. Fb!Arrive(p, r)
    BY <1>4 DEF Fb!DeleteCheck
  <2>2. /\ r.op = "unlink" /\ r.id = i /\ r.todo = Fb!PicturesOf(i)
        /\ r.all = {i} \cup Fb!RepliesTo(i)
    OBVIOUS
  <2>3. Fb!RepliesTo(i) \subseteq ReviewReplies /\ \A k \in Fb!RepliesTo(i) : fReply[k].to = i
    BY DEF Fb!RepliesTo
  <2>4. i # "none" /\ Made(i) /\ i \in Opinions
    BY <1>4, ContentAssumption DEF ContentAssumption, Fb!FeedbackAssumption, Fb!DeleteCheck,
                                   Fb!Live, Made, OpinionRow, Opinions
  <2>5. \A k \in Fb!RepliesTo(i) : Made(k) /\ k \in Opinions
    BY <2>3, <2>4 DEF FeedbackInv, RepliesBelong, Opinions
  <2>6. \A k \in Fb!RepliesTo(i) : CallOf(k) = fReply[k].call /\ Pictured(k) = fReply[k].pictures
    BY <1>10, <2>3 DEF CallOf, Pictured, OpinionRow
  <2>7. CallOf(i) = fReview[i].call /\ Pictured(i) = fReview[i].pictures
    BY DEF CallOf, Pictured, OpinionRow
  <2>8. \A f \in Fb!PicturesOf(i) : \E k \in {i} \cup Fb!RepliesTo(i) : CallOf(k) = f
    <3>1. \A f \in Fb!PicturesOf(i) :
            f = fReview[i].call \/ \E k \in Fb!RepliesTo(i) : fReply[k].call = f
      BY DEF Fb!PicturesOf
    <3> QED
      BY <2>6, <2>7, <3>1
  <2>9. CallOf(i) \in fFiles => CallOf(i) \in Fb!PicturesOf(i)
    BY <2>4, <2>7 DEF FeedbackInv, PicturesStored, Fb!PicturesOf
  <2>10. r \in Unlinks
    <3>1. \A f \in Fb!PicturesOf(i) : f \in Nat
      BY <1>0, <2>4, <2>5, <2>8, OpinionFields
    <3>2. Fb!PicturesOf(i) \in SUBSET Nat /\ {i} \cup Fb!RepliesTo(i) \in SUBSET Opinions
      BY <2>4, <2>5, <3>1
    <3> QED
      BY <2>4, <3>2 DEF Unlinks
  <2> HIDE DEF r
  <2>11. r \in Rates \cup Unlinks
    BY <2>10
  <2>12. RowsStay /\ UNCHANGED <<fFiles, fWrote, fLoose, fBroken>>
    BY <1>4 DEF Fb!DeleteCheck, Fb!NoRows, Fb!NoGhosts, RowsStay
  <2>13. /\ r.id \in r.all
         /\ \A x \in r.all : Made(x)
         /\ \A x \in r.all : x # r.id => x \in ReviewReplies /\ fReply[x].to = r.id
         /\ \A f \in r.todo : \E x \in r.all : Made(x) /\ CallOf(x) = f
         /\ CallOf(r.id) \in fFiles => CallOf(r.id) \in r.todo
    BY <2>2, <2>3, <2>4, <2>5, <2>8, <2>9
  <2> QED
    BY <2>1, <2>11, <2>12, <2>13, OtherArrives
<1>5. ASSUME NEW j \in ReviewReplies, Fb!ReplyDeleteCheck(p, j)
      PROVE  FeedbackInv'
  <2>1. PICK T : T = IF fReply[j].pictures THEN {fReply[j].call} ELSE {}
    OBVIOUS
  <2> DEFINE r == [op |-> "unlink", id |-> j, all |-> {j}, todo |-> T]
  <2>2. Fb!Arrive(p, r)
    BY <1>5, <2>1 DEF Fb!ReplyDeleteCheck
  <2>3. r.op = "unlink" /\ r.id = j /\ r.todo = T /\ r.all = {j}
    OBVIOUS
  <2>4. j \in Opinions /\ Made(j) /\ CallOf(j) = fReply[j].call /\ Pictured(j) = fReply[j].pictures
    BY <1>5, <1>10 DEF Fb!ReplyDeleteCheck, Made, CallOf, Pictured, OpinionRow, Opinions
  <2>5. CallOf(j) \in Nat
    BY <1>0, <2>4, OpinionFields
  <2>6. r \in Unlinks
    <3>1. T \in SUBSET Nat /\ {j} \in SUBSET Opinions
      BY <2>1, <2>4, <2>5
    <3> QED
      BY <2>4, <3>1 DEF Unlinks
  <2> HIDE DEF r
  <2>7. r \in Rates \cup Unlinks
    BY <2>6
  <2>8. RowsStay /\ UNCHANGED <<fFiles, fWrote, fLoose, fBroken>>
    BY <1>5 DEF Fb!ReplyDeleteCheck, Fb!NoRows, Fb!NoGhosts, RowsStay
  <2>9. CallOf(j) \in fFiles => Pictured(j)
    BY <2>4 DEF FeedbackInv, PicturesStored
  <2>10. /\ r.id \in r.all
         /\ \A x \in r.all : Made(x)
         /\ \A x \in r.all : x # r.id => x \in ReviewReplies /\ fReply[x].to = r.id
         /\ \A f \in r.todo : \E x \in r.all : Made(x) /\ CallOf(x) = f
         /\ CallOf(r.id) \in fFiles => CallOf(r.id) \in r.todo
    BY <2>1, <2>3, <2>4, <2>9
  <2> QED
    BY <2>2, <2>7, <2>8, <2>10, OtherArrives
<1> QED
  BY <1>1, <1>2, <1>3, <1>4, <1>5

LEMMA FeedbackStays ==
  ASSUME FeedbackInv, UNCHANGED <<fReview, fReply, fFiles, fWrote, fLoose, fBroken, fReq>>,
         fCalls' = fCalls \/ fCalls' = fCalls + 1
  PROVE  FeedbackInv'
<1>0. FeedbackTypes
  BY DEF FeedbackInv
<1>1. RowsStay
  BY DEF RowsStay
<1>2. \A x : (Made(x)' <=> Made(x)) /\ CallOf(x)' = CallOf(x) /\ (Pictured(x)' <=> Pictured(x))
  BY <1>1, RowsStayed
<1>3. \A q : (Submitting(q)' <=> Submitting(q)) /\ (Unlinking(q)' <=> Unlinking(q))
  BY DEF Submitting, Unlinking
<1>4. fCalls \in Nat /\ fCalls' \in Nat /\ \A n \in Nat : n <= fCalls => n <= fCalls'
  BY <1>0 DEF FeedbackTypes
<1>5. \A x \in Opinions : CallOf(x) \in Nat
  BY <1>0, OpinionFields
<1>6. \A q \in Reqs : /\ Submitting(q) => fReq[q].call \in Nat
                      /\ Unlinking(q) => fReq[q].todo \subseteq Nat
  BY <1>0, FeedbackFields
<1>7. \A f \in fFiles : f \in Nat
  BY <1>0 DEF FeedbackTypes
<1>8. CallsMade'
  BY <1>2, <1>3, <1>4, <1>5, <1>6, <1>7 DEF FeedbackInv, CallsMade
<1>9. FeedbackTypes'
  BY <1>4 DEF FeedbackInv, FeedbackTypes
<1>10. CallsOwned' /\ PicturesStored' /\ UnlinksOwn' /\ RepliesBelong' /\ WroteOnce'
  BY <1>2, <1>3 DEF FeedbackInv, CallsOwned, PicturesStored, UnlinksOwn, RepliesBelong, WroteOnce
<1>11. Fb!ShownWithPictures'
  <2>1. \A x : (Fb!Live(x)' <=> Fb!Live(x)) /\ (Fb!Deleting(x)' <=> Fb!Deleting(x))
               /\ (Fb!Submitting(x)' <=> Fb!Submitting(x))
    BY DEF Fb!Live, Fb!Deleting, Fb!Submitting
  <2> QED
    BY <2>1 DEF FeedbackInv, Fb!ShownWithPictures
<1> QED
  BY <1>8, <1>9, <1>10, <1>11 DEF FeedbackInv

LEMMA FeedbackNextInv ==
  ASSUME FeedbackInv, [Fb!Next]_fVars
  PROVE  FeedbackInv'
<1>1. ASSUME NEW p \in Reqs, Fb!updateReview(p)
      PROVE  FeedbackInv'
  <2>1. ~Submitting(p) /\ ~Unlinking(p)
    BY <1>1 DEF Fb!updateReview, Submitting, Unlinking
  <2>2. Fb!Ends(p) /\ RowsStay /\ UNCHANGED <<fFiles, fWrote, fLoose, fBroken>>
    BY <1>1 DEF Fb!updateReview, Fb!NoRows, Fb!NoGhosts, RowsStay
  <2> QED
    BY <2>1, <2>2, EndsOnRecord
<1>2. ASSUME NEW p \in Reqs, Fb!Die(p)
      PROVE  FeedbackInv'
  <2>1. Fb!Ends(p) /\ RowsStay /\ UNCHANGED <<fFiles, fWrote>>
    BY <1>2 DEF Fb!Die, RowsStay
  <2>2. /\ fLoose \subseteq fLoose' /\ fBroken \subseteq fBroken'
        /\ Submitting(p) => fReq[p].call \in fLoose'
        /\ Unlinking(p) => fReq[p].all \subseteq fBroken'
    BY <1>2 DEF Fb!Die, Submitting, Unlinking
  <2>3. fFiles' = fFiles /\ fWrote' = fWrote
    BY <2>1
  <2> QED
    BY <2>1, <2>2, <2>3, EndsOnRecord
<1>3. ASSUME NEW i \in ReviewPairs, Fb!Move(i)
      PROVE  FeedbackInv'
  BY <1>3, FeedbackStays DEF Fb!Move, Fb!NoGhosts
<1>4. CASE UNCHANGED fVars
  BY <1>4, FeedbackStays DEF fVars
<1>5. ASSUME NEW p \in Reqs,
             \/ Fb!createReview(p) \/ Fb!updateReview(p) \/ Fb!Unlink(p) \/ Fb!deleteReview(p)
             \/ Fb!replyToReview(p) \/ Fb!deleteReply(p) \/ Fb!Die(p)
      PROVE  FeedbackInv'
  BY <1>1, <1>2, <1>5, ReviewWritten, UnlinkInv, ReviewDeleted, ReplyWritten, ReplyDeleted
<1> QED
  BY <1>3, <1>4, <1>5, FeedbackArrivals DEF Fb!Next

LEMMA ReviewsKeepTheirCall ==
  ASSUME FeedbackInv, [Fb!Next]_fVars
  PROVE  \A i \in fWrote : fReview'[i].call = fReview[i].call
<1>0. FeedbackTypes
  BY DEF FeedbackInv
<1>1. \A i \in fWrote : i \in ReviewPairs /\ Made(i)
  BY DEF FeedbackInv, WroteOnce
<1>2. ASSUME NEW p \in Reqs, Fb!createReview(p)
      PROVE  \A i \in fWrote : fReview'[i] = fReview[i]
  <2>1. CASE ~Fb!NoneEver(fReq[p].id)
    BY <1>2, <2>1 DEF Fb!createReview
  <2>2. CASE Fb!NoneEver(fReq[p].id)
    <3>1. PICK x : fReview' = [fReview EXCEPT ![fReq[p].id] = x]
      BY <1>2, <2>2 DEF Fb!createReview
    <3>2. fReq[p].id \in ReviewPairs => ~Made(fReq[p].id)
      BY <2>2 DEF Fb!NoneEver, Fb!NoReview, Made, OpinionRow
    <3> QED
      BY <1>0, <1>1, <3>1, <3>2 DEF FeedbackTypes
  <2> QED
    BY <2>1, <2>2
<1>3. ASSUME NEW p \in Reqs, Fb!deleteReview(p)
      PROVE  \A i \in fWrote : fReview'[i].call = fReview[i].call
  <2>1. PICK j : j = fReq[p].id
    OBVIOUS
  <2>2. PICK x : x = [fReview[j] EXCEPT !.state = "deleted"] /\ fReview' = [fReview EXCEPT ![j] = x]
    BY <1>3, <2>1 DEF Fb!deleteReview
  <2>3. j \in ReviewPairs
    BY <1>3, <2>1 DEF Fb!deleteReview
  <2>4. x.call = fReview[j].call
    BY <1>0, <2>2, <2>3 DEF FeedbackTypes, ReviewRows
  <2> QED
    BY <1>0, <1>1, <2>2, <2>3, <2>4 DEF FeedbackTypes
<1>4. ASSUME \/ \E p \in Reqs :
                  \/ \E i \in ReviewPairs : \/ Fb!ReviewCheck(p, i) \/ Fb!UpdateCheck(p, i) \/ Fb!DeleteCheck(p, i)
                                            \/ \E j \in ReviewReplies : Fb!ReplyCheck(p, i, j)
                  \/ \E j \in ReviewReplies : Fb!ReplyDeleteCheck(p, j)
                  \/ Fb!updateReview(p) \/ Fb!Unlink(p)
                  \/ Fb!replyToReview(p) \/ Fb!deleteReply(p) \/ Fb!Die(p)
             \/ \E i \in ReviewPairs : Fb!Move(i)
             \/ UNCHANGED fVars
      PROVE  fReview' = fReview
  BY <1>4 DEF Fb!ReviewCheck, Fb!UpdateCheck, Fb!DeleteCheck, Fb!ReplyCheck, Fb!ReplyDeleteCheck,
              Fb!updateReview, Fb!Unlink, Fb!replyToReview, Fb!deleteReply, Fb!Die, Fb!Move,
              Fb!NoRows, fVars
<1> QED
  BY <1>2, <1>3, <1>4 DEF Fb!Next

(* Of any pairs of persons, however many reviews, edits, replies and        *)
(* deletions overlap or die: a review that was submitted is the only one of *)
(* its pair for ever, deleted or not (createReview, schema.prisma:239).     *)
THEOREM ReviewsAreWrittenOnce == MCSpec => ReviewedOnce
<1>1. MCInit => FeedbackInv
  BY FeedbackInit DEF MCInit
<1>2. FeedbackInv /\ [MCNext]_allVars => FeedbackInv'
  BY StepsOfParts, FeedbackNextInv
<1>3. FeedbackInv /\ [MCNext]_allVars => [\A i \in fWrote : fReview'[i].call = fReview[i].call]_fVars
  BY StepsOfParts, ReviewsKeepTheirCall
<1>4. MCSpec => [][\A i \in fWrote : fReview'[i].call = fReview[i].call]_fVars
  BY <1>1, <1>2, <1>3, PTL DEF MCSpec
<1> QED
  BY <1>4, PTL DEF ReviewedOnce, Fb!ReviewedOnce, Fb!vars, fVars
=============================================================================
