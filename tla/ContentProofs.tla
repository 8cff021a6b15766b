--------------------------- MODULE ContentProofs ----------------------------
(***************************************************************************)
(* Proofs about the parts of MCContent, for any values of its constants:   *)
(* what the toggles answer, what an announcement's lists hide, what the    *)
(* gateway's maps say of its sockets, and the columns of a profile.        *)
(*                                                                         *)
(* Each part has an invariant of its own; a step of another part leaves its*)
(* variables alone (StepsOfParts).  FeedbackProofs and PicturesProofs go on*)
(* with the parts whose rows have pictures; the sums over finite sets are  *)
(* for the counts of ads there.  The paged lists come last.                *)
(***************************************************************************)
EXTENDS MCContent, Functions, FiniteSetTheorems, SequenceTheorems, WellFoundedInduction, TLAPS

-----------------------------------------------------------------------------
(* A step of a part is a step of its module; the others do not move.        *)
LEMMA StepsOfParts ==
  ASSUME [MCNext]_allVars
  PROVE  /\ [Next]_vars /\ [Ad!Next]_aVars /\ [An!Next]_nVars /\ [Tg!Next]_tVars
         /\ [Co!Next]_cVars /\ [Fb!Next]_fVars /\ [Pr!Next]_pVars /\ [Gw!Next]_gVars
         /\ part' = part
<1>1. CASE ListsNext /\ UNCHANGED part
  BY <1>1 DEF ListsNext
<1>2. CASE AdsNext /\ UNCHANGED part
  BY <1>2 DEF AdsNext
<1>3. CASE AnnouncementsNext /\ UNCHANGED part
  BY <1>3 DEF AnnouncementsNext
<1>4. CASE TogglesNext /\ UNCHANGED part
  BY <1>4 DEF TogglesNext
<1>5. CASE CommunityNext /\ UNCHANGED part
  BY <1>5 DEF CommunityNext
<1>6. CASE FeedbackNext /\ UNCHANGED part
  BY <1>6 DEF FeedbackNext
<1>7. CASE ProfileNext /\ UNCHANGED part
  BY <1>7 DEF ProfileNext
<1>8. CASE GatewayNext /\ UNCHANGED part
  BY <1>8 DEF GatewayNext
<1>9. CASE UNCHANGED allVars
  BY <1>9 DEF allVars
<1> QED
  BY <1>1, <1>2, <1>3, <1>4, <1>5, <1>6, <1>7, <1>8, <1>9 DEF MCNext

-----------------------------------------------------------------------------
(***************************************************************************)
(* Why the answers of a toggle add up.  A request carries what it found: a *)
(* delete the id of a row, which is not 0, a create a number that is not.  *)
(* Either acts only if the row is still as it found it, and then it moves  *)
(* the row and the count of answers together.                              *)
(***************************************************************************)
Wishes == [op : {"create", "delete"}, at : Tg!Pairs, id : Nat, new : Nat \ {0}]
Removals == [op : {"remove"}, at : {<<t>> : t \in Tg!Targets}]

(* What is true of a request at any time.                                   *)
FoundRow(r) == r.op = "delete" => r.id # 0

ToggleInv ==
  /\ tLive \subseteq Tg!Targets
  /\ tId \in [Tg!Pairs -> Nat] /\ tNet \in [Tg!Pairs -> Int]
  /\ tCalls \in Nat
  /\ tReq \in [Reqs -> {Tg!Idle} \cup Wishes \cup Removals]
  /\ \A p \in Reqs : FoundRow(tReq[p])
  /\ Tg!AnswersAddUp

LEMMA ToggleInitInv == Tg!Init => ToggleInv
BY DEF Tg!Init, ToggleInv, Tg!AnswersAddUp, FoundRow, Tg!Idle

(* A request that ends, or one of the right form that arrives, keeps what   *)
(* is true of requests.                                                     *)
LEMMA ToggleEndsKeeps ==
  ASSUME ToggleInv, NEW p \in Reqs, Tg!Ends(p)
  PROVE  /\ tReq' \in [Reqs -> {Tg!Idle} \cup Wishes \cup Removals]
         /\ \A q \in Reqs : FoundRow(tReq'[q])
         /\ tCalls' \in Nat
BY DEF ToggleInv, Tg!Ends, FoundRow, Tg!Idle

LEMMA ToggleArriveKeeps ==
  ASSUME ToggleInv, NEW p \in Reqs, NEW r \in Wishes \cup Removals, Tg!Arrive(p, r), FoundRow(r)
  PROVE  /\ tReq' \in [Reqs -> {Tg!Idle} \cup Wishes \cup Removals]
         /\ \A q \in Reqs : FoundRow(tReq'[q])
         /\ tCalls' \in Nat
BY DEF ToggleInv, Tg!Arrive, FoundRow

LEMMA ToggleLookInv ==
  ASSUME ToggleInv, NEW p \in Reqs, NEW kind, Tg!Look(p, kind)
  PROVE  ToggleInv'
<1>1. PICK t \in tLive, u \in ToggleUsers :
        Tg!Arrive(p, [op |-> IF tId[<<t, u>>] = 0 THEN "create" ELSE "delete",
                   at |-> <<t, u>>, id |-> tId[<<t, u>>], new |-> tCalls + 1])
  BY DEF Tg!Look
<1> DEFINE r == [op |-> IF tId[<<t, u>>] = 0 THEN "create" ELSE "delete",
                 at |-> <<t, u>>, id |-> tId[<<t, u>>], new |-> tCalls + 1]
<1>2. <<t, u>> \in Tg!Pairs
  BY DEF ToggleInv, Tg!Pairs
<1>3. r \in Wishes
  BY <1>2 DEF ToggleInv, Wishes
<1>4. FoundRow(r)
  BY DEF FoundRow
<1>5. r \in Wishes \cup Removals
  BY <1>3
<1>6. Tg!Arrive(p, r)
  BY <1>1
<1> HIDE DEF r
<1>7. /\ tReq' \in [Reqs -> {Tg!Idle} \cup Wishes \cup Removals]
      /\ \A q \in Reqs : FoundRow(tReq'[q])
      /\ tCalls' \in Nat
  BY <1>4, <1>5, <1>6, ToggleArriveKeeps
<1>8. UNCHANGED <<tLive, tId, tNet>>
  BY DEF Tg!Look, Tg!Quiet
<1> QED
  BY <1>7, <1>8 DEF ToggleInv, Tg!AnswersAddUp

(* The row goes with the count: it was there, since the id is not 0.        *)
LEMMA ToggleDeleteInv ==
  ASSUME ToggleInv, NEW p \in Reqs, Tg!Delete(p)
  PROVE  ToggleInv'
<1> DEFINE x == tReq[p].at
<1>1. tReq[p] \in Wishes
  <2>1. tReq[p].op = "delete"
    BY DEF Tg!Delete
  <2> QED
    BY <2>1 DEF ToggleInv, Tg!Idle, Removals
<1>2. x \in Tg!Pairs
  BY <1>1 DEF Wishes
<1>3. tReq[p].id # 0
  BY DEF ToggleInv, Tg!Delete, FoundRow
<1>4. CASE Tg!SameRow(tReq[p])
  <2>1. tId' = [tId EXCEPT ![x] = 0] /\ tNet' = [tNet EXCEPT ![x] = @ - 1]
    BY <1>4 DEF Tg!Delete
  <2>2. tNet[x] = 1
    BY <1>2, <1>3, <1>4 DEF Tg!SameRow, ToggleInv, Tg!AnswersAddUp
  <2>3. tId' \in [Tg!Pairs -> Nat] /\ tNet' \in [Tg!Pairs -> Int]
    BY <1>2, <2>1 DEF ToggleInv
  <2>4. Tg!AnswersAddUp'
    BY <1>2, <2>1, <2>2 DEF ToggleInv, Tg!AnswersAddUp
  <2> QED
    BY <2>3, <2>4, ToggleEndsKeeps DEF ToggleInv, Tg!Delete
<1>5. CASE ~Tg!SameRow(tReq[p])
  <2>1. UNCHANGED <<tId, tNet>>
    BY <1>5 DEF Tg!Delete
  <2> QED
    BY <2>1, ToggleEndsKeeps DEF ToggleInv, Tg!Delete, Tg!AnswersAddUp
<1> QED
  BY <1>4, <1>5

LEMMA ToggleCreateInv ==
  ASSUME ToggleInv, NEW p \in Reqs, Tg!Create(p)
  PROVE  ToggleInv'
<1> DEFINE x == tReq[p].at
<1>1. tReq[p] \in Wishes
  <2>1. tReq[p].op = "create"
    BY DEF Tg!Create
  <2> QED
    BY <2>1 DEF ToggleInv, Tg!Idle, Removals
<1>2. x \in Tg!Pairs /\ tReq[p].new \in Nat /\ tReq[p].new # 0
  BY <1>1 DEF Wishes
<1>3. CASE Tg!Free(tReq[p])
  <2>1. tId' = [tId EXCEPT ![x] = tReq[p].new] /\ tNet' = [tNet EXCEPT ![x] = @ + 1]
    BY <1>3 DEF Tg!Create
  <2>2. tNet[x] = 0
    BY <1>2, <1>3 DEF Tg!Free, ToggleInv, Tg!AnswersAddUp
  <2>3. tId' \in [Tg!Pairs -> Nat] /\ tNet' \in [Tg!Pairs -> Int]
    BY <1>2, <2>1 DEF ToggleInv
  <2>4. Tg!AnswersAddUp'
    BY <1>2, <2>1, <2>2 DEF ToggleInv, Tg!AnswersAddUp
  <2> QED
    BY <2>3, <2>4, ToggleEndsKeeps DEF ToggleInv, Tg!Create
<1>4. CASE ~Tg!Free(tReq[p])
  <2>1. UNCHANGED <<tId, tNet>>
    BY <1>4 DEF Tg!Create
  <2> QED
    BY <2>1, ToggleEndsKeeps DEF ToggleInv, Tg!Create, Tg!AnswersAddUp
<1> QED
  BY <1>3, <1>4

(* Both halves of a post's removal clear rows and counts together.          *)
LEMMA ToggleClearedKeeps ==
  ASSUME ToggleInv, NEW t, tId' = Tg!Cleared(tId, t), tNet' = Tg!Cleared(tNet, t)
  PROVE  tId' \in [Tg!Pairs -> Nat] /\ tNet' \in [Tg!Pairs -> Int] /\ Tg!AnswersAddUp'
BY DEF ToggleInv, Tg!Cleared, Tg!AnswersAddUp

LEMMA ToggleRemovePostInv ==
  ASSUME ToggleInv, NEW p \in Reqs, Tg!RemovePost(p)
  PROVE  ToggleInv'
<1>1. PICK t \in tLive : /\ Tg!Arrive(p, [op |-> "remove", at |-> <<t>>])
                        /\ tId' = Tg!Cleared(tId, t) /\ tNet' = Tg!Cleared(tNet, t)
  BY DEF Tg!RemovePost
<1> DEFINE r == [op |-> "remove", at |-> <<t>>]
<1>2. r \in Wishes \cup Removals
  BY DEF ToggleInv, Removals
<1>3. FoundRow(r)
  BY DEF FoundRow
<1>4. Tg!Arrive(p, r)
  BY <1>1
<1> HIDE DEF r
<1>5. /\ tReq' \in [Reqs -> {Tg!Idle} \cup Wishes \cup Removals]
      /\ \A q \in Reqs : FoundRow(tReq'[q])
      /\ tCalls' \in Nat
  BY <1>2, <1>3, <1>4, ToggleArriveKeeps
<1>6. tLive' = tLive
  BY DEF Tg!RemovePost
<1> QED
  BY <1>1, <1>5, <1>6, ToggleClearedKeeps DEF ToggleInv

LEMMA ToggleCascadeInv ==
  ASSUME ToggleInv, NEW p \in Reqs, Tg!Cascade(p)
  PROVE  ToggleInv'
<1>1. tId' = Tg!Cleared(tId, tReq[p].at[1]) /\ tNet' = Tg!Cleared(tNet, tReq[p].at[1])
  BY DEF Tg!Cascade
<1>2. tLive' \subseteq Tg!Targets
  BY DEF Tg!Cascade, ToggleInv
<1> QED
  BY <1>1, <1>2, ToggleEndsKeeps, ToggleClearedKeeps DEF ToggleInv, Tg!Cascade

LEMMA ToggleNextInv == ToggleInv /\ [Tg!Next]_tVars => ToggleInv'
<1> SUFFICES ASSUME ToggleInv, [Tg!Next]_tVars
             PROVE  ToggleInv'
  OBVIOUS
<1>1. ASSUME NEW p \in Reqs, Tg!reactToPost(p) \/ Tg!markReviewHelpful(p) \/ Tg!toggleFollow(p)
      PROVE  ToggleInv'
  BY <1>1, ToggleLookInv DEF Tg!reactToPost, Tg!markReviewHelpful, Tg!toggleFollow
<1>2. ASSUME NEW p \in Reqs, Tg!Die(p)
      PROVE  ToggleInv'
  BY <1>2, ToggleEndsKeeps DEF Tg!Die, Tg!Quiet, ToggleInv, Tg!AnswersAddUp
<1>3. ASSUME NEW t \in Tg!Targets, Tg!Remove(t)
      PROVE  ToggleInv'
  BY <1>3 DEF Tg!Remove, ToggleInv, Tg!AnswersAddUp
<1>4. CASE UNCHANGED tVars
  BY <1>4 DEF tVars, ToggleInv, Tg!AnswersAddUp
<1> QED
  BY <1>1, <1>2, <1>3, <1>4, ToggleDeleteInv, ToggleCreateInv, ToggleRemovePostInv, ToggleCascadeInv DEF Tg!Next

(* The clicks of a user on a target that were answered "on" are ahead of    *)
(* those answered "off" by one where there is a row and even where there is *)
(* none, for any number of targets, users and overlapping requests that may *)
(* die: reactToPost, markReviewHelpful and toggleFollow lose no answer.     *)
THEOREM AnswersOfTogglesAddUp ==
  MCSpec => []AnswersAddUp
<1>1. MCInit => ToggleInv
  BY ToggleInitInv DEF MCInit
<1>2. ToggleInv /\ [MCNext]_allVars => ToggleInv'
  BY StepsOfParts, ToggleNextInv
<1>3. ToggleInv => AnswersAddUp
  BY DEF ToggleInv, AnswersAddUp
<1> QED
  BY <1>1, <1>2, <1>3, PTL DEF MCSpec

-----------------------------------------------------------------------------
(***************************************************************************)
(* Why what was unpublished last stays hidden although an update that read *)
(* the row before is written after: it writes the fields it was given, and *)
(* a status it was not given is the row's own.                             *)
(***************************************************************************)
AnnRows == [state : {"new", "live", "deleted"}, status : {"PUBLISHED", "UNPUBLISHED"},
         to : SUBSET AnnChurches, from : Nat, until : Nat]

AnnInserts == [op : {"insert"}, id : AnnIds, status : {"PUBLISHED", "UNPUBLISHED"},
            from : Nat, until : Nat, to : SUBSET AnnChurches]
AnnWrites == [op : {"write"}, id : AnnIds, status : {"", "PUBLISHED", "UNPUBLISHED"},
           from : Nat, until : Nat, to : {{"as is"}} \cup SUBSET AnnChurches, was : AnnRows]
AnnRemoves == [op : {"remove"}, id : AnnIds]
AnnRequest == {An!Idle} \cup AnnInserts \cup AnnWrites \cup AnnRemoves

(* An announcement the lists can show is not among the hidden ones.         *)
AnnShownNotHidden == \A i \in AnnIds : An!Live(i) /\ nRow[i].status = "PUBLISHED" => i \notin nHidden

AnnInv ==
  /\ nRow \in [AnnIds -> AnnRows]
  /\ nMemberOf \in AnnChurches \cup {None}
  /\ nReq \in [Reqs -> AnnRequest]
  /\ AnnShownNotHidden

LEMMA AnnRequestKinds ==
  ASSUME NEW r \in AnnRequest
  PROVE  /\ r.op = "insert" => r \in AnnInserts
         /\ r.op = "write" => r \in AnnWrites
         /\ r.op = "remove" => r \in AnnRemoves
<1>1. r = An!Idle \/ r \in AnnInserts \/ r \in AnnWrites \/ r \in AnnRemoves
  BY DEF AnnRequest
<1>2. r = An!Idle => r.op = "none"
  BY DEF An!Idle
<1>3. r \in AnnInserts => r.op = "insert"
  BY DEF AnnInserts
<1>4. r \in AnnWrites => r.op = "write"
  BY DEF AnnWrites
<1>5. r \in AnnRemoves => r.op = "remove"
  BY DEF AnnRemoves
<1> QED
  BY <1>1, <1>2, <1>3, <1>4, <1>5

LEMMA AnnInitInv ==
  ASSUME An!AnnouncementsAssumption
  PROVE  An!Init => AnnInv
BY DEF An!Init, AnnInv, An!NoRow, AnnRows, An!Idle, AnnRequest, AnnShownNotHidden, An!Live

(* Arriving and ending leave the rows alone.                                *)
LEMMA AnnArriveInv ==
  ASSUME AnnInv, NEW p \in Reqs, NEW r \in AnnRequest, An!Arrive(p, r), An!Stays
  PROVE  AnnInv'
<1>1. nReq' \in [Reqs -> AnnRequest]
  BY DEF An!Arrive, AnnInv
<1>2. nRow' = nRow /\ nHidden' = nHidden /\ nMemberOf' = nMemberOf
  BY DEF An!Stays
<1> QED
  BY <1>1, <1>2 DEF AnnInv, AnnShownNotHidden, An!Live

LEMMA AnnEndsRequest ==
  ASSUME AnnInv, NEW p \in Reqs, An!Ends(p)
  PROVE  nReq' \in [Reqs -> AnnRequest]
BY DEF An!Ends, AnnInv, AnnRequest

LEMMA AnnCreateCheckInv ==
  ASSUME An!AnnouncementsAssumption, AnnInv, NEW p \in Reqs, NEW i \in AnnIds, An!CreateCheck(p, i)
  PROVE  AnnInv'
<1>1. An!UserChurch \in SUBSET AnnChurches
  BY DEF An!UserChurch, AnnInv
<1>2. PICK churchAdmin \in BOOLEAN, S \in SUBSET AnnChurches, s \in {"PUBLISHED", "UNPUBLISHED"},
           d \in AnnDates, e \in AnnDates :
        An!Arrive(p, [op |-> "insert", id |-> i, status |-> s, from |-> d, until |-> e,
                   to |-> IF churchAdmin THEN An!UserChurch ELSE S])
  BY DEF An!CreateCheck
<1>3. PICK T \in SUBSET AnnChurches :
        An!Arrive(p, [op |-> "insert", id |-> i, status |-> s, from |-> d, until |-> e, to |-> T])
  BY <1>1, <1>2
<1>4. d \in Nat /\ e \in Nat
  BY DEF An!AnnouncementsAssumption
<1>5. [op |-> "insert", id |-> i, status |-> s, from |-> d, until |-> e, to |-> T] \in AnnRequest
  BY <1>4 DEF AnnRequest, AnnInserts
<1>6. An!Stays
  BY DEF An!CreateCheck
<1> QED
  BY <1>3, <1>5, <1>6, AnnArriveInv

LEMMA AnnAsksRequest ==
  ASSUME AnnInv, NEW i \in AnnIds, NEW s \in {"", "PUBLISHED", "UNPUBLISHED"}, NEW d \in Nat, NEW e \in Nat,
         NEW S \in {{"as is"}} \cup SUBSET AnnChurches
  PROVE  An!Asks(i, s, d, e, S) \in AnnRequest
<1>1. nRow[i] \in AnnRows
  BY DEF AnnInv
<1> QED
  BY <1>1 DEF An!Asks, AnnRequest, AnnWrites

LEMMA AnnUpdateCheckInv ==
  ASSUME An!AnnouncementsAssumption, AnnInv, NEW p \in Reqs, NEW i \in AnnIds,
         An!UpdateCheck(p, i) \/ An!publish(p, i) \/ An!unpublish(p, i)
  PROVE  AnnInv'
<1>1. AnnDates \cup {0} \subseteq Nat
  BY DEF An!AnnouncementsAssumption
<1>2. An!Stays
  BY DEF An!UpdateCheck, An!publish, An!unpublish
<1>3. \E s \in {"", "PUBLISHED", "UNPUBLISHED"}, d \in Nat, e \in Nat,
         S \in {{"as is"}} \cup SUBSET AnnChurches : An!Arrive(p, An!Asks(i, s, d, e, S))
  <2>1. CASE An!UpdateCheck(p, i)
    <3>1. PICK s \in {"", "PUBLISHED", "UNPUBLISHED"}, d \in AnnDates \cup {0}, e \in AnnDates \cup {0},
               S \in {{"as is"}} \cup SUBSET AnnChurches : An!Arrive(p, An!Asks(i, s, d, e, S))
      BY <2>1 DEF An!UpdateCheck
    <3>2. d \in Nat /\ e \in Nat /\ S \in {{"as is"}} \cup SUBSET AnnChurches
      BY <1>1
    <3> QED
      BY <3>1, <3>2
  <2> DEFINE asIs == {"as is"}
  <2>2. asIs \in {{"as is"}} \cup SUBSET AnnChurches
    OBVIOUS
  <2>3. 0 \in Nat
    OBVIOUS
  <2>4. CASE An!publish(p, i)
    <3>1. An!Arrive(p, An!Asks(i, "PUBLISHED", 0, 0, asIs))
      BY <2>4 DEF An!publish
    <3> QED
      BY <2>2, <2>3, <3>1
  <2>5. CASE An!unpublish(p, i)
    <3>1. An!Arrive(p, An!Asks(i, "UNPUBLISHED", 0, 0, asIs))
      BY <2>5 DEF An!unpublish
    <3> QED
      BY <2>2, <2>3, <3>1
  <2> QED
    BY <2>1, <2>4, <2>5
<1> QED
  BY <1>2, <1>3, AnnAsksRequest, AnnArriveInv

LEMMA AnnCreateInv ==
  ASSUME AnnInv, NEW p \in Reqs, An!Create(p)
  PROVE  AnnInv'
<1> DEFINE r == nReq[p]
<1>1. r \in AnnInserts
  <2>1. r.op = "insert"
    BY DEF An!Create
  <2>2. r \in AnnRequest
    BY DEF AnnInv
  <2> QED
    BY <2>1, <2>2, AnnRequestKinds
<1>2. PICK x : /\ x = [state |-> "live", status |-> r.status, to |-> r.to,
                       from |-> r.from, until |-> r.until]
               /\ nRow' = [nRow EXCEPT ![r.id] = x]
  BY DEF An!Create
<1>3. x \in AnnRows /\ x.status = r.status
  BY <1>1, <1>2 DEF AnnInserts, AnnRows
<1>4. r.id \in AnnIds
  BY <1>1 DEF AnnInserts
<1>5. nHidden' = IF r.status = "PUBLISHED" THEN nHidden \ {r.id} ELSE nHidden
  BY DEF An!Create
<1>6. AnnShownNotHidden'
  <2> SUFFICES ASSUME NEW i \in AnnIds, nRow'[i].state = "live", nRow'[i].status = "PUBLISHED"
               PROVE  i \notin nHidden'
    BY DEF AnnShownNotHidden, An!Live
  <2>1. CASE i = r.id
    <3>1. nRow'[i] = x
      BY <1>2, <1>4, <2>1 DEF AnnInv
    <3> QED
      BY <1>3, <1>5, <2>1, <3>1
  <2>2. CASE i # r.id
    <3>1. nRow'[i] = nRow[i]
      BY <1>2, <1>4, <2>2 DEF AnnInv
    <3> QED
      BY <1>5, <3>1 DEF AnnInv, AnnShownNotHidden, An!Live
  <2> QED
    BY <2>1, <2>2
<1>7. An!Ends(p) /\ nMemberOf' = nMemberOf
  BY DEF An!Create
<1> QED
  BY <1>2, <1>3, <1>4, <1>6, <1>7, AnnEndsRequest DEF AnnInv

(* What an update that was given no status leaves of it.                    *)
LEMMA AnnOnlyGivenRow ==
  ASSUME NEW now \in AnnRows, NEW r \in AnnWrites
  PROVE  /\ An!OnlyGiven(now, r) \in AnnRows
         /\ An!OnlyGiven(now, r).state = now.state
         /\ An!OnlyGiven(now, r).status = IF r.status = "" THEN now.status ELSE r.status
<1> DEFINE s == IF r.status = "" THEN now.status ELSE r.status
           d == IF r.from = 0 THEN now.from ELSE r.from
           e == IF r.until = 0 THEN now.until ELSE r.until
           S == IF r.to = {"as is"} THEN now.to ELSE r.to
<1>1. s \in {"PUBLISHED", "UNPUBLISHED"} /\ d \in Nat /\ e \in Nat /\ S \in SUBSET AnnChurches
  BY DEF AnnRows, AnnWrites
<1>2. An!OnlyGiven(now, r) = [now EXCEPT !.status = s, !.from = d, !.until = e, !.to = S]
  BY DEF An!OnlyGiven, AnnRows
<1> HIDE DEF d, e, S
<1>3. s = IF r.status = "" THEN now.status ELSE r.status
  OBVIOUS
<1> HIDE DEF s
<1>4. An!OnlyGiven(now, r) = [state |-> now.state, status |-> s, to |-> S, from |-> d, until |-> e]
  BY <1>2 DEF AnnRows
<1>5. now.state \in {"new", "live", "deleted"}
  BY DEF AnnRows
<1> DEFINE x == [state |-> now.state, status |-> s, to |-> S, from |-> d, until |-> e]
<1>6. x \in AnnRows
  BY <1>1, <1>5 DEF AnnRows
<1>7. x.state = now.state /\ x.status = s
  OBVIOUS
<1> HIDE DEF x
<1>8. An!OnlyGiven(now, r) = x
  BY <1>4 DEF x
<1> QED
  BY <1>3, <1>6, <1>7, <1>8

LEMMA AnnUpdateInv ==
  ASSUME AnnInv, NEW p \in Reqs, An!update(p)
  PROVE  AnnInv'
<1> DEFINE r == nReq[p]
<1>1. r \in AnnWrites
  <2>1. r.op = "write"
    BY DEF An!update
  <2>2. r \in AnnRequest
    BY DEF AnnInv
  <2> QED
    BY <2>1, <2>2, AnnRequestKinds
<1>2. r.id \in AnnIds /\ r.status \in {"", "PUBLISHED", "UNPUBLISHED"}
  BY <1>1 DEF AnnWrites
<1>3. nRow[r.id] \in AnnRows
  BY <1>2 DEF AnnInv
<1>4. PICK x : x = An!OnlyGiven(nRow[r.id], r) /\ nRow' = [nRow EXCEPT ![r.id] = x]
  BY DEF An!update
<1>5. /\ x \in AnnRows /\ x.state = nRow[r.id].state
      /\ x.status = IF r.status = "" THEN nRow[r.id].status ELSE r.status
  BY <1>1, <1>3, <1>4, AnnOnlyGivenRow
<1>6. nHidden' = CASE r.status = "UNPUBLISHED" -> nHidden \cup {r.id}
                  [] r.status = "PUBLISHED" /\ An!Live(r.id) -> nHidden \ {r.id}
                  [] OTHER -> nHidden
  BY DEF An!update
<1>7. AnnShownNotHidden'
  <2> SUFFICES ASSUME NEW i \in AnnIds, nRow'[i].state = "live", nRow'[i].status = "PUBLISHED"
               PROVE  i \notin nHidden'
    BY DEF AnnShownNotHidden, An!Live
  <2>1. CASE i = r.id
    <3>1. x.state = "live" /\ x.status = "PUBLISHED"
      BY <1>2, <1>4, <2>1 DEF AnnInv
    <3>2. CASE r.status = ""
      <4>1. nHidden' = nHidden
        BY <1>6, <3>2
      <4> QED
        BY <1>2, <1>5, <2>1, <3>1, <3>2, <4>1 DEF AnnInv, AnnShownNotHidden, An!Live
    <3>3. CASE r.status = "PUBLISHED"
      <4>1. nHidden' = nHidden \ {r.id}
        BY <1>5, <1>6, <3>1, <3>3 DEF An!Live
      <4> QED
        BY <2>1, <4>1
    <3>4. r.status # "UNPUBLISHED"
      BY <1>5, <3>1
    <3> QED
      BY <1>2, <3>2, <3>3, <3>4
  <2>2. CASE i # r.id
    <3>1. nRow'[i] = nRow[i]
      BY <1>2, <1>4, <2>2 DEF AnnInv
    <3>2. i \in nHidden' => i \in nHidden
      BY <1>2, <1>6, <2>2
    <3> QED
      BY <3>1, <3>2 DEF AnnInv, AnnShownNotHidden, An!Live
  <2> QED
    BY <2>1, <2>2
<1>8. An!Ends(p) /\ nMemberOf' = nMemberOf
  BY DEF An!update
<1> QED
  BY <1>2, <1>4, <1>5, <1>7, <1>8, AnnEndsRequest DEF AnnInv

LEMMA AnnRemoveInv ==
  ASSUME AnnInv, NEW p \in Reqs, An!remove(p)
  PROVE  AnnInv'
<1> DEFINE i == nReq[p].id
<1>1. i \in AnnIds
  <2>1. nReq[p].op = "remove"
    BY DEF An!remove
  <2>2. nReq[p] \in AnnRequest
    BY DEF AnnInv
  <2>3. nReq[p] \in AnnRemoves
    BY <2>1, <2>2, AnnRequestKinds
  <2> QED
    BY <2>3 DEF AnnRemoves
<1>2. PICK x : x = [nRow[i] EXCEPT !.state = "deleted"] /\ nRow' = [nRow EXCEPT ![i] = x]
  BY DEF An!remove
<1>3. nRow[i] \in AnnRows
  BY <1>1 DEF AnnInv
<1>4. x \in AnnRows /\ x.state = "deleted"
  BY <1>2, <1>3 DEF AnnRows
<1>5. nHidden' = nHidden \cup {i}
  BY DEF An!remove
<1>6. AnnShownNotHidden'
  <2> SUFFICES ASSUME NEW j \in AnnIds, nRow'[j].state = "live", nRow'[j].status = "PUBLISHED"
               PROVE  j \notin nHidden'
    BY DEF AnnShownNotHidden, An!Live
  <2>1. j # i
    BY <1>1, <1>2, <1>4 DEF AnnInv
  <2>2. nRow'[j] = nRow[j]
    BY <1>1, <1>2, <2>1 DEF AnnInv
  <2> QED
    BY <1>5, <2>1, <2>2 DEF AnnInv, AnnShownNotHidden, An!Live
<1>7. An!Ends(p) /\ nMemberOf' = nMemberOf
  BY DEF An!remove
<1> QED
  BY <1>1, <1>2, <1>4, <1>6, <1>7, AnnEndsRequest DEF AnnInv

LEMMA AnnNextInv ==
  ASSUME An!AnnouncementsAssumption, AnnInv, [An!Next]_nVars
  PROVE  AnnInv'
<1>1. ASSUME NEW p \in Reqs, NEW i \in AnnIds, An!RemoveCheck(p, i)
      PROVE  AnnInv'
  <2>1. [op |-> "remove", id |-> i] \in AnnRequest
    BY DEF AnnRequest, AnnRemoves
  <2> QED
    BY <1>1, <2>1, AnnArriveInv DEF An!RemoveCheck
<1>2. CASE An!NextDay \/ UNCHANGED nVars
  BY <1>2 DEF An!NextDay, nVars, AnnInv, AnnShownNotHidden, An!Live
<1> QED
  BY <1>1, <1>2, AnnCreateCheckInv, AnnUpdateCheckInv, AnnCreateInv, AnnUpdateInv, AnnRemoveInv DEF An!Next

LEMMA HiddenIsNotListed == AnnInv => An!UnpublishedStaysHidden
<1> SUFFICES ASSUME AnnInv, NEW c \in AnnChurches \cup {None}
             PROVE  An!findAll("PUBLISHED", c) \cap nHidden = {}
  BY DEF An!UnpublishedStaysHidden
<1>1. \A i \in An!findAll("PUBLISHED", c) : i \in AnnIds /\ An!Live(i) /\ nRow[i].status = "PUBLISHED"
  BY DEF An!findAll
<1> QED
  BY <1>1 DEF AnnInv, AnnShownNotHidden

(* However many updates, publications, withdrawals and removals overlap, an *)
(* announcement that was unpublished or removed last is in no list of the   *)
(* published ones (update, publish, unpublish and remove of the service).   *)
THEOREM UnpublishedIsHidden == MCSpec => []UnpublishedStaysHidden
<1>1. MCInit => AnnInv
  BY AnnInitInv, ContentAssumption DEF MCInit, ContentAssumption
<1>2. AnnInv /\ [MCNext]_allVars => AnnInv'
  BY StepsOfParts, AnnNextInv, ContentAssumption DEF ContentAssumption
<1>3. AnnInv => UnpublishedStaysHidden
  BY HiddenIsNotListed DEF UnpublishedStaysHidden
<1> QED
  BY <1>1, <1>2, <1>3, PTL DEF MCSpec

-----------------------------------------------------------------------------
(***************************************************************************)
(* What the gateway's maps say of the sockets, and what a recording and    *)
(* its file hold, for any sockets, accounts, names and recordings.         *)
(***************************************************************************)
SocketOrNone == SocketIds \cup {None}

(* An id of a socket is used once, so a socket that connects is no account's *)
(* newest one yet: without that, NewestRegistered would not be inductive.   *)
ConnectionsInv ==
  /\ gOpen \subseteq SocketIds /\ gOpen \cap gClosed = {}
  /\ gClients \in [Gw!Users -> SocketOrNone] /\ gNewest \in [Gw!Users -> SocketOrNone]
  /\ \A u \in Gw!Users : gNewest[u] \in gOpen \cup gClosed \cup {None}
  /\ Gw!NewestRegistered

NamesInv ==
  /\ gOpen \subseteq SocketIds /\ gUnseen \subseteq SocketIds
  /\ gActive \in [CallNames -> SocketOrNone]
  /\ Gw!CallsFindSockets

RecordingInv ==
  /\ gChunks \in [RecordingIds -> Seq(Nat)] /\ gFile \in [RecordingIds -> Seq(Nat)]
  /\ gCount \in Nat
  /\ gArrived \in [RecordingIds -> Seq(Nat)]
  /\ Gw!RecordingsWhole
-----------------------------------------------------------------------------
LEMMA OwnerIsUser ==
  ASSUME Gw!GatewayAssumption, NEW s \in SocketIds
  PROVE  SocketOwner[s] \in Gw!Users
BY DEF Gw!GatewayAssumption, Gw!Users, Range

LEMMA ConnectionsInit == Gw!Init => ConnectionsInv
BY DEF Gw!Init, ConnectionsInv, Gw!NewestRegistered, Gw!Nobody, SocketOrNone

LEMMA ConnectInv ==
  ASSUME Gw!GatewayAssumption, ConnectionsInv, NEW s \in SocketIds, Gw!handleConnection(s)
  PROVE  ConnectionsInv'
<1>1. SocketOwner[s] \in Gw!Users /\ s # None /\ s \notin gOpen \cup gClosed
  BY OwnerIsUser DEF Gw!GatewayAssumption, Gw!handleConnection
<1>2. /\ gOpen' = gOpen \cup {s} /\ gClosed' = gClosed
      /\ gClients' = [gClients EXCEPT ![SocketOwner[s]] = s] /\ gNewest' = [gNewest EXCEPT ![SocketOwner[s]] = s]
  BY DEF Gw!handleConnection
<1>3. \A u \in Gw!Users : gNewest[u] # s
  BY <1>1 DEF ConnectionsInv
<1>4. Gw!NewestRegistered'
  <2> SUFFICES ASSUME NEW u \in Gw!Users
               PROVE  gClients'[u] = IF gNewest'[u] \in gOpen' THEN gNewest'[u] ELSE None
    BY DEF Gw!NewestRegistered
  <2>1. CASE u = SocketOwner[s]
    BY <1>1, <1>2, <2>1 DEF ConnectionsInv
  <2>2. CASE u # SocketOwner[s]
    BY <1>2, <1>3, <2>2 DEF ConnectionsInv, Gw!NewestRegistered
  <2> QED
    BY <2>1, <2>2
<1> QED
  BY <1>1, <1>2, <1>4 DEF ConnectionsInv, SocketOrNone

(* The account that loses its socket is the one whose newest socket closes. *)
LEMMA DisconnectInv ==
  ASSUME Gw!GatewayAssumption, ConnectionsInv, NEW s \in SocketIds, Gw!handleDisconnect(s)
  PROVE  ConnectionsInv'
<1>1. s # None /\ s \in gOpen
  BY DEF Gw!GatewayAssumption, Gw!handleDisconnect
<1>2. gOpen' = gOpen \ {s} /\ gClosed' = gClosed \cup {s} /\ gNewest' = gNewest
  BY DEF Gw!handleDisconnect
<1>3. gClients' = [u \in Gw!Users |-> IF u \in Gw!Registered(s) THEN None ELSE gClients[u]]
  <2>1. CASE Gw!Registered(s) = {}
    BY <2>1 DEF Gw!handleDisconnect, ConnectionsInv
  <2>2. CASE Gw!Registered(s) # {}
    BY <2>2 DEF Gw!handleDisconnect
  <2> QED
    BY <2>1, <2>2
<1>4. \A u \in Gw!Users : u \in Gw!Registered(s) <=> gNewest[u] = s
  BY <1>1 DEF Gw!Registered, ConnectionsInv, Gw!NewestRegistered
<1>5. Gw!NewestRegistered'
  BY <1>2, <1>3, <1>4 DEF ConnectionsInv, Gw!NewestRegistered
<1> QED
  BY <1>1, <1>2, <1>3, <1>5 DEF ConnectionsInv, SocketOrNone

LEMMA ConnectionsNext ==
  ASSUME Gw!GatewayAssumption, ConnectionsInv, [Gw!Next]_gVars
  PROVE  ConnectionsInv'
<1>1. CASE Gw!Restart
  BY <1>1 DEF Gw!Restart, ConnectionsInv, Gw!NewestRegistered, Gw!Nobody, SocketOrNone
<1>2. CASE UNCHANGED <<gOpen, gClosed, gClients, gNewest>>
  BY <1>2 DEF ConnectionsInv, Gw!NewestRegistered
<1>3. ASSUME NEW s \in SocketIds,
             Gw!handleRoomJoin(s) \/ \E n \in CallNames : Gw!handleJoin(s, n)
      PROVE  UNCHANGED <<gOpen, gClosed, gClients, gNewest>>
  BY <1>3 DEF Gw!handleRoomJoin, Gw!handleJoin
<1>4. ASSUME \/ \E u \in Gw!Users : Gw!listenForMessages(u)
             \/ \E n \in CallNames : Gw!handleCall(n)
             \/ \E r \in RecordingIds : Gw!handleRecordingChunk(r) \/ Gw!handleRecordingEnd(r)
             \/ UNCHANGED gVars
      PROVE  UNCHANGED <<gOpen, gClosed, gClients, gNewest>>
  BY <1>4 DEF Gw!listenForMessages, Gw!handleCall, Gw!handleRecordingChunk, Gw!handleRecordingEnd,
              Gw!connections, gVars
<1> QED
  BY <1>1, <1>2, <1>3, <1>4, ConnectInv, DisconnectInv DEF Gw!Next
-----------------------------------------------------------------------------
(* Of two names of one socket a disconnect forgets one; it says so in       *)
(* unseen.                                                                  *)
LEMMA SocketNamesCounted ==
  ASSUME NEW S
  PROVE  Gw!Cardinality(S) = Cardinality(S)
BY DEF Gw!Cardinality, Cardinality

LEMMA OneNameOnly ==
  ASSUME IsFiniteSet(CallNames), NEW s, ~(Cardinality(Gw!NamesOf(s)) > 1),
         NEW m \in Gw!NamesOf(s), NEW n \in Gw!NamesOf(s)
  PROVE  m = n
<1>1. Gw!NamesOf(s) \in SUBSET CallNames
  BY DEF Gw!NamesOf
<1>2. IsFiniteSet(Gw!NamesOf(s))
  BY <1>1, FS_Subset
<1>3. {m, n} \in SUBSET Gw!NamesOf(s)
  OBVIOUS
<1>4. IsFiniteSet({m, n}) /\ Cardinality({m, n}) <= Cardinality(Gw!NamesOf(s))
  BY <1>2, <1>3, FS_Subset
<1>5. IsFiniteSet({m}) /\ Cardinality({m}) = 1
  BY FS_Singleton
<1>6. {m} \cup {n} = {m, n}
  OBVIOUS
<1>7. ASSUME m # n
      PROVE  Cardinality({m, n}) = 2
  <2>1. n \notin {m}
    BY <1>7
  <2>2. Cardinality({m} \cup {n}) = Cardinality({m}) + 1
    BY <1>5, <2>1, FS_AddElement
  <2> QED
    BY <1>5, <1>6, <2>2
<1>8. Cardinality(Gw!NamesOf(s)) \in Nat
  BY <1>2, FS_CardinalityType
<1> QED
  BY <1>4, <1>7, <1>8

LEMMA NamesInit == Gw!Init => NamesInv
BY DEF Gw!Init, NamesInv, Gw!CallsFindSockets, Gw!NoNames, SocketOrNone

LEMMA NamesDisconnect ==
  ASSUME IsFiniteSet(CallNames), NamesInv, NEW s \in SocketIds, Gw!handleDisconnect(s)
  PROVE  NamesInv'
<1>1. gOpen' = gOpen \ {s}
  BY DEF Gw!handleDisconnect
<1>2. \A n \in CallNames : n \notin Gw!NamesOf(s) => gActive[n] \in gOpen' \cup gUnseen \cup {None}
  BY <1>1 DEF Gw!NamesOf, NamesInv, Gw!CallsFindSockets
<1>3. CASE Gw!Registered(s) = {}
  <2>1. gUnseen' = gUnseen \cup {s} /\ gActive' = gActive
    BY <1>3 DEF Gw!handleDisconnect
  <2> QED
    BY <1>1, <2>1 DEF NamesInv, Gw!CallsFindSockets
<1>4. CASE Gw!Registered(s) # {} /\ Gw!NamesOf(s) = {}
  <2>1. gActive' = gActive
    BY <1>4 DEF Gw!handleDisconnect
  <2>2. gUnseen \subseteq gUnseen' /\ gUnseen' \subseteq SocketIds
    BY <1>4 DEF Gw!handleDisconnect, NamesInv
  <2> QED
    BY <1>1, <1>2, <1>4, <2>1, <2>2 DEF NamesInv, Gw!CallsFindSockets
<1>5. CASE Gw!Registered(s) # {} /\ Gw!NamesOf(s) # {}
  <2>1. PICK n \in Gw!NamesOf(s) : gActive' = [gActive EXCEPT ![n] = None]
    BY <1>5 DEF Gw!handleDisconnect
  <2>2. n \in CallNames
    BY DEF Gw!NamesOf
  <2>3. gUnseen' = IF Cardinality(Gw!NamesOf(s)) > 1 THEN gUnseen \cup {s} ELSE gUnseen
    BY <1>5, SocketNamesCounted DEF Gw!handleDisconnect
  <2>4. ASSUME NEW m \in CallNames
        PROVE  gActive'[m] \in gOpen' \cup gUnseen' \cup {None}
    <3>1. CASE m = n
      BY <2>1, <2>2, <3>1 DEF NamesInv
    <3>2. CASE m # n /\ m \notin Gw!NamesOf(s)
      <4>1. gUnseen \subseteq gUnseen'
        BY <2>3
      <4>2. gActive'[m] = gActive[m]
        BY <2>1, <2>2, <3>2 DEF NamesInv
      <4> QED
        BY <1>2, <3>2, <4>1, <4>2
    <3>3. CASE m # n /\ m \in Gw!NamesOf(s)
      <4>1. Cardinality(Gw!NamesOf(s)) > 1
        BY <3>3, OneNameOnly
      <4>2. gActive'[m] = s
        BY <2>1, <2>2, <3>3 DEF NamesInv, Gw!NamesOf
      <4> QED
        BY <2>3, <4>1, <4>2
    <3> QED
      BY <3>1, <3>2, <3>3
  <2>5. gActive' \in [CallNames -> SocketOrNone] /\ gUnseen' \subseteq SocketIds
    BY <2>1, <2>3 DEF NamesInv, SocketOrNone
  <2> QED
    BY <1>1, <2>4, <2>5 DEF NamesInv, Gw!CallsFindSockets
<1> QED
  BY <1>3, <1>4, <1>5

LEMMA NamesNext ==
  ASSUME IsFiniteSet(CallNames), NamesInv, [Gw!Next]_gVars
  PROVE  NamesInv'
<1>1. ASSUME NEW s \in SocketIds, Gw!handleConnection(s)
      PROVE  NamesInv'
  BY <1>1 DEF Gw!handleConnection, NamesInv, Gw!CallsFindSockets
<1>2. ASSUME NEW s \in SocketIds, NEW n \in CallNames, Gw!handleJoin(s, n)
      PROVE  NamesInv'
  BY <1>2 DEF Gw!handleJoin, NamesInv, Gw!CallsFindSockets, SocketOrNone
<1>3. CASE Gw!Restart
  BY <1>3 DEF Gw!Restart, NamesInv, Gw!CallsFindSockets, Gw!NoNames, SocketOrNone
<1>4. CASE UNCHANGED <<gOpen, gUnseen, gActive>>
  BY <1>4 DEF NamesInv, Gw!CallsFindSockets
<1>5. ASSUME \/ \E s \in SocketIds : Gw!handleRoomJoin(s)
             \/ \E u \in Gw!Users : Gw!listenForMessages(u)
             \/ \E n \in CallNames : Gw!handleCall(n)
             \/ \E r \in RecordingIds : Gw!handleRecordingChunk(r) \/ Gw!handleRecordingEnd(r)
             \/ UNCHANGED gVars
      PROVE  UNCHANGED <<gOpen, gUnseen, gActive>>
  BY <1>5 DEF Gw!handleRoomJoin, Gw!listenForMessages, Gw!handleCall, Gw!handleRecordingChunk,
              Gw!handleRecordingEnd, Gw!connections, gVars
<1> QED
  BY <1>1, <1>2, <1>3, <1>4, <1>5, NamesDisconnect DEF Gw!Next
-----------------------------------------------------------------------------
LEMMA RecordingInit == Gw!Init => RecordingInv
BY ConcatEmptySeq DEF Gw!Init, RecordingInv, Gw!RecordingsWhole, Gw!NoChunks

(* A chunk that is buffered comes after everything there is of it already.  *)
LEMMA ChunkComesLast ==
  ASSUME NEW f \in Seq(Nat), NEW c \in Seq(Nat), NEW n \in Nat
  PROVE  f \o Append(c, n) = Append(f \o c, n)
<1>1. Append(c, n) = c \o <<n>> /\ Append(f \o c, n) = (f \o c) \o <<n>>
  BY AppendIsConcat, ConcatProperties
<1>2. <<n>> \in Seq(Nat)
  OBVIOUS
<1> QED
  BY <1>1, <1>2, ConcatAssociative

LEMMA ChunkInv ==
  ASSUME RecordingInv, NEW r \in RecordingIds, Gw!handleRecordingChunk(r)
  PROVE  RecordingInv'
<1>1. /\ gChunks' = [gChunks EXCEPT ![r] = Append(@, gCount + 1)]
      /\ gArrived' = [gArrived EXCEPT ![r] = Append(@, gCount + 1)]
      /\ gFile' = gFile /\ gCount' = gCount + 1 /\ gCount + 1 \in Nat
  BY DEF Gw!handleRecordingChunk, RecordingInv
<1>2. gChunks' \in [RecordingIds -> Seq(Nat)] /\ gArrived' \in [RecordingIds -> Seq(Nat)]
  <2>1. Append(gChunks[r], gCount + 1) \in Seq(Nat) /\ Append(gArrived[r], gCount + 1) \in Seq(Nat)
    BY <1>1, AppendProperties DEF RecordingInv
  <2> QED
    BY <1>1, <2>1 DEF RecordingInv
<1>3. gFile[r] \o Append(gChunks[r], gCount + 1) = Append(gFile[r] \o gChunks[r], gCount + 1)
  BY <1>1, ChunkComesLast DEF RecordingInv
<1>4. Gw!RecordingsWhole'
  <2> SUFFICES ASSUME NEW q \in RecordingIds
               PROVE  gFile'[q] \o gChunks'[q] = gArrived'[q]
    BY DEF Gw!RecordingsWhole
  <2>1. CASE q = r
    BY <1>1, <1>3, <2>1 DEF RecordingInv, Gw!RecordingsWhole
  <2>2. CASE q # r
    BY <1>1, <2>2 DEF RecordingInv, Gw!RecordingsWhole
  <2> QED
    BY <2>1, <2>2
<1> QED
  BY <1>1, <1>2, <1>4 DEF RecordingInv

LEMMA GwEndInv ==
  ASSUME RecordingInv, NEW r \in RecordingIds, Gw!handleRecordingEnd(r)
  PROVE  RecordingInv'
<1>1. /\ gFile' = [gFile EXCEPT ![r] = @ \o gChunks[r]] /\ gChunks' = [gChunks EXCEPT ![r] = <<>>]
      /\ gArrived' = gArrived /\ gCount' = gCount
  BY DEF Gw!handleRecordingEnd, Gw!AfterEnd
<1>2. gFile[r] \o gChunks[r] \in Seq(Nat)
  BY ConcatProperties DEF RecordingInv
<1>3. (gFile[r] \o gChunks[r]) \o <<>> = gFile[r] \o gChunks[r]
  BY <1>2, ConcatEmptySeq
<1>4. Gw!RecordingsWhole'
  <2> SUFFICES ASSUME NEW q \in RecordingIds
               PROVE  gFile'[q] \o gChunks'[q] = gArrived'[q]
    BY DEF Gw!RecordingsWhole
  <2>1. CASE q = r
    BY <1>1, <1>3, <2>1 DEF RecordingInv, Gw!RecordingsWhole
  <2>2. CASE q # r
    BY <1>1, <2>2 DEF RecordingInv, Gw!RecordingsWhole
  <2> QED
    BY <2>1, <2>2
<1> QED
  BY <1>1, <1>2, <1>4 DEF RecordingInv

LEMMA RecordingRestart ==
  ASSUME RecordingInv, Gw!Restart
  PROVE  RecordingInv'
<1>1. gChunks' = Gw!NoChunks /\ gArrived' = gFile /\ gFile' = gFile /\ gCount' = gCount
  BY DEF Gw!Restart
<1>2. \A q \in RecordingIds : gFile[q] \o <<>> = gFile[q]
  BY ConcatEmptySeq DEF RecordingInv
<1> QED
  BY <1>1, <1>2 DEF RecordingInv, Gw!RecordingsWhole, Gw!NoChunks

LEMMA RecordingNext ==
  ASSUME RecordingInv, [Gw!Next]_gVars
  PROVE  RecordingInv'
<1>1. CASE UNCHANGED Gw!recorded
  BY <1>1 DEF Gw!recorded, RecordingInv, Gw!RecordingsWhole
<1>2. ASSUME \/ \E s \in SocketIds : \/ Gw!handleConnection(s) \/ Gw!handleDisconnect(s) \/ Gw!handleRoomJoin(s)
                                   \/ \E n \in CallNames : Gw!handleJoin(s, n)
             \/ \E u \in Gw!Users : Gw!listenForMessages(u)
             \/ \E n \in CallNames : Gw!handleCall(n)
             \/ UNCHANGED gVars
      PROVE  UNCHANGED Gw!recorded
  BY <1>2 DEF Gw!handleConnection, Gw!handleDisconnect, Gw!handleRoomJoin, Gw!handleJoin, Gw!listenForMessages,
              Gw!handleCall, gVars, Gw!recorded
<1> QED
  BY <1>1, <1>2, ChunkInv, GwEndInv, RecordingRestart DEF Gw!Next

(* However many tabs of however many accounts come and go in any order, and *)
(* however often the process restarts: the registered socket of an account  *)
(* is the newest one it has opened if that is open, and otherwise none; a   *)
(* call goes to an open socket but for the names of sockets that closed     *)
(* unseen; the file and the buffer of a recording hold every chunk since    *)
(* the last restart once and in order (handleConnection, handleDisconnect,  *)
(* handleJoin, handleRecordingChunk, handleRecordingEnd).                   *)
THEOREM SocketsAreKept ==
  ASSUME IsFiniteSet(CallNames)
  PROVE  MCSpec => []SocketsKept
<1>1. Gw!GatewayAssumption
  BY ContentAssumption DEF ContentAssumption
<1>2. MCInit => ConnectionsInv /\ NamesInv /\ RecordingInv
  BY ConnectionsInit, NamesInit, RecordingInit DEF MCInit
<1>3. ConnectionsInv /\ [MCNext]_allVars => ConnectionsInv'
  BY <1>1, StepsOfParts, ConnectionsNext
<1>4. NamesInv /\ [MCNext]_allVars => NamesInv'
  BY StepsOfParts, NamesNext
<1>5. RecordingInv /\ [MCNext]_allVars => RecordingInv'
  BY StepsOfParts, RecordingNext
<1>6. ConnectionsInv /\ NamesInv /\ RecordingInv => SocketsKept
  BY DEF ConnectionsInv, NamesInv, RecordingInv, SocketsKept
<1> QED
  BY <1>2, <1>3, <1>4, <1>5, <1>6, PTL DEF MCSpec

-----------------------------------------------------------------------------
(***************************************************************************)
(* Profile.  The pictures the avatar's requests know are others than those *)
(* the portfolio's know.  Of an undisturbed column at most one request is  *)
(* under way, and what it has written so far is what it ends with.         *)
(***************************************************************************)
AvatarCalls == [op : {"drop", "put", "save"}, column : {"avatar"}, given : {"new", "remove", "fields"},
                old : Nat, was : SUBSET Nat, file : Nat]
PortfolioCalls == [op : {"edit"}, column : {"portfolio"}, todo : SUBSET Nat, add : {"picture", "other", "none"},
                   list : SUBSET Nat, file : Nat]
WordCalls == [op : {"add", "rename"}, column : {"skills"}, id : SkillIds, word : SkillWords]
EraseCalls == [op : {"erase"}, column : {"skills"}, id : SkillIds]
ProfileCall == {Pr!Idle} \cup AvatarCalls \cup PortfolioCalls \cup WordCalls \cup EraseCalls

ProfileTypes ==
  /\ pAvatar \in Nat /\ pPortfolio \subseteq Nat /\ pFiles \subseteq Nat /\ pCalls \in Nat
  /\ pSkill \in [SkillIds -> SkillWords \cup {Pr!NoWord}] /\ pReq \in [Reqs -> ProfileCall]

Of(p, c) == pReq[p].column = c

(* A picture is of the avatar or of the portfolio.                          *)
OfAvatar(f) == f = pAvatar \/ \E p \in Reqs : Of(p, "avatar") /\ f \in {pReq[p].old, pReq[p].file}
OfPortfolio(f) ==
  f \in pPortfolio \/ \E p \in Reqs : Of(p, "portfolio") /\ f \in pReq[p].todo \cup pReq[p].list \cup {pReq[p].file}

PicturesApart ==
  \A f \in Nat :
    /\ ~(OfAvatar(f) /\ OfPortfolio(f))
    /\ OfAvatar(f) => f <= pCalls
    /\ OfPortfolio(f) => 0 < f /\ f <= pCalls

OneCall ==
  \A c \in Pr!Columns \ pDisturbed, p, q \in Reqs : Of(p, c) /\ Of(q, c) => p = q

Stored(f) == f = 0 \/ f \in pFiles

AvatarUnderWay ==
  "avatar" \notin pDisturbed =>
    /\ Stored(pAvatar) \/ \E p \in Reqs : Of(p, "avatar") /\ pReq[p].given # "fields"
    /\ \A p \in Reqs : Of(p, "avatar") =>
         /\ pReq[p].op = "put" => pReq[p].given = "new"
         /\ pReq[p].op = "drop" => pReq[p].given # "fields"
         /\ pReq[p].op = "save" /\ pReq[p].given = "new" => pReq[p].file \in pFiles

PortfolioUnderWay ==
  "portfolio" \notin pDisturbed =>
    /\ pPortfolio \subseteq pFiles \/ \E p \in Reqs : Of(p, "portfolio")
    /\ \A p \in Reqs : Of(p, "portfolio") => pReq[p].list \subseteq pFiles

SkillsUnderWay ==
  "skills" \notin pDisturbed =>
    /\ \A k, l \in SkillIds : pSkill[k] # Pr!NoWord /\ pSkill[k] = pSkill[l] => k = l
    /\ \A p \in Reqs : pReq[p].op \in {"add", "rename"} =>
         \A k \in SkillIds \ {pReq[p].id} : pSkill[k] # pReq[p].word

ProfileInv ==
  ProfileTypes /\ PicturesApart /\ OneCall /\ AvatarUnderWay /\ PortfolioUnderWay /\ SkillsUnderWay

LEMMA ProfileInit ==
  ASSUME Pr!Init
  PROVE  ProfileInv
<1>1. /\ pAvatar = 0 /\ pPortfolio = {} /\ pSkill = [k \in SkillIds |-> Pr!NoWord] /\ pFiles = {}
      /\ pReq = [p \in Reqs |-> Pr!Idle] /\ pCalls = 0
  BY DEF Pr!Init
<1>2. Pr!Idle \in ProfileCall /\ Pr!Idle.op = "none" /\ Pr!Idle.column = "none"
  BY DEF ProfileCall, Pr!Idle
<1>3. \A p \in Reqs : pReq[p].op = "none" /\ pReq[p].column = "none"
  BY <1>1, <1>2
<1>4. \A p \in Reqs, c \in Pr!Columns : ~Of(p, c)
  BY <1>3 DEF Of, Pr!Columns
<1>5. "avatar" \in Pr!Columns /\ "portfolio" \in Pr!Columns
  BY DEF Pr!Columns
<1>6. ProfileTypes
  BY <1>1, <1>2 DEF ProfileTypes
<1>7. \A f \in Nat : (OfAvatar(f) => f = 0) /\ ~OfPortfolio(f)
  BY <1>1, <1>4, <1>5 DEF OfAvatar, OfPortfolio
<1>8. PicturesApart
  BY <1>1, <1>7 DEF PicturesApart
<1>9. OneCall /\ AvatarUnderWay /\ PortfolioUnderWay /\ SkillsUnderWay
  BY <1>1, <1>3, <1>4, <1>5 DEF OneCall, AvatarUnderWay, PortfolioUnderWay, SkillsUnderWay, Stored
<1> QED
  BY <1>6, <1>8, <1>9 DEF ProfileInv

LEMMA CallKinds ==
  ASSUME ProfileTypes, NEW p \in Reqs
  PROVE  /\ Of(p, "avatar") \/ pReq[p].op \in {"drop", "put", "save"} => pReq[p] \in AvatarCalls
         /\ Of(p, "portfolio") \/ pReq[p].op = "edit" => pReq[p] \in PortfolioCalls
         /\ pReq[p].op \in {"add", "rename"} => pReq[p] \in WordCalls
         /\ pReq[p].op = "erase" => pReq[p] \in EraseCalls
         /\ pReq[p] \in AvatarCalls => Of(p, "avatar") /\ ~Of(p, "portfolio") /\ ~Of(p, "skills")
         /\ pReq[p] \in PortfolioCalls => ~Of(p, "avatar") /\ Of(p, "portfolio") /\ ~Of(p, "skills")
         /\ pReq[p] \in WordCalls \cup EraseCalls => ~Of(p, "avatar") /\ ~Of(p, "portfolio") /\ Of(p, "skills")
<1> DEFINE r == pReq[p]
<1>1. r = Pr!Idle \/ r \in AvatarCalls \/ r \in PortfolioCalls \/ r \in WordCalls \/ r \in EraseCalls
  BY DEF ProfileTypes, ProfileCall
<1>2. r = Pr!Idle => r.op = "none" /\ r.column = "none"
  BY DEF Pr!Idle
<1>3. r \in AvatarCalls => r.op \in {"drop", "put", "save"} /\ r.column = "avatar"
  BY DEF AvatarCalls
<1>4. r \in PortfolioCalls => r.op = "edit" /\ r.column = "portfolio"
  BY DEF PortfolioCalls
<1>5. r \in WordCalls => r.op \in {"add", "rename"} /\ r.column = "skills"
  BY DEF WordCalls
<1>6. r \in EraseCalls => r.op = "erase" /\ r.column = "skills"
  BY DEF EraseCalls
<1> QED
  BY <1>1, <1>2, <1>3, <1>4, <1>5, <1>6 DEF Of

LEMMA CallBecomes ==
  ASSUME ProfileTypes, NEW p \in Reqs, NEW r \in ProfileCall, pReq' = [pReq EXCEPT ![p] = r]
  PROVE  /\ \A q \in Reqs : q # p => pReq'[q] = pReq[q]
         /\ pReq'[p] = r /\ pReq' \in [Reqs -> ProfileCall]
         /\ \A q \in Reqs, c \in Pr!Columns : q # p => (Of(q, c)' <=> Of(q, c))
BY DEF ProfileTypes, Of

(* A step of the request p leaves the columns it is not about as they were. *)
LEMMA AvatarStays ==
  ASSUME ProfileTypes, AvatarUnderWay, NEW p \in Reqs, \A q \in Reqs : q # p => pReq'[q] = pReq[q],
         ~Of(p, "avatar"), ~Of(p, "avatar")', pAvatar' = pAvatar, pDisturbed \subseteq pDisturbed',
         \A f \in Nat : OfAvatar(f) /\ f \in pFiles => f \in pFiles'
  PROVE  AvatarUnderWay'
<1> SUFFICES ASSUME "avatar" \notin pDisturbed
             PROVE  /\ Stored(pAvatar)' \/ \E q \in Reqs : Of(q, "avatar")' /\ pReq'[q].given # "fields"
                    /\ \A q \in Reqs : Of(q, "avatar")' =>
                         /\ pReq'[q].op = "put" => pReq'[q].given = "new"
                         /\ pReq'[q].op = "drop" => pReq'[q].given # "fields"
                         /\ pReq'[q].op = "save" /\ pReq'[q].given = "new" => pReq'[q].file \in pFiles'
  BY DEF AvatarUnderWay
<1>1. \A q \in Reqs : (Of(q, "avatar")' <=> Of(q, "avatar")) /\ (Of(q, "avatar") => pReq'[q] = pReq[q])
  BY DEF Of
<1>2. pAvatar \in Nat /\ OfAvatar(pAvatar)
  BY DEF OfAvatar, ProfileTypes
<1>3. Stored(pAvatar) => Stored(pAvatar)'
  BY <1>2 DEF Stored
<1>4. \A q \in Reqs : Of(q, "avatar") => pReq[q].file \in Nat /\ OfAvatar(pReq[q].file)
  BY CallKinds DEF OfAvatar, AvatarCalls
<1> QED
  BY <1>1, <1>3, <1>4 DEF AvatarUnderWay

LEMMA PortfolioStays ==
  ASSUME ProfileTypes, PortfolioUnderWay, NEW p \in Reqs, \A q \in Reqs : q # p => pReq'[q] = pReq[q],
         ~Of(p, "portfolio"), ~Of(p, "portfolio")', pPortfolio' = pPortfolio, pDisturbed \subseteq pDisturbed',
         \A f \in Nat : OfPortfolio(f) /\ f \in pFiles => f \in pFiles'
  PROVE  PortfolioUnderWay'
<1>1. \A q \in Reqs : (Of(q, "portfolio")' <=> Of(q, "portfolio")) /\ (Of(q, "portfolio") => pReq'[q] = pReq[q])
  BY DEF Of
<1>2. \A f \in pPortfolio : f \in Nat /\ OfPortfolio(f)
  BY DEF OfPortfolio, ProfileTypes
<1>3. \A q \in Reqs : Of(q, "portfolio") => \A f \in pReq[q].list : f \in Nat /\ OfPortfolio(f)
  BY CallKinds DEF OfPortfolio, PortfolioCalls
<1> QED
  BY <1>1, <1>2, <1>3 DEF PortfolioUnderWay

LEMMA SkillsStay ==
  ASSUME ProfileTypes, SkillsUnderWay, NEW p \in Reqs, \A q \in Reqs : q # p => pReq'[q] = pReq[q],
         pReq'[p].op \notin {"add", "rename"}, pSkill' = pSkill, pDisturbed \subseteq pDisturbed'
  PROVE  SkillsUnderWay'
BY DEF SkillsUnderWay

LEMMA OneCallStays ==
  ASSUME OneCall, NEW p \in Reqs, \A q \in Reqs : q # p => pReq'[q] = pReq[q],
         \A c \in Pr!Columns : Of(p, c)' => Of(p, c), pDisturbed \subseteq pDisturbed'
  PROVE  OneCall'
<1>1. \A c \in Pr!Columns, q \in Reqs : Of(q, c)' => Of(q, c)
  BY DEF Of
<1> QED
  BY <1>1 DEF OneCall

LEMMA ApartStays ==
  ASSUME PicturesApart, pCalls' = pCalls,
         \A f \in Nat : (OfAvatar(f)' => OfAvatar(f)) /\ (OfPortfolio(f)' => OfPortfolio(f))
  PROVE  PicturesApart'
BY DEF PicturesApart

(* A request that arrives knows the pictures of its column and a new one.   *)
LEMMA CallArrives ==
  ASSUME ProfileInv, NEW p \in Reqs, NEW r \in ProfileCall, NEW spoils \in BOOLEAN, NEW c \in Pr!Columns,
         r.column = c, Pr!Arrive(p, r, spoils), Pr!RowStays, pFiles' = pFiles,
         r \in AvatarCalls \cup PortfolioCalls \cup WordCalls \cup EraseCalls,
         c = "avatar" => /\ r.old = pAvatar /\ r.file = pCalls + 1 /\ r.op # "put"
                         /\ (r.op = "drop" => r.given # "fields") /\ (r.op = "save" => r.given = "fields"),
         c = "portfolio" => r.todo \subseteq pPortfolio /\ r.list = pPortfolio /\ r.file = pCalls + 1,
         r.op \in {"add", "rename"} => spoils \/ \A k \in SkillIds \ {r.id} : pSkill[k] # r.word
  PROVE  ProfileInv'
<1>1. ProfileTypes /\ PicturesApart /\ OneCall /\ AvatarUnderWay /\ PortfolioUnderWay /\ SkillsUnderWay
  BY DEF ProfileInv
<1>2. /\ pReq[p] = Pr!Idle /\ pCalls' = pCalls + 1 /\ pReq' = [pReq EXCEPT ![p] = r]
      /\ pDisturbed' = IF spoils \/ Pr!Busy(c) THEN pDisturbed \cup {c} ELSE pDisturbed
      /\ pAvatar' = pAvatar /\ pPortfolio' = pPortfolio /\ pSkill' = pSkill
  BY DEF Pr!Arrive, Pr!RowStays
<1>3. /\ \A q \in Reqs : q # p => pReq'[q] = pReq[q]
      /\ pReq'[p] = r /\ pReq' \in [Reqs -> ProfileCall]
      /\ \A q \in Reqs, d \in Pr!Columns : q # p => (Of(q, d)' <=> Of(q, d))
  BY <1>1, <1>2, CallBecomes
<1>4. ProfileTypes'
  BY <1>1, <1>2, <1>3 DEF ProfileTypes
<1>5. \A d \in Pr!Columns : ~Of(p, d) /\ (Of(p, d)' <=> d = c)
  BY <1>2, <1>3 DEF Of, Pr!Columns, Pr!Idle
<1>6. pDisturbed \subseteq pDisturbed' /\ (c \notin pDisturbed' => ~spoils /\ \A q \in Reqs : ~Of(q, c))
  BY <1>2 DEF Of, Pr!Busy
<1>7. "avatar" \in Pr!Columns /\ "portfolio" \in Pr!Columns /\ "skills" \in Pr!Columns
  BY DEF Pr!Columns
<1>8. \A f \in Nat : OfAvatar(f)' => OfAvatar(f) \/ (c = "avatar" /\ f = pCalls + 1)
  <2> SUFFICES ASSUME NEW f \in Nat, OfAvatar(f)', ~OfAvatar(f)
               PROVE  c = "avatar" /\ f = pCalls + 1
    OBVIOUS
  <2>1. PICK q \in Reqs : Of(q, "avatar")' /\ f \in {pReq'[q].old, pReq'[q].file}
    BY <1>2 DEF OfAvatar
  <2>2. q = p
    BY <2>1, <1>3, <1>7 DEF OfAvatar
  <2>3. c = "avatar"
    BY <2>1, <2>2, <1>5, <1>7
  <2> QED
    BY <2>1, <2>2, <2>3, <1>3 DEF OfAvatar
<1>9. \A f \in Nat : OfPortfolio(f)' => OfPortfolio(f) \/ (c = "portfolio" /\ f = pCalls + 1)
  <2> SUFFICES ASSUME NEW f \in Nat, OfPortfolio(f)', ~OfPortfolio(f)
               PROVE  c = "portfolio" /\ f = pCalls + 1
    OBVIOUS
  <2>1. PICK q \in Reqs : Of(q, "portfolio")' /\ f \in pReq'[q].todo \cup pReq'[q].list \cup {pReq'[q].file}
    BY <1>2 DEF OfPortfolio
  <2>2. q = p
    BY <2>1, <1>3, <1>7 DEF OfPortfolio
  <2>3. c = "portfolio"
    BY <2>1, <2>2, <1>5, <1>7
  <2> QED
    BY <2>1, <2>2, <2>3, <1>3 DEF OfPortfolio
<1>10. PicturesApart'
  <2>1. pCalls \in Nat /\ pCalls' = pCalls + 1
    BY <1>1, <1>2 DEF ProfileTypes
  <2>2. ~(c = "avatar" /\ c = "portfolio")
    OBVIOUS
  <2> QED
    BY <2>1, <2>2, <1>1, <1>8, <1>9 DEF PicturesApart
<1>11. OneCall'
  <2> SUFFICES ASSUME NEW d \in Pr!Columns, d \notin pDisturbed', NEW q \in Reqs, NEW s \in Reqs, Of(q, d)', Of(s, d)'
               PROVE  q = s
    BY DEF OneCall
  <2>1. CASE d = c
    BY <2>1, <1>3, <1>6
  <2>2. CASE d # c
    BY <2>2, <1>1, <1>3, <1>5, <1>6 DEF OneCall
  <2> QED
    BY <2>1, <2>2
<1>12. AvatarUnderWay'
  <2>1. CASE c # "avatar"
    BY <2>1, <1>1, <1>2, <1>3, <1>5, <1>6, <1>7, AvatarStays
  <2>2. CASE c = "avatar"
    <3> SUFFICES ASSUME "avatar" \notin pDisturbed'
                 PROVE  /\ Stored(pAvatar)'
                        /\ \A q \in Reqs : Of(q, "avatar")' =>
                             /\ pReq'[q].op = "put" => pReq'[q].given = "new"
                             /\ pReq'[q].op = "drop" => pReq'[q].given # "fields"
                             /\ pReq'[q].op = "save" /\ pReq'[q].given = "new" => pReq'[q].file \in pFiles'
      BY DEF AvatarUnderWay
    <3>1. \A q \in Reqs : ~Of(q, "avatar") /\ (Of(q, "avatar")' => q = p)
      BY <2>2, <1>3, <1>6
    <3>2. Stored(pAvatar)
      BY <3>1, <2>2, <1>1, <1>6 DEF AvatarUnderWay
    <3>3. Stored(pAvatar)'
      BY <3>2, <1>2 DEF Stored
    <3> QED
      BY <3>1, <3>3, <2>2, <1>3
  <2> QED
    BY <2>1, <2>2
<1>13. PortfolioUnderWay'
  <2>1. CASE c # "portfolio"
    BY <2>1, <1>1, <1>2, <1>3, <1>5, <1>6, <1>7, PortfolioStays
  <2>2. CASE c = "portfolio"
    <3> SUFFICES ASSUME "portfolio" \notin pDisturbed'
                 PROVE  pPortfolio' \subseteq pFiles' /\ \A q \in Reqs : Of(q, "portfolio")' => pReq'[q].list \subseteq pFiles'
      BY DEF PortfolioUnderWay
    <3>1. \A q \in Reqs : ~Of(q, "portfolio") /\ (Of(q, "portfolio")' => q = p)
      BY <2>2, <1>3, <1>6
    <3>2. pPortfolio \subseteq pFiles
      BY <3>1, <2>2, <1>1, <1>6 DEF PortfolioUnderWay
    <3> QED
      BY <3>1, <3>2, <2>2, <1>2, <1>3
  <2> QED
    BY <2>1, <2>2
<1>14. SkillsUnderWay'
  <2> SUFFICES ASSUME "skills" \notin pDisturbed'
               PROVE  /\ \A k, l \in SkillIds : pSkill'[k] # Pr!NoWord /\ pSkill'[k] = pSkill'[l] => k = l
                      /\ \A q \in Reqs : pReq'[q].op \in {"add", "rename"} =>
                           \A k \in SkillIds \ {pReq'[q].id} : pSkill'[k] # pReq'[q].word
    BY DEF SkillsUnderWay
  <2>1. \A k, l \in SkillIds : pSkill'[k] # Pr!NoWord /\ pSkill'[k] = pSkill'[l] => k = l
    BY <1>1, <1>2, <1>6 DEF SkillsUnderWay
  <2>2. r.op \in {"add", "rename"} => ~spoils
    <3>1. r.op \in {"add", "rename"} => c = "skills"
      BY DEF AvatarCalls, PortfolioCalls, WordCalls, EraseCalls
    <3> QED
      BY <3>1, <1>6
  <2>3. ASSUME NEW q \in Reqs, pReq'[q].op \in {"add", "rename"}
        PROVE  \A k \in SkillIds \ {pReq'[q].id} : pSkill'[k] # pReq'[q].word
    <3>1. CASE q = p
      BY <3>1, <2>2, <2>3, <1>2, <1>3
    <3>2. CASE q # p
      BY <3>2, <2>3, <1>1, <1>2, <1>3, <1>6 DEF SkillsUnderWay
    <3> QED
      BY <3>1, <3>2
  <2> QED
    BY <2>1, <2>3
<1> QED
  BY <1>4, <1>10, <1>11, <1>12, <1>13, <1>14 DEF ProfileInv

LEMMA ProfileArrivals ==
  ASSUME ProfileInv, NEW p \in Reqs,
         \/ Pr!ProfileCheck(p) \/ Pr!PortfolioCheck(p)
         \/ Pr!createSkillCheck(p) \/ Pr!updateSkillCheck(p) \/ Pr!deleteSkillCheck(p)
  PROVE  ProfileInv'
<1>1. ProfileTypes
  BY DEF ProfileInv
<1>2. pAvatar \in Nat /\ pPortfolio \in SUBSET Nat /\ pCalls + 1 \in Nat
  BY <1>1 DEF ProfileTypes
<1>3. CASE Pr!ProfileCheck(p)
  <2>1. PICK given \in {"new", "remove", "fields"} :
          Pr!Arrive(p, [op |-> IF given = "fields" THEN "save" ELSE "drop", column |-> "avatar",
                        given |-> given, old |-> pAvatar, was |-> pPortfolio, file |-> pCalls + 1], FALSE)
    BY <1>3 DEF Pr!ProfileCheck
  <2> DEFINE o == IF given = "fields" THEN "save" ELSE "drop"
             r == [op |-> o, column |-> "avatar", given |-> given, old |-> pAvatar, was |-> pPortfolio, file |-> pCalls + 1]
  <2>2. r \in AvatarCalls
    BY <1>2 DEF AvatarCalls
  <2>3. /\ r.old = pAvatar /\ r.file = pCalls + 1 /\ r.op # "put" /\ r.op \notin {"add", "rename"} /\ r.column = "avatar"
        /\ (r.op = "drop" => r.given # "fields") /\ (r.op = "save" => r.given = "fields")
    OBVIOUS
  <2>4. Pr!Arrive(p, r, FALSE) /\ Pr!RowStays /\ pFiles' = pFiles
    BY <1>3, <2>1 DEF Pr!ProfileCheck
  <2> HIDE DEF r
  <2>5. r \in ProfileCall /\ "avatar" \in Pr!Columns /\ FALSE \in BOOLEAN
    BY <2>2 DEF ProfileCall, Pr!Columns
  <2> QED
    BY <2>2, <2>3, <2>4, <2>5, CallArrives
<1>4. CASE Pr!PortfolioCheck(p)
  <2>1. PICK D \in SUBSET pPortfolio, add \in {"picture", "other", "none"} :
          Pr!Arrive(p, [op |-> "edit", column |-> "portfolio", todo |-> D, add |-> add,
                        list |-> pPortfolio, file |-> pCalls + 1], FALSE)
    BY <1>4 DEF Pr!PortfolioCheck
  <2> DEFINE r == [op |-> "edit", column |-> "portfolio", todo |-> D, add |-> add, list |-> pPortfolio, file |-> pCalls + 1]
  <2>2. r \in PortfolioCalls
    BY <1>2 DEF PortfolioCalls
  <2>3. r.op = "edit" /\ r.todo \subseteq pPortfolio /\ r.list = pPortfolio /\ r.file = pCalls + 1 /\ r.column = "portfolio"
    OBVIOUS
  <2>4. Pr!Arrive(p, r, FALSE) /\ Pr!RowStays /\ pFiles' = pFiles
    BY <1>4, <2>1 DEF Pr!PortfolioCheck
  <2> HIDE DEF r
  <2>5. r \in ProfileCall /\ "portfolio" \in Pr!Columns /\ FALSE \in BOOLEAN
    BY <2>2 DEF ProfileCall, Pr!Columns
  <2> QED
    BY <2>2, <2>3, <2>4, <2>5, CallArrives
<1>5. ASSUME Pr!createSkillCheck(p) \/ Pr!updateSkillCheck(p)
      PROVE  ProfileInv'
  <2>1. PICK w \in SkillWords, padded \in BOOLEAN, k \in SkillIds, o \in {"add", "rename"} :
          /\ Pr!Arrive(p, [op |-> o, column |-> "skills", id |-> k, word |-> w], padded)
          /\ padded \/ \A l \in SkillIds \ {k} : pSkill[l] # w
    BY <1>5 DEF Pr!createSkillCheck, Pr!updateSkillCheck, Pr!Taken
  <2> DEFINE r == [op |-> o, column |-> "skills", id |-> k, word |-> w]
  <2>2. r \in WordCalls
    BY DEF WordCalls
  <2>3. r.column = "skills" /\ r.id = k /\ r.word = w
    OBVIOUS
  <2>4. Pr!Arrive(p, r, padded) /\ Pr!RowStays /\ pFiles' = pFiles
    BY <1>5, <2>1 DEF Pr!createSkillCheck, Pr!updateSkillCheck
  <2> HIDE DEF r
  <2>5. r \in ProfileCall /\ "skills" \in Pr!Columns
    BY <2>2 DEF ProfileCall, Pr!Columns
  <2> QED
    BY <2>1, <2>2, <2>3, <2>4, <2>5, CallArrives
<1>6. CASE Pr!deleteSkillCheck(p)
  <2>1. PICK k \in SkillIds : Pr!Arrive(p, [op |-> "erase", column |-> "skills", id |-> k], FALSE)
    BY <1>6 DEF Pr!deleteSkillCheck
  <2> DEFINE r == [op |-> "erase", column |-> "skills", id |-> k]
  <2>2. r \in EraseCalls /\ r.column = "skills" /\ r.op = "erase"
    BY DEF EraseCalls
  <2>3. Pr!Arrive(p, r, FALSE) /\ Pr!RowStays /\ pFiles' = pFiles
    BY <1>6, <2>1 DEF Pr!deleteSkillCheck
  <2> HIDE DEF r
  <2>4. r \in ProfileCall /\ "skills" \in Pr!Columns /\ FALSE \in BOOLEAN
    BY <2>2 DEF ProfileCall, Pr!Columns
  <2> QED
    BY <2>2, <2>3, <2>4, CallArrives
<1> QED
  BY <1>3, <1>4, <1>5, <1>6

(* A step of the avatar's request: the row, the files and the request.      *)
LEMMA AvatarMoves ==
  ASSUME ProfileInv, NEW p \in Reqs, pReq[p] \in AvatarCalls, NEW r \in {Pr!Idle} \cup AvatarCalls,
         pReq' = [pReq EXCEPT ![p] = r], pCalls' = pCalls, pDisturbed' = pDisturbed,
         pPortfolio' = pPortfolio, pSkill' = pSkill,
         r \in AvatarCalls => pAvatar' = pAvatar /\ r.old = pReq[p].old /\ r.file = pReq[p].file,
         r \in AvatarCalls /\ "avatar" \notin pDisturbed =>
            /\ (r.op = "put" => r.given = "new") /\ r.op # "drop" /\ r.given # "fields"
            /\ (r.op = "save" /\ r.given = "new" => r.file \in pFiles'),
         pFiles \ {pReq[p].old} \subseteq pFiles', pFiles' \subseteq pFiles \cup {pReq[p].file},
         r = Pr!Idle => /\ pReq[p].op = "save" /\ pFiles' = pFiles
                        /\ pAvatar' \in {pAvatar, 0, pReq[p].file}
                        /\ (pReq[p].given = "new" => pAvatar' = pReq[p].file)
                        /\ (pReq[p].given = "remove" => pAvatar' = 0)
                        /\ (pReq[p].given = "fields" => pAvatar' = pAvatar)
  PROVE  ProfileInv'
<1>1. ProfileTypes /\ PicturesApart /\ OneCall /\ AvatarUnderWay /\ PortfolioUnderWay /\ SkillsUnderWay
  BY DEF ProfileInv
<1>2. r \in ProfileCall
  BY DEF ProfileCall
<1>3. /\ \A q \in Reqs : q # p => pReq'[q] = pReq[q]
      /\ pReq'[p] = r /\ pReq' \in [Reqs -> ProfileCall]
      /\ \A q \in Reqs, d \in Pr!Columns : q # p => (Of(q, d)' <=> Of(q, d))
  BY <1>1, <1>2, CallBecomes
<1>4. pReq[p].old \in Nat /\ pReq[p].file \in Nat /\ pReq[p].given \in {"new", "remove", "fields"}
  BY DEF AvatarCalls
<1>5. pAvatar' \in Nat /\ pFiles' \subseteq Nat
  BY <1>1, <1>4 DEF ProfileTypes
<1>6. ProfileTypes'
  BY <1>1, <1>3, <1>5 DEF ProfileTypes
<1>7. Of(p, "avatar") /\ ~Of(p, "portfolio") /\ ~Of(p, "skills")
  BY <1>1, CallKinds
<1>8. /\ r = Pr!Idle => r.op = "none" /\ r.column = "none"
      /\ r \in AvatarCalls => r.column = "avatar" /\ r.op \in {"drop", "put", "save"}
  BY DEF Pr!Idle, AvatarCalls
<1>9. ~Of(p, "portfolio")' /\ ~Of(p, "skills")' /\ (Of(p, "avatar")' <=> r \in AvatarCalls) /\ r.op \notin {"add", "rename"}
  BY <1>3, <1>8 DEF Of
<1>10. "avatar" \in Pr!Columns /\ "portfolio" \in Pr!Columns /\ Pr!Columns = {"avatar", "portfolio", "skills"}
  BY DEF Pr!Columns
<1>11. OneCall'
  BY <1>1, <1>3, <1>7, <1>9, <1>10, OneCallStays
<1>12. PicturesApart'
  <2>1. \A f \in Nat : OfPortfolio(f)' => OfPortfolio(f)
    BY <1>3, <1>7, <1>9, <1>10 DEF OfPortfolio
  <2>2. \A f \in Nat : OfAvatar(f)' => OfAvatar(f) \/ f = 0
    <3> SUFFICES ASSUME NEW f \in Nat, OfAvatar(f)', f # 0
                 PROVE  OfAvatar(f)
      OBVIOUS
    <3>1. CASE f = pAvatar'
      BY <3>1, <1>7 DEF OfAvatar
    <3>2. CASE \E q \in Reqs : Of(q, "avatar")' /\ f \in {pReq'[q].old, pReq'[q].file}
      <4>1. PICK q \in Reqs : Of(q, "avatar")' /\ f \in {pReq'[q].old, pReq'[q].file}
        BY <3>2
      <4>2. CASE q = p
        BY <4>1, <4>2, <1>3, <1>7, <1>9 DEF OfAvatar
      <4>3. CASE q # p
        BY <4>1, <4>3, <1>3, <1>10 DEF OfAvatar
      <4> QED
        BY <4>2, <4>3
    <3> QED
      BY <3>1, <3>2 DEF OfAvatar
  <2>3. ~OfPortfolio(0) /\ pCalls \in Nat
    BY <1>1 DEF PicturesApart, ProfileTypes
  <2>4. \A f \in Nat : OfAvatar(f)' => ~OfPortfolio(f) /\ f <= pCalls
    BY <2>2, <2>3, <1>1 DEF PicturesApart
  <2>5. \A f \in Nat : OfPortfolio(f)' => 0 < f /\ f <= pCalls
    BY <2>1, <1>1 DEF PicturesApart
  <2>6. \A f \in Nat : ~(OfAvatar(f)' /\ OfPortfolio(f)')
    BY <2>1, <2>4
  <2> QED
    BY <2>4, <2>5, <2>6 DEF PicturesApart
<1>13. PortfolioUnderWay'
  <2>1. OfAvatar(pReq[p].old)
    BY <1>7 DEF OfAvatar
  <2>2. \A f \in Nat : OfPortfolio(f) /\ f \in pFiles => f \in pFiles'
    BY <2>1, <1>1, <1>4 DEF PicturesApart
  <2> QED
    BY <2>2, <1>1, <1>3, <1>7, <1>9, PortfolioStays
<1>14. SkillsUnderWay'
  BY <1>1, <1>3, <1>9, SkillsStay
<1>15. AvatarUnderWay'
  <2> SUFFICES ASSUME "avatar" \notin pDisturbed
               PROVE  /\ Stored(pAvatar)' \/ \E q \in Reqs : Of(q, "avatar")' /\ pReq'[q].given # "fields"
                      /\ \A q \in Reqs : Of(q, "avatar")' =>
                           /\ pReq'[q].op = "put" => pReq'[q].given = "new"
                           /\ pReq'[q].op = "drop" => pReq'[q].given # "fields"
                           /\ pReq'[q].op = "save" /\ pReq'[q].given = "new" => pReq'[q].file \in pFiles'
    BY DEF AvatarUnderWay
  <2>1. \A q \in Reqs : Of(q, "avatar") => q = p
    BY <1>1, <1>7, <1>10 DEF OneCall
  <2>2. \A q \in Reqs : Of(q, "avatar")' => q = p
    BY <2>1, <1>3, <1>10
  <2>3. CASE r \in AvatarCalls
    BY <2>2, <2>3, <1>3, <1>9
  <2>4. CASE r = Pr!Idle
    <3>1. pReq[p].op = "save" /\ pFiles' = pFiles
      BY <2>4
    <3>2. pReq[p].given = "new" => pReq[p].file \in pFiles
      BY <3>1, <1>1, <1>7 DEF AvatarUnderWay
    <3>3. pReq[p].given = "fields" => Stored(pAvatar)
      BY <2>1, <1>1 DEF AvatarUnderWay
    <3>4. pAvatar' = 0 \/ pAvatar' \in pFiles'
      BY <2>4, <3>1, <3>2, <3>3, <1>4 DEF Stored
    <3>5. \A q \in Reqs : ~Of(q, "avatar")'
      BY <2>2, <2>4, <1>3, <1>8 DEF Of
    <3> QED
      BY <3>4, <3>5 DEF Stored
  <2> QED
    BY <2>3, <2>4
<1> QED
  BY <1>6, <1>11, <1>12, <1>13, <1>14, <1>15 DEF ProfileInv

LEMMA AvatarSteps ==
  ASSUME ProfileInv, NEW p \in Reqs, Pr!AvatarDrop(p) \/ Pr!AvatarPut(p) \/ Pr!updateProfile(p)
  PROVE  ProfileInv'
<1>1. ProfileTypes /\ AvatarUnderWay
  BY DEF ProfileInv
<1>2. pReq[p] \in AvatarCalls
  BY <1>1, CallKinds DEF Pr!AvatarDrop, Pr!AvatarPut, Pr!updateProfile
<1>3. pReq[p].file \in Nat /\ pReq[p].old \in Nat /\ pReq[p].given \in {"new", "remove", "fields"}
  BY <1>2 DEF AvatarCalls
<1>4. Pr!Idle.op = "none" /\ Pr!Idle \notin AvatarCalls
  BY DEF Pr!Idle, AvatarCalls
<1>5. CASE Pr!AvatarDrop(p)
  <2>1. PICK o, r : /\ o \in {"put", "save"} /\ (pReq[p].given = "new" <=> o = "put")
                     /\ r = [pReq[p] EXCEPT !.op = o] /\ pReq' = [pReq EXCEPT ![p] = r]
    BY <1>5 DEF Pr!AvatarDrop, Pr!Becomes
  <2>2. r \in AvatarCalls /\ r.op = o /\ r.given = pReq[p].given /\ r.old = pReq[p].old /\ r.file = pReq[p].file
    BY <2>1, <1>2 DEF AvatarCalls
  <2>3. /\ pFiles' \in {pFiles, pFiles \ {pReq[p].old}} /\ pDisturbed' = pDisturbed /\ pCalls' = pCalls
        /\ pAvatar' = pAvatar /\ pPortfolio' = pPortfolio /\ pSkill' = pSkill
    BY <1>5 DEF Pr!AvatarDrop, Pr!Becomes, Pr!RowStays
  <2>4. "avatar" \notin pDisturbed => pReq[p].given # "fields"
    BY <1>1, <1>2, <1>5, CallKinds DEF AvatarUnderWay, Pr!AvatarDrop
  <2>5. pFiles \ {pReq[p].old} \subseteq pFiles' /\ pFiles' \subseteq pFiles \cup {pReq[p].file}
    BY <2>3
  <2> QED
    BY <2>1, <2>2, <2>3, <2>4, <2>5, <1>2, <1>4, AvatarMoves
<1>6. CASE Pr!AvatarPut(p)
  <2>1. PICK r : r = [pReq[p] EXCEPT !.op = "save"] /\ pReq' = [pReq EXCEPT ![p] = r]
    BY <1>6 DEF Pr!AvatarPut, Pr!Becomes
  <2>2. r \in AvatarCalls /\ r.op = "save" /\ r.given = pReq[p].given /\ r.old = pReq[p].old /\ r.file = pReq[p].file
    BY <2>1, <1>2 DEF AvatarCalls
  <2>3. /\ pFiles' = pFiles \cup {pReq[p].file} /\ pDisturbed' = pDisturbed /\ pCalls' = pCalls
        /\ pAvatar' = pAvatar /\ pPortfolio' = pPortfolio /\ pSkill' = pSkill
    BY <1>6 DEF Pr!AvatarPut, Pr!Becomes, Pr!RowStays
  <2>4. "avatar" \notin pDisturbed => pReq[p].given = "new"
    BY <1>1, <1>2, <1>6, CallKinds DEF AvatarUnderWay, Pr!AvatarPut
  <2>5. pFiles \ {pReq[p].old} \subseteq pFiles' /\ pFiles' \subseteq pFiles \cup {pReq[p].file} /\ r.file \in pFiles'
    BY <2>2, <2>3
  <2> QED
    BY <2>1, <2>2, <2>3, <2>4, <2>5, <1>2, <1>4, AvatarMoves
<1>7. CASE Pr!updateProfile(p)
  <2>1. /\ pReq[p].op = "save" /\ pReq' = [pReq EXCEPT ![p] = Pr!Idle] /\ pCalls' = pCalls
        /\ pSkill' = pSkill /\ pFiles' = pFiles /\ pDisturbed' = pDisturbed /\ pPortfolio' = pPortfolio
    BY <1>7 DEF Pr!updateProfile, Pr!Ends, Pr!Becomes, Pr!OtherColumns
  <2>2. pAvatar' = CASE pReq[p].given = "new" -> pReq[p].file [] pReq[p].given = "remove" -> 0 [] OTHER -> pAvatar
    BY <1>7 DEF Pr!updateProfile
  <2>3. /\ pReq[p].given = "new" => pAvatar' = pReq[p].file
        /\ pReq[p].given = "remove" => pAvatar' = 0
        /\ pReq[p].given = "fields" => pAvatar' = pAvatar
    BY <2>2
  <2>4. pAvatar' \in {pAvatar, 0, pReq[p].file}
    BY <2>3, <1>3
  <2>5. Pr!Idle \in {Pr!Idle} \cup AvatarCalls /\ pFiles \ {pReq[p].old} \subseteq pFiles' /\ pFiles' \subseteq pFiles \cup {pReq[p].file}
    BY <2>1
  <2> QED
    BY <2>1, <2>3, <2>4, <2>5, <1>2, <1>4, AvatarMoves
<1> QED
  BY <1>5, <1>6, <1>7

(* A step of the portfolio's request.                                       *)
LEMMA PortfolioMoves ==
  ASSUME ProfileInv, NEW p \in Reqs, pReq[p] \in PortfolioCalls, NEW r \in {Pr!Idle} \cup PortfolioCalls,
         pReq' = [pReq EXCEPT ![p] = r], pCalls' = pCalls, pDisturbed \subseteq pDisturbed',
         pAvatar' = pAvatar, pSkill' = pSkill,
         r \in PortfolioCalls => /\ pPortfolio' = pPortfolio /\ r.file = pReq[p].file
                                 /\ r.todo \subseteq pReq[p].todo /\ r.list \subseteq pReq[p].list \cup {pReq[p].file}
                                 /\ (pReq[p].list \subseteq pFiles => r.list \subseteq pFiles'),
         pFiles \ pReq[p].todo \subseteq pFiles', pFiles' \subseteq pFiles \cup {pReq[p].file},
         r = Pr!Idle => /\ pFiles' = pFiles
                        /\ pPortfolio' = pReq[p].list \/ (pPortfolio' = pPortfolio /\ "portfolio" \in pDisturbed')
  PROVE  ProfileInv'
<1>1. ProfileTypes /\ PicturesApart /\ OneCall /\ AvatarUnderWay /\ PortfolioUnderWay /\ SkillsUnderWay
  BY DEF ProfileInv
<1>2. r \in ProfileCall
  BY DEF ProfileCall
<1>3. /\ \A q \in Reqs : q # p => pReq'[q] = pReq[q]
      /\ pReq'[p] = r /\ pReq' \in [Reqs -> ProfileCall]
      /\ \A q \in Reqs, d \in Pr!Columns : q # p => (Of(q, d)' <=> Of(q, d))
  BY <1>1, <1>2, CallBecomes
<1>4. pReq[p].todo \subseteq Nat /\ pReq[p].list \subseteq Nat /\ pReq[p].file \in Nat
  BY DEF PortfolioCalls
<1>5. pPortfolio' \subseteq Nat /\ pFiles' \subseteq Nat
  BY <1>1, <1>4 DEF ProfileTypes
<1>6. ProfileTypes'
  BY <1>1, <1>3, <1>5 DEF ProfileTypes
<1>7. ~Of(p, "avatar") /\ Of(p, "portfolio") /\ ~Of(p, "skills")
  BY <1>1, CallKinds
<1>8. /\ r = Pr!Idle => r.op = "none" /\ r.column = "none"
      /\ r \in PortfolioCalls => r.column = "portfolio" /\ r.op = "edit"
  BY DEF Pr!Idle, PortfolioCalls
<1>9. ~Of(p, "avatar")' /\ ~Of(p, "skills")' /\ (Of(p, "portfolio")' <=> r \in PortfolioCalls) /\ r.op \notin {"add", "rename"}
  BY <1>3, <1>8 DEF Of
<1>10. "avatar" \in Pr!Columns /\ "portfolio" \in Pr!Columns /\ Pr!Columns = {"avatar", "portfolio", "skills"}
  BY DEF Pr!Columns
<1>11. OneCall'
  BY <1>1, <1>3, <1>7, <1>9, <1>10, OneCallStays
<1>12. PicturesApart'
  <2>1. \A f \in Nat : OfAvatar(f)' => OfAvatar(f)
    BY <1>3, <1>7, <1>9, <1>10 DEF OfAvatar
  <2>2. \A f \in Nat : OfPortfolio(f)' => OfPortfolio(f)
    <3> SUFFICES ASSUME NEW f \in Nat, OfPortfolio(f)'
                 PROVE  OfPortfolio(f)
      OBVIOUS
    <3>1. CASE f \in pPortfolio'
      BY <3>1, <1>7 DEF OfPortfolio
    <3>2. CASE \E q \in Reqs : Of(q, "portfolio")' /\ f \in pReq'[q].todo \cup pReq'[q].list \cup {pReq'[q].file}
      <4>1. PICK q \in Reqs : Of(q, "portfolio")' /\ f \in pReq'[q].todo \cup pReq'[q].list \cup {pReq'[q].file}
        BY <3>2
      <4>2. CASE q = p
        BY <4>1, <4>2, <1>3, <1>7, <1>9 DEF OfPortfolio
      <4>3. CASE q # p
        BY <4>1, <4>3, <1>3, <1>10 DEF OfPortfolio
      <4> QED
        BY <4>2, <4>3
    <3> QED
      BY <3>1, <3>2 DEF OfPortfolio
  <2> QED
    BY <2>1, <2>2, <1>1, ApartStays
<1>13. AvatarUnderWay'
  <2>1. \A f \in pReq[p].todo : OfPortfolio(f)
    BY <1>7 DEF OfPortfolio
  <2>2. \A f \in Nat : OfAvatar(f) /\ f \in pFiles => f \in pFiles'
    BY <2>1, <1>1, <1>4 DEF PicturesApart
  <2> QED
    BY <2>2, <1>1, <1>3, <1>7, <1>9, AvatarStays
<1>14. SkillsUnderWay'
  BY <1>1, <1>3, <1>9, SkillsStay
<1>15. PortfolioUnderWay'
  <2> SUFFICES ASSUME "portfolio" \notin pDisturbed'
               PROVE  /\ pPortfolio' \subseteq pFiles' \/ \E q \in Reqs : Of(q, "portfolio")'
                      /\ \A q \in Reqs : Of(q, "portfolio")' => pReq'[q].list \subseteq pFiles'
    BY DEF PortfolioUnderWay
  <2>1. "portfolio" \notin pDisturbed /\ pReq[p].list \subseteq pFiles
    BY <1>1, <1>7 DEF PortfolioUnderWay
  <2>2. \A q \in Reqs : Of(q, "portfolio")' => q = p
    BY <2>1, <1>1, <1>3, <1>7, <1>10 DEF OneCall
  <2>3. CASE r \in PortfolioCalls
    BY <2>1, <2>2, <2>3, <1>3, <1>9
  <2>4. CASE r = Pr!Idle
    <3>1. \A q \in Reqs : ~Of(q, "portfolio")'
      BY <2>2, <2>4, <1>3, <1>8 DEF Of
    <3> QED
      BY <2>1, <2>4, <3>1
  <2> QED
    BY <2>3, <2>4
<1> QED
  BY <1>6, <1>11, <1>12, <1>13, <1>14, <1>15 DEF ProfileInv

LEMMA PortfolioSteps ==
  ASSUME ProfileInv, NEW p \in Reqs, Pr!PortfolioDrop(p) \/ Pr!PortfolioPut(p) \/ Pr!uploadPortfolioImage(p)
  PROVE  ProfileInv'
<1>1. ProfileTypes
  BY DEF ProfileInv
<1>2. pReq[p] \in PortfolioCalls
  BY <1>1, CallKinds DEF Pr!PortfolioDrop, Pr!PortfolioPut, Pr!uploadPortfolioImage
<1>3. pReq[p].todo \subseteq Nat /\ pReq[p].list \subseteq Nat /\ pReq[p].file \in Nat
  BY <1>2 DEF PortfolioCalls
<1>4. Pr!Idle.op = "none" /\ Pr!Idle \notin PortfolioCalls
  BY DEF Pr!Idle, PortfolioCalls
<1>5. CASE Pr!PortfolioDrop(p)
  <2>1. PICK f \in pReq[p].todo :
          \/ pFiles' = pFiles \ {f} /\ Pr!Becomes(p, [pReq[p] EXCEPT !.todo = @ \ {f}, !.list = @ \ {f}])
          \/ pFiles' = pFiles /\ Pr!Becomes(p, [pReq[p] EXCEPT !.todo = @ \ {f}])
    BY <1>5 DEF Pr!PortfolioDrop
  <2>9. PICK L \in {pReq[p].list, pReq[p].list \ {f}} :
          /\ pReq' = [pReq EXCEPT ![p] = [pReq[p] EXCEPT !.todo = @ \ {f}, !.list = L]]
          /\ (L = pReq[p].list /\ pFiles' = pFiles) \/ (L = pReq[p].list \ {f} /\ pFiles' = pFiles \ {f})
    <3>1. CASE pFiles' = pFiles \ {f} /\ Pr!Becomes(p, [pReq[p] EXCEPT !.todo = @ \ {f}, !.list = @ \ {f}])
      BY <3>1 DEF Pr!Becomes
    <3>2. CASE pFiles' = pFiles /\ Pr!Becomes(p, [pReq[p] EXCEPT !.todo = @ \ {f}])
      <4>1. [pReq[p] EXCEPT !.todo = @ \ {f}] = [pReq[p] EXCEPT !.todo = @ \ {f}, !.list = pReq[p].list]
        BY <1>2 DEF PortfolioCalls
      <4> QED
        BY <3>2, <4>1 DEF Pr!Becomes
    <3> QED
      BY <2>1, <3>1, <3>2
  <2>2. PICK r : /\ r = [pReq[p] EXCEPT !.todo = @ \ {f}, !.list = L] /\ pReq' = [pReq EXCEPT ![p] = r]
                 /\ (L = pReq[p].list /\ pFiles' = pFiles) \/ (L = pReq[p].list \ {f} /\ pFiles' = pFiles \ {f})
    BY <2>9
  <2>3. r \in PortfolioCalls /\ r.todo = pReq[p].todo \ {f} /\ r.list = L /\ r.file = pReq[p].file
    BY <2>2, <1>2, <1>3 DEF PortfolioCalls
  <2>4. pDisturbed' = pDisturbed /\ pCalls' = pCalls /\ pAvatar' = pAvatar /\ pPortfolio' = pPortfolio /\ pSkill' = pSkill
    BY <1>5 DEF Pr!PortfolioDrop, Pr!Becomes, Pr!RowStays
  <2>5. /\ pFiles \ pReq[p].todo \subseteq pFiles' /\ pFiles' \subseteq pFiles \cup {pReq[p].file}
        /\ pReq[p].list \subseteq pFiles => r.list \subseteq pFiles'
    BY <2>1, <2>2, <2>3
  <2>6. r.todo \subseteq pReq[p].todo /\ r.list \subseteq pReq[p].list \cup {pReq[p].file} /\ pDisturbed \subseteq pDisturbed'
    BY <2>2, <2>3, <2>4
  <2> QED
    BY <2>2, <2>3, <2>4, <2>5, <2>6, <1>2, <1>4, PortfolioMoves
<1>6. CASE Pr!PortfolioPut(p) /\ pReq[p].add = "picture"
  <2>1. PICK r : r = [pReq[p] EXCEPT !.add = "none", !.list = @ \cup {pReq[p].file}] /\ pReq' = [pReq EXCEPT ![p] = r]
    BY <1>6 DEF Pr!PortfolioPut, Pr!Becomes
  <2>2. r \in PortfolioCalls /\ r.todo = pReq[p].todo /\ r.list = pReq[p].list \cup {pReq[p].file} /\ r.file = pReq[p].file
    BY <2>1, <1>2, <1>3 DEF PortfolioCalls
  <2>3. /\ pFiles' = pFiles \cup {pReq[p].file} /\ pDisturbed' = pDisturbed /\ pCalls' = pCalls
        /\ pAvatar' = pAvatar /\ pPortfolio' = pPortfolio /\ pSkill' = pSkill
    BY <1>6 DEF Pr!PortfolioPut, Pr!Becomes, Pr!RowStays
  <2>4. /\ pFiles \ pReq[p].todo \subseteq pFiles' /\ pFiles' \subseteq pFiles \cup {pReq[p].file}
        /\ pReq[p].list \subseteq pFiles => r.list \subseteq pFiles'
        /\ r.todo \subseteq pReq[p].todo /\ r.list \subseteq pReq[p].list \cup {pReq[p].file} /\ pDisturbed \subseteq pDisturbed'
    BY <2>2, <2>3
  <2> QED
    BY <2>1, <2>2, <2>3, <2>4, <1>2, <1>4, PortfolioMoves
<1>7. ASSUME \/ Pr!PortfolioPut(p) /\ pReq[p].add # "picture"
             \/ Pr!uploadPortfolioImage(p)
      PROVE  ProfileInv'
  <2>1. /\ pReq' = [pReq EXCEPT ![p] = Pr!Idle] /\ pCalls' = pCalls /\ pFiles' = pFiles
        /\ pAvatar' = pAvatar /\ pSkill' = pSkill /\ pDisturbed \subseteq pDisturbed'
    BY <1>7 DEF Pr!PortfolioPut, Pr!uploadPortfolioImage, Pr!Ends, Pr!Becomes, Pr!RowStays
  <2>2. pPortfolio' = pReq[p].list \/ (pPortfolio' = pPortfolio /\ "portfolio" \in pDisturbed')
    BY <1>7 DEF Pr!PortfolioPut, Pr!uploadPortfolioImage, Pr!RowStays
  <2>3. pFiles \ pReq[p].todo \subseteq pFiles' /\ pFiles' \subseteq pFiles \cup {pReq[p].file} /\ Pr!Idle \in {Pr!Idle} \cup PortfolioCalls
    BY <2>1
  <2> QED
    BY <2>1, <2>2, <2>3, <1>2, <1>4, PortfolioMoves
<1> QED
  BY <1>5, <1>6, <1>7

LEMMA SkillWriteInv ==
  ASSUME ProfileInv, NEW p \in Reqs, Pr!SkillWrite(p)
  PROVE  ProfileInv'
<1>1. ProfileTypes /\ PicturesApart /\ OneCall /\ AvatarUnderWay /\ PortfolioUnderWay /\ SkillsUnderWay
  BY DEF ProfileInv
<1>2. /\ pReq[p].op \in {"add", "rename", "erase"} /\ pReq' = [pReq EXCEPT ![p] = Pr!Idle] /\ pCalls' = pCalls
      /\ pAvatar' = pAvatar /\ pPortfolio' = pPortfolio /\ pFiles' = pFiles /\ pDisturbed' = pDisturbed
  BY DEF Pr!SkillWrite, Pr!Ends, Pr!Becomes
<1>3. Pr!Idle \in ProfileCall /\ Pr!Idle.op = "none" /\ Pr!Idle.column = "none"
  BY DEF ProfileCall, Pr!Idle
<1>4. /\ \A q \in Reqs : q # p => pReq'[q] = pReq[q]
      /\ pReq'[p] = Pr!Idle /\ pReq' \in [Reqs -> ProfileCall]
      /\ \A q \in Reqs, d \in Pr!Columns : q # p => (Of(q, d)' <=> Of(q, d))
  BY <1>1, <1>2, <1>3, CallBecomes
<1>5. Pr!Columns = {"avatar", "portfolio", "skills"} /\ \A d \in Pr!Columns : ~Of(p, d)'
  BY <1>3, <1>4 DEF Of, Pr!Columns
<1>6. /\ pReq[p] \in WordCalls \cup EraseCalls /\ Of(p, "skills") /\ ~Of(p, "avatar") /\ ~Of(p, "portfolio")
      /\ pReq[p].op \in {"add", "rename"} => pReq[p] \in WordCalls
  BY <1>1, <1>2, CallKinds
<1>7. PICK k \in SkillIds : k = pReq[p].id
  BY <1>6 DEF WordCalls, EraseCalls
<1>8. PICK w \in SkillWords \cup {Pr!NoWord} :
        /\ pSkill' = [pSkill EXCEPT ![k] = w]
        /\ w = Pr!NoWord \/ (pReq[p].op \in {"add", "rename"} /\ w = pReq[p].word)
  <2>1. CASE pReq[p].op = "add"
    BY <2>1, <1>6, <1>7 DEF Pr!SkillWrite, WordCalls
  <2>2. CASE pReq[p].op = "rename"
    <3>1. PICK w : w = (IF pSkill[k] = Pr!NoWord THEN pSkill[k] ELSE pReq[p].word) /\ pSkill' = [pSkill EXCEPT ![k] = w]
      BY <2>2, <1>7 DEF Pr!SkillWrite
    <3>2. pReq[p].word \in SkillWords
      BY <2>2, <1>6 DEF WordCalls
    <3> QED
      BY <2>2, <3>1, <3>2
  <2>3. CASE pReq[p].op = "erase"
    BY <2>3, <1>7 DEF Pr!SkillWrite
  <2> QED
    BY <2>1, <2>2, <2>3, <1>2
<1>9. /\ pSkill' \in [SkillIds -> SkillWords \cup {Pr!NoWord}] /\ pSkill'[k] = w
      /\ \A l \in SkillIds : l # k => pSkill'[l] = pSkill[l]
  BY <1>1, <1>8 DEF ProfileTypes
<1>10. ProfileTypes'
  BY <1>1, <1>2, <1>4, <1>9 DEF ProfileTypes
<1>11. OneCall'
  BY <1>1, <1>2, <1>4, <1>5, OneCallStays
<1>12. PicturesApart'
  <2>1. \A f \in Nat : (OfAvatar(f)' => OfAvatar(f)) /\ (OfPortfolio(f)' => OfPortfolio(f))
    BY <1>2, <1>4, <1>5 DEF OfAvatar, OfPortfolio
  <2> QED
    BY <2>1, <1>1, <1>2, ApartStays
<1>13. AvatarUnderWay'
  BY <1>1, <1>2, <1>4, <1>5, <1>6, AvatarStays
<1>14. PortfolioUnderWay'
  BY <1>1, <1>2, <1>4, <1>5, <1>6, PortfolioStays
<1>15. SkillsUnderWay'
  <2> SUFFICES ASSUME "skills" \notin pDisturbed
               PROVE  /\ \A l, m \in SkillIds : pSkill'[l] # Pr!NoWord /\ pSkill'[l] = pSkill'[m] => l = m
                      /\ \A q \in Reqs : pReq'[q].op \in {"add", "rename"} =>
                           \A l \in SkillIds \ {pReq'[q].id} : pSkill'[l] # pReq'[q].word
    BY <1>2 DEF SkillsUnderWay
  <2>1. \A l, m \in SkillIds : pSkill[l] # Pr!NoWord /\ pSkill[l] = pSkill[m] => l = m
    BY <1>1 DEF SkillsUnderWay
  <2>2. w = Pr!NoWord \/ \A l \in SkillIds : l # k => pSkill[l] # w
    BY <1>1, <1>7, <1>8 DEF SkillsUnderWay
  <2>3. ASSUME NEW l \in SkillIds, NEW m \in SkillIds, pSkill'[l] # Pr!NoWord, pSkill'[l] = pSkill'[m], l # m
        PROVE  FALSE
    <3>1. CASE l = k
      BY <3>1, <2>2, <2>3, <1>9
    <3>2. CASE m = k
      BY <3>2, <2>2, <2>3, <1>9
    <3>3. CASE l # k /\ m # k
      BY <3>3, <2>1, <2>3, <1>9
    <3> QED
      BY <3>1, <3>2, <3>3
  <2>4. \A q \in Reqs : pReq'[q].op \notin {"add", "rename"}
    <3> SUFFICES ASSUME NEW q \in Reqs, q # p, pReq[q].op \in {"add", "rename"}
                 PROVE  FALSE
      BY <1>3, <1>4
    <3>1. Of(q, "skills")
      BY <1>1, CallKinds
    <3> QED
      BY <3>1, <1>1, <1>5, <1>6 DEF OneCall
  <2> QED
    BY <2>3, <2>4
<1> QED
  BY <1>10, <1>11, <1>12, <1>13, <1>14, <1>15 DEF ProfileInv

LEMMA ProfileDieInv ==
  ASSUME ProfileInv, NEW p \in Reqs, Pr!Die(p)
  PROVE  ProfileInv'
<1>1. ProfileTypes /\ PicturesApart /\ OneCall /\ AvatarUnderWay /\ PortfolioUnderWay /\ SkillsUnderWay
  BY DEF ProfileInv
<1>2. /\ pReq' = [pReq EXCEPT ![p] = Pr!Idle] /\ pCalls' = pCalls /\ pFiles' = pFiles
      /\ pAvatar' = pAvatar /\ pPortfolio' = pPortfolio /\ pSkill' = pSkill
      /\ pDisturbed' = pDisturbed \cup {pReq[p].column}
  BY DEF Pr!Die, Pr!Ends, Pr!Becomes, Pr!RowStays
<1>3. Pr!Idle \in ProfileCall /\ Pr!Idle.op = "none" /\ Pr!Idle.column = "none"
  BY DEF ProfileCall, Pr!Idle
<1>4. /\ \A q \in Reqs : q # p => pReq'[q] = pReq[q]
      /\ pReq'[p] = Pr!Idle /\ pReq' \in [Reqs -> ProfileCall]
      /\ \A q \in Reqs, d \in Pr!Columns : q # p => (Of(q, d)' <=> Of(q, d))
  BY <1>1, <1>2, <1>3, CallBecomes
<1>5. Pr!Columns = {"avatar", "portfolio", "skills"} /\ \A d \in Pr!Columns : ~Of(p, d)'
  BY <1>3, <1>4 DEF Of, Pr!Columns
<1>6. pDisturbed \subseteq pDisturbed' /\ \A d \in Pr!Columns : Of(p, d) => d \in pDisturbed'
  BY <1>2 DEF Of
<1>7. ProfileTypes'
  BY <1>1, <1>2, <1>4 DEF ProfileTypes
<1>8. OneCall'
  BY <1>1, <1>4, <1>5, <1>6, OneCallStays
<1>9. PicturesApart'
  <2>1. \A f \in Nat : (OfAvatar(f)' => OfAvatar(f)) /\ (OfPortfolio(f)' => OfPortfolio(f))
    BY <1>2, <1>4, <1>5 DEF OfAvatar, OfPortfolio
  <2> QED
    BY <2>1, <1>1, <1>2, ApartStays
<1>10. AvatarUnderWay'
  <2>1. CASE Of(p, "avatar")
    BY <2>1, <1>5, <1>6 DEF AvatarUnderWay
  <2>2. CASE ~Of(p, "avatar")
    BY <2>2, <1>1, <1>2, <1>4, <1>5, <1>6, AvatarStays
  <2> QED
    BY <2>1, <2>2
<1>11. PortfolioUnderWay'
  <2>1. CASE Of(p, "portfolio")
    BY <2>1, <1>5, <1>6 DEF PortfolioUnderWay
  <2>2. CASE ~Of(p, "portfolio")
    BY <2>2, <1>1, <1>2, <1>4, <1>5, <1>6, PortfolioStays
  <2> QED
    BY <2>1, <2>2
<1>12. SkillsUnderWay'
  BY <1>1, <1>2, <1>3, <1>4, <1>6, SkillsStay
<1> QED
  BY <1>7, <1>8, <1>9, <1>10, <1>11, <1>12 DEF ProfileInv

LEMMA ProfileNextInv ==
  ASSUME ProfileInv, [Pr!Next]_pVars
  PROVE  ProfileInv'
<1>1. ASSUME NEW p \in Reqs,
             \/ Pr!ProfileCheck(p) \/ Pr!AvatarDrop(p) \/ Pr!AvatarPut(p) \/ Pr!updateProfile(p)
             \/ Pr!PortfolioCheck(p) \/ Pr!PortfolioDrop(p) \/ Pr!PortfolioPut(p) \/ Pr!uploadPortfolioImage(p)
             \/ Pr!createSkillCheck(p) \/ Pr!updateSkillCheck(p) \/ Pr!deleteSkillCheck(p) \/ Pr!SkillWrite(p)
             \/ Pr!Die(p)
      PROVE  ProfileInv'
  BY <1>1, ProfileArrivals, AvatarSteps, PortfolioSteps, SkillWriteInv, ProfileDieInv
<1>2. CASE UNCHANGED pVars
  BY <1>2 DEF pVars, ProfileInv, ProfileTypes, PicturesApart, OneCall, AvatarUnderWay, PortfolioUnderWay,
              SkillsUnderWay, Of, OfAvatar, OfPortfolio, Stored
<1> QED
  BY <1>1, <1>2 DEF Pr!Next

LEMMA SettledColumns ==
  ASSUME ProfileInv
  PROVE  Pr!ColumnsKept
<1>1. \A c : Pr!Settled(c) => c \notin pDisturbed /\ \A p \in Reqs : ~Of(p, c)
  BY DEF Pr!Settled, Pr!Busy, Of
<1>2. Pr!Settled("avatar") => pAvatar = 0 \/ pAvatar \in pFiles
  BY <1>1 DEF ProfileInv, AvatarUnderWay, Stored
<1>3. Pr!Settled("portfolio") => pPortfolio \subseteq pFiles
  BY <1>1 DEF ProfileInv, PortfolioUnderWay
<1>4. Pr!Settled("skills") => \A k, l \in SkillIds : pSkill[k] # Pr!NoWord /\ pSkill[k] = pSkill[l] => k = l
  BY <1>1 DEF ProfileInv, SkillsUnderWay
<1> QED
  BY <1>2, <1>3, <1>4 DEF Pr!ColumnsKept

(* A column of an account keeps what it names, whatever requests about the  *)
(* other columns do meanwhile: an avatar and a portfolio name pictures that *)
(* are stored, and no skill is listed twice, unless two requests about that *)
(* column overlapped or one ended half-way (profile.service.ts:198, :255,   *)
(* :273, :391).                                                             *)
THEOREM ColumnsDoNotDisturb == MCSpec => []ColumnsKept
<1>1. MCInit => ProfileInv
  BY ProfileInit DEF MCInit
<1>2. ProfileInv /\ [MCNext]_allVars => ProfileInv'
  BY StepsOfParts, ProfileNextInv
<1>3. ProfileInv => ColumnsKept
  BY SettledColumns DEF ColumnsKept
<1> QED
  BY <1>1, <1>2, <1>3, PTL DEF MCSpec

-----------------------------------------------------------------------------
(***************************************************************************)
(* Induction over numbers and finite sets, with sets in the place of       *)
(* predicates: a set of numbers with 0 and every successor is all of them. *)
(***************************************************************************)
LEMMA AllNumbers ==
  ASSUME NEW N, 0 \in N, \A n \in Nat : n \in N => n + 1 \in N
  PROVE  Nat \subseteq N
<1> SUFFICES ASSUME Nat \ N # {}
             PROVE  FALSE
  OBVIOUS
<1>1. IsWellFoundedOn(OpToRel(<, Nat), Nat) /\ Nat \ N \subseteq Nat
  BY NatLessThanWellFounded
<1>2. PICK x \in Nat \ N : \A y \in Nat \ N : ~(<<y, x>> \in OpToRel(<, Nat))
  BY <1>1, WFMin
<1>3. x # 0 /\ x - 1 \in Nat /\ x - 1 < x /\ (x - 1) + 1 = x
  OBVIOUS
<1>4. x - 1 \in N
  BY <1>2, <1>3 DEF OpToRel
<1> QED
  BY <1>3, <1>4

Picked(s) == CHOOSE x \in s : TRUE

LEMMA OneFewer ==
  ASSUME NEW s, IsFiniteSet(s), NEW x \in s
  PROVE  /\ IsFiniteSet(s \ {x}) /\ Cardinality(s \ {x}) = Cardinality(s) - 1
         /\ Cardinality(s) \in Nat /\ Cardinality(s \ {x}) \in Nat
BY FS_RemoveElement, FS_CardinalityType

(* What holds of the empty set, and of a set if it holds without one of its *)
(* elements, holds of every subset of a finite set.                         *)
LEMMA AllSubsets ==
  ASSUME NEW S, IsFiniteSet(S), NEW Q, {} \in Q,
         \A s \in SUBSET S : s # {} /\ s \ {Picked(s)} \in Q => s \in Q
  PROVE  SUBSET S \subseteq Q
<1> DEFINE N == {n \in Nat : \A s \in SUBSET S : Cardinality(s) <= n => s \in Q}
<1>1. \A s \in SUBSET S : IsFiniteSet(s) /\ Cardinality(s) \in Nat
  BY FS_Subset, FS_CardinalityType
<1>2. 0 \in N
  <2> SUFFICES ASSUME NEW s \in SUBSET S, Cardinality(s) <= 0
               PROVE  s \in Q
    OBVIOUS
  <2>1. Cardinality(s) = 0 /\ IsFiniteSet(s)
    BY <1>1
  <2>2. s = {}
    BY <2>1, FS_EmptySet
  <2> QED
    BY <2>2
<1>3. ASSUME NEW n \in Nat, n \in N
      PROVE  n + 1 \in N
  <2> SUFFICES ASSUME NEW s \in SUBSET S, Cardinality(s) <= n + 1
               PROVE  s \in Q
    OBVIOUS
  <2>1. CASE s = {}
    BY <2>1
  <2>2. CASE s # {}
    <3>1. Picked(s) \in s
      BY <2>2 DEF Picked
    <3>2. Cardinality(s \ {Picked(s)}) <= n
      BY <1>1, <3>1, OneFewer
    <3> QED
      BY <1>3, <2>2, <3>2
  <2> QED
    BY <2>1, <2>2
<1> HIDE DEF N
<1>4. Nat \subseteq N
  BY <1>2, <1>3, AllNumbers
<1> SUFFICES ASSUME NEW s \in SUBSET S
             PROVE  s \in Q
  OBVIOUS
<1> QED
  BY <1>1, <1>4 DEF N
-----------------------------------------------------------------------------
(***************************************************************************)
(* Sums over finite sets.  MapThenSumSet is a function of the subsets that *)
(* takes one element after another; Adder is that function.                *)
(***************************************************************************)
Taken(f, it, s) == IF s = {} THEN 0 ELSE f[Picked(s)] + it[s \ {Picked(s)}]
Adder(f, S) == CHOOSE it : it = [s \in SUBSET S |-> Taken(f, it, s)]

LEMMA SumIsAdder ==
  ASSUME NEW f, NEW S
  PROVE  Ad!Sum(f, S) = Adder(f, S)[S]
BY Zenon DEF Ad!Sum, Ad!MapThenSumSet, Ad!MapThenFoldSet, Adder, Taken, Picked

LEMMA TakenAlike ==
  ASSUME NEW f, NEW s, NEW it, NEW jt, s # {} => it[s \ {Picked(s)}] = jt[s \ {Picked(s)}]
  PROVE  Taken(f, it, s) = Taken(f, jt, s)
BY DEF Taken

LEMMA AdderExists ==
  ASSUME NEW f, NEW S, IsFiniteSet(S)
  PROVE  \E it : it = [s \in SUBSET S |-> Taken(f, it, s)]
<1> DEFINE Adds(it, n) == \A s \in SUBSET S : Cardinality(s) <= n => it[s] = Taken(f, it, s)
           N == {n \in Nat : \E it : Adds(it, n)}
<1>1. \A s \in SUBSET S : IsFiniteSet(s) /\ Cardinality(s) \in Nat
  BY FS_Subset, FS_CardinalityType
<1>2. \A s \in SUBSET S : s # {} => Picked(s) \in s /\ s \ {Picked(s)} \in SUBSET S
  BY DEF Picked
<1>3. \A s \in SUBSET S : s # {} => Cardinality(s \ {Picked(s)}) = Cardinality(s) - 1
  BY <1>1, <1>2, OneFewer
<1>4. 0 \in N
  <2>1. PICK it : it = [s \in SUBSET S |-> 0]
    OBVIOUS
  <2>2. ASSUME NEW s \in SUBSET S, Cardinality(s) <= 0
        PROVE  it[s] = Taken(f, it, s)
    <3>1. s = {}
      BY <1>1, <2>2, FS_EmptySet
    <3> QED
      BY <2>1, <3>1 DEF Taken
  <2>3. Adds(it, 0)
    BY <2>2
  <2> QED
    BY <2>3
<1>5. ASSUME NEW n \in Nat, n \in N
      PROVE  n + 1 \in N
  <2>1. PICK it : Adds(it, n)
    BY <1>5
  <2>2. PICK jt : jt = [s \in SUBSET S |-> IF Cardinality(s) <= n THEN it[s] ELSE Taken(f, it, s)]
    OBVIOUS
  <2>3. ASSUME NEW s \in SUBSET S, Cardinality(s) <= n + 1
        PROVE  jt[s] = Taken(f, jt, s)
    <3>1. jt[s] = Taken(f, it, s)
      BY <2>1, <2>2
    <3>2. s # {} => jt[s \ {Picked(s)}] = it[s \ {Picked(s)}]
      <4> SUFFICES ASSUME s # {}
                   PROVE  jt[s \ {Picked(s)}] = it[s \ {Picked(s)}]
        OBVIOUS
      <4>1. s \ {Picked(s)} \in SUBSET S /\ Cardinality(s \ {Picked(s)}) <= n
        BY <1>1, <1>3, <2>3
      <4> QED
        BY <2>2, <4>1
    <3>3. Taken(f, it, s) = Taken(f, jt, s)
      BY <3>2, TakenAlike
    <3> QED
      BY <3>1, <3>3
  <2>4. Adds(jt, n + 1)
    BY <2>3
  <2> QED
    BY <2>4
<1>6. Cardinality(S) \in N
  <2> HIDE DEF N
  <2> QED
    BY <1>1, <1>4, <1>5, AllNumbers
<1>7. PICK it : Adds(it, Cardinality(S))
  BY <1>6
<1>8. PICK jt : jt = [s \in SUBSET S |-> it[s]]
  OBVIOUS
<1>9. ASSUME NEW s \in SUBSET S
      PROVE  jt[s] = Taken(f, jt, s)
  <2>1. Cardinality(s) <= Cardinality(S)
    BY FS_Subset
  <2>2. it[s] = Taken(f, it, s)
    BY <1>7, <2>1
  <2>3. s # {} => jt[s \ {Picked(s)}] = it[s \ {Picked(s)}]
    BY <1>2, <1>8
  <2>4. Taken(f, it, s) = Taken(f, jt, s)
    BY <2>3, TakenAlike
  <2> QED
    BY <1>8, <2>2, <2>4
<1>10. jt = [s \in SUBSET S |-> Taken(f, jt, s)]
  BY <1>8, <1>9
<1> QED
  BY <1>10

(* What a function of the subsets that adds up f is.                        *)
Adds(A, f, S) ==
  /\ A[{}] = 0
  /\ \A s \in SUBSET S : s # {} => A[s] = f[Picked(s)] + A[s \ {Picked(s)}]

LEMMA AdderAdds ==
  ASSUME NEW f, NEW S, IsFiniteSet(S)
  PROVE  Adds(Adder(f, S), f, S)
<1>1. Adder(f, S) = [s \in SUBSET S |-> Taken(f, Adder(f, S), s)]
  BY AdderExists DEF Adder
<1>2. \A s \in SUBSET S : Adder(f, S)[s] = Taken(f, Adder(f, S), s)
  BY <1>1
<1> QED
  BY <1>2 DEF Taken, Adds

LEMMA AdderNat ==
  ASSUME NEW f, NEW S, IsFiniteSet(S), \A x \in S : f[x] \in Nat
  PROVE  \A s \in SUBSET S : Adder(f, S)[s] \in Nat
<1> DEFINE A == Adder(f, S)
           Q == {s \in SUBSET S : A[s] \in Nat}
<1>0. Adds(A, f, S)
  BY AdderAdds
<1>1. {} \in Q
  BY <1>0 DEF Adds
<1>2. ASSUME NEW s \in SUBSET S, s # {}, s \ {Picked(s)} \in Q
      PROVE  s \in Q
  <2>1. Picked(s) \in s
    BY <1>2 DEF Picked
  <2>2. A[s] = f[Picked(s)] + A[s \ {Picked(s)}]
    BY <1>0, <1>2 DEF Adds
  <2> QED
    BY <1>2, <2>1, <2>2
<1> HIDE DEF Q
<1>3. SUBSET S \subseteq Q
  BY <1>1, <1>2, AllSubsets
<1> QED
  BY <1>3 DEF Q

(* The order in which the elements are taken does not matter.               *)
InAnyOrder(A, f, S) == \A s \in SUBSET S : \A x \in s : A[s] = f[x] + A[s \ {x}]

LEMMA AnyFirst ==
  ASSUME NEW f, NEW S, IsFiniteSet(S), \A x \in S : f[x] \in Nat
  PROVE  InAnyOrder(Adder(f, S), f, S)
<1> DEFINE A == Adder(f, S)
           First(t) == \A y \in t : A[t] = f[y] + A[t \ {y}]
           N == {n \in Nat : \A t \in SUBSET S : Cardinality(t) <= n => First(t)}
<1>1. \A t \in SUBSET S : IsFiniteSet(t) /\ Cardinality(t) \in Nat /\ A[t] \in Nat
  BY FS_Subset, FS_CardinalityType, AdderNat
<1>2. \A t \in SUBSET S : t # {} => Picked(t) \in t /\ A[t] = f[Picked(t)] + A[t \ {Picked(t)}]
  <2>1. Adds(A, f, S)
    BY AdderAdds
  <2> QED
    BY <2>1 DEF Adds, Picked
<1>3. 0 \in N
  <2> SUFFICES ASSUME NEW t \in SUBSET S, Cardinality(t) <= 0
               PROVE  First(t)
    OBVIOUS
  <2>1. Cardinality(t) = 0 /\ IsFiniteSet(t)
    BY <1>1
  <2>2. t = {}
    BY <2>1, FS_EmptySet
  <2> QED
    BY <2>2
<1>4. ASSUME NEW n \in Nat, n \in N
      PROVE  n + 1 \in N
  <2> SUFFICES ASSUME NEW t \in SUBSET S, Cardinality(t) <= n + 1, NEW y \in t
               PROVE  A[t] = f[y] + A[t \ {y}]
    OBVIOUS
  <2> DEFINE c == Picked(t)
  <2>1. c \in t /\ A[t] = f[c] + A[t \ {c}]
    BY <1>2
  <2>2. CASE y = c
    BY <2>1, <2>2
  <2>3. CASE y # c
    <3>1. y \in t \ {c} /\ t \ {c} \in SUBSET S /\ c \in t \ {y} /\ t \ {y} \in SUBSET S
      BY <2>1, <2>3
    <3>2. Cardinality(t \ {c}) <= n /\ Cardinality(t \ {y}) <= n
      BY <1>1, <2>1, OneFewer
    <3>3. A[t \ {c}] = f[y] + A[(t \ {c}) \ {y}]
      BY <1>4, <3>1, <3>2
    <3>4. A[t \ {y}] = f[c] + A[(t \ {y}) \ {c}]
      BY <1>4, <3>1, <3>2
    <3>5. (t \ {c}) \ {y} = (t \ {y}) \ {c} /\ (t \ {c}) \ {y} \in SUBSET S
      OBVIOUS
    <3>6. f[c] \in Nat /\ f[y] \in Nat /\ A[(t \ {c}) \ {y}] \in Nat
      BY <1>1, <2>1, <3>5
    <3>7. A[t \ {y}] = f[c] + A[(t \ {c}) \ {y}]
      BY <3>4, <3>5
    <3>8. A[t] = f[c] + (f[y] + A[(t \ {c}) \ {y}])
      BY <2>1, <3>3
    <3> HIDE DEF A, c
    <3> QED
      BY <3>6, <3>7, <3>8
  <2> QED
    BY <2>2, <2>3
<1>5. Nat \subseteq N
  <2> HIDE DEF N
  <2> QED
    BY <1>3, <1>4, AllNumbers
<1>6. \A t \in SUBSET S : First(t)
  <2> SUFFICES ASSUME NEW t \in SUBSET S
               PROVE  First(t)
    OBVIOUS
  <2>1. Cardinality(t) \in N /\ Cardinality(t) <= Cardinality(t)
    BY <1>1, <1>5
  <2> QED
    BY <2>1
<1> QED
  BY <1>6 DEF InAnyOrder

(* A sum over a part is the same taken on its own or within the whole.      *)
LEMMA PartsAlike ==
  ASSUME NEW f, NEW g, NEW S, NEW T, T \subseteq S, IsFiniteSet(S), \A x \in T : f[x] = g[x]
  PROVE  Adder(f, S)[T] = Adder(g, T)[T]
<1> DEFINE Q == {s \in SUBSET T : Adder(f, S)[s] = Adder(g, T)[s]}
<1>1. IsFiniteSet(T)
  BY FS_Subset
<1>5. Adds(Adder(f, S), f, S) /\ Adds(Adder(g, T), g, T)
  BY <1>1, AdderAdds
<1>2. {} \in Q
  BY <1>5 DEF Adds
<1>3. ASSUME NEW s \in SUBSET T, s # {}, s \ {Picked(s)} \in Q
      PROVE  s \in Q
  <2>1. Picked(s) \in s
    BY <1>3 DEF Picked
  <2>2. s \in SUBSET S /\ s \in SUBSET T /\ f[Picked(s)] = g[Picked(s)]
    BY <2>1
  <2>3. Adder(f, S)[s] = f[Picked(s)] + Adder(f, S)[s \ {Picked(s)}]
    BY <1>3, <1>5, <2>2 DEF Adds
  <2>4. Adder(g, T)[s] = g[Picked(s)] + Adder(g, T)[s \ {Picked(s)}]
    BY <1>3, <1>5, <2>2 DEF Adds
  <2> QED
    BY <1>3, <2>2, <2>3, <2>4
<1> HIDE DEF Q
<1>4. SUBSET T \subseteq Q
  BY <1>1, <1>2, <1>3, AllSubsets
<1> QED
  BY <1>4 DEF Q
-----------------------------------------------------------------------------
Numbers(f, S) == IsFiniteSet(S) /\ \A x \in S : f[x] \in Nat

LEMMA SumNat ==
  ASSUME NEW f, NEW S, Numbers(f, S)
  PROVE  Ad!Sum(f, S) \in Nat
BY SumIsAdder, AdderNat DEF Numbers

LEMMA SumSame ==
  ASSUME NEW f, NEW g, NEW S, IsFiniteSet(S), \A x \in S : f[x] = g[x]
  PROVE  Ad!Sum(f, S) = Ad!Sum(g, S)
BY SumIsAdder, PartsAlike

LEMMA SumOne ==
  ASSUME NEW f, NEW S, Numbers(f, S), NEW x \in S
  PROVE  Ad!Sum(f, S) = f[x] + Ad!Sum(f, S \ {x}) /\ Numbers(f, S \ {x})
<1>1. IsFiniteSet(S \ {x}) /\ S \ {x} \subseteq S
  BY FS_Subset DEF Numbers
<1>2. Adder(f, S)[S] = f[x] + Adder(f, S)[S \ {x}]
  <2>1. InAnyOrder(Adder(f, S), f, S)
    BY AnyFirst DEF Numbers
  <2> QED
    BY <2>1 DEF InAnyOrder
<1>3. Adder(f, S)[S \ {x}] = Adder(f, S \ {x})[S \ {x}]
  <2>1. PICK T : T = S \ {x}
    OBVIOUS
  <2>2. Adder(f, S)[T] = Adder(f, T)[T]
    BY <2>1, <1>1, PartsAlike DEF Numbers
  <2> QED
    BY <2>1, <2>2
<1> QED
  BY <1>1, <1>2, <1>3, SumIsAdder DEF Numbers

(* One more of one element is one more of the sum.                          *)
LEMMA SumRaised ==
  ASSUME NEW f, NEW g, NEW S, Numbers(f, S), NEW x \in S, g[x] = f[x] + 1,
         \A y \in S \ {x} : g[y] = f[y]
  PROVE  Ad!Sum(g, S) = Ad!Sum(f, S) + 1
<1>1. Numbers(g, S)
  BY DEF Numbers
<1>2. Ad!Sum(f, S) = f[x] + Ad!Sum(f, S \ {x}) /\ Numbers(f, S \ {x})
  BY SumOne
<1>3. Ad!Sum(g, S) = g[x] + Ad!Sum(g, S \ {x})
  BY <1>1, SumOne
<1>4. Ad!Sum(g, S \ {x}) = Ad!Sum(f, S \ {x})
  BY <1>2, SumSame DEF Numbers
<1>5. Ad!Sum(f, S \ {x}) \in Nat /\ f[x] \in Nat
  BY <1>2, SumNat DEF Numbers
<1> QED
  BY <1>2, <1>3, <1>4, <1>5

LEMMA SumAtLeast ==
  ASSUME NEW f, NEW S, Numbers(f, S), NEW x \in S
  PROVE  f[x] <= Ad!Sum(f, S)
<1>1. Ad!Sum(f, S) = f[x] + Ad!Sum(f, S \ {x}) /\ Numbers(f, S \ {x})
  BY SumOne
<1>2. Ad!Sum(f, S \ {x}) \in Nat /\ f[x] \in Nat
  BY <1>1, SumNat DEF Numbers
<1> QED
  BY <1>1, <1>2

LEMMA SumZero ==
  ASSUME NEW f, NEW S, IsFiniteSet(S), \A x \in S : f[x] = 0
  PROVE  Ad!Sum(f, S) = 0
<1> DEFINE A == Adder(f, S)
           Q == {s \in SUBSET S : A[s] = 0}
<1>0. Adds(A, f, S)
  BY AdderAdds
<1>1. {} \in Q
  BY <1>0 DEF Adds
<1>2. ASSUME NEW s \in SUBSET S, s # {}, s \ {Picked(s)} \in Q
      PROVE  s \in Q
  <2>1. Picked(s) \in s
    BY <1>2 DEF Picked
  <2>2. A[s] = f[Picked(s)] + A[s \ {Picked(s)}]
    BY <1>0, <1>2 DEF Adds
  <2>3. f[Picked(s)] = 0 /\ A[s \ {Picked(s)}] = 0
    BY <1>2, <2>1
  <2>4. A[s] = 0
    BY <2>2, <2>3
  <2> QED
    BY <2>4
<1> HIDE DEF Q
<1>3. SUBSET S \subseteq Q
  BY <1>1, <1>2, AllSubsets
<1> QED
  BY <1>3, SumIsAdder DEF Q

LEMMA SumPart ==
  ASSUME NEW f, NEW S, Numbers(f, S), NEW T, T \subseteq S
  PROVE  Ad!Sum(f, T) <= Ad!Sum(f, S)
<1> DEFINE A == Adder(f, S)
           Q == {s \in SUBSET S : A[s \cap T] <= A[s]}
<1>1. \A s \in SUBSET S : A[s] \in Nat
  BY AdderNat DEF Numbers
<1>0. Adds(A, f, S) /\ InAnyOrder(A, f, S)
  BY AdderAdds, AnyFirst DEF Numbers
<1>2. {} \in Q
  <2>1. {} \cap T = {} /\ A[{}] \in Nat
    BY <1>1
  <2> QED
    BY <2>1
<1>3. ASSUME NEW s \in SUBSET S, s # {}, s \ {Picked(s)} \in Q
      PROVE  s \in Q
  <2> DEFINE c == Picked(s)
  <2>1. c \in s /\ A[s] = f[c] + A[s \ {c}]
    BY <1>0, <1>3 DEF Adds, Picked
  <2>2. A[(s \ {c}) \cap T] <= A[s \ {c}]
    BY <1>3
  <2>3. f[c] \in Nat /\ A[s \ {c}] \in Nat /\ A[(s \ {c}) \cap T] \in Nat
    BY <1>1, <2>1 DEF Numbers
  <2>4. A[s \cap T] = A[(s \ {c}) \cap T] \/ A[s \cap T] = f[c] + A[(s \ {c}) \cap T]
    <3>1. CASE c \in T
      <4>1. (s \cap T) \ {c} = (s \ {c}) \cap T /\ s \cap T \in SUBSET S /\ c \in s \cap T
        BY <2>1, <3>1
      <4>2. A[s \cap T] = f[c] + A[(s \cap T) \ {c}]
        BY <1>0, <4>1 DEF InAnyOrder
      <4> QED
        BY <4>1, <4>2
    <3>2. CASE c \notin T
      <4>1. s \cap T = (s \ {c}) \cap T
        BY <3>2
      <4> QED
        BY <4>1
    <3> QED
      BY <3>1, <3>2
  <2>5. A[s \cap T] <= A[s]
    <3> HIDE DEF A, c
    <3> QED
      BY <2>1, <2>2, <2>3, <2>4
  <2> QED
    BY <2>5
<1> HIDE DEF Q
<1>4. SUBSET S \subseteq Q
  BY <1>2, <1>3, AllSubsets DEF Numbers
<1>5. A[S \cap T] <= A[S] /\ S \cap T = T
  BY <1>4 DEF Q
<1>6. A[T] = Adder(f, T)[T]
  BY PartsAlike DEF Numbers
<1> QED
  BY <1>5, <1>6, SumIsAdder

-----------------------------------------------------------------------------
(***************************************************************************)
(* Lists.  The rows have a strict order, so those of a set have the ranks  *)
(* from 0 on, each once.                                                   *)
(***************************************************************************)
RowsOfList == [state : {"new", "live", "deleted", "gone"}, time : Nat, shown : BOOLEAN, found : BOOLEAN]

Ordered ==
  /\ \A i \in Ids : ~After(i, i)
  /\ \A i, j \in Ids : i = j \/ After(i, j) \/ After(j, i)
  /\ \A i, j, k \in Ids : After(i, j) /\ After(j, k) => After(i, k)

LEMMA RowsOrdered ==
  ASSUME row \in [Ids -> RowsOfList]
  PROVE  Ordered
<1>1. \A i \in Ids : i \in Nat /\ row[i].time \in Nat
  BY ContentAssumption DEF ListingsAssumption, RowsOfList
<1>2. CASE newest
  BY <1>1, <1>2 DEF Ordered, After, AfterTime
<1>3. CASE ~newest
  BY <1>1, <1>3 DEF Ordered, After, AfterTime
<1> QED
  BY <1>2, <1>3

LEMMA IdsFinite ==
  ASSUME NEW S \in SUBSET Ids
  PROVE  IsFiniteSet(S) /\ Cardinality(S) \in Nat
BY ContentAssumption, FS_Subset, FS_CardinalityType DEF ListingsAssumption

LEMMA RankNat ==
  ASSUME NEW S \in SUBSET Ids, NEW i
  PROVE  Rank(i, S) \in Nat
<1>1. {j \in S : After(j, i)} \in SUBSET Ids
  OBVIOUS
<1> QED
  BY <1>1, IdsFinite DEF Rank

LEMMA RankGrows ==
  ASSUME Ordered, NEW S \in SUBSET Ids, NEW i \in S, NEW j \in S, After(j, i)
  PROVE  Rank(j, S) < Rank(i, S)
<1> DEFINE A == {k \in S : After(k, j)}
           B == {k \in S : After(k, i)}
<1>1. A \subseteq B /\ j \in B /\ j \notin A /\ B \in SUBSET Ids
  BY DEF Ordered
<1>2. IsFiniteSet(B) /\ Cardinality(A) \in Nat /\ Cardinality(B) \in Nat
  BY <1>1, IdsFinite
<1>3. Cardinality(A) <= Cardinality(B) /\ Cardinality(A) # Cardinality(B)
  <2> HIDE DEF A, B
  <2> QED
    BY <1>1, <1>2, FS_Subset
<1>4. Rank(j, S) = Cardinality(A) /\ Rank(i, S) = Cardinality(B)
  BY DEF Rank
<1> QED
  BY <1>2, <1>3, <1>4

LEMMA RankTells ==
  ASSUME Ordered, NEW S \in SUBSET Ids, NEW i \in S, NEW j \in S
  PROVE  /\ Rank(j, S) < Rank(i, S) => After(j, i)
         /\ Rank(j, S) = Rank(i, S) => i = j
<1>1. i = j \/ After(i, j) \/ After(j, i)
  BY DEF Ordered
<1>2. After(i, j) => Rank(i, S) < Rank(j, S)
  BY RankGrows
<1>3. After(j, i) => Rank(j, S) < Rank(i, S)
  BY RankGrows
<1>4. Rank(i, S) \in Nat /\ Rank(j, S) \in Nat
  BY RankNat
<1> QED
  BY <1>1, <1>2, <1>3, <1>4

LEMMA RankBound ==
  ASSUME Ordered, NEW S \in SUBSET Ids, NEW i \in S
  PROVE  Rank(i, S) < Cardinality(S)
<1> DEFINE A == {k \in S : After(k, i)}
<1>1. A \subseteq S /\ i \notin A
  BY DEF Ordered
<1>2. IsFiniteSet(S) /\ Cardinality(A) \in Nat /\ Cardinality(S) \in Nat
  BY <1>1, IdsFinite
<1>3. Cardinality(A) <= Cardinality(S) /\ Cardinality(A) # Cardinality(S)
  <2> HIDE DEF A
  <2> QED
    BY <1>1, <1>2, FS_Subset
<1> QED
  BY <1>2, <1>3 DEF Rank

(* Fewer rows, no later place.                                              *)
LEMMA RankOfPart ==
  ASSUME NEW S \in SUBSET Ids, NEW T \in SUBSET S, NEW i
  PROVE  Rank(i, T) <= Rank(i, S)
<1> DEFINE A == {k \in T : After(k, i)}
           B == {k \in S : After(k, i)}
<1>1. A \subseteq B /\ B \in SUBSET Ids
  OBVIOUS
<1>2. IsFiniteSet(B)
  BY <1>1, IdsFinite
<1>3. Cardinality(A) <= Cardinality(B)
  <2> HIDE DEF A, B
  <2> QED
    BY <1>1, <1>2, FS_Subset
<1> QED
  BY <1>3 DEF Rank

(* Every rank is somebody's.                                                *)
LEMMA RanksTaken ==
  ASSUME Ordered, NEW S \in SUBSET Ids, NEW n \in Nat, n < Cardinality(S)
  PROVE  \E i \in S : Rank(i, S) = n
<1> DEFINE c == Cardinality(S)
           f == [i \in S |-> Rank(i, S)]
<1>1. c \in Nat /\ IsFiniteSet(S)
  BY IdsFinite
<1>2. f \in [S -> 0..(c - 1)]
  BY <1>1, RankNat, RankBound
<1>3. \A i, j \in S : f[i] = f[j] => i = j
  BY RankTells
<1>4. f \in Injection(S, 0..(c - 1))
  BY <1>2, <1>3 DEF Injection, IsInjective
<1>5. IsFiniteSet(0..(c - 1)) /\ Cardinality(0..(c - 1)) = c
  <2>1. PICK b \in Int : b = c - 1
    BY <1>1
  <2>2. IsFiniteSet(0..b) /\ Cardinality(0..b) = IF 0 > b THEN 0 ELSE b - 0 + 1
    BY FS_Interval
  <2>3. Cardinality(0..b) = c
    BY <1>1, <2>1, <2>2
  <2> QED
    BY <2>1, <2>2, <2>3
<1>6. f \in Surjection(S, 0..(c - 1))
  <2> HIDE DEF f
  <2> QED
    BY <1>4, <1>5, FS_Injection
<1>7. n \in 0..(c - 1)
  BY <1>1
<1>8. PICK i \in S : f[i] = n
  BY <1>6, <1>7 DEF Surjection
<1> QED
  BY <1>8

LEMMA LastComesLast ==
  ASSUME Ordered, NEW S \in SUBSET Ids, S # {}
  PROVE  LastOf(S) \in S /\ \A j \in S \ {LastOf(S)} : After(j, LastOf(S))
<1>1. Cardinality(S) \in Nat /\ Cardinality(S) # 0
  BY IdsFinite, FS_EmptySet
<1>2. PICK i \in S : Rank(i, S) = Cardinality(S) - 1
  BY <1>1, RanksTaken
<1>3. \A j \in S \ {i} : After(j, i)
  <2> SUFFICES ASSUME NEW j \in S, j # i, ~After(j, i)
               PROVE  FALSE
    OBVIOUS
  <2>1. After(i, j)
    BY DEF Ordered
  <2>2. Rank(i, S) < Rank(j, S) /\ Rank(j, S) < Cardinality(S) /\ Rank(j, S) \in Nat
    BY <2>1, RankGrows, RankBound, RankNat
  <2> QED
    BY <1>1, <1>2, <2>2
<1> QED
  BY <1>3 DEF LastOf

(* The first page of a set is the set, or full.                             *)
LEMMA FirstPage ==
  ASSUME Ordered, NEW S \in SUBSET Ids, limit \in Nat \ {0}
  PROVE  /\ Window(S, 0) \subseteq S
         /\ S # {} => Window(S, 0) # {}
         /\ Cardinality(S) <= limit => Window(S, 0) = S
         /\ Cardinality(S) > limit => Cardinality(Window(S, 0)) = limit
         /\ \A i \in S \ Window(S, 0), j \in Window(S, 0) : After(j, i)
<1> DEFINE W == Window(S, 0)
<1>1. Cardinality(S) \in Nat /\ \A i \in S : Rank(i, S) \in Nat /\ Rank(i, S) < Cardinality(S)
  BY IdsFinite, RankNat, RankBound
<1>2. W = {i \in S : Rank(i, S) < limit}
  BY <1>1 DEF Window
<1>3. S # {} => W # {}
  <2>1. S # {} => Cardinality(S) # 0
    BY IdsFinite, FS_EmptySet
  <2>2. S # {} => \E i \in S : Rank(i, S) = 0
    BY <1>1, <2>1, RanksTaken
  <2> QED
    BY <1>2, <2>2
<1>4. Cardinality(S) <= limit => W = S
  BY <1>1, <1>2
<1>5. ASSUME Cardinality(S) > limit
      PROVE  Cardinality(W) = limit
  <2> DEFINE f == [i \in W |-> Rank(i, S)]
  <2>1. f \in [W -> 0..(limit - 1)]
    BY <1>1, <1>2
  <2>2. \A i, j \in W : f[i] = f[j] => i = j
    BY <1>2, RankTells
  <2>3. \A n \in 0..(limit - 1) : \E i \in W : f[i] = n
    <3> SUFFICES ASSUME NEW n \in 0..(limit - 1)
                 PROVE  \E i \in W : f[i] = n
      OBVIOUS
    <3>1. n \in Nat /\ n < Cardinality(S)
      BY <1>1, <1>5
    <3>2. PICK i \in S : Rank(i, S) = n
      BY <3>1, RanksTaken
    <3> QED
      BY <1>2, <3>2
  <2>4. f \in Bijection(W, 0..(limit - 1))
    BY <2>1, <2>2, <2>3 DEF Bijection, Injection, IsInjective, Surjection
  <2>5. IsFiniteSet(W) /\ ExistsBijection(W, 0..(limit - 1))
    BY <2>4, <1>2, IdsFinite DEF ExistsBijection
  <2>6. Cardinality(0..(limit - 1)) = limit
    BY FS_Interval
  <2> HIDE DEF W
  <2> QED
    BY <2>5, <2>6, FS_Bijection
<1>6. \A i \in S \ W, j \in W : After(j, i)
  BY <1>1, <1>2, RankTells
<1> QED
  BY <1>2, <1>3, <1>4, <1>5, <1>6

ListTypes ==
  /\ list \in Lists /\ limit \in Nat \ {0} /\ row \in [Ids -> RowsOfList]
  /\ need \subseteq {"items", "total"} /\ page \in Nat \cup {-1}
  /\ cursor \in Ids \cup {0} /\ got \subseteq Ids /\ total \in Nat
  /\ listed \in [Ids -> Nat] /\ steady \subseteq VisibleIds

(* Before the walk there is nothing, and no row that is not there was read. *)
Unwalked ==
  /\ page <= 0 => need = {}
  /\ page = 0 => /\ got = {} /\ cursor = 0 /\ total = 0 /\ ~added /\ ~removed /\ ~restarted
                 /\ \A i \in Ids : listed[i] = 0

ThereWhenRead == \A i \in Ids : row[i].state = "new" => i # cursor /\ i \notin got /\ listed[i] = 0

Read == page > 0 /\ "items" \notin need

(* By cursor: what was there all the time was listed or is behind the       *)
(* cursor; when the page is read, listed, in it, or behind all of it.       *)
MorePages == (list.total = "more" /\ total = 1) \/ (list.total = "full" /\ Cardinality(got) = limit)

Covers ==
  /\ \A i \in steady : listed[i] > 0 \/ Behind(i)
  /\ Read => \A i \in steady : listed[i] > 0 \/ i \in got
                                 \/ (MorePages /\ got # {} /\ \A j \in got : After(j, i))
  /\ page = -1 => \A i \in steady : listed[i] > 0

(* What was listed is not behind the cursor, what is read now is.           *)
MovesOn ==
  /\ \A i \in Ids : listed[i] <= 1 /\ (listed[i] > 0 => cursor # 0 /\ (i = cursor \/ After(i, cursor)))
  /\ Read => \A i \in got : cursor = 0 \/ After(cursor, i)

ByCursor ==
  list.by = "cursor" =>
    /\ page > 0 /\ "items" \in need => total = 0
    /\ Covers /\ (~restarted => MovesOn)

(* By offset, while nothing comes or goes.                                  *)
Still ==
  /\ page > 0 =>
       /\ steady = VisibleIds
       /\ \A i \in steady : Rank(i, VisibleIds) < Skip /\ Found(i) => listed[i] > 0
       /\ "items" \notin need => got = PageByOffset
       /\ "total" \notin need => total = Cardinality(VisibleIds)
  /\ page = -1 /\ list.total = "count" => \A i \in steady : Found(i) => listed[i] > 0

(* While nothing comes, a row only moves forward.                           *)
MovesForward ==
  /\ \A i \in Ids : listed[i] <= 1
  /\ page > 0 => \A i \in VisibleIds : listed[i] > 0 => Rank(i, VisibleIds) < Skip
  /\ Read => \A i \in got : listed[i] = 0 /\ (Visible(i) => Rank(i, VisibleIds) < Skip + limit)

ByOffset ==
  list.by = "offset" => (~added /\ ~removed => Still) /\ (~added => MovesForward)

ListInv == ListTypes /\ Unwalked /\ ThereWhenRead /\ ByCursor /\ ByOffset

LEMMA KindsOfLists ==
  ASSUME list \in Lists
  PROVE  \/ list.by = "offset" /\ list.by # "cursor" /\ list.total \in {"count", "page"}
         \/ list.by = "cursor" /\ list.by # "offset" /\ list.filter = "query" /\ list.total \in {"more", "full"}
<1>1. list \in AllLists
  BY ContentAssumption DEF ListingsAssumption
<1>2. CASE list \in {PublicAds, Posts}
  <2>1. PublicAds.by = "cursor" /\ PublicAds.filter = "query" /\ PublicAds.total = "more"
    BY DEF PublicAds, Cursor
  <2>2. Posts.by = "cursor" /\ Posts.filter = "query" /\ Posts.total = "full"
    BY DEF Posts, Cursor
  <2> QED
    BY <1>2, <2>1, <2>2
<1>3. CASE list \in {AllAds, Announcements, Comments, Reviews, Followers, Following, ChurchList}
  <2>1. \A l \in {AllAds, Announcements, Comments, Reviews, Followers, Following, ChurchList} :
          l.by = "offset" /\ l.total = "count"
    BY DEF Offset, AllAds, Announcements, Comments, Reviews, Followers, Following, ChurchList
  <2> QED
    BY <1>3, <2>1
<1>4. CASE list \in {UserList, SystemAdmins, Messages, AuditLogs, Helpers, Registrations, ChurchUsers}
  <2>1. \A l \in {UserList, SystemAdmins, Messages, AuditLogs, Helpers, Registrations, ChurchUsers} :
          l.by = "offset" /\ l.total = "count"
    BY DEF Offset, UserList, SystemAdmins, Messages, AuditLogs, Helpers, Registrations, ChurchUsers
  <2> QED
    BY <1>4, <2>1
<1>5. CASE list \in {MembersOfChurch, MembersOfAll, ProUsers}
  <2>1. \A l \in {MembersOfChurch, MembersOfAll, ProUsers} :
          l.by = "offset" /\ l.total \in {"count", "page"}
    BY DEF Offset, MembersOfChurch, MembersOfAll, ProUsers
  <2> QED
    BY <1>5, <2>1
<1> QED
  BY <1>1, <1>2, <1>3, <1>4, <1>5 DEF AllLists

LEMMA ListInit ==
  ASSUME Init
  PROVE  ListInv
<1>1. /\ list \in Lists /\ limit \in Nat \ {0} /\ row = [i \in Ids |-> NotThere] /\ need = {} /\ page = 0
      /\ cursor = 0 /\ got = {} /\ total = 0 /\ listed = [i \in Ids |-> 0]
      /\ steady = {} /\ ~added /\ ~removed /\ ~restarted
  BY ContentAssumption DEF Init, ListingsAssumption
<1>2. NotThere \in RowsOfList
  BY DEF NotThere, RowsOfList
<1>3. ListTypes
  BY <1>1, <1>2 DEF ListTypes
<1>4. Unwalked
  BY <1>1 DEF Unwalked
<1>5. ThereWhenRead
  BY <1>1, ContentAssumption DEF ThereWhenRead, ListingsAssumption
<1>6. ByCursor
  BY <1>1 DEF ByCursor, Covers, MovesOn, Read
<1>7. ByOffset
  BY <1>1 DEF ByOffset, Still, MovesForward, Read
<1> QED
  BY <1>3, <1>4, <1>5, <1>6, <1>7 DEF ListInv

(* What a change of the table leaves as it was: a row that was there keeps  *)
(* its time, what is gone stays gone, and the walk's own state stays.       *)
Keeps ==
  /\ row' \in [Ids -> RowsOfList]
  /\ \A i \in Ids : row[i].state # "new" =>
       /\ row'[i].state # "new" /\ row'[i].time = row[i].time
       /\ (row[i].state = "gone" => row'[i].state = "gone")
  /\ steady' \subseteq steady /\ steady' \subseteq VisibleIds'
  /\ UNCHANGED <<list, limit, newest, need, page, cursor, got, total, listed, restarted>>

(* What it notes during a walk.                                             *)
Notes ==
  /\ page >= 0
  /\ page > 0 => added' \/ removed'
  /\ page = 0 => ~added' /\ ~removed'
  /\ page > 0 /\ ~added' =>
       ~added /\ VisibleIds' \subseteq VisibleIds /\ \A i \in Ids : row'[i].time = row[i].time

LEMMA CreateKeeps ==
  ASSUME ListInv, page >= 0, NEW i \in Ids, Create(i)
  PROVE  Keeps /\ Notes
<1>1. ListTypes /\ Unwalked
  BY DEF ListInv
<1>2. PICK last, t, f : /\ last = (IF i - 1 \in Ids THEN row[i - 1].time ELSE 0)
                       /\ t \in {last, last + 1} /\ f \in BOOLEAN
                       /\ row' = [row EXCEPT ![i] = [Fresh(t) EXCEPT !.found = f]]
  <2>1. PICK last : last = (IF i - 1 \in Ids THEN row[i - 1].time ELSE 0)
    OBVIOUS
  <2>2. PICK t \in {last, last + 1}, f \in BOOLEAN : row' = [row EXCEPT ![i] = [Fresh(t) EXCEPT !.found = f]]
    BY <2>1 DEF Create
  <2> QED
    BY <2>1, <2>2
<1>3. row[i].state = "new" /\ UNCHANGED <<list, limit, newest, need, page, cursor, got, total, listed, restarted>>
  BY DEF Create, NotThere, Change, Unread
<1>4. t \in Nat
  <2>1. last \in Nat
    BY <1>1, <1>2 DEF ListTypes, RowsOfList
  <2> QED
    BY <2>1, <1>2
<1>5. PICK r : r = [Fresh(t) EXCEPT !.found = f]
  OBVIOUS
<1>6. r \in RowsOfList /\ r.state = "live" /\ row' = [row EXCEPT ![i] = r]
  BY <1>2, <1>4, <1>5 DEF Fresh, RowsOfList
<1>7. row' \in [Ids -> RowsOfList] /\ row'[i] = r /\ \A j \in Ids : j # i => row'[j] = row[j]
  BY <1>1, <1>6 DEF ListTypes
<1>8. steady' = steady \cap VisibleIds
  BY DEF Create, Change
<1>9. i \notin VisibleIds
  BY <1>3 DEF VisibleIds, Visible
<1>10. VisibleIds \subseteq VisibleIds'
  BY <1>7, <1>9 DEF VisibleIds, Visible
<1>11. Keeps
  BY <1>3, <1>7, <1>8, <1>10 DEF Keeps
<1>12. (added' <=> Walking) /\ (removed' <=> removed)
  BY DEF Create
<1>13. page > 0 => added'
  BY <1>12 DEF Walking
<1>14. page = 0 => ~added' /\ ~removed'
  BY <1>1, <1>12 DEF Walking, Unwalked
<1> QED
  BY <1>11, <1>13, <1>14 DEF Notes

LEMMA DropKeeps ==
  ASSUME ListInv, page >= 0, NEW i \in Ids, Drop(i)
  PROVE  Keeps /\ Notes
<1>1. ListTypes /\ Unwalked
  BY DEF ListInv
<1>2. PICK s \in {"deleted", "gone"} : row' = [row EXCEPT ![i].state = s]
  BY DEF Drop
<1>3. row[i].state = "live" /\ UNCHANGED <<list, limit, newest, need, page, cursor, got, total, listed, restarted>>
  BY DEF Drop, Change, Unread
<1>4. PICK r : r = [row[i] EXCEPT !.state = s]
  OBVIOUS
<1>5. r \in RowsOfList /\ r.state = s /\ r.time = row[i].time /\ row' = [row EXCEPT ![i] = r]
  BY <1>1, <1>2, <1>4 DEF ListTypes, RowsOfList
<1>6. row' \in [Ids -> RowsOfList] /\ row'[i] = r /\ \A j \in Ids : j # i => row'[j] = row[j]
  BY <1>1, <1>5 DEF ListTypes
<1>7. steady' = steady \cap (VisibleIds \ {i})
  BY DEF Drop, Change
<1>8. VisibleIds' = VisibleIds \ {i}
  <2>1. ~Visible(i)' /\ \A j \in Ids : j # i => (Visible(j)' <=> Visible(j))
    BY <1>2, <1>5, <1>6 DEF Visible
  <2> QED
    BY <2>1 DEF VisibleIds
<1>9. Keeps
  BY <1>2, <1>3, <1>5, <1>6, <1>7, <1>8 DEF Keeps
<1>10. (removed' <=> Walking) /\ (added' <=> added)
  BY DEF Drop
<1>11. page > 0 => removed'
  BY <1>10 DEF Walking
<1>12. page = 0 => ~added' /\ ~removed'
  BY <1>1, <1>10 DEF Walking, Unwalked
<1>13. \A j \in Ids : row'[j].time = row[j].time
  BY <1>5, <1>6
<1> QED
  BY <1>8, <1>9, <1>10, <1>11, <1>12, <1>13 DEF Notes

LEMMA ShowKeeps ==
  ASSUME ListInv, page >= 0, NEW i \in Ids, Show(i)
  PROVE  Keeps /\ Notes
<1>1. ListTypes /\ Unwalked
  BY DEF ListInv
<1>2. row[i].state = "live" /\ UNCHANGED <<list, limit, newest, need, page, cursor, got, total, listed, restarted>>
  BY DEF Show, Change, Unread
<1>3. PICK r : r = [row[i] EXCEPT !.shown = ~@] /\ row' = [row EXCEPT ![i] = r]
  BY DEF Show
<1>4. r \in RowsOfList /\ r.state = "live" /\ r.time = row[i].time /\ (r.shown <=> ~row[i].shown)
  <2>1. row[i] \in RowsOfList
    BY <1>1 DEF ListTypes
  <2> QED
    BY <2>1, <1>2, <1>3 DEF RowsOfList
<1>5. row' \in [Ids -> RowsOfList] /\ row'[i] = r /\ \A j \in Ids : j # i => row'[j] = row[j]
  BY <1>1, <1>3, <1>4 DEF ListTypes
<1>6. steady' = steady \cap (VisibleIds \ {i})
  BY DEF Show, Change
<1>7. \A j \in Ids : j # i => (Visible(j)' <=> Visible(j))
  BY <1>5 DEF Visible
<1>8. VisibleIds \ {i} \subseteq VisibleIds'
  BY <1>7 DEF VisibleIds
<1>9. row[i].shown => VisibleIds' \subseteq VisibleIds
  <2>1. row[i].shown => Visible(i)
    BY <1>2 DEF Visible
  <2> QED
    BY <2>1, <1>7 DEF VisibleIds
<1>10. Keeps
  BY <1>2, <1>4, <1>5, <1>6, <1>8 DEF Keeps
<1>11. (added' <=> (added \/ (Walking /\ ~row[i].shown))) /\ (removed' <=> (removed \/ (Walking /\ row[i].shown)))
  BY DEF Show
<1>12. page > 0 => (added' \/ removed') /\ (~added' => ~added /\ row[i].shown)
  BY <1>11 DEF Walking
<1>13. page = 0 => ~added' /\ ~removed'
  BY <1>1, <1>11 DEF Walking, Unwalked
<1>14. \A j \in Ids : row'[j].time = row[j].time
  BY <1>4, <1>5
<1> QED
  BY <1>9, <1>10, <1>12, <1>13, <1>14 DEF Notes

LEMMA TimesKept ==
  ASSUME ListTypes, Keeps, NEW i \in Ids, NEW j \in Ids, row[i].state # "new", row[j].state # "new"
  PROVE  After(i, j)' <=> After(i, j)
<1>1. row'[i].time = row[i].time /\ row'[j].time = row[j].time /\ newest' = newest
  BY DEF Keeps
<1> QED
  BY <1>1 DEF After, AfterTime

LEMMA ChangeCovers ==
  ASSUME ListTypes, ThereWhenRead, Covers, Keeps
  PROVE  Covers'
<1>1. \A i \in Ids : i \in steady' => row[i].state # "new" /\ i \in steady
  BY DEF ListTypes, Keeps, VisibleIds, Visible
<1>2. \A i \in Ids : i \in got => row[i].state # "new"
  BY DEF ThereWhenRead
<1>3. steady' \subseteq Ids
  BY DEF ListTypes, Keeps, VisibleIds
<1>4. UNCHANGED <<list, limit, newest, need, page, cursor, got, total, listed, restarted>>
  BY DEF Keeps
<1>5. ASSUME NEW i \in steady', Behind(i)
      PROVE  Behind(i)'
  <2>1. CASE cursor = 0
    BY <1>4, <2>1 DEF Behind
  <2>2. CASE cursor # 0
    <3>1. cursor \in Ids /\ row[cursor].state # "new"
      BY <2>2 DEF ListTypes, ThereWhenRead
    <3>2. Lost => Lost'
      BY <3>1, <1>4 DEF Lost, Keeps
    <3>3. After(cursor, i) => After(cursor, i)'
      <4>1. PICK c \in Ids : c = cursor /\ row[c].state # "new"
        BY <3>1
      <4>2. After(c, i)' <=> After(c, i)
        BY <4>1, <1>1, <1>3, <1>5, TimesKept
      <4> QED
        BY <4>1, <4>2, <1>4
    <3> QED
      BY <3>2, <3>3, <1>5, <2>2 DEF Behind
  <2> QED
    BY <2>1, <2>2
<1>6. \A i \in steady' : listed'[i] > 0 \/ Behind(i)'
  BY <1>1, <1>3, <1>4, <1>5 DEF Covers
<1>7. Read' => \A i \in steady' : listed'[i] > 0 \/ i \in got'
                                   \/ (MorePages' /\ got' # {} /\ \A j \in got' : After(j, i)')
  <2> SUFFICES ASSUME Read', NEW i \in steady'
               PROVE  listed'[i] > 0 \/ i \in got' \/ (MorePages' /\ got' # {} /\ \A j \in got' : After(j, i)')
    OBVIOUS
  <2>1. Read
    BY <1>4 DEF Read
  <2>2. listed[i] > 0 \/ i \in got \/ (MorePages /\ got # {} /\ \A j \in got : After(j, i))
    BY <2>1, <1>1, <1>3 DEF Covers
  <2>3. CASE listed[i] > 0 \/ i \in got
    BY <2>3, <1>4
  <2>4. CASE MorePages /\ got # {} /\ \A j \in got : After(j, i)
    <3>1. \A j \in got : j \in Ids /\ row[j].state # "new"
      BY <1>2 DEF ListTypes
    <3>2. \A j \in got : After(j, i)'
      BY <2>4, <3>1, <1>1, <1>3, TimesKept
    <3>3. MorePages'
      BY <2>4, <1>4 DEF MorePages
    <3> QED
      BY <2>4, <3>2, <3>3, <1>4
  <2> QED
    BY <2>2, <2>3, <2>4
<1>8. page' = -1 => \A i \in steady' : listed'[i] > 0
  BY <1>1, <1>3, <1>4 DEF Covers
<1> QED
  BY <1>6, <1>7, <1>8 DEF Covers

LEMMA ChangeMovesOn ==
  ASSUME ListTypes, ThereWhenRead, MovesOn, Keeps
  PROVE  MovesOn'
<1>1. UNCHANGED <<list, limit, newest, need, page, cursor, got, total, listed, restarted>>
  BY DEF Keeps
<1>2. \A i \in Ids : (i \in got \/ listed[i] > 0) => row[i].state # "new"
  BY DEF ThereWhenRead, ListTypes
<1>3. cursor # 0 => cursor \in Ids /\ row[cursor].state # "new"
  BY DEF ThereWhenRead, ListTypes
<1>4. ASSUME NEW i \in Ids, listed[i] > 0
      PROVE  cursor # 0 /\ (i = cursor \/ After(i, cursor)')
  <2>1. cursor # 0 /\ (i = cursor \/ After(i, cursor))
    BY <1>4 DEF MovesOn
  <2>2. PICK c \in Ids : c = cursor /\ row[c].state # "new"
    BY <1>3, <2>1
  <2>3. After(i, c)' <=> After(i, c)
    BY <1>2, <1>4, <2>2, TimesKept
  <2> QED
    BY <2>1, <2>2, <2>3, <1>1
<1>5. ASSUME Read, NEW i \in got, cursor # 0
      PROVE  After(cursor, i)'
  <2>1. After(cursor, i) /\ i \in Ids
    BY <1>5 DEF MovesOn, ListTypes
  <2>2. PICK c \in Ids : c = cursor /\ row[c].state # "new"
    BY <1>3, <1>5
  <2>3. After(c, i)' <=> After(c, i)
    BY <1>2, <1>5, <2>1, <2>2, TimesKept
  <2> QED
    BY <2>1, <2>2, <2>3, <1>1
<1>6. \A i \in Ids : listed'[i] <= 1 /\ (listed'[i] > 0 => cursor' # 0 /\ (i = cursor' \/ After(i, cursor)'))
  BY <1>1, <1>4 DEF MovesOn
<1>7. Read' => \A i \in got' : cursor' = 0 \/ After(cursor, i)'
  BY <1>1, <1>5 DEF Read
<1> QED
  BY <1>6, <1>7 DEF MovesOn

(* Without new rows a row has no more rows before it than it had.           *)
LEMMA RankKept ==
  ASSUME ListTypes, Keeps, Notes, page > 0, ~added', NEW i \in Ids
  PROVE  Rank(i, VisibleIds)' <= Rank(i, VisibleIds) /\ Rank(i, VisibleIds)' \in Nat
         /\ Rank(i, VisibleIds) \in Nat
<1>1. PICK V, W : V = VisibleIds /\ W = VisibleIds'
  OBVIOUS
<1>2. W \subseteq V /\ V \in SUBSET Ids /\ W \in SUBSET Ids
  BY <1>1 DEF Notes, VisibleIds
<1>3. \A j \in Ids : After(j, i)' <=> After(j, i)
  <2>1. newest' = newest /\ \A j \in Ids : row'[j].time = row[j].time
    BY DEF Keeps, Notes
  <2> QED
    BY <2>1 DEF After, AfterTime
<1>4. Rank(i, VisibleIds)' = Rank(i, W)
  <2>1. {j \in W : After(j, i)'} = {j \in W : After(j, i)}
    BY <1>2, <1>3
  <2> QED
    BY <1>1, <2>1 DEF Rank
<1>5. Rank(i, W) <= Rank(i, V)
  BY <1>2, RankOfPart
<1>6. Rank(i, W) \in Nat /\ Rank(i, V) \in Nat
  BY <1>2, RankNat
<1> QED
  BY <1>1, <1>4, <1>5, <1>6

LEMMA ChangeMovesForward ==
  ASSUME ListTypes, Keeps, Notes, Unwalked, ~added', MovesForward
  PROVE  MovesForward'
<1>1. UNCHANGED <<list, limit, newest, need, page, cursor, got, total, listed, restarted>>
  BY DEF Keeps
<1>2. page > 0 => VisibleIds' \subseteq VisibleIds /\ VisibleIds \subseteq Ids
  BY DEF Notes, VisibleIds
<1>3. limit \in Nat /\ page \in Int
  BY DEF ListTypes
<1>4. page > 0 => Skip \in Nat /\ Skip' = Skip
  BY <1>1, <1>3 DEF Skip
<1>5. page > 0 => \A i \in VisibleIds' : listed'[i] > 0 => Rank(i, VisibleIds)' < Skip'
  <2> SUFFICES ASSUME page > 0, NEW i \in VisibleIds', listed[i] > 0
               PROVE  Rank(i, VisibleIds)' < Skip
    BY <1>1, <1>4
  <2>1. i \in Ids /\ Rank(i, VisibleIds) < Skip
    BY <1>2 DEF MovesForward
  <2>2. Rank(i, VisibleIds)' <= Rank(i, VisibleIds) /\ Rank(i, VisibleIds)' \in Nat /\ Rank(i, VisibleIds) \in Nat
    BY <2>1, RankKept
  <2> QED
    BY <2>1, <2>2, <1>4
<1>6. Read' => \A i \in got' : listed'[i] = 0 /\ (Visible(i)' => Rank(i, VisibleIds)' < Skip' + limit')
  <2> SUFFICES ASSUME Read, NEW i \in got
               PROVE  listed[i] = 0 /\ (Visible(i)' => Rank(i, VisibleIds)' < Skip + limit)
    BY <1>1, <1>4 DEF Read
  <2>1. i \in Ids /\ listed[i] = 0 /\ (Visible(i) => Rank(i, VisibleIds) < Skip + limit) /\ page > 0
    BY DEF MovesForward, ListTypes, Read
  <2>2. Visible(i)' => Visible(i)
    <3>1. Visible(i)' => i \in VisibleIds'
      BY <2>1 DEF VisibleIds
    <3>2. i \in VisibleIds => Visible(i)
      BY DEF VisibleIds
    <3> QED
      BY <2>1, <3>1, <3>2, <1>2
  <2>3. Rank(i, VisibleIds)' <= Rank(i, VisibleIds) /\ Rank(i, VisibleIds)' \in Nat /\ Rank(i, VisibleIds) \in Nat
    BY <2>1, RankKept
  <2> QED
    BY <2>1, <2>2, <2>3, <1>3, <1>4
<1>7. \A i \in Ids : listed'[i] <= 1
  BY <1>1 DEF MovesForward
<1>8. page' > 0 => page > 0
  BY <1>1
<1> QED
  BY <1>5, <1>6, <1>7, <1>8 DEF MovesForward

LEMMA ChangeInv ==
  ASSUME ListInv, page >= 0, NEW i \in Ids, Create(i) \/ Drop(i) \/ Show(i)
  PROVE  ListInv'
<1>1. Keeps /\ Notes
  BY CreateKeeps, DropKeeps, ShowKeeps
<1>2. UNCHANGED <<list, limit, newest, need, page, cursor, got, total, listed, restarted>>
  BY <1>1 DEF Keeps
<1>3. ListTypes /\ Unwalked /\ ThereWhenRead /\ ByCursor /\ ByOffset
  BY DEF ListInv
<1>4. ListTypes' /\ (page = 0 \/ page > 0)
  BY <1>1, <1>2, <1>3 DEF ListTypes, Keeps
<1>5. Unwalked'
  BY <1>1, <1>2, <1>3 DEF Unwalked, Notes
<1>6. ThereWhenRead'
  BY <1>1, <1>2, <1>3 DEF ThereWhenRead, Keeps
<1>7. ByCursor'
  <2> SUFFICES ASSUME list.by = "cursor"
               PROVE  /\ page > 0 /\ "items" \in need => total = 0
                      /\ Covers' /\ (~restarted => MovesOn')
    BY <1>2 DEF ByCursor
  <2> QED
    BY <1>1, <1>3, ChangeCovers, ChangeMovesOn DEF ByCursor
<1>8. ByOffset'
  <2> SUFFICES ASSUME list.by = "offset"
               PROVE  (~added' /\ ~removed' => Still') /\ (~added' => MovesForward')
    BY <1>2 DEF ByOffset
  <2>1. ASSUME ~added', ~removed'
        PROVE  Still'
    <3>1. page = 0 /\ page' = 0
      BY <1>1, <1>2, <1>4, <2>1 DEF Notes
    <3> QED
      BY <3>1 DEF Still
  <2>2. ASSUME ~added'
        PROVE  MovesForward'
    <3>1. ~added
      BY <1>1, <1>3, <1>4, <2>2 DEF Notes, Unwalked
    <3> QED
      BY <1>1, <1>3, <2>2, <3>1, ChangeMovesForward DEF ByOffset
  <2> QED
    BY <2>1, <2>2
<1> QED
  BY <1>4, <1>5, <1>6, <1>7, <1>8 DEF ListInv

LEMMA StartInv ==
  ASSUME ListInv, Start
  PROVE  ListInv'
<1>1. ListTypes /\ Unwalked /\ ThereWhenRead
  BY DEF ListInv
<1>2. /\ page = 0 /\ page' = 1 /\ need' = {"items", "total"} /\ steady' = VisibleIds
      /\ UNCHANGED <<list, limit, newest, row, cursor, got, total, listed, added, removed, restarted>>
  BY DEF Start
<1>3. cursor = 0 /\ got = {} /\ total = 0 /\ \A i \in Ids : listed[i] = 0
  BY <1>1, <1>2 DEF Unwalked
<1>4. VisibleIds' = VisibleIds /\ VisibleIds \subseteq Ids
  BY <1>2 DEF VisibleIds, Visible
<1>5. ListTypes'
  BY <1>1, <1>2, <1>4 DEF ListTypes
<1>6. Unwalked' /\ ThereWhenRead'
  BY <1>1, <1>2 DEF Unwalked, ThereWhenRead
<1>7. Covers'
  BY <1>2, <1>3 DEF Covers, Read, Behind
<1>8. MovesOn'
  BY <1>2, <1>3 DEF MovesOn, Read
<1>9. ByCursor'
  BY <1>2, <1>3, <1>7, <1>8 DEF ByCursor
<1>10. Still'
  <2>1. ASSUME NEW i \in VisibleIds
        PROVE  ~(Rank(i, VisibleIds)' < Skip')
    <3>1. Skip' = 0
      BY <1>1, <1>2 DEF Skip, ListTypes
    <3>2. PICK V : V = VisibleIds /\ V \in SUBSET Ids
      BY <1>4
    <3>3. Rank(i, VisibleIds)' = Rank(i, V)
      BY <1>2, <1>4, <3>2 DEF Rank, After, AfterTime
    <3>4. Rank(i, V) \in Nat
      BY <3>2, RankNat
    <3> QED
      BY <3>1, <3>3, <3>4
  <2> QED
    BY <2>1, <1>2, <1>4 DEF Still
<1>11. MovesForward'
  BY <1>2, <1>3, <1>4 DEF MovesForward, Read
<1>12. ByOffset'
  BY <1>10, <1>11 DEF ByOffset
<1> QED
  BY <1>5, <1>6, <1>9, <1>12 DEF ListInv

(* Steps of the walk that change no row.                                    *)
LEMMA RowsAlike ==
  ASSUME row' = row, limit' = limit, newest' = newest, list' = list
  PROVE  /\ VisibleIds' = VisibleIds
         /\ \A i \in Ids : (Visible(i)' <=> Visible(i)) /\ (Found(i)' <=> Found(i))
         /\ \A i, j : After(i, j)' <=> After(i, j)
         /\ \A i : Rank(i, VisibleIds)' = Rank(i, VisibleIds)
<1>1. VisibleIds' = VisibleIds
  BY DEF VisibleIds, Visible
<1>2. \A i, j : After(i, j)' <=> After(i, j)
  BY DEF After, AfterTime
<1>3. \A i : Rank(i, VisibleIds)' = Rank(i, VisibleIds)
  BY <1>1, <1>2 DEF Rank
<1>4. \A i \in Ids : (Visible(i)' <=> Visible(i)) /\ (Found(i)' <=> Found(i))
  BY DEF Visible, Found
<1> QED
  BY <1>1, <1>2, <1>3, <1>4

LEMMA ItemsInv ==
  ASSUME ListInv, Items
  PROVE  ListInv'
<1>1. ListTypes /\ Unwalked /\ ThereWhenRead /\ ByCursor /\ ByOffset
  BY DEF ListInv
<1>2. /\ "items" \in need /\ need' = need \ {"items"}
      /\ UNCHANGED <<list, limit, newest, row, page, cursor, listed, steady, added, removed>>
      /\ got' = (IF list.by = "offset" THEN PageByOffset ELSE PageByCursor)
      /\ total' = (IF list.by = "cursor" /\ MoreBehind THEN 1 ELSE total)
      /\ (restarted' <=> (restarted \/ (list.by = "cursor" /\ Lost)))
  BY DEF Items
<1>3. page \in Nat /\ page > 0
  BY <1>1, <1>2 DEF ListTypes, Unwalked
<1>4. /\ VisibleIds' = VisibleIds
      /\ \A i \in Ids : (Visible(i)' <=> Visible(i)) /\ (Found(i)' <=> Found(i))
      /\ \A i, j : After(i, j)' <=> After(i, j)
      /\ \A i : Rank(i, VisibleIds)' = Rank(i, VisibleIds)
  BY <1>2, RowsAlike
<1>5. VisibleIds \in SUBSET Ids /\ Rest \in SUBSET Ids /\ \A i \in VisibleIds : row[i].state # "new"
  BY DEF VisibleIds, Visible, Rest
<1>6. got' \subseteq VisibleIds
  BY <1>2 DEF PageByOffset, PageByCursor, Window, Rest
<1>7. ListTypes'
  BY <1>1, <1>2, <1>4, <1>5, <1>6 DEF ListTypes
<1>8. Unwalked'
  BY <1>2, <1>3 DEF Unwalked
<1>9. ThereWhenRead'
  <2> SUFFICES ASSUME NEW i \in Ids, row[i].state = "new"
               PROVE  i # cursor /\ i \notin got' /\ listed[i] = 0
    BY <1>2 DEF ThereWhenRead
  <2> QED
    BY <1>1, <1>5, <1>6 DEF ThereWhenRead
<1>10. ASSUME list.by = "cursor"
       PROVE  Covers' /\ (~restarted' => MovesOn')
  <2>1. Covers /\ (~restarted => MovesOn) /\ list.total \in {"more", "full"} /\ list.by # "offset"
    BY <1>1, <1>10, KindsOfLists DEF ByCursor, ListTypes
  <2>2. got' = Window(Rest, 0) /\ total' = (IF MoreBehind THEN 1 ELSE total)
    BY <1>2, <1>10, <2>1 DEF PageByCursor
  <2>3. PICK S, W : S = Rest /\ W = Window(S, 0) /\ S \in SUBSET Ids
    BY <1>5
  <2>4. Ordered
    BY <1>1, RowsOrdered DEF ListTypes
  <2>5. /\ Cardinality(S) <= limit => W = S
        /\ S # {} => W # {}
        /\ Cardinality(S) > limit => Cardinality(W) = limit
        /\ \A i \in S \ W, j \in W : After(j, i)
    BY <1>1, <2>3, <2>4, FirstPage DEF ListTypes
  <2>6. Cardinality(S) \in Nat /\ limit \in Nat
    BY <1>1, <2>3, IdsFinite DEF ListTypes
  <2>7. got' = W /\ (Cardinality(S) > limit => total' = 1)
    BY <2>2, <2>3 DEF MoreBehind
  <2>8. ASSUME NEW i \in steady
        PROVE  listed[i] > 0 \/ i \in got' \/ (MorePages' /\ got' # {} /\ \A j \in got' : After(j, i)')
    <3>1. listed[i] > 0 \/ i \in S
      <4>1. i \in VisibleIds /\ (listed[i] > 0 \/ Behind(i))
        BY <1>1, <2>1 DEF ListTypes, Covers
      <4> QED
        BY <4>1, <2>3 DEF Rest
    <3>2. ASSUME i \in S, i \notin W
          PROVE  MorePages' /\ got' # {} /\ \A j \in got' : After(j, i)'
      <4>1. Cardinality(S) > limit /\ W # {}
        BY <2>5, <2>6, <3>2
      <4>2. MorePages'
        BY <4>1, <1>2, <2>1, <2>5, <2>7 DEF MorePages
      <4>3. \A j \in W : After(j, i)'
        BY <1>4, <2>5, <3>2
      <4> QED
        BY <4>1, <4>2, <4>3, <2>7
    <3> QED
      BY <3>1, <3>2, <2>7
  <2>9. \A i \in steady : listed[i] > 0 \/ Behind(i)'
    <3>1. \A i \in steady : listed[i] > 0 \/ Behind(i)
      BY <2>1 DEF Covers
    <3>2. \A i : Behind(i)' <=> Behind(i)
      BY <1>2, <1>4 DEF Behind, Lost
    <3> QED
      BY <3>1, <3>2
  <2>10. Covers'
    BY <1>2, <1>3, <2>8, <2>9 DEF Covers
  <2>11. ASSUME ~restarted'
         PROVE  MovesOn'
    <3>1. MovesOn /\ ~Lost
      BY <1>2, <1>10, <2>1, <2>11
    <3>2. \A i \in got' : cursor = 0 \/ After(cursor, i)
      <4>1. got' \subseteq Rest
        BY <2>2 DEF Window
      <4> QED
        BY <4>1, <3>1 DEF Rest, Behind
    <3>3. \A i \in got' : cursor' = 0 \/ After(cursor, i)'
      <4>1. PICK c : c = cursor
        OBVIOUS
      <4> QED
        BY <4>1, <3>2, <1>2, <1>4
    <3>4. \A i \in Ids : listed'[i] <= 1 /\ (listed'[i] > 0 => cursor' # 0 /\ (i = cursor' \/ After(i, cursor)'))
      <4>1. PICK c : c = cursor
        OBVIOUS
      <4> QED
        BY <4>1, <3>1, <1>2, <1>4 DEF MovesOn
    <3> QED
      BY <3>3, <3>4 DEF MovesOn
  <2> QED
    BY <2>10, <2>11
<1>11. ByCursor'
  BY <1>2, <1>10 DEF ByCursor
<1>12. ASSUME list.by = "offset"
       PROVE  (~added /\ ~removed => Still') /\ (~added => MovesForward')
  <2>1. got' = PageByOffset /\ total' = total
    BY <1>1, <1>2, <1>12, KindsOfLists DEF ListTypes
  <2>2. PageByOffset' = PageByOffset /\ Skip' = Skip
    <3>1. Skip' = Skip
      BY <1>2 DEF Skip
    <3> QED
      BY <3>1, <1>2, <1>4 DEF PageByOffset, Window
  <2>3. ASSUME ~added, ~removed
        PROVE  Still'
    <3>1. Still
      BY <1>1, <1>12, <2>3 DEF ByOffset
    <3>2. \A i \in steady : i \in Ids
      BY <1>1 DEF ListTypes, VisibleIds
    <3>3. \A i \in steady : Rank(i, VisibleIds)' < Skip' /\ Found(i)' => listed'[i] > 0
      BY <1>2, <1>3, <1>4, <2>2, <3>1, <3>2 DEF Still
    <3> QED
      BY <1>2, <1>3, <1>4, <2>1, <2>2, <3>1, <3>3 DEF Still
  <2>4. ASSUME ~added
        PROVE  MovesForward'
    <3>1. MovesForward
      BY <1>1, <1>12, <2>4 DEF ByOffset
    <3>2. Skip \in Nat /\ limit \in Nat
      BY <1>1, <1>3 DEF Skip, ListTypes
    <3>3. ASSUME NEW i \in got'
          PROVE  listed[i] = 0 /\ Rank(i, VisibleIds) < Skip + limit
      <4>1. i \in VisibleIds /\ Skip <= Rank(i, VisibleIds) /\ Rank(i, VisibleIds) < Skip + limit
        BY <2>1, <3>3 DEF PageByOffset, Window
      <4>2. Rank(i, VisibleIds) \in Nat /\ listed[i] \in Nat
        BY <4>1, <1>1, <1>5, RankNat DEF ListTypes
      <4>3. ~(listed[i] > 0)
        BY <4>1, <4>2, <3>1, <3>2, <1>3 DEF MovesForward
      <4> QED
        BY <4>1, <4>2, <4>3
    <3> QED
      BY <1>2, <1>3, <1>4, <2>2, <3>1, <3>3 DEF MovesForward
  <2> QED
    BY <2>3, <2>4
<1>13. ByOffset'
  BY <1>2, <1>12 DEF ByOffset
<1> QED
  BY <1>7, <1>8, <1>9, <1>11, <1>13 DEF ListInv

LEMMA TotalInv ==
  ASSUME ListInv, Total
  PROVE  ListInv'
<1>1. ListTypes /\ Unwalked /\ ThereWhenRead /\ ByCursor /\ ByOffset
  BY DEF ListInv
<1>2. /\ "total" \in need /\ need' = need \ {"total"}
      /\ UNCHANGED <<list, limit, newest, row, page, cursor, got, listed, steady, added, removed, restarted>>
      /\ total' = (IF list.by = "offset" THEN Cardinality(VisibleIds) ELSE total)
  BY DEF Total
<1>3. page \in Nat /\ page > 0 /\ ("items" \in need' <=> "items" \in need)
  BY <1>1, <1>2 DEF ListTypes, Unwalked
<1>4. /\ VisibleIds' = VisibleIds
      /\ \A i \in Ids : (Visible(i)' <=> Visible(i)) /\ (Found(i)' <=> Found(i))
      /\ \A i, j : After(i, j)' <=> After(i, j)
      /\ \A i : Rank(i, VisibleIds)' = Rank(i, VisibleIds)
  BY <1>2, RowsAlike
<1>5. Cardinality(VisibleIds) \in Nat
  BY IdsFinite DEF VisibleIds
<1>6. ListTypes'
  BY <1>1, <1>2, <1>4, <1>5 DEF ListTypes
<1>7. Unwalked' /\ ThereWhenRead'
  BY <1>1, <1>2, <1>3 DEF Unwalked, ThereWhenRead
<1>8. ASSUME list.by = "cursor"
      PROVE  Covers' /\ (~restarted => MovesOn') /\ total' = total
  <2>1. Covers /\ (~restarted => MovesOn) /\ list.by # "offset"
    BY <1>1, <1>8, KindsOfLists DEF ByCursor, ListTypes
  <2>2. total' = total /\ (Read' <=> Read)
    BY <1>2, <1>3, <2>1 DEF Read
  <2>3. \A i : Behind(i)' <=> Behind(i)
    BY <1>2, <1>4 DEF Behind, Lost
  <2>4. MorePages' <=> MorePages
    BY <1>2, <2>2 DEF MorePages
  <2>5. Covers'
    BY <1>2, <1>4, <2>1, <2>2, <2>3, <2>4 DEF Covers
  <2>6. ASSUME MovesOn
        PROVE  MovesOn'
    <3>1. PICK c : c = cursor /\ c = cursor'
      BY <1>2
    <3> QED
      BY <3>1, <1>2, <1>4, <2>2, <2>6 DEF MovesOn
  <2> QED
    BY <2>1, <2>2, <2>5, <2>6
<1>9. ByCursor'
  BY <1>1, <1>2, <1>3, <1>8 DEF ByCursor
<1>10. ASSUME list.by = "offset"
       PROVE  (~added /\ ~removed => Still') /\ (~added => MovesForward')
  <2>1. PageByOffset' = PageByOffset /\ Skip' = Skip
    <3>1. Skip' = Skip
      BY <1>2 DEF Skip
    <3> QED
      BY <3>1, <1>2, <1>4 DEF PageByOffset, Window
  <2>2. ASSUME ~added, ~removed
        PROVE  Still'
    <3>1. Still
      BY <1>1, <1>10, <2>2 DEF ByOffset
    <3>2. \A i \in steady : i \in Ids
      BY <1>1 DEF ListTypes, VisibleIds
    <3>3. \A i \in steady : Rank(i, VisibleIds)' < Skip' /\ Found(i)' => listed'[i] > 0
      BY <1>2, <1>3, <1>4, <2>1, <3>1, <3>2 DEF Still
    <3>4. total' = Cardinality(VisibleIds)'
      BY <1>2, <1>4, <1>10
    <3> QED
      BY <1>2, <1>3, <1>4, <2>1, <3>1, <3>3, <3>4 DEF Still
  <2>3. ASSUME ~added
        PROVE  MovesForward'
    <3>1. MovesForward
      BY <1>1, <1>10, <2>3 DEF ByOffset
    <3>2. (Read' <=> Read) /\ got \subseteq Ids /\ VisibleIds \subseteq Ids
      BY <1>1, <1>2, <1>3 DEF Read, ListTypes, VisibleIds
    <3> QED
      BY <1>2, <1>3, <1>4, <2>1, <3>1, <3>2 DEF MovesForward
  <2> QED
    BY <2>2, <2>3
<1>11. ByOffset'
  BY <1>2, <1>10 DEF ByOffset
<1> QED
  BY <1>6, <1>7, <1>9, <1>11 DEF ListInv

LEMMA AnswerInv ==
  ASSUME ListInv, Answer
  PROVE  ListInv'
<1>1. ListTypes /\ Unwalked /\ ThereWhenRead /\ ByCursor /\ ByOffset
  BY DEF ListInv
<1>2. /\ page > 0 /\ need = {}
      /\ listed' = [i \in Ids |-> IF i \in Shown THEN listed[i] + 1 ELSE listed[i]]
      /\ cursor' = (IF list.by = "cursor" /\ got # {} THEN LastOf(got) ELSE cursor)
      /\ total' = 0
      /\ UNCHANGED <<list, limit, newest, row, got, steady, added, removed, restarted>>
  BY DEF Answer, Walking
<1>3. \/ Further /\ page' = page + 1 /\ need' = {"items", "total"}
      \/ ~Further /\ page' = -1 /\ need' = {}
  BY <1>2 DEF Answer
<1>4. page \in Nat /\ page > 0 /\ Read
  BY <1>1, <1>2 DEF ListTypes, Read
<1>5. page' \in Nat \cup {-1} /\ (page' > 0 \/ page' = -1) /\ ~Read' /\ need' \subseteq {"items", "total"}
      /\ (page' > 0 => page' = page + 1 /\ Further) /\ (page' = -1 => ~Further)
  BY <1>3, <1>4 DEF Read
<1>6. /\ VisibleIds' = VisibleIds
      /\ \A i \in Ids : (Visible(i)' <=> Visible(i)) /\ (Found(i)' <=> Found(i))
      /\ \A i, j : After(i, j)' <=> After(i, j)
      /\ \A i : Rank(i, VisibleIds)' = Rank(i, VisibleIds)
  BY <1>2, RowsAlike
<1>7. Ordered /\ got \in SUBSET Ids /\ Shown \subseteq got
  BY <1>1, RowsOrdered DEF ListTypes, Shown
<1>8. cursor' = cursor \/ (cursor' = LastOf(got) /\ got # {} /\ cursor' \in got /\ \A j \in got \ {cursor'} : After(j, cursor'))
  BY <1>2, <1>7, LastComesLast
<1>9. \A i \in Ids : /\ listed[i] \in Nat
                     /\ i \in Shown => listed'[i] = listed[i] + 1
                     /\ i \notin Shown => listed'[i] = listed[i]
  BY <1>1, <1>2 DEF ListTypes
<1>10. ListTypes'
  <2>1. cursor' \in Ids \cup {0}
    BY <1>1, <1>7, <1>8 DEF ListTypes
  <2>2. listed' \in [Ids -> Nat]
    BY <1>2, <1>9
  <2> QED
    BY <1>1, <1>2, <1>5, <1>6, <2>1, <2>2 DEF ListTypes
<1>11. Unwalked'
  BY <1>3, <1>5 DEF Unwalked
<1>12. ThereWhenRead'
  <2> SUFFICES ASSUME NEW i \in Ids, row[i].state = "new"
               PROVE  i # cursor' /\ i \notin got /\ listed'[i] = 0
    BY <1>2 DEF ThereWhenRead
  <2>1. i # cursor /\ i \notin got /\ listed[i] = 0
    BY <1>1 DEF ThereWhenRead
  <2> QED
    BY <2>1, <1>7, <1>8, <1>9
<1>13. ASSUME list.by = "cursor"
       PROVE  Covers' /\ (~restarted => MovesOn')
  <2>1. Covers /\ (~restarted => MovesOn) /\ list.filter = "query" /\ list.total \in {"more", "full"}
    BY <1>1, <1>13, KindsOfLists DEF ByCursor, ListTypes
  <2>2. Shown = got
    BY <2>1 DEF Shown, Found
  <2>3. Further <=> MorePages
    BY <2>1 DEF Further, MorePages
  <2>4. steady \subseteq Ids
    BY <1>1 DEF ListTypes, VisibleIds
  <2>5. ASSUME NEW i \in steady
        PROVE  listed'[i] > 0 \/ (MorePages /\ Behind(i)')
    <3>1. listed[i] > 0 \/ i \in got \/ (MorePages /\ got # {} /\ \A j \in got : After(j, i))
      BY <1>4, <2>1 DEF Covers
    <3>2. CASE listed[i] > 0 \/ i \in got
      <4>1. listed[i] \in Nat /\ i \in Ids /\ (listed'[i] = listed[i] + 1 \/ (listed'[i] = listed[i] /\ i \notin got))
        BY <1>9, <2>2, <2>4
      <4> QED
        BY <4>1, <3>2
    <3>3. CASE MorePages /\ got # {} /\ \A j \in got : After(j, i)
      <4>1. cursor' \in got
        BY <1>2, <1>7, <1>13, <3>3, LastComesLast
      <4>2. PICK c : c = cursor'
        OBVIOUS
      <4>3. After(c, i)'
        BY <4>1, <4>2, <3>3, <1>6
      <4>4. Behind(i)'
        BY <4>2, <4>3 DEF Behind
      <4> QED
        BY <4>4, <3>3
    <3> QED
      BY <3>1, <3>2, <3>3
  <2>6. Covers'
    BY <1>2, <1>5, <2>3, <2>5 DEF Covers
  <2>7. ASSUME ~restarted
        PROVE  MovesOn'
    <3>1. /\ \A i \in Ids : listed[i] <= 1 /\ (listed[i] > 0 => cursor # 0 /\ (i = cursor \/ After(i, cursor)))
          /\ \A i \in got : cursor = 0 \/ After(cursor, i)
      BY <1>4, <2>1, <2>7 DEF MovesOn
    <3>2. cursor # 0 => cursor \in Ids
      BY <1>1 DEF ListTypes
    <3>3. \A i \in got : listed[i] = 0
      <4> SUFFICES ASSUME NEW i \in got, listed[i] # 0
                   PROVE  FALSE
        OBVIOUS
      <4>1. i \in Ids /\ listed[i] > 0
        BY <1>7, <1>9
      <4>2. cursor \in Ids /\ (i = cursor \/ After(i, cursor)) /\ After(cursor, i)
        BY <4>1, <3>1, <3>2
      <4> QED
        BY <4>1, <4>2, <1>7 DEF Ordered
    <3>4. \A i \in Ids : listed'[i] <= 1
      BY <3>1, <3>3, <1>9, <2>2
    <3>5. ASSUME NEW i \in Ids, listed'[i] > 0
          PROVE  cursor' # 0 /\ (i = cursor' \/ After(i, cursor'))
      <4>1. CASE got = {}
        <5>1. cursor' = cursor /\ listed'[i] = listed[i]
          BY <4>1, <1>2, <1>9, <2>2
        <5> QED
          BY <5>1, <3>1, <3>5
      <4>2. CASE got # {}
        <5>1. PICK c \in got : c = cursor' /\ \A j \in got \ {c} : After(j, c)
          BY <4>2, <1>2, <1>7, <1>13, LastComesLast
        <5>2. c # 0 /\ c \in Ids
          BY <5>1, <1>7, ContentAssumption DEF ListingsAssumption
        <5>3. CASE i \in got
          BY <5>1, <5>2, <5>3
        <5>4. CASE i \notin got
          <6>1. listed[i] > 0
            BY <5>4, <3>5, <1>9, <2>2
          <6>2. cursor \in Ids /\ (i = cursor \/ After(i, cursor)) /\ After(cursor, c)
            BY <6>1, <3>1, <3>2, <5>1
          <6>3. After(i, c)
            BY <6>2, <5>2, <1>7 DEF Ordered
          <6> QED
            BY <6>3, <5>1, <5>2
        <5> QED
          BY <5>3, <5>4
      <4> QED
        BY <4>1, <4>2
    <3>6. PICK c : c = cursor'
      OBVIOUS
    <3>7. \A i \in Ids : listed'[i] > 0 => c # 0 /\ (i = c \/ After(i, c)')
      BY <3>5, <3>6, <1>6
    <3> QED
      BY <3>4, <3>6, <3>7, <1>5 DEF MovesOn
  <2> QED
    BY <2>6, <2>7
<1>14. ByCursor'
  BY <1>2, <1>13 DEF ByCursor
<1>15. ASSUME list.by = "offset"
       PROVE  (~added /\ ~removed => Still') /\ (~added => MovesForward')
  <2>1. Skip \in Nat /\ limit \in Nat /\ page * limit = Skip + limit /\ (page' > 0 => Skip' = Skip + limit)
    <3>1. PICK l, n : l = limit /\ n = page
      OBVIOUS
    <3>2. l \in Nat /\ n \in Nat /\ n > 0
      BY <3>1, <1>1, <1>4 DEF ListTypes
    <3>3. (n - 1) * l \in Nat /\ n * l = (n - 1) * l + l /\ ((n + 1) - 1) * l = (n - 1) * l + l
      BY <3>2
    <3> QED
      BY <3>1, <3>2, <3>3, <1>2, <1>5 DEF Skip
  <2>2. VisibleIds \in SUBSET Ids /\ \A i : Rank(i, VisibleIds) \in Nat
    BY RankNat DEF VisibleIds
  <2>3. ASSUME ~added, ~removed
        PROVE  Still'
    <3>1. /\ steady = VisibleIds /\ got = PageByOffset /\ total = Cardinality(VisibleIds)
          /\ \A i \in steady : Rank(i, VisibleIds) < Skip /\ Found(i) => listed[i] > 0
      BY <1>1, <1>2, <1>4, <1>15, <2>3 DEF ByOffset, Still
    <3>2. ASSUME NEW i \in steady, Rank(i, VisibleIds) < Skip + limit, Found(i)
          PROVE  listed'[i] > 0
      <4>1. CASE Rank(i, VisibleIds) < Skip
        BY <4>1, <3>1, <3>2, <2>2, <1>9
      <4>2. CASE Skip <= Rank(i, VisibleIds)
        <5>1. i \in Shown
          BY <4>2, <3>1, <3>2 DEF Shown, PageByOffset, Window
        <5> QED
          BY <5>1, <3>1, <2>2, <1>9
      <4> QED
        BY <4>1, <4>2, <2>1, <2>2
    <3>3. ASSUME page' = -1, list.total = "count", NEW i \in steady, Found(i)
          PROVE  listed'[i] > 0
      <4>1. ~(page * limit < total)
        BY <1>5, <3>3 DEF Further
      <4>2. Rank(i, VisibleIds) < Cardinality(VisibleIds) /\ Cardinality(VisibleIds) \in Nat
        BY <3>1, <2>2, <1>7, RankBound, IdsFinite
      <4>3. Rank(i, VisibleIds) < Skip + limit
        BY <4>1, <4>2, <3>1, <2>1, <2>2
      <4> QED
        BY <4>3, <3>2, <3>3
    <3>4. ASSUME page' > 0, NEW i \in steady, Rank(i, VisibleIds)' < Skip', Found(i)'
          PROVE  listed'[i] > 0
      BY <3>4, <3>1, <3>2, <2>1, <2>2, <1>6
    <3>5. page' > 0 => "items" \in need' /\ "total" \in need' /\ steady' = VisibleIds'
      BY <3>1, <1>2, <1>3, <1>5, <1>6
    <3>6. steady \subseteq Ids
      BY <3>1, <2>2
    <3> QED
      BY <3>3, <3>4, <3>5, <3>6, <1>2, <1>6 DEF Still
  <2>4. ASSUME ~added
        PROVE  MovesForward'
    <3>1. /\ \A i \in Ids : listed[i] <= 1
          /\ \A i \in VisibleIds : listed[i] > 0 => Rank(i, VisibleIds) < Skip
          /\ \A i \in got : listed[i] = 0 /\ (Visible(i) => Rank(i, VisibleIds) < Skip + limit)
      BY <1>1, <1>4, <1>15, <2>4 DEF ByOffset, MovesForward
    <3>2. \A i \in Ids : listed'[i] <= 1
      BY <3>1, <1>7, <1>9
    <3>3. ASSUME NEW i \in VisibleIds, listed'[i] > 0
          PROVE  Rank(i, VisibleIds) < Skip + limit
      <4>1. i \in Ids /\ Visible(i)
        BY DEF VisibleIds
      <4>2. CASE i \in Shown
        BY <4>1, <4>2, <3>1, <1>7
      <4>3. CASE i \notin Shown
        <5>1. Rank(i, VisibleIds) < Skip
          BY <4>1, <4>3, <3>1, <3>3, <1>9
        <5> QED
          BY <5>1, <2>1, <2>2
      <4> QED
        BY <4>2, <4>3
    <3>4. page' > 0 => \A i \in VisibleIds' : listed'[i] > 0 => Rank(i, VisibleIds)' < Skip'
      BY <3>3, <2>1, <1>6
    <3> QED
      BY <3>2, <3>4, <1>5 DEF MovesForward
  <2> QED
    BY <2>3, <2>4
<1>16. ByOffset'
  BY <1>2, <1>15 DEF ByOffset
<1> QED
  BY <1>10, <1>11, <1>12, <1>14, <1>16 DEF ListInv

LEMMA ListNextInv ==
  ASSUME ListInv, [Next]_vars
  PROVE  ListInv'
<1>1. CASE Start
  BY <1>1, StartInv
<1>2. CASE Items
  BY <1>2, ItemsInv
<1>3. CASE Total
  BY <1>3, TotalInv
<1>4. CASE Answer
  BY <1>4, AnswerInv
<1>5. CASE page >= 0 /\ \E i \in Ids : Create(i) \/ Drop(i) \/ Show(i)
  <2>1. PICK i \in Ids : Create(i) \/ Drop(i) \/ Show(i)
    BY <1>5
  <2> QED
    BY <1>5, <2>1, ChangeInv
<1>6. CASE UNCHANGED vars
  <2>1. UNCHANGED <<list, limit, newest, row, need, page, cursor, got, total,
                    listed, steady, added, removed, restarted>>
    BY <1>6 DEF vars
  <2>2. /\ VisibleIds' = VisibleIds
        /\ \A i \in Ids : (Visible(i)' <=> Visible(i)) /\ (Found(i)' <=> Found(i))
        /\ \A i, j : After(i, j)' <=> After(i, j)
        /\ \A i : Rank(i, VisibleIds)' = Rank(i, VisibleIds)
    BY <2>1, RowsAlike
  <2>3. Skip' = Skip /\ PageByOffset' = PageByOffset
    BY <2>1, <2>2 DEF Skip, PageByOffset, Window, Rank
  <2>4. \A i : Behind(i)' <=> Behind(i)
    BY <2>1, <2>2 DEF Behind, Lost
  <2>5. ListTypes' /\ Unwalked' /\ ThereWhenRead'
    BY <2>1, <2>2 DEF ListInv, ListTypes, Unwalked, ThereWhenRead
  <2>6. Covers' <=> Covers
    BY <2>1, <2>2, <2>4 DEF Covers, Read, MorePages
  <2>7. MovesOn' <=> MovesOn
    BY <2>1, <2>2 DEF MovesOn, Read
  <2>8. Still => Still'
    <3>1. SUFFICES ASSUME Still
                   PROVE  Still'
      OBVIOUS
    <3>2. steady \subseteq Ids
      BY DEF ListInv, ListTypes, VisibleIds
    <3> QED
      BY <2>1, <2>2, <2>3, <3>1, <3>2 DEF Still
  <2>9. MovesForward => MovesForward'
    <3>1. SUFFICES ASSUME MovesForward
                   PROVE  MovesForward'
      OBVIOUS
    <3>2. got \subseteq Ids
      BY DEF ListInv, ListTypes
    <3> QED
      BY <2>1, <2>2, <2>3, <3>1, <3>2 DEF MovesForward, Read
  <2>10. ByCursor'
    BY <2>1, <2>6, <2>7 DEF ListInv, ByCursor
  <2>11. ByOffset'
    BY <2>1, <2>8, <2>9 DEF ListInv, ByOffset
  <2> QED
    BY <2>5, <2>10, <2>11 DEF ListInv
<1> QED
  BY <1>1, <1>2, <1>3, <1>4, <1>5, <1>6 DEF Next

LEMMA AllShown ==
  ASSUME ListInv
  PROVE  WalkShowsAll
<1>1. SUFFICES ASSUME Done, list.total # "page", list.by = "offset" => ~added /\ ~removed,
                      NEW i \in steady, Found(i)
               PROVE  listed[i] > 0
  BY DEF WalkShowsAll
<1>2. page = -1 /\ list \in Lists
  BY <1>1 DEF Done, ListInv, ListTypes
<1>3. CASE list.by = "cursor"
  BY <1>2, <1>3 DEF ListInv, ByCursor, Covers
<1>4. CASE list.by = "offset"
  <2>1. list.total = "count"
    BY <1>1, <1>2, <1>4, KindsOfLists
  <2>2. Still
    BY <1>1, <1>4 DEF ListInv, ByOffset
  <2> QED
    BY <1>1, <1>2, <2>1, <2>2 DEF Still
<1> QED
  BY <1>2, <1>3, <1>4, KindsOfLists

LEMMA NothingTwiceShown ==
  ASSUME ListInv
  PROVE  NothingShownTwice
<1>1. list \in Lists
  BY DEF ListInv, ListTypes
<1>2. CASE list.by = "cursor"
  <2>1. list.by # "offset"
    BY <1>2
  <2> QED
    BY <1>2, <2>1 DEF ListInv, ByCursor, MovesOn, NothingShownTwice
<1>3. CASE list.by = "offset"
  BY <1>3 DEF ListInv, ByOffset, MovesForward, NothingShownTwice
<1> QED
  BY <1>1, <1>2, <1>3, KindsOfLists

(* Whichever list is walked, with pages of whatever size, and however its   *)
(* rows come, go and change their status meanwhile: a walk by cursor that   *)
(* ends has shown every row that was visible from its start to its end, and *)
(* one by offset has if no row came or went; only the two lists whose total *)
(* is of the page are left out (ads-manager.service.ts:396, :250,           *)
(* community.service.ts:369, members-directory.service.ts:331,              *)
(* pro-user.service.ts:169).                                                *)
THEOREM WalksShowAll == MCSpec => []WalkShowsAll
<1>1. MCInit => ListInv
  BY ListInit DEF MCInit
<1>2. ListInv /\ [MCNext]_allVars => ListInv'
  BY StepsOfParts, ListNextInv
<1>3. ListInv => WalkShowsAll
  BY AllShown
<1> QED
  BY <1>1, <1>2, <1>3, PTL DEF MCSpec

(* No row is shown twice in such a walk: by cursor unless the posts of a    *)
(* church began anew because the cursor's post had been deleted, by offset  *)
(* if no row came meanwhile (community.service.ts:369,                      *)
(* ads-manager.service.ts:396).                                             *)
THEOREM WalksShowNothingTwice == MCSpec => []NothingShownTwice
<1>1. MCInit => ListInv
  BY ListInit DEF MCInit
<1>2. ListInv /\ [MCNext]_allVars => ListInv'
  BY StepsOfParts, ListNextInv
<1>3. ListInv => NothingShownTwice
  BY NothingTwiceShown
<1> QED
  BY <1>1, <1>2, <1>3, PTL DEF MCSpec
=============================================================================
