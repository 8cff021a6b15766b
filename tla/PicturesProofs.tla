--------------------------- MODULE PicturesProofs ---------------------------
(***************************************************************************)
(* Proofs about rows with pictures: ads, community posts, and with the     *)
(* reviews of FeedbackProofs the theorem that the rows and the store agree *)
(* when no request is under way.  Last, the counts of the ads, and with    *)
(* them the types of all parts.                                            *)
(***************************************************************************)
EXTENDS FeedbackProofs

-----------------------------------------------------------------------------
(***************************************************************************)
(* Ads.  A thumbnail belongs to one ad, or to one request that brings it;  *)
(* a request that deletes one deletes its own ad's.                        *)
(***************************************************************************)
AdRows == [state : {"new", "live", "deleted"}, status : Ad!Status, from : Nat, until : Nat, thumb : Nat]

AdGiven == Ad!Status \cup {""}
AdInserts == [op : {"insert"}, ad : AdIds, status : Ad!Status, from : Nat, until : Nat, file : Nat]
AdUpdates == [op : {"drop", "put", "judge"}, ad : AdIds, status : AdGiven,
              from : Nat, until : Nat, old : Nat, file : Nat]
AdRemovals == [op : {"unlink", "delete"}, ad : AdIds, old : Nat]
AdViews == [op : {"count", "daily"}, ad : AdIds, kind : Ad!Kinds]
AdRequest == {Ad!Idle} \cup AdInserts \cup AdUpdates \cup AdRemovals \cup AdViews

AdTypes ==
  /\ aAd \in [AdIds -> AdRows] /\ aFiles \subseteq Nat /\ aCalls \in Nat
  /\ aReq \in [Reqs -> AdRequest]

Bringing(p) == aReq[p].op \in {"insert", "drop", "put", "judge"}
Dropping(p) == aReq[p].op \in {"drop", "unlink"}

ThumbsNumbered ==
  /\ \A a \in AdIds : aAd[a].thumb <= aCalls
  /\ \A p \in Reqs : Bringing(p) => aReq[p].file <= aCalls
  /\ \A p \in Reqs : Dropping(p) => aReq[p].old <= aCalls

ThumbsOwned ==
  /\ \A a, b \in AdIds : aAd[a].thumb = aAd[b].thumb /\ aAd[a].thumb # 0 => a = b
  /\ \A p, q \in Reqs : Bringing(p) /\ Bringing(q) /\ aReq[p].file = aReq[q].file /\ aReq[p].file # 0 => p = q
  /\ \A p \in Reqs, a \in AdIds : Bringing(p) /\ aReq[p].file # 0 => aAd[a].thumb # aReq[p].file
  /\ \A p, q \in Reqs : Bringing(p) /\ Dropping(q) /\ aReq[p].file # 0 => aReq[q].old # aReq[p].file
  /\ \A q \in Reqs, a \in AdIds : Dropping(q) /\ aReq[q].old # 0 /\ aAd[a].thumb = aReq[q].old => a = aReq[q].ad

(* A file is stored before the row that names it is written; only a request *)
(* that brings a file deletes one.                                          *)
ThumbsBrought ==
  \A p \in Reqs :
    /\ aReq[p].op \in {"insert", "judge"} /\ aReq[p].file # 0 => aReq[p].file \in aFiles
    /\ aReq[p].op \in {"drop", "put"} => aReq[p].file # 0

AdInv == AdTypes /\ ThumbsNumbered /\ ThumbsOwned /\ ThumbsBrought /\ Ad!ThumbnailKept

LEMMA AdInit ==
  ASSUME MCInit
  PROVE  AdInv
<1>1. \A a \in AdIds : aAd[a] \in AdRows /\ aAd[a].thumb = 0
  <2>1. Ad!NoAd \in AdRows /\ Ad!NoAd.thumb = 0
    BY DEF Ad!NoAd, AdRows, Ad!Status
  <2>2. PICK live : live = [Ad!NoAd EXCEPT !.state = "live"]
    OBVIOUS
  <2>3. live \in AdRows /\ live.thumb = 0
    BY <2>1, <2>2 DEF AdRows
  <2>4. \A a \in AdIds : aAd[a] = live \/ aAd[a] = Ad!NoAd
    BY <2>2 DEF MCInit
  <2> QED
    BY <2>1, <2>3, <2>4
<1>2. aFiles = {} /\ aCalls = 0 /\ aReq = [p \in Reqs |-> Ad!Idle]
  BY DEF MCInit, Ad!Uncounted
<1>3. \A p \in Reqs : aReq[p].op = "none"
  BY <1>2 DEF Ad!Idle
<1>4. \A p \in Reqs : ~Bringing(p) /\ ~Dropping(p)
  BY <1>3 DEF Bringing, Dropping
<1>5. AdTypes
  <2>1. aAd = [a \in AdIds |-> aAd[a]]
    BY DEF MCInit
  <2>2. Ad!Idle \in AdRequest
    BY DEF AdRequest
  <2> QED
    BY <1>1, <1>2, <2>1, <2>2 DEF AdTypes
<1>6. ThumbsNumbered /\ ThumbsOwned /\ ThumbsBrought
  BY <1>1, <1>2, <1>3, <1>4 DEF ThumbsNumbered, ThumbsOwned, ThumbsBrought
<1>7. Ad!ThumbnailKept
  BY <1>1 DEF Ad!ThumbnailKept
<1> QED
  BY <1>5, <1>6, <1>7 DEF AdInv

LEMMA AdKinds ==
  ASSUME AdTypes, NEW p \in Reqs
  PROVE  /\ aReq[p].op = "insert" => aReq[p] \in AdInserts
         /\ aReq[p].op \in {"drop", "put", "judge"} => aReq[p] \in AdUpdates
         /\ aReq[p].op \in {"unlink", "delete"} => aReq[p] \in AdRemovals
         /\ aReq[p].op \in {"count", "daily"} => aReq[p] \in AdViews
<1> DEFINE r == aReq[p]
<1>1. r = Ad!Idle \/ r \in AdInserts \/ r \in AdUpdates \/ r \in AdRemovals \/ r \in AdViews
  BY DEF AdTypes, AdRequest
<1>2. r = Ad!Idle => r.op = "none"
  BY DEF Ad!Idle
<1>3. r \in AdInserts => r.op = "insert"
  BY DEF AdInserts
<1>4. r \in AdUpdates => r.op \in {"drop", "put", "judge"}
  BY DEF AdUpdates
<1>5. r \in AdRemovals => r.op \in {"unlink", "delete"}
  BY DEF AdRemovals
<1>6. r \in AdViews => r.op \in {"count", "daily"}
  BY DEF AdViews
<1> QED
  BY <1>1, <1>2, <1>3, <1>4, <1>5, <1>6

LEMMA AdFields ==
  ASSUME AdTypes, NEW p \in Reqs
  PROVE  /\ Bringing(p) => aReq[p].file \in Nat
         /\ Dropping(p) => aReq[p].old \in Nat
<1>1. aReq[p] \in AdInserts \cup AdUpdates => aReq[p].file \in Nat
  BY DEF AdInserts, AdUpdates
<1>2. aReq[p] \in AdRemovals \cup AdUpdates => aReq[p].old \in Nat
  BY DEF AdRemovals, AdUpdates
<1> QED
  BY <1>1, <1>2, AdKinds DEF Bringing, Dropping

LEMMA AdBecomes ==
  ASSUME AdTypes, NEW p \in Reqs, NEW r \in AdRequest, aReq' = [aReq EXCEPT ![p] = r]
  PROVE  /\ \A q \in Reqs : q # p => aReq'[q] = aReq[q]
         /\ aReq'[p] = r /\ aReq' \in [Reqs -> AdRequest]
BY DEF AdTypes

(* What a request goes on with, it had before.                              *)
LEMMA ThumbsStay ==
  ASSUME AdTypes, ThumbsNumbered, ThumbsOwned, AdTypes', aCalls' >= aCalls,
         \A a \in AdIds : aAd'[a].thumb = aAd[a].thumb,
         \A p \in Reqs : Bringing(p)' => Bringing(p) /\ aReq'[p].file = aReq[p].file,
         \A p \in Reqs : Dropping(p)' => Dropping(p) /\ aReq'[p].old = aReq[p].old /\ aReq'[p].ad = aReq[p].ad
  PROVE  ThumbsNumbered' /\ ThumbsOwned'
<1>1. \A a \in AdIds : aAd[a].thumb \in Nat
  BY DEF AdTypes, AdRows
<1>2. aCalls \in Nat /\ aCalls' \in Nat
  BY DEF AdTypes
<1>3. ThumbsNumbered'
  BY <1>1, <1>2, AdFields DEF ThumbsNumbered
<1>4. ThumbsOwned'
  BY DEF ThumbsOwned
<1> QED
  BY <1>3, <1>4

(* The ad of a request gets the picture it brought, or none.                *)
LEMMA ThumbWritten ==
  ASSUME AdTypes, ThumbsNumbered, ThumbsOwned, AdTypes', aCalls' = aCalls,
         NEW p \in Reqs, NEW ad \in AdIds, Bringing(p), ~Bringing(p)', ~Dropping(p)',
         \A q \in Reqs : q # p => aReq'[q] = aReq[q],
         \A a \in AdIds : a # ad => aAd'[a] = aAd[a],
         aAd'[ad].thumb = aReq[p].file \/ aAd'[ad].thumb = aAd[ad].thumb \/ aAd'[ad].thumb = 0
  PROVE  ThumbsNumbered' /\ ThumbsOwned'
<1>1. \A a \in AdIds : aAd[a].thumb \in Nat /\ aAd'[a].thumb \in Nat
  BY DEF AdTypes, AdRows
<1>2. aCalls \in Nat /\ aReq[p].file \in Nat
  BY AdFields DEF AdTypes
<1>3. \A q \in Reqs : (Bringing(q)' => q # p /\ Bringing(q)) /\ (Dropping(q)' => q # p /\ Dropping(q))
  BY DEF Bringing, Dropping
<1>4. \A a \in AdIds : aAd'[a].thumb <= aCalls'
  BY <1>1, <1>2 DEF ThumbsNumbered
<1>5. ThumbsNumbered'
  BY <1>3, <1>4 DEF ThumbsNumbered
<1>6. \A a, b \in AdIds : aAd'[a].thumb = aAd'[b].thumb /\ aAd'[a].thumb # 0 => a = b
  BY <1>1, <1>2 DEF ThumbsOwned
<1>7. \A q, s \in Reqs : Bringing(q)' /\ Bringing(s)' /\ aReq'[q].file = aReq'[s].file /\ aReq'[q].file # 0 => q = s
  BY <1>3 DEF ThumbsOwned
<1>8. \A q \in Reqs, a \in AdIds : Bringing(q)' /\ aReq'[q].file # 0 => aAd'[a].thumb # aReq'[q].file
  BY <1>3 DEF ThumbsOwned
<1>9. \A q, s \in Reqs : Bringing(q)' /\ Dropping(s)' /\ aReq'[q].file # 0 => aReq'[s].old # aReq'[q].file
  BY <1>3 DEF ThumbsOwned
<1>10. \A q \in Reqs, a \in AdIds :
          Dropping(q)' /\ aReq'[q].old # 0 /\ aAd'[a].thumb = aReq'[q].old => a = aReq'[q].ad
  BY <1>3 DEF ThumbsOwned
<1>11. ThumbsOwned'
  BY <1>6, <1>7, <1>8, <1>9, <1>10 DEF ThumbsOwned
<1> QED
  BY <1>5, <1>11

(* A request that arrives may bring a picture of its own.                   *)
LEMMA ThumbArrives ==
  ASSUME AdTypes, ThumbsNumbered, ThumbsOwned, AdTypes', aCalls' = aCalls + 1,
         NEW p \in Reqs, aAd' = aAd,
         \A q \in Reqs : q # p => aReq'[q] = aReq[q],
         Bringing(p)' => aReq'[p].file = 0 \/ aReq'[p].file = aCalls + 1,
         Dropping(p)' => aReq'[p].ad \in AdIds /\ aReq'[p].old = aAd[aReq'[p].ad].thumb
  PROVE  ThumbsNumbered' /\ ThumbsOwned'
<1>1. \A a \in AdIds : aAd[a].thumb \in Nat /\ aAd[a].thumb <= aCalls
  BY DEF AdTypes, AdRows, ThumbsNumbered
<1>2. aCalls \in Nat
  BY DEF AdTypes
<1>3. \A q \in Reqs : q # p => (Bringing(q)' <=> Bringing(q)) /\ (Dropping(q)' <=> Dropping(q))
  BY DEF Bringing, Dropping
<1>4. \A q \in Reqs : Bringing(q)' => aReq'[q].file \in Nat /\ aReq'[q].file <= aCalls + 1
                                     /\ (q # p => aReq'[q].file <= aCalls)
  BY <1>2, <1>3, AdFields DEF ThumbsNumbered
<1>5. \A q \in Reqs : Dropping(q)' => aReq'[q].old \in Nat /\ aReq'[q].old <= aCalls
  BY <1>1, <1>3, AdFields DEF ThumbsNumbered
<1>6. ThumbsNumbered'
  BY <1>1, <1>2, <1>4, <1>5 DEF ThumbsNumbered
<1>7. \A a, b \in AdIds : aAd'[a].thumb = aAd'[b].thumb /\ aAd'[a].thumb # 0 => a = b
  BY DEF ThumbsOwned
<1>8. \A q, s \in Reqs : Bringing(q)' /\ Bringing(s)' /\ aReq'[q].file = aReq'[s].file /\ aReq'[q].file # 0 => q = s
  BY <1>2, <1>3, <1>4 DEF ThumbsOwned
<1>9. \A q \in Reqs, a \in AdIds : Bringing(q)' /\ aReq'[q].file # 0 => aAd'[a].thumb # aReq'[q].file
  BY <1>1, <1>2, <1>3 DEF ThumbsOwned
<1>10. \A q, s \in Reqs : Bringing(q)' /\ Dropping(s)' /\ aReq'[q].file # 0 => aReq'[s].old # aReq'[q].file
  <2> SUFFICES ASSUME NEW q \in Reqs, NEW s \in Reqs, Bringing(q)', Dropping(s)', aReq'[q].file # 0
               PROVE  aReq'[s].old # aReq'[q].file
    OBVIOUS
  <2>1. CASE q = p
    BY <2>1, <1>2, <1>5
  <2>2. CASE q # p /\ s # p
    BY <2>2, <1>3 DEF ThumbsOwned
  <2>3. CASE q # p /\ s = p
    BY <2>3, <1>3 DEF ThumbsOwned
  <2> QED
    BY <2>1, <2>2, <2>3
<1>11. \A q \in Reqs, a \in AdIds :
          Dropping(q)' /\ aReq'[q].old # 0 /\ aAd'[a].thumb = aReq'[q].old => a = aReq'[q].ad
  BY <1>3 DEF ThumbsOwned
<1>12. ThumbsOwned'
  BY <1>7, <1>8, <1>9, <1>10, <1>11 DEF ThumbsOwned
<1> QED
  BY <1>6, <1>12

(* What stays of an ad's trouble when its row is as it was.                 *)
LEMMA TroubleStays ==
  ASSUME Ad!ThumbnailKept, aSpoiled \subseteq aSpoiled',
         \A a \in AdIds : Ad!Live(a)' => Ad!Live(a) /\ aAd'[a].thumb = aAd[a].thumb
                          /\ (aAd[a].thumb \in aFiles => aAd[a].thumb \in aFiles'),
         \A p \in Reqs, a \in AdIds : Ad!Unsaved(aReq[p]) /\ aReq[p].ad = a =>
            \/ Ad!Unsaved(aReq'[p]) /\ aReq'[p].ad = a
            \/ a \in aSpoiled' \/ ~Ad!Live(a)'
  PROVE  Ad!ThumbnailKept'
<1> SUFFICES ASSUME NEW a \in AdIds, Ad!Live(a)', aAd'[a].thumb > 0, aAd'[a].thumb \notin aFiles', a \notin aSpoiled'
             PROVE  \E p \in Reqs : Ad!Unsaved(aReq'[p]) /\ aReq'[p].ad = a
  BY DEF Ad!ThumbnailKept, Ad!AtWork
<1>1. Ad!Live(a) /\ aAd[a].thumb > 0 /\ aAd[a].thumb \notin aFiles
  OBVIOUS
<1>2. PICK p \in Reqs : Ad!Unsaved(aReq[p]) /\ aReq[p].ad = a
  BY <1>1 DEF Ad!ThumbnailKept, Ad!AtWork
<1> QED
  BY <1>2

LEMMA CreateInv ==
  ASSUME AdInv, NEW p \in Reqs, NEW a \in AdIds, Ad!Create(p, a)
  PROVE  AdInv'
<1>1. AdTypes /\ ThumbsNumbered /\ ThumbsOwned /\ ThumbsBrought /\ Ad!ThumbnailKept
  BY DEF AdInv
<1>2. PICK s \in Ad!Status, d \in AdDates, e \in AdDates, file \in BOOLEAN :
        /\ Ad!Arrive(p, [op |-> "insert", ad |-> a, status |-> s, from |-> d, until |-> e,
                         file |-> IF file THEN aCalls + 1 ELSE 0])
        /\ aFiles' = IF file THEN aFiles \cup {aCalls + 1} ELSE aFiles
  BY DEF Ad!Create
<1> DEFINE f == IF file THEN aCalls + 1 ELSE 0
           r == [op |-> "insert", ad |-> a, status |-> s, from |-> d, until |-> e, file |-> f]
<1>3. aCalls \in Nat /\ f \in Nat /\ (f = 0 \/ (f = aCalls + 1 /\ f \in aFiles')) /\ aFiles \subseteq aFiles' /\ aFiles' \subseteq Nat
  BY <1>1, <1>2 DEF AdTypes
<1>4. r \in AdRequest
  BY <1>3, ContentAssumption DEF AdRequest, AdInserts, Ad!AdsAssumption
<1>5. r.op = "insert" /\ r.file = f
  OBVIOUS
<1>6. aReq[p] = Ad!Idle /\ aCalls' = aCalls + 1 /\ aReq' = [aReq EXCEPT ![p] = r]
  BY <1>2 DEF Ad!Arrive
<1>7. aAd' = aAd /\ aSpoiled' = aSpoiled
  BY DEF Ad!Create
<1> HIDE DEF r, f
<1>8. (\A q \in Reqs : q # p => aReq'[q] = aReq[q]) /\ aReq'[p] = r /\ aReq' \in [Reqs -> AdRequest]
  BY <1>1, <1>4, <1>6, AdBecomes
<1>9. AdTypes'
  BY <1>1, <1>3, <1>6, <1>7, <1>8 DEF AdTypes
<1>10. ~Dropping(p)' /\ (aReq'[p].file = 0 \/ aReq'[p].file = aCalls + 1)
  BY <1>3, <1>5, <1>8 DEF Dropping
<1>11. ThumbsNumbered' /\ ThumbsOwned'
  BY <1>1, <1>6, <1>7, <1>8, <1>9, <1>10, ThumbArrives
<1>12. ThumbsBrought'
  BY <1>1, <1>3, <1>5, <1>8 DEF ThumbsBrought
<1>13. ~Ad!Unsaved(aReq[p])
  BY <1>6 DEF Ad!Unsaved, Ad!Idle
<1>14. Ad!ThumbnailKept'
  <2>1. \A q \in Reqs : Ad!Unsaved(aReq[q]) => Ad!Unsaved(aReq'[q]) /\ aReq'[q].ad = aReq[q].ad
    BY <1>8, <1>13
  <2> QED
    BY <2>1, <1>1, <1>3, <1>7 DEF Ad!ThumbnailKept, Ad!AtWork, Ad!Live
<1> QED
  BY <1>9, <1>11, <1>12, <1>14 DEF AdInv

LEMMA UpdateCheckInv ==
  ASSUME AdInv, NEW p \in Reqs, NEW a \in AdIds, Ad!UpdateCheck(p, a)
  PROVE  AdInv'
<1>1. AdTypes /\ ThumbsNumbered /\ ThumbsOwned /\ ThumbsBrought /\ Ad!ThumbnailKept
  BY DEF AdInv
<1>2. PICK s \in AdGiven, d \in AdDates \cup {0}, e \in AdDates \cup {0}, file \in BOOLEAN :
        Ad!Arrive(p, [op |-> IF file THEN "drop" ELSE "judge", ad |-> a, status |-> s,
                      from |-> d, until |-> e, old |-> aAd[a].thumb,
                      file |-> IF file THEN aCalls + 1 ELSE 0])
  BY Zenon DEF Ad!UpdateCheck, AdGiven
<1> DEFINE f == IF file THEN aCalls + 1 ELSE 0
           o == IF file THEN "drop" ELSE "judge"
           r == [op |-> o, ad |-> a, status |-> s, from |-> d, until |-> e, old |-> aAd[a].thumb, file |-> f]
<1>3. aCalls \in Nat /\ f \in Nat /\ ((o = "judge" /\ f = 0) \/ (o = "drop" /\ f = aCalls + 1 /\ f # 0))
  BY <1>1 DEF AdTypes
<1>4. aAd[a].thumb \in Nat
  BY <1>1 DEF AdTypes, AdRows
<1>5. r \in AdRequest
  BY <1>3, <1>4, ContentAssumption DEF AdRequest, AdUpdates, Ad!AdsAssumption
<1>6. r.op = o /\ r.file = f /\ r.old = aAd[a].thumb /\ r.ad = a
  OBVIOUS
<1>7. aReq[p] = Ad!Idle /\ aCalls' = aCalls + 1 /\ aReq' = [aReq EXCEPT ![p] = r]
  BY <1>2 DEF Ad!Arrive
<1>8. aAd' = aAd /\ aSpoiled' = aSpoiled /\ aFiles' = aFiles
  BY DEF Ad!UpdateCheck, Ad!NoAdChange
<1> HIDE DEF r, f, o
<1>9. (\A q \in Reqs : q # p => aReq'[q] = aReq[q]) /\ aReq'[p] = r /\ aReq' \in [Reqs -> AdRequest]
  BY <1>1, <1>5, <1>7, AdBecomes
<1>10. AdTypes'
  BY <1>1, <1>3, <1>7, <1>8, <1>9 DEF AdTypes
<1>11. /\ aReq'[p].file = 0 \/ aReq'[p].file = aCalls + 1
       /\ aReq'[p].ad \in AdIds /\ aReq'[p].old = aAd[aReq'[p].ad].thumb
  BY <1>3, <1>6, <1>9
<1>12. ThumbsNumbered' /\ ThumbsOwned'
  BY <1>1, <1>7, <1>8, <1>9, <1>10, <1>11, ThumbArrives
<1>13. ThumbsBrought'
  BY <1>1, <1>3, <1>6, <1>8, <1>9 DEF ThumbsBrought
<1>14. ~Ad!Unsaved(aReq[p])
  BY <1>7 DEF Ad!Unsaved, Ad!Idle
<1>15. Ad!ThumbnailKept'
  <2>1. \A q \in Reqs : Ad!Unsaved(aReq[q]) => Ad!Unsaved(aReq'[q]) /\ aReq'[q].ad = aReq[q].ad
    BY <1>9, <1>14
  <2> QED
    BY <2>1, <1>1, <1>8 DEF Ad!ThumbnailKept, Ad!AtWork, Ad!Live
<1> QED
  BY <1>10, <1>12, <1>13, <1>15 DEF AdInv

LEMMA RemoveCheckInv ==
  ASSUME AdInv, NEW p \in Reqs, NEW a \in AdIds, Ad!RemoveCheck(p, a)
  PROVE  AdInv'
<1>1. AdTypes /\ ThumbsNumbered /\ ThumbsOwned /\ ThumbsBrought /\ Ad!ThumbnailKept
  BY DEF AdInv
<1> DEFINE r == [op |-> "unlink", ad |-> a, old |-> aAd[a].thumb]
<1>2. r \in AdRequest
  BY <1>1 DEF AdRequest, AdRemovals, AdTypes, AdRows
<1>3. r.op = "unlink" /\ r.old = aAd[a].thumb /\ r.ad = a
  OBVIOUS
<1>4. aReq[p] = Ad!Idle /\ aCalls' = aCalls + 1 /\ aReq' = [aReq EXCEPT ![p] = r]
  BY DEF Ad!RemoveCheck, Ad!Arrive
<1>5. aAd' = aAd /\ aSpoiled' = aSpoiled /\ aFiles' = aFiles
  BY DEF Ad!RemoveCheck, Ad!NoAdChange
<1> HIDE DEF r
<1>6. (\A q \in Reqs : q # p => aReq'[q] = aReq[q]) /\ aReq'[p] = r /\ aReq' \in [Reqs -> AdRequest]
  BY <1>1, <1>2, <1>4, AdBecomes
<1>7. AdTypes'
  BY <1>1, <1>4, <1>5, <1>6 DEF AdTypes
<1>8. ~Bringing(p)' /\ aReq'[p].ad \in AdIds /\ aReq'[p].old = aAd[aReq'[p].ad].thumb
  BY <1>3, <1>6 DEF Bringing
<1>9. ThumbsNumbered' /\ ThumbsOwned'
  BY <1>1, <1>4, <1>5, <1>6, <1>7, <1>8, ThumbArrives
<1>10. ThumbsBrought'
  BY <1>1, <1>3, <1>5, <1>6 DEF ThumbsBrought
<1>11. ~Ad!Unsaved(aReq[p])
  BY <1>4 DEF Ad!Unsaved, Ad!Idle
<1>12. Ad!ThumbnailKept'
  <2>1. \A q \in Reqs : Ad!Unsaved(aReq[q]) => Ad!Unsaved(aReq'[q]) /\ aReq'[q].ad = aReq[q].ad
    BY <1>6, <1>11
  <2> QED
    BY <2>1, <1>1, <1>5 DEF Ad!ThumbnailKept, Ad!AtWork, Ad!Live
<1> QED
  BY <1>7, <1>9, <1>10, <1>12 DEF AdInv

LEMMA AdInsertInv ==
  ASSUME AdInv, NEW p \in Reqs, Ad!Insert(p)
  PROVE  AdInv'
<1>1. AdTypes /\ ThumbsNumbered /\ ThumbsOwned /\ ThumbsBrought /\ Ad!ThumbnailKept
  BY DEF AdInv
<1>2. aReq[p].op = "insert" /\ aReq[p] \in AdInserts /\ Bringing(p)
  BY <1>1, AdKinds DEF Ad!Insert, Bringing
<1>3. PICK a \in AdIds : a = aReq[p].ad
  BY <1>2 DEF AdInserts
<1> DEFINE entry == [state |-> "live", status |-> aReq[p].status, from |-> aReq[p].from,
                   until |-> aReq[p].until, thumb |-> aReq[p].file]
<1>4. entry \in AdRows /\ entry.thumb = aReq[p].file
  BY <1>2 DEF AdInserts, AdRows
<1>5. /\ aAd' = [aAd EXCEPT ![a] = entry] /\ aReq' = [aReq EXCEPT ![p] = Ad!Idle]
      /\ aCalls' = aCalls /\ aFiles' = aFiles /\ aSpoiled' = aSpoiled
  BY <1>3 DEF Ad!Insert, Ad!Ends
<1> HIDE DEF entry
<1>6. Ad!Idle \in AdRequest
  BY DEF AdRequest
<1>7. (\A q \in Reqs : q # p => aReq'[q] = aReq[q]) /\ aReq'[p] = Ad!Idle /\ aReq' \in [Reqs -> AdRequest]
  BY <1>1, <1>5, <1>6, AdBecomes
<1>8. aAd'[a].thumb = aReq[p].file /\ (\A b \in AdIds : b # a => aAd'[b] = aAd[b]) /\ aAd' \in [AdIds -> AdRows]
  BY <1>1, <1>4, <1>5 DEF AdTypes
<1>9. AdTypes'
  BY <1>1, <1>5, <1>7, <1>8 DEF AdTypes
<1>10. aReq'[p].op = "none" /\ ~Bringing(p)' /\ ~Dropping(p)'
  BY <1>7 DEF Ad!Idle, Bringing, Dropping
<1>11. ThumbsNumbered' /\ ThumbsOwned'
  BY <1>1, <1>2, <1>5, <1>7, <1>8, <1>9, <1>10, ThumbWritten
<1>12. ThumbsBrought'
  BY <1>1, <1>5, <1>7, <1>10 DEF ThumbsBrought
<1>13. Ad!ThumbnailKept'
  <2> SUFFICES ASSUME NEW b \in AdIds, Ad!Live(b)', aAd'[b].thumb > 0, aAd'[b].thumb \notin aFiles', b \notin aSpoiled'
               PROVE  \E q \in Reqs : Ad!Unsaved(aReq'[q]) /\ aReq'[q].ad = b
    BY DEF Ad!ThumbnailKept, Ad!AtWork
  <2>1. b # a
    <3>1. aAd'[a].thumb > 0 => aAd'[a].thumb \in aFiles
      BY <1>1, <1>2, <1>8 DEF ThumbsBrought
    <3> QED
      BY <3>1, <1>5
  <2>2. Ad!Live(b) /\ aAd[b].thumb > 0 /\ aAd[b].thumb \notin aFiles /\ b \notin aSpoiled
    BY <2>1, <1>5, <1>8 DEF Ad!Live
  <2>3. PICK q \in Reqs : Ad!Unsaved(aReq[q]) /\ aReq[q].ad = b
    BY <2>2, <1>1 DEF Ad!ThumbnailKept, Ad!AtWork
  <2>4. q # p
    BY <2>3, <1>2 DEF Ad!Unsaved
  <2> QED
    BY <2>3, <2>4, <1>7
<1> QED
  BY <1>9, <1>11, <1>12, <1>13 DEF AdInv

(* The thumbnail of an ad is deleted on behalf of a request of that ad,     *)
(* which is at work on it from then on.                                     *)
LEMMA ThumbDropped ==
  ASSUME AdTypes, ThumbsNumbered, ThumbsOwned, ThumbsBrought, Ad!ThumbnailKept,
         NEW p \in Reqs, Dropping(p), NEW r \in AdRequest, aReq' = [aReq EXCEPT ![p] = r],
         r.op \in {"put", "delete"}, r.ad = aReq[p].ad,
         r.op = "put" => Bringing(p) /\ r.file = aReq[p].file /\ r.file # 0,
         aAd' = aAd, aSpoiled' = aSpoiled, aCalls' = aCalls, aFiles' = aFiles \ {aReq[p].old}
  PROVE  AdInv'
<1>1. (\A q \in Reqs : q # p => aReq'[q] = aReq[q]) /\ aReq'[p] = r /\ aReq' \in [Reqs -> AdRequest]
  BY AdBecomes
<1>2. AdTypes'
  BY <1>1 DEF AdTypes
<1>3. \A q \in Reqs : Bringing(q)' => Bringing(q) /\ aReq'[q].file = aReq[q].file
  BY <1>1 DEF Bringing
<1>4. \A q \in Reqs : Dropping(q)' => Dropping(q) /\ aReq'[q].old = aReq[q].old /\ aReq'[q].ad = aReq[q].ad
  BY <1>1 DEF Dropping
<1>5. aCalls' >= aCalls
  BY DEF AdTypes
<1>6. \A a \in AdIds : aAd'[a].thumb = aAd[a].thumb
  OBVIOUS
<1>7. ThumbsNumbered' /\ ThumbsOwned'
  BY <1>2, <1>3, <1>4, <1>5, <1>6, ThumbsStay
<1>8. ThumbsBrought'
  <2>1. \A q \in Reqs : aReq'[q].op \in {"insert", "judge"} /\ aReq'[q].file # 0 => aReq'[q].file \in aFiles'
    <3> SUFFICES ASSUME NEW q \in Reqs, aReq'[q].op \in {"insert", "judge"}, aReq'[q].file # 0
                 PROVE  aReq'[q].file \in aFiles'
      OBVIOUS
    <3>1. q # p
      BY <1>1
    <3>2. Bringing(q) /\ aReq[q].file # 0 /\ aReq[q].file \in aFiles
      BY <1>1, <3>1 DEF Bringing, ThumbsBrought
    <3>3. aReq[p].old # aReq[q].file
      BY <3>2 DEF ThumbsOwned
    <3> QED
      BY <3>1, <3>2, <3>3, <1>1
  <2>2. \A q \in Reqs : aReq'[q].op \in {"drop", "put"} => aReq'[q].file # 0
    BY <1>1 DEF ThumbsBrought
  <2> QED
    BY <2>1, <2>2 DEF ThumbsBrought
<1>9. Ad!ThumbnailKept'
  <2> SUFFICES ASSUME NEW b \in AdIds, Ad!Live(b)', aAd'[b].thumb > 0, aAd'[b].thumb \notin aFiles', b \notin aSpoiled'
               PROVE  \E q \in Reqs : Ad!Unsaved(aReq'[q]) /\ aReq'[q].ad = b
    BY DEF Ad!ThumbnailKept, Ad!AtWork
  <2>1. CASE aAd[b].thumb = aReq[p].old
    <3>1. b = aReq[p].ad
      BY <2>1 DEF ThumbsOwned
    <3>2. Ad!Unsaved(aReq'[p]) /\ aReq'[p].ad = b
      BY <3>1, <1>1 DEF Ad!Unsaved
    <3> QED
      BY <3>2
  <2>2. CASE aAd[b].thumb # aReq[p].old
    <3>1. Ad!Live(b) /\ aAd[b].thumb > 0 /\ aAd[b].thumb \notin aFiles /\ b \notin aSpoiled
      BY <2>2 DEF Ad!Live
    <3>2. PICK q \in Reqs : Ad!Unsaved(aReq[q]) /\ aReq[q].ad = b
      BY <3>1 DEF Ad!ThumbnailKept, Ad!AtWork
    <3>3. CASE q = p
      BY <3>2, <3>3, <1>1 DEF Ad!Unsaved
    <3>4. CASE q # p
      BY <3>2, <3>4, <1>1
    <3> QED
      BY <3>3, <3>4
  <2> QED
    BY <2>1, <2>2
<1> QED
  BY <1>2, <1>7, <1>8, <1>9 DEF AdInv

LEMMA AdDropInv ==
  ASSUME AdInv, NEW p \in Reqs, Ad!UpdateDrop(p) \/ Ad!RemoveFile(p)
  PROVE  AdInv'
<1>1. AdTypes /\ ThumbsNumbered /\ ThumbsOwned /\ ThumbsBrought /\ Ad!ThumbnailKept
  BY DEF AdInv
<1>2. CASE Ad!UpdateDrop(p)
  <2>1. aReq[p].op = "drop" /\ aReq[p] \in AdUpdates /\ Bringing(p) /\ Dropping(p) /\ aReq[p].file # 0
    BY <1>1, <1>2, AdKinds DEF Ad!UpdateDrop, Bringing, Dropping, ThumbsBrought
  <2>2. PICK r : r = [aReq[p] EXCEPT !.op = "put"] /\ aReq' = [aReq EXCEPT ![p] = r]
    BY <1>2 DEF Ad!UpdateDrop, Ad!Goes
  <2>3. r \in AdUpdates /\ r.op = "put" /\ r.ad = aReq[p].ad /\ r.file = aReq[p].file
    BY <2>1, <2>2 DEF AdUpdates
  <2>4. r \in AdRequest
    BY <2>3 DEF AdRequest
  <2>5. aAd' = aAd /\ aSpoiled' = aSpoiled /\ aCalls' = aCalls /\ aFiles' = aFiles \ {aReq[p].old}
    BY <1>2 DEF Ad!UpdateDrop, Ad!Goes
  <2> QED
    BY <1>1, <2>1, <2>2, <2>3, <2>4, <2>5, ThumbDropped
<1>3. CASE Ad!RemoveFile(p)
  <2>1. aReq[p].op = "unlink" /\ aReq[p] \in AdRemovals /\ Dropping(p)
    BY <1>1, <1>3, AdKinds DEF Ad!RemoveFile, Dropping
  <2>2. PICK r : r = [aReq[p] EXCEPT !.op = "delete"] /\ aReq' = [aReq EXCEPT ![p] = r]
    BY <1>3 DEF Ad!RemoveFile, Ad!Goes
  <2>3. r \in AdRemovals /\ r.op = "delete" /\ r.ad = aReq[p].ad
    BY <2>1, <2>2 DEF AdRemovals
  <2>4. r \in AdRequest
    BY <2>3 DEF AdRequest
  <2>5. aAd' = aAd /\ aSpoiled' = aSpoiled /\ aCalls' = aCalls /\ aFiles' = aFiles \ {aReq[p].old}
    BY <1>3 DEF Ad!RemoveFile, Ad!Goes
  <2> QED
    BY <1>1, <2>1, <2>2, <2>3, <2>4, <2>5, ThumbDropped
<1> QED
  BY <1>2, <1>3

LEMMA AdPutInv ==
  ASSUME AdInv, NEW p \in Reqs, Ad!UpdatePut(p)
  PROVE  AdInv'
<1>1. AdTypes /\ ThumbsNumbered /\ ThumbsOwned /\ ThumbsBrought /\ Ad!ThumbnailKept
  BY DEF AdInv
<1>2. aReq[p].op = "put" /\ aReq[p] \in AdUpdates /\ Bringing(p) /\ aReq[p].file # 0
  BY <1>1, AdKinds DEF Ad!UpdatePut, Bringing, ThumbsBrought
<1>3. PICK r : r = [aReq[p] EXCEPT !.op = "judge"] /\ aReq' = [aReq EXCEPT ![p] = r]
  BY DEF Ad!UpdatePut, Ad!Goes
<1>4. r \in AdUpdates /\ r.op = "judge" /\ r.ad = aReq[p].ad /\ r.file = aReq[p].file /\ r.file \in Nat
  BY <1>2, <1>3 DEF AdUpdates
<1>5. r \in AdRequest
  BY <1>4 DEF AdRequest
<1>6. aAd' = aAd /\ aSpoiled' = aSpoiled /\ aCalls' = aCalls /\ aFiles' = aFiles \cup {aReq[p].file}
  BY DEF Ad!UpdatePut, Ad!Goes
<1>7. (\A q \in Reqs : q # p => aReq'[q] = aReq[q]) /\ aReq'[p] = r /\ aReq' \in [Reqs -> AdRequest]
  BY <1>1, <1>3, <1>5, AdBecomes
<1>8. AdTypes'
  BY <1>1, <1>4, <1>6, <1>7 DEF AdTypes
<1>9. \A q \in Reqs : Bringing(q)' => Bringing(q) /\ aReq'[q].file = aReq[q].file
  BY <1>2, <1>4, <1>7 DEF Bringing
<1>10. \A q \in Reqs : Dropping(q)' => Dropping(q) /\ aReq'[q].old = aReq[q].old /\ aReq'[q].ad = aReq[q].ad
  BY <1>4, <1>7 DEF Dropping
<1>11. aCalls' >= aCalls /\ \A a \in AdIds : aAd'[a].thumb = aAd[a].thumb
  BY <1>1, <1>6 DEF AdTypes
<1>12. ThumbsNumbered' /\ ThumbsOwned'
  BY <1>1, <1>8, <1>9, <1>10, <1>11, ThumbsStay
<1>13. ThumbsBrought'
  BY <1>1, <1>4, <1>6, <1>7 DEF ThumbsBrought
<1>14. Ad!Unsaved(r)
  BY <1>2, <1>4 DEF Ad!Unsaved
<1>15. \A q \in Reqs, a \in AdIds : Ad!Unsaved(aReq[q]) /\ aReq[q].ad = a => Ad!Unsaved(aReq'[q]) /\ aReq'[q].ad = a
  BY <1>4, <1>7, <1>14
<1>16. Ad!ThumbnailKept'
  BY <1>1, <1>6, <1>15, TroubleStays DEF Ad!Live
<1> QED
  BY <1>8, <1>12, <1>13, <1>16 DEF AdInv

LEMMA GivenRow ==
  ASSUME NEW entry \in AdRows, NEW r \in AdUpdates
  PROVE  /\ Ad!Given(entry, r) \in AdRows /\ Ad!Given(entry, r).state = entry.state
         /\ Ad!Given(entry, r).thumb = IF r.file = 0 THEN entry.thumb ELSE r.file
<1>1. PICK s : s = IF r.status = "" THEN entry.status ELSE r.status
  OBVIOUS
<1>2. r.status \in AdGiven /\ entry.status \in Ad!Status
  BY DEF AdUpdates, AdRows
<1>3. s \in Ad!Status
  BY <1>1, <1>2, Zenon DEF AdGiven
<1>4. PICK g : g = [entry EXCEPT !.status = s,
                              !.from = IF r.from = 0 THEN @ ELSE r.from,
                              !.until = IF r.until = 0 THEN @ ELSE r.until,
                              !.thumb = IF r.file = 0 THEN @ ELSE r.file]
  OBVIOUS
<1>5. Ad!Given(entry, r) = g
  BY <1>1, <1>4, Zenon DEF Ad!Given
<1>6. r.from \in Nat /\ r.until \in Nat /\ r.file \in Nat
  BY DEF AdUpdates
<1>7. g \in AdRows /\ g.state = entry.state /\ g.thumb = IF r.file = 0 THEN entry.thumb ELSE r.file
  BY <1>3, <1>4, <1>6 DEF AdRows
<1> QED
  BY <1>5, <1>7

LEMMA AdWriteInv ==
  ASSUME AdInv, NEW p \in Reqs, Ad!UpdateWrite(p)
  PROVE  AdInv'
<1>1. AdTypes /\ ThumbsNumbered /\ ThumbsOwned /\ ThumbsBrought /\ Ad!ThumbnailKept
  BY DEF AdInv
<1>2. aReq[p].op = "judge" /\ aReq[p] \in AdUpdates /\ Bringing(p)
  BY <1>1, AdKinds DEF Ad!UpdateWrite, Bringing
<1>3. PICK a \in AdIds : a = aReq[p].ad
  BY <1>2 DEF AdUpdates
<1>4. PICK entry \in AdRows : entry = Ad!Given(aAd[a], aReq[p])
  BY <1>1, <1>2, GivenRow DEF AdTypes
<1>5. entry.state = aAd[a].state /\ entry.thumb = IF aReq[p].file = 0 THEN aAd[a].thumb ELSE aReq[p].file
  BY <1>1, <1>2, <1>4, GivenRow DEF AdTypes
<1>6. aReq' = [aReq EXCEPT ![p] = Ad!Idle] /\ aCalls' = aCalls /\ aFiles' = aFiles
  BY DEF Ad!UpdateWrite, Ad!Ends
<1>7. Ad!Idle \in AdRequest
  BY DEF AdRequest
<1>8. (\A q \in Reqs : q # p => aReq'[q] = aReq[q]) /\ aReq'[p] = Ad!Idle /\ aReq' \in [Reqs -> AdRequest]
  BY <1>1, <1>6, <1>7, AdBecomes
<1>9. aReq'[p].op = "none" /\ ~Bringing(p)' /\ ~Dropping(p)'
  BY <1>8 DEF Ad!Idle, Bringing, Dropping
<1>10. \/ aAd' = aAd /\ aSpoiled' = (IF aReq[p].file > 0 THEN aSpoiled \cup {a} ELSE aSpoiled)
       \/ aAd' = [aAd EXCEPT ![a] = entry] /\ aSpoiled' = aSpoiled
  BY <1>3, <1>4 DEF Ad!UpdateWrite
<1>11. /\ aAd' \in [AdIds -> AdRows] /\ (\A b \in AdIds : b # a => aAd'[b] = aAd[b])
       /\ aAd'[a].thumb = aReq[p].file \/ aAd'[a].thumb = aAd[a].thumb
       /\ aAd'[a].state = aAd[a].state /\ aSpoiled \subseteq aSpoiled'
  BY <1>1, <1>5, <1>10 DEF AdTypes
<1>12. AdTypes'
  BY <1>1, <1>6, <1>8, <1>11 DEF AdTypes
<1>13. ThumbsNumbered' /\ ThumbsOwned'
  BY <1>1, <1>2, <1>6, <1>8, <1>9, <1>11, <1>12, ThumbWritten
<1>14. ThumbsBrought'
  BY <1>1, <1>6, <1>8, <1>9 DEF ThumbsBrought
<1>15. Ad!ThumbnailKept'
  <2> SUFFICES ASSUME NEW b \in AdIds, Ad!Live(b)', aAd'[b].thumb > 0, aAd'[b].thumb \notin aFiles', b \notin aSpoiled'
               PROVE  \E q \in Reqs : Ad!Unsaved(aReq'[q]) /\ aReq'[q].ad = b
    BY DEF Ad!ThumbnailKept, Ad!AtWork
  <2>1. CASE b = a /\ aReq[p].file # 0
    <3>1. aReq[p].file \in Nat /\ aReq[p].file \in aFiles
      BY <2>1, <1>1, <1>2 DEF AdUpdates, ThumbsBrought
    <3>2. aAd' = [aAd EXCEPT ![a] = entry]
      BY <2>1, <3>1, <1>10
    <3>3. aAd'[a].thumb = aReq[p].file
      BY <2>1, <3>2, <1>1, <1>5 DEF AdTypes
    <3> QED
      BY <2>1, <3>1, <3>3, <1>6
  <2>2. CASE b # a \/ aReq[p].file = 0
    <3>1. aAd'[b].thumb = aAd[b].thumb /\ aAd'[b].state = aAd[b].state
      BY <2>2, <1>1, <1>5, <1>10, <1>11 DEF AdTypes
    <3>2. Ad!Live(b) /\ aAd[b].thumb > 0 /\ aAd[b].thumb \notin aFiles /\ b \notin aSpoiled
      BY <3>1, <1>6, <1>11 DEF Ad!Live
    <3>3. PICK q \in Reqs : Ad!Unsaved(aReq[q]) /\ aReq[q].ad = b
      BY <3>2, <1>1 DEF Ad!ThumbnailKept, Ad!AtWork
    <3>4. q # p
      BY <2>2, <3>3, <1>2, <1>3 DEF Ad!Unsaved
    <3> QED
      BY <3>3, <3>4, <1>8
  <2> QED
    BY <2>1, <2>2
<1> QED
  BY <1>12, <1>13, <1>14, <1>15 DEF AdInv

(* A request ends, or goes on without a picture.                            *)
LEMMA AdQuietInv ==
  ASSUME AdInv, NEW p \in Reqs, NEW r \in AdRequest, aReq' = [aReq EXCEPT ![p] = r],
         r.op \in {"none", "daily"}, aFiles' = aFiles, aCalls' = aCalls, aAd' \in [AdIds -> AdRows],
         aSpoiled \subseteq aSpoiled',
         \A a \in AdIds : aAd'[a].thumb = aAd[a].thumb /\ (Ad!Live(a)' => Ad!Live(a)),
         \A a \in AdIds : Ad!Unsaved(aReq[p]) /\ aReq[p].ad = a => a \in aSpoiled' \/ ~Ad!Live(a)'
  PROVE  AdInv'
<1>1. AdTypes /\ ThumbsNumbered /\ ThumbsOwned /\ ThumbsBrought /\ Ad!ThumbnailKept
  BY DEF AdInv
<1>2. (\A q \in Reqs : q # p => aReq'[q] = aReq[q]) /\ aReq'[p] = r /\ aReq' \in [Reqs -> AdRequest]
  BY <1>1, AdBecomes
<1>3. AdTypes'
  BY <1>1, <1>2 DEF AdTypes
<1>4. \A q \in Reqs : Bringing(q)' => Bringing(q) /\ aReq'[q].file = aReq[q].file
  BY <1>2 DEF Bringing
<1>5. \A q \in Reqs : Dropping(q)' => Dropping(q) /\ aReq'[q].old = aReq[q].old /\ aReq'[q].ad = aReq[q].ad
  BY <1>2 DEF Dropping
<1>6. aCalls' >= aCalls /\ \A a \in AdIds : aAd'[a].thumb = aAd[a].thumb
  BY <1>1 DEF AdTypes
<1>7. ThumbsNumbered' /\ ThumbsOwned'
  BY <1>1, <1>3, <1>4, <1>5, <1>6, ThumbsStay
<1>8. ThumbsBrought'
  BY <1>1, <1>2 DEF ThumbsBrought
<1>9. \A q \in Reqs, a \in AdIds : Ad!Unsaved(aReq[q]) /\ aReq[q].ad = a =>
        \/ Ad!Unsaved(aReq'[q]) /\ aReq'[q].ad = a
        \/ a \in aSpoiled' \/ ~Ad!Live(a)'
  BY <1>2
<1>10. \A a \in AdIds : Ad!Live(a)' => Ad!Live(a) /\ aAd'[a].thumb = aAd[a].thumb
                          /\ (aAd[a].thumb \in aFiles => aAd[a].thumb \in aFiles')
  OBVIOUS
<1>11. Ad!ThumbnailKept'
  BY <1>1, <1>9, <1>10, TroubleStays
<1> QED
  BY <1>3, <1>7, <1>8, <1>11 DEF AdInv

LEMMA AdEndsInv ==
  ASSUME AdInv, NEW p \in Reqs, Ad!RemoveWrite(p) \/ Ad!Die(p) \/ Ad!trackView(p) \/ Ad!trackDaily(p)
  PROVE  AdInv'
<1>1. AdTypes
  BY DEF AdInv
<1>2. Ad!Idle \in AdRequest /\ Ad!Idle.op = "none"
  BY DEF AdRequest, Ad!Idle
<1>3. CASE Ad!RemoveWrite(p)
  <2>1. aReq[p].op = "delete" /\ aReq[p] \in AdRemovals
    BY <1>1, <1>3, AdKinds DEF Ad!RemoveWrite
  <2>2. PICK a \in AdIds : a = aReq[p].ad
    BY <2>1 DEF AdRemovals
  <2>3. /\ aReq' = [aReq EXCEPT ![p] = Ad!Idle] /\ aFiles' = aFiles /\ aCalls' = aCalls
        /\ aSpoiled' = aSpoiled /\ aAd' = [aAd EXCEPT ![a].state = "deleted"]
    BY <1>3, <2>2 DEF Ad!RemoveWrite, Ad!Ends
  <2>4. aAd' \in [AdIds -> AdRows] /\ (\A b \in AdIds : b # a => aAd'[b] = aAd[b])
        /\ aAd'[a].thumb = aAd[a].thumb /\ aAd'[a].state = "deleted"
    BY <1>1, <2>3 DEF AdTypes, AdRows
  <2>5. \A b \in AdIds : aAd'[b].thumb = aAd[b].thumb /\ (Ad!Live(b)' => Ad!Live(b))
    BY <2>4 DEF Ad!Live
  <2>6. \A b \in AdIds : Ad!Unsaved(aReq[p]) /\ aReq[p].ad = b => b \in aSpoiled' \/ ~Ad!Live(b)'
    BY <2>2, <2>4 DEF Ad!Live
  <2>7. aSpoiled \subseteq aSpoiled'
    BY <2>3
  <2> QED
    BY <1>2, <2>3, <2>4, <2>5, <2>6, <2>7, AdQuietInv
<1>4. CASE Ad!Die(p)
  <2>1. /\ aReq' = [aReq EXCEPT ![p] = Ad!Idle] /\ aFiles' = aFiles /\ aCalls' = aCalls /\ aAd' = aAd
        /\ aSpoiled' = IF Ad!Unsaved(aReq[p]) THEN aSpoiled \cup {aReq[p].ad} ELSE aSpoiled
    BY <1>4 DEF Ad!Die, Ad!Ends
  <2>2. aAd' \in [AdIds -> AdRows] /\ aSpoiled \subseteq aSpoiled'
    BY <1>1, <2>1 DEF AdTypes
  <2>3. \A b \in AdIds : aAd'[b].thumb = aAd[b].thumb /\ (Ad!Live(b)' => Ad!Live(b))
    BY <2>1 DEF Ad!Live
  <2>4. \A b \in AdIds : Ad!Unsaved(aReq[p]) /\ aReq[p].ad = b => b \in aSpoiled' \/ ~Ad!Live(b)'
    BY <2>1
  <2> QED
    BY <1>2, <2>1, <2>2, <2>3, <2>4, AdQuietInv
<1>5. ASSUME Ad!trackView(p) \/ Ad!trackDaily(p)
      PROVE  AdInv'
  <2>1. aReq[p] \in AdViews /\ aReq[p].op \in {"count", "daily"}
    BY <1>1, <1>5, AdKinds DEF Ad!trackView, Ad!trackDaily
  <2>2. PICK g : g = [aReq[p] EXCEPT !.op = "daily"] /\ (Ad!trackView(p) => aReq' = [aReq EXCEPT ![p] = g])
    BY DEF Ad!trackView, Ad!Goes
  <2>3. g \in AdRequest /\ g.op = "daily"
    BY <2>1, <2>2 DEF AdViews, AdRequest
  <2>4. PICK r \in AdRequest : aReq' = [aReq EXCEPT ![p] = r] /\ r.op \in {"none", "daily"}
    <3>1. CASE Ad!trackView(p)
      BY <3>1, <2>2, <2>3
    <3>2. CASE Ad!trackDaily(p)
      BY <3>2, <1>2 DEF Ad!trackDaily, Ad!Ends
    <3> QED
      BY <1>5, <3>1, <3>2
  <2>5. aFiles' = aFiles /\ aCalls' = aCalls /\ aAd' = aAd /\ aSpoiled' = aSpoiled
    BY <1>5 DEF Ad!trackView, Ad!trackDaily, Ad!Goes, Ad!Ends, Ad!NoAdChange
  <2>6. aAd' \in [AdIds -> AdRows] /\ aSpoiled \subseteq aSpoiled'
    BY <1>1, <2>5 DEF AdTypes
  <2>7. \A b \in AdIds : aAd'[b].thumb = aAd[b].thumb /\ (Ad!Live(b)' => Ad!Live(b))
    BY <2>5 DEF Ad!Live
  <2>8. \A b \in AdIds : Ad!Unsaved(aReq[p]) /\ aReq[p].ad = b => b \in aSpoiled' \/ ~Ad!Live(b)'
    BY <2>1 DEF Ad!Unsaved
  <2> QED
    BY <2>4, <2>5, <2>6, <2>7, <2>8, AdQuietInv
<1> QED
  BY <1>3, <1>4, <1>5

LEMMA TrackCheckInv ==
  ASSUME AdInv, NEW p \in Reqs, NEW a \in AdIds, Ad!TrackCheck(p, a)
  PROVE  AdInv'
<1>1. AdTypes /\ ThumbsNumbered /\ ThumbsOwned /\ ThumbsBrought /\ Ad!ThumbnailKept
  BY DEF AdInv
<1>2. PICK k \in Ad!Kinds : Ad!Arrive(p, [op |-> "count", ad |-> a, kind |-> k])
  BY DEF Ad!TrackCheck
<1> DEFINE r == [op |-> "count", ad |-> a, kind |-> k]
<1>3. r \in AdRequest /\ r.op = "count"
  BY DEF AdRequest, AdViews
<1>4. aReq[p] = Ad!Idle /\ aCalls' = aCalls + 1 /\ aReq' = [aReq EXCEPT ![p] = r]
  BY <1>2 DEF Ad!Arrive
<1>5. aAd' = aAd /\ aSpoiled' = aSpoiled /\ aFiles' = aFiles
  BY DEF Ad!TrackCheck, Ad!NoAdChange
<1> HIDE DEF r
<1>6. (\A q \in Reqs : q # p => aReq'[q] = aReq[q]) /\ aReq'[p] = r /\ aReq' \in [Reqs -> AdRequest]
  BY <1>1, <1>3, <1>4, AdBecomes
<1>7. AdTypes'
  BY <1>1, <1>4, <1>5, <1>6 DEF AdTypes
<1>8. ~Bringing(p)' /\ ~Dropping(p)'
  BY <1>3, <1>6 DEF Bringing, Dropping
<1>9. ThumbsNumbered' /\ ThumbsOwned'
  BY <1>1, <1>4, <1>5, <1>6, <1>7, <1>8, ThumbArrives
<1>10. ThumbsBrought'
  BY <1>1, <1>3, <1>5, <1>6 DEF ThumbsBrought
<1>11. ~Ad!Unsaved(aReq[p])
  BY <1>4 DEF Ad!Unsaved, Ad!Idle
<1>12. Ad!ThumbnailKept'
  <2>1. \A q \in Reqs : Ad!Unsaved(aReq[q]) => Ad!Unsaved(aReq'[q]) /\ aReq'[q].ad = aReq[q].ad
    BY <1>6, <1>11
  <2> QED
    BY <2>1, <1>1, <1>5 DEF Ad!ThumbnailKept, Ad!AtWork, Ad!Live
<1> QED
  BY <1>7, <1>9, <1>10, <1>12 DEF AdInv

LEMMA BulkUpdateInv ==
  ASSUME AdInv, NEW p \in Reqs, Ad!BulkUpdate(p)
  PROVE  AdInv'
<1>1. AdTypes /\ ThumbsNumbered /\ ThumbsOwned /\ ThumbsBrought /\ Ad!ThumbnailKept
  BY DEF AdInv
<1>2. PICK S \in SUBSET AdIds, s \in Ad!Status :
        aAd' = [a \in AdIds |-> IF a \in S THEN [aAd[a] EXCEPT !.status = s] ELSE aAd[a]]
  BY DEF Ad!BulkUpdate
<1>3. aCalls' = aCalls + 1 /\ aReq' = aReq /\ aFiles' = aFiles /\ aSpoiled' = aSpoiled
  BY DEF Ad!BulkUpdate
<1>4. \A a \in AdIds : aAd'[a] \in AdRows /\ aAd'[a].thumb = aAd[a].thumb /\ aAd'[a].state = aAd[a].state
  BY <1>1, <1>2 DEF AdTypes, AdRows
<1>5. aAd' = [a \in AdIds |-> aAd'[a]]
  BY <1>2
<1>6. AdTypes'
  BY <1>1, <1>3, <1>4, <1>5 DEF AdTypes
<1>7. \A q \in Reqs : Bringing(q)' => Bringing(q) /\ aReq'[q].file = aReq[q].file
  BY <1>3 DEF Bringing
<1>8. \A q \in Reqs : Dropping(q)' => Dropping(q) /\ aReq'[q].old = aReq[q].old /\ aReq'[q].ad = aReq[q].ad
  BY <1>3 DEF Dropping
<1>9. aCalls' >= aCalls /\ \A a \in AdIds : aAd'[a].thumb = aAd[a].thumb
  BY <1>1, <1>3, <1>4 DEF AdTypes
<1>10. ThumbsNumbered' /\ ThumbsOwned'
  BY <1>1, <1>6, <1>7, <1>8, <1>9, ThumbsStay
<1>11. ThumbsBrought'
  BY <1>1, <1>3 DEF ThumbsBrought
<1>12. Ad!ThumbnailKept'
  BY <1>1, <1>3, <1>4 DEF Ad!ThumbnailKept, Ad!AtWork, Ad!Live
<1> QED
  BY <1>6, <1>10, <1>11, <1>12 DEF AdInv

LEMMA AdNextInv ==
  ASSUME AdInv, [Ad!Next]_aVars
  PROVE  AdInv'
<1>1. ASSUME NEW p \in Reqs, NEW a \in AdIds,
             Ad!Create(p, a) \/ Ad!UpdateCheck(p, a) \/ Ad!RemoveCheck(p, a) \/ Ad!TrackCheck(p, a)
      PROVE  AdInv'
  BY <1>1, CreateInv, UpdateCheckInv, RemoveCheckInv, TrackCheckInv
<1>2. ASSUME NEW p \in Reqs,
             \/ Ad!Insert(p) \/ Ad!UpdateDrop(p) \/ Ad!UpdatePut(p) \/ Ad!UpdateWrite(p)
             \/ Ad!RemoveFile(p) \/ Ad!RemoveWrite(p) \/ Ad!BulkUpdate(p)
             \/ Ad!trackView(p) \/ Ad!trackDaily(p) \/ Ad!Die(p)
      PROVE  AdInv'
  BY <1>2, AdInsertInv, AdDropInv, AdPutInv, AdWriteInv, AdEndsInv, BulkUpdateInv
<1>3. CASE Ad!NextDay \/ UNCHANGED aVars
  <2>1. aAd' = aAd /\ aFiles' = aFiles /\ aSpoiled' = aSpoiled /\ aReq' = aReq /\ aCalls' = aCalls
    BY <1>3 DEF Ad!NextDay, Ad!NoAdChange, aVars
  <2>2. AdTypes' /\ ThumbsNumbered' /\ ThumbsOwned' /\ ThumbsBrought'
    BY <2>1 DEF AdInv, AdTypes, ThumbsNumbered, ThumbsOwned, ThumbsBrought, Bringing, Dropping
  <2>3. Ad!ThumbnailKept'
    BY <2>1 DEF AdInv, Ad!ThumbnailKept, Ad!AtWork, Ad!Live
  <2> QED
    BY <2>2, <2>3 DEF AdInv
<1> QED
  BY <1>1, <1>2, <1>3 DEF Ad!Next

-----------------------------------------------------------------------------
(***************************************************************************)
(* Community.  A removal's list holds the rows that hung on its row when   *)
(* it looked; what hangs on it now is in the list or was noted as behind   *)
(* it, and a row of the list whose picture is stored is still to do.       *)
(***************************************************************************)
Things == Co!Items
Written == [state : {"new", "live", "gone"}, by : Authors \cup {"none"}, under : Things \cup {"none"},
            picture : BOOLEAN]
CoInserts == [op : {"insert"}, id : Things, row : Written]
CoRemovals == [op : {"unlink", "delete"}, id : Things, tree : SUBSET Things, todo : SUBSET Things]
CoRequest == {Co!Idle} \cup CoInserts \cup CoRemovals

CoTypes ==
  /\ cItem \in [Things -> Written] /\ cFiles \subseteq Things
  /\ cBehind \subseteq Things /\ cBroken \subseteq Things
  /\ cReq \in [Reqs -> CoRequest]

Inserting(p) == cReq[p].op = "insert"
Removing(p) == cReq[p].op \in {"unlink", "delete"}

Belongs(i, t) ==
  \/ t = "none" /\ i \in PostIds
  \/ i \in CommentIds /\ t \in PostIds
  \/ i \in ReplyIds /\ t \in CommentIds

(* Comments belong to posts and replies to comments, and hang on rows that  *)
(* are there.                                                               *)
RowsHang ==
  \A i \in Things :
    /\ cItem[i].under # "none" => Belongs(i, cItem[i].under)
    /\ Co!Live(i) => Belongs(i, cItem[i].under) /\ (cItem[i].under # "none" => Co!Live(cItem[i].under))
    /\ Co!Live(i) /\ i \in cFiles => cItem[i].picture
    /\ i \in cBehind \cup cBroken => cItem[i].state # "new"

(* What is inserted is new, and its picture is stored.                      *)
InsertsOwn ==
  \A p \in Reqs : Inserting(p) =>
    LET i == cReq[p].id IN
    /\ cItem[i] = Co!NoItem /\ Belongs(i, cReq[p].row.under) /\ cReq[p].row.state = "live"
    /\ i \in cFiles <=> cReq[p].row.picture
    /\ \A q \in Reqs : Inserting(q) /\ cReq[q].id = i => q = p

Hangs(i, t) == i = t \/ cItem[i].under = t \/ (cItem[i].under # "none" /\ cItem[cItem[i].under].under = t)

(* What a removal has in its list, and what it has not.                     *)
ListsHang ==
  \A p \in Reqs : Removing(p) =>
    /\ cReq[p].id \in cReq[p].tree /\ cReq[p].todo \subseteq cReq[p].tree
    /\ \A i \in cReq[p].tree : cItem[i].state # "new" /\ Hangs(i, cReq[p].id)
    /\ \A i \in cReq[p].tree : i \in cFiles => cReq[p].op = "unlink" /\ i \in cReq[p].todo
    /\ \A i \in Things : Co!Live(i) /\ Hangs(i, cReq[p].id) => i \in cReq[p].tree \cup cBehind

CoInv == CoTypes /\ RowsHang /\ InsertsOwn /\ ListsHang /\ Co!DiskAgrees

LEMMA KindsApart ==
  /\ PostIds \cap CommentIds = {} /\ PostIds \cap ReplyIds = {} /\ CommentIds \cap ReplyIds = {}
  /\ "none" \notin Things /\ Things = PostIds \cup CommentIds \cup ReplyIds
BY ContentAssumption DEF Co!CommunityAssumption, Things, Co!Items

LEMMA CoInit ==
  ASSUME MCInit
  PROVE  CoInv
<1>1. /\ cItem = [i \in Things |-> Co!NoItem] /\ cFiles = {} /\ cBehind = {} /\ cBroken = {}
      /\ cReq = [p \in Reqs |-> Co!Idle]
  BY DEF MCInit, Co!Init, Things
<1>2. Co!NoItem \in Written /\ Co!NoItem.state = "new" /\ Co!NoItem.under = "none"
  BY DEF Co!NoItem, Written
<1>3. Co!Idle \in CoRequest
  BY DEF CoRequest
<1>4. \A p \in Reqs : ~Inserting(p) /\ ~Removing(p)
  BY <1>1 DEF Inserting, Removing, Co!Idle
<1>5. \A i \in Things : ~Co!Live(i)
  BY <1>1, <1>2 DEF Co!Live
<1>6. CoTypes
  BY <1>1, <1>2, <1>3 DEF CoTypes
<1>7. RowsHang /\ InsertsOwn /\ ListsHang
  BY <1>1, <1>2, <1>4, <1>5 DEF RowsHang, InsertsOwn, ListsHang
<1>8. Co!DiskAgrees
  BY <1>1, <1>5 DEF Co!DiskAgrees, Things
<1> QED
  BY <1>6, <1>7, <1>8 DEF CoInv

LEMMA CoKinds ==
  ASSUME CoTypes, NEW p \in Reqs
  PROVE  /\ Inserting(p) => cReq[p] \in CoInserts
         /\ Removing(p) => cReq[p] \in CoRemovals
<1> DEFINE r == cReq[p]
<1>1. r = Co!Idle \/ r \in CoInserts \/ r \in CoRemovals
  BY DEF CoTypes, CoRequest
<1>2. r = Co!Idle => r.op = "none"
  BY DEF Co!Idle
<1>3. r \in CoInserts => r.op = "insert"
  BY DEF CoInserts
<1>4. r \in CoRemovals => r.op \in {"unlink", "delete"}
  BY DEF CoRemovals
<1> QED
  BY <1>1, <1>2, <1>3, <1>4 DEF Inserting, Removing

LEMMA CoBecomes ==
  ASSUME CoTypes, NEW p \in Reqs, NEW r \in CoRequest, cReq' = [cReq EXCEPT ![p] = r]
  PROVE  /\ \A q \in Reqs : q # p => cReq'[q] = cReq[q]
         /\ cReq'[p] = r /\ cReq' \in [Reqs -> CoRequest]
BY DEF CoTypes

LEMMA DoomedIn ==
  ASSUME NEW i
  PROVE  i \in Co!Doomed <=> \E p \in Reqs : Removing(p) /\ i \in cReq[p].tree
BY DEF Co!Doomed, Removing

LEMMA GoneRows ==
  ASSUME CoTypes, NEW S \in SUBSET Things, cItem' = Co!Gone(S)
  PROVE  /\ cItem' \in [Things -> Written]
         /\ \A i \in S : cItem'[i].state = "gone" /\ cItem'[i].under = cItem[i].under
                         /\ (cItem'[i].picture <=> cItem[i].picture)
         /\ \A i \in Things \ S : cItem'[i] = cItem[i]
<1>1. cItem' = [i \in Things |-> IF i \in S THEN [cItem[i] EXCEPT !.state = "gone"] ELSE cItem[i]]
  BY DEF Co!Gone, Things
<1>2. ASSUME NEW i \in S
      PROVE  cItem'[i] \in Written /\ cItem'[i].state = "gone" /\ cItem'[i].under = cItem[i].under
             /\ (cItem'[i].picture <=> cItem[i].picture)
  <2>1. cItem[i] \in Written
    BY DEF CoTypes
  <2>2. cItem'[i] = [cItem[i] EXCEPT !.state = "gone"]
    BY <1>1
  <2> QED
    BY <2>1, <2>2 DEF Written
<1>3. \A i \in Things \ S : cItem'[i] = cItem[i] /\ cItem'[i] \in Written
  BY <1>1 DEF CoTypes
<1>4. \A i \in Things : cItem'[i] \in Written
  BY <1>2, <1>3
<1> QED
  BY <1>1, <1>2, <1>3, <1>4

(* What Tree reads hangs on its row, and nothing hangs on what it reads but *)
(* what it reads as well.                                                   *)
LEMMA TreeRows ==
  ASSUME CoTypes, RowsHang, NEW t \in Things, NEW i \in Co!Tree(t)
  PROVE  i \in Things /\ Hangs(i, t) /\ (i = t \/ Co!Live(i))
<1>1. CASE i = t
  BY <1>1 DEF Hangs
<1>2. CASE i \in Co!Below(t)
  BY <1>2 DEF Co!Below, Hangs, Things
<1>3. CASE \E j \in Co!Below(t) : i \in Co!Below(j)
  <2>1. PICK j \in Co!Below(t) : i \in Co!Below(j)
    BY <1>3
  <2>2. j \in Things /\ cItem[j].under = t /\ i \in Things /\ Co!Live(i) /\ cItem[i].under = j
    BY <2>1 DEF Co!Below, Things
  <2> QED
    BY <2>2, KindsApart DEF Hangs
<1> QED
  BY <1>1, <1>2, <1>3 DEF Co!Tree

LEMMA TreeClosed ==
  ASSUME CoTypes, RowsHang, NEW t \in Things, NEW i \in Things, Co!Live(i), cItem[i].under \in Co!Tree(t)
  PROVE  i \in Co!Tree(t)
<1> DEFINE u == cItem[i].under
<1>1. CASE u = t
  BY <1>1 DEF Co!Tree, Co!Below, Things
<1>2. CASE u \in Co!Below(t)
  BY <1>2 DEF Co!Tree, Co!Below, Things
<1>3. CASE \E j \in Co!Below(t) : u \in Co!Below(j)
  <2>1. PICK j \in Co!Below(t) : u \in Co!Below(j)
    BY <1>3
  <2>2. /\ j \in Things /\ cItem[j].under = t /\ Co!Live(j)
        /\ u \in Things /\ Co!Live(u) /\ cItem[u].under = j
    BY <2>1 DEF Co!Below, Things
  <2>3. Belongs(j, t) /\ Belongs(u, j) /\ Belongs(i, u)
    BY <2>2, KindsApart DEF RowsHang
  <2> QED
    BY <2>2, <2>3, KindsApart DEF Belongs
<1> QED
  BY <1>1, <1>2, <1>3 DEF Co!Tree

(* A step that stores no picture and writes no row, of the request p: rows  *)
(* go, pictures of p's list go, or p ends.                                  *)
LEMMA CoShrinks ==
  ASSUME CoInv, CoTypes', NEW p \in Reqs, \A q \in Reqs : q # p => cReq'[q] = cReq[q],
         \A i \in Things : cItem'[i].under = cItem[i].under /\ (cItem'[i].picture <=> cItem[i].picture),
         \A i \in Things : cItem'[i] = cItem[i] \/ cItem'[i].state = "gone",
         \A i \in Things, q \in Reqs : q # p /\ Inserting(q) /\ cReq[q].id = i => cItem'[i] = cItem[i],
         \A i \in Things : Co!Live(i)' /\ cItem[i].under # "none" =>
            \A u \in Things : u = cItem[i].under => Co!Live(u)',
         cFiles' \subseteq cFiles, cBehind \subseteq cBehind', cBroken \subseteq cBroken',
         \A i \in (cBehind' \cup cBroken') \ (cBehind \cup cBroken) : cItem'[i].state # "new",
         \A i \in cFiles \ cFiles' : Removing(p) /\ i \in cReq[p].tree /\ Removing(p)',
         ~Inserting(p)', Inserting(p) => cReq[p].id \in cBehind',
         Removing(p)' => /\ Removing(p) /\ cReq'[p].id = cReq[p].id /\ cReq'[p].tree = cReq[p].tree
                         /\ cReq'[p].todo \subseteq cReq[p].tree
                         /\ \A i \in cReq[p].tree : i \in cFiles' => cReq'[p].op = "unlink" /\ i \in cReq'[p].todo,
         \A i \in Things : Removing(p) /\ i \in cReq[p].tree => Removing(p)' \/ i \in cBroken' \/ ~Co!Live(i)',
         \A i \in cFiles : Co!Live(i) /\ ~Co!Live(i)' => i \in cBehind' \cup cBroken'
  PROVE  CoInv'
<1>1. CoTypes /\ RowsHang /\ InsertsOwn /\ ListsHang /\ Co!DiskAgrees
  BY DEF CoInv
<1>2. \A i \in Things : Co!Live(i)' => Co!Live(i)
  BY DEF Co!Live
<1>3. \A q \in Reqs : (Inserting(q)' => q # p /\ Inserting(q)) /\ (Removing(q)' => Removing(q))
  BY DEF Inserting, Removing
<1>4. \A q \in Reqs : Removing(q)' => cReq'[q].id = cReq[q].id /\ cReq'[q].tree = cReq[q].tree
  BY <1>3
<1>5. \A i \in Things : cItem[i].under # "none" => cItem[i].under \in Things
  BY <1>1 DEF CoTypes, Written
<1>6. RowsHang'
  <2>1. \A i \in Things : cItem'[i].under # "none" => Belongs(i, cItem'[i].under)
    BY <1>1 DEF RowsHang
  <2>2. \A i \in Things : Co!Live(i)' => Belongs(i, cItem'[i].under)
    BY <1>1, <1>2 DEF RowsHang
  <2>3. \A i \in Things : Co!Live(i)' /\ i \in cFiles' => cItem'[i].picture
    BY <1>1, <1>2 DEF RowsHang
  <2>4. \A i \in Things, u \in Things : Co!Live(i)' /\ cItem'[i].under = u => Co!Live(u)'
    BY <1>5, KindsApart
  <2>5. \A i \in Things : cItem'[i].under # "none" => cItem'[i].under \in Things
    BY <1>5
  <2>6. \A i \in Things : Co!Live(i)' /\ cItem'[i].under # "none" => Co!Live(cItem[i].under)'
    BY <2>4, <2>5 DEF Co!Live
  <2>7. \A i \in Things : i \in cBehind' \cup cBroken' => cItem'[i].state # "new"
    <3>1. \A i \in Things : i \in cBehind \cup cBroken => cItem[i].state # "new"
      BY <1>1 DEF RowsHang
    <3> QED
      BY <3>1
  <2> QED
    BY <2>1, <2>2, <2>3, <2>6, <2>7 DEF RowsHang
<1>7. InsertsOwn'
  <2> SUFFICES ASSUME NEW q \in Reqs, Inserting(q)'
               PROVE  /\ cItem'[cReq'[q].id] = Co!NoItem /\ Belongs(cReq'[q].id, cReq'[q].row.under)
                      /\ cReq'[q].row.state = "live" /\ (cReq'[q].id \in cFiles' <=> cReq'[q].row.picture)
                      /\ \A s \in Reqs : Inserting(s)' /\ cReq'[s].id = cReq'[q].id => s = q
    BY DEF InsertsOwn
  <2>1. q # p /\ Inserting(q) /\ cReq'[q] = cReq[q]
    BY <1>3
  <2>2. PICK i \in Things : i = cReq[q].id
    BY <2>1, <1>1, CoKinds DEF CoInserts
  <2>3. cItem[i] = Co!NoItem /\ Belongs(i, cReq[q].row.under) /\ cReq[q].row.state = "live"
        /\ (i \in cFiles <=> cReq[q].row.picture)
        /\ \A s \in Reqs : Inserting(s) /\ cReq[s].id = i => s = q
    BY <2>1, <2>2, <1>1 DEF InsertsOwn
  <2>4. cItem'[i] = cItem[i]
    BY <2>1, <2>2
  <2>5. i \in cFiles => i \in cFiles'
    <3>1. Removing(p) /\ i \in cReq[p].tree => cItem[i].state # "new"
      BY <1>1 DEF ListsHang
    <3> QED
      BY <3>1, <2>3 DEF Co!NoItem
  <2>6. \A s \in Reqs : Inserting(s)' /\ cReq'[s].id = i => s = q
    BY <1>3, <2>3
  <2>7. i \in cFiles' <=> cReq[q].row.picture
    BY <2>3, <2>5
  <2> QED
    BY <2>1, <2>2, <2>3, <2>4, <2>6, <2>7
<1>8. ListsHang'
  <2> SUFFICES ASSUME NEW q \in Reqs, Removing(q)'
               PROVE  /\ cReq'[q].id \in cReq'[q].tree /\ cReq'[q].todo \subseteq cReq'[q].tree
                      /\ \A i \in cReq'[q].tree : cItem'[i].state # "new" /\ Hangs(i, cReq[q].id)'
                      /\ \A i \in cReq'[q].tree : i \in cFiles' => cReq'[q].op = "unlink" /\ i \in cReq'[q].todo
                      /\ \A i \in Things : Co!Live(i)' /\ Hangs(i, cReq[q].id)' => i \in cReq'[q].tree \cup cBehind'
    BY DEF ListsHang
  <2>1. Removing(q) /\ cReq'[q].id = cReq[q].id /\ cReq'[q].tree = cReq[q].tree /\ cReq[q] \in CoRemovals
    BY <1>1, <1>3, <1>4, CoKinds
  <2>2. PICK t \in Things : t = cReq[q].id
    BY <2>1 DEF CoRemovals
  <2>3. cReq[q].tree \subseteq Things
    BY <2>1 DEF CoRemovals
  <2>4. \A i \in Things : Hangs(i, t)' <=> Hangs(i, t)
    BY <1>5 DEF Hangs
  <2>5. \A i \in Things : Hangs(i, cReq[q].id)' <=> Hangs(i, t)
    BY <2>1, <2>2, <2>4 DEF Hangs
  <2>6. cReq'[q].id \in cReq'[q].tree /\ cReq'[q].todo \subseteq cReq'[q].tree
    BY <2>1, <1>1 DEF ListsHang
  <2>7. \A i \in cReq[q].tree : cItem'[i].state # "new" /\ Hangs(i, t)
    BY <2>1, <2>2, <2>3, <1>1 DEF ListsHang
  <2>8. \A i \in cReq'[q].tree : i \in cFiles' => cReq'[q].op = "unlink" /\ i \in cReq'[q].todo
    BY <2>1, <1>1 DEF ListsHang
  <2>9. \A i \in Things : Co!Live(i)' /\ Hangs(i, t) => i \in cReq[q].tree \cup cBehind'
    BY <2>1, <2>2, <1>1, <1>2 DEF ListsHang
  <2> QED
    BY <2>1, <2>3, <2>5, <2>6, <2>7, <2>8, <2>9
<1>9. Co!DiskAgrees'
  <2>1. ASSUME NEW i \in Things, Co!Live(i)', cItem'[i].picture, i \notin cFiles', i \notin cBroken'
        PROVE  i \in Co!Doomed'
    <3>1. Co!Live(i) /\ cItem[i].picture
      BY <2>1, <1>2
    <3>2. PICK q \in Reqs : Removing(q) /\ i \in cReq[q].tree /\ Removing(q)'
      <4>1. CASE i \in cFiles
        BY <4>1, <2>1
      <4>2. CASE i \notin cFiles
        <5>1. i \in Co!Doomed \cup cBroken
          BY <4>2, <3>1, <1>1 DEF Co!DiskAgrees, Things
        <5>2. PICK q \in Reqs : Removing(q) /\ i \in cReq[q].tree
          BY <5>1, <2>1, DoomedIn
        <5>3. CASE q = p
          BY <5>2, <5>3, <2>1
        <5>4. CASE q # p
          BY <5>2, <5>4 DEF Removing
        <5> QED
          BY <5>3, <5>4
      <4> QED
        BY <4>1, <4>2
    <3>3. Removing(q)' /\ i \in cReq'[q].tree
      BY <3>2, <1>4
    <3> QED
      BY <3>3 DEF Co!Doomed, Removing
  <2>2. ASSUME NEW i \in Things, i \in cFiles', ~Co!Live(i)', i \notin cBehind' \cup cBroken'
        PROVE  Co!Arriving(i)'
    <3>1. i \in cFiles /\ ~Co!Live(i) /\ i \notin cBehind \cup cBroken
      BY <2>2
    <3>2. PICK q \in Reqs : cReq[q].op = "insert" /\ cReq[q].id = i
      BY <3>1, <1>1 DEF Co!DiskAgrees, Things, Co!Arriving
    <3>3. q # p
      BY <3>2, <2>2 DEF Inserting
    <3>4. cReq'[q].op = "insert" /\ cReq'[q].id = i
      BY <3>2, <3>3
    <3> QED
      BY <3>4 DEF Co!Arriving
  <2> QED
    BY <2>1, <2>2 DEF Co!DiskAgrees, Things
<1> QED
  BY <1>6, <1>7, <1>8, <1>9 DEF CoInv

LEMMA WriteInv ==
  ASSUME CoInv, NEW p \in Reqs, NEW i \in Things, NEW u \in Authors, NEW t, Belongs(i, t),
         Co!Write(p, i, u, t)
  PROVE  CoInv'
<1>1. CoTypes /\ RowsHang /\ InsertsOwn /\ ListsHang /\ Co!DiskAgrees
  BY DEF CoInv
<1>2. PICK picture \in BOOLEAN :
        /\ Co!Arrive(p, [op |-> "insert", id |-> i,
                         row |-> [state |-> "live", by |-> u, under |-> t, picture |-> picture]])
        /\ cFiles' = IF picture THEN cFiles \cup {i} ELSE cFiles
  BY DEF Co!Write
<1> DEFINE w == [state |-> "live", by |-> u, under |-> t, picture |-> picture]
           r == [op |-> "insert", id |-> i, row |-> w]
<1>3. t \in Things \cup {"none"}
  BY KindsApart DEF Belongs
<1>4. w \in Written /\ w.state = "live" /\ w.under = t /\ (w.picture <=> picture)
  BY <1>3 DEF Written
<1> HIDE DEF w
<1>5. r \in CoRequest /\ r.op = "insert" /\ r.id = i /\ r.row = w
  BY <1>4 DEF CoRequest, CoInserts
<1>6. cReq[p] = Co!Idle /\ cReq' = [cReq EXCEPT ![p] = r]
  BY <1>2 DEF Co!Arrive, w
<1> HIDE DEF r
<1>7. (\A q \in Reqs : q # p => cReq'[q] = cReq[q]) /\ cReq'[p] = r /\ cReq' \in [Reqs -> CoRequest]
  BY <1>1, <1>5, <1>6, CoBecomes
<1>8. cItem' = cItem /\ cBehind' = cBehind /\ cBroken' = cBroken /\ cItem[i] = Co!NoItem
      /\ \A q \in Reqs : Inserting(q) => cReq[q].id # i
  BY DEF Co!Write, Co!Fresh, Inserting
<1>9. /\ \A q \in Reqs : q # p => (Inserting(q)' <=> Inserting(q)) /\ (Removing(q)' <=> Removing(q))
      /\ Inserting(p)' /\ ~Removing(p)' /\ ~Inserting(p) /\ ~Removing(p)
  BY <1>5, <1>6, <1>7 DEF Inserting, Removing, Co!Idle
<1>10. i \notin cFiles /\ ~Co!Live(i) /\ (i \in cFiles' <=> picture) /\ \A j \in Things : j # i => (j \in cFiles' <=> j \in cFiles)
  <2>1. cItem[i].state = "new"
    BY <1>8 DEF Co!NoItem
  <2>2. i \notin cBehind \cup cBroken /\ ~Co!Live(i) /\ ~Co!Arriving(i)
    BY <2>1, <1>1, <1>8 DEF RowsHang, Co!Live, Co!Arriving, Inserting
  <2>3. i \notin cFiles
    BY <2>2, <1>1 DEF Co!DiskAgrees, Things
  <2> QED
    BY <2>2, <2>3, <1>2
<1>11. CoTypes'
  BY <1>1, <1>2, <1>7, <1>8 DEF CoTypes
<1>12. RowsHang'
  BY <1>1, <1>8, <1>10 DEF RowsHang, Co!Live
<1>13. InsertsOwn'
  <2> SUFFICES ASSUME NEW q \in Reqs, Inserting(q)'
               PROVE  /\ cItem'[cReq'[q].id] = Co!NoItem /\ Belongs(cReq'[q].id, cReq'[q].row.under)
                      /\ cReq'[q].row.state = "live" /\ (cReq'[q].id \in cFiles' <=> cReq'[q].row.picture)
                      /\ \A s \in Reqs : Inserting(s)' /\ cReq'[s].id = cReq'[q].id => s = q
    BY DEF InsertsOwn
  <2>1. CASE q = p
    BY <2>1, <1>4, <1>5, <1>7, <1>8, <1>9, <1>10
  <2>2. CASE q # p
    <3>1. PICK j \in Things : j = cReq[q].id
      BY <2>2, <1>1, <1>9, CoKinds DEF CoInserts
    <3>2. cItem[j] = Co!NoItem /\ Belongs(j, cReq[q].row.under) /\ cReq[q].row.state = "live"
          /\ (j \in cFiles <=> cReq[q].row.picture) /\ j # i
          /\ \A s \in Reqs : Inserting(s) /\ cReq[s].id = j => s = q
      BY <2>2, <3>1, <1>1, <1>8, <1>9 DEF InsertsOwn
    <3>3. \A s \in Reqs : Inserting(s)' /\ cReq'[s].id = j => s = q
      BY <3>2, <1>5, <1>7, <1>9
    <3> QED
      BY <2>2, <3>1, <3>2, <3>3, <1>7, <1>8, <1>10
  <2> QED
    BY <2>1, <2>2
<1>14. ListsHang'
  <2>1. \A q \in Reqs : Removing(q)' => Removing(q) /\ cReq'[q] = cReq[q] /\ cReq[q].tree \subseteq Things
    BY <1>1, <1>7, <1>9, CoKinds DEF CoRemovals
  <2>2. \A q \in Reqs : Removing(q)' => i \notin cReq[q].tree
    BY <2>1, <1>1, <1>8 DEF ListsHang, Co!NoItem
  <2>3. \A j, k : Hangs(j, k)' <=> Hangs(j, k)
    BY <1>8 DEF Hangs
  <2>4. \A q \in Reqs : \A j : Hangs(j, cReq[q].id)' <=> Hangs(j, cReq'[q].id)
    BY <1>8 DEF Hangs
  <2> QED
    BY <1>1, <1>8, <1>10, <2>1, <2>2, <2>4 DEF ListsHang, Co!Live
<1>15. Co!DiskAgrees'
  <2>1. \A j \in Things : j \in Co!Doomed => j \in Co!Doomed'
    <3> SUFFICES ASSUME NEW j \in Things, j \in Co!Doomed
                 PROVE  j \in Co!Doomed'
      OBVIOUS
    <3>1. PICK q \in Reqs : Removing(q) /\ j \in cReq[q].tree
      BY DoomedIn
    <3>2. Removing(q)' /\ j \in cReq'[q].tree
      BY <3>1, <1>7, <1>9
    <3> QED
      BY <3>2 DEF Co!Doomed, Removing
  <2>2. \A j \in Things : Co!Arriving(j) => Co!Arriving(j)'
    <3> SUFFICES ASSUME NEW j \in Things, NEW q \in Reqs, cReq[q].op = "insert", cReq[q].id = j
                 PROVE  \E s \in Reqs : cReq'[s].op = "insert" /\ cReq'[s].id = j
      BY DEF Co!Arriving
    <3>1. q # p
      BY <1>9 DEF Inserting
    <3> QED
      BY <3>1, <1>7
  <2>3. Co!Arriving(i)'
    BY <1>5, <1>7 DEF Co!Arriving
  <2> QED
    BY <2>1, <2>2, <2>3, <1>1, <1>8, <1>10 DEF Co!DiskAgrees, Co!Live, Things
<1> QED
  BY <1>11, <1>12, <1>13, <1>14, <1>15 DEF CoInv

LEMMA RemoveInv ==
  ASSUME CoInv, NEW p \in Reqs, NEW i \in Things, Co!Remove(p, i)
  PROVE  CoInv'
<1>1. CoTypes /\ RowsHang /\ InsertsOwn /\ ListsHang /\ Co!DiskAgrees
  BY DEF CoInv
<1> DEFINE T == Co!Tree(i)
           D == {j \in Co!PicturesOf(i) : cItem[j].picture}
           r == [op |-> "unlink", id |-> i, tree |-> T, todo |-> D]
<1>2. /\ \A j \in T : j \in Things /\ Hangs(j, i) /\ Co!Live(j)
      /\ i \in T /\ D \subseteq T /\ T \subseteq Things
  <2>1. Co!Live(i)
    BY DEF Co!Remove
  <2> QED
    BY <2>1, <1>1, TreeRows DEF Co!PicturesOf, Co!Tree
<1>3. \A j \in Things : Co!Live(j) /\ Hangs(j, i) => j \in T
  <2> SUFFICES ASSUME NEW j \in Things, Co!Live(j), Hangs(j, i)
               PROVE  j \in T
    OBVIOUS
  <2>1. CASE j = i
    BY <2>1 DEF Co!Tree
  <2>2. CASE cItem[j].under = i
    BY <2>2, <1>1, <1>2, TreeClosed
  <2>3. CASE cItem[j].under # "none" /\ cItem[cItem[j].under].under = i
    <3>1. cItem[j].under \in Things /\ Co!Live(cItem[j].under)
      BY <2>3, <1>1 DEF CoTypes, Written, RowsHang
    <3>2. cItem[j].under \in T
      BY <3>1, <2>3, <1>1, <1>2, TreeClosed
    <3> QED
      BY <3>2, <1>1, TreeClosed
  <2> QED
    BY <2>1, <2>2, <2>3 DEF Hangs
<1>4. \A j \in T : j \in cFiles => j \in D
  <2>1. \A j \in T : j \in cFiles => cItem[j].picture
    BY <1>1, <1>2 DEF RowsHang
  <2> QED
    BY <2>1 DEF Co!PicturesOf
<1>5. cReq[p] = Co!Idle /\ cReq' = [cReq EXCEPT ![p] = r]
  BY DEF Co!Remove, Co!Arrive
<1>6. cItem' = cItem /\ cFiles' = cFiles /\ cBehind' = cBehind /\ cBroken' = cBroken
  BY DEF Co!Remove
<1> HIDE DEF T, D
<1>7. r \in CoRequest /\ r.op = "unlink" /\ r.id = i /\ r.tree = T /\ r.todo = D
  BY <1>2 DEF CoRequest, CoRemovals
<1> HIDE DEF r
<1>8. (\A q \in Reqs : q # p => cReq'[q] = cReq[q]) /\ cReq'[p] = r /\ cReq' \in [Reqs -> CoRequest]
  BY <1>1, <1>5, <1>7, CoBecomes
<1>9. /\ \A q \in Reqs : q # p => (Inserting(q)' <=> Inserting(q)) /\ (Removing(q)' <=> Removing(q))
      /\ ~Inserting(p)' /\ Removing(p)' /\ ~Inserting(p) /\ ~Removing(p)
  BY <1>5, <1>7, <1>8 DEF Inserting, Removing, Co!Idle
<1>10. CoTypes'
  BY <1>1, <1>6, <1>8 DEF CoTypes
<1>11. RowsHang'
  BY <1>1, <1>6 DEF RowsHang, Co!Live
<1>12. InsertsOwn'
  BY <1>1, <1>6, <1>8, <1>9 DEF InsertsOwn
<1>13. ListsHang'
  <2>1. \A q \in Reqs : \A j : Hangs(j, cReq[q].id)' <=> Hangs(j, cReq'[q].id)
    BY <1>6 DEF Hangs
  <2> SUFFICES ASSUME NEW q \in Reqs, Removing(q)'
               PROVE  /\ cReq'[q].id \in cReq'[q].tree /\ cReq'[q].todo \subseteq cReq'[q].tree
                      /\ \A j \in cReq'[q].tree : cItem'[j].state # "new" /\ Hangs(j, cReq'[q].id)
                      /\ \A j \in cReq'[q].tree : j \in cFiles' => cReq'[q].op = "unlink" /\ j \in cReq'[q].todo
                      /\ \A j \in Things : Co!Live(j)' /\ Hangs(j, cReq'[q].id) => j \in cReq'[q].tree \cup cBehind'
    BY <2>1 DEF ListsHang
  <2>2. CASE q = p
    BY <2>2, <1>2, <1>3, <1>4, <1>6, <1>7, <1>8 DEF Co!Live
  <2>3. CASE q # p
    BY <2>3, <1>1, <1>6, <1>8, <1>9 DEF ListsHang, Co!Live
  <2> QED
    BY <2>2, <2>3
<1>14. Co!DiskAgrees'
  <2>1. \A j \in Things : j \in Co!Doomed => j \in Co!Doomed'
    <3> SUFFICES ASSUME NEW j \in Things, j \in Co!Doomed
                 PROVE  j \in Co!Doomed'
      OBVIOUS
    <3>1. PICK q \in Reqs : Removing(q) /\ j \in cReq[q].tree
      BY DoomedIn
    <3>2. Removing(q)' /\ j \in cReq'[q].tree
      BY <3>1, <1>8, <1>9
    <3> QED
      BY <3>2 DEF Co!Doomed, Removing
  <2>2. \A j \in Things : Co!Arriving(j) => Co!Arriving(j)'
    <3> SUFFICES ASSUME NEW j \in Things, NEW q \in Reqs, cReq[q].op = "insert", cReq[q].id = j
                 PROVE  \E s \in Reqs : cReq'[s].op = "insert" /\ cReq'[s].id = j
      BY DEF Co!Arriving
    <3>1. q # p
      BY <1>9 DEF Inserting
    <3> QED
      BY <3>1, <1>8
  <2> QED
    BY <2>1, <2>2, <1>1, <1>6 DEF Co!DiskAgrees, Co!Live, Things
<1> QED
  BY <1>10, <1>11, <1>12, <1>13, <1>14 DEF CoInv

LEMMA CoInsertInv ==
  ASSUME CoInv, NEW p \in Reqs, Co!Insert(p)
  PROVE  CoInv'
<1>1. CoTypes /\ RowsHang /\ InsertsOwn /\ ListsHang /\ Co!DiskAgrees
  BY DEF CoInv
<1>2. Inserting(p) /\ cReq[p] \in CoInserts
  BY <1>1, CoKinds DEF Co!Insert, Inserting
<1>3. PICK i \in Things : i = cReq[p].id
  BY <1>2 DEF CoInserts
<1>4. PICK w \in Written : w = cReq[p].row
  BY <1>2 DEF CoInserts
<1> DEFINE t == w.under
<1>5. /\ cItem[i] = Co!NoItem /\ Belongs(i, t) /\ w.state = "live" /\ (i \in cFiles <=> w.picture)
      /\ \A q \in Reqs : Inserting(q) /\ cReq[q].id = i => q = p
  BY <1>1, <1>2, <1>3, <1>4 DEF InsertsOwn
<1>6. cReq' = [cReq EXCEPT ![p] = Co!Idle] /\ cFiles' = cFiles /\ cBroken' = cBroken
  BY DEF Co!Insert, Co!Ends, Co!Becomes
<1>7. Co!Idle \in CoRequest
  BY DEF CoRequest
<1>8. (\A q \in Reqs : q # p => cReq'[q] = cReq[q]) /\ cReq'[p] = Co!Idle /\ cReq' \in [Reqs -> CoRequest]
  BY <1>1, <1>6, <1>7, CoBecomes
<1>9. /\ \A q \in Reqs : q # p => (Inserting(q)' <=> Inserting(q)) /\ (Removing(q)' <=> Removing(q))
      /\ ~Inserting(p)' /\ ~Removing(p)' /\ ~Removing(p)
  BY <1>2, <1>8 DEF Inserting, Removing, Co!Idle
<1>10. cItem[i].state = "new" /\ cItem[i].under = "none" /\ ~Co!Live(i)
  BY <1>5 DEF Co!NoItem, Co!Live
<1>11. CASE t # "none" /\ ~Co!Live(t)
  <2>1. PICK g : g = [cItem[i] EXCEPT !.state = "gone"] /\ cItem' = [cItem EXCEPT ![i] = g]
    BY <1>3, <1>4, <1>11 DEF Co!Insert
  <2>2. cBehind' = cBehind \cup {i}
    BY <1>3, <1>4, <1>11 DEF Co!Insert
  <2>3. g \in Written /\ g.state = "gone" /\ g.under = cItem[i].under /\ (g.picture <=> cItem[i].picture)
    BY <2>1, <1>1 DEF CoTypes, Written
  <2>4. cItem' \in [Things -> Written] /\ cItem'[i] = g /\ \A j \in Things : j # i => cItem'[j] = cItem[j]
    BY <2>1, <2>3, <1>1 DEF CoTypes
  <2>5. CoTypes'
    BY <2>2, <2>4, <1>1, <1>6, <1>8 DEF CoTypes
  <2>6. \A j \in Things : cItem'[j].under = cItem[j].under /\ (cItem'[j].picture <=> cItem[j].picture)
    BY <2>3, <2>4
  <2>7. \A j \in Things : cItem'[j] = cItem[j] \/ cItem'[j].state = "gone"
    BY <2>3, <2>4
  <2>8. \A j \in Things, q \in Reqs : q # p /\ Inserting(q) /\ cReq[q].id = j => cItem'[j] = cItem[j]
    BY <2>4, <1>5
  <2>9. \A j \in Things : Co!Live(j)' /\ cItem[j].under # "none" => \A u \in Things : u = cItem[j].under => Co!Live(u)'
    <3>1. \A j \in Things : Co!Live(j)' <=> Co!Live(j)
      BY <2>3, <2>4, <1>10 DEF Co!Live
    <3> QED
      BY <3>1, <1>1 DEF RowsHang
  <2>10. \A j \in (cBehind' \cup cBroken') \ (cBehind \cup cBroken) : cItem'[j].state # "new"
    BY <2>2, <2>3, <2>4, <1>6
  <2>11. cFiles' \subseteq cFiles /\ cBehind \subseteq cBehind' /\ cBroken \subseteq cBroken'
         /\ (\A j \in cFiles \ cFiles' : Removing(p) /\ j \in cReq[p].tree /\ Removing(p)')
         /\ (Inserting(p) => cReq[p].id \in cBehind')
    BY <2>2, <1>3, <1>6
  <2>12. \A j \in cFiles : Co!Live(j) /\ ~Co!Live(j)' => j \in cBehind' \cup cBroken'
    BY <2>4, <1>1, <1>10 DEF Co!Live, CoTypes
  <2> QED
    BY <2>5, <2>6, <2>7, <2>8, <2>9, <2>10, <2>11, <2>12, <1>8, <1>9, CoShrinks
<1>12. CASE t = "none" \/ Co!Live(t)
  <2>1. /\ cItem' = [cItem EXCEPT ![i] = w]
        /\ cBehind' = IF t \in Co!Doomed \cup cBehind THEN cBehind \cup {i} ELSE cBehind
    BY <1>3, <1>4, <1>12 DEF Co!Insert
  <2>2. /\ cItem' \in [Things -> Written] /\ cItem'[i] = w
        /\ \A j \in Things : j # i => cItem'[j] = cItem[j] /\ (Co!Live(j)' <=> Co!Live(j))
    BY <2>1, <1>1 DEF CoTypes, Co!Live
  <2>3. Co!Live(i)' /\ t # i /\ cBehind \subseteq cBehind'
    BY <2>1, <2>2, <1>3, <1>5, <1>10, <1>12, KindsApart DEF Co!Live
  <2>4. CoTypes'
    BY <2>1, <2>2, <1>1, <1>6, <1>8 DEF CoTypes
  <2>5. t # "none" => t \in Things /\ Co!Live(t)'
    BY <2>2, <2>3, <1>12, KindsApart DEF Written
  <2>6. RowsHang'
    <3> SUFFICES ASSUME NEW j \in Things
                 PROVE  /\ cItem'[j].under # "none" => Belongs(j, cItem'[j].under)
                        /\ Co!Live(j)' => Belongs(j, cItem'[j].under)
                        /\ \A u \in Things : Co!Live(j)' /\ cItem'[j].under = u => Co!Live(u)'
                        /\ Co!Live(j)' /\ j \in cFiles' => cItem'[j].picture
                        /\ j \in cBehind' \cup cBroken' => cItem'[j].state # "new"
      <4>1. \A j \in Things : cItem'[j].under # "none" => cItem'[j].under \in Things
        BY <2>2 DEF Written
      <4> QED
        BY <4>1 DEF RowsHang, Co!Live
    <3>1. CASE j = i
      BY <3>1, <2>2, <2>3, <2>5, <1>5, <1>6, KindsApart
    <3>2. CASE j # i
      <4>1. cItem'[j] = cItem[j] /\ (Co!Live(j)' <=> Co!Live(j))
        BY <3>2, <2>2
      <4>2. /\ cItem[j].under # "none" => Belongs(j, cItem[j].under)
            /\ Co!Live(j) => Belongs(j, cItem[j].under)
            /\ Co!Live(j) /\ cItem[j].under # "none" => Co!Live(cItem[j].under)
            /\ Co!Live(j) /\ j \in cFiles => cItem[j].picture
            /\ j \in cBehind \cup cBroken => cItem[j].state # "new"
        BY <1>1 DEF RowsHang
      <4>3. \A u \in Things : Co!Live(j)' /\ cItem'[j].under = u => Co!Live(u)'
        BY <4>1, <4>2, <2>2, <2>3, KindsApart
      <4> QED
        BY <4>1, <4>2, <4>3, <3>2, <2>1, <1>6
    <3> QED
      BY <3>1, <3>2
  <2>7. InsertsOwn'
    <3>1. \A q \in Reqs : Inserting(q)' => q # p /\ Inserting(q) /\ cReq'[q] = cReq[q] /\ cReq[q].id # i /\ cReq[q].id \in Things
      BY <1>1, <1>5, <1>8, <1>9, CoKinds DEF CoInserts
    <3> QED
      BY <3>1, <2>2, <1>1, <1>6 DEF InsertsOwn
  <2>8. ListsHang'
    <3> SUFFICES ASSUME NEW q \in Reqs, Removing(q)'
                 PROVE  /\ cReq'[q].id \in cReq'[q].tree /\ cReq'[q].todo \subseteq cReq'[q].tree
                        /\ \A j \in cReq'[q].tree : cItem'[j].state # "new" /\ Hangs(j, cReq[q].id)'
                        /\ \A j \in cReq'[q].tree : j \in cFiles' => cReq'[q].op = "unlink" /\ j \in cReq'[q].todo
                        /\ \A j \in Things : Co!Live(j)' /\ Hangs(j, cReq[q].id)' => j \in cReq'[q].tree \cup cBehind'
      BY DEF ListsHang
    <3>1. q # p /\ Removing(q) /\ cReq'[q] = cReq[q] /\ cReq[q] \in CoRemovals
      BY <1>1, <1>8, <1>9, CoKinds
    <3>2. PICK k \in Things : k = cReq[q].id
      BY <3>1 DEF CoRemovals
    <3>3. /\ cReq[q].tree \subseteq Things /\ k \in cReq[q].tree /\ cReq[q].todo \subseteq cReq[q].tree
          /\ \A j \in cReq[q].tree : cItem[j].state # "new" /\ Hangs(j, k)
          /\ \A j \in cReq[q].tree : j \in cFiles => cReq[q].op = "unlink" /\ j \in cReq[q].todo
          /\ \A j \in Things : Co!Live(j) /\ Hangs(j, k) => j \in cReq[q].tree \cup cBehind
      BY <3>1, <3>2, <1>1 DEF ListsHang, CoRemovals
    <3>4. \A j : Hangs(j, cReq[q].id)' <=> (j = k \/ cItem'[j].under = k \/ (cItem'[j].under # "none" /\ cItem'[cItem'[j].under].under = k))
      BY <3>1, <3>2 DEF Hangs
    <3>5. i \notin cReq[q].tree /\ k # i /\ k # "none"
      BY <3>3, <1>10, KindsApart
    <3>6. \A j \in cReq[q].tree : cItem'[j].state # "new" /\ Hangs(j, cReq[q].id)'
      <4> SUFFICES ASSUME NEW j \in cReq[q].tree
                   PROVE  cItem'[j].state # "new" /\ Hangs(j, cReq[q].id)'
        OBVIOUS
      <4>1. j # i /\ j \in Things /\ cItem'[j] = cItem[j] /\ cItem[j].state # "new" /\ Hangs(j, k)
        BY <3>3, <3>5, <2>2
      <4>2. cItem[j].under # "none" /\ cItem[cItem[j].under].under = k => cItem[j].under # i /\ cItem[j].under \in Things
        BY <4>1, <3>5, <1>1, <1>10 DEF CoTypes, Written
      <4> QED
        BY <4>1, <4>2, <3>4, <2>2 DEF Hangs
    <3>7. \A j \in Things : Co!Live(j)' /\ Hangs(j, cReq[q].id)' => j \in cReq[q].tree \cup cBehind'
      <4> SUFFICES ASSUME NEW j \in Things, Co!Live(j)', Hangs(j, cReq[q].id)'
                   PROVE  j \in cReq[q].tree \cup cBehind'
        OBVIOUS
      <4>1. CASE j = i
        <5>1. t = k \/ (t # "none" /\ cItem'[t].under = k)
          BY <4>1, <3>4, <3>5, <2>2
        <5>2. t \in Things /\ Co!Live(t) /\ t # i /\ Hangs(t, k)
          BY <5>1, <3>5, <2>2, <2>3, <2>5, <1>12 DEF Hangs
        <5>3. t \in cReq[q].tree \cup cBehind
          BY <5>2, <3>3
        <5>4. t \in Co!Doomed \cup cBehind
          BY <5>3, <3>1, DoomedIn
        <5> QED
          BY <5>4, <4>1, <2>1
      <4>2. CASE j # i
        <5>1. Co!Live(j) /\ cItem'[j] = cItem[j]
          BY <4>2, <2>2
        <5>2. cItem[j].under # "none" => cItem[j].under \in Things /\ cItem[j].under # i
          BY <5>1, <1>1, <1>10 DEF RowsHang, CoTypes, Written
        <5>3. Hangs(j, k)
          BY <5>1, <5>2, <3>4, <2>2 DEF Hangs
        <5> QED
          BY <5>1, <5>3, <3>3, <2>3
      <4> QED
        BY <4>1, <4>2
    <3> QED
      BY <3>1, <3>2, <3>3, <3>6, <3>7, <1>6
  <2>9. Co!DiskAgrees'
    <3>1. \A j \in Things : j \in Co!Doomed => j \in Co!Doomed'
      <4> SUFFICES ASSUME NEW j \in Things, j \in Co!Doomed
                   PROVE  j \in Co!Doomed'
        OBVIOUS
      <4>1. PICK q \in Reqs : Removing(q) /\ j \in cReq[q].tree
        BY DoomedIn
      <4>2. Removing(q)' /\ j \in cReq'[q].tree
        BY <4>1, <1>8, <1>9
      <4> QED
        BY <4>2 DEF Co!Doomed, Removing
    <3>2. \A j \in Things : j # i /\ Co!Arriving(j) => Co!Arriving(j)'
      <4> SUFFICES ASSUME NEW j \in Things, j # i, NEW q \in Reqs, cReq[q].op = "insert", cReq[q].id = j
                   PROVE  \E s \in Reqs : cReq'[s].op = "insert" /\ cReq'[s].id = j
        BY DEF Co!Arriving
      <4> QED
        BY <1>3, <1>8
    <3>3. ASSUME NEW j \in Things, Co!Live(j)', cItem'[j].picture, j \notin cFiles'
          PROVE  j \in Co!Doomed' \cup cBroken'
      <4>1. j # i
        BY <3>3, <2>2, <1>5, <1>6
      <4>2. Co!Live(j) /\ cItem[j].picture /\ j \notin cFiles
        BY <3>3, <4>1, <2>2, <1>6
      <4> QED
        BY <4>2, <3>1, <1>1, <1>6 DEF Co!DiskAgrees, Things
    <3>4. ASSUME NEW j \in Things, j \in cFiles', ~Co!Live(j)'
          PROVE  Co!Arriving(j)' \/ j \in cBehind' \cup cBroken'
      <4>1. j # i /\ j \in cFiles /\ ~Co!Live(j)
        BY <3>4, <2>2, <2>3, <1>6
      <4> QED
        BY <4>1, <3>2, <2>3, <1>1, <1>6 DEF Co!DiskAgrees, Things
    <3> QED
      BY <3>3, <3>4 DEF Co!DiskAgrees, Things
  <2> QED
    BY <2>4, <2>6, <2>7, <2>8, <2>9 DEF CoInv
<1> QED
  BY <1>11, <1>12

LEMMA CoUnlinkInv ==
  ASSUME CoInv, NEW p \in Reqs, Co!Unlink(p)
  PROVE  CoInv'
<1>1. CoTypes /\ RowsHang /\ ListsHang
  BY DEF CoInv
<1>2. Removing(p) /\ ~Inserting(p) /\ cReq[p] \in CoRemovals /\ cReq[p].op = "unlink"
  BY <1>1, CoKinds DEF Co!Unlink, Removing, Inserting
<1>3. PICK j \in cReq[p].todo : cFiles' = cFiles \ {j} /\ Co!Becomes(p, [cReq[p] EXCEPT !.todo = @ \ {j}])
  BY DEF Co!Unlink
<1>4. PICK r : r = [cReq[p] EXCEPT !.todo = @ \ {j}] /\ cReq' = [cReq EXCEPT ![p] = r]
  BY <1>3 DEF Co!Becomes
<1>5. r \in CoRemovals /\ r.op = "unlink" /\ r.id = cReq[p].id /\ r.tree = cReq[p].tree /\ r.todo = cReq[p].todo \ {j}
  BY <1>2, <1>4 DEF CoRemovals
<1>6. r \in CoRequest
  BY <1>5 DEF CoRequest
<1>7. (\A q \in Reqs : q # p => cReq'[q] = cReq[q]) /\ cReq'[p] = r /\ cReq' \in [Reqs -> CoRequest]
  BY <1>1, <1>4, <1>6, CoBecomes
<1>8. cItem' = cItem /\ cBehind' = cBehind /\ cBroken' = cBroken
  BY DEF Co!Unlink
<1>9. CoTypes'
  BY <1>1, <1>3, <1>7, <1>8 DEF CoTypes
<1>10. Removing(p)' /\ ~Inserting(p)'
  BY <1>5, <1>7 DEF Removing, Inserting
<1>11. cReq[p].todo \subseteq cReq[p].tree /\ \A i \in cReq[p].tree : i \in cFiles => i \in cReq[p].todo
  BY <1>1, <1>2 DEF ListsHang
<1>12. /\ \A i \in cFiles \ cFiles' : Removing(p) /\ i \in cReq[p].tree /\ Removing(p)'
       /\ \A i \in cReq[p].tree : i \in cFiles' => cReq'[p].op = "unlink" /\ i \in cReq'[p].todo
       /\ cReq'[p].id = cReq[p].id /\ cReq'[p].tree = cReq[p].tree /\ cReq'[p].todo \subseteq cReq[p].tree
  BY <1>2, <1>3, <1>5, <1>7, <1>10, <1>11
<1>13. \A i \in Things : (Co!Live(i)' <=> Co!Live(i))
  BY <1>8 DEF Co!Live
<1>14. \A i \in Things : Co!Live(i)' /\ cItem[i].under # "none" => \A u \in Things : u = cItem[i].under => Co!Live(u)'
  BY <1>1, <1>13 DEF RowsHang
<1>15. \A i \in cFiles : Co!Live(i) /\ ~Co!Live(i)' => i \in cBehind' \cup cBroken'
  BY <1>1, <1>13 DEF CoTypes
<1>16. /\ \A i \in Things : cItem'[i].under = cItem[i].under /\ (cItem'[i].picture <=> cItem[i].picture)
       /\ \A i \in Things : cItem'[i] = cItem[i] \/ cItem'[i].state = "gone"
       /\ \A i \in Things, q \in Reqs : q # p /\ Inserting(q) /\ cReq[q].id = i => cItem'[i] = cItem[i]
       /\ cFiles' \subseteq cFiles /\ cBehind \subseteq cBehind' /\ cBroken \subseteq cBroken'
       /\ \A i \in (cBehind' \cup cBroken') \ (cBehind \cup cBroken) : cItem'[i].state # "new"
  BY <1>3, <1>8
<1> QED
  BY <1>2, <1>7, <1>9, <1>10, <1>12, <1>14, <1>15, <1>16, CoShrinks

(* Rows that hang on the row of a removal go, with all that hangs on them.  *)
LEMMA RowsGo ==
  ASSUME CoInv, NEW p \in Reqs, Removing(p), NEW S \in SUBSET Things, cItem' = Co!Gone(S),
         NEW r \in CoRequest, cReq' = [cReq EXCEPT ![p] = r],
         cFiles' = cFiles, cBehind' = cBehind, cBroken' = cBroken,
         cReq[p].op = "delete" \/ cReq[p].todo = {},
         \A i \in S : cItem[i].state # "new" /\ (Co!Live(i) => Hangs(i, cReq[p].id)),
         \A i \in Things : Co!Live(i) /\ cItem[i].under \in S => i \in S,
         \/ r.op = "delete" /\ r.id = cReq[p].id /\ r.tree = cReq[p].tree /\ r.todo = cReq[p].todo
         \/ r = Co!Idle /\ (Co!Live(cReq[p].id) => cReq[p].id \in S)
  PROVE  CoInv'
<1>1. CoTypes /\ RowsHang /\ InsertsOwn /\ ListsHang
  BY DEF CoInv
<1>2. (\A q \in Reqs : q # p => cReq'[q] = cReq[q]) /\ cReq'[p] = r /\ cReq' \in [Reqs -> CoRequest]
  BY <1>1, CoBecomes
<1>3. /\ cItem' \in [Things -> Written]
      /\ \A i \in S : cItem'[i].state = "gone" /\ cItem'[i].under = cItem[i].under
                         /\ (cItem'[i].picture <=> cItem[i].picture)
      /\ \A i \in Things \ S : cItem'[i] = cItem[i]
  BY <1>1, GoneRows
<1>4. CoTypes'
  BY <1>1, <1>2, <1>3 DEF CoTypes
<1>5. /\ \A i \in Things : cItem'[i].under = cItem[i].under /\ (cItem'[i].picture <=> cItem[i].picture)
      /\ \A i \in Things : cItem'[i] = cItem[i] \/ cItem'[i].state = "gone"
  BY <1>3
<1>6. \A i \in Things : Co!Live(i)' <=> Co!Live(i) /\ i \notin S
  BY <1>3 DEF Co!Live
<1>7. \A i \in Things, q \in Reqs : q # p /\ Inserting(q) /\ cReq[q].id = i => cItem'[i] = cItem[i]
  <2>1. \A i \in Things, q \in Reqs : Inserting(q) /\ cReq[q].id = i => cItem[i].state = "new"
    BY <1>1 DEF InsertsOwn, Co!NoItem
  <2> QED
    BY <2>1, <1>3
<1>8. \A i \in Things : Co!Live(i)' /\ cItem[i].under # "none" => \A u \in Things : u = cItem[i].under => Co!Live(u)'
  BY <1>1, <1>6 DEF RowsHang
<1>9. cReq[p] \in CoRemovals /\ cReq[p].id \in Things /\ cReq[p].tree \subseteq Things /\ ~Inserting(p)
  BY <1>1, CoKinds DEF CoRemovals, Removing, Inserting
<1>10. PICK k \in Things : k = cReq[p].id
  BY <1>9
<1>11. /\ \A i \in cReq[p].tree : Hangs(i, k) /\ (i \in cFiles => cReq[p].op = "unlink" /\ i \in cReq[p].todo)
       /\ cReq[p].todo \subseteq cReq[p].tree
       /\ \A i \in Things : Co!Live(i) /\ Hangs(i, k) => i \in cReq[p].tree \cup cBehind
  BY <1>1, <1>10 DEF ListsHang
<1>12. \A i \in cReq[p].tree : i \notin cFiles
  BY <1>11
<1>13. \A i \in cFiles : Co!Live(i) /\ ~Co!Live(i)' => i \in cBehind' \cup cBroken'
  BY <1>1, <1>6, <1>10, <1>11, <1>12 DEF CoTypes
<1>14. ~Inserting(p)'
  BY <1>2 DEF Inserting, Co!Idle
<1>15. Removing(p)' => /\ cReq'[p].id = cReq[p].id /\ cReq'[p].tree = cReq[p].tree
                       /\ cReq'[p].todo \subseteq cReq[p].tree
                       /\ \A i \in cReq[p].tree : i \in cFiles' => cReq'[p].op = "unlink" /\ i \in cReq'[p].todo
  BY <1>2, <1>11, <1>12 DEF Removing, Co!Idle
<1>16. \A i \in Things : Removing(p) /\ i \in cReq[p].tree => Removing(p)' \/ i \in cBroken' \/ ~Co!Live(i)'
  <2>1. CASE r.op = "delete"
    BY <2>1, <1>2 DEF Removing
  <2>2. CASE r = Co!Idle /\ (Co!Live(k) => k \in S)
    <3>1. ~Co!Live(k)'
      BY <2>2, <1>6
    <3>2. ASSUME NEW i \in Things, Hangs(i, k), Co!Live(i)'
          PROVE  FALSE
      <4>1. CASE i = k
        BY <4>1, <3>1, <3>2, <1>6
      <4>2. CASE cItem[i].under = k
        BY <4>2, <3>1, <3>2, <1>8, <1>10, KindsApart
      <4>3. CASE cItem[i].under # "none" /\ cItem[cItem[i].under].under = k
        <5>1. PICK u \in Things : u = cItem[i].under
          BY <4>3, <1>1 DEF CoTypes, Written
        <5>2. Co!Live(u)' /\ cItem[u].under = k
          BY <5>1, <4>3, <3>2, <1>8
        <5> QED
          BY <5>2, <3>1, <1>8, <1>10, KindsApart
      <4> QED
        BY <4>1, <4>2, <4>3, <3>2 DEF Hangs
    <3> QED
      BY <3>2, <1>11
  <2> QED
    BY <2>1, <2>2, <1>10
<1>17. /\ cFiles' \subseteq cFiles /\ cBehind \subseteq cBehind' /\ cBroken \subseteq cBroken'
       /\ \A i \in (cBehind' \cup cBroken') \ (cBehind \cup cBroken) : cItem'[i].state # "new"
       /\ \A i \in cFiles \ cFiles' : Removing(p) /\ i \in cReq[p].tree /\ Removing(p)'
  OBVIOUS
<1> QED
  BY <1>2, <1>4, <1>5, <1>7, <1>8, <1>9, <1>13, <1>14, <1>15, <1>16, <1>17, CoShrinks

LEMMA DeleteRepliesInv ==
  ASSUME CoInv, NEW p \in Reqs, Co!DeleteReplies(p)
  PROVE  CoInv'
<1>1. CoTypes /\ RowsHang /\ ListsHang
  BY DEF CoInv
<1>2. Removing(p) /\ cReq[p] \in CoRemovals /\ cReq[p].todo = {}
  BY <1>1, CoKinds DEF Co!DeleteReplies, Removing
<1>3. PICK r : r = [cReq[p] EXCEPT !.op = "delete"] /\ cReq' = [cReq EXCEPT ![p] = r]
  BY DEF Co!DeleteReplies, Co!Becomes
<1>4. r \in CoRemovals /\ r.op = "delete" /\ r.id = cReq[p].id /\ r.tree = cReq[p].tree /\ r.todo = cReq[p].todo
  BY <1>2, <1>3 DEF CoRemovals
<1>5. r \in CoRequest
  BY <1>4 DEF CoRequest
<1> DEFINE S == {i \in ReplyIds : Co!Live(i) /\ cItem[i].under \in cReq[p].tree}
<1>6. S \in SUBSET Things /\ cItem' = Co!Gone(S) /\ cFiles' = cFiles /\ cBehind' = cBehind /\ cBroken' = cBroken
  BY KindsApart DEF Co!DeleteReplies
<1>7. PICK k \in Things : k = cReq[p].id
  BY <1>2 DEF CoRemovals
<1>8. \A i \in S : cItem[i].state # "new" /\ Hangs(i, cReq[p].id)
  <2> SUFFICES ASSUME NEW i \in S
               PROVE  cItem[i].state # "new" /\ Hangs(i, k)
    BY <1>7
  <2>1. PICK j \in Things : j = cItem[i].under /\ j \in cReq[p].tree
    BY <1>2 DEF CoRemovals
  <2>2. Co!Live(i) /\ i \in Things /\ Hangs(j, k) /\ Belongs(i, j) /\ i \in ReplyIds
    BY <2>1, <1>1, <1>2, <1>7, KindsApart DEF ListsHang, RowsHang
  <2>3. j = k \/ cItem[j].under = k
    <3>1. ASSUME cItem[j].under # "none", cItem[cItem[j].under].under = k
          PROVE  FALSE
      <4>1. PICK u \in Things : u = cItem[j].under
        BY <3>1, <1>1 DEF CoTypes, Written
      <4>2. Belongs(j, u) /\ Belongs(u, k)
        BY <3>1, <4>1, <1>1, KindsApart DEF RowsHang
      <4> QED
        BY <4>2, <2>2, KindsApart DEF Belongs
    <3> QED
      BY <3>1, <2>2 DEF Hangs
  <2>4. cItem[i].state = "live"
    BY <2>2 DEF Co!Live
  <2> QED
    BY <2>1, <2>3, <2>4, KindsApart DEF Hangs
<1>9. \A i \in Things : Co!Live(i) /\ cItem[i].under \in S => i \in S
  <2> SUFFICES ASSUME NEW i \in Things, Co!Live(i), cItem[i].under \in ReplyIds
               PROVE  FALSE
    OBVIOUS
  <2>1. Belongs(i, cItem[i].under)
    BY <1>1 DEF RowsHang
  <2> QED
    BY <2>1, KindsApart DEF Belongs
<1> HIDE DEF S
<1> QED
  BY <1>2, <1>3, <1>4, <1>5, <1>6, <1>8, <1>9, RowsGo

LEMMA DeleteCommentsInv ==
  ASSUME CoInv, NEW p \in Reqs, Co!DeleteComments(p)
  PROVE  CoInv'
<1>1. CoTypes /\ RowsHang
  BY DEF CoInv
<1>2. Removing(p) /\ cReq[p] \in CoRemovals /\ cReq[p].op = "delete"
  BY <1>1, CoKinds DEF Co!DeleteComments, Removing
<1>3. PICK k \in Things : k = cReq[p].id
  BY <1>2 DEF CoRemovals
<1> DEFINE S == UNION {Co!Tree(i) : i \in Co!Below(k)}
<1>4. \A i \in S : i \in Things /\ Co!Live(i) /\ Hangs(i, k)
  <2> SUFFICES ASSUME NEW c \in Co!Below(k), NEW i \in Co!Tree(c)
               PROVE  i \in Things /\ Co!Live(i) /\ Hangs(i, k)
    OBVIOUS
  <2>1. c \in Things /\ Co!Live(c) /\ cItem[c].under = k
    BY DEF Co!Below, Things
  <2>2. i \in Things /\ Hangs(i, c) /\ Co!Live(i)
    BY <2>1, <1>1, TreeRows
  <2>3. i = c \/ cItem[i].under = c
    <3>1. ASSUME cItem[i].under # "none", cItem[cItem[i].under].under = c
          PROVE  FALSE
      <4>1. PICK u \in Things : u = cItem[i].under
        BY <3>1, <2>2, <1>1 DEF CoTypes, Written
      <4>2. Belongs(i, u) /\ Belongs(u, c) /\ Belongs(c, k)
        BY <3>1, <4>1, <2>1, <2>2, <1>1, KindsApart DEF RowsHang
      <4> QED
        BY <4>2, KindsApart DEF Belongs
    <3> QED
      BY <3>1, <2>2 DEF Hangs
  <2> QED
    BY <2>1, <2>2, <2>3, KindsApart DEF Hangs
<1>5. \A i \in Things : Co!Live(i) /\ cItem[i].under \in S => i \in S
  <2> SUFFICES ASSUME NEW i \in Things, Co!Live(i), NEW c \in Co!Below(k), cItem[i].under \in Co!Tree(c)
               PROVE  i \in Co!Tree(c)
    OBVIOUS
  <2>1. c \in Things
    BY DEF Co!Below, Things
  <2> QED
    BY <2>1, <1>1, TreeClosed
<1>6. cItem' = Co!Gone(S) /\ cFiles' = cFiles /\ cBehind' = cBehind /\ cBroken' = cBroken /\ cReq' = cReq
  BY <1>3 DEF Co!DeleteComments
<1>7. cReq[p] \in CoRequest /\ cReq' = [cReq EXCEPT ![p] = cReq[p]]
  BY <1>1, <1>6 DEF CoTypes
<1>8. PICK r : r = cReq[p]
  OBVIOUS
<1>9. \A i \in S : cItem[i].state # "new" /\ Hangs(i, cReq[p].id)
  BY <1>3, <1>4 DEF Co!Live
<1>10. S \in SUBSET Things
  BY <1>4
<1> HIDE DEF S
<1> QED
  BY <1>2, <1>5, <1>6, <1>7, <1>8, <1>9, <1>10, RowsGo

LEMMA DeleteRowInv ==
  ASSUME CoInv, NEW p \in Reqs, Co!DeleteRow(p)
  PROVE  CoInv'
<1>1. CoTypes /\ RowsHang
  BY DEF CoInv
<1>2. Removing(p) /\ cReq[p] \in CoRemovals /\ (cReq[p].op = "delete" \/ cReq[p].todo = {})
  BY <1>1, CoKinds DEF Co!DeleteRow, Removing
<1>3. PICK k \in Things : k = cReq[p].id
  BY <1>2 DEF CoRemovals
<1>4. /\ cReq' = [cReq EXCEPT ![p] = Co!Idle] /\ cFiles' = cFiles /\ cBehind' = cBehind /\ cBroken' = cBroken
      /\ cItem' = IF Co!Live(k) THEN Co!Gone(Co!Tree(k)) ELSE cItem
  BY <1>3 DEF Co!DeleteRow, Co!Ends, Co!Becomes
<1>5. Co!Idle \in CoRequest
  BY DEF CoRequest
<1>6. PICK S \in SUBSET Things :
        /\ cItem' = Co!Gone(S) /\ (Co!Live(k) => k \in S)
        /\ \A i \in S : Co!Live(i) /\ Hangs(i, k)
        /\ \A i \in Things : Co!Live(i) /\ cItem[i].under \in S => i \in S
  <2>1. CASE Co!Live(k)
    <3> DEFINE T == Co!Tree(k)
    <3>1. \A i \in T : i \in Things /\ Co!Live(i) /\ Hangs(i, k)
      BY <2>1, <1>1, TreeRows
    <3>2. k \in T
      BY DEF Co!Tree
    <3>3. \A i \in Things : Co!Live(i) /\ cItem[i].under \in T => i \in T
      BY <1>1, TreeClosed
    <3> QED
      BY <2>1, <3>1, <3>2, <3>3, <1>4
  <2>2. CASE ~Co!Live(k)
    <3>1. Co!Gone({}) = [i \in Things |-> cItem[i]]
      BY DEF Co!Gone, Things
    <3>2. Co!Gone({}) = cItem
      BY <3>1, <1>1 DEF CoTypes
    <3> QED
      BY <2>2, <3>2, <1>4
  <2> QED
    BY <2>1, <2>2
<1>7. \A i \in S : cItem[i].state # "new" /\ Hangs(i, cReq[p].id)
  BY <1>3, <1>6 DEF Co!Live
<1> QED
  BY <1>2, <1>3, <1>4, <1>5, <1>6, <1>7, RowsGo

LEMMA CoDieInv ==
  ASSUME CoInv, NEW p \in Reqs, Co!Die(p)
  PROVE  CoInv'
<1>1. CoTypes /\ RowsHang /\ InsertsOwn /\ ListsHang
  BY DEF CoInv
<1>2. cReq[p] # Co!Idle /\ cReq' = [cReq EXCEPT ![p] = Co!Idle] /\ cFiles' = cFiles
  BY DEF Co!Die, Co!Ends, Co!Becomes
<1>3. Co!Idle \in CoRequest
  BY DEF CoRequest
<1>4. (\A q \in Reqs : q # p => cReq'[q] = cReq[q]) /\ cReq'[p] = Co!Idle /\ cReq' \in [Reqs -> CoRequest]
  BY <1>1, <1>2, <1>3, CoBecomes
<1>5. ~Inserting(p)' /\ ~Removing(p)'
  BY <1>4 DEF Inserting, Removing, Co!Idle
<1>6. (cReq[p] \in CoInserts /\ Inserting(p)) \/ (cReq[p] \in CoRemovals /\ Removing(p) /\ ~Inserting(p))
  BY <1>1, <1>2 DEF CoTypes, CoRequest, CoInserts, CoRemovals, Inserting, Removing
<1>7. CASE cReq[p] \in CoInserts /\ Inserting(p)
  <2>1. PICK i \in Things : i = cReq[p].id
    BY <1>7 DEF CoInserts
  <2>2. cItem[i] = Co!NoItem /\ (\A q \in Reqs : Inserting(q) /\ cReq[q].id = i => q = p) /\ ~Removing(p)
    BY <1>1, <1>7, <2>1 DEF InsertsOwn, Inserting, Removing
  <2>3. cItem' = [cItem EXCEPT ![i].state = "gone"] /\ cBehind' = cBehind \cup {i} /\ cBroken' = cBroken
    BY <1>7, <2>1 DEF Co!Die, Inserting
  <2>4. PICK g : g = [cItem[i] EXCEPT !.state = "gone"] /\ cItem' = [cItem EXCEPT ![i] = g]
    BY <2>3
  <2>5. g \in Written /\ g.state = "gone" /\ g.under = cItem[i].under /\ (g.picture <=> cItem[i].picture)
    BY <2>4, <1>1 DEF CoTypes, Written
  <2>6. cItem' \in [Things -> Written] /\ cItem'[i] = g /\ \A j \in Things : j # i => cItem'[j] = cItem[j]
    BY <2>4, <2>5, <1>1 DEF CoTypes
  <2>7. CoTypes'
    BY <2>3, <2>6, <1>1, <1>2, <1>4 DEF CoTypes
  <2>8. /\ \A j \in Things : cItem'[j].under = cItem[j].under /\ (cItem'[j].picture <=> cItem[j].picture)
        /\ \A j \in Things : cItem'[j] = cItem[j] \/ cItem'[j].state = "gone"
    BY <2>5, <2>6
  <2>9. \A j \in Things, q \in Reqs : q # p /\ Inserting(q) /\ cReq[q].id = j => cItem'[j] = cItem[j]
    BY <2>2, <2>6
  <2>10. \A j \in Things : Co!Live(j)' <=> Co!Live(j)
    BY <2>2, <2>5, <2>6 DEF Co!Live, Co!NoItem
  <2>11. \A j \in Things : Co!Live(j)' /\ cItem[j].under # "none" => \A u \in Things : u = cItem[j].under => Co!Live(u)'
    BY <2>10, <1>1 DEF RowsHang
  <2>12. \A j \in (cBehind' \cup cBroken') \ (cBehind \cup cBroken) : cItem'[j].state # "new"
    BY <2>3, <2>5, <2>6
  <2>13. cFiles' \subseteq cFiles /\ cBehind \subseteq cBehind' /\ cBroken \subseteq cBroken'
         /\ (\A j \in cFiles \ cFiles' : Removing(p) /\ j \in cReq[p].tree /\ Removing(p)')
         /\ (Inserting(p) => cReq[p].id \in cBehind')
    BY <2>1, <2>3, <1>2
  <2>14. \A j \in cFiles : Co!Live(j) /\ ~Co!Live(j)' => j \in cBehind' \cup cBroken'
    BY <2>10, <1>1 DEF CoTypes
  <2> QED
    BY <2>2, <2>7, <2>8, <2>9, <2>11, <2>12, <2>13, <2>14, <1>4, <1>5, CoShrinks
<1>8. CASE cReq[p] \in CoRemovals /\ Removing(p) /\ ~Inserting(p)
  <2>1. cBroken' = cBroken \cup cReq[p].tree /\ cItem' = cItem /\ cBehind' = cBehind
    BY <1>8 DEF Co!Die, Inserting
  <2>2. cReq[p].tree \subseteq Things /\ \A j \in cReq[p].tree : cItem[j].state # "new"
    BY <1>1, <1>8 DEF CoRemovals, ListsHang
  <2>3. CoTypes'
    BY <2>1, <2>2, <1>1, <1>2, <1>4 DEF CoTypes
  <2>4. \A j \in Things : Co!Live(j)' <=> Co!Live(j)
    BY <2>1 DEF Co!Live
  <2>5. \A j \in Things : Co!Live(j)' /\ cItem[j].under # "none" => \A u \in Things : u = cItem[j].under => Co!Live(u)'
    BY <2>4, <1>1 DEF RowsHang
  <2>6. \A j \in cFiles : Co!Live(j) /\ ~Co!Live(j)' => j \in cBehind' \cup cBroken'
    BY <2>4, <1>1 DEF CoTypes
  <2>7. /\ \A j \in Things : cItem'[j].under = cItem[j].under /\ (cItem'[j].picture <=> cItem[j].picture)
        /\ \A j \in Things : cItem'[j] = cItem[j] \/ cItem'[j].state = "gone"
        /\ \A j \in Things, q \in Reqs : q # p /\ Inserting(q) /\ cReq[q].id = j => cItem'[j] = cItem[j]
        /\ cFiles' \subseteq cFiles /\ cBehind \subseteq cBehind' /\ cBroken \subseteq cBroken'
        /\ \A j \in (cBehind' \cup cBroken') \ (cBehind \cup cBroken) : cItem'[j].state # "new"
        /\ \A j \in cFiles \ cFiles' : Removing(p) /\ j \in cReq[p].tree /\ Removing(p)'
        /\ \A j \in Things : Removing(p) /\ j \in cReq[p].tree => Removing(p)' \/ j \in cBroken' \/ ~Co!Live(j)'
    BY <2>1, <2>2, <1>2
  <2> QED
    BY <2>3, <2>5, <2>6, <2>7, <1>4, <1>5, <1>8, CoShrinks
<1> QED
  BY <1>6, <1>7, <1>8

LEMMA CoNextInv ==
  ASSUME CoInv, [Co!Next]_cVars
  PROVE  CoInv'
<1>1. ASSUME NEW p \in Reqs, Co!createPost(p) \/ Co!addComment(p) \/ Co!replyToComment(p)
      PROVE  CoInv'
  <2>1. PICK i \in Things, u \in Authors, t \in Things \cup {"none"} : Belongs(i, t) /\ Co!Write(p, i, u, t)
    BY <1>1, KindsApart DEF Co!createPost, Co!addComment, Co!replyToComment, Belongs
  <2> QED
    BY <2>1, WriteInv
<1>2. ASSUME NEW p \in Reqs, Co!removePost(p) \/ Co!deleteComment(p) \/ Co!deleteReply(p)
      PROVE  CoInv'
  <2>1. PICK i \in Things : Co!Remove(p, i)
    BY <1>2, KindsApart DEF Co!removePost, Co!deleteComment, Co!deleteReply
  <2> QED
    BY <2>1, RemoveInv
<1>3. ASSUME NEW p \in Reqs,
             \/ Co!Insert(p) \/ Co!Unlink(p) \/ Co!DeleteReplies(p)
             \/ Co!DeleteComments(p) \/ Co!DeleteRow(p) \/ Co!Die(p)
      PROVE  CoInv'
  BY <1>3, CoInsertInv, CoUnlinkInv, DeleteRepliesInv, DeleteCommentsInv, DeleteRowInv, CoDieInv
<1>4. CASE (\E u \in Authors : Co!Membership(u)) \/ UNCHANGED cVars
  <2>1. cItem' = cItem /\ cFiles' = cFiles /\ cBehind' = cBehind /\ cBroken' = cBroken /\ cReq' = cReq
    BY <1>4 DEF Co!Membership, cVars
  <2>2. CoTypes' /\ RowsHang' /\ InsertsOwn' /\ ListsHang'
    BY <2>1 DEF CoInv, CoTypes, RowsHang, InsertsOwn, ListsHang, Inserting, Removing, Hangs, Co!Live
  <2>3. Co!DiskAgrees'
    BY <2>1 DEF CoInv, Co!DiskAgrees, Co!Live, Co!Arriving, Co!Doomed
  <2> QED
    BY <2>2, <2>3 DEF CoInv
<1> QED
  BY <1>1, <1>2, <1>3, <1>4 DEF Co!Next

(* A picture of an ad, of the community, of a review or of a reply to one   *)
(* is stored as long as the row that shows it; none is left but for the     *)
(* orphans the properties name (ads-manager.service.ts:691, :706,           *)
(* community.service.ts:741, :989, pro-user-review.service.ts:184, :431).    *)
THEOREM PicturesAndRowsAgree == MCSpec => []DiskAgrees
<1> DEFINE Inv == AdInv /\ CoInv /\ FeedbackInv
<1>1. MCInit => Inv
  BY AdInit, CoInit, FeedbackInit DEF MCInit
<1>2. Inv /\ [MCNext]_allVars => Inv'
  <2> SUFFICES ASSUME Inv, [MCNext]_allVars
               PROVE  Inv'
    OBVIOUS
  <2>1. [Ad!Next]_aVars /\ [Co!Next]_cVars /\ [Fb!Next]_fVars
    BY StepsOfParts
  <2>2. AdInv' /\ CoInv' /\ FeedbackInv'
    BY <2>1, AdNextInv, CoNextInv, FeedbackNextInv
  <2> QED
    BY <2>2
<1>3. Inv => DiskAgrees
  BY DEF AdInv, CoInv, FeedbackInv, DiskAgrees
<1> QED
  BY <1>1, <1>2, <1>3, PTL DEF MCSpec

-----------------------------------------------------------------------------
(***************************************************************************)
(* The counts of an ad.  A view's request adds to the rows and the total,  *)
(* waits, and adds to the metrics of a day that is no earlier; no row and  *)
(* no metrics are of a day to come.                                        *)
(***************************************************************************)
Days == 0..AdDays
ByDay == [AdIds -> [Ad!Kinds -> [Days -> Nat]]]
InAll == [AdIds -> [Ad!Kinds -> Nat]]

CountTypes ==
  /\ aRows \in ByDay /\ aMetrics \in ByDay /\ aTotal \in InAll /\ aDied \in InAll
  /\ aToday \in Days

NoneAhead ==
  \A a \in AdIds, k \in Ad!Kinds, d \in Days : d > aToday => aRows[a][k][d] = 0 /\ aMetrics[a][k][d] = 0

Daily(p, a, k) == aReq[p].op = "daily" /\ aReq[p].ad = a /\ aReq[p].kind = k
Metering(a, k) == {p \in Reqs : Daily(p, a, k)}

Agreeing(a, k) ==
  /\ aTotal[a][k] = Ad!CountSince(a, k, 0)
  /\ Ad!CountSince(a, k, 0) = Ad!MetricsSince(a, k, 0) + Ad!Waiting(a, k) + aDied[a][k]
  /\ \A d \in 1..AdDays :
       Ad!CountSince(a, k, 0) - Ad!CountSince(a, k, d) >= Ad!MetricsSince(a, k, 0) - Ad!MetricsSince(a, k, d)

CountsInv == CountTypes /\ NoneAhead /\ \A a \in AdIds, k \in Ad!Kinds : Agreeing(a, k)

(* Ads has operators of FiniteSets of its own.                              *)
LEMMA AdsFinite == \A S : Ad!IsFiniteSet(S) <=> IsFiniteSet(S)
BY Zenon DEF Ad!IsFiniteSet, IsFiniteSet

LEMMA AdsCardinality == \A S : Ad!Cardinality(S) = Cardinality(S)
BY Zenon DEF Ad!Cardinality, Cardinality

LEMMA DaysFinite ==
  /\ AdDays \in Nat /\ IsFiniteSet(AdIds) /\ IsFiniteSet(Reqs)
  /\ \A d \in Days : IsFiniteSet(d..AdDays) /\ d..AdDays \subseteq Days
<1>1. AdDays \in Nat /\ Ad!IsFiniteSet(AdIds) /\ Ad!IsFiniteSet(Reqs)
  BY ContentAssumption DEF Ad!AdsAssumption
<1>2. ASSUME NEW d \in Days
      PROVE  IsFiniteSet(d..AdDays) /\ d..AdDays \subseteq Days
  <2>1. d \in Int /\ AdDays \in Int
    BY <1>1 DEF Days
  <2> QED
    BY <1>1, <2>1, FS_Interval DEF Days
<1> QED
  BY <1>1, <1>2, AdsFinite

LEMMA DayNumbers ==
  ASSUME NEW f \in [Days -> Nat], NEW d \in Days
  PROVE  Numbers(f, d..AdDays)
BY DaysFinite DEF Numbers

LEMMA DaySums ==
  ASSUME CountTypes, NEW a \in AdIds, NEW k \in Ad!Kinds, NEW d \in Days
  PROVE  /\ Ad!CountSince(a, k, d) \in Nat /\ Ad!MetricsSince(a, k, d) \in Nat
         /\ aTotal[a][k] \in Nat /\ aDied[a][k] \in Nat
<1>1. aRows[a][k] \in [Days -> Nat] /\ aMetrics[a][k] \in [Days -> Nat]
  BY DEF CountTypes, ByDay
<1>2. Numbers(aRows[a][k], d..AdDays) /\ Numbers(aMetrics[a][k], d..AdDays)
  BY <1>1, DayNumbers
<1>3. Ad!CountSince(a, k, d) \in Nat /\ Ad!MetricsSince(a, k, d) \in Nat
  BY <1>2, SumNat DEF Ad!CountSince, Ad!MetricsSince
<1> QED
  BY <1>3 DEF CountTypes, InAll

LEMMA MeteringFinite ==
  ASSUME NEW a, NEW k
  PROVE  IsFiniteSet(Metering(a, k)) /\ Ad!Waiting(a, k) = Cardinality(Metering(a, k)) /\ Ad!Waiting(a, k) \in Nat
<1>1. IsFiniteSet(Metering(a, k))
  BY DaysFinite, FS_Subset DEF Metering
<1> QED
  BY <1>1, FS_CardinalityType, AdsCardinality DEF Metering, Daily, Ad!Waiting

LEMMA MeteringFiniteNext ==
  ASSUME NEW a, NEW k
  PROVE  /\ IsFiniteSet(Metering(a, k)') /\ Ad!Waiting(a, k)' = Cardinality(Metering(a, k)')
         /\ Ad!Waiting(a, k)' \in Nat
<1>1. IsFiniteSet(Metering(a, k)')
  BY DaysFinite, FS_Subset DEF Metering
<1> QED
  BY <1>1, FS_CardinalityType, AdsCardinality DEF Metering, Daily, Ad!Waiting

(* One more on a day is one more since every day up to it.                  *)
RaisedOn(f, t) == [f EXCEPT ![t] = @ + 1]
RaisedFor(F, a, k, t) == [F EXCEPT ![a][k][t] = @ + 1]

LEMMA DayRaised ==
  ASSUME NEW f \in [Days -> Nat], NEW t \in Days, NEW g, g = RaisedOn(f, t), NEW d \in Days
  PROVE  /\ d <= t => Ad!Sum(g, d..AdDays) = Ad!Sum(f, d..AdDays) + 1
         /\ d > t => Ad!Sum(g, d..AdDays) = Ad!Sum(f, d..AdDays)
<1>1. Numbers(f, d..AdDays) /\ IsFiniteSet(d..AdDays) /\ d..AdDays \subseteq Days /\ AdDays \in Nat
  BY DayNumbers, DaysFinite
<1>2. g[t] = f[t] + 1 /\ \A y \in Days \ {t} : g[y] = f[y]
  BY DEF RaisedOn
<1>3. CASE d <= t
  <2>1. t \in d..AdDays /\ \A y \in (d..AdDays) \ {t} : g[y] = f[y]
    BY <1>1, <1>2, <1>3 DEF Days
  <2>2. Ad!Sum(g, d..AdDays) = Ad!Sum(f, d..AdDays) + 1
    BY <1>1, <1>2, <2>1, SumRaised
  <2> QED
    BY <1>3, <2>2 DEF Days
<1>4. CASE d > t
  <2>1. \A y \in d..AdDays : g[y] = f[y]
    BY <1>1, <1>2, <1>4 DEF Days
  <2>2. Ad!Sum(g, d..AdDays) = Ad!Sum(f, d..AdDays)
    BY <1>1, <2>1, SumSame
  <2> QED
    BY <1>4, <2>2 DEF Days
<1> QED
  BY <1>3, <1>4 DEF Days

(* Of all ads and kinds, one count of today is raised.                      *)
LEMMA TodayRaised ==
  ASSUME NEW F \in ByDay, NEW a \in AdIds, NEW k \in Ad!Kinds, NEW t \in Days,
         NEW G, G = RaisedFor(F, a, k, t)
  PROVE  /\ G \in ByDay
         /\ \A b \in AdIds, j \in Ad!Kinds : b # a \/ j # k => G[b][j] = F[b][j]
         /\ G[a][k] = RaisedOn(F[a][k], t)
         /\ \A d \in Days : d > t => G[a][k][d] = F[a][k][d]
<1>1. F[a] \in [Ad!Kinds -> [Days -> Nat]] /\ F[a][k] \in [Days -> Nat]
  BY DEF ByDay
<1>2. PICK h : h = [F[a][k] EXCEPT ![t] = @ + 1]
  OBVIOUS
<1>3. h \in [Days -> Nat] /\ \A d \in Days : d > t => h[d] = F[a][k][d]
  <2>1. h \in [Days -> Nat]
    BY <1>1, <1>2
  <2>2. \A d \in Days : d > t => d # t
    BY DEF Days
  <2> QED
    BY <1>1, <1>2, <2>1, <2>2
<1>4. PICK H : H = [F[a] EXCEPT ![k] = h]
  OBVIOUS
<1>5. H \in [Ad!Kinds -> [Days -> Nat]] /\ H[k] = h /\ \A j \in Ad!Kinds : j # k => H[j] = F[a][j]
  BY <1>1, <1>3, <1>4
<1>6. G = [F EXCEPT ![a] = H]
  BY <1>2, <1>4 DEF RaisedFor
<1> QED
  BY <1>2, <1>3, <1>5, <1>6 DEF ByDay, RaisedOn

(* One request more, or one fewer, waits for the metrics of a day.          *)
LEMMA OneMoreWaits ==
  ASSUME NEW p \in Reqs, NEW a, NEW k, ~Daily(p, a, k), Daily(p, a, k)',
         \A q \in Reqs : q # p => aReq'[q] = aReq[q]
  PROVE  Ad!Waiting(a, k)' = Ad!Waiting(a, k) + 1
<1> DEFINE S == Metering(a, k)
           T == Metering(a, k)'
<1>1. p \notin S /\ T = S \cup {p}
  BY DEF Metering, Daily
<1>2. IsFiniteSet(S) /\ Ad!Waiting(a, k) = Cardinality(S)
  BY MeteringFinite
<1>3. Ad!Waiting(a, k)' = Cardinality(T)
  BY MeteringFiniteNext
<1>4. Cardinality(S \cup {p}) = Cardinality(S) + 1
  <2> HIDE DEF S
  <2> QED
    BY <1>1, <1>2, FS_AddElement
<1> QED
  BY <1>1, <1>2, <1>3, <1>4

LEMMA OneFewerWaits ==
  ASSUME NEW p \in Reqs, NEW a, NEW k, Daily(p, a, k), ~Daily(p, a, k)',
         \A q \in Reqs : q # p => aReq'[q] = aReq[q]
  PROVE  Ad!Waiting(a, k) = Ad!Waiting(a, k)' + 1
<1> DEFINE S == Metering(a, k)'
           T == Metering(a, k)
<1>1. p \notin S /\ T = S \cup {p}
  BY DEF Metering, Daily
<1>2. IsFiniteSet(S) /\ Ad!Waiting(a, k)' = Cardinality(S)
  BY MeteringFiniteNext
<1>3. Ad!Waiting(a, k) = Cardinality(T)
  BY MeteringFinite
<1>4. Cardinality(S \cup {p}) = Cardinality(S) + 1
  <2> HIDE DEF S
  <2> QED
    BY <1>1, <1>2, FS_AddElement
<1> QED
  BY <1>1, <1>2, <1>3, <1>4

LEMMA AsManyWait ==
  ASSUME NEW a, NEW k, \A q \in Reqs : Daily(q, a, k)' <=> Daily(q, a, k)
  PROVE  Ad!Waiting(a, k)' = Ad!Waiting(a, k)
<1>1. Metering(a, k)' = Metering(a, k)
  BY DEF Metering
<1> QED
  BY <1>1, MeteringFinite, MeteringFiniteNext

(* What does not count for a kind of an ad leaves its counts in agreement.  *)
LEMMA AgreeingStays ==
  ASSUME NEW a \in AdIds, NEW k \in Ad!Kinds, Agreeing(a, k),
         aRows'[a][k] = aRows[a][k], aMetrics'[a][k] = aMetrics[a][k],
         aTotal'[a][k] = aTotal[a][k], aDied'[a][k] = aDied[a][k],
         Ad!Waiting(a, k)' = Ad!Waiting(a, k)
  PROVE  Agreeing(a, k)'
<1>1. \A d : /\ Ad!CountSince(a, k, d)' = Ad!CountSince(a, k, d)
            /\ Ad!MetricsSince(a, k, d)' = Ad!MetricsSince(a, k, d)
  BY DEF Ad!CountSince, Ad!MetricsSince
<1> QED
  BY <1>1 DEF Agreeing

LEMMA UncountedStep ==
  ASSUME CountsInv, aRows' = aRows, aMetrics' = aMetrics, aTotal' = aTotal, aDied' = aDied,
         aToday' \in Days, aToday' >= aToday,
         \A q \in Reqs : \A a, k : Daily(q, a, k)' <=> Daily(q, a, k)
  PROVE  CountsInv'
<1>1. CountTypes'
  BY DEF CountsInv, CountTypes
<1>2. NoneAhead'
  BY DEF CountsInv, CountTypes, NoneAhead, Days
<1>3. ASSUME NEW a \in AdIds, NEW k \in Ad!Kinds
      PROVE  Agreeing(a, k)'
  <2>1. Ad!Waiting(a, k)' = Ad!Waiting(a, k)
    BY AsManyWait
  <2> QED
    BY <2>1, AgreeingStays DEF CountsInv
<1> QED
  BY <1>1, <1>2, <1>3 DEF CountsInv

(* A request that is not between its two statements, and not after its step *)
LEMMA OtherRequest ==
  ASSUME CountsInv, aRows' = aRows, aMetrics' = aMetrics, aTotal' = aTotal, aDied' = aDied,
         aToday' = aToday, NEW p \in Reqs,
         \A q \in Reqs : q # p => aReq'[q] = aReq[q],
         aReq[p].op # "daily", aReq'[p].op # "daily"
  PROVE  CountsInv'
<1>1. \A q \in Reqs : \A a, k : Daily(q, a, k)' <=> Daily(q, a, k)
  BY DEF Daily
<1>2. aToday' \in Days /\ aToday' >= aToday
  BY DEF CountsInv, CountTypes, Days
<1> QED
  BY <1>1, <1>2, UncountedStep

LEMMA Undisturbed ==
  ASSUME CountsInv, AdTypes, NEW p \in Reqs, NEW a \in AdIds,
         Ad!Create(p, a) \/ Ad!UpdateCheck(p, a) \/ Ad!RemoveCheck(p, a) \/ Ad!TrackCheck(p, a)
  PROVE  CountsInv'
<1>1. PICK r : Ad!Arrive(p, r) /\ r.op \in {"insert", "drop", "judge", "unlink", "count"}
  <2>1. CASE Ad!Create(p, a)
    <3>1. PICK s \in Ad!Status, d \in AdDates, e \in AdDates, file \in BOOLEAN :
            Ad!Arrive(p, [op |-> "insert", ad |-> a, status |-> s, from |-> d, until |-> e,
                          file |-> IF file THEN aCalls + 1 ELSE 0])
      BY <2>1 DEF Ad!Create
    <3> QED
      BY <3>1
  <2>2. CASE Ad!UpdateCheck(p, a)
    <3>1. PICK s \in Ad!Status \cup {""}, d \in AdDates \cup {0}, e \in AdDates \cup {0}, file \in BOOLEAN :
            Ad!Arrive(p, [op |-> IF file THEN "drop" ELSE "judge", ad |-> a, status |-> s,
                          from |-> d, until |-> e, old |-> aAd[a].thumb,
                          file |-> IF file THEN aCalls + 1 ELSE 0])
      BY <2>2, Zenon DEF Ad!UpdateCheck
    <3>2. (IF file THEN "drop" ELSE "judge") \in {"drop", "judge"}
      OBVIOUS
    <3>3. PICK f, op : f = (IF file THEN aCalls + 1 ELSE 0) /\ op = (IF file THEN "drop" ELSE "judge")
      OBVIOUS
    <3>4. PICK r : r = [op |-> op, ad |-> a, status |-> s, from |-> d, until |-> e, old |-> aAd[a].thumb, file |-> f]
      OBVIOUS
    <3>5. Ad!Arrive(p, r)
      BY <3>1, <3>3, <3>4, Zenon
    <3>6. r.op = op /\ op \in {"drop", "judge"}
      BY <3>2, <3>3, <3>4
    <3> QED
      BY <3>5, <3>6
  <2>3. CASE Ad!RemoveCheck(p, a)
    <3>1. Ad!Arrive(p, [op |-> "unlink", ad |-> a, old |-> aAd[a].thumb])
      BY <2>3 DEF Ad!RemoveCheck
    <3> QED
      BY <3>1
  <2>4. CASE Ad!TrackCheck(p, a)
    <3>1. PICK k \in Ad!Kinds : Ad!Arrive(p, [op |-> "count", ad |-> a, kind |-> k])
      BY <2>4 DEF Ad!TrackCheck
    <3> QED
      BY <3>1
  <2> QED
    BY <2>1, <2>2, <2>3, <2>4
<1>2. aReq[p] = Ad!Idle /\ aReq' = [aReq EXCEPT ![p] = r]
  BY <1>1 DEF Ad!Arrive
<1>3. aReq[p].op # "daily" /\ aReq'[p] = r /\ r.op # "daily" /\ \A q \in Reqs : q # p => aReq'[q] = aReq[q]
  BY <1>1, <1>2 DEF Ad!Idle, AdTypes
<1>4. Ad!NoCount
  BY DEF Ad!Create, Ad!UpdateCheck, Ad!RemoveCheck, Ad!TrackCheck
<1> QED
  BY <1>3, <1>4, OtherRequest DEF Ad!NoCount

LEMMA UndisturbedLater ==
  ASSUME CountsInv, AdTypes, NEW p \in Reqs,
         \/ Ad!Insert(p) \/ Ad!UpdateDrop(p) \/ Ad!UpdatePut(p) \/ Ad!UpdateWrite(p)
         \/ Ad!RemoveFile(p) \/ Ad!RemoveWrite(p) \/ Ad!BulkUpdate(p)
  PROVE  CountsInv'
<1>1. Ad!NoCount
  BY DEF Ad!Insert, Ad!UpdateDrop, Ad!UpdatePut, Ad!UpdateWrite, Ad!RemoveFile, Ad!RemoveWrite, Ad!BulkUpdate
<1>2. CASE Ad!BulkUpdate(p)
  <2>1. aReq' = aReq /\ aReq[p] = Ad!Idle
    BY <1>2 DEF Ad!BulkUpdate
  <2> QED
    BY <2>1, <1>1, OtherRequest DEF Ad!NoCount, Ad!Idle
<1>3. CASE Ad!Insert(p) \/ Ad!UpdateWrite(p) \/ Ad!RemoveWrite(p)
  <2>1. aReq[p].op \in {"insert", "judge", "delete"} /\ aReq' = [aReq EXCEPT ![p] = Ad!Idle]
    BY <1>3 DEF Ad!Insert, Ad!UpdateWrite, Ad!RemoveWrite, Ad!Ends
  <2>2. aReq'[p] = Ad!Idle /\ \A q \in Reqs : q # p => aReq'[q] = aReq[q]
    BY <2>1 DEF AdTypes
  <2> QED
    BY <2>1, <2>2, <1>1, OtherRequest DEF Ad!NoCount, Ad!Idle
<1>4. CASE Ad!UpdateDrop(p) \/ Ad!UpdatePut(p) \/ Ad!RemoveFile(p)
  <2>1. PICK op \in {"put", "judge", "delete"} : aReq[p].op \in {"drop", "put", "unlink"} /\ Ad!Goes(p, op)
    BY <1>4 DEF Ad!UpdateDrop, Ad!UpdatePut, Ad!RemoveFile
  <2>2. PICK r : r = [aReq[p] EXCEPT !.op = op] /\ aReq' = [aReq EXCEPT ![p] = r]
    BY <2>1 DEF Ad!Goes
  <2>3. aReq[p] \in AdUpdates \cup AdRemovals
    BY <2>1, AdKinds
  <2>4. r.op = op
    BY <2>2, <2>3 DEF AdUpdates, AdRemovals
  <2>5. aReq'[p].op # "daily" /\ \A q \in Reqs : q # p => aReq'[q] = aReq[q]
    BY <2>1, <2>2, <2>4 DEF AdTypes
  <2> QED
    BY <2>1, <2>5, <1>1, OtherRequest DEF Ad!NoCount
<1> QED
  BY <1>2, <1>3, <1>4

(* The row and the total of a view are written together, and its request    *)
(* waits from then on.                                                      *)
LEMMA ViewCounted ==
  ASSUME CountsInv, AdTypes, NEW p \in Reqs, Ad!trackView(p)
  PROVE  CountsInv'
<1>1. PICK a \in AdIds, k \in Ad!Kinds : a = aReq[p].ad /\ k = aReq[p].kind
  <2>1. aReq[p] \in AdViews
    BY AdKinds DEF Ad!trackView
  <2> QED
    BY <2>1 DEF AdViews
<1>2. PICK r : r = [aReq[p] EXCEPT !.op = "daily"] /\ aReq' = [aReq EXCEPT ![p] = r]
  BY DEF Ad!trackView, Ad!Goes
<1>3. aReq[p] \in AdViews /\ aReq[p].op = "count"
  BY AdKinds DEF Ad!trackView
<1>4. r.op = "daily" /\ r.ad = a /\ r.kind = k
  BY <1>1, <1>2, <1>3 DEF AdViews
<1>5. aReq'[p] = r /\ \A q \in Reqs : q # p => aReq'[q] = aReq[q]
  BY <1>2 DEF AdTypes
<1>6. CountTypes /\ NoneAhead
  BY DEF CountsInv
<1>7. /\ aRows' = [aRows EXCEPT ![a][k][aToday] = @ + 1]
      /\ aTotal' = [aTotal EXCEPT ![a][k] = @ + 1]
      /\ aMetrics' = aMetrics /\ aToday' = aToday /\ aDied' = aDied
  BY <1>1 DEF Ad!trackView
<1>8. PICK F, t, G : F = aRows /\ t = aToday /\ G = aRows'
  OBVIOUS
<1>9. F \in ByDay /\ t \in Days /\ G = RaisedFor(F, a, k, t)
  BY <1>6, <1>7, <1>8 DEF CountTypes, RaisedFor
<1>10. /\ G \in ByDay
       /\ \A b \in AdIds, j \in Ad!Kinds : b # a \/ j # k => G[b][j] = F[b][j]
       /\ G[a][k] = RaisedOn(F[a][k], t)
       /\ \A d \in Days : d > t => G[a][k][d] = F[a][k][d]
  BY <1>9, TodayRaised
<1>11. /\ aTotal' \in InAll /\ aTotal'[a][k] = aTotal[a][k] + 1
       /\ \A b \in AdIds, j \in Ad!Kinds : b # a \/ j # k => aTotal'[b][j] = aTotal[b][j]
  BY <1>6, <1>7 DEF CountTypes, InAll
<1>12. CountTypes'
  BY <1>6, <1>7, <1>8, <1>10, <1>11 DEF CountTypes
<1>13. NoneAhead'
  <2> SUFFICES ASSUME NEW b \in AdIds, NEW j \in Ad!Kinds, NEW d \in Days, d > aToday
               PROVE  aRows'[b][j][d] = 0 /\ aMetrics'[b][j][d] = 0
    BY <1>7 DEF NoneAhead
  <2>1. aRows[b][j][d] = 0 /\ aMetrics[b][j][d] = 0
    BY <1>6 DEF NoneAhead
  <2>2. G[b][j][d] = F[b][j][d]
    <3>1. CASE b = a /\ j = k
      BY <3>1, <1>8, <1>10
    <3>2. CASE b # a \/ j # k
      BY <3>2, <1>10
    <3> QED
      BY <3>1, <3>2
  <2> QED
    BY <2>1, <2>2, <1>7, <1>8
<1>14. ASSUME NEW b \in AdIds, NEW j \in Ad!Kinds, b # a \/ j # k
       PROVE  Agreeing(b, j)'
  <2>1. \A q \in Reqs : Daily(q, b, j)' <=> Daily(q, b, j)
    BY <1>3, <1>4, <1>5, <1>14 DEF Daily
  <2>2. Ad!Waiting(b, j)' = Ad!Waiting(b, j)
    BY <2>1, AsManyWait
  <2>3. aRows'[b][j] = aRows[b][j] /\ aTotal'[b][j] = aTotal[b][j]
    BY <1>8, <1>10, <1>11, <1>14
  <2> QED
    BY <2>2, <2>3, <1>7, AgreeingStays DEF CountsInv
<1>15. Agreeing(a, k)'
  <2>1. Ad!Waiting(a, k)' = Ad!Waiting(a, k) + 1
    <3>1. ~Daily(p, a, k) /\ Daily(p, a, k)'
      BY <1>3, <1>4, <1>5 DEF Daily
    <3> QED
      BY <3>1, <1>5, OneMoreWaits
  <2>2. F[a][k] \in [Days -> Nat]
    BY <1>9 DEF ByDay
  <2>3. \A d \in Days : /\ d <= t => Ad!CountSince(a, k, d)' = Ad!CountSince(a, k, d) + 1
                        /\ d > t => Ad!CountSince(a, k, d)' = Ad!CountSince(a, k, d)
    <3>1. PICK f, g : f = F[a][k] /\ g = G[a][k]
      OBVIOUS
    <3>2. f \in [Days -> Nat] /\ g = RaisedOn(f, t) /\ t \in Days
      BY <2>2, <3>1, <1>9, <1>10
    <3>3. \A d \in Days : /\ d <= t => Ad!Sum(g, d..AdDays) = Ad!Sum(f, d..AdDays) + 1
                          /\ d > t => Ad!Sum(g, d..AdDays) = Ad!Sum(f, d..AdDays)
      BY <3>2, DayRaised
    <3>4. g = aRows'[a][k] /\ f = aRows[a][k]
      BY <3>1, <1>8
    <3> QED
      BY <3>3, <3>4 DEF Ad!CountSince
  <2>4. \A d \in Days : Ad!MetricsSince(a, k, d)' = Ad!MetricsSince(a, k, d)
    BY <1>7 DEF Ad!MetricsSince
  <2>5. Agreeing(a, k) /\ aDied'[a][k] = aDied[a][k]
    BY <1>7 DEF CountsInv
  <2>6. \A d \in Days : /\ Ad!CountSince(a, k, d) \in Nat /\ Ad!MetricsSince(a, k, d) \in Nat
                        /\ aTotal[a][k] \in Nat /\ aDied[a][k] \in Nat
    BY <1>6, DaySums
  <2>7. 0 \in Days /\ (\A d \in 1..AdDays : d \in Days) /\ 0 <= t
    BY <1>9, DaysFinite DEF Days
  <2>8. Ad!Waiting(a, k) \in Nat
    BY MeteringFinite
  <2>9. aTotal'[a][k] = Ad!CountSince(a, k, 0)'
    BY <1>11, <2>3, <2>5, <2>7 DEF Agreeing
  <2>10. Ad!CountSince(a, k, 0)' = Ad!MetricsSince(a, k, 0)' + Ad!Waiting(a, k)' + aDied'[a][k]
    BY <2>1, <2>3, <2>4, <2>5, <2>6, <2>7, <2>8 DEF Agreeing
  <2>11. ASSUME NEW d \in 1..AdDays
         PROVE  Ad!CountSince(a, k, 0)' - Ad!CountSince(a, k, d)' >= Ad!MetricsSince(a, k, 0)' - Ad!MetricsSince(a, k, d)'
    <3>1. Ad!CountSince(a, k, 0) - Ad!CountSince(a, k, d) >= Ad!MetricsSince(a, k, 0) - Ad!MetricsSince(a, k, d)
      BY <2>5 DEF Agreeing
    <3>2. Ad!CountSince(a, k, 0)' = Ad!CountSince(a, k, 0) + 1
      BY <2>3, <2>7
    <3>3. Ad!CountSince(a, k, d)' = Ad!CountSince(a, k, d) + 1 \/ Ad!CountSince(a, k, d)' = Ad!CountSince(a, k, d)
      <4>1. d \in Days /\ (d <= t \/ d > t)
        BY <2>7, <1>9 DEF Days
      <4> QED
        BY <2>3, <4>1
    <3> QED
      BY <2>4, <2>6, <2>7, <3>1, <3>2, <3>3
  <2> QED
    BY <2>9, <2>10, <2>11 DEF Agreeing
<1>16. \A b \in AdIds, j \in Ad!Kinds : Agreeing(b, j)'
  BY <1>14, <1>15
<1> QED
  BY <1>12, <1>13, <1>16 DEF CountsInv

(* A day to come has no rows and no metrics, nor has any after it.          *)
LEMMA NothingSince ==
  ASSUME CountTypes, NoneAhead, NEW a \in AdIds, NEW k \in Ad!Kinds, NEW d \in Days, d > aToday
  PROVE  Ad!CountSince(a, k, d) = 0 /\ Ad!MetricsSince(a, k, d) = 0
<1>1. d..AdDays \subseteq Days /\ IsFiniteSet(d..AdDays)
  BY DaysFinite
<1>2. \A e \in d..AdDays : e \in Days /\ e > aToday
  BY <1>1 DEF Days, CountTypes
<1>3. \A e \in d..AdDays : aRows[a][k][e] = 0 /\ aMetrics[a][k][e] = 0
  BY <1>2 DEF NoneAhead
<1>4. Ad!Sum(aRows[a][k], d..AdDays) = 0
  BY <1>1, <1>3, SumZero
<1>5. Ad!Sum(aMetrics[a][k], d..AdDays) = 0
  BY <1>1, <1>3, SumZero
<1> QED
  BY <1>4, <1>5 DEF Ad!CountSince, Ad!MetricsSince

(* The metrics of today are raised by a request that waited; no metrics and *)
(* no rows are of a later day.                                              *)
LEMMA ViewMetered ==
  ASSUME CountsInv, AdTypes, NEW p \in Reqs, Ad!trackDaily(p)
  PROVE  CountsInv'
<1>1. PICK a \in AdIds, k \in Ad!Kinds : a = aReq[p].ad /\ k = aReq[p].kind
  <2>1. aReq[p] \in AdViews
    BY AdKinds DEF Ad!trackDaily
  <2> QED
    BY <2>1 DEF AdViews
<1>2. aReq' = [aReq EXCEPT ![p] = Ad!Idle] /\ aReq[p].op = "daily"
  BY DEF Ad!trackDaily, Ad!Ends
<1>3. aReq'[p] = Ad!Idle /\ Ad!Idle.op # "daily" /\ \A q \in Reqs : q # p => aReq'[q] = aReq[q]
  BY <1>2 DEF AdTypes, Ad!Idle
<1>4. CountTypes /\ NoneAhead
  BY DEF CountsInv
<1>5. /\ aMetrics' = [aMetrics EXCEPT ![a][k][aToday] = @ + 1]
      /\ aRows' = aRows /\ aTotal' = aTotal /\ aToday' = aToday /\ aDied' = aDied
  BY <1>1 DEF Ad!trackDaily, Ad!OneMore
<1>6. PICK F, t, G : F = aMetrics /\ t = aToday /\ G = aMetrics'
  OBVIOUS
<1>7. F \in ByDay /\ t \in Days /\ G = RaisedFor(F, a, k, t)
  BY <1>4, <1>5, <1>6 DEF CountTypes, RaisedFor
<1>8. /\ G \in ByDay
      /\ \A b \in AdIds, j \in Ad!Kinds : b # a \/ j # k => G[b][j] = F[b][j]
      /\ G[a][k] = RaisedOn(F[a][k], t)
      /\ \A d \in Days : d > t => G[a][k][d] = F[a][k][d]
  BY <1>7, TodayRaised
<1>9. CountTypes'
  BY <1>4, <1>5, <1>6, <1>8 DEF CountTypes
<1>10. NoneAhead'
  <2> SUFFICES ASSUME NEW b \in AdIds, NEW j \in Ad!Kinds, NEW d \in Days, d > aToday
               PROVE  aRows'[b][j][d] = 0 /\ aMetrics'[b][j][d] = 0
    BY <1>5 DEF NoneAhead
  <2>1. aRows[b][j][d] = 0 /\ aMetrics[b][j][d] = 0
    BY <1>4 DEF NoneAhead
  <2>2. G[b][j][d] = F[b][j][d]
    <3>1. CASE b = a /\ j = k
      BY <3>1, <1>6, <1>8
    <3>2. CASE b # a \/ j # k
      BY <3>2, <1>8
    <3> QED
      BY <3>1, <3>2
  <2> QED
    BY <2>1, <2>2, <1>5, <1>6
<1>11. ASSUME NEW b \in AdIds, NEW j \in Ad!Kinds, b # a \/ j # k
       PROVE  Agreeing(b, j)'
  <2>1. \A q \in Reqs : Daily(q, b, j)' <=> Daily(q, b, j)
    BY <1>1, <1>3, <1>11 DEF Daily
  <2>2. Ad!Waiting(b, j)' = Ad!Waiting(b, j)
    BY <2>1, AsManyWait
  <2>3. aMetrics'[b][j] = aMetrics[b][j]
    BY <1>6, <1>8, <1>11
  <2> QED
    BY <2>2, <2>3, <1>5, AgreeingStays DEF CountsInv
<1>12. Agreeing(a, k)'
  <2>1. Ad!Waiting(a, k) = Ad!Waiting(a, k)' + 1
    <3>1. Daily(p, a, k) /\ ~Daily(p, a, k)'
      BY <1>1, <1>2, <1>3 DEF Daily
    <3> QED
      BY <3>1, <1>3, OneFewerWaits
  <2>2. F[a][k] \in [Days -> Nat]
    BY <1>7 DEF ByDay
  <2>3. \A d \in Days : /\ d <= t => Ad!MetricsSince(a, k, d)' = Ad!MetricsSince(a, k, d) + 1
                        /\ d > t => Ad!MetricsSince(a, k, d)' = Ad!MetricsSince(a, k, d)
    <3>1. PICK f, g : f = F[a][k] /\ g = G[a][k]
      OBVIOUS
    <3>2. f \in [Days -> Nat] /\ g = RaisedOn(f, t) /\ t \in Days
      BY <2>2, <3>1, <1>7, <1>8
    <3>3. \A d \in Days : /\ d <= t => Ad!Sum(g, d..AdDays) = Ad!Sum(f, d..AdDays) + 1
                          /\ d > t => Ad!Sum(g, d..AdDays) = Ad!Sum(f, d..AdDays)
      BY <3>2, DayRaised
    <3>4. g = aMetrics'[a][k] /\ f = aMetrics[a][k]
      BY <3>1, <1>6
    <3> QED
      BY <3>3, <3>4 DEF Ad!MetricsSince
  <2>4. \A d \in Days : Ad!CountSince(a, k, d)' = Ad!CountSince(a, k, d)
    BY <1>5 DEF Ad!CountSince
  <2>5. Agreeing(a, k) /\ aDied'[a][k] = aDied[a][k] /\ aTotal'[a][k] = aTotal[a][k]
    BY <1>5 DEF CountsInv
  <2>6. \A d \in Days : /\ Ad!CountSince(a, k, d) \in Nat /\ Ad!MetricsSince(a, k, d) \in Nat
                        /\ aTotal[a][k] \in Nat /\ aDied[a][k] \in Nat
    BY <1>4, DaySums
  <2>7. 0 \in Days /\ (\A d \in 1..AdDays : d \in Days) /\ 0 <= t
    BY <1>7, DaysFinite DEF Days
  <2>8. Ad!Waiting(a, k)' \in Nat
    BY MeteringFiniteNext
  <2>9. aTotal'[a][k] = Ad!CountSince(a, k, 0)'
    BY <2>4, <2>5, <2>7 DEF Agreeing
  <2>10. Ad!MetricsSince(a, k, 0)' = Ad!MetricsSince(a, k, 0) + 1
    BY <2>3, <2>7
  <2>11. Ad!CountSince(a, k, 0) = Ad!MetricsSince(a, k, 0) + Ad!Waiting(a, k) + aDied[a][k]
    BY <2>5 DEF Agreeing
  <2>12. Ad!CountSince(a, k, 0)' = Ad!MetricsSince(a, k, 0)' + Ad!Waiting(a, k)' + aDied'[a][k]
    BY <2>1, <2>4, <2>5, <2>6, <2>7, <2>8, <2>10, <2>11
  <2>13. ASSUME NEW d \in 1..AdDays
         PROVE  Ad!CountSince(a, k, 0)' - Ad!CountSince(a, k, d)' >= Ad!MetricsSince(a, k, 0)' - Ad!MetricsSince(a, k, d)'
    <3>1. d \in Days /\ (d <= t \/ d > t)
      BY <2>7, <1>7 DEF Days
    <3>2. CASE d <= t
      <4>1. Ad!CountSince(a, k, 0) - Ad!CountSince(a, k, d) >= Ad!MetricsSince(a, k, 0) - Ad!MetricsSince(a, k, d)
        BY <2>5 DEF Agreeing
      <4>2. Ad!MetricsSince(a, k, d)' = Ad!MetricsSince(a, k, d) + 1
        BY <2>3, <3>1, <3>2
      <4> QED
        BY <2>4, <2>6, <2>7, <2>10, <4>1, <4>2
    <3>3. CASE d > t
      <4>1. Ad!CountSince(a, k, d) = 0 /\ Ad!MetricsSince(a, k, d) = 0
        BY <3>1, <3>3, <1>4, <1>6, NothingSince
      <4>2. Ad!MetricsSince(a, k, d)' = Ad!MetricsSince(a, k, d)
        BY <2>3, <3>1, <3>3
      <4>3. Ad!CountSince(a, k, 0) >= Ad!MetricsSince(a, k, 0) + 1
        BY <2>1, <2>6, <2>7, <2>8, <2>11
      <4> QED
        BY <2>4, <2>6, <2>7, <2>10, <4>1, <4>2, <4>3
    <3> QED
      BY <3>1, <3>2, <3>3
  <2> QED
    BY <2>9, <2>12, <2>13 DEF Agreeing
<1>13. \A b \in AdIds, j \in Ad!Kinds : Agreeing(b, j)'
  BY <1>11, <1>12
<1> QED
  BY <1>9, <1>10, <1>13 DEF CountsInv

(* A view that dies between its two statements no longer waits but is noted.*)
LEMMA ViewDies ==
  ASSUME CountsInv, AdTypes, NEW p \in Reqs, Ad!Die(p)
  PROVE  CountsInv'
<1>1. aReq' = [aReq EXCEPT ![p] = Ad!Idle] /\ aRows' = aRows /\ aTotal' = aTotal /\ aMetrics' = aMetrics /\ aToday' = aToday
  BY DEF Ad!Die, Ad!Ends
<1>2. aReq'[p] = Ad!Idle /\ Ad!Idle.op # "daily" /\ \A q \in Reqs : q # p => aReq'[q] = aReq[q]
  BY <1>1 DEF AdTypes, Ad!Idle
<1>3. CASE aReq[p].op # "daily"
  <2>1. aDied' = aDied
    BY <1>3 DEF Ad!Die
  <2> QED
    BY <1>1, <1>2, <1>3, <2>1, OtherRequest
<1>4. CASE aReq[p].op = "daily"
  <2>1. PICK a \in AdIds, k \in Ad!Kinds : a = aReq[p].ad /\ k = aReq[p].kind
    <3>1. aReq[p] \in AdViews
      BY <1>4, AdKinds
    <3> QED
      BY <3>1 DEF AdViews
  <2>2. aDied' = [aDied EXCEPT ![a][k] = @ + 1]
    BY <1>4, <2>1 DEF Ad!Die
  <2>3. CountTypes /\ NoneAhead
    BY DEF CountsInv
  <2>4. /\ aDied' \in InAll /\ aDied'[a][k] = aDied[a][k] + 1
        /\ \A b \in AdIds, j \in Ad!Kinds : b # a \/ j # k => aDied'[b][j] = aDied[b][j]
    BY <2>2, <2>3 DEF CountTypes, InAll
  <2>5. CountTypes'
    BY <1>1, <2>3, <2>4 DEF CountTypes
  <2>6. NoneAhead'
    BY <1>1, <2>3 DEF NoneAhead
  <2>7. ASSUME NEW b \in AdIds, NEW j \in Ad!Kinds, b # a \/ j # k
        PROVE  Agreeing(b, j)'
    <3>1. \A q \in Reqs : Daily(q, b, j)' <=> Daily(q, b, j)
      BY <1>2, <2>1, <2>7 DEF Daily
    <3>2. Ad!Waiting(b, j)' = Ad!Waiting(b, j)
      BY <3>1, AsManyWait
    <3>3. aDied'[b][j] = aDied[b][j]
      BY <2>4, <2>7
    <3> QED
      BY <3>2, <3>3, <1>1, AgreeingStays DEF CountsInv
  <2>8. Agreeing(a, k)'
    <3>1. Ad!Waiting(a, k) = Ad!Waiting(a, k)' + 1
      <4>1. Daily(p, a, k) /\ ~Daily(p, a, k)'
        BY <1>2, <1>4, <2>1 DEF Daily
      <4> QED
        BY <4>1, <1>2, OneFewerWaits
    <3>2. \A d : /\ Ad!CountSince(a, k, d)' = Ad!CountSince(a, k, d)
                /\ Ad!MetricsSince(a, k, d)' = Ad!MetricsSince(a, k, d)
      BY <1>1 DEF Ad!CountSince, Ad!MetricsSince
    <3>3. Agreeing(a, k) /\ aTotal'[a][k] = aTotal[a][k]
      BY <1>1 DEF CountsInv
    <3>4. 0 \in Days
      BY DaysFinite DEF Days
    <3>5. Ad!MetricsSince(a, k, 0) \in Nat /\ aDied[a][k] \in Nat
      BY <2>3, <3>4, DaySums
    <3>6. Ad!Waiting(a, k)' \in Nat
      BY MeteringFiniteNext
    <3>7. Ad!CountSince(a, k, 0)' = Ad!MetricsSince(a, k, 0)' + Ad!Waiting(a, k)' + aDied'[a][k]
      BY <2>4, <3>1, <3>2, <3>3, <3>5, <3>6 DEF Agreeing
    <3> QED
      BY <3>2, <3>3, <3>7 DEF Agreeing
  <2> QED
    BY <2>5, <2>6, <2>7, <2>8 DEF CountsInv
<1> QED
  BY <1>3, <1>4

LEMMA CountsNext ==
  ASSUME CountsInv, AdTypes, [Ad!Next]_aVars
  PROVE  CountsInv'
<1>1. ASSUME NEW p \in Reqs, NEW a \in AdIds,
             Ad!Create(p, a) \/ Ad!UpdateCheck(p, a) \/ Ad!RemoveCheck(p, a) \/ Ad!TrackCheck(p, a)
      PROVE  CountsInv'
  BY <1>1, Undisturbed
<1>2. ASSUME NEW p \in Reqs,
             \/ Ad!Insert(p) \/ Ad!UpdateDrop(p) \/ Ad!UpdatePut(p) \/ Ad!UpdateWrite(p)
             \/ Ad!RemoveFile(p) \/ Ad!RemoveWrite(p) \/ Ad!BulkUpdate(p)
      PROVE  CountsInv'
  BY <1>2, UndisturbedLater
<1>3. ASSUME NEW p \in Reqs, Ad!trackView(p) \/ Ad!trackDaily(p) \/ Ad!Die(p)
      PROVE  CountsInv'
  BY <1>3, ViewCounted, ViewMetered, ViewDies
<1>4. CASE Ad!NextDay \/ UNCHANGED aVars
  <2>1. aRows' = aRows /\ aMetrics' = aMetrics /\ aTotal' = aTotal /\ aDied' = aDied /\ aReq' = aReq
    BY <1>4 DEF Ad!NextDay, aVars
  <2>2. aToday' \in Days /\ aToday' >= aToday
    <3>1. aToday \in Days
      BY DEF CountsInv, CountTypes
    <3>2. aToday' = aToday \/ (aToday < AdDays /\ aToday' = aToday + 1)
      BY <1>4 DEF Ad!NextDay, aVars
    <3> QED
      BY <3>1, <3>2, DaysFinite DEF Days
  <2>3. \A q \in Reqs : \A a, k : Daily(q, a, k)' <=> Daily(q, a, k)
    BY <2>1 DEF Daily
  <2> QED
    BY <2>1, <2>2, <2>3, UncountedStep
<1> QED
  BY <1>1, <1>2, <1>3, <1>4 DEF Ad!Next

LEMMA CountsInit ==
  ASSUME MCInit
  PROVE  CountsInv
<1>1. /\ aRows = Ad!Zero /\ aMetrics = Ad!Zero /\ aTotal = [a \in AdIds |-> [k \in Ad!Kinds |-> 0]]
      /\ aReq = [p \in Reqs |-> Ad!Idle] /\ aToday = 0
      /\ aDied = [a \in AdIds |-> [k \in Ad!Kinds |-> 0]]
  BY DEF MCInit, Ad!Uncounted
<1>2. Ad!Zero = [a \in AdIds |-> [k \in Ad!Kinds |-> [d \in Days |-> 0]]]
  BY DEF Ad!Zero, Days
<1>3. CountTypes
  BY <1>1, <1>2, DaysFinite DEF CountTypes, ByDay, InAll, Days
<1>4. NoneAhead
  BY <1>1, <1>2 DEF NoneAhead
<1>5. ASSUME NEW a \in AdIds, NEW k \in Ad!Kinds
      PROVE  Agreeing(a, k)
  <2>1. ASSUME NEW d \in Days
        PROVE  Ad!CountSince(a, k, d) = 0 /\ Ad!MetricsSince(a, k, d) = 0
    <3>1. IsFiniteSet(d..AdDays) /\ d..AdDays \subseteq Days
      BY DaysFinite
    <3>2. \A e \in d..AdDays : aRows[a][k][e] = 0 /\ aMetrics[a][k][e] = 0
      BY <3>1, <1>1, <1>2
    <3>3. Ad!Sum(aRows[a][k], d..AdDays) = 0
      BY <3>1, <3>2, SumZero
    <3>4. Ad!Sum(aMetrics[a][k], d..AdDays) = 0
      BY <3>1, <3>2, SumZero
    <3> QED
      BY <3>3, <3>4 DEF Ad!CountSince, Ad!MetricsSince
  <2>2. 0 \in Days /\ \A d \in 1..AdDays : d \in Days
    BY DaysFinite DEF Days
  <2>3. Ad!Waiting(a, k) = 0
    <3>1. Metering(a, k) = {}
      BY <1>1 DEF Metering, Daily, Ad!Idle
    <3> QED
      BY <3>1, MeteringFinite, FS_EmptySet
  <2>4. aTotal[a][k] = 0 /\ aDied[a][k] = 0
    BY <1>1
  <2> QED
    BY <2>1, <2>2, <2>3, <2>4 DEF Agreeing
<1> QED
  BY <1>3, <1>4, <1>5 DEF CountsInv

LEMMA CountsTold ==
  ASSUME CountsInv
  PROVE  Ad!CountsAgree
BY DEF CountsInv, Agreeing, Ad!CountsAgree

(* The total of an ad's views or clicks is the number of their rows, the    *)
(* metrics of its days lag behind them by the requests between their two    *)
(* statements and by those that died there, no more, and a view is metered  *)
(* a day later perhaps but never a day earlier                              *)
(* (ads-manager.service.ts:1142, :1160).                                    *)
THEOREM CountsOfAdsAgree == MCSpec => []CountsAgree
<1> DEFINE Inv == AdInv /\ CountsInv
<1>1. MCInit => Inv
  BY AdInit, CountsInit
<1>2. Inv /\ [MCNext]_allVars => Inv'
  <2> SUFFICES ASSUME Inv, [MCNext]_allVars
               PROVE  Inv'
    OBVIOUS
  <2>1. [Ad!Next]_aVars /\ AdTypes
    BY StepsOfParts DEF AdInv
  <2>2. AdInv' /\ CountsInv'
    BY <2>1, AdNextInv, CountsNext
  <2> QED
    BY <2>2
<1>3. Inv => CountsAgree
  BY CountsTold DEF CountsAgree
<1> QED
  BY <1>1, <1>2, <1>3, PTL DEF MCSpec

-----------------------------------------------------------------------------
(***************************************************************************)
(* The types of the parts.  Most follow from the invariants above; what is *)
(* left are the bounds of an instance, and what nothing else depends on.   *)
(***************************************************************************)
TogglesBounded ==
  /\ tCalls \in 0..ToggleCalls /\ tId \in [Tg!Pairs -> 0..ToggleCalls]
  /\ \A p \in Reqs : tReq[p].op = "create" => tReq[p].new \in 0..ToggleCalls

LEMMA TogglesStayBounded ==
  ASSUME ToggleInv, TogglesBounded, [Tg!Next]_tVars
  PROVE  TogglesBounded'
<1>1. ToggleCalls \in Nat
  BY ContentAssumption DEF ContentAssumption, Tg!TogglesAssumption
<1>2. Tg!Idle.op = "none"
  BY DEF Tg!Idle
<1>3. ASSUME NEW p \in Reqs, Tg!Ends(p)
      PROVE  tCalls' = tCalls /\ \A q \in Reqs : tReq'[q].op = "create" => tReq'[q].new \in 0..ToggleCalls
  BY <1>2, <1>3 DEF Tg!Ends, ToggleInv, TogglesBounded
<1>4. ASSUME NEW p \in Reqs, NEW kind, Tg!Look(p, kind)
      PROVE  TogglesBounded'
  <2>1. PICK t \in tLive, u \in ToggleUsers :
          Tg!Arrive(p, [op |-> IF tId[<<t, u>>] = 0 THEN "create" ELSE "delete",
                        at |-> <<t, u>>, id |-> tId[<<t, u>>], new |-> tCalls + 1])
    BY <1>4 DEF Tg!Look
  <2>2. PICK r : r = [op |-> IF tId[<<t, u>>] = 0 THEN "create" ELSE "delete",
                      at |-> <<t, u>>, id |-> tId[<<t, u>>], new |-> tCalls + 1]
    OBVIOUS
  <2>3. tReq' = [tReq EXCEPT ![p] = r] /\ r.new = tCalls + 1 /\ tCalls < ToggleCalls /\ tCalls' = tCalls + 1
    BY <2>1, <2>2 DEF Tg!Arrive
  <2>4. r.new \in 0..ToggleCalls /\ tCalls' \in 0..ToggleCalls
    BY <1>1, <2>3 DEF TogglesBounded
  <2>5. tId' = tId
    BY <1>4 DEF Tg!Look, Tg!Quiet
  <2> QED
    BY <2>3, <2>4, <2>5 DEF TogglesBounded, ToggleInv
<1>5. ASSUME NEW p \in Reqs, Tg!Delete(p) \/ Tg!Create(p) \/ Tg!Cascade(p) \/ Tg!Die(p)
      PROVE  TogglesBounded'
  <2>1. tCalls' = tCalls /\ \A q \in Reqs : tReq'[q].op = "create" => tReq'[q].new \in 0..ToggleCalls
    BY <1>3, <1>5 DEF Tg!Delete, Tg!Create, Tg!Cascade, Tg!Die
  <2>2. tId' \in [Tg!Pairs -> 0..ToggleCalls]
    <3>1. tId \in [Tg!Pairs -> 0..ToggleCalls] /\ 0 \in 0..ToggleCalls
      BY <1>1 DEF TogglesBounded
    <3>2. CASE Tg!Delete(p) \/ Tg!Die(p)
      BY <3>1, <3>2 DEF Tg!Delete, Tg!Die, Tg!Quiet
    <3>3. CASE Tg!Create(p)
      BY <3>1, <3>3 DEF Tg!Create, TogglesBounded
    <3>4. CASE Tg!Cascade(p)
      BY <3>1, <3>4 DEF Tg!Cascade, Tg!Cleared
    <3> QED
      BY <1>5, <3>2, <3>3, <3>4
  <2> QED
    BY <2>1, <2>2 DEF TogglesBounded
<1>6. ASSUME NEW p \in Reqs, Tg!RemovePost(p)
      PROVE  TogglesBounded'
  <2>1. PICK t \in tLive : Tg!Arrive(p, [op |-> "remove", at |-> <<t>>]) /\ tId' = Tg!Cleared(tId, t)
    BY <1>6 DEF Tg!RemovePost
  <2>2. tId' \in [Tg!Pairs -> 0..ToggleCalls]
    BY <1>1, <2>1 DEF TogglesBounded, Tg!Cleared
  <2>3. tCalls' \in 0..ToggleCalls
    BY <1>1, <2>1 DEF TogglesBounded, Tg!Arrive
  <2> QED
    BY <2>1, <2>2, <2>3 DEF Tg!Arrive, TogglesBounded, ToggleInv
<1>7. ASSUME NEW t \in Tg!Targets, Tg!Remove(t)
      PROVE  TogglesBounded'
  <2>1. tCalls' \in 0..ToggleCalls
    BY <1>1, <1>7 DEF TogglesBounded, Tg!Remove
  <2> QED
    BY <2>1, <1>7 DEF TogglesBounded, Tg!Remove
<1>8. CASE UNCHANGED tVars
  BY <1>8 DEF TogglesBounded, tVars
<1> QED
  BY <1>4, <1>5, <1>6, <1>7, <1>8 DEF Tg!Next, Tg!reactToPost, Tg!markReviewHelpful, Tg!toggleFollow

AnnouncementsBounded == nToday \in 0..AnnDays /\ nCalls \in 0..AnnCalls /\ nHidden \subseteq AnnIds

LEMMA AnnouncementsStayBounded ==
  ASSUME AnnInv, AnnouncementsBounded, [An!Next]_nVars
  PROVE  AnnouncementsBounded'
<1>1. AnnDays \in Nat /\ AnnCalls \in Nat
  BY ContentAssumption DEF ContentAssumption, An!AnnouncementsAssumption
<1>2. ASSUME NEW p \in Reqs, NEW r, An!Arrive(p, r), An!Stays
      PROVE  AnnouncementsBounded'
  BY <1>1, <1>2 DEF An!Arrive, An!Stays, AnnouncementsBounded
<1>3. ASSUME NEW p \in Reqs, NEW i \in AnnIds,
             An!CreateCheck(p, i) \/ An!UpdateCheck(p, i) \/ An!publish(p, i) \/ An!unpublish(p, i) \/ An!RemoveCheck(p, i)
      PROVE  AnnouncementsBounded'
  BY <1>2, <1>3 DEF An!CreateCheck, An!UpdateCheck, An!publish, An!unpublish, An!RemoveCheck
<1>4. ASSUME NEW p \in Reqs, An!Create(p) \/ An!update(p) \/ An!remove(p)
      PROVE  AnnouncementsBounded'
  <2>1. nReq[p].id \in AnnIds
    <3>1. nReq[p] \in AnnRequest
      BY DEF AnnInv
    <3>2. nReq[p] \in AnnInserts \/ nReq[p] \in AnnWrites \/ nReq[p] \in AnnRemoves
      BY <1>4, <3>1, AnnRequestKinds DEF An!Create, An!update, An!remove
    <3> QED
      BY <3>2 DEF AnnInserts, AnnWrites, AnnRemoves
  <2>2. nToday' = nToday /\ nCalls' = nCalls
    BY <1>4 DEF An!Create, An!update, An!remove, An!Ends
  <2>3. nHidden' \subseteq nHidden \cup {nReq[p].id}
    BY <1>4 DEF An!Create, An!update, An!remove
  <2> QED
    BY <2>1, <2>2, <2>3 DEF AnnouncementsBounded
<1>5. CASE An!NextDay
  BY <1>1, <1>5 DEF An!NextDay, AnnouncementsBounded
<1>6. CASE UNCHANGED nVars
  BY <1>6 DEF nVars, AnnouncementsBounded
<1> QED
  BY <1>3, <1>4, <1>5, <1>6 DEF An!Next

RoomsOfOpen ==
  /\ gClosed \subseteq SocketIds
  /\ DOMAIN gRooms = SocketIds /\ \A s \in SocketIds : s \notin gOpen => gRooms[s] = {}

LEMMA RoomsStay ==
  ASSUME RoomsOfOpen, gOpen \subseteq SocketIds, [Gw!Next]_gVars
  PROVE  RoomsOfOpen'
<1>1. ASSUME NEW s \in SocketIds, Gw!handleConnection(s)
      PROVE  RoomsOfOpen'
  BY <1>1 DEF RoomsOfOpen, Gw!handleConnection
<1>2. ASSUME NEW s \in SocketIds, Gw!handleDisconnect(s)
      PROVE  RoomsOfOpen'
  BY <1>2 DEF RoomsOfOpen, Gw!handleDisconnect
<1>3. ASSUME NEW s \in SocketIds, Gw!handleRoomJoin(s)
      PROVE  RoomsOfOpen'
  BY <1>3 DEF RoomsOfOpen, Gw!handleRoomJoin
<1>4. CASE Gw!Restart
  BY <1>4 DEF RoomsOfOpen, Gw!Restart
<1>5. CASE UNCHANGED <<gOpen, gClosed, gRooms>>
  BY <1>5 DEF RoomsOfOpen
<1> QED
  BY <1>1, <1>2, <1>3, <1>4, <1>5 DEF Gw!Next, Gw!handleJoin, Gw!listenForMessages, Gw!handleCall,
     Gw!handleRecordingChunk, Gw!handleRecordingEnd, Gw!connections, gVars

ProfileBounded ==
  /\ pCalls <= ProfileCalls /\ pDisturbed \subseteq Pr!Columns /\ pFiles \subseteq 1..pCalls
  /\ \A p \in Reqs : Of(p, "avatar") => pReq[p].file # 0

LEMMA ProfileTyped ==
  ASSUME ProfileInv, ProfileBounded
  PROVE  Pr!TypeOK
<1>1. ProfileTypes /\ PicturesApart /\ ProfileCalls \in Nat
  BY ContentAssumption DEF ProfileInv, ContentAssumption, Pr!ProfileAssumption
<1>2. pAvatar \in 0..ProfileCalls
  <2>1. OfAvatar(pAvatar) /\ pAvatar \in Nat
    BY <1>1 DEF OfAvatar, ProfileTypes
  <2> QED
    BY <1>1, <2>1 DEF PicturesApart, ProfileBounded, ProfileTypes
<1>3. pPortfolio \subseteq 1..ProfileCalls
  <2> SUFFICES ASSUME NEW f \in pPortfolio
               PROVE  f \in 1..ProfileCalls
    OBVIOUS
  <2>1. OfPortfolio(f) /\ f \in Nat
    BY <1>1 DEF OfPortfolio, ProfileTypes
  <2> QED
    BY <1>1, <2>1 DEF PicturesApart, ProfileBounded, ProfileTypes
<1>4. pFiles \subseteq 1..ProfileCalls /\ pCalls \in 0..ProfileCalls
  BY <1>1 DEF ProfileTypes, ProfileBounded
<1> QED
  BY <1>1, <1>2, <1>3, <1>4 DEF Pr!TypeOK, ProfileTypes, ProfileBounded

LEMMA ProfileStaysBounded ==
  ASSUME ProfileInv, ProfileBounded, [Pr!Next]_pVars
  PROVE  ProfileBounded'
<1>1. ProfileTypes /\ PicturesApart /\ ProfileCalls \in Nat /\ pCalls \in Nat
  BY ContentAssumption DEF ProfileInv, ProfileTypes, ContentAssumption, Pr!ProfileAssumption
<1>2. ASSUME NEW p \in Reqs, NEW r, NEW spoils, Pr!Arrive(p, r, spoils), r.column \in Pr!Columns, pFiles' = pFiles,
             r.column = "avatar" => r.file # 0
      PROVE  ProfileBounded'
  <2>1. pCalls' <= ProfileCalls /\ pFiles' \subseteq 1..pCalls'
    BY <1>1, <1>2 DEF Pr!Arrive, ProfileBounded
  <2>2. pDisturbed' \subseteq Pr!Columns
    BY <1>2 DEF Pr!Arrive, ProfileBounded
  <2>3. \A q \in Reqs : Of(q, "avatar")' => pReq'[q].file # 0
    BY <1>1, <1>2 DEF Pr!Arrive, ProfileBounded, Of, ProfileTypes
  <2> QED
    BY <2>1, <2>2, <2>3 DEF ProfileBounded
<1>3. ASSUME NEW p \in Reqs,
             \/ Pr!ProfileCheck(p) \/ Pr!PortfolioCheck(p)
             \/ Pr!createSkillCheck(p) \/ Pr!updateSkillCheck(p) \/ Pr!deleteSkillCheck(p)
      PROVE  ProfileBounded'
  <2>1. CASE Pr!ProfileCheck(p)
    <3>1. PICK given \in {"new", "remove", "fields"} :
            Pr!Arrive(p, [op |-> IF given = "fields" THEN "save" ELSE "drop", column |-> "avatar",
                          given |-> given, old |-> pAvatar, was |-> pPortfolio, file |-> pCalls + 1], FALSE)
      BY <2>1 DEF Pr!ProfileCheck
    <3>2. PICK r : r = [op |-> IF given = "fields" THEN "save" ELSE "drop", column |-> "avatar",
                        given |-> given, old |-> pAvatar, was |-> pPortfolio, file |-> pCalls + 1]
      OBVIOUS
    <3>3. r.column = "avatar" /\ r.file = pCalls + 1
      BY <3>2
    <3>4. r.file # 0
      BY <1>1, <3>3
    <3>5. Pr!Arrive(p, r, FALSE)
      BY <3>1, <3>2
    <3>6. pFiles' = pFiles
      BY <2>1 DEF Pr!ProfileCheck
    <3>7. r.column \in Pr!Columns
      BY <3>3 DEF Pr!Columns
    <3> QED
      BY <1>2, <3>4, <3>5, <3>6, <3>7
  <2>2. CASE Pr!PortfolioCheck(p)
    <3>1. PICK D \in SUBSET pPortfolio, add \in {"picture", "other", "none"} :
            Pr!Arrive(p, [op |-> "edit", column |-> "portfolio", todo |-> D, add |-> add,
                          list |-> pPortfolio, file |-> pCalls + 1], FALSE)
      BY <2>2 DEF Pr!PortfolioCheck
    <3>2. PICK r : r = [op |-> "edit", column |-> "portfolio", todo |-> D, add |-> add,
                        list |-> pPortfolio, file |-> pCalls + 1]
      OBVIOUS
    <3>3. Pr!Arrive(p, r, FALSE)
      BY <3>1, <3>2
    <3>4. r.column = "portfolio"
      BY <3>2
    <3> QED
      BY <1>2, <2>2, <3>3, <3>4 DEF Pr!PortfolioCheck, Pr!Columns
  <2>3. CASE Pr!createSkillCheck(p)
    <3>1. PICK r, spoils : Pr!Arrive(p, r, spoils) /\ r.column = "skills"
      BY <2>3 DEF Pr!createSkillCheck
    <3> QED
      BY <1>2, <2>3, <3>1 DEF Pr!createSkillCheck, Pr!Columns
  <2>4. CASE Pr!updateSkillCheck(p)
    <3>1. PICK r, spoils : Pr!Arrive(p, r, spoils) /\ r.column = "skills"
      BY <2>4 DEF Pr!updateSkillCheck
    <3> QED
      BY <1>2, <2>4, <3>1 DEF Pr!updateSkillCheck, Pr!Columns
  <2>5. CASE Pr!deleteSkillCheck(p)
    <3>1. PICK k \in SkillIds : Pr!Arrive(p, [op |-> "erase", column |-> "skills", id |-> k], FALSE)
      BY <2>5 DEF Pr!deleteSkillCheck
    <3>2. PICK r : r = [op |-> "erase", column |-> "skills", id |-> k]
      OBVIOUS
    <3>3. Pr!Arrive(p, r, FALSE)
      BY <3>1, <3>2
    <3>4. r.column = "skills"
      BY <3>2
    <3> QED
      BY <1>2, <2>5, <3>3, <3>4 DEF Pr!deleteSkillCheck, Pr!Columns
  <2> QED
    BY <1>3, <2>1, <2>2, <2>3, <2>4, <2>5
<1>4. ASSUME NEW p \in Reqs, NEW r, Pr!Becomes(p, r), pFiles' \subseteq 1..pCalls, pDisturbed' \subseteq Pr!Columns,
             r.column = "avatar" => Of(p, "avatar") /\ r.file = pReq[p].file
      PROVE  ProfileBounded'
  BY <1>1, <1>4 DEF Pr!Becomes, ProfileBounded, Of, ProfileTypes
<1>5. ASSUME NEW p \in Reqs, Pr!Ends(p), pFiles' = pFiles, pDisturbed' \subseteq Pr!Columns
      PROVE  ProfileBounded'
  BY <1>4, <1>5 DEF Pr!Ends, Pr!Idle, ProfileBounded
<1>6. ASSUME NEW p \in Reqs, Pr!AvatarDrop(p)
      PROVE  ProfileBounded'
  <2>1. PICK o : Pr!Becomes(p, [pReq[p] EXCEPT !.op = o])
    BY <1>6 DEF Pr!AvatarDrop
  <2>2. PICK r : r = [pReq[p] EXCEPT !.op = o]
    OBVIOUS
  <2>3. pReq[p] \in AvatarCalls /\ Of(p, "avatar")
    BY <1>1, <1>6, CallKinds DEF Pr!AvatarDrop
  <2>4. r.file = pReq[p].file
    BY <2>2, <2>3 DEF AvatarCalls
  <2>5. pFiles' \subseteq 1..pCalls /\ pDisturbed' \subseteq Pr!Columns
    BY <1>6 DEF Pr!AvatarDrop, ProfileBounded
  <2> QED
    BY <1>4, <2>1, <2>2, <2>3, <2>4, <2>5
<1>7. ASSUME NEW p \in Reqs, Pr!AvatarPut(p)
      PROVE  ProfileBounded'
  <2>1. PICK r : r = [pReq[p] EXCEPT !.op = "save"] /\ Pr!Becomes(p, r)
    BY <1>7 DEF Pr!AvatarPut
  <2>2. pReq[p] \in AvatarCalls /\ Of(p, "avatar")
    BY <1>1, <1>7, CallKinds DEF Pr!AvatarPut
  <2>3. r.file = pReq[p].file
    BY <2>1, <2>2 DEF AvatarCalls
  <2>4. pReq[p].file \in 1..pCalls
    <3>1. pReq[p].file \in Nat /\ OfAvatar(pReq[p].file) /\ pReq[p].file # 0
      BY <2>2 DEF AvatarCalls, OfAvatar, ProfileBounded
    <3> QED
      BY <1>1, <3>1 DEF PicturesApart
  <2>5. pFiles' \subseteq 1..pCalls /\ pDisturbed' \subseteq Pr!Columns
    BY <1>7, <2>4 DEF Pr!AvatarPut, ProfileBounded
  <2> QED
    BY <1>4, <2>1, <2>2, <2>3, <2>5
<1>8. ASSUME NEW p \in Reqs, Pr!PortfolioDrop(p)
      PROVE  ProfileBounded'
  <2>1. pReq[p] \in PortfolioCalls
    BY <1>1, <1>8, CallKinds DEF Pr!PortfolioDrop
  <2>2. PICK r : Pr!Becomes(p, r) /\ r.column = "portfolio"
    <3>1. PICK f : \/ Pr!Becomes(p, [pReq[p] EXCEPT !.todo = @ \ {f}, !.list = @ \ {f}])
                   \/ Pr!Becomes(p, [pReq[p] EXCEPT !.todo = @ \ {f}])
      BY <1>8 DEF Pr!PortfolioDrop
    <3>2. ASSUME NEW S, NEW T, NEW r, r = [pReq[p] EXCEPT !.todo = S, !.list = T] \/ r = [pReq[p] EXCEPT !.todo = S]
          PROVE  r.column = "portfolio"
      BY <2>1, <3>2 DEF PortfolioCalls
    <3>3. PICK r, S, T :
            Pr!Becomes(p, r) /\ (r = [pReq[p] EXCEPT !.todo = S, !.list = T] \/ r = [pReq[p] EXCEPT !.todo = S])
      BY <3>1
    <3>4. r.column = "portfolio"
      BY <3>2, <3>3
    <3> QED
      BY <3>3, <3>4
  <2>3. pFiles' \subseteq 1..pCalls /\ pDisturbed' \subseteq Pr!Columns
    BY <1>8 DEF Pr!PortfolioDrop, ProfileBounded
  <2> QED
    BY <1>4, <2>2, <2>3
<1>9. ASSUME NEW p \in Reqs, Pr!PortfolioPut(p)
      PROVE  ProfileBounded'
  <2>1. pReq[p] \in PortfolioCalls /\ Of(p, "portfolio")
    BY <1>1, <1>9, CallKinds DEF Pr!PortfolioPut
  <2>2. pReq[p].file \in 1..pCalls
    <3>1. pReq[p].file \in Nat /\ OfPortfolio(pReq[p].file)
      BY <2>1 DEF PortfolioCalls, OfPortfolio
    <3> QED
      BY <1>1, <3>1 DEF PicturesApart
  <2>3. PICK r : Pr!Becomes(p, r) /\ r.column # "avatar"
    <3>1. CASE pReq[p].add = "picture"
      <4>1. Pr!Becomes(p, [pReq[p] EXCEPT !.add = "none", !.list = @ \cup {pReq[p].file}])
        BY <1>9, <3>1 DEF Pr!PortfolioPut
      <4>2. PICK r : r = [pReq[p] EXCEPT !.add = "none", !.list = @ \cup {pReq[p].file}]
        OBVIOUS
      <4>3. Pr!Becomes(p, r)
        BY <4>1, <4>2
      <4>4. r.column = "portfolio"
        BY <2>1, <4>2 DEF PortfolioCalls
      <4> QED
        BY <4>3, <4>4
    <3>2. CASE pReq[p].add # "picture"
      <4>1. Pr!Becomes(p, Pr!Idle)
        BY <1>9, <3>2 DEF Pr!PortfolioPut, Pr!Ends
      <4> QED
        BY <4>1 DEF Pr!Idle
    <3> QED
      BY <3>1, <3>2
  <2>4. pFiles' \subseteq 1..pCalls /\ pDisturbed' \subseteq Pr!Columns
    BY <1>9, <2>2 DEF Pr!PortfolioPut, ProfileBounded, Pr!Columns
  <2> QED
    BY <1>4, <2>3, <2>4
<1>10. ASSUME NEW p \in Reqs, Pr!updateProfile(p) \/ Pr!uploadPortfolioImage(p) \/ Pr!SkillWrite(p)
       PROVE  ProfileBounded'
  <2>1. Pr!Ends(p) /\ pFiles' = pFiles /\ pDisturbed' = pDisturbed
    BY <1>10 DEF Pr!updateProfile, Pr!uploadPortfolioImage, Pr!SkillWrite
  <2> QED
    BY <1>5, <2>1 DEF ProfileBounded
<1>11. ASSUME NEW p \in Reqs, Pr!Die(p)
       PROVE  ProfileBounded'
  <2>1. pReq[p] \in ProfileCall /\ pReq[p] # Pr!Idle
    BY <1>1, <1>11 DEF Pr!Die, ProfileTypes
  <2>2. pReq[p].column \in Pr!Columns
    BY <2>1 DEF ProfileCall, AvatarCalls, PortfolioCalls, WordCalls, EraseCalls, Pr!Columns
  <2>3. pDisturbed' \subseteq Pr!Columns /\ pFiles' = pFiles /\ Pr!Ends(p)
    BY <1>11, <2>2 DEF Pr!Die, ProfileBounded
  <2> QED
    BY <1>5, <2>3
<1>12. CASE UNCHANGED pVars
  BY <1>12 DEF pVars, ProfileBounded, Of
<1> QED
  BY <1>3, <1>6, <1>7, <1>8, <1>9, <1>10, <1>11, <1>12 DEF Pr!Next

ReviewsBounded ==
  /\ fCalls <= FeedbackCalls /\ fLoose \subseteq 1..fCalls
  /\ fSameChurch \subseteq ReviewPairs /\ fBroken \subseteq Opinions
  /\ \A j \in ReviewReplies : fReply[j].state # "new" => fReply[j].call # 0

LEMMA ReviewsTyped ==
  ASSUME FeedbackInv, ReviewsBounded
  PROVE  Fb!TypeOK
<1>1. FeedbackTypes /\ CallsMade /\ WroteOnce /\ FeedbackCalls \in Nat
  BY ContentAssumption DEF FeedbackInv, ContentAssumption, Fb!FeedbackAssumption
<1>2. /\ \A i \in ReviewPairs : fReview[i].state \in {"new", "live", "deleted"}
      /\ \A j \in ReviewReplies : fReply[j].state \in {"new", "live", "deleted"}
  BY <1>1 DEF FeedbackTypes, ReviewRows, ReplyRows, RowStates
<1>3. fFiles \cup fLoose \subseteq 1..FeedbackCalls
  <2>1. \A f \in fFiles : f \in Nat /\ f <= fCalls /\ f # 0
    BY <1>1 DEF FeedbackTypes, CallsMade
  <2>2. fCalls \in Nat /\ fCalls <= FeedbackCalls
    BY <1>1 DEF FeedbackTypes, ReviewsBounded
  <2>3. fFiles \subseteq 1..FeedbackCalls
    BY <1>1, <2>1, <2>2
  <2>4. fLoose \subseteq 1..FeedbackCalls
    BY <1>1, <2>2 DEF ReviewsBounded
  <2> QED
    BY <2>3, <2>4
<1>4. fSameChurch \cup fWrote \subseteq ReviewPairs
  BY <1>1 DEF ReviewsBounded, WroteOnce
<1> QED
  BY <1>2, <1>3, <1>4 DEF Fb!TypeOK, ReviewsBounded, Opinions

LEMMA ReviewsStayBounded ==
  ASSUME FeedbackInv, ReviewsBounded, [Fb!Next]_fVars
  PROVE  ReviewsBounded'
<1>1. FeedbackTypes /\ CallsMade /\ FeedbackCalls \in Nat /\ fCalls \in Nat
  BY ContentAssumption DEF FeedbackInv, FeedbackTypes, ContentAssumption, Fb!FeedbackAssumption
<1>2. ASSUME NEW S, NEW q \in Reqs, Submitting(q), S = fLoose \cup {fReq[q].call}
      PROVE  S \subseteq 1..fCalls
  <2>1. fReq[q].call \in Nat
    BY <1>1, <1>2, FeedbackKinds DEF FeedbackTypes, Submitting, Submits, Answers
  <2>2. fReq[q].call <= fCalls /\ fReq[q].call # 0
    BY <1>1, <1>2 DEF CallsMade
  <2>3. fReq[q].call \in 1..fCalls
    BY <1>1, <2>1, <2>2
  <2> QED
    BY <1>2, <2>3 DEF ReviewsBounded
<1>3. ASSUME NEW p \in Reqs, NEW r, Fb!Arrive(p, r), Fb!NoRows, Fb!NoGhosts
      PROVE  ReviewsBounded'
  <2>1. fCalls' = fCalls + 1 /\ fCalls < FeedbackCalls
    BY <1>3 DEF Fb!Arrive
  <2>2. fCalls' <= FeedbackCalls /\ fLoose' \subseteq 1..fCalls'
    BY <1>1, <1>3, <2>1 DEF Fb!NoGhosts, ReviewsBounded
  <2> QED
    BY <1>3, <2>2 DEF Fb!NoRows, Fb!NoGhosts, ReviewsBounded
<1>4. ASSUME NEW p \in Reqs, NEW i \in ReviewPairs,
             \/ Fb!ReviewCheck(p, i) \/ Fb!UpdateCheck(p, i) \/ Fb!DeleteCheck(p, i)
             \/ \E j \in ReviewReplies : Fb!ReplyCheck(p, i, j)
      PROVE  ReviewsBounded'
  BY <1>3, <1>4 DEF Fb!ReviewCheck, Fb!UpdateCheck, Fb!DeleteCheck, Fb!ReplyCheck
<1>5. ASSUME NEW p \in Reqs, NEW j \in ReviewReplies, Fb!ReplyDeleteCheck(p, j)
      PROVE  ReviewsBounded'
  BY <1>3, <1>5 DEF Fb!ReplyDeleteCheck
<1>6. ASSUME NEW p \in Reqs, Fb!createReview(p)
      PROVE  ReviewsBounded'
  <2>1. Submitting(p) /\ (fLoose' = fLoose \/ fLoose' = fLoose \cup {fReq[p].call})
    BY <1>6 DEF Fb!createReview, Submitting
  <2>2. fCalls' = fCalls /\ fSameChurch' = fSameChurch /\ fBroken' = fBroken /\ fReply' = fReply
    BY <1>6 DEF Fb!createReview, Fb!Ends, Fb!Becomes
  <2>3. fLoose' \subseteq 1..fCalls
    BY <1>2, <2>1 DEF ReviewsBounded
  <2> QED
    BY <2>2, <2>3 DEF ReviewsBounded
<1>7. ASSUME NEW p \in Reqs, Fb!updateReview(p) \/ Fb!Unlink(p)
      PROVE  ReviewsBounded'
  <2>1. fCalls' = fCalls /\ UNCHANGED <<fLoose, fSameChurch, fBroken, fReply>>
    BY <1>7 DEF Fb!updateReview, Fb!Unlink, Fb!Ends, Fb!Becomes, Fb!NoRows, Fb!NoGhosts
  <2> QED
    BY <2>1 DEF ReviewsBounded
<1>8. ASSUME NEW p \in Reqs, Fb!deleteReview(p)
      PROVE  ReviewsBounded'
  <2>1. /\ fCalls' = fCalls /\ UNCHANGED <<fSameChurch, fBroken, fReply>> /\ fReq[p].id \in ReviewPairs
        /\ fLoose' = fLoose \cup {fReply[j].call : j \in Fb!RepliesTo(fReq[p].id) \ fReq[p].all}
    BY <1>8 DEF Fb!deleteReview, Fb!Ends, Fb!Becomes
  <2>2. ASSUME NEW j \in Fb!RepliesTo(fReq[p].id)
        PROVE  fReply[j].call \in 1..fCalls
    <3>1. j \in ReviewReplies /\ fReply[j].to \in ReviewPairs
      BY <2>1, <2>2 DEF Fb!RepliesTo
    <3>2. "none" \notin ReviewPairs /\ j \notin ReviewPairs
      BY <3>1, ContentAssumption DEF ContentAssumption, Fb!FeedbackAssumption
    <3>3. Made(j)
      BY <3>1, <3>2 DEF FeedbackInv, RepliesBelong
    <3>4. fReply[j].state # "new" /\ OpinionRow(j) = fReply[j]
      BY <3>2, <3>3 DEF Made, OpinionRow
    <3>5. fReply[j].call # 0 /\ fReply[j].call \in Nat /\ fReply[j].call <= fCalls
      BY <1>1, <3>1, <3>4 DEF ReviewsBounded, CallsMade, CallOf, Opinions, FeedbackTypes, ReplyRows
    <3> QED
      BY <1>1, <3>5
  <2>3. fLoose' \subseteq 1..fCalls
    BY <2>1, <2>2 DEF ReviewsBounded
  <2> QED
    BY <2>1, <2>3 DEF ReviewsBounded
<1>9. ASSUME NEW p \in Reqs, Fb!replyToReview(p)
      PROVE  ReviewsBounded'
  <2>1. Submitting(p) /\ (fLoose' = fLoose \/ fLoose' = fLoose \cup {fReq[p].call})
    BY <1>9 DEF Fb!replyToReview, Submitting
  <2>2. fCalls' = fCalls /\ fSameChurch' = fSameChurch /\ fBroken' = fBroken
    BY <1>9 DEF Fb!replyToReview, Fb!Ends, Fb!Becomes
  <2>3. fLoose' \subseteq 1..fCalls
    BY <1>2, <2>1 DEF ReviewsBounded
  <2>4. fReq[p].call # 0
    BY <1>1, <2>1 DEF CallsMade
  <2>5. PICK answer : answer = [state |-> "live", to |-> fReq[p].to, call |-> fReq[p].call, pictures |-> fReq[p].pictures]
    OBVIOUS
  <2>6. fReply' = [fReply EXCEPT ![fReq[p].id] = answer] /\ answer.call = fReq[p].call
    BY <1>9, <2>5 DEF Fb!replyToReview
  <2>7. \A j \in ReviewReplies : fReply'[j].state # "new" => fReply'[j].call # 0
    BY <1>1, <2>4, <2>6 DEF ReviewsBounded, FeedbackTypes
  <2> QED
    BY <2>2, <2>3, <2>7 DEF ReviewsBounded
<1>10. ASSUME NEW p \in Reqs, Fb!deleteReply(p)
       PROVE  ReviewsBounded'
  <2>1. fCalls' = fCalls /\ UNCHANGED <<fSameChurch, fBroken, fLoose>>
    BY <1>10 DEF Fb!deleteReply, Fb!Ends, Fb!Becomes, Fb!NoGhosts
  <2>2. fReq[p].id \in ReviewReplies /\ fReply' = [fReply EXCEPT ![fReq[p].id].state = "deleted"]
    BY <1>10 DEF Fb!deleteReply
  <2>3. Made(fReq[p].id)
    <3>1. Unlinking(p)
      BY <1>10 DEF Fb!deleteReply, Unlinking
    <3> QED
      BY <3>1 DEF FeedbackInv, UnlinksOwn
  <2>4. fReq[p].id \notin ReviewPairs
    BY <2>2, ContentAssumption DEF ContentAssumption, Fb!FeedbackAssumption
  <2>5. fReply[fReq[p].id].state # "new"
    BY <2>3, <2>4 DEF Made, OpinionRow
  <2>6. \A j \in ReviewReplies : fReply'[j].call = fReply[j].call
    BY <1>1, <2>2 DEF FeedbackTypes, ReplyRows
  <2>7. \A j \in ReviewReplies : j # fReq[p].id => fReply'[j] = fReply[j]
    BY <1>1, <2>2 DEF FeedbackTypes
  <2>8. \A j \in ReviewReplies : fReply'[j].state # "new" => fReply'[j].call # 0
    BY <2>2, <2>5, <2>6, <2>7 DEF ReviewsBounded
  <2> QED
    BY <2>1, <2>8 DEF ReviewsBounded
<1>11. ASSUME NEW p \in Reqs, Fb!Die(p)
       PROVE  ReviewsBounded'
  <2>1. fCalls' = fCalls /\ UNCHANGED <<fSameChurch, fReply>>
    BY <1>11 DEF Fb!Die, Fb!Ends, Fb!Becomes
  <2>2. fLoose' \subseteq 1..fCalls
    <3>1. CASE Submitting(p)
      <4>1. fLoose' = fLoose \cup {fReq[p].call}
        BY <1>11, <3>1 DEF Fb!Die, Submitting
      <4> QED
        BY <1>2, <3>1, <4>1
    <3>2. CASE ~Submitting(p)
      <4>1. fLoose' = fLoose
        BY <1>11, <3>2 DEF Fb!Die, Submitting
      <4> QED
        BY <4>1 DEF ReviewsBounded
    <3> QED
      BY <3>1, <3>2
  <2>3. fBroken' \subseteq Opinions
    <3>1. CASE fReq[p].op = "unlink"
      <4>1. fReq[p].all \subseteq Opinions
        BY <1>1, <3>1, FeedbackKinds DEF FeedbackTypes, Unlinks
      <4>2. fBroken' = fBroken \cup fReq[p].all
        BY <1>11, <3>1 DEF Fb!Die
      <4> QED
        BY <4>1, <4>2 DEF ReviewsBounded
    <3>2. CASE fReq[p].op # "unlink"
      BY <1>11, <3>2 DEF Fb!Die, ReviewsBounded
    <3> QED
      BY <3>1, <3>2
  <2> QED
    BY <2>1, <2>2, <2>3 DEF ReviewsBounded
<1>12. ASSUME NEW i \in ReviewPairs, Fb!Move(i)
       PROVE  ReviewsBounded'
  <2>1. fCalls' = fCalls + 1 /\ fCalls < FeedbackCalls /\ UNCHANGED <<fLoose, fBroken, fReply>>
    BY <1>12 DEF Fb!Move, Fb!NoGhosts
  <2>2. fCalls' <= FeedbackCalls /\ fLoose' \subseteq 1..fCalls'
    BY <1>1, <2>1 DEF ReviewsBounded
  <2>3. fSameChurch' \subseteq ReviewPairs
    BY <1>12 DEF Fb!Move, ReviewsBounded
  <2> QED
    BY <2>1, <2>2, <2>3 DEF ReviewsBounded
<1>13. CASE UNCHANGED fVars
  BY <1>13 DEF fVars, ReviewsBounded
<1> QED
  BY <1>4, <1>5, <1>6, <1>7, <1>8, <1>9, <1>10, <1>11, <1>12, <1>13 DEF Fb!Next

CommunityBounded == cCalls \in 0..CommunityCalls /\ cMember \subseteq Authors

LEMMA CommunityStaysBounded ==
  ASSUME CommunityBounded, [Co!Next]_cVars
  PROVE  CommunityBounded'
<1>1. CommunityCalls \in Nat
  BY ContentAssumption DEF ContentAssumption, Co!CommunityAssumption
<1>2. CASE cCalls < CommunityCalls /\ cCalls' = cCalls + 1 /\ cMember' \subseteq Authors
  BY <1>1, <1>2 DEF CommunityBounded
<1>3. CASE cCalls' = cCalls /\ cMember' = cMember
  BY <1>3 DEF CommunityBounded
<1>4. ASSUME NEW p \in Reqs, Co!createPost(p) \/ Co!addComment(p) \/ Co!replyToComment(p)
      PROVE  CommunityBounded'
  <2>1. PICK i, u, t : Co!Write(p, i, u, t)
    BY <1>4 DEF Co!createPost, Co!addComment, Co!replyToComment
  <2> QED
    BY <1>2, <2>1 DEF Co!Write, Co!Arrive, CommunityBounded
<1>5. ASSUME NEW p \in Reqs, Co!removePost(p) \/ Co!deleteComment(p) \/ Co!deleteReply(p)
      PROVE  CommunityBounded'
  <2>1. PICK i : Co!Remove(p, i)
    BY <1>5 DEF Co!removePost, Co!deleteComment, Co!deleteReply
  <2> QED
    BY <1>2, <2>1 DEF Co!Remove, Co!Arrive, CommunityBounded
<1>6. ASSUME NEW p \in Reqs, Co!Insert(p) \/ Co!Unlink(p) \/ Co!DeleteReplies(p) \/ Co!DeleteComments(p)
                             \/ Co!DeleteRow(p) \/ Co!Die(p)
      PROVE  CommunityBounded'
  BY <1>3, <1>6 DEF Co!Insert, Co!Unlink, Co!DeleteReplies, Co!DeleteComments, Co!DeleteRow, Co!Die, Co!Ends, Co!Becomes
<1>7. ASSUME NEW u \in Authors, Co!Membership(u)
      PROVE  CommunityBounded'
  BY <1>2, <1>7 DEF Co!Membership, CommunityBounded
<1>8. CASE UNCHANGED cVars
  BY <1>3, <1>8 DEF cVars
<1> QED
  BY <1>4, <1>5, <1>6, <1>7, <1>8 DEF Co!Next

(* The views and clicks counted so far, and those about to be: no more than *)
(* there were calls.                                                        *)
Views(k) == [a \in AdIds |-> aTotal[a][k]]
Ahead(k) == {p \in Reqs : aReq[p].op = "count" /\ aReq[p].kind = k}
CallsCounted == \A k \in Ad!Kinds : Ad!Sum(Views(k), AdIds) + Cardinality(Ahead(k)) <= aCalls

AdsBounded ==
  /\ aCalls <= AdCalls /\ aSpoiled \subseteq AdIds /\ aFiles \subseteq 1..aCalls
  /\ \A p \in Reqs : aReq[p].op \in {"drop", "put"} => aReq[p].file # 0

LEMMA ViewNumbers ==
  ASSUME CountTypes, NEW k \in Ad!Kinds
  PROVE  Numbers(Views(k), AdIds) /\ Ad!Sum(Views(k), AdIds) \in Nat
<1>1. IsFiniteSet(AdIds) /\ \A a \in AdIds : Views(k)[a] \in Nat
  BY DaysFinite DEF Views, CountTypes, InAll
<1> QED
  BY <1>1, SumNat DEF Numbers

LEMMA AheadFinite ==
  ASSUME NEW k
  PROVE  IsFiniteSet(Ahead(k)) /\ Cardinality(Ahead(k)) \in Nat
<1>1. IsFiniteSet(Ahead(k))
  BY DaysFinite, FS_Subset DEF Ahead
<1> QED
  BY <1>1, FS_CardinalityType

LEMMA AheadFiniteNext ==
  ASSUME NEW k
  PROVE  IsFiniteSet(Ahead(k)') /\ Cardinality(Ahead(k)') \in Nat
<1>1. IsFiniteSet(Ahead(k)')
  BY DaysFinite, FS_Subset DEF Ahead
<1> QED
  BY <1>1, FS_CardinalityType

(* A call that arrives is one more than was counted or is ahead.            *)
LEMMA TrackedArrives ==
  ASSUME CountTypes, CallsCounted, aCalls \in Nat, aTotal' = aTotal, aCalls' = aCalls + 1,
         NEW p \in Reqs, \A q \in Reqs : q # p => aReq'[q] = aReq[q]
  PROVE  CallsCounted'
<1> SUFFICES ASSUME NEW k \in Ad!Kinds
             PROVE  (Ad!Sum(Views(k), AdIds) + Cardinality(Ahead(k)) <= aCalls)'
  BY DEF CallsCounted, Ad!Kinds
<1>1. Views(k)' = Views(k)
  BY DEF Views
<1>2. PICK S, T : S = Ahead(k) /\ T = Ahead(k)'
  OBVIOUS
<1>3. T \subseteq S \cup {p}
  BY <1>2 DEF Ahead
<1>4. IsFiniteSet(S) /\ Cardinality(S) \in Nat /\ Cardinality(T) \in Nat
  BY <1>2, AheadFinite, AheadFiniteNext
<1>5. Cardinality(T) <= Cardinality(S) + 1
  <2>1. IsFiniteSet(S \cup {p}) /\ Cardinality(S \cup {p}) <= Cardinality(S) + 1
    <3>1. /\ IsFiniteSet(S \cup {p})
          /\ Cardinality(S \cup {p}) = IF p \in S THEN Cardinality(S) ELSE Cardinality(S) + 1
      BY <1>4, FS_AddElement, Zenon
    <3> QED
      BY <1>4, <3>1
  <2>2. Cardinality(S \cup {p}) \in Nat /\ Cardinality(T) <= Cardinality(S \cup {p})
    BY <1>3, <2>1, FS_Subset, FS_CardinalityType
  <2> QED
    BY <1>4, <2>1, <2>2
<1>6. Ad!Sum(Views(k), AdIds) \in Nat /\ Ad!Sum(Views(k), AdIds) + Cardinality(S) <= aCalls
  BY <1>2, ViewNumbers DEF CallsCounted
<1>7. Ad!Sum(Views(k), AdIds)' = Ad!Sum(Views(k), AdIds)
  BY <1>1
<1> QED
  BY <1>2, <1>4, <1>5, <1>6, <1>7

LEMMA TrackedGoesOn ==
  ASSUME CountTypes, CallsCounted, aCalls \in Nat, aTotal' = aTotal, aCalls' = aCalls,
         \A q \in Reqs : aReq'[q].op = "count" => aReq'[q] = aReq[q]
  PROVE  CallsCounted'
<1> SUFFICES ASSUME NEW k \in Ad!Kinds
             PROVE  (Ad!Sum(Views(k), AdIds) + Cardinality(Ahead(k)) <= aCalls)'
  BY DEF CallsCounted, Ad!Kinds
<1>1. Views(k)' = Views(k)
  BY DEF Views
<1>2. PICK S, T : S = Ahead(k) /\ T = Ahead(k)'
  OBVIOUS
<1>3. T \subseteq S
  BY <1>2 DEF Ahead
<1>4. IsFiniteSet(S) /\ Cardinality(S) \in Nat /\ Cardinality(T) \in Nat
  BY <1>2, AheadFinite, AheadFiniteNext
<1>5. Cardinality(T) <= Cardinality(S)
  BY <1>3, <1>4, FS_Subset
<1>6. Ad!Sum(Views(k), AdIds) \in Nat /\ Ad!Sum(Views(k), AdIds) + Cardinality(S) <= aCalls
  BY <1>2, ViewNumbers DEF CallsCounted
<1>7. Ad!Sum(Views(k), AdIds)' = Ad!Sum(Views(k), AdIds)
  BY <1>1
<1> QED
  BY <1>2, <1>4, <1>5, <1>6, <1>7

(* A view that is counted is no longer ahead.                               *)
LEMMA TrackedCounted ==
  ASSUME CountTypes, CallsCounted, AdTypes, NEW p \in Reqs, Ad!trackView(p)
  PROVE  CallsCounted'
<1>1. aReq[p] \in AdViews /\ aReq[p].op = "count"
  BY AdKinds DEF Ad!trackView
<1>2. PICK a \in AdIds, j \in Ad!Kinds : a = aReq[p].ad /\ j = aReq[p].kind
  BY <1>1 DEF AdViews
<1>3. aTotal' = [aTotal EXCEPT ![a][j] = @ + 1] /\ aCalls' = aCalls
  BY <1>2 DEF Ad!trackView, Ad!Goes
<1>4. PICK r : r = [aReq[p] EXCEPT !.op = "daily"] /\ aReq' = [aReq EXCEPT ![p] = r]
  BY DEF Ad!trackView, Ad!Goes
<1>5. aReq'[p].op = "daily" /\ \A q \in Reqs : q # p => aReq'[q] = aReq[q]
  BY <1>1, <1>4 DEF AdViews, AdTypes
<1>6. /\ aTotal'[a][j] = aTotal[a][j] + 1
      /\ \A b \in AdIds, i \in Ad!Kinds : b # a \/ i # j => aTotal'[b][i] = aTotal[b][i]
  BY <1>3 DEF CountTypes, InAll
<1> SUFFICES ASSUME NEW k \in Ad!Kinds
             PROVE  (Ad!Sum(Views(k), AdIds) + Cardinality(Ahead(k)) <= aCalls)'
  BY DEF CallsCounted, Ad!Kinds
<1>7. PICK S, T : S = Ahead(k) /\ T = Ahead(k)'
  OBVIOUS
<1>8. PICK f, g : f = Views(k) /\ g = Views(k)'
  OBVIOUS
<1>9. /\ IsFiniteSet(S) /\ Cardinality(S) \in Nat /\ IsFiniteSet(T) /\ Cardinality(T) \in Nat
      /\ aCalls \in Nat /\ Numbers(f, AdIds) /\ Ad!Sum(f, AdIds) \in Nat
  BY <1>7, <1>8, AheadFinite, AheadFiniteNext, ViewNumbers DEF AdTypes
<1>10. Ad!Sum(f, AdIds) + Cardinality(S) <= aCalls
  BY <1>7, <1>8 DEF CallsCounted
<1>11. CASE k = j
  <2>1. p \in S /\ T = S \ {p}
    BY <1>1, <1>2, <1>5, <1>7, <1>11 DEF Ahead
  <2>2. Cardinality(T) = Cardinality(S) - 1
    BY <1>9, <2>1, OneFewer
  <2>3. g[a] = f[a] + 1 /\ \A b \in AdIds \ {a} : g[b] = f[b]
    BY <1>6, <1>8, <1>11 DEF Views
  <2>4. Ad!Sum(g, AdIds) = Ad!Sum(f, AdIds) + 1
    BY <1>9, <2>3, SumRaised
  <2>5. Ad!Sum(g, AdIds) + Cardinality(T) <= aCalls
    BY <1>9, <1>10, <2>2, <2>4
  <2> QED
    BY <1>3, <1>7, <1>8, <2>5
<1>12. CASE k # j
  <2>1. T = S
    BY <1>1, <1>2, <1>5, <1>7, <1>12 DEF Ahead
  <2>2. g = f
    BY <1>6, <1>8, <1>12 DEF Views
  <2> QED
    BY <1>3, <1>7, <1>8, <1>10, <2>1, <2>2
<1> QED
  BY <1>11, <1>12

AdsInv == AdInv /\ CountsInv /\ AdsBounded /\ CallsCounted

LEMMA AdsArrive ==
  ASSUME AdsInv, NEW p \in Reqs, NEW r, Ad!Arrive(p, r), Ad!NoCount, aSpoiled' = aSpoiled,
         aFiles' = aFiles \/ aFiles' = aFiles \cup {aCalls + 1},
         r.op \in {"drop", "put"} => r.file # 0
  PROVE  AdsBounded' /\ CallsCounted'
<1>1. AdTypes /\ CountTypes /\ CallsCounted /\ AdCalls \in Nat /\ aCalls \in Nat
  BY ContentAssumption DEF AdsInv, AdInv, AdTypes, CountsInv, ContentAssumption, Ad!AdsAssumption
<1>2. aCalls < AdCalls /\ aCalls' = aCalls + 1 /\ aReq' = [aReq EXCEPT ![p] = r] /\ aTotal' = aTotal
  BY DEF Ad!Arrive, Ad!NoCount
<1>3. aReq'[p] = r /\ \A q \in Reqs : q # p => aReq'[q] = aReq[q]
  BY <1>1, <1>2 DEF AdTypes
<1>4. CallsCounted'
  BY <1>1, <1>2, <1>3, TrackedArrives
<1>5. aFiles' \subseteq 1..aCalls'
  <2>1. aFiles \subseteq 1..aCalls
    BY DEF AdsInv, AdsBounded
  <2>2. 1..aCalls \subseteq 1..aCalls' /\ aCalls + 1 \in 1..aCalls'
    BY <1>1, <1>2
  <2> QED
    BY <2>1, <2>2
<1>6. \A q \in Reqs : aReq'[q].op \in {"drop", "put"} => aReq'[q].file # 0
  BY <1>3 DEF AdsInv, AdsBounded
<1>7. aCalls' <= AdCalls
  BY <1>1, <1>2
<1> QED
  BY <1>4, <1>5, <1>6, <1>7 DEF AdsInv, AdsBounded

LEMMA AdsGoOn ==
  ASSUME AdsInv, NEW p \in Reqs, NEW r, aReq' = [aReq EXCEPT ![p] = r], aCalls' = aCalls, aTotal' = aTotal,
         aSpoiled' \subseteq AdIds, aFiles' \subseteq 1..aCalls, r.op # "count",
         r.op \in {"drop", "put"} => r.file # 0
  PROVE  AdsBounded' /\ CallsCounted'
<1>1. AdTypes /\ CountTypes /\ CallsCounted /\ aCalls \in Nat
  BY DEF AdsInv, AdInv, AdTypes, CountsInv
<1>2. aReq'[p] = r /\ \A q \in Reqs : q # p => aReq'[q] = aReq[q]
  BY <1>1 DEF AdTypes
<1>3. \A q \in Reqs : aReq'[q].op = "count" => aReq'[q] = aReq[q]
  BY <1>2
<1>4. CallsCounted'
  BY <1>1, <1>3, TrackedGoesOn
<1>5. \A q \in Reqs : aReq'[q].op \in {"drop", "put"} => aReq'[q].file # 0
  BY <1>2 DEF AdsInv, AdsBounded
<1> QED
  BY <1>4, <1>5 DEF AdsInv, AdsBounded

LEMMA AdsChecks ==
  ASSUME AdsInv, NEW p \in Reqs, NEW a \in AdIds,
         Ad!Create(p, a) \/ Ad!UpdateCheck(p, a) \/ Ad!RemoveCheck(p, a) \/ Ad!TrackCheck(p, a)
  PROVE  AdsBounded' /\ CallsCounted'
<1>1. Ad!NoCount /\ aSpoiled' = aSpoiled
  BY DEF Ad!Create, Ad!UpdateCheck, Ad!RemoveCheck, Ad!TrackCheck, Ad!NoAdChange
<1>2. aFiles' = aFiles \/ aFiles' = aFiles \cup {aCalls + 1}
  BY DEF Ad!Create, Ad!UpdateCheck, Ad!RemoveCheck, Ad!TrackCheck, Ad!NoAdChange
<1>3. aCalls + 1 # 0
  BY DEF AdsInv, AdInv, AdTypes
<1>4. PICK r : Ad!Arrive(p, r) /\ (r.op \in {"drop", "put"} => r.file # 0)
  <2>1. CASE Ad!Create(p, a)
    <3>1. PICK s \in Ad!Status, d \in AdDates, e \in AdDates, file \in BOOLEAN :
            Ad!Arrive(p, [op |-> "insert", ad |-> a, status |-> s, from |-> d, until |-> e,
                          file |-> IF file THEN aCalls + 1 ELSE 0])
      BY <2>1 DEF Ad!Create
    <3> QED
      BY <3>1
  <2>2. CASE Ad!UpdateCheck(p, a)
    <3>1. PICK s \in Ad!Status \cup {""}, d \in AdDates \cup {0}, e \in AdDates \cup {0}, file \in BOOLEAN :
            Ad!Arrive(p, [op |-> IF file THEN "drop" ELSE "judge", ad |-> a, status |-> s,
                          from |-> d, until |-> e, old |-> aAd[a].thumb,
                          file |-> IF file THEN aCalls + 1 ELSE 0])
      BY <2>2, Zenon DEF Ad!UpdateCheck
    <3>2. PICK f, op : f = (IF file THEN aCalls + 1 ELSE 0) /\ op = (IF file THEN "drop" ELSE "judge")
      OBVIOUS
    <3>3. PICK r : r = [op |-> op, ad |-> a, status |-> s, from |-> d, until |-> e, old |-> aAd[a].thumb, file |-> f]
      OBVIOUS
    <3>4. Ad!Arrive(p, r)
      BY <3>1, <3>2, <3>3, Zenon
    <3>5. r.op = op /\ r.file = f
      BY <3>3
    <3>6. op \in {"drop", "put"} => f # 0
      BY <1>3, <3>2
    <3> QED
      BY <3>4, <3>5, <3>6
  <2>3. CASE Ad!RemoveCheck(p, a)
    <3>1. Ad!Arrive(p, [op |-> "unlink", ad |-> a, old |-> aAd[a].thumb])
      BY <2>3 DEF Ad!RemoveCheck
    <3> QED
      BY <3>1
  <2>4. CASE Ad!TrackCheck(p, a)
    <3>1. PICK k \in Ad!Kinds : Ad!Arrive(p, [op |-> "count", ad |-> a, kind |-> k])
      BY <2>4 DEF Ad!TrackCheck
    <3> QED
      BY <3>1
  <2> QED
    BY <2>1, <2>2, <2>3, <2>4
<1> QED
  BY <1>1, <1>2, <1>4, AdsArrive

LEMMA AdsEnd ==
  ASSUME AdsInv, NEW p \in Reqs,
         \/ Ad!Insert(p) \/ Ad!UpdateWrite(p) \/ Ad!RemoveWrite(p) \/ Ad!trackDaily(p) \/ Ad!Die(p)
  PROVE  AdsBounded' /\ CallsCounted'
<1>1. AdTypes
  BY DEF AdsInv, AdInv
<1>2. aReq' = [aReq EXCEPT ![p] = Ad!Idle] /\ aCalls' = aCalls /\ aTotal' = aTotal
  BY DEF Ad!Insert, Ad!UpdateWrite, Ad!RemoveWrite, Ad!trackDaily, Ad!Die, Ad!Ends, Ad!NoCount
<1>3. aFiles' = aFiles
  BY DEF Ad!Insert, Ad!UpdateWrite, Ad!RemoveWrite, Ad!trackDaily, Ad!Die, Ad!NoAdChange
<1>4. aSpoiled' \subseteq AdIds
  <2>1. CASE Ad!Insert(p) \/ Ad!RemoveWrite(p) \/ Ad!trackDaily(p)
    BY <2>1 DEF Ad!Insert, Ad!RemoveWrite, Ad!trackDaily, Ad!NoAdChange, AdsInv, AdsBounded
  <2>2. CASE Ad!UpdateWrite(p)
    <3>1. aReq[p] \in AdUpdates
      BY <1>1, <2>2, AdKinds DEF Ad!UpdateWrite
    <3>2. aReq[p].ad \in AdIds
      BY <3>1 DEF AdUpdates
    <3>3. aSpoiled' \subseteq aSpoiled \cup {aReq[p].ad}
      BY <2>2 DEF Ad!UpdateWrite
    <3> QED
      BY <3>2, <3>3 DEF AdsInv, AdsBounded
  <2>3. CASE Ad!Die(p)
    <3>1. CASE Ad!Unsaved(aReq[p])
      <4>1. aReq[p].op \in {"put", "delete", "judge"}
        BY <3>1 DEF Ad!Unsaved
      <4>2. aReq[p] \in AdUpdates \/ aReq[p] \in AdRemovals
        BY <1>1, <4>1, AdKinds
      <4>3. aReq[p].ad \in AdIds
        BY <4>2 DEF AdUpdates, AdRemovals
      <4> QED
        BY <2>3, <3>1, <4>3 DEF Ad!Die, AdsInv, AdsBounded
    <3>2. CASE ~Ad!Unsaved(aReq[p])
      BY <2>3, <3>2 DEF Ad!Die, AdsInv, AdsBounded
    <3> QED
      BY <3>1, <3>2
  <2> QED
    BY <2>1, <2>2, <2>3
<1>5. Ad!Idle.op = "none"
  BY DEF Ad!Idle
<1>6. aFiles' \subseteq 1..aCalls
  BY <1>3 DEF AdsInv, AdsBounded
<1>7. PICK r : r = Ad!Idle
  OBVIOUS
<1>8. r.op = "none" /\ aReq' = [aReq EXCEPT ![p] = r]
  BY <1>2, <1>5, <1>7
<1> QED
  BY <1>2, <1>4, <1>6, <1>8, AdsGoOn

LEMMA AdsFilesChange ==
  ASSUME AdsInv, NEW p \in Reqs, Ad!UpdateDrop(p) \/ Ad!UpdatePut(p) \/ Ad!RemoveFile(p)
  PROVE  AdsBounded' /\ CallsCounted'
<1>1. AdTypes /\ aCalls \in Nat
  BY DEF AdsInv, AdInv, AdTypes
<1>2. PICK op \in {"put", "judge", "delete"} :
        /\ aReq[p].op \in {"drop", "put", "unlink"} /\ Ad!Goes(p, op) /\ (op = "put" => aReq[p].op = "drop")
  BY DEF Ad!UpdateDrop, Ad!UpdatePut, Ad!RemoveFile
<1>3. PICK r : r = [aReq[p] EXCEPT !.op = op] /\ aReq' = [aReq EXCEPT ![p] = r] /\ aCalls' = aCalls
  BY <1>2 DEF Ad!Goes
<1>4. aReq[p] \in AdUpdates \/ aReq[p] \in AdRemovals
  BY <1>1, <1>2, AdKinds
<1>5. r.op = op
  BY <1>3, <1>4 DEF AdUpdates, AdRemovals
<1>6. aTotal' = aTotal /\ aSpoiled' \subseteq AdIds
  BY DEF Ad!UpdateDrop, Ad!UpdatePut, Ad!RemoveFile, Ad!NoCount, AdsInv, AdsBounded
<1>7. r.op \in {"drop", "put"} => r.file # 0
  <2> SUFFICES ASSUME r.op \in {"drop", "put"}
               PROVE  r.file # 0
    OBVIOUS
  <2>1. op = "put" /\ aReq[p].op = "drop"
    BY <1>2, <1>5
  <2>2. aReq[p] \in AdUpdates /\ aReq[p].file # 0
    BY <1>1, <2>1, AdKinds DEF AdsInv, AdsBounded
  <2> QED
    BY <1>3, <2>2 DEF AdUpdates
<1>8. aFiles' \subseteq 1..aCalls
  <2>1. CASE Ad!UpdateDrop(p) \/ Ad!RemoveFile(p)
    BY <2>1 DEF Ad!UpdateDrop, Ad!RemoveFile, AdsInv, AdsBounded
  <2>2. CASE Ad!UpdatePut(p)
    <3>1. aReq[p].op = "put" /\ aReq[p].file # 0
      BY <2>2 DEF Ad!UpdatePut, AdsInv, AdsBounded
    <3>2. aReq[p].file \in Nat /\ aReq[p].file <= aCalls
      BY <1>1, <3>1, AdFields DEF Bringing, AdsInv, AdInv, ThumbsNumbered
    <3>3. aReq[p].file \in 1..aCalls
      BY <1>1, <3>1, <3>2
    <3> QED
      BY <2>2, <3>3 DEF Ad!UpdatePut, AdsInv, AdsBounded
  <2> QED
    BY <2>1, <2>2
<1> QED
  BY <1>2, <1>3, <1>5, <1>6, <1>7, <1>8, AdsGoOn

LEMMA AdsViewCounted ==
  ASSUME AdsInv, NEW p \in Reqs, Ad!trackView(p)
  PROVE  AdsBounded' /\ CallsCounted'
<1>1. AdTypes /\ CountTypes /\ CallsCounted
  BY DEF AdsInv, AdInv, CountsInv
<1>2. CallsCounted'
  BY <1>1, TrackedCounted
<1>3. aReq[p] \in AdViews
  BY <1>1, AdKinds DEF Ad!trackView
<1>4. PICK r : r = [aReq[p] EXCEPT !.op = "daily"] /\ aReq' = [aReq EXCEPT ![p] = r]
  BY DEF Ad!trackView, Ad!Goes
<1>5. aReq'[p].op = "daily" /\ \A q \in Reqs : q # p => aReq'[q] = aReq[q]
  BY <1>1, <1>3, <1>4 DEF AdViews, AdTypes
<1>6. UNCHANGED <<aFiles, aSpoiled, aCalls>>
  BY DEF Ad!trackView, Ad!Goes, Ad!NoAdChange
<1>7. \A q \in Reqs : aReq'[q].op \in {"drop", "put"} => aReq'[q].file # 0
  BY <1>5 DEF AdsInv, AdsBounded
<1> QED
  BY <1>2, <1>6, <1>7 DEF AdsInv, AdsBounded

LEMMA AdsStayBounded ==
  ASSUME AdsInv, [Ad!Next]_aVars
  PROVE  AdsBounded' /\ CallsCounted'
<1>1. ASSUME NEW p \in Reqs, NEW a \in AdIds,
             Ad!Create(p, a) \/ Ad!UpdateCheck(p, a) \/ Ad!RemoveCheck(p, a) \/ Ad!TrackCheck(p, a)
      PROVE  AdsBounded' /\ CallsCounted'
  BY <1>1, AdsChecks
<1>2. ASSUME NEW p \in Reqs,
             \/ Ad!Insert(p) \/ Ad!UpdateDrop(p) \/ Ad!UpdatePut(p) \/ Ad!UpdateWrite(p)
             \/ Ad!RemoveFile(p) \/ Ad!RemoveWrite(p) \/ Ad!trackView(p) \/ Ad!trackDaily(p) \/ Ad!Die(p)
      PROVE  AdsBounded' /\ CallsCounted'
  BY <1>2, AdsEnd, AdsFilesChange, AdsViewCounted
<1>3. ASSUME NEW p \in Reqs, Ad!BulkUpdate(p)
      PROVE  AdsBounded' /\ CallsCounted'
  <2>1. /\ aReq' = aReq /\ aCalls < AdCalls /\ aCalls' = aCalls + 1
        /\ UNCHANGED <<aFiles, aSpoiled>> /\ aTotal' = aTotal
    BY <1>3 DEF Ad!BulkUpdate, Ad!NoCount
  <2>2. AdCalls \in Nat /\ aCalls \in Nat /\ CountTypes /\ CallsCounted
    BY ContentAssumption DEF AdsInv, AdInv, AdTypes, CountsInv, ContentAssumption, Ad!AdsAssumption
  <2>3. CallsCounted'
    BY <2>1, <2>2, TrackedArrives
  <2>4. aCalls' <= AdCalls /\ aFiles' \subseteq 1..aCalls'
    BY <2>1, <2>2 DEF AdsInv, AdsBounded
  <2> QED
    BY <2>1, <2>3, <2>4 DEF AdsInv, AdsBounded
<1>4. CASE Ad!NextDay \/ UNCHANGED aVars
  <2>1. UNCHANGED <<aReq, aCalls, aFiles, aSpoiled, aTotal>>
    BY <1>4 DEF Ad!NextDay, Ad!NoAdChange, aVars
  <2>2. aCalls \in Nat /\ CountTypes /\ CallsCounted
    BY DEF AdsInv, AdInv, AdTypes, CountsInv
  <2>3. CallsCounted'
    BY <2>1, <2>2, TrackedGoesOn
  <2> QED
    BY <2>1, <2>3 DEF AdsInv, AdsBounded
<1> QED
  BY <1>1, <1>2, <1>3, <1>4 DEF Ad!Next

LEMMA AdsTyped ==
  ASSUME AdsInv
  PROVE  Ad!TypeOK
<1>1. AdTypes /\ CountTypes /\ AdCalls \in Nat /\ aCalls \in Nat /\ aCalls <= AdCalls
  BY ContentAssumption DEF AdsInv, AdInv, AdTypes, CountsInv, AdsBounded, ContentAssumption, Ad!AdsAssumption
<1>2. \A a \in AdIds : aAd[a].state \in {"new", "live", "deleted"} /\ aAd[a].status \in Ad!Status
  BY <1>1 DEF AdTypes, AdRows
<1>3. aFiles \subseteq 1..AdCalls /\ aSpoiled \subseteq AdIds /\ aCalls \in 0..AdCalls
  BY <1>1 DEF AdsInv, AdsBounded
<1>4. ASSUME NEW k \in Ad!Kinds
      PROVE  Numbers(Views(k), AdIds) /\ Ad!Sum(Views(k), AdIds) \in Nat /\ Ad!Sum(Views(k), AdIds) <= aCalls
  <2>1. Numbers(Views(k), AdIds) /\ Ad!Sum(Views(k), AdIds) \in Nat /\ Cardinality(Ahead(k)) \in Nat
    BY <1>1, ViewNumbers, AheadFinite
  <2>2. Ad!Sum(Views(k), AdIds) + Cardinality(Ahead(k)) <= aCalls
    BY DEF AdsInv, CallsCounted
  <2> QED
    BY <1>1, <2>1, <2>2
<1>5. ASSUME NEW k \in Ad!Kinds
      PROVE  Ad!Dashboard(k) <= aCalls
  <2>1. PICK T : T = {a \in AdIds : Ad!Live(a)}
    OBVIOUS
  <2>2. T \subseteq AdIds /\ IsFiniteSet(T)
    BY <2>1, <1>4, FS_Subset DEF Numbers
  <2>3. Ad!Sum(Views(k), T) <= Ad!Sum(Views(k), AdIds)
    BY <1>4, <2>2, SumPart
  <2>4. Ad!Sum(Views(k), T) \in Nat
    BY <1>4, <2>2, SumNat DEF Numbers
  <2>5. Ad!Dashboard(k) = Ad!Sum(Views(k), T)
    BY <2>1 DEF Ad!Dashboard, Views
  <2> QED
    BY <1>1, <1>4, <2>3, <2>4, <2>5
<1>6. ASSUME NEW a \in AdIds, NEW k \in Ad!Kinds, NEW d \in Days
      PROVE  aRows[a][k][d] \in 0..AdCalls /\ aMetrics[a][k][d] \in 0..AdCalls
  <2>1. aRows[a][k] \in [Days -> Nat] /\ aMetrics[a][k] \in [Days -> Nat]
    BY <1>1 DEF CountTypes, ByDay
  <2>2. 0 \in Days /\ d \in 0..AdDays
    BY DaysFinite DEF Days
  <2>3. Numbers(aRows[a][k], 0..AdDays) /\ Numbers(aMetrics[a][k], 0..AdDays)
    BY <2>1, <2>2, DayNumbers
  <2>4. aRows[a][k][d] <= Ad!CountSince(a, k, 0) /\ aMetrics[a][k][d] <= Ad!MetricsSince(a, k, 0)
    BY <2>2, <2>3, SumAtLeast DEF Ad!CountSince, Ad!MetricsSince
  <2>5. Agreeing(a, k)
    BY DEF AdsInv, CountsInv
  <2>6. aTotal[a][k] = Ad!CountSince(a, k, 0)
        /\ Ad!CountSince(a, k, 0) = Ad!MetricsSince(a, k, 0) + Ad!Waiting(a, k) + aDied[a][k]
    BY <2>5 DEF Agreeing
  <2>7. /\ Ad!CountSince(a, k, 0) \in Nat /\ Ad!MetricsSince(a, k, 0) \in Nat /\ aDied[a][k] \in Nat
        /\ Ad!Waiting(a, k) \in Nat
    BY <1>1, <2>2, DaySums, MeteringFinite
  <2>8. aTotal[a][k] <= Ad!Sum(Views(k), AdIds)
    <3>1. Views(k)[a] <= Ad!Sum(Views(k), AdIds)
      BY <1>4, SumAtLeast
    <3> QED
      BY <3>1 DEF Views
  <2>9. aRows[a][k][d] \in Nat /\ aMetrics[a][k][d] \in Nat
    BY <2>1
  <2>10. PICK n, m, c, s, t, w, x : n = aRows[a][k][d] /\ m = aMetrics[a][k][d] /\ c = Ad!CountSince(a, k, 0)
           /\ s = Ad!MetricsSince(a, k, 0) /\ t = Ad!Sum(Views(k), AdIds) /\ w = Ad!Waiting(a, k) /\ x = aDied[a][k]
    OBVIOUS
  <2>11. n <= c /\ m <= s /\ c = s + w + x /\ c <= t /\ t <= aCalls /\ t \in Nat
    BY <1>4, <2>4, <2>6, <2>8, <2>10
  <2>12. n \in Nat /\ m \in Nat /\ c \in Nat /\ s \in Nat /\ w \in Nat /\ x \in Nat
    BY <2>7, <2>9, <2>10
  <2>13. n <= AdCalls /\ m <= AdCalls
    BY <1>1, <2>11, <2>12
  <2> QED
    BY <1>1, <2>10, <2>12, <2>13
<1>7. aRows \in [AdIds -> [Ad!Kinds -> [Days -> 0..AdCalls]]]
  <2>1. aRows \in [AdIds -> [Ad!Kinds -> [Days -> Nat]]]
    BY <1>1 DEF CountTypes, ByDay
  <2>2. ASSUME NEW a \in AdIds, NEW k \in Ad!Kinds
        PROVE  aRows[a][k] \in [Days -> 0..AdCalls]
    BY <1>6, <2>1
  <2> QED
    BY <2>1, <2>2
<1>8. aMetrics \in [AdIds -> [Ad!Kinds -> [Days -> 0..AdCalls]]]
  <2>1. aMetrics \in [AdIds -> [Ad!Kinds -> [Days -> Nat]]]
    BY <1>1 DEF CountTypes, ByDay
  <2>2. ASSUME NEW a \in AdIds, NEW k \in Ad!Kinds
        PROVE  aMetrics[a][k] \in [Days -> 0..AdCalls]
    BY <1>6, <2>1
  <2> QED
    BY <2>1, <2>2
<1>9. aToday \in 0..AdDays
  BY <1>1 DEF CountTypes, Days
<1> QED
  BY <1>2, <1>3, <1>5, <1>7, <1>8, <1>9 DEF Ad!TypeOK, Ad!PerDay, Days

LEMMA OthersTyped ==
  ASSUME ToggleInv, TogglesBounded, AnnInv, AnnouncementsBounded, CoInv, CommunityBounded,
         ConnectionsInv, NamesInv, RoomsOfOpen, ListInv
  PROVE  Tg!TypeOK /\ An!TypeOK /\ Co!TypeOK /\ Gw!TypeOK /\ TypeOK
<1>1. Tg!TypeOK
  BY DEF ToggleInv, TogglesBounded, Tg!TypeOK
<1>2. An!TypeOK
  BY DEF AnnInv, AnnRows, AnnouncementsBounded, An!TypeOK
<1>3. Co!TypeOK
  BY DEF CoInv, CoTypes, Written, Things, CommunityBounded, Co!TypeOK
<1>4. Gw!TypeOK
  BY DEF ConnectionsInv, NamesInv, RoomsOfOpen, SocketOrNone, Gw!TypeOK
<1>5. TypeOK
  <2>1. ListTypes
    BY DEF ListInv
  <2>2. \A i \in Ids : row[i].state \in {"new", "live", "deleted", "gone"}
    BY <2>1 DEF ListTypes, RowsOfList
  <2> QED
    BY <2>1, <2>2 DEF ListTypes, TypeOK
<1> QED
  BY <1>1, <1>2, <1>3, <1>4, <1>5

BoundsInv ==
  /\ ToggleInv /\ TogglesBounded /\ AnnInv /\ AnnouncementsBounded /\ CoInv /\ CommunityBounded
  /\ ConnectionsInv /\ NamesInv /\ RoomsOfOpen /\ ListInv
  /\ ProfileInv /\ ProfileBounded /\ FeedbackInv /\ ReviewsBounded /\ AdsInv

LEMMA BoundsInit ==
  ASSUME MCInit
  PROVE  BoundsInv
<1>1. ToggleInv /\ AnnInv /\ ConnectionsInv /\ NamesInv /\ ListInv /\ ProfileInv
  <2>1. An!AnnouncementsAssumption
    BY ContentAssumption DEF ContentAssumption
  <2> QED
    BY <2>1, ToggleInitInv, AnnInitInv, ConnectionsInit, NamesInit, ListInit, ProfileInit DEF MCInit
<1>2. CoInv /\ FeedbackInv /\ AdInv /\ CountsInv
  BY CoInit, FeedbackInit, AdInit, CountsInit DEF MCInit
<1>3. ToggleCalls \in Nat /\ AnnCalls \in Nat /\ AnnDays \in Nat /\ CommunityCalls \in Nat
      /\ ProfileCalls \in Nat /\ FeedbackCalls \in Nat /\ AdCalls \in Nat
  BY ContentAssumption DEF ContentAssumption, Tg!TogglesAssumption, An!AnnouncementsAssumption,
     Co!CommunityAssumption, Pr!ProfileAssumption, Fb!FeedbackAssumption, Ad!AdsAssumption
<1>4. TogglesBounded
  BY <1>3 DEF MCInit, Tg!Init, Tg!Idle, TogglesBounded
<1>5. AnnouncementsBounded
  BY <1>3 DEF MCInit, An!Init, AnnouncementsBounded
<1>6. CommunityBounded
  BY <1>3 DEF MCInit, Co!Init, CommunityBounded
<1>7. RoomsOfOpen
  BY DEF MCInit, Gw!Init, RoomsOfOpen
<1>8. ProfileBounded
  BY <1>3 DEF MCInit, Pr!Init, Pr!Idle, ProfileBounded, Of
<1>9. ReviewsBounded
  BY <1>3 DEF MCInit, Fb!Init, Fb!NoReply, ReviewsBounded
<1>10. AdsBounded
  BY <1>3 DEF MCInit, Ad!Uncounted, Ad!Idle, AdsBounded
<1>11. CallsCounted
  <2> SUFFICES ASSUME NEW k \in Ad!Kinds
               PROVE  Ad!Sum(Views(k), AdIds) + Cardinality(Ahead(k)) <= aCalls
    BY DEF CallsCounted
  <2>1. /\ aTotal = [a \in AdIds |-> [j \in Ad!Kinds |-> 0]] /\ aReq = [p \in Reqs |-> Ad!Idle] /\ aCalls = 0
    BY DEF MCInit, Ad!Uncounted
  <2>2. \A a \in AdIds : Views(k)[a] = 0
    BY <2>1 DEF Views
  <2>3. Ad!Sum(Views(k), AdIds) = 0
    BY <2>2, DaysFinite, SumZero
  <2>4. Ahead(k) = {}
    BY <2>1 DEF Ahead, Ad!Idle
  <2>5. Cardinality(Ahead(k)) = 0
    BY <2>4, FS_EmptySet
  <2> QED
    BY <2>1, <2>3, <2>5
<1> QED
  BY <1>1, <1>2, <1>4, <1>5, <1>6, <1>7, <1>8, <1>9, <1>10, <1>11 DEF BoundsInv, AdsInv

LEMMA BoundsNext ==
  ASSUME IsFiniteSet(CallNames), BoundsInv, [MCNext]_allVars
  PROVE  BoundsInv'
<1>1. /\ [Next]_vars /\ [Ad!Next]_aVars /\ [An!Next]_nVars /\ [Tg!Next]_tVars
      /\ [Co!Next]_cVars /\ [Fb!Next]_fVars /\ [Pr!Next]_pVars /\ [Gw!Next]_gVars
  BY StepsOfParts
<1>2. ToggleInv' /\ TogglesBounded'
  BY <1>1, ToggleNextInv, TogglesStayBounded DEF BoundsInv
<1>3. AnnInv' /\ AnnouncementsBounded'
  BY <1>1, AnnNextInv, AnnouncementsStayBounded, ContentAssumption DEF BoundsInv, ContentAssumption
<1>4. CoInv' /\ CommunityBounded'
  BY <1>1, CoNextInv, CommunityStaysBounded DEF BoundsInv
<1>5. ConnectionsInv' /\ NamesInv' /\ RoomsOfOpen'
  <2>1. Gw!GatewayAssumption /\ gOpen \subseteq SocketIds
    BY ContentAssumption DEF ContentAssumption, BoundsInv, NamesInv
  <2> QED
    BY <1>1, <2>1, ConnectionsNext, NamesNext, RoomsStay DEF BoundsInv
<1>6. ListInv'
  BY <1>1, ListNextInv DEF BoundsInv
<1>7. ProfileInv' /\ ProfileBounded'
  BY <1>1, ProfileNextInv, ProfileStaysBounded DEF BoundsInv
<1>8. FeedbackInv' /\ ReviewsBounded'
  BY <1>1, FeedbackNextInv, ReviewsStayBounded DEF BoundsInv
<1>9. AdInv' /\ CountsInv' /\ AdsBounded' /\ CallsCounted'
  <2>1. AdsInv /\ AdInv /\ CountsInv /\ AdTypes
    BY DEF BoundsInv, AdsInv, AdInv
  <2> QED
    BY <1>1, <2>1, AdNextInv, CountsNext, AdsStayBounded
<1> QED
  BY <1>2, <1>3, <1>4, <1>5, <1>6, <1>7, <1>8, <1>9 DEF BoundsInv, AdsInv

(* Every part keeps its types, for any constants: ids of rows, requests,    *)
(* sockets and pictures stay in their sets, the counts of a day in their    *)
(* bounds, a socket that is not open is in no room, and what the dashboard  *)
(* adds up of the ads that are there, views or clicks, is never more than   *)
(* there were calls (ads-manager.service.ts:1142, message.gateway.ts:138).  *)
THEOREM ContentTyped ==
  ASSUME IsFiniteSet(CallNames)
  PROVE  MCSpec => []ContentTypeOK
<1>1. MCInit => BoundsInv
  BY BoundsInit
<1>2. BoundsInv /\ [MCNext]_allVars => BoundsInv'
  BY BoundsNext
<1>3. BoundsInv => ContentTypeOK
  <2> SUFFICES ASSUME BoundsInv
               PROVE  ContentTypeOK
    OBVIOUS
  <2>1. Tg!TypeOK /\ An!TypeOK /\ Co!TypeOK /\ Gw!TypeOK /\ TypeOK
    BY OthersTyped DEF BoundsInv
  <2>2. Pr!TypeOK /\ Fb!TypeOK /\ Ad!TypeOK
    BY ProfileTyped, ReviewsTyped, AdsTyped DEF BoundsInv
  <2> QED
    BY <2>1, <2>2 DEF ContentTypeOK
<1> QED
  BY <1>1, <1>2, <1>3, PTL DEF MCSpec
=============================================================================
