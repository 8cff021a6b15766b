---------------------------------- MODULE Ads ----------------------------------
(***************************************************************************)
(* admin/ads-manager: the life of an ad and the counts of its views and    *)
(* clicks.  Every await of a handler is a step of its own, requests        *)
(* overlap and may die between any two.  A view is counted three times: a  *)
(* row and the ad's total in one transaction, the metrics of the day in a  *)
(* statement after it.  All routes are for the platform's admins, for whom *)
(* every ad is theirs to change.                                           *)
(***************************************************************************)
EXTENDS Integers, FiniteSets, FiniteSetsExt

CONSTANTS
  AdIds, Reqs,
  Dates,               \* days a campaign starts or ends on
  LastDay, MaxCalls,   \* bounds of an instance
  MayDie               \* whether requests may die

AdsAssumption ==
  /\ IsFiniteSet(AdIds) /\ IsFiniteSet(Reqs)
  /\ Dates \subseteq Nat /\ LastDay \in Nat /\ MaxCalls \in Nat /\ MayDie \in BOOLEAN

VARIABLES
  ad,       \* rows: state, status, first and last day, thumbnail (0: none)
  files,    \* thumbnails stored; a file is named by the call that put it
  rows,     \* rows of ad_views and ad_clicks, by ad, kind and day
  total,    \* total_views and total_clicks
  metrics,  \* ad_metrics, by ad, kind and day
  req, today, calls,
  spoiled,  \* ads an update was refused for, or died on, its file already gone
  died      \* views and clicks that died before the metrics of the day

vars == <<ad, files, rows, total, metrics, req, today, calls, spoiled, died>>

Kinds == {"view", "click"}
Status == {"ACTIVE", "PAUSED", "HIDDEN"}
NoAd == [state |-> "new", status |-> "ACTIVE", from |-> 0, until |-> 0, thumb |-> 0]
Idle == [op |-> "none"]
Live(a) == ad[a].state = "live"
PerDay == [AdIds -> [Kinds -> [0..LastDay -> 0..MaxCalls]]]
Zero == [a \in AdIds |-> [k \in Kinds |-> [d \in 0..LastDay |-> 0]]]

Uncounted ==
  /\ files = {}
  /\ rows = Zero /\ metrics = Zero /\ total = [a \in AdIds |-> [k \in Kinds |-> 0]]
  /\ req = [p \in Reqs |-> Idle] /\ today = 0 /\ calls = 0
  /\ spoiled = {} /\ died = [a \in AdIds |-> [k \in Kinds |-> 0]]

Init == ad = [a \in AdIds |-> NoAd] /\ Uncounted

Arrive(p, r) == req[p] = Idle /\ calls < MaxCalls /\ calls' = calls + 1 /\ req' = [req EXCEPT ![p] = r]
Goes(p, op) == req' = [req EXCEPT ![p].op = op] /\ UNCHANGED calls
Ends(p) == req' = [req EXCEPT ![p] = Idle] /\ UNCHANGED calls
NoCount == UNCHANGED <<rows, total, metrics, today, died>>
NoAdChange == UNCHANGED <<ad, files, spoiled>>
-----------------------------------------------------------------------------
(* The dates are checked before the thumbnail is stored and the row written.*)
Create(p, a) ==
  /\ ad[a] = NoAd
  /\ \E s \in Status, d \in Dates, e \in Dates, file \in BOOLEAN :
       /\ d < e /\ d >= today
       /\ Arrive(p, [op |-> "insert", ad |-> a, status |-> s, from |-> d, until |-> e,
                     file |-> IF file THEN calls + 1 ELSE 0])
       /\ files' = IF file THEN files \cup {calls + 1} ELSE files
  /\ UNCHANGED <<ad, spoiled>> /\ NoCount

Insert(p) ==
  LET r == req[p] IN
  /\ r.op = "insert" /\ ad[r.ad] = NoAd
  /\ ad' = [ad EXCEPT ![r.ad] = [state |-> "live", status |-> r.status,
                                 from |-> r.from, until |-> r.until, thumb |-> r.file]]
  /\ Ends(p) /\ UNCHANGED <<files, spoiled>> /\ NoCount

(* Fields that are not given are 0 or "". *)
UpdateCheck(p, a) ==
  /\ Live(a)
  /\ \E s \in Status \cup {""}, d \in Dates \cup {0}, e \in Dates \cup {0}, file \in BOOLEAN :
       Arrive(p, [op |-> IF file THEN "drop" ELSE "judge", ad |-> a, status |-> s,
                  from |-> d, until |-> e, old |-> ad[a].thumb,
                  file |-> IF file THEN calls + 1 ELSE 0])
  /\ NoAdChange /\ NoCount

UpdateDrop(p) ==
  /\ req[p].op = "drop"
  /\ files' = files \ {req[p].old}
  /\ Goes(p, "put") /\ UNCHANGED <<ad, spoiled>> /\ NoCount

UpdatePut(p) ==
  /\ req[p].op = "put"
  /\ files' = files \cup {req[p].file}
  /\ Goes(p, "judge") /\ UNCHANGED <<ad, spoiled>> /\ NoCount

(* Only two dates that come together are compared, and the old thumbnail is *)
(* gone by then.                                                            *)
Refused(r) == r.from > 0 /\ r.until > 0 /\ r.from >= r.until

(* Mutant: the new thumbnail's name is not written. *)
OldName(row, r) ==
  [row EXCEPT !.status = IF r.status = "" THEN @ ELSE r.status,
              !.from = IF r.from = 0 THEN @ ELSE r.from,
              !.until = IF r.until = 0 THEN @ ELSE r.until]

Given(row, r) ==
  [row EXCEPT !.status = IF r.status = "" THEN @ ELSE r.status,
              !.from = IF r.from = 0 THEN @ ELSE r.from,
              !.until = IF r.until = 0 THEN @ ELSE r.until,
              !.thumb = IF r.file = 0 THEN @ ELSE r.file]

UpdateWrite(p) ==
  LET r == req[p] IN
  /\ r.op = "judge"
  /\ IF Refused(r)
     THEN /\ spoiled' = IF r.file > 0 THEN spoiled \cup {r.ad} ELSE spoiled
          /\ UNCHANGED ad
     ELSE ad' = [ad EXCEPT ![r.ad] = Given(@, r)] /\ UNCHANGED spoiled
  /\ Ends(p) /\ UNCHANGED files /\ NoCount

RemoveCheck(p, a) ==
  /\ Live(a) /\ Arrive(p, [op |-> "unlink", ad |-> a, old |-> ad[a].thumb])
  /\ NoAdChange /\ NoCount

RemoveFile(p) ==
  /\ req[p].op = "unlink" /\ files' = files \ {req[p].old}
  /\ Goes(p, "delete") /\ UNCHANGED <<ad, spoiled>> /\ NoCount

RemoveWrite(p) ==
  /\ req[p].op = "delete"
  /\ ad' = [ad EXCEPT ![req[p].ad].state = "deleted"]
  /\ Ends(p) /\ UNCHANGED <<files, spoiled>> /\ NoCount

(* An admin's ids are taken as they come: deleted ads change as well.       *)
BulkUpdate(p) ==
  \E S \in SUBSET {a \in AdIds : ad[a] # NoAd}, s \in Status :
    /\ S # {} /\ req[p] = Idle /\ calls < MaxCalls /\ calls' = calls + 1
    /\ ad' = [a \in AdIds |-> IF a \in S THEN [ad[a] EXCEPT !.status = s] ELSE ad[a]]
    /\ UNCHANGED <<req, files, spoiled>> /\ NoCount
-----------------------------------------------------------------------------
Shown(a) == Live(a) /\ ad[a].status = "ACTIVE"

TrackCheck(p, a) ==
  /\ Shown(a)
  /\ \E k \in Kinds : Arrive(p, [op |-> "count", ad |-> a, kind |-> k])
  /\ NoAdChange /\ NoCount

trackView(p) ==
  LET r == req[p] IN
  /\ r.op = "count"
  /\ rows' = [rows EXCEPT ![r.ad][r.kind][today] = @ + 1]
  /\ total' = [total EXCEPT ![r.ad][r.kind] = @ + 1]
  /\ Goes(p, "daily")
  /\ NoAdChange /\ UNCHANGED <<metrics, today, died>>

(* Mutant: on a conflict the day's count is written, not raised. *)
FirstOfDay(n) == 1

OneMore(n) == n + 1

(* The day is read again: a view before midnight may be metered after it.   *)
trackDaily(p) ==
  LET r == req[p] IN
  /\ r.op = "daily"
  /\ metrics' = [metrics EXCEPT ![r.ad][r.kind][today] = OneMore(@)]
  /\ Ends(p)
  /\ NoAdChange /\ UNCHANGED <<rows, total, today, died>>

NextDay ==
  /\ today < LastDay /\ today' = today + 1
  /\ NoAdChange /\ UNCHANGED <<rows, total, metrics, req, calls, died>>

(* A request that has deleted a thumbnail the row still names.              *)
Unsaved(r) == r.op \in {"put", "delete"} \/ (r.op = "judge" /\ r.file > 0)

(* A request dies, with what it has written so far.                         *)
Die(p) ==
  LET r == req[p] IN
  /\ MayDie /\ r # Idle /\ Ends(p)
  /\ died' = IF r.op = "daily" THEN [died EXCEPT ![r.ad][r.kind] = @ + 1] ELSE died
  /\ spoiled' = IF Unsaved(r) THEN spoiled \cup {r.ad} ELSE spoiled
  /\ UNCHANGED <<ad, files, rows, total, metrics, today>>

Next ==
  \/ \E p \in Reqs :
       \/ \E a \in AdIds : Create(p, a) \/ UpdateCheck(p, a) \/ RemoveCheck(p, a) \/ TrackCheck(p, a)
       \/ Insert(p) \/ UpdateDrop(p) \/ UpdatePut(p) \/ UpdateWrite(p)
       \/ RemoveFile(p) \/ RemoveWrite(p) \/ BulkUpdate(p)
       \/ trackView(p) \/ trackDaily(p) \/ Die(p)
  \/ NextDay

Spec == Init /\ [][Next]_vars
-----------------------------------------------------------------------------
Sum(f, S) == MapThenSumSet(LAMBDA d : f[d], S)

(* What the analytics of an ad show of a day and of all days before it.     *)
CountSince(a, k, d) == Sum(rows[a][k], d..LastDay)
MetricsSince(a, k, d) == Sum(metrics[a][k], d..LastDay)
Waiting(a, k) == Cardinality({p \in Reqs : req[p].op = "daily" /\ req[p].ad = a /\ req[p].kind = k})

(* What the dashboard adds up. *)
Dashboard(k) == Sum([a \in AdIds |-> total[a][k]], {a \in AdIds : Live(a)})

TypeOK ==
  /\ \A a \in AdIds : ad[a].state \in {"new", "live", "deleted"} /\ ad[a].status \in Status
  /\ files \subseteq 1..MaxCalls /\ rows \in PerDay /\ metrics \in PerDay
  /\ today \in 0..LastDay /\ calls \in 0..MaxCalls /\ spoiled \subseteq AdIds
  /\ \A k \in Kinds : Dashboard(k) <= calls

(* The total of an ad is the number of its rows, and the metrics of its     *)
(* days lag behind them by the requests between their two statements and by *)
(* those that died there, no more; a view may be metered a day later but    *)
(* never a day earlier (ads-manager.service.ts:1142, :1160).                *)
CountsAgree ==
  \A a \in AdIds, k \in Kinds :
    /\ total[a][k] = CountSince(a, k, 0)
    /\ CountSince(a, k, 0) = MetricsSince(a, k, 0) + Waiting(a, k) + died[a][k]
    /\ \A d \in 1..LastDay :
         CountSince(a, k, 0) - CountSince(a, k, d) >= MetricsSince(a, k, 0) - MetricsSince(a, k, d)

(* The thumbnail of a live ad is stored, but for ads an update or removal   *)
(* is at work on and those whose update was refused for its dates after it  *)
(* had deleted the file (ads-manager.service.ts:691, :706).                 *)
AtWork(a) == \E p \in Reqs : Unsaved(req[p]) /\ req[p].ad = a
ThumbnailKept ==
  \A a \in AdIds :
    Live(a) /\ ad[a].thumb > 0 /\ ad[a].thumb \notin files => a \in spoiled \/ AtWork(a)
=============================================================================
