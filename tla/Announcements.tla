----------------------------- MODULE Announcements -----------------------------
(***************************************************************************)
(* admin/announcements: who an announcement is addressed to, when it is    *)
(* listed, and how it is changed.  All routes are for SUPER_ADMIN and      *)
(* CHURCH_ADMIN, who both pass as admins in every handler but create.      *)
(* Every await of a handler is a step of its own; requests overlap.        *)
(***************************************************************************)
EXTENDS Naturals, FiniteSets

CONSTANTS
  Ids, Reqs, Churches,
  Dates, LastDay, MaxCalls,   \* bounds of an instance
  None

AnnouncementsAssumption == Dates \subseteq Nat \ {0} /\ LastDay \in Nat /\ MaxCalls \in Nat

VARIABLES
  row,       \* state, status, addressed churches, first and last day
  memberOf,  \* the church of the church admin, None: of none
  hidden,    \* unpublished or removed last, and not published since
  req, today, calls

vars == <<row, memberOf, hidden, req, today, calls>>

NoRow == [state |-> "new", status |-> "UNPUBLISHED", to |-> {}, from |-> 0, until |-> 0]
Idle == [op |-> "none"]
Live(i) == row[i].state = "live"
Stays == UNCHANGED <<row, hidden, memberOf, today>>

Init ==
  /\ row = [i \in Ids |-> NoRow] /\ memberOf \in Churches \cup {None} /\ hidden = Ids
  /\ req = [p \in Reqs |-> Idle] /\ today = 0 /\ calls = 0

Arrive(p, r) == req[p] = Idle /\ calls < MaxCalls /\ calls' = calls + 1 /\ req' = [req EXCEPT ![p] = r]
Ends(p) == req' = [req EXCEPT ![p] = Idle] /\ UNCHANGED calls
-----------------------------------------------------------------------------
(* The churches a church admin addresses, whatever churches the request     *)
(* names; without one a church admin is turned away.                        *)
UserChurch == IF memberOf = None THEN {} ELSE {memberOf}

CreateCheck(p, i) ==
  /\ row[i] = NoRow
  /\ \E churchAdmin \in BOOLEAN, S \in SUBSET Churches, s \in {"PUBLISHED", "UNPUBLISHED"},
        d \in Dates, e \in Dates :
       /\ d < e /\ (churchAdmin => UserChurch # {})
       /\ Arrive(p, [op |-> "insert", id |-> i, status |-> s, from |-> d, until |-> e,
                     to |-> IF churchAdmin THEN UserChurch ELSE S])
  /\ Stays

Create(p) ==
  LET r == req[p] IN
  /\ r.op = "insert" /\ row[r.id] = NoRow
  /\ row' = [row EXCEPT ![r.id] = [state |-> "live", status |-> r.status, to |-> r.to,
                                   from |-> r.from, until |-> r.until]]
  /\ hidden' = IF r.status = "PUBLISHED" THEN hidden \ {r.id} ELSE hidden
  /\ Ends(p) /\ UNCHANGED <<memberOf, today>>

(* What an update asks for, beside the row it has read: "", 0 and "as is"   *)
(* are fields that are not given.                                           *)
Asks(i, s, d, e, S) ==
  [op |-> "write", id |-> i, status |-> s, from |-> d, until |-> e, to |-> S, was |-> row[i]]

(* Two dates that come together have to be in order; the addressed churches *)
(* are taken as they come.                                                  *)
UpdateCheck(p, i) ==
  /\ Live(i)
  /\ \E s \in {"", "PUBLISHED", "UNPUBLISHED"}, d \in Dates \cup {0}, e \in Dates \cup {0},
        S \in {{"as is"}} \cup SUBSET Churches :
       (d > 0 /\ e > 0 => d < e) /\ Arrive(p, Asks(i, s, d, e, S))
  /\ Stays

(* Mutant: a field that is not given is written as it was read. *)
FullRow(now, r) ==
  [now EXCEPT !.status = IF r.status = "" THEN r.was.status ELSE r.status,
              !.from = IF r.from = 0 THEN r.was.from ELSE r.from,
              !.until = IF r.until = 0 THEN r.was.until ELSE r.until,
              !.to = IF r.to = {"as is"} THEN r.was.to ELSE r.to]

(* Mutant: the addressed churches are written where none are given. *)
ToWhateverCame(now, r) ==
  [now EXCEPT !.status = IF r.status = "" THEN @ ELSE r.status, !.to = r.to]

OnlyGiven(now, r) ==
  [now EXCEPT !.status = IF r.status = "" THEN @ ELSE r.status,
              !.from = IF r.from = 0 THEN @ ELSE r.from,
              !.until = IF r.until = 0 THEN @ ELSE r.until,
              !.to = IF r.to = {"as is"} THEN @ ELSE r.to]

update(p) ==
  LET r == req[p] IN
  /\ r.op = "write"
  /\ row' = [row EXCEPT ![r.id] = OnlyGiven(@, r)]
  /\ hidden' = CASE r.status = "UNPUBLISHED" -> hidden \cup {r.id}
                 [] r.status = "PUBLISHED" /\ Live(r.id) -> hidden \ {r.id}
                 [] OTHER -> hidden
  /\ Ends(p) /\ UNCHANGED <<memberOf, today>>

(* publish and unpublish are updates of the status alone.                   *)
publish(p, i) == Live(i) /\ Arrive(p, Asks(i, "PUBLISHED", 0, 0, {"as is"})) /\ Stays
unpublish(p, i) == Live(i) /\ Arrive(p, Asks(i, "UNPUBLISHED", 0, 0, {"as is"})) /\ Stays

RemoveCheck(p, i) == Live(i) /\ Arrive(p, [op |-> "remove", id |-> i]) /\ Stays

remove(p) ==
  LET i == req[p].id IN
  /\ req[p].op = "remove"
  /\ row' = [row EXCEPT ![i].state = "deleted"] /\ hidden' = hidden \cup {i}
  /\ Ends(p) /\ UNCHANGED <<memberOf, today>>

NextDay == today < LastDay /\ today' = today + 1 /\ UNCHANGED <<row, memberOf, hidden, req, calls>>

Next ==
  \/ \E p \in Reqs :
       \/ \E i \in Ids : CreateCheck(p, i) \/ UpdateCheck(p, i) \/ publish(p, i)
                         \/ unpublish(p, i) \/ RemoveCheck(p, i)
       \/ Create(p) \/ update(p) \/ remove(p)
  \/ NextDay

Spec == Init /\ [][Next]_vars
-----------------------------------------------------------------------------
(* The lists: by status and by an addressed church, if they are given.      *)
(* active_only asks for the status alone; its dates are commented out.      *)
findAll(s, c) ==
  {i \in Ids : Live(i) /\ (s = "" \/ row[i].status = s) /\ (c = None \/ c \in row[i].to)}
ActiveOnly == findAll("PUBLISHED", None)

TypeOK ==
  /\ \A i \in Ids : row[i].state \in {"new", "live", "deleted"} /\ row[i].to \subseteq Churches
  /\ today \in 0..LastDay /\ calls \in 0..MaxCalls /\ hidden \subseteq Ids

(* An announcement that was unpublished or removed last is in no list of    *)
(* published ones, although updates that read it before are written after:  *)
(* they write only the fields they were given                               *)
(* (annoucements.service.ts:460; announcements.controller.ts:429).          *)
UnpublishedStaysHidden == \A c \in Churches \cup {None} : findAll("PUBLISHED", c) \cap hidden = {}

(* A list of active announcements shows none outside of its dates, as the   *)
(* controller says of active_only (announcements.controller.ts:273).        *)
ActiveWithinDates == \A i \in ActiveOnly : row[i].from <= today /\ today <= row[i].until
=============================================================================
