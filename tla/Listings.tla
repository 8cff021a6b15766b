-------------------------------- MODULE Listings --------------------------------
(***************************************************************************)
(* The paged lists of the services, walked page by page by a client while  *)
(* rows are created, hidden and removed.  A list is described by how it    *)
(* finds the next page (an offset, or a cursor: the last row's id), how    *)
(* its rows are removed, whether its status or type filter can lose a row, *)
(* where it filters (in the query, or in the page it has fetched), and the *)
(* total it reports.  Rows have a creation time and an id; the newest come *)
(* first, or in lists by cursor the oldest if the client asks for them.    *)
(*                                                                         *)
(* A row's time is its own in a list by offset: where times are equal the  *)
(* order of such a list is the database's to choose, at every query.  A    *)
(* query that skips n rows and takes m of a list gives the rows with at    *)
(* least n and fewer than n + m rows before them, so a page is a set.      *)
(***************************************************************************)
EXTENDS Integers, FiniteSets

CONSTANTS
  Ids,         \* ids, in the order in which rows are created
  Limits,      \* rows to a page
  Lists,       \* the lists that are walked
  Changes      \* how often the table changes during a walk, at most

VARIABLES
  list, limit, newest,       \* what is walked, by which pages, in which order
  row,        \* state, time, whether its status is listed, whether a search finds it
  need,       \* the queries of the page that are not answered yet
  page, cursor, got, total,  \* the page that is asked for and what was read for it
  listed,     \* how often the client was shown a row
  steady,     \* rows that were visible from the start of the walk on
  added, removed, restarted, \* whether rows came, went, the walk began anew
  changes

vars == <<list, limit, newest, row, need, page, cursor, got, total,
          listed, steady, added, removed, restarted, changes>>
-----------------------------------------------------------------------------
Offset(removal, hides, filter, sum) ==
  [by |-> "offset", removal |-> removal, hides |-> hides, filter |-> filter, total |-> sum]
Cursor(removal, hides, sum) ==
  [by |-> "cursor", removal |-> removal, hides |-> hides, filter |-> "query", total |-> sum]

PublicAds == Cursor("soft", TRUE, "more")
Posts == Cursor("hard", FALSE, "full")

AllAds == Offset("soft", FALSE, "query", "count")
Announcements == Offset("soft", TRUE, "query", "count")
Comments == Offset("hard", FALSE, "query", "count")
Reviews == Offset("soft", FALSE, "query", "count")
Followers == Offset("hard", FALSE, "query", "count")
Following == Offset("hard", FALSE, "query", "count")
ChurchList == Offset("soft", FALSE, "query", "count")
UserList == Offset("soft", TRUE, "query", "count")
SystemAdmins == Offset("soft", FALSE, "query", "count")
Messages == Offset("hard", FALSE, "query", "count")
AuditLogs == Offset("never", FALSE, "query", "count")
Helpers == Offset("hard", TRUE, "query", "count")
Registrations == Offset("soft", TRUE, "query", "count")
ChurchUsers == Offset("soft", TRUE, "query", "count")
MembersOfChurch == Offset("soft", TRUE, "page", "count")
MembersOfAll == Offset("soft", TRUE, "page", "page")
ProUsers == Offset("never", TRUE, "page", "page")

AllLists == {PublicAds, Posts, AllAds, Announcements, Comments, Reviews, Followers, Following,
             ChurchList, UserList, SystemAdmins, Messages, AuditLogs, Helpers, Registrations,
             ChurchUsers, MembersOfChurch, MembersOfAll, ProUsers}

(* An id of 0 stands for no cursor. *)
ListingsAssumption ==
  /\ Ids \subseteq Nat \ {0} /\ IsFiniteSet(Ids)
  /\ Lists \subseteq AllLists /\ Limits \subseteq Nat \ {0} /\ Changes \in Nat
-----------------------------------------------------------------------------
Visible(i) == row[i].state = "live" /\ row[i].shown
VisibleIds == {i \in Ids : Visible(i)}
Found(i) == list.filter = "query" \/ row[i].found

AfterTime(i, j) == IF newest THEN row[i].time > row[j].time ELSE row[i].time < row[j].time

(* j comes after i in the list's order: by time, then by id.                *)
After(i, j) ==
  \/ AfterTime(i, j)
  \/ row[i].time = row[j].time /\ (IF newest THEN i > j ELSE i < j)

(* How many rows of S come before i. *)
Rank(i, S) == Cardinality({j \in S : After(j, i)})

(* Mutant: the next page starts one row late. *)
SkipOneMore == (page - 1) * (limit + 1)

Skip == (page - 1) * limit
Window(S, skipped) == {i \in S : skipped <= Rank(i, S) /\ Rank(i, S) < skipped + limit}
PageByOffset == Window(VisibleIds, Skip)

(* A cursor whose row is gone is ignored: the list begins anew.             *)
Lost == cursor # 0 /\ row[cursor].state = "gone"
(* Mutant: the page begins with the row of the cursor. *)
FromTheCursor(i) == cursor = 0 \/ Lost \/ i = cursor \/ After(cursor, i)

Behind(i) == cursor = 0 \/ Lost \/ After(cursor, i)
Rest == {i \in VisibleIds : Behind(i)}
PageByCursor == Window(Rest, 0)
MoreBehind == Cardinality(Rest) > limit
LastOf(S) == CHOOSE i \in S : \A j \in S \ {i} : After(j, i)

Fresh(t) == [state |-> "live", time |-> t, shown |-> TRUE, found |-> TRUE]
NotThere == [state |-> "new", time |-> 0, shown |-> FALSE, found |-> FALSE]

Init ==
  /\ list \in Lists /\ limit \in Limits
  /\ newest \in (IF list.by = "cursor" THEN BOOLEAN ELSE {TRUE})
  /\ row = [i \in Ids |-> NotThere]
  /\ need = {} /\ page = 0 /\ cursor = 0 /\ got = {} /\ total = 0 /\ listed = [i \in Ids |-> 0]
  /\ steady = {} /\ added = FALSE /\ removed = FALSE /\ restarted = FALSE /\ changes = 0

Walking == page > 0
Unread == UNCHANGED <<list, limit, newest, need, page, cursor, got, total, listed, restarted>>

(* The table changes: freely before the walk, Changes times during it.      *)
Change(S) ==
  /\ IF Walking THEN changes < Changes /\ changes' = changes + 1 ELSE UNCHANGED changes
  /\ steady' = steady \cap S
  /\ Unread

Create(i) ==
  /\ row[i] = NotThere /\ \A j \in Ids : j < i => row[j] # NotThere
  /\ LET last == IF i - 1 \in Ids THEN row[i - 1].time ELSE 0 IN
     \E t \in (IF list.by = "cursor" THEN {last, last + 1} ELSE {last + 1}), f \in BOOLEAN :
       /\ list.filter = "query" => f
       /\ row' = [row EXCEPT ![i] = [Fresh(t) EXCEPT !.found = f]]
  /\ added' = Walking /\ UNCHANGED removed
  /\ Change(VisibleIds)

Drop(i) ==
  /\ row[i].state = "live" /\ list.removal # "never"
  /\ row' = [row EXCEPT ![i].state = IF list.removal = "soft" THEN "deleted" ELSE "gone"]
  /\ removed' = Walking /\ UNCHANGED added
  /\ Change(VisibleIds \ {i})

(* A row's status leaves the list or comes back to it. *)
Show(i) ==
  /\ list.hides /\ row[i].state = "live"
  /\ row' = [row EXCEPT ![i].shown = ~@]
  /\ added' = (added \/ (Walking /\ ~row[i].shown))
  /\ removed' = (removed \/ (Walking /\ row[i].shown))
  /\ Change(VisibleIds \ {i})
-----------------------------------------------------------------------------
Start ==
  /\ page = 0
  /\ page' = 1 /\ need' = {"items", "total"} /\ steady' = VisibleIds
  /\ UNCHANGED <<list, limit, newest, row, cursor, got, total, listed,
                 added, removed, restarted, changes>>

(* The rows of the page and the total are two queries, in either order.     *)
Items ==
  /\ "items" \in need /\ need' = need \ {"items"}
  /\ got' = IF list.by = "offset" THEN PageByOffset ELSE PageByCursor
  /\ restarted' = (restarted \/ (list.by = "cursor" /\ Lost))
  /\ total' = IF list.by = "cursor" /\ MoreBehind THEN 1 ELSE total
  /\ UNCHANGED <<list, limit, newest, row, page, cursor, listed, steady, added, removed, changes>>

Total ==
  /\ "total" \in need /\ need' = need \ {"total"}
  /\ total' = IF list.by = "offset" THEN Cardinality(VisibleIds) ELSE total
  /\ UNCHANGED <<list, limit, newest, row, page, cursor, got, listed, steady,
                 added, removed, restarted, changes>>

Shown == {i \in got : Found(i)}

(* What the answer says of further pages: the total, or another cursor.     *)
Further ==
  CASE list.total = "count" -> page * limit < total
    [] list.total = "page" -> page * limit < Cardinality(Shown)
    [] list.total = "more" -> total = 1
    [] list.total = "full" -> Cardinality(got) = limit

(* The client shows the page, and asks for the next one if there is one.    *)
Answer ==
  /\ Walking /\ need = {}
  /\ listed' = [i \in Ids |-> IF i \in Shown THEN listed[i] + 1 ELSE listed[i]]
  /\ IF Further
     THEN page' = page + 1 /\ need' = {"items", "total"}
     ELSE page' = -1 /\ UNCHANGED need
  /\ cursor' = IF list.by = "cursor" /\ got # {} THEN LastOf(got) ELSE cursor
  /\ total' = 0 /\ UNCHANGED got
  /\ UNCHANGED <<list, limit, newest, row, steady, added, removed, restarted, changes>>

Next ==
  \/ Start \/ Items \/ Total \/ Answer
  \/ page >= 0 /\ \E i \in Ids : Create(i) \/ Drop(i) \/ Show(i)

Spec == Init /\ [][Next]_vars
-----------------------------------------------------------------------------
TypeOK ==
  /\ list \in Lists /\ need \subseteq {"items", "total"} /\ page \in Nat \cup {-1}
  /\ \A i \in Ids : row[i].state \in {"new", "live", "deleted", "gone"}
  /\ cursor \in Ids \cup {0} /\ got \subseteq Ids /\ listed \in [Ids -> Nat] /\ steady \subseteq VisibleIds

Done == page = -1

(* A walk that ends has shown every row that was there all the time: in a   *)
(* list by cursor whatever came and went meanwhile, in a list by offset if  *)
(* nothing did (ads-manager.service.ts:396, :250 and the other lists).  Two *)
(* lists report as their total what is left of the fetched page, and a walk *)
(* of them ends early (members-directory.service.ts:331,                    *)
(* pro-user.service.ts:169).                                                *)
WalkShowsAll ==
  Done /\ list.total # "page" /\ (list.by = "offset" => ~added /\ ~removed) =>
    \A i \in steady : Found(i) => listed[i] > 0

(* No row is shown twice: in a list by offset if none came meanwhile, in a  *)
(* list by cursor unless the row of the cursor was deleted for good, when   *)
(* the posts of a church begin anew (community.service.ts:369).             *)
NothingShownTwice ==
  (IF list.by = "offset" THEN ~added ELSE ~restarted) => \A i \in Ids : listed[i] <= 1
=============================================================================
