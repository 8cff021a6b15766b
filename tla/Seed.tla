--------------------------------- MODULE Seed ---------------------------------
(***************************************************************************)
(* prisma/seed.ts as it runs: find-or-create steps, one statement or       *)
(* transaction each, that may die at any of them and are run again from    *)
(* the first, on a database people use in between.                         *)
(***************************************************************************)
EXTENDS Naturals, Sequences, FiniteSets

CONSTANTS
  Program,               \* the steps, as SeedSteps lists them
  Churches,
  MaxRuns, MaxEdits,     \* bounds of an instance
  None

SeedAssumption == MaxRuns \in Nat /\ MaxEdits \in Nat

VARIABLES
  rows,     \* how many rows there are of a kind and key
  gone,     \* rows that were deleted softly
  counter,  \* church_members
  fresh,    \* what this run created
  at,       \* the step of the run; 0: no run is on
  ended,    \* whether the last run came to its end and nothing changed since
  runs, edits

vars == <<rows, gone, counter, fresh, at, ended, runs, edits>>

Table(r) == r[1]
Makes(i) == {Program[i].row} \cup Program[i].with
Rows == UNION {Makes(i) : i \in DOMAIN Program}

(* What the order of the program gives: a row is made by one step, it hangs *)
(* on rows of earlier ones, and a church is counted once when all of its    *)
(* members are made.                                                        *)
ProgramAssumption ==
  /\ Len(Program) \in Nat \ {0} /\ DOMAIN Program = 1..Len(Program)
  /\ IsFiniteSet(Rows)
  /\ \A i, j \in DOMAIN Program : i # j => Makes(i) \cap Makes(j) = {}
  /\ \A i \in DOMAIN Program : \A r \in Program[i].needs : \E j \in 1..(i - 1) : r \in Makes(j)
  /\ \A i \in DOMAIN Program : Table(Program[i].row) \in {"church", "count"} =>
       Program[i].row[2] \in Churches
  /\ \A c \in Churches : \E i \in DOMAIN Program : Program[i].row = <<"count", c>>
  /\ \A i, j \in DOMAIN Program : i < j /\ Table(Program[i].row) = "count" =>
       /\ Table(Program[j].row) = "church" => Program[j].row[2] # Program[i].row[2]
       /\ \A r \in Makes(j) : Table(r) = "member" => r[3] # Program[i].row[2]
-----------------------------------------------------------------------------
There(r) == rows[r] > 0

(* Posts, ads and announcements are looked for among those not deleted.     *)
Filtered == {"post", "ad", "announcement"}

(* Mutant: only what this run created is found. *)
FoundThisRun(r) == r \in fresh

Found(r) == There(r) \/ (r \in gone /\ Table(r) \notin Filtered)

(* A membership has to be ACTIVE where another step hangs on it.            *)
Usable(r) == IF Table(r) = "member" THEN There(r) ELSE Found(r)

Ready(t) == (\A r \in t.needs : Usable(r)) /\ (t.under # None => t.under \in fresh)
CountOf(c, held) ==
  Cardinality({r \in Rows : Table(r) = "member" /\ r[3] = c /\ held[r] > 0})

Init ==
  /\ rows = [r \in Rows |-> 0] /\ gone = {} /\ counter = [c \in Churches |-> 0]
  /\ fresh = {} /\ at = 0 /\ ended = FALSE /\ runs = 0 /\ edits = 0

Start ==
  /\ at = 0 /\ runs < MaxRuns
  /\ at' = 1 /\ fresh' = {} /\ ended' = FALSE /\ runs' = runs + 1
  /\ UNCHANGED <<rows, gone, counter, edits>>

Current == Program[at]
Add(R) ==
  /\ rows' = [r \in Rows |-> rows[r] + (IF r \in R THEN 1 ELSE 0)]
  /\ fresh' = fresh \cup R

(* findUnique or findFirst, and create where nothing was found.             *)
FindOrCreate ==
  /\ Table(Current.row) \notin {"church", "count"}
  /\ IF Ready(Current) /\ ~Found(Current.row)
     THEN Add({Current.row}) ELSE UNCHANGED <<rows, fresh>>
  /\ UNCHANGED counter

(* A church, its admin's account and membership and the counter are one     *)
(* transaction; where the church is there and its admin has no membership,  *)
(* that row and the counter are another.                                    *)
FindOrCreateChurch ==
  LET c == Current.row[2]
      missing == {r \in Current.with : Table(r) = "member" /\ ~Found(r)} IN
  /\ Table(Current.row) = "church"
  /\ IF ~Found(Current.row)
     THEN Add({Current.row} \cup Current.with) /\ counter' = [counter EXCEPT ![c] = 1]
     ELSE /\ Add(missing)
          /\ counter' = IF missing = {} THEN counter
                        ELSE [counter EXCEPT ![c] = CountOf(c, rows')]

(* Mutant: only a church this run created is counted. *)
NewChurchCount(c) == IF <<"church", c>> \in fresh THEN CountOf(c, rows) ELSE counter[c]

Recounted(c) == CountOf(c, rows)

UpdateCount ==
  LET c == Current.row[2] IN
  /\ Table(Current.row) = "count"
  /\ counter' = [counter EXCEPT ![c] = Recounted(c)]
  /\ UNCHANGED <<rows, fresh>>

(* Mutant: the run does not stop after its last step. *)
OnAndOn == at + 1

AfterThis == IF at = Len(Program) THEN 0 ELSE at + 1

DoStep ==
  /\ at \in DOMAIN Program
  /\ FindOrCreate \/ FindOrCreateChurch \/ UpdateCount
  /\ at' = AfterThis
  /\ ended' = (at = Len(Program))
  /\ UNCHANGED <<gone, runs, edits>>

Die == at > 0 /\ at' = 0 /\ UNCHANGED <<rows, gone, counter, fresh, ended, runs, edits>>

(* Between two runs content is deleted softly, grants, held roles, follows  *)
(* and comments for good; a member of a church, but its admin, is removed   *)
(* with the role held there, and the counter follows.                       *)
Hard == {"grant", "holds", "follow", "comment"}
Remove(R) == rows' = [r \in Rows |-> IF r \in R THEN 0 ELSE rows[r]]
OfChurches == UNION {Program[i].with : i \in DOMAIN Program}

Edit ==
  /\ at = 0 /\ edits < MaxEdits /\ edits' = edits + 1
  /\ \E r \in {x \in Rows : There(x)} :
       \/ Table(r) \in Filtered /\ Remove({r}) /\ gone' = gone \cup {r} /\ UNCHANGED counter
       \/ Table(r) \in Hard /\ Remove({r}) /\ UNCHANGED <<gone, counter>>
       \/ /\ Table(r) = "member" /\ r \notin OfChurches
          /\ Remove({r, <<"holds", r[2]>>}) /\ gone' = gone \cup {r}
          /\ counter' = [counter EXCEPT ![r[3]] = CountOf(r[3], rows')]
  /\ ended' = FALSE /\ UNCHANGED <<fresh, at, runs>>

Next == Start \/ DoStep \/ Die \/ Edit
Spec == Init /\ [][Next]_vars
-----------------------------------------------------------------------------
TypeOK ==
  /\ rows \in [Rows -> 0..2] /\ gone \subseteq Rows /\ fresh \subseteq Rows
  /\ at \in 0..Len(Program) /\ counter \in [Churches -> Nat]

(* However many runs died, and at whichever step, the first run that comes  *)
(* to its end leaves every row that nothing removed stands in the way of,   *)
(* and counters that are exact: the find-or-create of every step heals what *)
(* a dead run left.                                                         *)
SeedHeals ==
  ended =>
    /\ \A i \in DOMAIN Program :
         LET t == Program[i] IN
         t.under = None /\ Table(t.row) # "count" /\ (\A r \in t.needs : Usable(r))
           => Found(t.row)
    /\ \A c \in Churches : counter[c] = CountOf(c, rows)

(* No run doubles what an earlier run created, whole or dead, although most *)
(* of the tables have no unique key on what the step looks for.             *)
NothingTwice == \A r \in Rows : rows[r] <= 1
=============================================================================
