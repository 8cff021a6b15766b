-------------------------------- MODULE Profile --------------------------------
(***************************************************************************)
(* application/profile: the avatar, the portfolio's pictures and the       *)
(* skills of one account.  Every await is a step of its own; requests of   *)
(* several tabs overlap, may be refused half-way and may die.  A picture   *)
(* is named by the call that stored it.                                    *)
(***************************************************************************)
EXTENDS Naturals, FiniteSets

CONSTANTS
  Words,        \* what a skill's name says, case and outer blanks aside
  Skills,       \* ids of skills
  Reqs, MaxCalls, MayDie

ProfileAssumption == MaxCalls \in Nat /\ MayDie \in BOOLEAN

VARIABLES
  avatar, portfolio,  \* columns of the account's row: a picture or 0, a set of pictures
  skill,              \* by id: the word, NoWord where there is no row
  files,              \* pictures stored
  disturbed,          \* columns two requests overlapped on, or one was refused or died on,
                      \* or was given a name with outer blanks for
  req, calls

vars == <<avatar, portfolio, skill, files, disturbed, req, calls>>

NoWord == ""
Columns == {"avatar", "portfolio", "skills"}
Idle == [op |-> "none", column |-> "none"]
Busy(c) == \E p \in Reqs : req[p].column = c

Init ==
  /\ avatar = 0 /\ portfolio = {} /\ skill = [k \in Skills |-> NoWord] /\ files = {}
  /\ disturbed = {} /\ req = [p \in Reqs |-> Idle] /\ calls = 0

Arrive(p, r, spoils) ==
  /\ req[p] = Idle /\ calls < MaxCalls /\ calls' = calls + 1
  /\ req' = [req EXCEPT ![p] = r]
  /\ disturbed' = IF spoils \/ Busy(r.column) THEN disturbed \cup {r.column} ELSE disturbed
Becomes(p, r) == req' = [req EXCEPT ![p] = r] /\ UNCHANGED calls
Ends(p) == Becomes(p, Idle)
RowStays == UNCHANGED <<avatar, portfolio, skill>>
-----------------------------------------------------------------------------
(* The row is read; a new avatar, the removal of the old one or neither.    *)
ProfileCheck(p) ==
  /\ \E given \in {"new", "remove", "fields"} :
       Arrive(p, [op |-> IF given = "fields" THEN "save" ELSE "drop", column |-> "avatar",
                  given |-> given, old |-> avatar, was |-> portfolio, file |-> calls + 1], FALSE)
  /\ RowStays /\ UNCHANGED files

(* The old file may stay where its deletion fails; the error is logged.     *)
AvatarDrop(p) ==
  LET r == req[p] IN
  /\ r.op = "drop"
  /\ files' \in {files, files \ {r.old}}
  /\ Becomes(p, [r EXCEPT !.op = IF r.given = "new" THEN "put" ELSE "save"])
  /\ RowStays /\ UNCHANGED disturbed

AvatarPut(p) ==
  LET r == req[p] IN
  /\ r.op = "put" /\ files' = files \cup {r.file} /\ Becomes(p, [r EXCEPT !.op = "save"])
  /\ RowStays /\ UNCHANGED disturbed

(* Mutant: all columns of the row that was read are written back. *)
WholeRow(r) == r.was

OtherColumns(r) == portfolio

updateProfile(p) ==
  LET r == req[p] IN
  /\ r.op = "save"
  /\ avatar' = CASE r.given = "new" -> r.file [] r.given = "remove" -> 0 [] OTHER -> avatar
  /\ portfolio' = OtherColumns(r)
  /\ Ends(p) /\ UNCHANGED <<skill, files, disturbed>>
-----------------------------------------------------------------------------
(* Some pictures of the portfolio are to be deleted, and one is added, of   *)
(* the right type or not, or none.                                          *)
PortfolioCheck(p) ==
  /\ \E D \in SUBSET portfolio, add \in {"picture", "other", "none"} :
       Arrive(p, [op |-> "edit", column |-> "portfolio", todo |-> D, add |-> add,
                  list |-> portfolio, file |-> calls + 1], FALSE)
  /\ RowStays /\ UNCHANGED files

(* Where the deletion of a file fails its name stays in the list.           *)
PortfolioDrop(p) ==
  LET r == req[p] IN
  /\ r.op = "edit" /\ r.todo # {}
  /\ \E f \in r.todo :
       \/ files' = files \ {f} /\ Becomes(p, [r EXCEPT !.todo = @ \ {f}, !.list = @ \ {f}])
       \/ UNCHANGED files /\ Becomes(p, [r EXCEPT !.todo = @ \ {f}])
  /\ RowStays /\ UNCHANGED disturbed

(* A file of another type ends the request, deletions done.                 *)
PortfolioPut(p) ==
  LET r == req[p] IN
  /\ r.op = "edit" /\ r.todo = {} /\ r.add # "none"
  /\ IF r.add = "picture"
     THEN /\ files' = files \cup {r.file} /\ UNCHANGED disturbed
          /\ Becomes(p, [r EXCEPT !.add = "none", !.list = @ \cup {r.file}])
     ELSE disturbed' = disturbed \cup {"portfolio"} /\ UNCHANGED files /\ Ends(p)
  /\ RowStays

uploadPortfolioImage(p) ==
  LET r == req[p] IN
  /\ r.op = "edit" /\ r.todo = {} /\ r.add = "none"
  /\ portfolio' = r.list
  /\ Ends(p) /\ UNCHANGED <<avatar, skill, files, disturbed>>
-----------------------------------------------------------------------------
(* The name is looked for as it was given, whatever its case, and stored    *)
(* without outer blanks: with them it is never found.                       *)
Taken(w, padded, S) == ~padded /\ \E k \in S : skill[k] = w

createSkillCheck(p) ==
  /\ \E w \in Words, padded \in BOOLEAN, k \in Skills :
       /\ skill[k] = NoWord /\ ~Taken(w, padded, Skills)
       /\ Arrive(p, [op |-> "add", column |-> "skills", id |-> k, word |-> w], padded)
  /\ RowStays /\ UNCHANGED files

updateSkillCheck(p) ==
  /\ \E w \in Words, padded \in BOOLEAN, k \in Skills :
       /\ skill[k] # NoWord /\ ~Taken(w, padded, Skills \ {k})
       /\ Arrive(p, [op |-> "rename", column |-> "skills", id |-> k, word |-> w], padded)
  /\ RowStays /\ UNCHANGED files

deleteSkillCheck(p) ==
  /\ \E k \in Skills : skill[k] # NoWord /\
       Arrive(p, [op |-> "erase", column |-> "skills", id |-> k], FALSE)
  /\ RowStays /\ UNCHANGED files

(* A rename or deletion of a row that is gone fails.                        *)
SkillWrite(p) ==
  LET r == req[p] IN
  /\ \/ r.op = "add" /\ skill[r.id] = NoWord /\ skill' = [skill EXCEPT ![r.id] = r.word]
     \/ r.op = "rename" /\ skill' = [skill EXCEPT ![r.id] = IF @ = NoWord THEN @ ELSE r.word]
     \/ r.op = "erase" /\ skill' = [skill EXCEPT ![r.id] = NoWord]
  /\ Ends(p) /\ UNCHANGED <<avatar, portfolio, files, disturbed>>

Die(p) ==
  /\ MayDie /\ req[p] # Idle /\ Ends(p)
  /\ disturbed' = disturbed \cup {req[p].column} /\ RowStays /\ UNCHANGED files

Next ==
  \E p \in Reqs :
    \/ ProfileCheck(p) \/ AvatarDrop(p) \/ AvatarPut(p) \/ updateProfile(p)
    \/ PortfolioCheck(p) \/ PortfolioDrop(p) \/ PortfolioPut(p) \/ uploadPortfolioImage(p)
    \/ createSkillCheck(p) \/ updateSkillCheck(p) \/ deleteSkillCheck(p) \/ SkillWrite(p)
    \/ Die(p)

Spec == Init /\ [][Next]_vars
-----------------------------------------------------------------------------
TypeOK ==
  /\ avatar \in 0..MaxCalls /\ portfolio \cup files \subseteq 1..MaxCalls
  /\ skill \in [Skills -> Words \cup {NoWord}] /\ disturbed \subseteq Columns /\ calls \in 0..MaxCalls

Settled(c) == ~Busy(c) /\ c \notin disturbed

(* Requests about different columns do not disturb each other.  As long as  *)
(* no two requests about one column overlap and none is refused or dies     *)
(* half-way, every picture the row names is stored, and no skill is listed  *)
(* twice but for names that were given with outer blanks                    *)
(* (profile.service.ts:198, :255, :273, :391).                              *)
ColumnsKept ==
  /\ Settled("avatar") => avatar = 0 \/ avatar \in files
  /\ Settled("portfolio") => portfolio \subseteq files
  /\ Settled("skills") => \A k, l \in Skills : skill[k] # NoWord /\ skill[k] = skill[l] => k = l
=============================================================================
