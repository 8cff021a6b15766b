----------------------------- MODULE PlatformProofs -----------------------------
(***************************************************************************)
(* Proofs about the parts of MCPlatform, for any values of its constants:  *)
(* what a run of the seed program heals and never doubles, which login a   *)
(* refresh follows, and the rows of roles, permissions and admins.         *)
(*                                                                         *)
(* Each part has an invariant of its own (SeedInv, SessionInv, AccessTypes *)
(* and SerialInv); a step of another part leaves its variables alone.      *)
(***************************************************************************)
EXTENDS MCPlatform, AccessControlProofs, Integers, Sequences, FiniteSets,
        FiniteSetTheorems, TLAPS

(***************************************************************************)
(* The seed program: a run that comes to its end has healed what the runs  *)
(* before it left, and no run doubles a row.                               *)
(***************************************************************************)
StepNos == DOMAIN SeedProgram

(* What step j has to leave behind, and does when it is run.                *)
RowFound(t) ==
  t.under = None /\ Sd!Table(t.row) # "count" /\ (\A r \in t.needs : Sd!Usable(r))
    => Sd!Found(t.row)
CountExact(t) ==
  Sd!Table(t.row) = "count" => dCounter[t.row[2]] = Sd!CountOf(t.row[2], dRows)
StepDone(j) == RowFound(SeedProgram[j]) /\ CountExact(SeedProgram[j])

(* A church comes with its admin's rows, or is not there.                   *)
ChurchesWhole ==
  \A i \in StepNos :
    Sd!Table(SeedProgram[i].row) = "church" /\ dRows[SeedProgram[i].row] = 0 =>
      \A r \in SeedProgram[i].with : dRows[r] = 0

SeedTypes ==
  /\ dRows \in [Sd!Rows -> Nat] /\ dCounter \in [SeedChurches -> Nat]
  /\ dGone \subseteq Sd!Rows /\ dFresh \subseteq Sd!Rows
  /\ \A r \in dGone : Sd!Table(r) \in Sd!Filtered \cup {"member"}
  /\ dAt \in 0..Len(SeedProgram)

SeedInv ==
  /\ SeedTypes
  /\ Sd!NothingTwice
  /\ ChurchesWhole
  /\ \A j \in StepNos : j < dAt => StepDone(j)
  /\ dEnded => dAt = 0 /\ \A j \in StepNos : StepDone(j)

LEMMA RowsOfSteps ==
  ASSUME NEW i \in StepNos
  PROVE  /\ SeedProgram[i].row \in Sd!Rows /\ SeedProgram[i].with \subseteq Sd!Rows
         /\ Sd!Makes(i) \subseteq Sd!Rows
         /\ Sd!Makes(i) = {SeedProgram[i].row} \cup SeedProgram[i].with
BY DEF Sd!Rows, Sd!Makes, StepNos

LEMMA CountIsNat ==
  ASSUME NEW c, NEW held
  PROVE  Sd!CountOf(c, held) \in Nat
<1> DEFINE S == {r \in Sd!Rows : Sd!Table(r) = "member" /\ r[3] = c /\ held[r] > 0}
<1>1. IsFiniteSet(Sd!Rows)
  BY PlatformAssumption DEF Sd!ProgramAssumption, Sd!IsFiniteSet, IsFiniteSet
<1>2. Cardinality(S) \in Nat
  BY <1>1, FS_Subset, FS_CardinalityType
<1>3. Sd!Cardinality(S) = Cardinality(S)
  BY DEF Sd!Cardinality, Cardinality
<1> QED
  BY <1>2, <1>3 DEF Sd!CountOf

(* What a step of the run does to the tables: it adds rows it makes that    *)
(* were not there.                                                          *)
Adds(i, R) ==
  /\ R \subseteq Sd!Makes(i)
  /\ \A r \in R : dRows[r] = 0
  /\ dRows' = [r \in Sd!Rows |-> dRows[r] + (IF r \in R THEN 1 ELSE 0)]

LEMMA AddsRows ==
  ASSUME SeedInv, NEW i \in StepNos, NEW R, Adds(i, R)
  PROVE  /\ dRows' \in [Sd!Rows -> Nat]
         /\ Sd!NothingTwice'
         /\ \A r \in R : dRows'[r] = 1
         /\ \A r \in Sd!Rows : r \notin R => dRows'[r] = dRows[r]
<1>1. dRows \in [Sd!Rows -> Nat] /\ R \subseteq Sd!Rows
  BY RowsOfSteps DEF SeedInv, SeedTypes, Adds
<1>2. \A r \in Sd!Rows : dRows'[r] = dRows[r] + (IF r \in R THEN 1 ELSE 0)
  BY DEF Adds
<1>3. dRows' \in [Sd!Rows -> Nat]
  BY <1>1 DEF Adds
<1>4. ASSUME NEW r \in Sd!Rows PROVE dRows'[r] <= 1
  <2>1. dRows[r] <= 1 /\ dRows[r] \in Nat
    BY <1>1 DEF SeedInv, Sd!NothingTwice
  <2> QED
    BY <1>2, <2>1 DEF Adds
<1> QED
  BY <1>1, <1>2, <1>3, <1>4 DEF Sd!NothingTwice, Adds

(* The rows of other steps stay as they are, so what earlier steps have left*)
(* stands: the rows they hang on are made before them.                      *)
LEMMA OthersKeepRows ==
  ASSUME SeedInv, NEW i \in StepNos, NEW R, Adds(i, R), dGone' = dGone
  PROVE  /\ \A r \in Sd!Rows : r \notin Sd!Makes(i) =>
              dRows'[r] = dRows[r] /\ (Sd!Usable(r)' <=> Sd!Usable(r))
         /\ \A r \in Sd!Rows : Sd!Found(r) => Sd!Found(r)'
<1>1. \A r \in Sd!Rows : r \notin R => dRows'[r] = dRows[r]
  BY AddsRows
<1>2. \A r \in R : dRows'[r] = 1
  BY AddsRows
<1>3. R \subseteq Sd!Makes(i)
  BY DEF Adds
<1>4. \A r \in Sd!Rows : Sd!There(r) => Sd!There(r)'
  BY <1>1, <1>2 DEF Sd!There
<1>5. \A r \in Sd!Rows : r \notin R => (Sd!There(r)' <=> Sd!There(r))
  BY <1>1 DEF Sd!There
<1> QED
  BY <1>1, <1>3, <1>4, <1>5 DEF Sd!Usable, Sd!Found

LEMMA EarlierRowsFound ==
  ASSUME SeedInv, NEW i \in StepNos, NEW R, Adds(i, R), dGone' = dGone,
         NEW j \in StepNos, j <= i, RowFound(SeedProgram[j])
  PROVE  RowFound(SeedProgram[j])'
<1> DEFINE t == SeedProgram[j]
<1>1. t.row \in Sd!Rows
  BY RowsOfSteps
<1>2. \A r \in t.needs : r \in Sd!Rows /\ r \notin Sd!Makes(i)
  <2> SUFFICES ASSUME NEW r \in t.needs PROVE r \in Sd!Rows /\ r \notin Sd!Makes(i)
    OBVIOUS
  <2>1. PICK k \in 1..(j - 1) : r \in Sd!Makes(k)
    BY PlatformAssumption DEF Sd!ProgramAssumption, StepNos
  <2>2. k \in StepNos /\ k # i
    BY PlatformAssumption DEF Sd!ProgramAssumption, StepNos
  <2>3. Sd!Makes(i) \cap Sd!Makes(k) = {}
    BY <2>2, PlatformAssumption DEF Sd!ProgramAssumption, StepNos
  <2> QED
    BY <2>1, <2>2, <2>3, RowsOfSteps
<1>3. \A r \in t.needs : Sd!Usable(r)' <=> Sd!Usable(r)
  BY <1>2, OthersKeepRows
<1>4. Sd!Found(t.row) => Sd!Found(t.row)'
  BY <1>1, OthersKeepRows
<1>5. Sd!Table(t.row)' = Sd!Table(t.row)
  BY DEF Sd!Table
<1> QED
  BY <1>3, <1>4, <1>5 DEF RowFound

(* Step i changes a counter to make it exact, or that of its own church.    *)
CountersMove(i) ==
  \A c \in SeedChurches :
    \/ dCounter'[c] = dCounter[c]
    \/ SeedProgram[i].row[2] = c /\ Sd!Table(SeedProgram[i].row) = "church"
    \/ dCounter'[c] = Sd!CountOf(c, dRows')

(* A church that has been counted gets no member more.                      *)
LEMMA EarlierCountsExact ==
  ASSUME SeedInv, NEW i \in StepNos, NEW R, Adds(i, R),
         NEW j \in StepNos, j < i, CountExact(SeedProgram[j]), CountersMove(i)
  PROVE  CountExact(SeedProgram[j])'
<1> DEFINE c == SeedProgram[j].row[2]
<1> SUFFICES ASSUME Sd!Table(SeedProgram[j].row) = "count"
             PROVE  dCounter'[c] = Sd!CountOf(c, dRows')
  BY DEF CountExact, Sd!CountOf, Sd!Table
<1>1. c \in SeedChurches
  BY PlatformAssumption DEF Sd!ProgramAssumption, StepNos
<1>2. /\ Sd!Table(SeedProgram[i].row) = "church" => SeedProgram[i].row[2] # c
      /\ \A r \in Sd!Makes(i) : Sd!Table(r) = "member" => r[3] # c
  BY PlatformAssumption DEF Sd!ProgramAssumption, StepNos
<1>3. \A r \in Sd!Rows : r \notin Sd!Makes(i) => dRows'[r] = dRows[r]
  BY AddsRows DEF Adds
<1>4. Sd!CountOf(c, dRows') = Sd!CountOf(c, dRows)
  <2>1. {r \in Sd!Rows : Sd!Table(r) = "member" /\ r[3] = c /\ dRows'[r] > 0}
        = {r \in Sd!Rows : Sd!Table(r) = "member" /\ r[3] = c /\ dRows[r] > 0}
    BY <1>2, <1>3
  <2> QED
    BY <2>1 DEF Sd!CountOf
<1>5. dCounter[c] = Sd!CountOf(c, dRows)
  BY DEF CountExact
<1> QED
  BY <1>1, <1>2, <1>4, <1>5 DEF CountersMove

(* The rows of a church are made in one step, and no church disappears.     *)
LEMMA ChurchesStayWhole ==
  ASSUME SeedInv, NEW i \in StepNos, NEW R, Adds(i, R),
         Sd!Table(SeedProgram[i].row) = "church" /\ dRows[SeedProgram[i].row] = 0 =>
           SeedProgram[i].row \in R
  PROVE  ChurchesWhole'
<1> SUFFICES ASSUME NEW k \in StepNos,
                    Sd!Table(SeedProgram[k].row) = "church", dRows'[SeedProgram[k].row] = 0,
                    NEW r \in SeedProgram[k].with
             PROVE  dRows'[r] = 0
  BY DEF ChurchesWhole, Sd!Table, StepNos
<1>1. r \in Sd!Rows /\ SeedProgram[k].row \in Sd!Rows
  BY RowsOfSteps
<1>2. r \in Sd!Makes(k) /\ SeedProgram[k].row \in Sd!Makes(k)
  BY RowsOfSteps
<1>3. dRows[SeedProgram[k].row] = 0
  BY <1>1, AddsRows
<1>4. dRows[r] = 0
  BY <1>3 DEF SeedInv, ChurchesWhole
<1>5. r \notin R
  <2>1. CASE k = i
    BY <1>1, <1>3, <2>1, AddsRows
  <2>2. CASE k # i
    <3>1. Sd!Makes(i) \cap Sd!Makes(k) = {}
      BY <2>2, PlatformAssumption DEF Sd!ProgramAssumption, StepNos
    <3> QED
      BY <1>2, <3>1 DEF Adds
  <2> QED
    BY <2>1, <2>2
<1> QED
  BY <1>1, <1>4, <1>5, AddsRows

(* A step of the run adds rows, leaves its own row found and its own church *)
(* counted, and changes no counter but that of its church.                  *)
LEMMA StepAdds ==
  ASSUME SeedInv, Sd!DoStep, NEW i \in StepNos, i = dAt
  PROVE  \E R :
    /\ Adds(i, R)
    /\ RowFound(SeedProgram[i])' /\ CountExact(SeedProgram[i])'
    /\ Sd!Table(SeedProgram[i].row) = "church" /\ dRows[SeedProgram[i].row] = 0 =>
         SeedProgram[i].row \in R
    /\ dCounter' \in [SeedChurches -> Nat] /\ dFresh' \subseteq Sd!Rows
    /\ CountersMove(i)
<1> DEFINE t == SeedProgram[i]
<1>0. /\ i \in StepNos /\ dGone' = dGone /\ Sd!Current = t
      /\ dRows \in [Sd!Rows -> Nat] /\ dCounter \in [SeedChurches -> Nat]
      /\ dFresh \subseteq Sd!Rows
  BY DEF Sd!DoStep, StepNos, Sd!Current, SeedInv, SeedTypes
<1>1. /\ t.row \in Sd!Makes(i) /\ t.with \subseteq Sd!Makes(i)
      /\ t.row \in Sd!Rows /\ t.with \subseteq Sd!Rows
  BY <1>0, RowsOfSteps
<1>2. \A r \in Sd!Rows : ~Sd!Found(r) => dRows[r] = 0
  <2>1. ASSUME NEW r \in Sd!Rows, ~(dRows[r] > 0) PROVE dRows[r] = 0
    <3>1. dRows[r] \in Nat
      BY <1>0
    <3> QED
      BY <2>1, <3>1
  <2> QED
    BY <2>1 DEF Sd!Found, Sd!There
<1>3. t.row \notin t.needs
  <2>1. \A r \in t.needs : \E j \in 1..(i - 1) : r \in Sd!Makes(j)
    BY <1>0, PlatformAssumption DEF Sd!ProgramAssumption, StepNos
  <2>2. \A j \in 1..(i - 1) : j \in StepNos /\ j # i
    BY <1>0, PlatformAssumption DEF Sd!ProgramAssumption, StepNos
  <2>3. \A j \in StepNos : j # i => Sd!Makes(i) \cap Sd!Makes(j) = {}
    BY <1>0, PlatformAssumption DEF Sd!ProgramAssumption, StepNos
  <2> QED
    BY <1>1, <2>1, <2>2, <2>3
<1>4. ASSUME NEW R, R \subseteq Sd!Rows,
             dRows' = [r \in Sd!Rows |-> dRows[r] + (IF r \in R THEN 1 ELSE 0)]
      PROVE  \A r \in R : Sd!Found(r)'
  <2>1. \A r \in R : dRows'[r] = dRows[r] + 1 /\ dRows[r] \in Nat
    BY <1>0, <1>4
  <2> QED
    BY <2>1 DEF Sd!Found, Sd!There
<1>5. ASSUME UNCHANGED dRows
      PROVE  Adds(i, {}) /\ (Sd!Found(t.row)' <=> Sd!Found(t.row))
  <2>1. \A r \in Sd!Rows : dRows[r] + 0 = dRows[r]
    BY <1>0
  <2>2. dRows = [r \in Sd!Rows |-> dRows[r] + (IF r \in {} THEN 1 ELSE 0)]
    BY <1>0, <2>1
  <2> QED
    BY <1>0, <1>5, <2>2 DEF Adds, Sd!Found, Sd!There
<1>6. CASE Sd!FindOrCreate
  <2>1. UNCHANGED dCounter /\ Sd!Table(t.row) \notin {"church", "count"}
    BY <1>0, <1>6 DEF Sd!FindOrCreate
  <2>2. CASE Sd!Ready(t) /\ ~Sd!Found(t.row)
    <3>1. Sd!Add({t.row})
      BY <1>0, <1>6, <2>2 DEF Sd!FindOrCreate
    <3>2. Adds(i, {t.row})
      BY <1>1, <1>2, <2>2, <3>1 DEF Sd!Add, Adds
    <3>3. Sd!Found(t.row)'
      BY <1>1, <1>4, <3>1 DEF Sd!Add
    <3>4. RowFound(t)' /\ CountExact(t)'
      BY <2>1, <3>3 DEF RowFound, CountExact, Sd!Table
    <3>5. dFresh' \subseteq Sd!Rows
      BY <1>0, <1>1, <3>1 DEF Sd!Add
    <3> QED
      BY <1>0, <2>1, <3>2, <3>4, <3>5 DEF CountersMove
  <2>3. CASE ~(Sd!Ready(t) /\ ~Sd!Found(t.row))
    <3>1. UNCHANGED <<dRows, dFresh>>
      BY <1>0, <1>6, <2>3 DEF Sd!FindOrCreate
    <3>2. Adds(i, {}) /\ (Sd!Found(t.row)' <=> Sd!Found(t.row))
      BY <1>5, <3>1
    <3>3. \A r \in t.needs : Sd!Usable(r)' <=> Sd!Usable(r)
      BY <1>0, <3>1 DEF Sd!Usable, Sd!Found, Sd!There
    <3>4. RowFound(t)'
      BY <2>3, <3>2, <3>3 DEF RowFound, Sd!Ready, Sd!Table
    <3>5. CountExact(t)'
      BY <2>1 DEF CountExact, Sd!Table
    <3> QED
      BY <1>0, <2>1, <3>1, <3>2, <3>4, <3>5 DEF CountersMove
  <2> QED
    BY <2>2, <2>3
<1>7. CASE Sd!UpdateCount
  <2> DEFINE c == t.row[2]
  <2>1. /\ UNCHANGED <<dRows, dFresh>> /\ Sd!Table(t.row) = "count"
        /\ dCounter' = [dCounter EXCEPT ![c] = Sd!CountOf(c, dRows)]
    BY <1>0, <1>7 DEF Sd!UpdateCount, Sd!Recounted
  <2>2. c \in SeedChurches
    BY <1>0, <2>1, PlatformAssumption DEF Sd!ProgramAssumption, StepNos
  <2>3. dCounter' \in [SeedChurches -> Nat]
    BY <1>0, <2>1, <2>2, CountIsNat
  <2>4. dCounter'[c] = Sd!CountOf(c, dRows') /\ \A d \in SeedChurches : d # c => dCounter'[d] = dCounter[d]
    BY <1>0, <2>1, <2>2
  <2>5. Adds(i, {})
    BY <1>5, <2>1
  <2>6. RowFound(t)'
    BY <2>1 DEF RowFound, Sd!Table
  <2>7. CountExact(t)'
    BY <2>4 DEF CountExact, Sd!CountOf
  <2> QED
    BY <1>0, <2>1, <2>3, <2>4, <2>5, <2>6, <2>7 DEF CountersMove
<1>8. CASE Sd!FindOrCreateChurch
  <2> DEFINE c == t.row[2]
             missing == {r \in t.with : Sd!Table(r) = "member" /\ ~Sd!Found(r)}
  <2>1. Sd!Table(t.row) = "church"
    BY <1>0, <1>8 DEF Sd!FindOrCreateChurch
  <2>2. c \in SeedChurches
    BY <1>0, <2>1, PlatformAssumption DEF Sd!ProgramAssumption, StepNos
  <2>3. CountExact(t)'
    BY <2>1 DEF CountExact, Sd!Table
  <2>4. CASE ~Sd!Found(t.row)
    <3> DEFINE R == {t.row} \cup t.with
    <3>1. Sd!Add(R) /\ dCounter' = [dCounter EXCEPT ![c] = 1]
      BY <1>0, <1>8, <2>4 DEF Sd!FindOrCreateChurch
    <3>2. \A r \in R : dRows[r] = 0
      <4>1. dRows[t.row] = 0
        BY <1>1, <1>2, <2>4
      <4> QED
        BY <1>0, <2>1, <4>1 DEF SeedInv, ChurchesWhole
    <3>3. Adds(i, R)
      BY <1>1, <3>1, <3>2 DEF Sd!Add, Adds
    <3>4. Sd!Found(t.row)'
      <4>1. R \subseteq Sd!Rows /\ t.row \in R
        BY <1>1
      <4> QED
        BY <1>4, <3>1, <4>1 DEF Sd!Add
    <3>5. RowFound(t)'
      BY <3>4 DEF RowFound
    <3>6. dFresh' \subseteq Sd!Rows
      BY <1>0, <1>1, <3>1 DEF Sd!Add
    <3>7. /\ dCounter' \in [SeedChurches -> Nat]
          /\ \A d \in SeedChurches : d # c => dCounter'[d] = dCounter[d]
      BY <1>0, <2>2, <3>1
    <3>8. t.row \in R
      OBVIOUS
    <3> HIDE DEF R
    <3> QED
      BY <2>1, <2>3, <3>3, <3>5, <3>6, <3>7, <3>8 DEF CountersMove
  <2>5. CASE Sd!Found(t.row)
    <3>1. /\ Sd!Add(missing)
          /\ dCounter' = IF missing = {} THEN dCounter
                         ELSE [dCounter EXCEPT ![c] = Sd!CountOf(c, dRows')]
      BY <1>0, <1>8, <2>5 DEF Sd!FindOrCreateChurch
    <3>2. Adds(i, missing)
      BY <1>1, <1>2, <3>1 DEF Sd!Add, Adds
    <3>3. Sd!Found(t.row)'
      BY <1>0, <1>1, <2>5, <3>2, OthersKeepRows
    <3>4. RowFound(t)'
      BY <3>3 DEF RowFound
    <3>5. dFresh' \subseteq Sd!Rows
      BY <1>0, <1>1, <3>1 DEF Sd!Add
    <3>6. /\ dCounter' \in [SeedChurches -> Nat]
          /\ \A d \in SeedChurches : d # c => dCounter'[d] = dCounter[d]
      BY <1>0, <2>2, <3>1, CountIsNat
    <3>7. dRows[t.row] # 0
      <4>1. Sd!There(t.row)
        BY <2>1, <2>5 DEF SeedInv, SeedTypes, Sd!Found, Sd!Filtered
      <4> QED
        BY <1>0, <1>1, <4>1 DEF Sd!There
    <3> HIDE DEF missing
    <3> QED
      BY <2>1, <2>3, <3>2, <3>4, <3>5, <3>6, <3>7 DEF CountersMove
  <2> QED
    BY <2>4, <2>5
<1> QED
  BY <1>6, <1>7, <1>8 DEF Sd!DoStep

LEMMA SeedInit == Sd!Init => SeedInv
<1> SUFFICES ASSUME Sd!Init PROVE SeedInv
  OBVIOUS
<1>1. Len(SeedProgram) \in Nat /\ DOMAIN SeedProgram = 1..Len(SeedProgram)
  BY PlatformAssumption DEF Sd!ProgramAssumption
<1>2. SeedTypes /\ dAt = 0 /\ dEnded = FALSE /\ \A r \in Sd!Rows : dRows[r] = 0
  BY <1>1 DEF Sd!Init, SeedTypes
<1>3. Sd!NothingTwice
  BY <1>2 DEF Sd!NothingTwice
<1>4. ChurchesWhole
  BY <1>2, RowsOfSteps DEF ChurchesWhole
<1>5. \A j \in StepNos : ~(j < dAt)
  BY <1>1, <1>2 DEF StepNos
<1> QED
  BY <1>2, <1>3, <1>4, <1>5 DEF SeedInv

LEMMA SeedStepInv == ASSUME SeedInv, Sd!DoStep PROVE SeedInv'
<1>0. PICK i \in StepNos : i = dAt
  BY DEF Sd!DoStep, StepNos
<1>1. /\ dGone' = dGone /\ (dEnded' => i = Len(SeedProgram))
      /\ dAt' = IF i = Len(SeedProgram) THEN 0 ELSE i + 1
  BY <1>0 DEF Sd!DoStep, Sd!AfterThis
<1>2. Len(SeedProgram) \in Nat \ {0} /\ StepNos = 1..Len(SeedProgram)
  BY PlatformAssumption DEF Sd!ProgramAssumption, StepNos
<1>3. PICK R :
        /\ Adds(i, R)
        /\ RowFound(SeedProgram[i])' /\ CountExact(SeedProgram[i])'
        /\ Sd!Table(SeedProgram[i].row) = "church" /\ dRows[SeedProgram[i].row] = 0 =>
             SeedProgram[i].row \in R
        /\ dCounter' \in [SeedChurches -> Nat] /\ dFresh' \subseteq Sd!Rows
        /\ CountersMove(i)
  BY <1>0, StepAdds
<1>4. dRows' \in [Sd!Rows -> Nat] /\ Sd!NothingTwice'
  BY <1>3, AddsRows
<1>5. ChurchesWhole'
  BY <1>3, ChurchesStayWhole
<1>6. ASSUME NEW j \in StepNos, j <= i PROVE StepDone(j)'
  <2>1. CASE j = i
    BY <1>3, <2>1 DEF StepDone
  <2>2. CASE j # i
    <3>1. j < i /\ RowFound(SeedProgram[j]) /\ CountExact(SeedProgram[j])
      BY <1>0, <1>2, <1>6, <2>2 DEF SeedInv, StepDone
    <3>2. RowFound(SeedProgram[j])'
      BY <1>1, <1>3, <1>6, <3>1, EarlierRowsFound
    <3>3. CountExact(SeedProgram[j])'
      BY <1>3, <3>1, EarlierCountsExact
    <3> QED
      BY <3>2, <3>3 DEF StepDone
  <2> QED
    BY <2>1, <2>2
<1>7. \A j \in StepNos : j < dAt' => StepDone(j)'
  BY <1>1, <1>2, <1>6
<1>8. dEnded' => dAt' = 0 /\ \A j \in StepNos : StepDone(j)'
  BY <1>1, <1>2, <1>6
<1>9. SeedTypes'
  <2>1. dAt' \in 0..Len(SeedProgram)
    BY <1>1, <1>2
  <2>2. \A r \in dGone' : Sd!Table(r)' \in Sd!Filtered' \cup {"member"}
    BY <1>1 DEF SeedInv, SeedTypes, Sd!Filtered, Sd!Table
  <2> QED
    BY <1>1, <1>3, <1>4, <2>1, <2>2 DEF SeedInv, SeedTypes, Sd!Table
<1> QED
  BY <1>4, <1>5, <1>7, <1>8, <1>9 DEF SeedInv, StepNos

(* Between runs rows only go, and no church does.                           *)
LEMMA EditInv == ASSUME SeedInv, Sd!Edit PROVE SeedInv'
<1>1. PICK r \in Sd!Rows :
        \/ /\ Sd!Table(r) \in Sd!Filtered /\ Sd!Remove({r}) /\ dGone' = dGone \cup {r}
           /\ UNCHANGED dCounter
        \/ Sd!Table(r) \in Sd!Hard /\ Sd!Remove({r}) /\ UNCHANGED <<dGone, dCounter>>
        \/ /\ Sd!Table(r) = "member"
           /\ Sd!Remove({r, <<"holds", r[2]>>}) /\ dGone' = dGone \cup {r}
           /\ dCounter' = [dCounter EXCEPT ![r[3]] = Sd!CountOf(r[3], dRows')]
  BY DEF Sd!Edit
<1>2. dAt = 0 /\ dAt' = 0 /\ dEnded' = FALSE /\ dFresh' = dFresh
  BY DEF Sd!Edit
<1>3. /\ dRows \in [Sd!Rows -> Nat] /\ dCounter \in [SeedChurches -> Nat]
      /\ Sd!NothingTwice
  BY DEF SeedInv, SeedTypes
<1>4. PICK R : Sd!Remove(R) /\ \A s \in R : Sd!Table(s) # "church"
  <2>1. CASE Sd!Table(r) = "member"
    <3>1. Sd!Table(<<"holds", r[2]>>) = "holds"
      BY DEF Sd!Table
    <3>2. Sd!Remove({r, <<"holds", r[2]>>})
      BY <1>1, <2>1 DEF Sd!Filtered, Sd!Hard
    <3>3. \A s \in {r, <<"holds", r[2]>>} : Sd!Table(s) # "church"
      BY <2>1, <3>1
    <3> QED
      BY <3>2, <3>3
  <2>2. CASE Sd!Table(r) # "member"
    BY <1>1, <2>2 DEF Sd!Filtered, Sd!Hard
  <2> QED
    BY <2>1, <2>2
<1>5. dRows' = [s \in Sd!Rows |-> IF s \in R THEN 0 ELSE dRows[s]]
  BY <1>4 DEF Sd!Remove
<1>6. dRows' \in [Sd!Rows -> Nat]
  BY <1>3, <1>5
<1>7. Sd!NothingTwice'
  BY <1>3, <1>5 DEF Sd!NothingTwice
<1>8. ChurchesWhole'
  <2> SUFFICES ASSUME NEW k \in StepNos,
                      Sd!Table(SeedProgram[k].row) = "church", dRows'[SeedProgram[k].row] = 0,
                      NEW s \in SeedProgram[k].with
               PROVE  dRows'[s] = 0
    BY DEF ChurchesWhole, Sd!Table, StepNos
  <2>1. s \in Sd!Rows /\ SeedProgram[k].row \in Sd!Rows
    BY RowsOfSteps
  <2>2. dRows[SeedProgram[k].row] = 0
    BY <1>4, <1>5, <2>1
  <2>3. dRows[s] = 0
    BY <2>2 DEF SeedInv, ChurchesWhole
  <2> QED
    BY <1>5, <2>1, <2>3
<1>9. dCounter' \in [SeedChurches -> Nat] /\ dGone' \subseteq Sd!Rows
      /\ \A s \in dGone' : Sd!Table(s) \in Sd!Filtered \cup {"member"}
  <2>1. dGone \subseteq Sd!Rows /\ \A s \in dGone : Sd!Table(s) \in Sd!Filtered \cup {"member"}
    BY DEF SeedInv, SeedTypes
  <2> QED
    BY <1>1, <1>3, <2>1, CountIsNat
<1>10. \A j \in StepNos : ~(j < dAt')
  BY <1>2, PlatformAssumption DEF Sd!ProgramAssumption, StepNos
<1>11. SeedTypes'
  BY <1>2, <1>6, <1>9 DEF SeedInv, SeedTypes, Sd!Table, Sd!Filtered
<1> QED
  BY <1>2, <1>7, <1>8, <1>10, <1>11 DEF SeedInv, StepNos

LEMMA SeedNextInv == ASSUME SeedInv, [Sd!Next]_dVars PROVE SeedInv'
<1>0. Len(SeedProgram) \in Nat \ {0} /\ StepNos = 1..Len(SeedProgram)
  BY PlatformAssumption DEF Sd!ProgramAssumption, StepNos
<1> USE DEF SeedInv, SeedTypes, Sd!NothingTwice, ChurchesWhole, StepDone, RowFound, CountExact,
            Sd!Usable, Sd!Found, Sd!There, Sd!CountOf, Sd!Table, Sd!Filtered, StepNos
<1>1. CASE Sd!Start
  <2>1. /\ dAt' = 1 /\ dFresh' = {} /\ dEnded' = FALSE
        /\ UNCHANGED <<dRows, dGone, dCounter>>
    BY <1>1 DEF Sd!Start
  <2>2. \A j \in StepNos : ~(j < dAt')
    BY <1>0, <2>1
  <2> QED
    BY <1>0, <2>1, <2>2
<1>2. CASE Sd!Die
  <2>1. /\ dAt > 0 /\ dAt' = 0 /\ UNCHANGED <<dRows, dGone, dCounter, dFresh, dEnded>>
    BY <1>2 DEF Sd!Die
  <2>2. \A j \in StepNos : ~(j < dAt')
    BY <1>0, <2>1
  <2>3. dEnded' = FALSE \/ ~dEnded'
    BY <2>1
  <2> QED
    BY <1>0, <2>1, <2>2
<1>3. CASE Sd!DoStep
  BY <1>3, SeedStepInv
<1>4. CASE Sd!Edit
  BY <1>4, EditInv
<1>5. CASE UNCHANGED dVars
  BY <1>5 DEF dVars
<1> QED
  BY <1>1, <1>2, <1>3, <1>4, <1>5 DEF Sd!Next

LEMMA SeedInvHolds == MCSpec => []SeedInv
<1>1. MCInit => SeedInv
  BY SeedInit DEF MCInit
<1>2. SeedInv /\ [MCNext]_<<vars, part, sVars, dVars>> => SeedInv'
  <2> SUFFICES ASSUME SeedInv, [MCNext]_<<vars, part, sVars, dVars>> PROVE SeedInv'
    OBVIOUS
  <2>1. [Sd!Next]_dVars
    BY DEF MCNext, AccessNext, SessionsNext, SeedNext
  <2> QED
    BY <2>1, SeedNextInv
<1> QED
  BY <1>1, <1>2, PTL DEF MCSpec

(* The seed program, for any data whose steps come in the order             *)
(* ProgramAssumption states: whichever steps the runs before died at, and   *)
(* whatever was deleted since, the first run that ends has found or created *)
(* every row that nothing stands in the way of, and counted every church.   *)
THEOREM EndedRunHeals == MCSpec => []SeedHeals
<1>1. SeedInv => Sd!SeedHeals
  <2> SUFFICES ASSUME SeedInv, dEnded PROVE
        /\ \A i \in StepNos :
             LET t == SeedProgram[i] IN
             t.under = None /\ Sd!Table(t.row) # "count" /\ (\A r \in t.needs : Sd!Usable(r))
               => Sd!Found(t.row)
        /\ \A c \in SeedChurches : dCounter[c] = Sd!CountOf(c, dRows)
    BY DEF Sd!SeedHeals, StepNos
  <2>1. \A i \in StepNos : RowFound(SeedProgram[i]) /\ CountExact(SeedProgram[i])
    BY DEF SeedInv, StepDone
  <2>2. ASSUME NEW c \in SeedChurches PROVE dCounter[c] = Sd!CountOf(c, dRows)
    <3>1. PICK i \in StepNos : SeedProgram[i].row = <<"count", c>>
      BY PlatformAssumption DEF Sd!ProgramAssumption, StepNos
    <3>2. Sd!Table(SeedProgram[i].row) = "count" /\ SeedProgram[i].row[2] = c
      BY <3>1 DEF Sd!Table
    <3> QED
      BY <2>1, <3>2 DEF CountExact
  <2> QED
    BY <2>1, <2>2 DEF RowFound
<1>2. SeedInv => SeedHeals
  BY <1>1 DEF SeedHeals
<1> QED
  BY <1>2, SeedInvHolds, PTL

(* No run of the seed creates a row that an earlier one, whole or dead, had *)
(* created: every step looks for its row, a transaction makes a church with *)
(* its admin's rows or nothing.                                             *)
THEOREM SeedDoublesNothing == MCSpec => []NothingTwice
<1>1. SeedInv => NothingTwice
  BY DEF SeedInv, NothingTwice
<1> QED
  BY <1>1, SeedInvHolds, PTL

-----------------------------------------------------------------------------
(***************************************************************************)
(* Sessions: a refresh is granted to the last login only.  The key of an   *)
(* account in Redis is either unset or the token of its last login, and    *)
(* expires Life days after that token was signed.                          *)
(***************************************************************************)
ChurchRow == [state : {"new", "live", "deleted"}, name : SessionNames \cup {None},
              status : Ses!Status]
Tokens == [device : Devices \cup {None}, day : Nat]
SessionCall ==
  [op : {"create", "update", "status", "delete", "login", "refresh"},
   pc : {"read", "write", "createRole", "commit", "answered"},
   church : SessionChurches, arg : SessionNames \cup Ses!Status \cup Devices \cup {None},
   token : Tokens]

(* A call carries what its endpoint takes. *)
Suits(r) ==
  /\ r.op \in {"create", "update"} => r.arg \in SessionNames
  /\ r.op = "status" => r.arg \in Ses!Status
  /\ r.op = "login" => r.arg \in Devices
Running == {r \in SessionCall : Suits(r)}

SessionTypes ==
  /\ sChurch \in [SessionChurches -> ChurchRow]
  /\ sReq \in [Reqs -> {Ses!Idle} \cup Running]
  /\ sRedis \in [SessionChurches -> [token : Tokens, expires : Nat]]
  /\ sDevice \in [Devices -> [token : Tokens, church : SessionChurches \cup {None}]]
  /\ sLatest \in [SessionChurches -> Tokens]
  /\ sToday \in 1..LastDay

KeyIsLatest ==
  \A c \in SessionChurches :
    sRedis[c].token # Ses!NoToken =>
      /\ sRedis[c].token = sLatest[c]
      /\ sRedis[c].expires = sRedis[c].token.day + Life

SessionInv == SessionTypes /\ KeyIsLatest

LEMMA SessionNumbers == Life \in Nat \ {0} /\ LastDay \in Nat \ {0} /\ 1..LastDay \subseteq Nat
BY PlatformAssumption DEF Ses!SessionsAssumption

LEMMA NoTokenIsToken == Ses!NoToken \in Tokens
BY DEF Ses!NoToken, Tokens

LEMMA SessionInit == Ses!Init => SessionInv
<1> SUFFICES ASSUME Ses!Init PROVE SessionInv
  OBVIOUS
<1>1. /\ sReq = [p \in Reqs |-> Ses!Idle] /\ sToday = 1
      /\ sRedis = [c \in SessionChurches |-> [token |-> Ses!NoToken, expires |-> 0]]
      /\ sDevice = [d \in Devices |-> [token |-> Ses!NoToken, church |-> None]]
      /\ sLatest = [c \in SessionChurches |-> Ses!NoToken]
  BY DEF Ses!Init
<1>2. sChurch \in [SessionChurches -> ChurchRow]
  BY DEF Ses!Init, ChurchRow, Ses!Status
<1>3. SessionTypes
  BY <1>1, <1>2, NoTokenIsToken, SessionNumbers DEF SessionTypes
<1>4. KeyIsLatest
  BY <1>1 DEF KeyIsLatest
<1> QED
  BY <1>3, <1>4 DEF SessionInv

(* A request that is not idle is a call.                                    *)
LEMMA CallOf ==
  ASSUME SessionTypes, NEW p \in Reqs, sReq[p].pc # "idle"
  PROVE  sReq[p] \in Running
BY DEF SessionTypes, Ses!Idle

(* What a step does to its own request: it is idle, or a call whose pc is   *)
(* not "answered".                                                          *)
Moves(p) ==
  \E r \in {Ses!Idle} \cup Running : sReq' = [sReq EXCEPT ![p] = r] /\ r.pc # "answered"

LEMMA FinishMoves ==
  ASSUME NEW p \in Reqs, Ses!Finish(p)
  PROVE  Moves(p)
<1>1. Ses!Idle.pc # "answered"
  BY DEF Ses!Idle
<1>2. sReq' = [sReq EXCEPT ![p] = Ses!Idle]
  BY DEF Ses!Finish
<1>3. Ses!Idle \in {Ses!Idle} \cup Running
  OBVIOUS
<1> QED
  BY <1>1, <1>2, <1>3 DEF Moves

LEMMA CallMoves ==
  ASSUME NEW p \in Reqs,
         NEW o \in {"create", "update", "status", "delete", "login", "refresh"},
         NEW c \in SessionChurches,
         NEW x \in SessionNames \cup Ses!Status \cup Devices \cup {None},
         NEW t \in Tokens, Ses!Call(p, o, c, x, t),
         o \in {"create", "update"} => x \in SessionNames,
         o = "status" => x \in Ses!Status,
         o = "login" => x \in Devices
  PROVE  Moves(p)
<1> DEFINE r == [op |-> o, pc |-> "read", church |-> c, arg |-> x, token |-> t]
<1>1. r \in SessionCall /\ r.pc # "answered"
  BY DEF SessionCall
<1>2. r.op = o /\ r.arg = x
  OBVIOUS
<1>3. sReq' = [sReq EXCEPT ![p] = r]
  BY DEF Ses!Call
<1> HIDE DEF r
<1>4. r \in Running
  BY <1>1, <1>2 DEF Running, Suits
<1> QED
  BY <1>1, <1>3, <1>4 DEF Moves

LEMMA ArriveMoves ==
  ASSUME SessionTypes, NEW p \in Reqs, Ses!Arrive(p)
  PROVE  Moves(p)
<1>1. ASSUME NEW d \in Devices, sDevice[d].church # None,
             Ses!Call(p, "refresh", sDevice[d].church, d, sDevice[d].token)
      PROVE  Moves(p)
  <2>1. sDevice[d].church \in SessionChurches /\ sDevice[d].token \in Tokens
    BY <1>1 DEF SessionTypes
  <2> QED
    BY <1>1, <2>1, CallMoves
<1>2. ASSUME NEW c \in SessionChurches, NEW n \in SessionNames,
             Ses!Call(p, "create", c, n, Ses!NoToken) \/ Ses!Call(p, "update", c, n, Ses!NoToken)
      PROVE  Moves(p)
  BY <1>2, CallMoves, NoTokenIsToken
<1>3. ASSUME NEW c \in SessionChurches, NEW s \in Ses!Status,
             Ses!Call(p, "status", c, s, Ses!NoToken)
      PROVE  Moves(p)
  BY <1>3, CallMoves, NoTokenIsToken
<1>4. ASSUME NEW c \in SessionChurches, Ses!Call(p, "delete", c, None, Ses!NoToken)
      PROVE  Moves(p)
  BY <1>4, CallMoves, NoTokenIsToken
<1>5. ASSUME NEW c \in SessionChurches, NEW d \in Devices,
             Ses!Call(p, "login", c, d, Ses!NoToken)
      PROVE  Moves(p)
  BY <1>5, CallMoves, NoTokenIsToken
<1> QED
  BY <1>1, <1>2, <1>3, <1>4, <1>5 DEF Ses!Arrive

(* The pc of a call that moves on; it stays the call it is.                 *)
LEMMA MovedPc ==
  ASSUME SessionTypes, NEW p \in Reqs, sReq[p].pc # "idle",
         NEW x \in {"read", "write", "createRole", "commit", "answered"}
  PROVE  [sReq[p] EXCEPT !.pc = x] \in Running /\ [sReq[p] EXCEPT !.pc = x].pc = x
<1>1. sReq[p] \in Running
  BY CallOf
<1> QED
  BY <1>1 DEF Running, SessionCall, Suits

LEMMA PcMoves ==
  ASSUME SessionTypes, NEW p \in Reqs, sReq[p].pc # "idle",
         NEW x \in {"write", "createRole", "commit"}, sReq' = [sReq EXCEPT ![p].pc = x]
  PROVE  Moves(p)
<1>1. PICK r : r = [sReq[p] EXCEPT !.pc = x] /\ sReq' = [sReq EXCEPT ![p] = r]
  OBVIOUS
<1>2. r \in Running /\ r.pc = x
  BY <1>1, MovedPc
<1> QED
  BY <1>1, <1>2 DEF Moves

LEMMA CheckMoves ==
  ASSUME SessionTypes, NEW p \in Reqs, sReq[p].pc = "read", NEW ok, Ses!Check(p, ok)
  PROVE  Moves(p)
<1>1. CASE ok
  <2>1. sReq' = [sReq EXCEPT ![p].pc = "write"]
    BY <1>1 DEF Ses!Check
  <2> QED
    BY <2>1, PcMoves
<1>2. CASE ~ok
  <2>1. Ses!Finish(p)
    BY <1>2 DEF Ses!Check, Ses!Finish
  <2> QED
    BY <2>1, FinishMoves
<1> QED
  BY <1>1, <1>2

(* Every step of a request but a granted refresh moves it, and one only.    *)
LEMMA StepMoves ==
  ASSUME SessionTypes, NEW p \in Reqs, Ses!Arrive(p) \/ Ses!Step(p)
  PROVE  Moves(p) \/ (Ses!Refresh(p) /\ sReq' = [sReq EXCEPT ![p].pc = "answered"])
<1>1. CASE Ses!Arrive(p)
  BY <1>1, ArriveMoves
<1>2. CASE Ses!CreateCheck(p) \/ Ses!ChurchCheck(p) \/ Ses!LoginCheck(p)
  <2>1. sReq[p].pc = "read"
    BY <1>2 DEF Ses!CreateCheck, Ses!ChurchCheck, Ses!LoginCheck, Ses!At
  <2>2. CASE Ses!CreateCheck(p)
    BY <2>1, <2>2, CheckMoves DEF Ses!CreateCheck
  <2>3. CASE Ses!ChurchCheck(p)
    BY <2>1, <2>3, CheckMoves DEF Ses!ChurchCheck
  <2>4. CASE Ses!LoginCheck(p)
    BY <2>1, <2>4, CheckMoves DEF Ses!LoginCheck
  <2> QED
    BY <1>2, <2>2, <2>3, <2>4
<1>3. CASE Ses!CreateRole(p)
  <2>1. sReq[p].pc # "idle"
    BY <1>3 DEF Ses!CreateRole, Ses!At
  <2>2. \E x \in {"write", "createRole", "commit"} : sReq' = [sReq EXCEPT ![p].pc = x]
    BY <1>3 DEF Ses!CreateRole
  <2> QED
    BY <2>1, <2>2, PcMoves
<1>4. CASE Ses!CreateChurch(p) \/ Ses!ChurchWrite(p) \/ Ses!LoginStore(p) \/ Ses!Answer(p)
  <2>1. Ses!Finish(p)
    BY <1>4 DEF Ses!CreateChurch, Ses!ChurchWrite, Ses!LoginStore, Ses!Answer
  <2> QED
    BY <2>1, FinishMoves
<1>5. CASE Ses!Refresh(p)
  <2>1. CASE Ses!Finish(p)
    BY <2>1, FinishMoves
  <2>2. CASE ~Ses!Finish(p)
    BY <1>5, <2>2 DEF Ses!Refresh
  <2> QED
    BY <2>1, <2>2
<1> QED
  BY <1>1, <1>2, <1>3, <1>4, <1>5 DEF Ses!Step

LEMMA SessionReqTyped ==
  ASSUME SessionTypes, NEW p \in Reqs, Ses!Arrive(p) \/ Ses!Step(p)
  PROVE  sReq' \in [Reqs -> {Ses!Idle} \cup Running]
<1>1. CASE Moves(p)
  BY <1>1 DEF Moves, SessionTypes
<1>2. CASE Ses!Refresh(p) /\ sReq' = [sReq EXCEPT ![p].pc = "answered"]
  <2>1. sReq[p].pc # "idle"
    BY <1>2 DEF Ses!Refresh, Ses!At
  <2>2. PICK r : r = [sReq[p] EXCEPT !.pc = "answered"] /\ sReq' = [sReq EXCEPT ![p] = r]
    BY <1>2
  <2>3. r \in Running
    BY <2>1, <2>2, MovedPc
  <2> QED
    BY <2>2, <2>3 DEF SessionTypes
<1> QED
  BY <1>1, <1>2, StepMoves

(* The two steps that write churches keep their rows of their type.         *)
LEMMA ChurchesTyped ==
  ASSUME SessionTypes, NEW p \in Reqs, Ses!CreateChurch(p) \/ Ses!ChurchWrite(p)
  PROVE  sChurch' \in [SessionChurches -> ChurchRow]
<1> DEFINE c == sReq[p].church
<1>0. /\ sChurch \in [SessionChurches -> ChurchRow]
      /\ sReq[p].pc # "idle" /\ sReq[p] \in Running
  BY CallOf DEF Ses!CreateChurch, Ses!ChurchWrite, Ses!At, SessionTypes
<1>1. c \in SessionChurches /\ Suits(sReq[p])
  BY <1>0 DEF Running, SessionCall
<1>2. CASE Ses!CreateChurch(p)
  <2>1. CASE c \in Ses!Created
    BY <1>0, <1>2, <2>1 DEF Ses!CreateChurch
  <2>2. CASE c \notin Ses!Created
    <3>1. PICK s \in Ses!Status :
            sChurch' = [sChurch EXCEPT ![c] = [state |-> "live", name |-> sReq[p].arg, status |-> s]]
      BY <1>2, <2>2 DEF Ses!CreateChurch
    <3>2. sReq[p].arg \in SessionNames
      BY <1>1, <1>2 DEF Suits, Ses!CreateChurch, Ses!At
    <3>3. [state |-> "live", name |-> sReq[p].arg, status |-> s] \in ChurchRow
      BY <3>2 DEF ChurchRow
    <3> QED
      BY <1>0, <3>1, <3>3
  <2> QED
    BY <2>1, <2>2
<1>3. CASE Ses!ChurchWrite(p)
  <2>0. sReq[p].op \in {"update", "status", "delete"} /\ sChurch[c] \in ChurchRow
    BY <1>0, <1>1, <1>3 DEF Ses!ChurchWrite
  <2>1. CASE sReq[p].op = "update"
    <3>1. sChurch' = [sChurch EXCEPT ![c].name = sReq[p].arg] /\ sReq[p].arg \in SessionNames
      BY <1>1, <1>3, <2>1 DEF Ses!ChurchWrite, Suits
    <3> QED
      BY <1>0, <2>0, <3>1 DEF ChurchRow
  <2>2. CASE sReq[p].op = "status"
    <3>1. sChurch' = [sChurch EXCEPT ![c].status = sReq[p].arg] /\ sReq[p].arg \in Ses!Status
      BY <1>1, <1>3, <2>2 DEF Ses!ChurchWrite, Suits
    <3> QED
      BY <1>0, <2>0, <3>1 DEF ChurchRow
  <2>3. CASE sReq[p].op = "delete"
    <3>1. sChurch' = [sChurch EXCEPT ![c].state = "deleted"]
      BY <1>3, <2>3 DEF Ses!ChurchWrite
    <3> QED
      BY <1>0, <2>0, <3>1 DEF ChurchRow
  <2> QED
    BY <2>0, <2>1, <2>2, <2>3
<1> QED
  BY <1>2, <1>3

(* The login is the one step that stores a key, and it stores both.         *)
LEMMA LoginKeeps ==
  ASSUME SessionInv, NEW p \in Reqs, Ses!LoginStore(p)
  PROVE  /\ sRedis' \in [SessionChurches -> [token : Tokens, expires : Nat]]
         /\ sDevice' \in [Devices -> [token : Tokens, church : SessionChurches \cup {None}]]
         /\ sLatest' \in [SessionChurches -> Tokens]
         /\ KeyIsLatest'
<1> DEFINE c == sReq[p].church
           d == sReq[p].arg
<1>1. sReq[p].op = "login" /\ sReq[p] \in Running
  BY CallOf DEF Ses!LoginStore, Ses!At, SessionInv
<1>2. c \in SessionChurches /\ d \in Devices
  BY <1>1 DEF Running, SessionCall, Suits
<1>0. sToday \in Nat
  BY SessionNumbers DEF SessionInv, SessionTypes
<1>3. PICK t : t = Ses!LoginToken(p) /\ t \in Tokens /\ t.day = sToday
  <2>1. [device |-> d, day |-> sToday] \in Tokens
    BY <1>0, <1>2 DEF Tokens
  <2>2. Ses!LoginToken(p) = [device |-> d, day |-> sToday]
    BY DEF Ses!LoginToken
  <2> QED
    BY <2>1, <2>2
<1>4. /\ sRedis' = [sRedis EXCEPT ![c] = [token |-> t, expires |-> sToday + Life]]
      /\ sDevice' = [sDevice EXCEPT ![d] = [token |-> t, church |-> c]]
      /\ sLatest' = [sLatest EXCEPT ![c] = t]
  BY <1>3 DEF Ses!LoginStore
<1>5. sToday + Life \in Nat
  BY <1>0, SessionNumbers
<1> HIDE DEF c, d
<1>6. sRedis' \in [SessionChurches -> [token : Tokens, expires : Nat]]
  BY <1>2, <1>3, <1>4, <1>5 DEF SessionInv, SessionTypes
<1>7. sDevice' \in [Devices -> [token : Tokens, church : SessionChurches \cup {None}]]
  BY <1>2, <1>3, <1>4 DEF SessionInv, SessionTypes
<1>8. sLatest' \in [SessionChurches -> Tokens]
  BY <1>2, <1>3, <1>4 DEF SessionInv, SessionTypes
<1>9. KeyIsLatest'
  <2> SUFFICES ASSUME NEW b \in SessionChurches, sRedis'[b].token # Ses!NoToken
               PROVE  /\ sRedis'[b].token = sLatest'[b]
                      /\ sRedis'[b].expires = sRedis'[b].token.day + Life
    BY DEF KeyIsLatest, Ses!NoToken
  <2>1. CASE b = c
    BY <1>2, <1>3, <1>4, <2>1 DEF SessionInv, SessionTypes
  <2>2. CASE b # c
    BY <1>2, <1>4, <2>2 DEF SessionInv, SessionTypes, KeyIsLatest
  <2> QED
    BY <2>1, <2>2
<1> QED
  BY <1>6, <1>7, <1>8, <1>9

LEMMA SessionNextInv ==
  ASSUME SessionInv, [Ses!Next]_sVars
  PROVE  SessionInv'
<1> USE DEF SessionInv
<1>1. ASSUME NEW p \in Reqs, Ses!LoginStore(p)
      PROVE  SessionInv'
  <2>1. Ses!Step(p)
    BY <1>1 DEF Ses!Step
  <2>2. sReq' \in [Reqs -> {Ses!Idle} \cup Running]
    BY <2>1, SessionReqTyped
  <2>3. sToday' = sToday /\ sChurch' = sChurch
    BY <1>1 DEF Ses!LoginStore
  <2> QED
    BY <1>1, <2>2, <2>3, LoginKeeps DEF SessionTypes
<1>2. ASSUME NEW p \in Reqs, Ses!CreateChurch(p) \/ Ses!ChurchWrite(p)
      PROVE  SessionInv'
  <2>1. Ses!Step(p)
    BY <1>2 DEF Ses!Step
  <2>2. sReq' \in [Reqs -> {Ses!Idle} \cup Running]
    BY <2>1, SessionReqTyped
  <2>3. UNCHANGED <<sRedis, sDevice, sLatest, sToday>>
    BY <1>2 DEF Ses!CreateChurch, Ses!ChurchWrite
  <2> QED
    BY <1>2, <2>2, <2>3, ChurchesTyped DEF SessionTypes, KeyIsLatest
<1>3. ASSUME NEW p \in Reqs, Ses!Arrive(p) \/ Ses!Step(p),
             ~Ses!LoginStore(p), ~Ses!CreateChurch(p), ~Ses!ChurchWrite(p)
      PROVE  SessionInv'
  <2>1. sReq' \in [Reqs -> {Ses!Idle} \cup Running]
    BY <1>3, SessionReqTyped
  <2>2. UNCHANGED <<sChurch, sRedis, sDevice, sLatest, sToday>>
    BY <1>3 DEF Ses!Arrive, Ses!Step, Ses!CreateCheck, Ses!CreateRole, Ses!ChurchCheck,
                Ses!LoginCheck, Ses!Refresh, Ses!Answer, Ses!Check
  <2> QED
    BY <2>1, <2>2 DEF SessionTypes, KeyIsLatest
<1>4. CASE Ses!Tick
  <2>1. /\ UNCHANGED <<sChurch, sRedis, sDevice, sLatest, sReq>>
        /\ sToday < LastDay /\ sToday' = sToday + 1
    BY <1>4 DEF Ses!Tick
  <2>2. sToday' \in 1..LastDay
    BY <2>1, SessionNumbers DEF SessionTypes
  <2> QED
    BY <2>1, <2>2 DEF SessionTypes, KeyIsLatest
<1>5. CASE UNCHANGED sVars
  BY <1>5 DEF sVars, SessionTypes, KeyIsLatest
<1> QED
  BY <1>1, <1>2, <1>3, <1>4, <1>5 DEF Ses!Next

LEMMA SessionInvHolds == MCSpec => []SessionInv
<1>1. MCInit => SessionInv
  BY SessionInit DEF MCInit
<1>2. SessionInv /\ [MCNext]_<<vars, part, sVars, dVars>> => SessionInv'
  <2> SUFFICES ASSUME SessionInv, [MCNext]_<<vars, part, sVars, dVars>> PROVE SessionInv'
    OBVIOUS
  <2>1. [Ses!Next]_sVars
    BY DEF MCNext, AccessNext, SessionsNext, SeedNext
  <2> QED
    BY <2>1, SessionNextInv
<1> QED
  BY <1>1, <1>2, PTL DEF MCSpec

(* A request that is granted in a step. *)
GrantedBy(p) == sReq[p].pc = "read" /\ sReq'[p].pc = "answered"

(* No step but a refresh answers a request that has just arrived.           *)
LEMMA OnlyRefreshGrants ==
  ASSUME SessionInv, [Ses!Next]_sVars, NEW p \in Reqs, GrantedBy(p)
  PROVE  Ses!Refresh(p)
<1>1. sReq'[p] # sReq[p]
  BY DEF GrantedBy
<1>2. PICK q \in Reqs : Ses!Arrive(q) \/ Ses!Step(q)
  BY <1>1 DEF Ses!Next, Ses!Tick, sVars
<1>3. CASE Moves(q)
  <2>1. PICK r \in {Ses!Idle} \cup Running : sReq' = [sReq EXCEPT ![q] = r] /\ r.pc # "answered"
    BY <1>3 DEF Moves
  <2>2. sReq'[p].pc = "answered"
    BY DEF GrantedBy
  <2> QED
    BY <1>1, <2>1, <2>2 DEF SessionInv, SessionTypes
<1>4. CASE Ses!Refresh(q) /\ sReq' = [sReq EXCEPT ![q].pc = "answered"]
  BY <1>1, <1>4 DEF SessionInv, SessionTypes
<1> QED
  BY <1>2, <1>3, <1>4, StepMoves DEF SessionInv

(* A refresh is granted only with the token of the account's last login,    *)
(* and within Life days of it, for any number of churches, devices and      *)
(* overlapping requests and however long the system runs: unifiedLogin      *)
(* stores the key anew, with its time to live, and refreshToken compares.   *)
THEOREM RefreshesFollowLogins == MCSpec => RefreshFollowsLatestLogin
<1>1. ASSUME SessionInv, [Ses!Next]_sVars, NEW p \in Reqs,
             sReq[p].pc = "read", sReq'[p].pc = "answered"
      PROVE  sReq[p].token = sLatest[sReq[p].church] /\ sToday < sReq[p].token.day + Life
  <2>1. Ses!Refresh(p)
    BY <1>1, OnlyRefreshGrants DEF GrantedBy
  <2>2. sReq[p] \in Running
    BY <1>1, CallOf DEF SessionInv
  <2> DEFINE c == sReq[p].church
  <2>3. c \in SessionChurches
    BY <2>2 DEF Running, SessionCall
  <2>4. ~Ses!Finish(p)
    <3>1. Ses!Idle.pc # "answered"
      BY DEF Ses!Idle
    <3>2. Ses!Finish(p) => sReq'[p] = Ses!Idle
      BY <1>1 DEF Ses!Finish, SessionInv, SessionTypes
    <3> QED
      BY <1>1, <3>1, <3>2
  <2>5. Ses!Stored(c) # Ses!NoToken /\ Ses!Stored(c) = sReq[p].token
    BY <2>1, <2>4 DEF Ses!Refresh
  <2>6. sRedis[c].expires > sToday /\ Ses!Stored(c) = sRedis[c].token
    BY <2>5 DEF Ses!Stored
  <2>7. sRedis[c].token = sLatest[c] /\ sRedis[c].expires = sRedis[c].token.day + Life
    BY <1>1, <2>3, <2>5, <2>6 DEF SessionInv, KeyIsLatest
  <2>8. sRedis[c].token.day \in Nat /\ Life \in Nat /\ sToday \in Nat
    BY <1>1, <2>3, SessionNumbers DEF SessionInv, SessionTypes, Tokens
  <2> QED
    BY <2>5, <2>6, <2>7, <2>8
<1>2. SessionInv /\ [MCNext]_<<vars, part, sVars, dVars>> =>
        [\A p \in Reqs :
           sReq[p].pc = "read" /\ sReq'[p].pc = "answered" =>
             /\ sReq[p].token = sLatest[sReq[p].church]
             /\ sToday < sReq[p].token.day + Life]_sVars
  <2>1. [MCNext]_<<vars, part, sVars, dVars>> => [Ses!Next]_sVars
    BY DEF MCNext, AccessNext, SessionsNext, SeedNext
  <2> QED
    BY <1>1, <2>1
<1> QED
  BY <1>2, SessionInvHolds, PTL DEF MCSpec, RefreshFollowsLatestLogin, Ses!RefreshFollowsLatestLogin,
     sVars, Ses!vars

-----------------------------------------------------------------------------
(***************************************************************************)
(* Roles, permissions and admins: the types of their rows and requests,    *)
(* whatever overlaps and dies.                                             *)
(***************************************************************************)
PermRow == [state : States, key : Keys \cup {None}, on : BOOLEAN]
AnyRequest ==
  [op : AllOps \cup {None}, pc : {"idle", "read", "write"} \cup Stages,
   id : Roles \cup Perms \cup {None}, user : Users \cup {None},
   name : Names \cup Admins \cup Keys \cup {None, "list"},
   list : SUBSET Perms, old : SUBSET Perms, on : BOOLEAN]

(* A request carries what its endpoint takes; an update of an admin has     *)
(* found a role when it replaces what that role grants.                     *)
OfRole == {"updateRole", "toggleRole", "removeRole", "assignPermissions", "assignRole"}
OfPerm == {"updatePerm", "togglePerm", "removePerm"}
Fits(r) ==
  /\ r.op = "createRole" => r.name \in Names
  /\ r.op = "updateRole" => r.name \in Names \cup Admins \cup {None}
  /\ r.op = "updateRole" /\ r.pc = "read" => r.name \in Names \cup {None}
  /\ r.op \in {"createPerm", "updatePerm"} => r.name \in Keys
  /\ r.op \in OfRole => r.id \in Roles
  /\ r.op \in OfPerm => r.id \in Perms
  /\ r.op \in AdminOps => r.user \in Admins
  /\ r.op \in {"assignRole", "revoke"} => r.user \in Members
  /\ r.op = "updateAdmin" /\ r.pc \in {"delete", "insert"} => r.id \in Roles

TableTypes ==
  /\ role \in [Roles -> RoleRow]
  /\ perm \in [Perms -> PermRow]
  /\ grants \subseteq Perms \X Roles /\ holders \subseteq Roles \X Users
  /\ admin \in [Admins -> AdminRow]
  /\ lock \in [Admins -> Reqs \cup {None}]
  /\ last \in [Admins -> SUBSET Perms]
AccessTypes ==
  /\ TableTypes
  /\ req \in [Reqs -> AnyRequest]
  /\ \A p \in Reqs : Fits(req[p])

LEMMA Access == AccessAssumption
BY PlatformAssumption

LEMMA IdleFits == Idle \in AnyRequest /\ Fits(Idle)
BY Access DEF AccessAssumption, Idle, AnyRequest, Fits, AllOps, AdminOps, RoleOps, PermOps,
              OfRole, OfPerm

LEMMA OwnTyped ==
  ASSUME AccessTypes, TableTypes', NEW p \in Reqs, NEW r \in AnyRequest, Fits(r),
         req' = [req EXCEPT ![p] = r]
  PROVE  AccessTypes'
<1>1. req' \in [Reqs -> AnyRequest]
  BY DEF AccessTypes
<1>2. \A q \in Reqs : req'[q] = IF q = p THEN r ELSE req[q]
  BY DEF AccessTypes
<1> QED
  BY <1>1, <1>2 DEF AccessTypes

LEMMA EndTyped ==
  ASSUME AccessTypes, TableTypes', NEW p \in Reqs, Finish(p)
  PROVE  AccessTypes'
BY IdleFits, OwnTyped DEF Finish

LEMMA SameTables ==
  ASSUME AccessTypes, UNCHANGED <<role, perm, grants, holders, admin, last>>,
         lock' \in [Admins -> Reqs \cup {None}]
  PROVE  TableTypes'
BY DEF AccessTypes, TableTypes

LEMMA RefuseTyped ==
  ASSUME AccessTypes, NEW p \in Reqs, Refuse(p)
  PROVE  AccessTypes'
<1>1. Finish(p) /\ UNCHANGED <<role, perm, grants, holders, admin, last>> /\ lock' = lock
  BY DEF Refuse
<1>2. TableTypes'
  BY <1>1, SameTables DEF AccessTypes, TableTypes
<1> QED
  BY <1>1, <1>2, EndTyped

(* A request whose pc moves on.                                             *)
LEMMA GotoTyped ==
  ASSUME AccessTypes, TableTypes', NEW p \in Reqs, NEW x \in {"write"} \cup Stages,
         req' = [req EXCEPT ![p].pc = x],
         req[p].op = "updateAdmin" /\ x \in {"delete", "insert"} => req[p].id \in Roles
  PROVE  AccessTypes'
<1> DEFINE r == [req[p] EXCEPT !.pc = x]
<1>1. req[p] \in AnyRequest /\ Fits(req[p]) /\ req \in [Reqs -> AnyRequest]
  BY DEF AccessTypes
<1>2. r \in AnyRequest
  BY <1>1 DEF AnyRequest
<1>3. /\ r.op = req[p].op /\ r.name = req[p].name /\ r.user = req[p].user
      /\ r.id = req[p].id /\ r.pc = x
  BY <1>1 DEF AnyRequest
<1>4. req' = [req EXCEPT ![p] = r]
  BY <1>1
<1> HIDE DEF r
<1>5. Fits(r)
  BY <1>1, <1>3 DEF Fits, Stages
<1> QED
  BY <1>2, <1>4, <1>5, OwnTyped

LEMMA CheckTyped ==
  ASSUME AccessTypes, NEW p \in Reqs, NEW ok, Check(p, ok)
  PROVE  AccessTypes'
<1>1. CASE ok
  <2>1. /\ req' = [req EXCEPT ![p].pc = "write"]
        /\ UNCHANGED <<role, perm, grants, holders, admin, last>> /\ lock' = lock
    BY <1>1 DEF Check, Goto
  <2>2. TableTypes'
    BY <2>1, SameTables DEF AccessTypes, TableTypes
  <2> QED
    BY <2>1, <2>2, GotoTyped
<1>2. CASE ~ok
  BY <1>2, RefuseTyped DEF Check
<1> QED
  BY <1>1, <1>2

LEMMA CallTyped ==
  ASSUME AccessTypes, NEW p \in Reqs, NEW o \in AllOps,
         NEW i \in Roles \cup Perms \cup {None}, NEW u \in Users \cup {None},
         NEW n \in Names \cup Keys \cup {None, "list"}, NEW l \in SUBSET Perms, NEW b \in BOOLEAN,
         Call(p, o, i, u, n, l, b),
         o = "createRole" => n \in Names,
         o = "updateRole" => n \in Names \cup {None},
         o \in {"createPerm", "updatePerm"} => n \in Keys,
         o \in OfRole => i \in Roles,
         o \in OfPerm => i \in Perms,
         o \in AdminOps => u \in Admins,
         o \in {"assignRole", "revoke"} => u \in Members
  PROVE  AccessTypes'
<1> DEFINE r == [op |-> o, pc |-> "read", id |-> i, user |-> u,
                 name |-> n, list |-> l, old |-> {}, on |-> b]
<1>1. req' = [req EXCEPT ![p] = r]
      /\ UNCHANGED <<role, perm, grants, holders, admin, last>> /\ lock' = lock
  BY DEF Call
<1>2. r \in AnyRequest
  BY DEF AnyRequest
<1>3. r.op = o /\ r.pc = "read" /\ r.id = i /\ r.user = u /\ r.name = n
  OBVIOUS
<1> HIDE DEF r
<1>4. Fits(r)
  BY <1>3 DEF Fits
<1>5. TableTypes'
  BY <1>1, SameTables DEF AccessTypes, TableTypes
<1> QED
  BY <1>1, <1>2, <1>4, <1>5, OwnTyped

LEMMA ArriveTyped ==
  ASSUME AccessTypes, NEW p \in Reqs, Arrive(p)
  PROVE  AccessTypes'
<1>1. {"createAdmin", "updateAdmin", "toggleAdmin", "removeAdmin", "createRole", "updateRole",
       "toggleRole", "removeRole", "assignPermissions", "assignRole", "revoke", "createPerm",
       "updatePerm", "togglePerm", "removePerm"} = AllOps
  BY DEF AllOps, AdminOps, RoleOps, PermOps
<1>2. CASE \E n \in Names : Call(p, "createRole", None, None, n, {}, FALSE)
  BY <1>1, <1>2, CallTyped DEF AdminOps, OfRole, OfPerm
<1>3. CASE \E r \in Roles, n \in Names \cup {None} : Call(p, "updateRole", r, None, n, {}, FALSE)
  BY <1>1, <1>3, CallTyped DEF AdminOps, OfRole, OfPerm
<1>4. CASE \E r \in Roles, o \in {"toggleRole", "removeRole"} : Call(p, o, r, None, None, {}, FALSE)
  BY <1>1, <1>4, CallTyped DEF AdminOps, OfRole, OfPerm
<1>5. CASE \E r \in Roles, l \in SUBSET Perms : Call(p, "assignPermissions", r, None, None, l, FALSE)
  BY <1>1, <1>5, CallTyped DEF AdminOps, OfRole, OfPerm
<1>6. CASE \E r \in Roles, u \in Members, o \in {"assignRole", "revoke"} :
             Call(p, o, r, u, None, {}, FALSE)
  BY <1>1, <1>6, CallTyped DEF AdminOps, OfRole, OfPerm, Users
<1>7. CASE \E k \in Keys : Call(p, "createPerm", None, None, k, {}, FALSE)
  BY <1>1, <1>7, CallTyped DEF AdminOps, OfRole, OfPerm
<1>8. CASE \E x \in Perms, k \in Keys : Call(p, "updatePerm", x, None, k, {}, FALSE)
  BY <1>1, <1>8, CallTyped DEF AdminOps, OfRole, OfPerm
<1>9. CASE \E x \in Perms, o \in {"togglePerm", "removePerm"} : Call(p, o, x, None, None, {}, FALSE)
  BY <1>1, <1>9, CallTyped DEF AdminOps, OfRole, OfPerm
<1>10. CASE \E u \in Admins, l \in SUBSET Perms : Call(p, "createAdmin", None, u, None, l, FALSE)
  BY <1>1, <1>10, CallTyped DEF Users, OfRole, OfPerm
<1>11. CASE \E u \in Admins, b \in BOOLEAN, l \in SUBSET Perms, n \in {None, "list"} :
              (n = None => l = {}) /\ Call(p, "updateAdmin", None, u, n, l, b)
  <2>1. PICK u \in Admins, b \in BOOLEAN, l \in SUBSET Perms, n \in {None, "list"} :
               Call(p, "updateAdmin", None, u, n, l, b)
    BY <1>11
  <2>2. "updateAdmin" \in AllOps /\ u \in Users /\ n \in Names \cup Keys \cup {None, "list"}
    BY <1>1 DEF Users
  <2> QED
    BY <2>1, <2>2, CallTyped DEF OfRole, OfPerm
<1>12. CASE \E u \in Admins, o \in {"toggleAdmin", "removeAdmin"} :
              Call(p, o, None, u, None, {}, FALSE)
  BY <1>1, <1>12, CallTyped DEF Users, OfRole, OfPerm
<1> QED
  BY <1>2, <1>3, <1>4, <1>5, <1>6, <1>7, <1>8, <1>9, <1>10, <1>11, <1>12 DEF Arrive

LEMMA RoleStepTyped ==
  ASSUME AccessTypes, NEW p \in Reqs, RoleStep(p)
  PROVE  AccessTypes'
<1>1. req[p] \in AnyRequest /\ Fits(req[p]) /\ req \in [Reqs -> AnyRequest] /\ TableTypes
  BY DEF AccessTypes
<1>2. req[p].list \subseteq Perms /\ req[p].old \subseteq Perms /\ req[p].on \in BOOLEAN
  BY <1>1 DEF AnyRequest
<1>3. CASE CreateRoleCheck(p) \/ RemoveRoleCheck(p) \/ AssignCheck(p) \/ HolderCheck(p)
  BY <1>3, CheckTyped DEF CreateRoleCheck, RemoveRoleCheck, AssignCheck, HolderCheck
<1>4. CASE CreateRole(p)
  <2>1. req[p].name \in Names /\ Finish(p) /\ UNCHANGED <<perm, grants, holders, admin, lock, last>>
    BY <1>1, <1>4 DEF CreateRole, At, Fits
  <2>2. PICK r \in New(role) :
          role' = [role EXCEPT ![r] = [state |-> "live", name |-> req[p].name, on |-> TRUE]]
    BY <1>4 DEF CreateRole
  <2>3. role' \in [Roles -> RoleRow]
    BY <1>1, <2>1, <2>2 DEF TableTypes, RoleRow, States
  <2>4. TableTypes'
    BY <1>1, <2>1, <2>3 DEF TableTypes
  <2> QED
    BY <2>1, <2>4, EndTyped
<1>5. CASE UpdateRoleCheck(p)
  <2>1. CASE Refuse(p)
    BY <2>1, RefuseTyped
  <2>2. CASE ~Refuse(p)
    <3>1. /\ req' = [req EXCEPT ![p].pc = "write",
                      ![p].name = IF req[p].name = None THEN role[req[p].id].name ELSE req[p].name]
          /\ UNCHANGED <<role, perm, grants, holders, admin, last>> /\ lock' = lock
          /\ req[p].op = "updateRole"
      BY <1>5, <2>2 DEF UpdateRoleCheck, At
    <3>2. PICK n : n = IF req[p].name = None THEN role[req[p].id].name ELSE req[p].name
      OBVIOUS
    <3>3. req[p].id \in Roles /\ req[p].name \in Names \cup Admins \cup {None}
      BY <1>1, <3>1 DEF Fits, OfRole
    <3>4. n \in Names \cup Admins \cup {None}
      BY <1>1, <3>2, <3>3 DEF TableTypes, RoleRow
    <3>5. PICK r : r = [req[p] EXCEPT !.pc = "write", !.name = n]
      OBVIOUS
    <3>6. /\ r \in AnyRequest /\ r.op = "updateRole" /\ r.pc = "write"
          /\ r.name = n /\ r.id = req[p].id
      BY <1>1, <3>1, <3>4, <3>5 DEF AnyRequest
    <3>7. Fits(r)
      BY <3>3, <3>4, <3>6 DEF Fits, OfRole, OfPerm, AdminOps
    <3>8. req' = [req EXCEPT ![p] = r]
      BY <1>1, <3>1, <3>2, <3>5
    <3>9. TableTypes'
      BY <1>1, <3>1, SameTables DEF TableTypes
    <3> QED
      BY <3>6, <3>7, <3>8, <3>9, OwnTyped
  <2> QED
    BY <2>1, <2>2
<1>6. CASE UpdateRole(p)
  <2>1. /\ req[p].name \in Names \cup Admins \cup {None} /\ req[p].id \in Roles /\ Finish(p)
        /\ UNCHANGED <<perm, grants, holders, admin, lock, last>>
        /\ role' = [role EXCEPT ![req[p].id].name = req[p].name]
    BY <1>1, <1>6 DEF UpdateRole, At, Fits, OfRole
  <2>2. role' \in [Roles -> RoleRow]
    BY <1>1, <2>1 DEF TableTypes, RoleRow
  <2>3. TableTypes'
    BY <1>1, <2>1, <2>2 DEF TableTypes
  <2> QED
    BY <2>1, <2>3, EndTyped
<1>7. CASE RemoveRole(p)
  <2>1. /\ req[p].id \in Roles /\ Finish(p)
        /\ UNCHANGED <<perm, grants, holders, admin, lock, last>>
        /\ role' = [role EXCEPT ![req[p].id].state = "deleted", ![req[p].id].on = FALSE]
    BY <1>1, <1>7 DEF RemoveRole, At, Fits, OfRole
  <2>2. role' \in [Roles -> RoleRow]
    BY <1>1, <2>1 DEF TableTypes, RoleRow, States
  <2>3. TableTypes'
    BY <1>1, <2>1, <2>2 DEF TableTypes
  <2> QED
    BY <2>1, <2>3, EndTyped
<1>8. CASE ToggleRoleCheck(p)
  <2>1. CASE Refuse(p)
    BY <2>1, RefuseTyped
  <2>2. CASE ~Refuse(p)
    <3>1. /\ req' = [req EXCEPT ![p].pc = "write", ![p].on = ~role[req[p].id].on]
          /\ UNCHANGED <<role, perm, grants, holders, admin, last>> /\ lock' = lock
          /\ req[p].op = "toggleRole"
      BY <1>8, <2>2 DEF ToggleRoleCheck, At
    <3>2. req[p].id \in Roles
      BY <1>1, <3>1 DEF Fits, OfRole
    <3>3. PICK b \in BOOLEAN : b = ~role[req[p].id].on
      OBVIOUS
    <3>4. PICK r : r = [req[p] EXCEPT !.pc = "write", !.on = b]
      OBVIOUS
    <3>5. r \in AnyRequest /\ r.op = "toggleRole" /\ r.id = req[p].id
      BY <1>1, <3>1, <3>3, <3>4 DEF AnyRequest
    <3>6. Fits(r)
      BY <3>2, <3>5 DEF Fits, OfRole, OfPerm, AdminOps
    <3>7. req' = [req EXCEPT ![p] = r]
      BY <1>1, <3>1, <3>3, <3>4
    <3>8. TableTypes'
      BY <1>1, <3>1, SameTables DEF TableTypes
    <3> QED
      BY <3>5, <3>6, <3>7, <3>8, OwnTyped
  <2> QED
    BY <2>1, <2>2
<1>9. CASE ToggleRole(p)
  <2>1. /\ req[p].id \in Roles /\ Finish(p)
        /\ UNCHANGED <<perm, grants, holders, admin, lock, last>>
        /\ role' = [role EXCEPT ![req[p].id].on = req[p].on]
    BY <1>1, <1>9 DEF ToggleRole, At, Fits, OfRole
  <2>2. role' \in [Roles -> RoleRow]
    BY <1>1, <1>2, <2>1 DEF TableTypes, RoleRow
  <2>3. TableTypes'
    BY <1>1, <2>1, <2>2 DEF TableTypes
  <2> QED
    BY <2>1, <2>3, EndTyped
<1>10. CASE AssignDelete(p)
  <2>1. /\ req' = [req EXCEPT ![p].pc = "insert", ![p].old = GrantsOf(req[p].id)]
        /\ UNCHANGED <<role, perm, grants, holders, admin, last>> /\ lock' = lock
        /\ req[p].op = "assignPermissions"
    BY <1>10 DEF AssignDelete, At
  <2>2. req[p].id \in Roles
    BY <1>1, <2>1 DEF Fits, OfRole
  <2>3. PICK r : r = [req[p] EXCEPT !.pc = "insert", !.old = GrantsOf(req[p].id)]
    OBVIOUS
  <2>4. GrantsOf(req[p].id) \subseteq Perms
    BY DEF GrantsOf
  <2>5. r \in AnyRequest /\ r.op = "assignPermissions" /\ r.id = req[p].id
    BY <1>1, <2>1, <2>3, <2>4 DEF AnyRequest, Stages
  <2>6. Fits(r)
    BY <2>2, <2>5 DEF Fits, OfRole, OfPerm, AdminOps
  <2>7. req' = [req EXCEPT ![p] = r]
    BY <1>1, <2>1, <2>3
  <2>8. TableTypes'
    BY <1>1, <2>1, SameTables DEF TableTypes
  <2> QED
    BY <2>5, <2>6, <2>7, <2>8, OwnTyped
<1>11. CASE AssignInsert(p)
  <2>1. req[p].id \in Roles /\ Finish(p) /\ UNCHANGED <<role, perm, holders, admin, lock>>
    BY <1>1, <1>11 DEF AssignInsert, At, Fits, OfRole
  <2>2. grants' \subseteq Perms \X Roles
    BY <1>1, <1>2, <1>11, <2>1 DEF AssignInsert, Replaced, TableTypes
  <2>3. last' \in [Admins -> SUBSET Perms]
    BY <1>1, <1>2, <1>11 DEF AssignInsert, TableTypes
  <2>4. TableTypes'
    BY <1>1, <2>1, <2>2, <2>3 DEF TableTypes
  <2> QED
    BY <2>1, <2>4, EndTyped
<1>12. CASE SetHolder(p)
  <2>0. req[p].op \in {"assignRole", "revoke"}
    BY <1>12 DEF SetHolder
  <2>1. Finish(p) /\ UNCHANGED <<role, perm, grants, admin, lock, last>>
    BY <1>12 DEF SetHolder
  <2>10. req[p].user \in Members
    BY <1>1, <2>0 DEF Fits
  <2>11. "assignRole" \in OfRole /\ (req[p].op = "revoke" => holders' \subseteq holders)
    BY <1>12 DEF SetHolder, OfRole
  <2>12. req[p].op = "assignRole" => req[p].id \in Roles
    BY <1>1, <2>11 DEF Fits
  <2>2. holders' \subseteq holders \cup {<<req[p].id, req[p].user>>}
    BY <1>12 DEF SetHolder
  <2>3. TableTypes'
    <3>1. CASE req[p].op = "assignRole"
      BY <1>1, <2>1, <2>10, <2>12, <2>2, <3>1 DEF TableTypes, Users
    <3>2. CASE req[p].op = "revoke"
      BY <1>1, <2>1, <2>11, <3>2 DEF TableTypes
    <3> QED
      BY <2>0, <3>1, <3>2
  <2> QED
    BY <2>1, <2>3, EndTyped
<1> QED
  BY <1>3, <1>4, <1>5, <1>6, <1>7, <1>8, <1>9, <1>10, <1>11, <1>12 DEF RoleStep

LEMMA PermStepTyped ==
  ASSUME AccessTypes, NEW p \in Reqs, PermStep(p)
  PROVE  AccessTypes'
<1>1. req[p] \in AnyRequest /\ Fits(req[p]) /\ req \in [Reqs -> AnyRequest] /\ TableTypes
  BY DEF AccessTypes
<1>2. req[p].on \in BOOLEAN
  BY <1>1 DEF AnyRequest
<1>3. CASE CreatePermCheck(p) \/ UpdatePermCheck(p) \/ RemovePermCheck(p)
  BY <1>3, CheckTyped DEF CreatePermCheck, UpdatePermCheck, RemovePermCheck
<1>4. CASE CreatePerm(p)
  <2>1. req[p].name \in Keys /\ Finish(p) /\ UNCHANGED <<role, grants, holders, admin, lock, last>>
    BY <1>1, <1>4 DEF CreatePerm, At, Fits
  <2>5. New(perm) \subseteq Perms
    BY <1>1 DEF New, TableTypes
  <2>2. \/ perm' = perm
        \/ \E x \in Perms :
             perm' = [perm EXCEPT ![x] = [state |-> "live", key |-> req[p].name, on |-> TRUE]]
    BY <1>4, <2>5 DEF CreatePerm
  <2>6. [state |-> "live", key |-> req[p].name, on |-> TRUE] \in PermRow
    BY <2>1 DEF PermRow, States
  <2>3. perm' \in [Perms -> PermRow]
    BY <1>1, <2>2, <2>6 DEF TableTypes
  <2>4. TableTypes'
    BY <1>1, <2>1, <2>3 DEF TableTypes
  <2> QED
    BY <2>1, <2>4, EndTyped
<1>5. CASE UpdatePerm(p)
  <2>1. /\ req[p].name \in Keys /\ req[p].id \in Perms /\ Finish(p)
        /\ UNCHANGED <<role, grants, holders, admin, lock, last>>
    BY <1>1, <1>5 DEF UpdatePerm, At, Fits, OfPerm
  <2>2. perm' \in [Perms -> PermRow]
    BY <1>1, <1>5, <2>1 DEF UpdatePerm, TableTypes, PermRow
  <2>3. TableTypes'
    BY <1>1, <2>1, <2>2 DEF TableTypes
  <2> QED
    BY <2>1, <2>3, EndTyped
<1>6. CASE TogglePermCheck(p)
  <2>1. CASE Refuse(p)
    BY <2>1, RefuseTyped
  <2>2. CASE ~Refuse(p)
    <3>1. /\ req' = [req EXCEPT ![p].pc = "write", ![p].on = ~perm[req[p].id].on]
          /\ UNCHANGED <<role, perm, grants, holders, admin, last>> /\ lock' = lock
          /\ req[p].op = "togglePerm"
      BY <1>6, <2>2 DEF TogglePermCheck, At
    <3>2. req[p].id \in Perms
      BY <1>1, <3>1 DEF Fits, OfPerm
    <3>3. PICK b \in BOOLEAN : b = ~perm[req[p].id].on
      OBVIOUS
    <3>4. PICK r : r = [req[p] EXCEPT !.pc = "write", !.on = b]
      OBVIOUS
    <3>5. r \in AnyRequest /\ r.op = "togglePerm" /\ r.id = req[p].id
      BY <1>1, <3>1, <3>3, <3>4 DEF AnyRequest
    <3>6. Fits(r)
      BY <3>2, <3>5 DEF Fits, OfRole, OfPerm, AdminOps
    <3>7. req' = [req EXCEPT ![p] = r]
      BY <1>1, <3>1, <3>3, <3>4
    <3>8. TableTypes'
      BY <1>1, <3>1, SameTables DEF TableTypes
    <3> QED
      BY <3>5, <3>6, <3>7, <3>8, OwnTyped
  <2> QED
    BY <2>1, <2>2
<1>7. CASE TogglePerm(p)
  <2>1. /\ req[p].id \in Perms /\ Finish(p)
        /\ UNCHANGED <<role, grants, holders, admin, lock, last>>
        /\ perm' = [perm EXCEPT ![req[p].id].on = req[p].on]
    BY <1>1, <1>7 DEF TogglePerm, At, Fits, OfPerm
  <2>2. perm' \in [Perms -> PermRow]
    BY <1>1, <1>2, <2>1 DEF TableTypes, PermRow
  <2>3. TableTypes'
    BY <1>1, <2>1, <2>2 DEF TableTypes
  <2> QED
    BY <2>1, <2>3, EndTyped
<1>8. CASE RemovePerm(p)
  <2>1. /\ req[p].id \in Perms /\ Finish(p)
        /\ UNCHANGED <<role, holders, admin, lock>>
        /\ grants' \subseteq grants
        /\ perm' = [perm EXCEPT ![req[p].id] = DeletedAndOff(req[p].id)]
        /\ last' = [u \in Admins |-> last[u] \ {req[p].id}]
    BY <1>1, <1>8 DEF RemovePerm, At, Fits, OfPerm
  <2>2. perm' \in [Perms -> PermRow]
    BY <1>1, <2>1 DEF TableTypes, PermRow, DeletedAndOff, States
  <2>3. TableTypes'
    BY <1>1, <2>1, <2>2 DEF TableTypes
  <2> QED
    BY <2>1, <2>3, EndTyped
<1> QED
  BY <1>3, <1>4, <1>5, <1>6, <1>7, <1>8 DEF PermStep

(* A request whose pc moves on among the stages of an update of an admin.   *)
LEMMA StageTyped ==
  ASSUME AccessTypes, TableTypes', NEW p \in Reqs, NEW x \in {"write"} \cup Stages,
         Goto(p, x), x \notin {"delete", "insert"}
  PROVE  AccessTypes'
BY GotoTyped DEF Goto

LEMMA LockTyped ==
  ASSUME AccessTypes, NEW u, NEW q \in Reqs \cup {None},
         lock' = lock \/ lock' = [lock EXCEPT ![u] = q]
  PROVE  lock' \in [Admins -> Reqs \cup {None}]
BY DEF AccessTypes, TableTypes

(* The row of an admin after a write to it.                                 *)
LEMMA AdminTyped ==
  ASSUME AccessTypes, NEW u \in Admins, NEW b \in BOOLEAN, NEW s \in States,
         \/ admin' = [admin EXCEPT ![u].on = b]
         \/ admin' = [admin EXCEPT ![u] = [state |-> s, on |-> b]]
  PROVE  admin' \in [Admins -> AdminRow]
BY DEF AccessTypes, TableTypes, AdminRow

LEMMA NewRoleTyped ==
  ASSUME AccessTypes, NEW u \in Admins, NEW r,
         role' = [role EXCEPT ![r] = [state |-> "live", name |-> u, on |-> TRUE]]
  PROVE  role' \in [Roles -> RoleRow]
BY DEF AccessTypes, TableTypes, RoleRow, States

LEMMA AdminStepTyped ==
  ASSUME AccessTypes, NEW p \in Reqs, AdminStep(p)
  PROVE  AccessTypes'
<1>1. req[p] \in AnyRequest /\ Fits(req[p]) /\ req \in [Reqs -> AnyRequest] /\ TableTypes
  BY DEF AccessTypes
<1>2. req[p].list \subseteq Perms /\ req[p].old \subseteq Perms /\ req[p].on \in BOOLEAN
  BY <1>1 DEF AnyRequest
<1>3. req[p].op \in AdminOps => req[p].user \in Admins
  BY <1>1 DEF Fits
<1>4. New(role) \subseteq Roles /\ {"live", "deleted"} \subseteq States /\ BOOLEAN = {TRUE, FALSE}
  BY <1>1 DEF New, TableTypes, States
<1>5. CASE CreateAdminCheck(p) \/ UpdateAdminCheck(p) \/ RemoveAdminCheck(p)
  BY <1>5, CheckTyped DEF CreateAdminCheck, UpdateAdminCheck, RemoveAdminCheck
<1>6. CASE CreateAdmin(p)
  <2>1. req[p].user \in Admins /\ Finish(p) /\ UNCHANGED <<perm, lock>>
    BY <1>3, <1>6 DEF CreateAdmin, At, AdminOps
  <2>2. CASE UNCHANGED <<role, admin, grants, holders, last>>
    BY <1>1, <2>1, <2>2, EndTyped DEF TableTypes
  <2>3. CASE ~UNCHANGED <<role, admin, grants, holders, last>>
    <3>1. PICK r \in New(role) :
            /\ role' = [role EXCEPT ![r] = [state |-> "live", name |-> req[p].user, on |-> TRUE]]
            /\ admin' = [admin EXCEPT ![req[p].user] = [state |-> "live", on |-> TRUE]]
            /\ grants' = grants \cup (req[p].list \X {r})
            /\ holders' = holders \cup {<<r, req[p].user>>}
            /\ last' = [last EXCEPT ![req[p].user] = req[p].list]
      BY <1>6, <2>3 DEF CreateAdmin
    <3>2. role' \in [Roles -> RoleRow]
      BY <2>1, <3>1, NewRoleTyped
    <3>3. admin' \in [Admins -> AdminRow]
      BY <1>4, <2>1, <3>1, AdminTyped
    <3>4. grants' \subseteq Perms \X Roles /\ holders' \subseteq Roles \X Users
      BY <1>1, <1>2, <1>4, <2>1, <3>1 DEF TableTypes, Users
    <3>5. last' \in [Admins -> SUBSET Perms]
      BY <1>1, <1>2, <3>1 DEF TableTypes
    <3>6. TableTypes'
      BY <1>1, <2>1, <3>2, <3>3, <3>4, <3>5 DEF TableTypes
    <3> QED
      BY <2>1, <3>6, EndTyped
  <2> QED
    BY <2>2, <2>3
<1>7. CASE UpdateAdminLock(p)
  <2>1. PICK x \in {"commit", "validate"} : Goto(p, x)
    BY <1>7 DEF UpdateAdminLock
  <2>2. /\ UNCHANGED <<role, perm, grants, holders, admin, last>>
        /\ lock' = [lock EXCEPT ![req[p].user] = p]
    BY <1>7 DEF UpdateAdminLock
  <2>3. TableTypes'
    BY <2>2, LockTyped, SameTables
  <2> QED
    BY <2>1, <2>3, StageTyped DEF Stages
<1>8. CASE SyncValidate(p)
  <2>1. /\ UNCHANGED <<role, perm, grants, holders, admin, last>>
        /\ lock' = lock \/ lock' = [lock EXCEPT ![req[p].user] = None]
        /\ Goto(p, "role") \/ Finish(p)
    BY <1>8 DEF SyncValidate
  <2>2. TableTypes'
    BY <2>1, LockTyped, SameTables
  <2> QED
    BY <2>1, <2>2, StageTyped, EndTyped DEF Stages
<1>9. CASE SyncRole(p)
  <2>1. req[p].op = "updateAdmin" /\ req[p].user \in Admins
    BY <1>3, <1>9 DEF SyncRole, At, AdminOps
  <2>2. PICK i \in Roles :
          /\ req' = [req EXCEPT ![p].pc = "delete", ![p].id = i]
          /\ \/ role' = role
             \/ role' = [role EXCEPT ![i] = [state |-> "live", name |-> req[p].user, on |-> TRUE]]
    <3>1. RolesNamed(req[p].user) \subseteq Roles
      BY <1>1 DEF RolesNamed, Live, TableTypes
    <3> QED
      BY <1>4, <1>9, <3>1 DEF SyncRole
  <2>3. UNCHANGED <<perm, grants, holders, admin, lock, last>>
    BY <1>9 DEF SyncRole
  <2>4. role' \in [Roles -> RoleRow]
    BY <1>1, <2>1, <2>2, NewRoleTyped DEF TableTypes
  <2>5. TableTypes'
    BY <1>1, <2>3, <2>4 DEF TableTypes
  <2>6. PICK r : r = [req[p] EXCEPT !.pc = "delete", !.id = i]
    OBVIOUS
  <2>7. /\ r \in AnyRequest /\ r.op = "updateAdmin" /\ r.id = i /\ r.user = req[p].user
        /\ r.name = req[p].name
    BY <1>1, <2>1, <2>6 DEF AnyRequest, Stages
  <2>8. Fits(r)
    BY <2>1, <2>7 DEF Fits, OfRole, OfPerm, AdminOps
  <2>9. req' = [req EXCEPT ![p] = r]
    BY <1>1, <2>2, <2>6
  <2> QED
    BY <2>5, <2>7, <2>8, <2>9, OwnTyped
<1>10. CASE SyncDelete(p)
  <2>1. /\ req' = [req EXCEPT ![p].pc = "insert", ![p].old = GrantsOf(req[p].id)]
        /\ UNCHANGED <<role, perm, grants, holders, admin, last>> /\ lock' = lock
        /\ req[p].op = "updateAdmin" /\ req[p].pc = "delete"
    BY <1>10 DEF SyncDelete, At
  <2>2. req[p].id \in Roles /\ req[p].user \in Admins
    BY <1>1, <2>1 DEF Fits, AdminOps
  <2>3. PICK r : r = [req[p] EXCEPT !.pc = "insert", !.old = GrantsOf(req[p].id)]
    OBVIOUS
  <2>4. GrantsOf(req[p].id) \subseteq Perms
    BY DEF GrantsOf
  <2>5. /\ r \in AnyRequest /\ r.op = "updateAdmin" /\ r.id = req[p].id
        /\ r.user = req[p].user
    BY <1>1, <2>1, <2>3, <2>4 DEF AnyRequest, Stages
  <2>6. Fits(r)
    BY <2>2, <2>5 DEF Fits, OfRole, OfPerm, AdminOps
  <2>7. req' = [req EXCEPT ![p] = r]
    BY <1>1, <2>1, <2>3
  <2>8. TableTypes'
    BY <1>1, <2>1, SameTables DEF TableTypes
  <2> QED
    BY <2>5, <2>6, <2>7, <2>8, OwnTyped
<1>11. CASE SyncInsert(p)
  <2>1. req[p].op = "updateAdmin" /\ req[p].pc = "insert" /\ UNCHANGED <<role, perm, admin>>
    BY <1>11 DEF SyncInsert, At
  <2>2. req[p].user \in Admins /\ req[p].id \in Roles
    BY <1>1, <2>1 DEF Fits, AdminOps
  <2>3. /\ lock' = lock \/ lock' = [lock EXCEPT ![req[p].user] = None]
        /\ Goto(p, "commit") \/ Finish(p)
    BY <1>11 DEF SyncInsert
  <2>4. \/ UNCHANGED <<grants, holders, last>>
        \/ /\ grants' = Replaced(req[p].id, req[p].old, req[p].list)
           /\ holders' = holders \cup {<<req[p].id, req[p].user>>}
           /\ last' = [last EXCEPT ![req[p].user] = req[p].list]
    BY <1>11 DEF SyncInsert
  <2>5. grants' \subseteq Perms \X Roles
    BY <1>1, <1>2, <2>2, <2>4 DEF TableTypes, Replaced
  <2>6. holders' \subseteq Roles \X Users /\ last' \in [Admins -> SUBSET Perms]
    BY <1>1, <1>2, <2>2, <2>4 DEF TableTypes, Users
  <2>7. lock' \in [Admins -> Reqs \cup {None}]
    BY <2>3, LockTyped
  <2>8. TableTypes'
    BY <1>1, <2>1, <2>5, <2>6, <2>7 DEF TableTypes
  <2> QED
    BY <2>3, <2>8, StageTyped, EndTyped DEF Stages
<1>12. CASE UpdateAdminCommit(p)
  <2>1. /\ req[p].user \in Admins /\ Finish(p) /\ UNCHANGED <<role, perm, grants, holders, last>>
        /\ admin' = [admin EXCEPT ![req[p].user].on = req[p].on]
        /\ lock' = [lock EXCEPT ![req[p].user] = None]
    BY <1>3, <1>12 DEF UpdateAdminCommit, At, AdminOps
  <2>2. admin' \in [Admins -> AdminRow]
    BY <1>2, <1>4, <2>1, AdminTyped
  <2>3. lock' \in [Admins -> Reqs \cup {None}]
    BY <2>1, LockTyped
  <2>4. TableTypes'
    BY <1>1, <2>1, <2>2, <2>3 DEF TableTypes
  <2> QED
    BY <2>1, <2>4, EndTyped
<1>13. CASE ToggleAdminCheck(p)
  <2>1. CASE Refuse(p)
    BY <2>1, RefuseTyped
  <2>2. CASE ~Refuse(p)
    <3>1. /\ req' = [req EXCEPT ![p].pc = "write", ![p].on = ~admin[req[p].user].on]
          /\ UNCHANGED <<role, perm, grants, holders, admin, last>> /\ lock' = lock
          /\ req[p].op = "toggleAdmin"
      BY <1>13, <2>2 DEF ToggleAdminCheck, At
    <3>2. req[p].user \in Admins
      BY <1>1, <3>1 DEF Fits, AdminOps
    <3>3. PICK b \in BOOLEAN : b = ~admin[req[p].user].on
      OBVIOUS
    <3>4. PICK r : r = [req[p] EXCEPT !.pc = "write", !.on = b]
      OBVIOUS
    <3>5. r \in AnyRequest /\ r.op = "toggleAdmin" /\ r.user = req[p].user
      BY <1>1, <3>1, <3>3, <3>4 DEF AnyRequest
    <3>6. Fits(r)
      BY <3>2, <3>5 DEF Fits, OfRole, OfPerm, AdminOps
    <3>7. req' = [req EXCEPT ![p] = r]
      BY <1>1, <3>1, <3>3, <3>4
    <3>8. TableTypes'
      BY <1>1, <3>1, SameTables DEF TableTypes
    <3> QED
      BY <3>5, <3>6, <3>7, <3>8, OwnTyped
  <2> QED
    BY <2>1, <2>2
<1>14. CASE ToggleAdmin(p) \/ RemoveAdmin(p)
  <2>1. /\ req[p].user \in Admins /\ Finish(p)
        /\ UNCHANGED <<role, perm, grants, holders, lock, last>>
        /\ \/ admin' = [admin EXCEPT ![req[p].user].on = req[p].on]
           \/ admin' = [admin EXCEPT ![req[p].user] = [state |-> "deleted", on |-> FALSE]]
    BY <1>3, <1>14 DEF ToggleAdmin, RemoveAdmin, At, AdminOps
  <2>2. admin' \in [Admins -> AdminRow]
    BY <1>2, <1>4, <2>1, AdminTyped
  <2>3. TableTypes'
    BY <1>1, <2>1, <2>2 DEF TableTypes
  <2> QED
    BY <2>1, <2>3, EndTyped
<1> QED
  BY <1>5, <1>6, <1>7, <1>8, <1>9, <1>10, <1>11, <1>12, <1>13, <1>14 DEF AdminStep

LEMMA FailTyped ==
  ASSUME AccessTypes, NEW p \in Reqs, Fail(p)
  PROVE  AccessTypes'
<1>1. /\ Finish(p) /\ UNCHANGED <<role, perm, grants, holders, admin, last>>
      /\ lock' = [u \in Admins |-> IF lock[u] = p THEN None ELSE lock[u]]
  BY DEF Fail
<1>2. lock' \in [Admins -> Reqs \cup {None}]
  BY <1>1 DEF AccessTypes, TableTypes
<1> QED
  BY <1>1, <1>2, SameTables, EndTyped

(***************************************************************************)
(* One request at a time about roles, or about permissions: what its reads *)
(* have found is still so when it writes.                                  *)
(***************************************************************************)
Alone == \A p, q \in Reqs : req[p] # Idle /\ req[q] # Idle => p = q
OffWhenDeleted == \A x \in Perms : perm[x].state = "deleted" => ~perm[x].on
RowsInv == NamesUnique /\ Unborn /\ OffWhenDeleted

SerialOps == RoleOps \cup PermOps \cup {"createAdmin"}
FoundFor(r) ==
  /\ r.op \in SerialOps \cup {None}
  /\ r.op = "createRole" /\ r.pc = "write" => RolesNamed(r.name) = {}
  /\ r.op = "updateRole" /\ r.pc = "write" =>
       RolesNamed(r.name) \subseteq {r.id} /\ r.name \notin New(admin)
  /\ r.op \in {"togglePerm", "removePerm"} /\ r.pc = "write" => r.id \in Live(perm)
SerialInv == AccessTypes /\ Alone /\ RowsInv /\ \A p \in Reqs : FoundFor(req[p])

Busy(p) == req[p] # Idle

LEMMA NotIdle ==
  ASSUME NEW p \in Reqs, NEW o \in AllOps, req[p].op = o
  PROVE  Busy(p)
BY Access DEF AccessAssumption, Busy, Idle

LEMMA IdleFound == FoundFor(Idle) /\ FoundFor(Idle)'
BY Access DEF AccessAssumption, FoundFor, Idle, AllOps, AdminOps, RoleOps, PermOps

(* The step of a request that is the only one on.                           *)
LEMMA AloneStep ==
  ASSUME SerialInv, AccessTypes', NEW p \in Reqs, NEW r, req' = [req EXCEPT ![p] = r],
         Busy(p) \/ req = [q \in Reqs |-> Idle], FoundFor(r)', RowsInv'
  PROVE  SerialInv'
<1>1. \A q \in Reqs : q # p => req[q] = Idle
  BY DEF SerialInv, Alone, Busy
<1>2. \A q \in Reqs : req'[q] = IF q = p THEN r ELSE Idle
  BY <1>1 DEF SerialInv, AccessTypes
<1>3. Alone'
  BY <1>2 DEF Alone
<1>4. ASSUME NEW q \in Reqs PROVE FoundFor(req[q])'
  <2>1. CASE q = p
    <3>1. req'[q] = r
      BY <1>2, <2>1
    <3> QED
      BY <3>1 DEF FoundFor, RolesNamed, Live, New
  <2>2. CASE q # p
    <3>1. req'[q] = Idle
      BY <1>2, <2>2
    <3> QED
      BY <3>1, IdleFound DEF FoundFor, RolesNamed, Live, New
  <2> QED
    BY <2>1, <2>2
<1> QED
  BY <1>3, <1>4 DEF SerialInv

LEMMA SameRows ==
  ASSUME UNCHANGED <<role, perm, admin>>, RowsInv
  PROVE  RowsInv' /\ \A r : FoundFor(r)' <=> FoundFor(r)
BY DEF RowsInv, NamesUnique, Unborn, OffWhenDeleted, FoundFor, RolesNamed, Live, New

LEMMA AloneMoves ==
  ASSUME SerialInv, AccessTypes', NEW p \in Reqs, NEW r, req' = [req EXCEPT ![p] = r],
         Busy(p) \/ req = [q \in Reqs |-> Idle], FoundFor(r), UNCHANGED <<role, perm, admin>>
  PROVE  SerialInv'
<1>1. RowsInv' /\ FoundFor(r)'
  BY SameRows DEF SerialInv
<1> QED
  BY <1>1, AloneStep

LEMMA AloneEnds ==
  ASSUME SerialInv, AccessTypes', NEW p \in Reqs, Busy(p), Finish(p), RowsInv'
  PROVE  SerialInv'
BY AloneStep, IdleFound DEF Finish

LEMMA AloneRefuses ==
  ASSUME SerialInv, AccessTypes', NEW p \in Reqs, Busy(p), Refuse(p)
  PROVE  SerialInv'
<1>1. RowsInv' /\ Finish(p)
  BY SameRows DEF SerialInv, Refuse
<1> QED
  BY <1>1, AloneEnds

(* A request that goes on to its write with what its reads have found.      *)
LEMMA AloneChecks ==
  ASSUME SerialInv, AccessTypes', NEW p \in Reqs, Busy(p), NEW ok, Check(p, ok),
         ok => /\ req[p].op = "createRole" => RolesNamed(req[p].name) = {}
               /\ req[p].op # "updateRole" /\ req[p].op # "togglePerm"
               /\ req[p].op = "removePerm" => req[p].id \in Live(perm)
  PROVE  SerialInv'
<1>1. CASE ok
  <2>1. req' = [req EXCEPT ![p].pc = "write"] /\ UNCHANGED <<role, perm, admin>>
    BY <1>1 DEF Check, Goto
  <2>2. PICK r : r = [req[p] EXCEPT !.pc = "write"]
    OBVIOUS
  <2>3. req[p] \in AnyRequest /\ FoundFor(req[p]) /\ req \in [Reqs -> AnyRequest]
    BY DEF SerialInv, AccessTypes
  <2>4. r.op = req[p].op /\ r.name = req[p].name /\ r.id = req[p].id /\ r.pc = "write"
    BY <2>2, <2>3 DEF AnyRequest
  <2>5. FoundFor(r)
    BY <1>1, <2>3, <2>4 DEF FoundFor
  <2>6. req' = [req EXCEPT ![p] = r]
    BY <2>1, <2>2, <2>3
  <2> QED
    BY <2>1, <2>5, <2>6, AloneMoves
<1>2. CASE ~ok
  BY <1>2, AloneRefuses DEF Check
<1> QED
  BY <1>1, <1>2

(* The writes: a role that takes a name is the only live one to have it.    *)
LEMMA NamedRole ==
  ASSUME AccessTypes, RowsInv, NEW r \in Roles, NEW n \in Names \cup Admins \cup {None}, NEW s \in {"live", "deleted", "new"},
         NEW b, RolesNamed(n) \subseteq {r}, n \notin New(admin)',
         \/ role' = [role EXCEPT ![r] = [state |-> s, name |-> n, on |-> b]]
         \/ role' = [role EXCEPT ![r].name = n],
         New(admin)' \subseteq New(admin), perm' = perm
  PROVE  RowsInv'
<1>1. role \in [Roles -> RoleRow]
  BY DEF AccessTypes, TableTypes
<1>2. /\ DOMAIN role' = Roles /\ role'[r].name = n
      /\ \A q \in Roles : q # r => role'[q] = role[q]
  BY <1>1 DEF RoleRow
<1>3. \A q \in Live(role) : q # r => role[q].name # n
  BY DEF RolesNamed
<1>4. \A q : q \in Live(role)' <=> q \in Roles /\ role'[q].state = "live"
  BY <1>2 DEF Live
<1>5. \A q : q \in Live(role) <=> q \in Roles /\ role[q].state = "live"
  BY <1>1 DEF Live
<1>6. \A q, t \in Live(role)' : role'[q].name = role'[t].name => q = t
  <2> SUFFICES ASSUME NEW q \in Live(role)', NEW t \in Live(role)',
                      role'[q].name = role'[t].name, q # t
               PROVE  FALSE
    OBVIOUS
  <2>1. q \in Roles /\ t \in Roles /\ (q # r => q \in Live(role)) /\ (t # r => t \in Live(role))
    BY <1>2, <1>4, <1>5
  <2>2. \A x, y \in Live(role) : role[x].name = role[y].name => x = y
    BY DEF RowsInv, NamesUnique
  <2> QED
    BY <1>2, <1>3, <2>1, <2>2
<1>7. NamesUnique'
  BY <1>6 DEF RowsInv, NamesUnique, New
<1>8. Unborn'
  <2> SUFFICES ASSUME NEW u \in New(admin)', NEW q \in Live(role)', role'[q].name = u
               PROVE  FALSE
    BY DEF Unborn, RolesNamed
  <2>1. q # r /\ q \in Live(role) /\ role[q].name = u /\ u \in New(admin)
    BY <1>2, <1>4, <1>5
  <2> QED
    BY <2>1 DEF RowsInv, Unborn, RolesNamed
<1>9. OffWhenDeleted'
  BY DEF RowsInv, OffWhenDeleted
<1> QED
  BY <1>7, <1>8, <1>9 DEF RowsInv

(* A write to a role that leaves its name: it is live only if it was.       *)
LEMMA NamesKept ==
  ASSUME AccessTypes, RowsInv, AccessTypes',
         \A r \in Roles : /\ role'[r].name = role[r].name
                          /\ role'[r].state = "live" => role[r].state = "live",
         UNCHANGED <<perm, admin>>
  PROVE  RowsInv'
<1>1. DOMAIN role = Roles /\ DOMAIN role' = Roles
  BY DEF AccessTypes, TableTypes
<1>2. Live(role)' \subseteq Live(role) /\ Live(role) \subseteq Roles
  BY <1>1 DEF Live
<1>3. NamesUnique'
  BY <1>2 DEF RowsInv, NamesUnique, New
<1>4. Unborn'
  BY <1>2 DEF RowsInv, Unborn, RolesNamed, New
<1>5. OffWhenDeleted'
  BY DEF RowsInv, OffWhenDeleted
<1> QED
  BY <1>3, <1>4, <1>5 DEF RowsInv

(* A write to the permissions: a key is taken when no other row has it.     *)
LEMMA PermsWritten ==
  ASSUME AccessTypes, RowsInv, AccessTypes', NEW x \in Perms,
         \A y \in Perms : y # x => perm'[y] = perm[y],
         \/ perm'[x].key = perm[x].key /\ (perm[x].state = "new" => perm'[x].state = "new")
         \/ \A y \in Perms : y # x => perm[y].key # perm'[x].key,
         perm'[x].state = "deleted" => ~perm'[x].on,
         UNCHANGED <<role, admin>>
  PROVE  RowsInv'
<1>1. DOMAIN perm = Perms /\ DOMAIN perm' = Perms
  BY DEF AccessTypes, TableTypes
<1>2. \A y, z \in Perms \ New(perm) : perm[y].key = perm[z].key => y = z
  BY DEF RowsInv, NamesUnique
<1>3. ASSUME NEW y \in Perms \ New(perm)', NEW z \in Perms \ New(perm)',
             perm'[y].key = perm'[z].key
      PROVE  y = z
  <2>1. \A w \in Perms : (w \in New(perm) <=> perm[w].state = "new")
                      /\ (w \in New(perm)' <=> perm'[w].state = "new")
    BY <1>1 DEF New
  <2>2. (y # x => y \notin New(perm)) /\ (z # x => z \notin New(perm))
    BY <2>1
  <2>3. CASE y # x /\ z # x
    BY <1>2, <1>3, <2>2, <2>3
  <2>4. CASE y = x /\ z # x
    BY <1>2, <1>3, <2>1, <2>2, <2>4
  <2>5. CASE y # x /\ z = x
    BY <1>2, <1>3, <2>1, <2>2, <2>5
  <2> QED
    BY <2>3, <2>4, <2>5
<1>4. NamesUnique'
  BY <1>3 DEF RowsInv, NamesUnique, Live
<1>5. Unborn'
  BY DEF RowsInv, Unborn, RolesNamed, New, Live
<1>6. OffWhenDeleted'
  BY DEF RowsInv, OffWhenDeleted
<1> QED
  BY <1>4, <1>5, <1>6 DEF RowsInv

LEMMA SerialRoles ==
  ASSUME SerialInv, AccessTypes', NEW p \in Reqs, RoleStep(p)
  PROVE  SerialInv'
<1>2. req[p] \in AnyRequest /\ Fits(req[p]) /\ req \in [Reqs -> AnyRequest] /\ TableTypes
  BY DEF SerialInv, AccessTypes
<1>3. FoundFor(req[p]) /\ RowsInv /\ AccessTypes
  BY DEF SerialInv
<1>4. RoleOps \subseteq AllOps
  BY DEF AllOps
<1>5. Busy(p)
  <2>1. req[p].op \in RoleOps
    BY DEF RoleStep, CreateRoleCheck, CreateRole, UpdateRoleCheck, UpdateRole, RemoveRoleCheck,
           RemoveRole, ToggleRoleCheck, ToggleRole, AssignCheck, AssignDelete, AssignInsert,
           HolderCheck, SetHolder, At, RoleOps
  <2> QED
    BY <1>4, <2>1, NotIdle
<1>6. CASE CreateRoleCheck(p) \/ RemoveRoleCheck(p) \/ AssignCheck(p) \/ HolderCheck(p)
  <2>1. PICK ok : Check(p, ok) /\ (ok /\ req[p].op = "createRole" => RolesNamed(req[p].name) = {})
                  /\ req[p].op \notin {"updateRole", "togglePerm", "removePerm"}
    BY <1>6 DEF CreateRoleCheck, RemoveRoleCheck, AssignCheck, HolderCheck, At
  <2> QED
    BY <1>5, <2>1, AloneChecks
<1>7. CASE CreateRole(p)
  <2>1. /\ req[p].name \in Names /\ RolesNamed(req[p].name) = {} /\ Finish(p)
        /\ UNCHANGED <<perm, admin>>
    BY <1>2, <1>3, <1>7 DEF CreateRole, At, Fits, FoundFor
  <2>2. PICK r \in New(role) :
          role' = [role EXCEPT ![r] = [state |-> "live", name |-> req[p].name, on |-> TRUE]]
    BY <1>7 DEF CreateRole
  <2>3. r \in Roles /\ New(admin)' = New(admin) /\ New(admin) \subseteq Admins
    BY <1>2, <2>1 DEF New, TableTypes
  <2>4. req[p].name \notin New(admin)'
    BY <2>1, <2>3, Access DEF AccessAssumption
  <2>5. RowsInv'
    BY <1>3, <2>1, <2>2, <2>3, <2>4, NamedRole
  <2> QED
    BY <1>5, <2>1, <2>5, AloneEnds
<1>8. CASE UpdateRoleCheck(p)
  <2>1. CASE Refuse(p)
    BY <1>5, <2>1, AloneRefuses
  <2>2. CASE ~Refuse(p)
    <3>1. /\ req' = [req EXCEPT ![p].pc = "write",
                      ![p].name = IF req[p].name = None THEN role[req[p].id].name ELSE req[p].name]
          /\ UNCHANGED <<role, perm, admin>>
          /\ req[p].op = "updateRole" /\ req[p].pc = "read"
          /\ req[p].id \in Live(role)
          /\ req[p].name # None => TitleFree(req[p].id, req[p].name)
      BY <1>8, <2>2 DEF UpdateRoleCheck, At
    <3>2. PICK n : n = IF req[p].name = None THEN role[req[p].id].name ELSE req[p].name
      OBVIOUS
    <3>3. New(admin) \subseteq Admins /\ None \notin Admins
      BY <1>2, Access DEF New, TableTypes, AccessAssumption
    <3>4. RolesNamed(role[req[p].id].name) \subseteq {req[p].id}
      BY <1>3, <3>1 DEF RowsInv, NamesUnique, RolesNamed
    <3>5. role[req[p].id].name \notin New(admin)
      BY <1>3, <3>1 DEF RowsInv, Unborn, RolesNamed
    <3>6. req[p].name # None => req[p].name \notin New(admin)
      BY <1>2, <3>1, <3>3, Access DEF Fits, AccessAssumption
    <3>7. RolesNamed(n) \subseteq {req[p].id} /\ n \notin New(admin)
      BY <3>1, <3>2, <3>4, <3>5, <3>6 DEF TitleFree
    <3>8. PICK r : r = [req[p] EXCEPT !.pc = "write", !.name = n]
      OBVIOUS
    <3>9. r.op = "updateRole" /\ r.name = n /\ r.id = req[p].id
      BY <1>2, <3>1, <3>8 DEF AnyRequest
    <3>10. FoundFor(r)
      BY <3>7, <3>9 DEF FoundFor, SerialOps, RoleOps
    <3>11. req' = [req EXCEPT ![p] = r]
      BY <1>2, <3>1, <3>2, <3>8
    <3> QED
      BY <1>5, <3>1, <3>10, <3>11, AloneMoves
  <2> QED
    BY <2>1, <2>2
<1>9. CASE UpdateRole(p)
  <2>1. /\ req[p].id \in Roles /\ req[p].name \in Names \cup Admins \cup {None}
        /\ RolesNamed(req[p].name) \subseteq {req[p].id} /\ req[p].name \notin New(admin)
        /\ Finish(p) /\ UNCHANGED <<perm, admin>>
        /\ role' = [role EXCEPT ![req[p].id].name = req[p].name]
    BY <1>2, <1>3, <1>9 DEF UpdateRole, At, Fits, FoundFor, OfRole
  <2>2. New(admin)' = New(admin)
    BY <2>1 DEF New
  <2>3. RowsInv'
    BY <1>3, <2>1, <2>2, NamedRole
  <2> QED
    BY <1>5, <2>1, <2>3, AloneEnds
<1>10. CASE RemoveRole(p) \/ ToggleRole(p)
  <2>1. /\ Finish(p) /\ UNCHANGED <<perm, admin>>
        /\ \/ role' = [role EXCEPT ![req[p].id].state = "deleted", ![req[p].id].on = FALSE]
           \/ role' = [role EXCEPT ![req[p].id].on = req[p].on]
    BY <1>10 DEF RemoveRole, ToggleRole
  <2>2. \A r \in Roles : /\ role'[r].name = role[r].name
                         /\ role'[r].state = "live" => role[r].state = "live"
    <3>1. role \in [Roles -> RoleRow]
      BY <1>2 DEF TableTypes
    <3>2. CASE role' = [role EXCEPT ![req[p].id].state = "deleted", ![req[p].id].on = FALSE]
      BY <3>1, <3>2 DEF RoleRow
    <3>3. CASE role' = [role EXCEPT ![req[p].id].on = req[p].on]
      BY <3>1, <3>3 DEF RoleRow
    <3> QED
      BY <2>1, <3>2, <3>3
  <2>3. RowsInv'
    BY <1>3, <2>1, <2>2, NamesKept
  <2> QED
    BY <1>5, <2>1, <2>3, AloneEnds
<1>11. CASE ToggleRoleCheck(p)
  <2>1. CASE Refuse(p)
    BY <1>5, <2>1, AloneRefuses
  <2>2. CASE ~Refuse(p)
    <3>1. /\ req' = [req EXCEPT ![p].pc = "write", ![p].on = ~role[req[p].id].on]
          /\ UNCHANGED <<role, perm, admin>> /\ req[p].op = "toggleRole"
      BY <1>11, <2>2 DEF ToggleRoleCheck, At
    <3>2. PICK r : r = [req[p] EXCEPT !.pc = "write", !.on = ~role[req[p].id].on]
      OBVIOUS
    <3>3. r.op = "toggleRole"
      BY <1>2, <3>1, <3>2 DEF AnyRequest
    <3>4. FoundFor(r)
      BY <3>3 DEF FoundFor, SerialOps, RoleOps
    <3>5. req' = [req EXCEPT ![p] = r]
      BY <1>2, <3>1, <3>2
    <3> QED
      BY <1>5, <3>1, <3>4, <3>5, AloneMoves
  <2> QED
    BY <2>1, <2>2
<1>12. CASE AssignDelete(p)
  <2>1. /\ req' = [req EXCEPT ![p].pc = "insert", ![p].old = GrantsOf(req[p].id)]
        /\ UNCHANGED <<role, perm, admin>> /\ req[p].op = "assignPermissions"
    BY <1>12 DEF AssignDelete, At
  <2>2. PICK r : r = [req[p] EXCEPT !.pc = "insert", !.old = GrantsOf(req[p].id)]
    OBVIOUS
  <2>3. r.op = "assignPermissions"
    BY <1>2, <2>1, <2>2 DEF AnyRequest
  <2>4. FoundFor(r)
    BY <2>3 DEF FoundFor, SerialOps, RoleOps
  <2>5. req' = [req EXCEPT ![p] = r]
    BY <1>2, <2>1, <2>2
  <2> QED
    BY <1>5, <2>1, <2>4, <2>5, AloneMoves
<1>13. CASE AssignInsert(p) \/ SetHolder(p)
  <2>1. Finish(p) /\ UNCHANGED <<role, perm, admin>>
    BY <1>13 DEF AssignInsert, SetHolder
  <2>2. RowsInv'
    BY <1>3, <2>1, SameRows
  <2> QED
    BY <1>5, <2>1, <2>2, AloneEnds
<1> QED
  BY <1>6, <1>7, <1>8, <1>9, <1>10, <1>11, <1>12, <1>13 DEF RoleStep

LEMMA SerialPerms ==
  ASSUME SerialInv, AccessTypes', NEW p \in Reqs, PermStep(p)
  PROVE  SerialInv'
<1>1. req[p] \in AnyRequest /\ Fits(req[p]) /\ req \in [Reqs -> AnyRequest] /\ TableTypes
  BY DEF SerialInv, AccessTypes
<1>2. FoundFor(req[p]) /\ RowsInv /\ AccessTypes
  BY DEF SerialInv
<1>3. Busy(p)
  <2>1. req[p].op \in PermOps
    BY DEF PermStep, CreatePermCheck, CreatePerm, UpdatePermCheck, UpdatePerm, TogglePermCheck,
           TogglePerm, RemovePermCheck, RemovePerm, At, PermOps
  <2> QED
    BY <2>1, NotIdle DEF AllOps
<1>4. Keys \cap {None} = {}
  BY Access DEF AccessAssumption
<1>5. CASE CreatePermCheck(p) \/ UpdatePermCheck(p) \/ RemovePermCheck(p)
  <2>1. PICK ok : Check(p, ok) /\ (ok /\ req[p].op = "removePerm" => req[p].id \in Live(perm))
                  /\ req[p].op \notin {"createRole", "updateRole", "togglePerm"}
    BY <1>5 DEF CreatePermCheck, UpdatePermCheck, RemovePermCheck, At
  <2> QED
    BY <1>3, <2>1, AloneChecks
<1>6. CASE CreatePerm(p)
  <2>1. Finish(p) /\ UNCHANGED <<role, admin>>
    BY <1>6 DEF CreatePerm
  <2>2. CASE UNCHANGED perm
    BY <1>2, <1>3, <2>1, <2>2, SameRows, AloneEnds
  <2>3. CASE ~UNCHANGED perm
    <3>1. PICK x \in New(perm) :
            perm' = [perm EXCEPT ![x] = [state |-> "live", key |-> req[p].name, on |-> TRUE]]
      BY <1>6, <2>3 DEF CreatePerm
    <3>2. KeyFree(req[p].name, Perms, None)
      BY <1>6, <2>3 DEF CreatePerm
    <3>3. x \in Perms /\ None \notin Perms
      BY <1>1, Access DEF New, TableTypes, AccessAssumption
    <3>4. \A y \in Perms : perm[y].key # req[p].name
      BY <3>2, <3>3 DEF KeyFree
    <3>5. /\ perm'[x] = [state |-> "live", key |-> req[p].name, on |-> TRUE]
          /\ \A y \in Perms : y # x => perm'[y] = perm[y]
      BY <1>1, <3>1, <3>3 DEF TableTypes
    <3>6. perm'[x].state # "deleted" /\ perm'[x].key = req[p].name
      BY <3>5
    <3>7. RowsInv'
      BY <1>2, <2>1, <3>3, <3>4, <3>5, <3>6, PermsWritten
    <3> QED
      BY <1>3, <2>1, <3>7, AloneEnds
  <2> QED
    BY <2>2, <2>3
<1>7. CASE UpdatePerm(p)
  <2>1. Finish(p) /\ UNCHANGED <<role, admin>> /\ req[p].id \in Perms
    BY <1>1, <1>7 DEF UpdatePerm, At, Fits, OfPerm
  <2>2. CASE perm' = perm
    BY <1>2, <1>3, <2>1, <2>2, SameRows, AloneEnds
  <2>3. CASE perm' # perm
    <3>1. perm' = [perm EXCEPT ![req[p].id].key = req[p].name]
      BY <1>7, <2>3 DEF UpdatePerm
    <3>2. \A y \in Perms : y # req[p].id => perm[y].key # req[p].name
      BY <1>7, <2>3 DEF UpdatePerm, KeyFree
    <3>3. PICK x \in Perms : x = req[p].id
      BY <2>1
    <3>4. /\ perm'[x].key = req[p].name /\ perm'[x].state = perm[x].state
          /\ perm'[x].on = perm[x].on
          /\ \A y \in Perms : y # x => perm'[y] = perm[y]
      BY <1>1, <3>1, <3>3 DEF TableTypes, PermRow
    <3>5. perm'[x].state = "deleted" => ~perm'[x].on
      BY <1>2, <3>4 DEF RowsInv, OffWhenDeleted
    <3>6. RowsInv'
      BY <1>2, <2>1, <3>2, <3>3, <3>4, <3>5, PermsWritten
    <3> QED
      BY <1>3, <2>1, <3>6, AloneEnds
  <2> QED
    BY <2>2, <2>3
<1>8. CASE TogglePermCheck(p)
  <2>1. CASE Refuse(p)
    BY <1>3, <2>1, AloneRefuses
  <2>2. CASE ~Refuse(p)
    <3>1. /\ req' = [req EXCEPT ![p].pc = "write", ![p].on = ~perm[req[p].id].on]
          /\ UNCHANGED <<role, perm, admin>> /\ req[p].op = "togglePerm"
          /\ req[p].id \in Live(perm)
      BY <1>8, <2>2 DEF TogglePermCheck, At
    <3>2. PICK r : r = [req[p] EXCEPT !.pc = "write", !.on = ~perm[req[p].id].on]
      OBVIOUS
    <3>3. r.op = "togglePerm" /\ r.id = req[p].id
      BY <1>1, <3>1, <3>2 DEF AnyRequest
    <3>4. FoundFor(r)
      BY <3>1, <3>3 DEF FoundFor, SerialOps, PermOps
    <3>5. req' = [req EXCEPT ![p] = r]
      BY <1>1, <3>1, <3>2
    <3> QED
      BY <1>3, <3>1, <3>4, <3>5, AloneMoves
  <2> QED
    BY <2>1, <2>2
<1>9. CASE TogglePerm(p) \/ RemovePerm(p)
  <2>1. /\ Finish(p) /\ UNCHANGED <<role, admin>> /\ req[p].id \in Live(perm) /\ req[p].id \in Perms
        /\ \/ perm' = [perm EXCEPT ![req[p].id].on = req[p].on]
           \/ perm' = [perm EXCEPT ![req[p].id] = DeletedAndOff(req[p].id)]
    BY <1>1, <1>2, <1>9 DEF TogglePerm, RemovePerm, At, Fits, FoundFor, OfPerm
  <2>2. PICK x \in Perms : x = req[p].id
    BY <2>1
  <2>3. perm[x].state = "live"
    BY <2>1, <2>2 DEF Live
  <2>4. /\ perm'[x].key = perm[x].key
        /\ \/ perm'[x].state = "live"
           \/ perm'[x].on = FALSE
        /\ \A y \in Perms : y # x => perm'[y] = perm[y]
    BY <1>1, <2>1, <2>2, <2>3 DEF TableTypes, PermRow, DeletedAndOff
  <2>5. RowsInv'
    BY <1>2, <2>1, <2>3, <2>4, PermsWritten
  <2> QED
    BY <1>3, <2>1, <2>5, AloneEnds
<1> QED
  BY <1>5, <1>6, <1>7, <1>8, <1>9 DEF PermStep

(* The admin that is created has no role yet, and gets one.                 *)
LEMMA SerialAdmins ==
  ASSUME SerialInv, AccessTypes', NEW p \in Reqs, AdminStep(p)
  PROVE  SerialInv'
<1>1. req[p] \in AnyRequest /\ Fits(req[p]) /\ req \in [Reqs -> AnyRequest] /\ TableTypes
  BY DEF SerialInv, AccessTypes
<1>2. FoundFor(req[p]) /\ RowsInv /\ AccessTypes
  BY DEF SerialInv
<1>3. req[p].op \in AdminOps
  BY DEF AdminStep, CreateAdminCheck, CreateAdmin, UpdateAdminCheck, UpdateAdminLock, SyncValidate,
         SyncRole, SyncDelete, SyncInsert, UpdateAdminCommit, ToggleAdminCheck, ToggleAdmin,
         RemoveAdminCheck, RemoveAdmin, At, AdminOps
<1>4. Busy(p)
  BY <1>3, NotIdle DEF AllOps
<1>5. req[p].op = "createAdmin"
  <2>1. AdminOps \cap (RoleOps \cup PermOps \cup {None}) = {}
    BY Access DEF AdminOps, RoleOps, PermOps, AccessAssumption, AllOps
  <2> QED
    BY <1>2, <1>3, <2>1 DEF FoundFor, SerialOps
<1>6. CASE CreateAdminCheck(p)
  BY <1>4, <1>5, <1>6, AloneChecks DEF CreateAdminCheck
<1>7. CASE CreateAdmin(p)
  <2>1. Finish(p) /\ UNCHANGED perm /\ req[p].user \in Admins
    BY <1>1, <1>3, <1>7 DEF CreateAdmin, Fits
  <2>2. CASE UNCHANGED <<role, admin>>
    BY <1>2, <1>4, <2>1, <2>2, SameRows, AloneEnds
  <2>3. CASE ~UNCHANGED <<role, admin>>
    <3>1. PICK u : u = req[p].user
      OBVIOUS
    <3>2. u \in New(admin) /\ admin' = [admin EXCEPT ![u] = [state |-> "live", on |-> TRUE]]
      BY <1>7, <2>3, <3>1 DEF CreateAdmin
    <3>3. PICK r \in New(role) :
            role' = [role EXCEPT ![r] = [state |-> "live", name |-> u, on |-> TRUE]]
      BY <1>7, <2>3, <3>1 DEF CreateAdmin
    <3>4. r \in Roles /\ RolesNamed(u) = {}
      BY <1>1, <1>2, <3>2 DEF New, TableTypes, RowsInv, Unborn
    <3>5. u \notin New(admin)' /\ New(admin)' \subseteq New(admin)
      BY <1>1, <2>1, <3>1, <3>2 DEF New, TableTypes
    <3>6. RowsInv'
      BY <1>2, <2>1, <3>1, <3>3, <3>4, <3>5, NamedRole
    <3> QED
      BY <1>4, <2>1, <3>6, AloneEnds
  <2> QED
    BY <2>2, <2>3
<1> QED
  BY <1>5, <1>6, <1>7 DEF AdminStep, UpdateAdminCheck, UpdateAdminLock, SyncValidate,
         SyncRole, SyncDelete, SyncInsert, UpdateAdminCommit, ToggleAdminCheck, ToggleAdmin,
         RemoveAdminCheck, RemoveAdmin, At

LEMMA SerialArrivals ==
  ASSUME SerialInv, AccessTypes', NEW p \in Reqs, Arrive(p), req'[p].op \in SerialOps,
         req = [q \in Reqs |-> Idle]
  PROVE  SerialInv'
<1>1. req \in [Reqs -> AnyRequest]
  BY DEF SerialInv, AccessTypes
<1>2. PICK r : req' = [req EXCEPT ![p] = r] /\ r.pc = "read" /\ UNCHANGED <<role, perm, admin>>
  BY DEF Arrive, Call
<1>3. req'[p] = r
  BY <1>1, <1>2
<1>4. FoundFor(r)
  BY <1>2, <1>3 DEF FoundFor
<1> QED
  BY <1>2, <1>4, AloneMoves
-----------------------------------------------------------------------------
(* What holds of the roles, permissions and admins of MCPlatform: their     *)
(* types always, and where one request is on at a time, what it relies on.  *)
AccessInv == AccessTypes /\ part \in Parts /\ (Serial => SerialInv)

LEMMA AccessInit == MCInit => AccessInv
<1> SUFFICES ASSUME MCInit PROVE AccessInv
  OBVIOUS
<1>1. Quiet /\ part \in Parts
  BY DEF MCInit
<1>2. /\ SystemNames \subseteq Names /\ Names \cap Admins = {} /\ None \notin Perms \cup Keys
      /\ "pastor" \in Names /\ {"k1", "k2"} \subseteq Keys /\ r1 \in Roles /\ m1 \in Members
  BY PlatformAssumption DEF AccessAssumption
<1>3. role \in [Roles -> RoleRow]
  BY <1>2 DEF MCInit, NoRole, RoleRow, States
<1>4. perm \in [Perms -> PermRow]
  BY <1>2 DEF MCInit, NoPerm, PermRow, States
<1>5. admin \in [Admins -> AdminRow]
  BY <1>1 DEF Quiet, AdminRow, States
<1>6. TableTypes
  BY <1>1, <1>2, <1>3, <1>4, <1>5 DEF MCInit, Quiet, TableTypes, Users
<1>7. req = [p \in Reqs |-> Idle]
  BY <1>1 DEF Quiet
<1>8. AccessTypes
  BY <1>6, <1>7, IdleFits DEF AccessTypes
<1>9. Serial => SerialInv
  <2> SUFFICES ASSUME Serial PROVE SerialInv
    OBVIOUS
  <2>1. perm = [x \in Perms |-> NoPerm]
    BY DEF Serial, MCInit
  <2>2. \A r \in Roles : role[r].state = "live" => r = r1 /\ role[r].name = "pastor"
    BY DEF MCInit, NoRole
  <2>3. Live(role) \subseteq {r1} /\ \A r \in Live(role) : role[r].name \notin Admins
    BY <1>2, <1>3, <2>2 DEF Live
  <2>4. Perms \ New(perm) = {} /\ OffWhenDeleted
    BY <2>1 DEF New, NoPerm, OffWhenDeleted
  <2>5. NamesUnique
    BY <2>3, <2>4 DEF NamesUnique
  <2>6. Unborn
    BY <1>5, <2>3 DEF Unborn, New, RolesNamed
  <2>7. Alone /\ \A p \in Reqs : FoundFor(req[p])
    BY <1>7, IdleFound DEF Alone
  <2> QED
    BY <1>8, <2>4, <2>5, <2>6, <2>7 DEF SerialInv, RowsInv
<1> QED
  BY <1>1, <1>8, <1>9 DEF AccessInv

LEMMA AccessStays ==
  ASSUME AccessInv, UNCHANGED <<vars, part>>
  PROVE  AccessInv'
BY DEF vars, AccessInv, AccessTypes, TableTypes, Serial, SerialInv, Alone, RowsInv, NamesUnique,
       Unborn, OffWhenDeleted, FoundFor, RolesNamed, Live, New

LEMMA AccessNextInv ==
  ASSUME AccessInv, AccessNext
  PROVE  AccessInv'
<1>1. PICK p \in Reqs :
        \/ Arrive(p) /\ Asked(req'[p]) /\ (Serial => req = [q \in Reqs |-> Idle])
        \/ RoleStep(p)
        \/ PermStep(p)
        \/ AdminStep(p)
        \/ ~Serial /\ Fail(p)
  BY DEF AccessNext
<1>2. part' = part
  BY DEF AccessNext
<1>3. AccessTypes /\ (Serial => SerialInv)
  BY DEF AccessInv
<1>4. AccessTypes'
  BY <1>1, <1>3, ArriveTyped, RoleStepTyped, PermStepTyped, AdminStepTyped, FailTyped
<1>5. ASSUME Serial PROVE SerialInv'
  <2>1. SerialInv
    BY <1>3, <1>5
  <2>2. CASE Arrive(p) /\ Asked(req'[p]) /\ req = [q \in Reqs |-> Idle]
    <3>1. Calls[part] \subseteq SerialOps
      BY <1>5 DEF Serial, Calls, SerialOps, RoleOps, PermOps
    <3>2. req'[p].op \in SerialOps
      BY <2>2, <3>1 DEF Asked
    <3> QED
      BY <1>4, <2>1, <2>2, <3>2, SerialArrivals
  <2>3. CASE RoleStep(p)
    BY <1>4, <2>1, <2>3, SerialRoles
  <2>4. CASE PermStep(p)
    BY <1>4, <2>1, <2>4, SerialPerms
  <2>5. CASE AdminStep(p)
    BY <1>4, <2>1, <2>5, SerialAdmins
  <2> QED
    BY <1>1, <1>5, <2>2, <2>3, <2>4, <2>5
<1> QED
  BY <1>2, <1>3, <1>4, <1>5 DEF AccessInv, Serial

LEMMA AccessInvHolds == MCSpec => []AccessInv
<1>1. AccessInv /\ [MCNext]_<<vars, part, sVars, dVars>> => AccessInv'
  <2> SUFFICES ASSUME AccessInv, [MCNext]_<<vars, part, sVars, dVars>> PROVE AccessInv'
    OBVIOUS
  <2>1. AccessNext \/ UNCHANGED <<vars, part>>
    BY DEF MCNext, SessionsNext, SeedNext
  <2> QED
    BY <2>1, AccessNextInv, AccessStays
<1> QED
  BY <1>1, AccessInit, PTL DEF MCSpec

(* One request at a time, no two live roles have a name and no two rows of  *)
(* permissions a key: the check of a role's name still holds at its write,  *)
(* and a new admin's role takes a name nobody can give.                     *)
THEOREM NamesStayUnique == MCSpec => []SerialNamesUnique
<1>1. AccessInv => SerialNamesUnique
  BY DEF AccessInv, SerialInv, RowsInv, SerialNamesUnique
<1> QED
  BY <1>1, AccessInvHolds, PTL

(* One request at a time, a removed permission lets nobody pass: it is off, *)
(* and nothing switches it on again.                                        *)
THEOREM DeletedPermitsNobody == MCSpec => []SerialDeletedPermitsNothing
<1>1. AccessInv => SerialDeletedPermitsNothing
  BY DEF AccessInv, SerialInv, RowsInv, OffWhenDeleted, SerialDeletedPermitsNothing,
         DeletedPermitsNothing, Passes
<1> QED
  BY <1>1, AccessInvHolds, PTL

(* The types of every part: what requests that overlap and die write to the *)
(* tables of roles and admins, what sessions keep, the rows of the seed.    *)
THEOREM PlatformTypes == MCSpec => []PlatformTypeOK
<1>1. AccessInv => TypeOK
  BY DEF AccessInv, AccessTypes, TableTypes, TypeOK, RoleRow, PermRow, AdminRow, AnyRequest
<1>2. SessionInv => Ses!TypeOK
  BY DEF SessionInv, SessionTypes, Ses!TypeOK, ChurchRow, Tokens
<1>3. SeedInv => Sd!TypeOK
  <2> SUFFICES ASSUME SeedInv PROVE Sd!TypeOK
    OBVIOUS
  <2>1. \A r \in Sd!Rows : dRows[r] \in 0..2
    BY DEF SeedInv, SeedTypes, Sd!NothingTwice
  <2> QED
    BY <2>1 DEF SeedInv, SeedTypes, Sd!TypeOK
<1>4. AccessInv /\ SessionInv /\ SeedInv => PlatformTypeOK
  BY <1>1, <1>2, <1>3 DEF PlatformTypeOK
<1> QED
  BY <1>4, AccessInvHolds, SessionInvHolds, SeedInvHolds, PTL
=============================================================================
