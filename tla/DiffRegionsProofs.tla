-------------------------- MODULE DiffRegionsProofs -------------------------
(***************************************************************************)
(* Proofs about DiffRegions, for frames of every size and every gap: the   *)
(* rectangles returned are disjoint, tight, further apart than the gap and *)
(* cover every change.                                                     *)
(***************************************************************************)
EXTENDS DiffRegions, TLAPS

WF == INSTANCE WellFoundedInduction

-----------------------------------------------------------------------------
(* Least and greatest elements. *)

LEMMA HasMin ==
  ASSUME NEW S \in SUBSET Nat, S # {}
  PROVE  Min(S) \in S /\ \A k \in S : Min(S) <= k
<1>1. PICK m \in S : \A k \in S : <<k, m>> \notin WF!OpToRel(<, Nat)
  BY WF!WFMin, WF!NatLessThanWellFounded
<1>2. \A k \in S : ~(k < m)
  BY <1>1 DEF WF!OpToRel
<1>3. \A k \in S : m <= k
  BY <1>2
<1>4. QED
  BY <1>3 DEF Min

LEMMA HasMax ==
  ASSUME NEW n \in Nat, NEW S \in SUBSET (0 .. n), S # {}
  PROVE  Max(S) \in S /\ \A k \in S : Max(S) >= k
<1> DEFINE T == {n - k : k \in S}
<1>1. T \in SUBSET Nat
  <2>1. \A k \in S : n - k \in Nat
    OBVIOUS
  <2>2. QED
    BY <2>1
<1>2. T # {}
  OBVIOUS
<1> HIDE DEF T
<1>3. Min(T) \in T /\ \A k \in T : Min(T) <= k
  BY <1>1, <1>2, HasMin
<1>4. PICK m \in S : Min(T) = n - m
  BY <1>3 DEF T
<1>5. \A k \in S : n - k \in T
  BY DEF T
<1>6. \A k \in S : n - m <= n - k
  BY <1>3, <1>4, <1>5
<1>7. \A k \in S : m >= k
  BY <1>6
<1>8. QED
  BY <1>7 DEF Max

(* The first and the last of the rows that differ. *)
LEMMA DirtyEnds ==
  ASSUME DirtyRows # {}
  PROVE  /\ FirstDirty \in DirtyRows /\ LastDirty \in DirtyRows
         /\ \A r \in DirtyRows : FirstDirty <= r /\ r <= LastDirty
<1>1. Height - 1 \in Nat /\ DirtyRows \in SUBSET (0 .. Height - 1) /\ DirtyRows \in SUBSET Nat
  BY DiffAssumption DEF DirtyRows, Rows
<1>2. FirstDirty \in DirtyRows /\ \A r \in DirtyRows : FirstDirty <= r
  BY <1>1, HasMin DEF FirstDirty
<1>3. LastDirty \in DirtyRows /\ \A r \in DirtyRows : LastDirty >= r
  BY <1>1, HasMax DEF LastDirty
<1>4. QED
  BY <1>1, <1>2, <1>3

-----------------------------------------------------------------------------
(* The inductive invariant. *)

(* A run begins and ends with a dirty row, and the gap behind it is clean. *)
IsRun(t, b) ==
  /\ t \in DirtyRows /\ b \in DirtyRows /\ t <= b
  /\ \A r \in DirtyRows : r > b => r > b + 1 + Gap

Bottom(r) == r.y + r.h - 1

Right(r) == r.x + r.w - 1

(* The columns l to u bound the rows t to b, and touch a change each. *)
IsBox(l, u, t, b) ==
  /\ l \in Cols /\ u \in Cols /\ l <= u
  /\ \A r \in t .. b : diff[r] \subseteq l .. u
  /\ \E r \in t .. b : l \in diff[r]
  /\ \E r \in t .. b : u \in diff[r]

RunsOK ==
  /\ \A i \in DOMAIN runs : IsRun(runs[i][1], runs[i][2])
  /\ \A i, j \in DOMAIN runs : i < j => runs[i][2] < runs[j][1]

OutOK ==
  /\ \A i \in DOMAIN out : /\ IsRun(out[i].y, Bottom(out[i]))
                           /\ IsBox(out[i].x, Right(out[i]), out[i].y, Bottom(out[i]))
  /\ \A i, j \in DOMAIN out : i < j => Bottom(out[i]) < out[j].y
  /\ \A i \in DOMAIN out, j \in DOMAIN runs : Bottom(out[i]) < runs[j][1]

(* The run in hand lies between those found and the rows to come. *)
SeekOK ==
  pc \in {"seek", "grow"} =>
    /\ out = <<>> /\ DirtyRows # {} /\ y <= LastDirty + 1
    /\ box = NoBox

GrowOK ==
  pc = "grow" =>
    /\ top \in DirtyRows /\ bot \in DirtyRows /\ top <= bot
    /\ bot < y /\ (y = bot + 1 \/ y \in DirtyRows)
    /\ \A i \in DOMAIN runs : runs[i][2] < top

(* The run in hand lies between the rectangles and the runs that are left, *)
(* and the rows looked at have a box.                                      *)
BoundOK ==
  pc = "bound" =>
    /\ IsRun(top, bot) /\ y \in top .. bot + 1
    /\ \A i \in DOMAIN out : Bottom(out[i]) < top
    /\ \A i \in DOMAIN runs : bot < runs[i][1]
    /\ IF y = top THEN box = NoBox ELSE IsBox(box.left, box.right, top, y - 1)

PhaseOK ==
  /\ pc = "rows" => runs = <<>> /\ out = <<>> /\ box = NoBox
  /\ pc = "seek" => \A i \in DOMAIN runs : runs[i][2] < y
  /\ SeekOK /\ GrowOK /\ BoundOK
  /\ pc = "done" => runs = <<>>

InRuns(r) == \E i \in DOMAIN runs : r \in runs[i][1] .. runs[i][2]

InOut(r) == \E i \in DOMAIN out : r \in out[i].y .. Bottom(out[i])

(* No dirty row is passed over. *)
Covered ==
  \A r \in DirtyRows :
    /\ pc = "seek" /\ r < y => InRuns(r)
    /\ pc = "grow" /\ r < y => InRuns(r) \/ r \in top .. bot
    /\ pc = "bound" => InRuns(r) \/ InOut(r) \/ r \in top .. bot
    /\ pc \in {"push", "done"} => InRuns(r) \/ InOut(r)

IInv == TypeOK /\ RunsOK /\ OutOK /\ PhaseOK /\ Covered

-----------------------------------------------------------------------------
(* The frames do not change, and neither does what is said of them. *)

LEMMA SameFrames ==
  ASSUME diff' = diff
  PROVE  /\ DirtyRows' = DirtyRows /\ FirstDirty' = FirstDirty /\ LastDirty' = LastDirty
         /\ \A t, b : IsRun(t, b)' = IsRun(t, b)
<1>1. DirtyRows' = DirtyRows
  BY DEF DirtyRows, Dirty
<1>2. QED
  BY <1>1 DEF FirstDirty, LastDirty, IsRun

LEMMA SameOut ==
  ASSUME diff' = diff, runs' = runs, out' = out
  PROVE  /\ RunsOK' <=> RunsOK
         /\ OutOK' <=> OutOK
         /\ \A r : (InRuns(r)' <=> InRuns(r)) /\ (InOut(r)' <=> InOut(r))
BY SameFrames DEF RunsOK, OutOK, IsBox, InRuns, InOut

LEMMA InitIInv == Init => IInv
<1> SUFFICES ASSUME Init
             PROVE  IInv
    OBVIOUS
<1>1. 0 \in Rows
  BY DiffAssumption DEF Rows
<1>2. TypeOK
  BY <1>1, DiffAssumption DEF Init, TypeOK
<1>3. RunsOK /\ OutOK
  BY DEF Init, RunsOK, OutOK
<1>4. PhaseOK /\ Covered
  BY DEF Init, PhaseOK, SeekOK, GrowOK, BoundOK, Covered
<1>5. QED
  BY <1>2, <1>3, <1>4 DEF IInv

LEMMA IdenticalIInv == IInv /\ Identical => IInv'
<1> SUFFICES ASSUME IInv, Identical
             PROVE  IInv'
    OBVIOUS
<1>1. TypeOK'
  BY DEF IInv, TypeOK, Identical
<1>2. RunsOK' /\ OutOK'
  BY SameOut DEF IInv, Identical
<1>3. PhaseOK'
  BY DEF IInv, Identical, PhaseOK, SeekOK, GrowOK, BoundOK
<1>4. Covered'
  BY SameFrames DEF Identical, Covered
<1>5. QED
  BY <1>1, <1>2, <1>3, <1>4 DEF IInv

LEMMA FastPathIInv == IInv /\ FastPath => IInv'
<1> SUFFICES ASSUME IInv, FastPath
             PROVE  IInv'
    OBVIOUS
<1>1. /\ FirstDirty \in DirtyRows /\ LastDirty \in DirtyRows
      /\ \A r \in DirtyRows : FirstDirty <= r /\ r <= LastDirty
  BY DirtyEnds DEF FastPath
<1>2. \A r \in DirtyRows : r \in Nat /\ r < Height
  BY DiffAssumption DEF DirtyRows, Rows
<1>3. TypeOK'
  BY <1>1, <1>2, DiffAssumption DEF IInv, TypeOK, FastPath, Rows
<1>4. RunsOK' /\ OutOK'
  BY SameOut DEF IInv, FastPath
<1>5. PhaseOK'
  <2>1. IsRun(FirstDirty, LastDirty)
    BY <1>1, <1>2 DEF IsRun
  <2>2. BoundOK'
    BY <1>1, <1>2, <2>1, SameFrames DEF IInv, PhaseOK, FastPath, BoundOK
  <2>3. QED
    BY <2>2 DEF FastPath, PhaseOK, SeekOK, GrowOK
<1>6. Covered'
  BY <1>1, <1>2, SameFrames DEF FastPath, Covered
<1>7. QED
  BY <1>3, <1>4, <1>5, <1>6 DEF IInv

LEMMA FewRowsIInv == IInv /\ FewRows => IInv'
<1> SUFFICES ASSUME IInv, FewRows
             PROVE  IInv'
    OBVIOUS
<1>1. /\ FirstDirty \in DirtyRows /\ LastDirty \in DirtyRows
      /\ \A r \in DirtyRows : FirstDirty <= r /\ r <= LastDirty
  BY DirtyEnds DEF FewRows
<1>2. \A r \in DirtyRows : r \in Nat /\ r < Height
  BY DiffAssumption DEF DirtyRows, Rows
<1>3. TypeOK'
  BY <1>1, <1>2, DiffAssumption DEF IInv, TypeOK, FewRows, Rows
<1>4. RunsOK' /\ OutOK'
  BY SameOut DEF IInv, FewRows
<1>5. PhaseOK'
  BY <1>1, <1>2, SameFrames DEF IInv, FewRows, PhaseOK, SeekOK, GrowOK, BoundOK
<1>6. Covered'
  BY <1>1, <1>2, SameFrames DEF FewRows, Covered
<1>7. QED
  BY <1>3, <1>4, <1>5, <1>6 DEF IInv

(* What the row counter and the end of the rows are, outside the first loop. *)
LEMMA RowFacts ==
  ASSUME IInv
  PROVE  /\ y \in Nat /\ top \in Nat /\ bot \in Nat /\ Gap \in Nat
         /\ \A r \in DirtyRows : r \in Nat /\ r < Height /\ diff[r] # {}
         /\ \A r \in Rows : Dirty(r) <=> r \in DirtyRows
         /\ DirtyRows # {} => LastDirty \in DirtyRows /\ \A r \in DirtyRows : r <= LastDirty
<1>1. y \in Nat /\ top \in Nat /\ bot \in Nat /\ Gap \in Nat
  BY DiffAssumption DEF IInv, TypeOK, Rows
<1>2. \A r \in DirtyRows : r \in Nat /\ r < Height /\ diff[r] # {}
  BY DiffAssumption DEF DirtyRows, Rows, Dirty
<1>3. \A r \in Rows : Dirty(r) <=> r \in DirtyRows
  BY DEF DirtyRows
<1>4. QED
  BY <1>1, <1>2, <1>3, DirtyEnds

LEMMA SeekIInv == IInv /\ Seek => IInv'
<1> SUFFICES ASSUME IInv, Seek
             PROVE  IInv'
    OBVIOUS
<1>1. /\ y \in Nat
      /\ \A r \in DirtyRows : r \in Nat /\ r < Height
      /\ \A r \in Rows : Dirty(r) <=> r \in DirtyRows
      /\ LastDirty \in DirtyRows /\ \A r \in DirtyRows : r <= LastDirty
  BY RowFacts DEF IInv, PhaseOK, SeekOK, Seek
<1>2. y \in Rows /\ y + 1 \in 0 .. Height
  BY <1>1, DiffAssumption DEF Seek, Rows
<1>3. TypeOK'
  BY <1>2 DEF IInv, TypeOK, Seek
<1>4. RunsOK' /\ OutOK'
  BY SameOut DEF IInv, Seek
<1>5. PhaseOK'
  <2>1. \A i \in DOMAIN runs : runs[i][1] \in Nat /\ runs[i][2] \in Nat
    BY DEF IInv, TypeOK, Rows
  <2>2. out = <<>> /\ DirtyRows # {} /\ box = NoBox /\ \A i \in DOMAIN runs : runs[i][2] < y
    BY DEF IInv, PhaseOK, SeekOK, Seek
  <2>3. SeekOK'
    BY <1>1, <2>2, SameFrames DEF Seek, SeekOK, NoBox
  <2>4. GrowOK'
    BY <1>1, <1>2, <2>2, SameFrames DEF Seek, GrowOK
  <2>5. (pc = "seek" => \A i \in DOMAIN runs : runs[i][2] < y)'
    BY <1>1, <2>1, <2>2 DEF Seek
  <2>6. pc' \in {"seek", "grow"}
    BY DEF Seek
  <2>7. QED
    BY <2>3, <2>4, <2>5, <2>6 DEF PhaseOK, BoundOK
<1>6. Covered'
  <2> SUFFICES ASSUME NEW r \in DirtyRows, r < y + 1
               PROVE  InRuns(r) \/ (pc' = "grow" /\ r \in top' .. bot')
      BY SameFrames, SameOut DEF Seek, Covered
  <2>1. CASE r < y
    BY <2>1 DEF IInv, Covered, Seek
  <2>2. CASE r = y
    BY <2>2, <1>1, <1>2 DEF Seek
  <2>3. QED
    BY <1>1, <2>1, <2>2
<1>7. QED
  BY <1>3, <1>4, <1>5, <1>6 DEF IInv

LEMMA GrowDirtyIInv == IInv /\ GrowDirty => IInv'
<1> SUFFICES ASSUME IInv, GrowDirty
             PROVE  IInv'
    OBVIOUS
<1>1. /\ y \in Nat /\ top \in Nat /\ bot \in Nat
      /\ \A r \in DirtyRows : r \in Nat /\ r < Height
      /\ \A r \in Rows : Dirty(r) <=> r \in DirtyRows
      /\ LastDirty \in DirtyRows /\ \A r \in DirtyRows : r <= LastDirty
  BY RowFacts DEF IInv, PhaseOK, SeekOK, GrowDirty
<1>2. y \in Rows /\ y + 1 \in 0 .. Height /\ y \in DirtyRows
  BY <1>1, DiffAssumption DEF GrowDirty, Rows
<1>3. TypeOK'
  BY <1>2 DEF IInv, TypeOK, GrowDirty
<1>4. RunsOK' /\ OutOK'
  BY SameOut DEF IInv, GrowDirty
<1>5. PhaseOK'
  <2>1. SeekOK /\ GrowOK
    BY DEF IInv, PhaseOK
  <2>2. SeekOK'
    BY <1>1, <1>2, <2>1, SameFrames DEF GrowDirty, SeekOK, NoBox
  <2>3. GrowOK'
    BY <1>1, <1>2, <2>1, SameFrames DEF GrowDirty, GrowOK
  <2>4. QED
    BY <2>2, <2>3 DEF PhaseOK, BoundOK, GrowDirty
<1>6. Covered'
  <2> SUFFICES ASSUME NEW r \in DirtyRows, r < y + 1
               PROVE  InRuns(r) \/ r \in top .. y
      BY SameFrames, SameOut DEF GrowDirty, Covered
  <2>1. top <= bot /\ bot < y
    BY DEF IInv, PhaseOK, GrowOK, GrowDirty
  <2>2. CASE r < y
    BY <1>1, <2>1, <2>2 DEF IInv, Covered, GrowDirty
  <2>3. CASE r = y
    BY <1>1, <2>1, <2>3
  <2>4. QED
    BY <1>1, <2>2, <2>3
<1>7. QED
  BY <1>3, <1>4, <1>5, <1>6 DEF IInv

(* The least element of Ahead leads to the next dirty row: those before it *)
(* are clean.                                                              *)
LEMMA NearestAhead ==
  ASSUME IInv, DirtyRows # {}, Ahead # {}
  PROVE  \E n \in Nat \ {0} : /\ n = Min(Ahead) /\ y + n \in DirtyRows
                              /\ \A r \in DirtyRows : y < r => y + n <= r
<1>1. Ahead \in SUBSET Nat
  BY DiffAssumption DEF Ahead
<1>2. Min(Ahead) \in Ahead /\ \A k \in Ahead : Min(Ahead) <= k
  BY <1>1, HasMin
<1>3. PICK n \in Nat : n = Min(Ahead)
  BY <1>1, <1>2
<1>4. n \in 1 .. Gap /\ y + n <= LastDirty /\ Dirty(y + n)
  BY <1>2, <1>3 DEF Ahead
<1>5. /\ y \in Nat /\ Gap \in Nat
      /\ \A r \in DirtyRows : r \in Nat /\ r < Height /\ diff[r] # {} /\ r <= LastDirty
      /\ \A r \in Rows : Dirty(r) <=> r \in DirtyRows
      /\ LastDirty \in DirtyRows
  BY RowFacts
<1>6. y + n \in DirtyRows
  BY <1>4, <1>5, DiffAssumption DEF Rows
<1>7. ASSUME NEW r \in DirtyRows, y < r
      PROVE  y + n <= r
  <2>1. SUFFICES ASSUME r < y + n PROVE FALSE
    BY <1>5
  <2>2. r - y \in 1 .. Gap /\ y + (r - y) = r /\ r - y < n
    BY <1>4, <1>5, <1>7, <2>1
  <2>3. Dirty(r) /\ r <= LastDirty
    BY <1>5 DEF Dirty
  <2>4. r - y \in Ahead
    BY <2>2, <2>3 DEF Ahead
  <2>5. n <= r - y
    BY <1>2, <1>3, <2>4
  <2>6. QED
    BY <1>5, <2>2, <2>5
<1>8. n # 0
  BY <1>4
<1>9. QED
  BY <1>3, <1>6, <1>7, <1>8

LEMMA GrowOverGapIInv == IInv /\ GrowOverGap => IInv'
<1> SUFFICES ASSUME IInv, GrowOverGap
             PROVE  IInv'
    OBVIOUS
<1>1. SeekOK /\ GrowOK /\ DirtyRows # {}
  BY DEF IInv, PhaseOK, SeekOK, GrowOverGap
<1>2. /\ y \in Nat /\ top \in Nat /\ bot \in Nat
      /\ \A r \in DirtyRows : r \in Nat /\ r < Height /\ r <= LastDirty
      /\ \A r \in Rows : Dirty(r) <=> r \in DirtyRows
      /\ LastDirty \in DirtyRows
  BY <1>1, RowFacts
<1>3. PICK n \in Nat \ {0} : /\ n = Min(Ahead) /\ y + n \in DirtyRows
                             /\ \A r \in DirtyRows : y < r => y + n <= r
  BY <1>1, NearestAhead DEF GrowOverGap
<1>4. y' = y + n
  BY <1>3 DEF GrowOverGap
<1>5. y \notin DirtyRows
  BY <1>2 DEF GrowOverGap, DirtyRows
<1>6. TypeOK'
  <2>1. y' \in 0 .. Height
    BY <1>2, <1>3, <1>4, DiffAssumption
  <2>2. QED
    BY <2>1 DEF IInv, TypeOK, GrowOverGap
<1>7. RunsOK' /\ OutOK'
  BY SameOut DEF IInv, GrowOverGap
<1>8. PhaseOK'
  <2>1. SeekOK'
    BY <1>1, <1>2, <1>3, <1>4, SameFrames DEF GrowOverGap, SeekOK, NoBox
  <2>2. GrowOK'
    BY <1>1, <1>2, <1>3, <1>4, SameFrames DEF GrowOverGap, GrowOK
  <2>3. QED
    BY <2>1, <2>2 DEF PhaseOK, BoundOK, GrowOverGap
<1>9. Covered'
  <2> SUFFICES ASSUME NEW r \in DirtyRows, r < y + n
               PROVE  InRuns(r) \/ r \in top .. bot
      BY <1>4, SameFrames, SameOut DEF GrowOverGap, Covered
  <2>1. r < y
    BY <1>2, <1>3, <1>5
  <2>2. QED
    BY <2>1 DEF IInv, Covered, GrowOverGap
<1>10. QED
  BY <1>6, <1>7, <1>8, <1>9 DEF IInv

LEMMA RunEndsIInv == IInv /\ RunEnds => IInv'
<1> SUFFICES ASSUME IInv, RunEnds
             PROVE  IInv'
    OBVIOUS
<1>1. SeekOK /\ GrowOK /\ DirtyRows # {} /\ RunsOK /\ OutOK
  BY DEF IInv, PhaseOK, SeekOK, RunEnds
<1>2. /\ y \in Nat /\ top \in Nat /\ bot \in Nat /\ Gap \in Nat
      /\ \A r \in DirtyRows : r \in Nat /\ r < Height /\ r <= LastDirty /\ diff[r] # {}
      /\ \A r \in Rows : Dirty(r) <=> r \in DirtyRows
      /\ LastDirty \in DirtyRows
  BY <1>1, RowFacts
<1>3. /\ top \in DirtyRows /\ bot \in DirtyRows /\ top <= bot /\ bot < y
      /\ y = bot + 1 \/ y \in DirtyRows
      /\ \A i \in DOMAIN runs : runs[i][2] < top
  BY <1>1 DEF RunEnds, GrowOK
<1>4. y \notin DirtyRows
  BY <1>2 DEF RunEnds, DirtyRows
<1>5. IsRun(top, bot)
  <2> SUFFICES ASSUME NEW r \in DirtyRows, r > bot
               PROVE  r > bot + 1 + Gap
      BY <1>3 DEF IsRun
  <2>1. y = bot + 1 /\ r > y
    BY <1>2, <1>3, <1>4
  <2>2. Ahead = {}
    BY <1>2, <2>1 DEF RunEnds
  <2>3. SUFFICES ASSUME r <= bot + 1 + Gap PROVE FALSE
    BY <1>2
  <2>4. r - y \in 1 .. Gap /\ y + (r - y) = r
    BY <1>2, <2>1, <2>3
  <2>5. Dirty(r) /\ r <= LastDirty
    BY <1>2 DEF Dirty
  <2>6. r - y \in Ahead
    BY <2>4, <2>5 DEF Ahead
  <2>7. QED
    BY <2>2, <2>6
<1>6. runs \in Seq(Rows \X Rows) /\ <<top, bot>> \in Rows \X Rows
  BY DEF IInv, TypeOK
<1>7. /\ runs' = Append(runs, <<top, bot>>) /\ DOMAIN runs' = 1 .. Len(runs) + 1
      /\ DOMAIN runs = 1 .. Len(runs) /\ Len(runs) \in Nat
      /\ \A i \in DOMAIN runs : runs'[i] = runs[i]
      /\ runs'[Len(runs) + 1] = <<top, bot>>
  BY <1>6 DEF RunEnds
<1>8. TypeOK'
  <2>1. runs' \in Seq(Rows \X Rows)
    BY <1>6, <1>7
  <2>2. QED
    BY <2>1 DEF IInv, TypeOK, RunEnds
<1>9. RunsOK'
  <2>1. ASSUME NEW i \in DOMAIN runs'
        PROVE  IsRun(runs'[i][1], runs'[i][2])
    <3>1. CASE i \in DOMAIN runs
      BY <1>1, <1>7, <3>1 DEF RunsOK
    <3>2. CASE i = Len(runs) + 1
      BY <1>5, <1>7, <3>2
    <3>3. QED
      BY <1>7, <3>1, <3>2
  <2>2. ASSUME NEW i \in DOMAIN runs', NEW j \in DOMAIN runs', i < j
        PROVE  runs'[i][2] < runs'[j][1]
    <3>1. i \in DOMAIN runs
      BY <1>7, <2>2
    <3>2. CASE j \in DOMAIN runs
      BY <1>1, <1>7, <2>2, <3>1, <3>2 DEF RunsOK
    <3>3. CASE j = Len(runs) + 1
      BY <1>3, <1>7, <3>1, <3>3
    <3>4. QED
      BY <1>7, <3>2, <3>3
  <2>3. QED
    BY <2>1, <2>2, SameFrames DEF RunsOK, RunEnds
<1>10. OutOK' /\ PhaseOK'
  <2>1. out' = <<>>
    BY <1>1 DEF SeekOK, RunEnds
  <2>2. OutOK'
    BY <2>1 DEF OutOK
  <2>3. SeekOK'
    BY <1>1, <2>1, SameFrames DEF RunEnds, SeekOK, NoBox
  <2>4. ASSUME NEW i \in DOMAIN runs'
        PROVE  runs'[i][2] < y
    <3>1. CASE i \in DOMAIN runs
      <4>1. runs[i][2] \in Nat
        BY <3>1, <1>6 DEF Rows
      <4>2. QED
        BY <1>2, <1>3, <1>7, <3>1, <4>1
    <3>2. CASE i = Len(runs) + 1
      BY <1>3, <1>7, <3>2
    <3>3. QED
      BY <1>7, <3>1, <3>2
  <2>5. QED
    BY <2>2, <2>3, <2>4 DEF PhaseOK, GrowOK, BoundOK, RunEnds
<1>11. Covered'
  <2> SUFFICES ASSUME NEW r \in DirtyRows, r < y
               PROVE  \E i \in DOMAIN runs' : r \in runs'[i][1] .. runs'[i][2]
      BY SameFrames DEF RunEnds, Covered, InRuns
  <2>1. CASE r \in top .. bot
    BY <1>7, <2>1
  <2>2. CASE InRuns(r)
    BY <1>7, <2>2 DEF InRuns
  <2>3. QED
    BY <2>1, <2>2 DEF IInv, Covered, RunEnds
<1>12. QED
  BY <1>8, <1>9, <1>10, <1>11 DEF IInv

LEMMA NextRunIInv == IInv /\ NextRun => IInv'
<1> SUFFICES ASSUME IInv, NextRun
             PROVE  IInv'
    OBVIOUS
<1>1. RunsOK /\ OutOK
  BY DEF IInv
<1>2. runs \in Seq(Rows \X Rows) /\ runs # <<>>
  BY DEF IInv, TypeOK, NextRun
<1>3. /\ DOMAIN runs = 1 .. Len(runs) /\ Len(runs) \in Nat \ {0}
      /\ top' = runs[1][1] /\ bot' = runs[1][2] /\ y' = runs[1][1]
      /\ runs' = Tail(runs) /\ runs' \in Seq(Rows \X Rows)
      /\ DOMAIN runs' = 1 .. Len(runs) - 1
      /\ \A i \in DOMAIN runs' : i + 1 \in DOMAIN runs /\ runs'[i] = runs[i + 1]
  BY <1>2 DEF NextRun
<1>4. /\ runs[1] \in Rows \X Rows /\ runs[1][1] \in Rows /\ runs[1][2] \in Rows
      /\ IsRun(runs[1][1], runs[1][2])
  BY <1>1, <1>2, <1>3 DEF RunsOK
<1>5. \A r \in Rows : r \in Nat /\ r < Height
  BY DiffAssumption DEF Rows
<1>6. TypeOK'
  <2>1. y' \in 0 .. Height
    BY <1>3, <1>4, <1>5, DiffAssumption
  <2>2. QED
    BY <1>3, <1>4, <2>1 DEF IInv, TypeOK, NextRun
<1>7. RunsOK'
  <2>1. \A i \in DOMAIN runs' : IsRun(runs'[i][1], runs'[i][2])
    BY <1>1, <1>3 DEF RunsOK
  <2>2. \A i, j \in DOMAIN runs' : i < j => runs'[i][2] < runs'[j][1]
    BY <1>1, <1>3 DEF RunsOK
  <2>3. QED
    BY <2>1, <2>2, SameFrames DEF RunsOK, NextRun
<1>8. OutOK'
  <2>1. \A i \in DOMAIN out, j \in DOMAIN runs' : Bottom(out[i]) < runs'[j][1]
    BY <1>1, <1>3 DEF OutOK
  <2>2. QED
    BY <1>1, <2>1, SameFrames DEF OutOK, IsBox, NextRun
<1>9. PhaseOK'
  <2>1. \A i \in DOMAIN out : Bottom(out[i]) < runs[1][1]
    BY <1>1, <1>3 DEF OutOK
  <2>2. \A i \in DOMAIN runs' : runs[1][2] < runs'[i][1]
    BY <1>1, <1>3 DEF RunsOK
  <2>3. y' \in top' .. bot' + 1
    BY <1>3, <1>4, <1>5 DEF IsRun
  <2>4. BoundOK'
    BY <1>3, <1>4, <2>1, <2>2, <2>3, SameFrames DEF BoundOK, NextRun, NoBox
  <2>5. QED
    BY <2>4 DEF PhaseOK, SeekOK, GrowOK, NextRun
<1>10. Covered'
  <2> SUFFICES ASSUME NEW r \in DirtyRows
               PROVE  \/ \E i \in DOMAIN runs' : r \in runs'[i][1] .. runs'[i][2]
                      \/ InOut(r) \/ r \in runs[1][1] .. runs[1][2]
      BY <1>3, SameFrames DEF NextRun, Covered, InRuns, InOut
  <2>1. InRuns(r) \/ InOut(r)
    <3>1. CASE pc = "push"
      BY <3>1 DEF IInv, Covered
    <3>2. CASE pc = "seek"
      <4>1. DirtyRows # {}
        OBVIOUS
      <4>2. r <= LastDirty /\ r \in Nat /\ y \in Nat /\ LastDirty \in Nat /\ LastDirty < y
        BY <3>2, <4>1, RowFacts DEF NextRun
      <4>3. QED
        BY <3>2, <4>2 DEF IInv, Covered
    <3>3. QED
      BY <3>1, <3>2 DEF NextRun
  <2>2. ASSUME NEW i \in DOMAIN runs, r \in runs[i][1] .. runs[i][2], i # 1
        PROVE  \E j \in DOMAIN runs' : r \in runs'[j][1] .. runs'[j][2]
    <3>1. i - 1 \in DOMAIN runs' /\ runs'[i - 1] = runs[i]
      BY <1>3, <2>2
    <3>2. QED
      BY <2>2, <3>1
  <2>3. QED
    BY <2>1, <2>2 DEF InRuns
<1>11. QED
  BY <1>6, <1>7, <1>8, <1>9, <1>10 DEF IInv

LEMMA NoMoreRunsIInv == IInv /\ NoMoreRuns => IInv'
<1> SUFFICES ASSUME IInv, NoMoreRuns
             PROVE  IInv'
    OBVIOUS
<1>1. TypeOK'
  BY DEF IInv, TypeOK, NoMoreRuns
<1>2. RunsOK' /\ OutOK'
  BY SameOut DEF IInv, NoMoreRuns
<1>3. PhaseOK'
  BY DEF NoMoreRuns, PhaseOK, SeekOK, GrowOK, BoundOK
<1>4. Covered'
  BY SameFrames, SameOut DEF IInv, NoMoreRuns, Covered
<1>5. QED
  BY <1>1, <1>2, <1>3, <1>4 DEF IInv

-----------------------------------------------------------------------------
(* The box. *)

(* update_row_bounds extends a box to a row, or begins one with it. *)
LEMMA BoundsOfRow ==
  ASSUME NEW row \in SUBSET Cols, NEW b,
         ~(b.left = 0 /\ b.right + 1 >= Width),
         \/ b = NoBox /\ row # {}
         \/ b.left \in Cols /\ b.right \in Cols /\ b.left <= b.right
  PROVE  LET u == UpdateRowBounds(b, row)
         IN  /\ u = [left |-> u.left, right |-> u.right]
             /\ u.left \in Cols /\ u.right \in Cols /\ u.left <= u.right
             /\ row \subseteq u.left .. u.right
             /\ u.left \in row \/ u.left = b.left
             /\ u.right \in row \/ u.right = b.right
             /\ b # NoBox => u.left <= b.left /\ b.right <= u.right
             /\ b = NoBox => u.left \in row /\ u.right \in row
<1> DEFINE before == {c \in row : c < b.left}
           after == {c \in row : c > b.right}
           u == UpdateRowBounds(b, row)
<1>1. /\ Width - 1 \in Nat /\ \A c \in Cols : c \in Nat /\ c < Width
      /\ row \in SUBSET Nat /\ row \in SUBSET (0 .. Width - 1)
  BY DiffAssumption DEF Cols
<1>2. CASE b = NoBox
  <2>1. b.left = Width /\ b.right = 0 /\ row # {}
    <3>1. b.left = Width /\ b.right = 0
      BY <1>2 DEF NoBox
    <3>2. Width \notin Cols
      BY DiffAssumption DEF Cols
    <3>3. QED
      BY <1>2, <3>1, <3>2
  <2>2. Min(row) \in row /\ \A c \in row : Min(row) <= c
    BY <1>1, <2>1, HasMin
  <2>3. Max(row) \in row /\ \A c \in row : Max(row) >= c
    BY <1>1, <2>1, HasMax
  <2>4. u = [left |-> Min(row), right |-> Max(row)]
    BY <2>1, DiffAssumption DEF UpdateRowBounds
  <2>5. QED
    BY <1>1, <1>2, <2>1, <2>2, <2>3, <2>4
<1>3. CASE b # NoBox
  <2>1. /\ b.left \in Cols /\ b.right \in Cols /\ b.left <= b.right
        /\ b.left \in Nat /\ b.right \in Nat
    BY <1>1, <1>3
  <2>2. u = [left |-> IF before # {} THEN Min(before) ELSE b.left,
             right |-> IF after # {} THEN Max(after) ELSE b.right]
    BY <2>1 DEF UpdateRowBounds
  <2>3. /\ u = [left |-> u.left, right |-> u.right]
        /\ u.left = IF before # {} THEN Min(before) ELSE b.left
        /\ u.right = IF after # {} THEN Max(after) ELSE b.right
    BY <2>2
  <2> HIDE DEF u
  <2>4. /\ u.left \in Cols /\ u.left \in Nat /\ u.left <= b.left
        /\ u.left \in row \/ u.left = b.left
        /\ \A c \in row : c < b.left => u.left <= c
    <3>1. CASE before = {}
      <4>1. u.left = b.left /\ \A c \in row : ~(c < b.left)
        BY <2>3, <3>1
      <4>2. QED
        BY <2>1, <4>1
    <3>2. CASE before # {}
      <4>1. before \in SUBSET Nat
        BY <1>1
      <4>2. Min(before) \in before /\ \A c \in before : Min(before) <= c
        BY <3>2, <4>1, HasMin
      <4>3. u.left \in before /\ \A c \in before : u.left <= c
        BY <2>3, <3>2, <4>2
      <4>4. u.left \in row /\ u.left < b.left /\ u.left \in Cols /\ u.left \in Nat
        BY <1>1, <4>3
      <4>5. QED
        BY <2>1, <4>3, <4>4
    <3>3. QED
      BY <3>1, <3>2
  <2>5. /\ u.right \in Cols /\ u.right \in Nat /\ b.right <= u.right
        /\ u.right \in row \/ u.right = b.right
        /\ \A c \in row : c > b.right => c <= u.right
    <3>1. CASE after = {}
      <4>1. u.right = b.right /\ \A c \in row : ~(c > b.right)
        BY <2>3, <3>1
      <4>2. QED
        BY <2>1, <4>1
    <3>2. CASE after # {}
      <4>1. after \in SUBSET (0 .. Width - 1)
        BY <1>1
      <4>2. Max(after) \in after /\ \A c \in after : Max(after) >= c
        BY <1>1, <3>2, <4>1, HasMax
      <4>3. u.right \in after /\ \A c \in after : u.right >= c
        BY <2>3, <3>2, <4>2
      <4>4. u.right \in row /\ u.right > b.right /\ u.right \in Cols /\ u.right \in Nat
        BY <1>1, <4>3
      <4>5. \A c \in row : c > b.right => c <= u.right
        BY <1>1, <4>3, <4>4
      <4>6. QED
        BY <2>1, <4>4, <4>5
    <3>3. QED
      BY <3>1, <3>2
  <2>6. ASSUME NEW c \in row
        PROVE  u.left <= c /\ c <= u.right
    <3>1. c \in Nat
      BY <1>1
    <3>2. QED
      BY <2>1, <2>4, <2>5, <3>1
  <2>7. row \subseteq u.left .. u.right
    BY <1>1, <2>4, <2>5, <2>6
  <2>8. u.left <= u.right
    BY <2>1, <2>4, <2>5
  <2>9. QED
    BY <1>3, <2>3, <2>4, <2>5, <2>7, <2>8 DEF u
<1>4. QED
  BY <1>2, <1>3

LEMMA BoundRowIInv == IInv /\ BoundRow => IInv'
<1> SUFFICES ASSUME IInv, BoundRow
             PROVE  IInv'
    OBVIOUS
<1>1. /\ y \in Nat /\ top \in Nat /\ bot \in Nat
      /\ \A r \in DirtyRows : r \in Nat /\ r < Height
      /\ \A r \in Rows : Dirty(r) <=> r \in DirtyRows
  BY RowFacts
<1>2. /\ IsRun(top, bot) /\ y \in top .. bot + 1
      /\ \A i \in DOMAIN out : Bottom(out[i]) < top
      /\ \A i \in DOMAIN runs : bot < runs[i][1]
      /\ IF y = top THEN box = NoBox ELSE IsBox(box.left, box.right, top, y - 1)
  BY DEF IInv, PhaseOK, BoundOK, BoundRow
<1>3. top \in DirtyRows /\ bot \in DirtyRows /\ top <= bot
  BY <1>2 DEF IsRun
<1>4. y <= bot /\ ~(box.left = 0 /\ box.right + 1 >= Width)
  BY <1>1 DEF BoundRow, Bounded
<1>5. y \in Rows /\ y + 1 \in 0 .. Height /\ diff[y] \in SUBSET Cols /\ y \in top .. y
  <2>1. y < Height
    BY <1>1, <1>3, <1>4, DiffAssumption
  <2>2. y \in Rows /\ y + 1 \in 0 .. Height
    BY <1>1, <2>1, DiffAssumption DEF Rows
  <2>3. QED
    BY <1>1, <1>2, <2>2 DEF IInv, TypeOK
<1>6. \A c \in Cols : c \in Nat
  BY DEF Cols
<1>7. IsBox(box'.left, box'.right, top, y)
  <2>1. CASE ~Dirty(y)
    <3>1. y # top /\ box' = box /\ diff[y] = {}
      BY <1>1, <1>3, <1>5, <2>1 DEF BoundRow, Dirty
    <3>2. IsBox(box.left, box.right, top, y - 1)
      BY <1>2, <3>1
    <3>3. \A r \in top .. y : r = y \/ r \in top .. y - 1
      BY <1>1
    <3>4. \A r \in top .. y - 1 : r \in top .. y
      BY <1>1
    <3>5. QED
      BY <3>1, <3>2, <3>3, <3>4 DEF IsBox
  <2>2. CASE Dirty(y) /\ y = top
    <3>1. box = NoBox /\ diff[y] # {} /\ box' = UpdateRowBounds(box, diff[y])
      BY <1>2, <2>2 DEF BoundRow, Dirty
    <3>2. /\ box'.left \in Cols /\ box'.right \in Cols /\ box'.left <= box'.right
          /\ diff[y] \subseteq box'.left .. box'.right
          /\ box'.left \in diff[y] /\ box'.right \in diff[y]
      BY <1>4, <1>5, <3>1, BoundsOfRow
    <3>3. \A r \in top .. y : r = y
      BY <1>1, <2>2
    <3>4. QED
      BY <1>5, <3>2, <3>3 DEF IsBox
  <2>3. CASE Dirty(y) /\ y # top
    <3>1. box' = UpdateRowBounds(box, diff[y]) /\ IsBox(box.left, box.right, top, y - 1)
      BY <1>2, <2>3 DEF BoundRow
    <3>2. box.left \in Cols /\ box.right \in Cols /\ box.left <= box.right /\ box # NoBox
      <4>1. box.left \in Cols /\ box.right \in Cols /\ box.left <= box.right
        BY <3>1 DEF IsBox
      <4>2. Width \notin Cols
        BY DiffAssumption DEF Cols
      <4>3. QED
        BY <4>1, <4>2 DEF NoBox
    <3>3. /\ box'.left \in Cols /\ box'.right \in Cols /\ box'.left <= box'.right
          /\ diff[y] \subseteq box'.left .. box'.right
          /\ box'.left \in diff[y] \/ box'.left = box.left
          /\ box'.right \in diff[y] \/ box'.right = box.right
          /\ box'.left <= box.left /\ box.right <= box'.right
      BY <1>4, <1>5, <3>1, <3>2, BoundsOfRow
    <3>4. box.left .. box.right \subseteq box'.left .. box'.right
      BY <1>6, <3>2, <3>3
    <3>5. \A r \in top .. y : r = y \/ r \in top .. y - 1
      BY <1>1
    <3>6. \A r \in top .. y - 1 : r \in top .. y
      BY <1>1
    <3>7. \A r \in top .. y : diff[r] \subseteq box'.left .. box'.right
      <4> TAKE r \in top .. y
      <4>1. CASE r = y
        BY <3>3, <4>1
      <4>2. CASE r \in top .. y - 1
        BY <3>1, <3>4, <4>2 DEF IsBox
      <4>3. QED
        BY <3>5, <4>1, <4>2
    <3>8. \E r \in top .. y : box'.left \in diff[r]
      BY <1>5, <3>1, <3>3, <3>6 DEF IsBox
    <3>9. \E r \in top .. y : box'.right \in diff[r]
      BY <1>5, <3>1, <3>3, <3>6 DEF IsBox
    <3>10. QED
      BY <3>3, <3>7, <3>8, <3>9 DEF IsBox
  <2>4. QED
    BY <2>1, <2>2, <2>3
<1>8. TypeOK'
  <2>1. box'.left \in Cols /\ box'.right \in Cols /\ box'.left <= box'.right
    BY <1>7 DEF IsBox
  <2>2. QED
    BY <1>5, <2>1 DEF IInv, TypeOK, BoundRow
<1>9. RunsOK' /\ OutOK'
  BY SameOut DEF IInv, BoundRow
<1>10. PhaseOK'
  <2>1. /\ y' = y + 1 /\ y' - 1 = y /\ y' # top /\ y' \in top .. bot + 1
        /\ top' = top /\ bot' = bot /\ out' = out /\ runs' = runs /\ diff' = diff
    BY <1>1, <1>2, <1>4 DEF BoundRow
  <2>2. IsBox(box.left, box.right, top, y - 1)'
    BY <1>7, <2>1 DEF IsBox
  <2>3. BoundOK'
    BY <1>2, <2>1, <2>2, SameFrames DEF BoundOK, Bottom
  <2>4. QED
    BY <2>3 DEF BoundRow, PhaseOK, SeekOK, GrowOK
<1>11. Covered'
  BY SameFrames, SameOut DEF IInv, Covered, BoundRow
<1>12. QED
  BY <1>8, <1>9, <1>10, <1>11 DEF IInv

LEMMA PushIInv == IInv /\ Push => IInv'
<1> SUFFICES ASSUME IInv, Push
             PROVE  IInv'
    OBVIOUS
<1> DEFINE n == Len(out) + 1
           new == Rect(box, top, bot)
<1>1. /\ y \in Nat /\ top \in Nat /\ bot \in Nat
      /\ \A r \in DirtyRows : r \in Nat /\ r < Height
  BY RowFacts
<1>2. /\ IsRun(top, bot) /\ y \in top .. bot + 1
      /\ \A i \in DOMAIN out : Bottom(out[i]) < top
      /\ \A i \in DOMAIN runs : bot < runs[i][1]
      /\ IF y = top THEN box = NoBox ELSE IsBox(box.left, box.right, top, y - 1)
  BY DEF IInv, PhaseOK, BoundOK, Push
<1>3. top \in DirtyRows /\ bot \in DirtyRows /\ top <= bot
  BY <1>2 DEF IsRun
<1>4. y # top
  <2>1. SUFFICES ASSUME y = top PROVE FALSE
    OBVIOUS
  <2>2. box.left = Width /\ ~(y > bot)
    BY <1>1, <1>2, <1>3, <2>1 DEF NoBox
  <2>3. QED
    BY <2>2, DiffAssumption DEF Push, Bounded
<1>5. IsBox(box.left, box.right, top, y - 1)
  BY <1>2, <1>4
<1>6. /\ box.left \in Cols /\ box.right \in Cols /\ box.left <= box.right
      /\ box.left \in Nat /\ box.right \in Nat /\ box.right < Width
  BY <1>5, DiffAssumption DEF IsBox, Cols
<1>7. IsBox(box.left, box.right, top, bot)
  <2>1. CASE y = bot + 1
    <3>1. y - 1 = bot
      BY <1>1, <2>1
    <3>2. QED
      BY <1>5, <3>1
  <2>2. CASE y # bot + 1
    <3>1. box.left = 0 /\ box.right + 1 >= Width
      BY <1>1, <1>2, <2>2 DEF Push, Bounded
    <3>2. Cols \subseteq box.left .. box.right
      BY <1>6, <3>1, DiffAssumption DEF Cols
    <3>3. \A r \in top .. bot : diff[r] \subseteq Cols
      <4>1. \A r \in top .. bot : r \in Rows
        BY <1>1, <1>3, DiffAssumption DEF Rows
      <4>2. QED
        BY <4>1 DEF IInv, TypeOK
    <3>4. \A r \in top .. y - 1 : r \in top .. bot
      BY <1>1, <1>2, <2>2
    <3>5. QED
      BY <1>5, <3>2, <3>3, <3>4 DEF IsBox
  <2>3. QED
    BY <2>1, <2>2
<1>8. /\ new = [x |-> box.left, y |-> top, w |-> box.right - box.left + 1, h |-> bot - top + 1]
      /\ new.x = box.left /\ new.y = top /\ Right(new) = box.right /\ Bottom(new) = bot
  BY <1>1, <1>6 DEF Rect, Right, Bottom
<1>9. new \in [x : Cols, y : Rows, w : 1 .. Width, h : 1 .. Height]
  <2>1. box.right - box.left + 1 \in 1 .. Width
    BY <1>6, DiffAssumption
  <2>2. bot - top + 1 \in 1 .. Height
    BY <1>1, <1>3, DiffAssumption
  <2>3. top \in Rows
    BY <1>3 DEF DirtyRows
  <2>4. QED
    BY <1>6, <1>8, <2>1, <2>2, <2>3
<1> HIDE DEF new
<1>10. out \in Seq([x : Cols, y : Rows, w : 1 .. Width, h : 1 .. Height])
  BY DEF IInv, TypeOK
<1>11. /\ out' = Append(out, new) /\ DOMAIN out' = 1 .. n
       /\ DOMAIN out = 1 .. Len(out) /\ Len(out) \in Nat
       /\ \A i \in DOMAIN out : out'[i] = out[i]
       /\ out'[n] = new
       /\ runs' = runs /\ diff' = diff
  BY <1>10 DEF Push, new
<1>12. TypeOK'
  <2>1. out' \in Seq([x : Cols, y : Rows, w : 1 .. Width, h : 1 .. Height])
    BY <1>9, <1>10, <1>11
  <2>2. box # NoBox
    <3>1. Width \notin Cols
      BY DiffAssumption DEF Cols
    <3>2. QED
      BY <1>6, <3>1 DEF NoBox
  <2>3. QED
    BY <2>1, <2>2 DEF IInv, TypeOK, Push
<1>13. RunsOK'
  BY <1>11, SameFrames DEF IInv, RunsOK
<1>14. OutOK'
  <2>1. OutOK
    BY DEF IInv
  <2>2. ASSUME NEW i \in DOMAIN out'
        PROVE  /\ IsRun(out'[i].y, Bottom(out'[i]))
               /\ IsBox(out'[i].x, Right(out'[i]), out'[i].y, Bottom(out'[i]))
    <3>1. CASE i \in DOMAIN out
      BY <1>11, <2>1, <3>1 DEF OutOK
    <3>2. CASE i = n
      BY <1>2, <1>7, <1>8, <1>11, <3>2
    <3>3. QED
      BY <1>11, <3>1, <3>2
  <2>3. ASSUME NEW i \in DOMAIN out', NEW j \in DOMAIN out', i < j
        PROVE  Bottom(out'[i]) < out'[j].y
    <3>1. i \in DOMAIN out
      BY <1>11, <2>3
    <3>2. CASE j \in DOMAIN out
      BY <1>11, <2>1, <2>3, <3>1, <3>2 DEF OutOK
    <3>3. CASE j = n
      BY <1>2, <1>8, <1>11, <3>1, <3>3
    <3>4. QED
      BY <1>11, <3>2, <3>3
  <2>4. ASSUME NEW i \in DOMAIN out', NEW j \in DOMAIN runs
        PROVE  Bottom(out'[i]) < runs[j][1]
    <3>1. CASE i \in DOMAIN out
      BY <1>11, <2>1, <3>1 DEF OutOK
    <3>2. CASE i = n
      BY <1>2, <1>8, <1>11, <3>2
    <3>3. QED
      BY <1>11, <3>1, <3>2
  <2>5. DirtyRows' = DirtyRows
    BY <1>11, SameFrames
  <2>6. (\A i \in DOMAIN out : IsRun(out[i].y, Bottom(out[i])))'
    BY <2>2, <2>5 DEF IsRun, Bottom
  <2>7. (\A i \in DOMAIN out : IsBox(out[i].x, Right(out[i]), out[i].y, Bottom(out[i])))'
    BY <1>11, <2>2 DEF IsBox, Right, Bottom
  <2>8. (\A i, j \in DOMAIN out : i < j => Bottom(out[i]) < out[j].y)'
    BY <2>3 DEF Bottom
  <2>9. (\A i \in DOMAIN out, j \in DOMAIN runs : Bottom(out[i]) < runs[j][1])'
    BY <1>11, <2>4 DEF Bottom
  <2>10. QED
    BY <2>6, <2>7, <2>8, <2>9 DEF OutOK
<1>15. PhaseOK'
  BY DEF Push, PhaseOK, SeekOK, GrowOK, BoundOK
<1>16. Covered'
  <2> SUFFICES ASSUME NEW r \in DirtyRows
               PROVE  \/ InRuns(r)
                      \/ \E i \in DOMAIN out' : r \in out'[i].y .. Bottom(out'[i])
      BY <1>11, SameFrames DEF Push, Covered, InRuns, InOut, Bottom
  <2>1. CASE InOut(r)
    BY <1>11, <2>1 DEF InOut
  <2>2. CASE r \in top .. bot
    <3>1. n \in DOMAIN out' /\ out'[n].y = top /\ Bottom(out'[n]) = bot
      BY <1>8, <1>11
    <3>2. QED
      BY <2>2, <3>1
  <2>3. QED
    BY <2>1, <2>2 DEF IInv, Covered, Push
<1>17. QED
  BY <1>12, <1>13, <1>14, <1>15, <1>16 DEF IInv

LEMMA NextIInv == IInv /\ [Next]_vars => IInv'
<1> SUFFICES ASSUME IInv, [Next]_vars
             PROVE  IInv'
    OBVIOUS
<1>1. CASE Next
  BY <1>1, IdenticalIInv, FastPathIInv, FewRowsIInv, SeekIInv, GrowDirtyIInv, GrowOverGapIInv,
     RunEndsIInv, NextRunIInv, NoMoreRunsIInv, BoundRowIInv, PushIInv DEF Next
<1>2. CASE UNCHANGED vars
  BY <1>2, SameOut, SameFrames
     DEF vars, IInv, TypeOK, PhaseOK, SeekOK, GrowOK, BoundOK, IsBox, Bottom, Covered
<1>3. QED
  BY <1>1, <1>2

-----------------------------------------------------------------------------
(* What the invariant says of the rectangles. *)

LEMMA OutFacts ==
  ASSUME IInv, NEW i \in DOMAIN out
  PROVE  LET r == out[i]
         IN  /\ r \in [x : Cols, y : Rows, w : 1 .. Width, h : 1 .. Height]
             /\ r.x \in Nat /\ r.y \in Nat /\ r.w \in Nat \ {0} /\ r.h \in Nat \ {0}
             /\ IsRun(r.y, Bottom(r)) /\ IsBox(r.x, Right(r), r.y, Bottom(r))
             /\ PixelsOf(r) = (r.x .. Right(r)) \X (r.y .. Bottom(r))
<1> DEFINE T == [x : Cols, y : Rows, w : 1 .. Width, h : 1 .. Height]
<1>0. out \in Seq(T)
  BY DEF IInv, TypeOK
<1> HIDE DEF T
<1>1. out[i] \in T
  BY <1>0
<1> USE DEF T
<1>2. /\ out[i].x \in Nat /\ out[i].y \in Nat
      /\ out[i].w \in Nat \ {0} /\ out[i].h \in Nat \ {0}
  BY <1>1 DEF Cols, Rows
<1>3. IsRun(out[i].y, Bottom(out[i]))
      /\ IsBox(out[i].x, Right(out[i]), out[i].y, Bottom(out[i]))
  BY DEF IInv, OutOK
<1>4. QED
  BY <1>1, <1>2, <1>3 DEF PixelsOf, Right, Bottom

(* A change in a row of a rectangle is a pixel of both. *)
LEMMA ChangeInside ==
  ASSUME IInv, NEW i \in DOMAIN out, NEW row \in out[i].y .. Bottom(out[i]), NEW c \in diff[row]
  PROVE  <<c, row>> \in Differing \cap PixelsOf(out[i])
<1>1. /\ out[i].x \in Nat /\ out[i].y \in Nat
      /\ IsRun(out[i].y, Bottom(out[i])) /\ IsBox(out[i].x, Right(out[i]), out[i].y, Bottom(out[i]))
      /\ PixelsOf(out[i]) = (out[i].x .. Right(out[i])) \X (out[i].y .. Bottom(out[i]))
  BY OutFacts
<1>2. c \in out[i].x .. Right(out[i])
  BY <1>1 DEF IsBox
<1>3. Bottom(out[i]) \in Rows
  BY <1>1 DEF IsRun, DirtyRows
<1>4. row \in Rows
  BY <1>1, <1>3, DiffAssumption DEF Rows
<1>5. c \in Cols
  BY <1>4 DEF IInv, TypeOK
<1>6. <<c, row>> \in Differing
  BY <1>4, <1>5 DEF Differing
<1>7. QED
  BY <1>1, <1>2, <1>6

LEMMA IInvTight == IInv => Tight
<1> SUFFICES ASSUME IInv, NEW i \in DOMAIN out
             PROVE  LET r == out[i]
                        inside == Differing \cap PixelsOf(r)
                    IN  /\ {r.x, r.x + r.w - 1} \subseteq {p[1] : p \in inside}
                        /\ {r.y, r.y + r.h - 1} \subseteq {p[2] : p \in inside}
    BY DEF Tight
<1> DEFINE r == out[i]
           inside == Differing \cap PixelsOf(r)
<1>1. /\ r.x \in Nat /\ r.y \in Nat /\ r.w \in Nat \ {0} /\ r.h \in Nat \ {0}
      /\ IsRun(r.y, Bottom(r)) /\ IsBox(r.x, Right(r), r.y, Bottom(r))
  BY OutFacts
<1>2. \A row \in r.y .. Bottom(r) : \A c \in diff[row] : <<c, row>> \in inside
  BY ChangeInside
<1>3. r.x \in {p[1] : p \in inside} /\ Right(r) \in {p[1] : p \in inside}
  <2>1. PICK row \in r.y .. Bottom(r) : r.x \in diff[row]
    BY <1>1 DEF IsBox
  <2>2. PICK low \in r.y .. Bottom(r) : Right(r) \in diff[low]
    BY <1>1 DEF IsBox
  <2>3. <<r.x, row>> \in inside /\ <<Right(r), low>> \in inside
    BY <1>2, <2>1, <2>2
  <2>4. QED
    BY <2>3
<1>4. r.y \in {p[2] : p \in inside} /\ Bottom(r) \in {p[2] : p \in inside}
  <2>1. diff[r.y] # {} /\ diff[Bottom(r)] # {}
    BY <1>1 DEF IsRun, DirtyRows, Dirty
  <2>2. r.y \in r.y .. Bottom(r) /\ Bottom(r) \in r.y .. Bottom(r)
    BY <1>1 DEF Bottom
  <2>3. PICK c \in diff[r.y] : <<c, r.y>> \in inside
    BY <1>2, <2>1, <2>2
  <2>4. PICK d \in diff[Bottom(r)] : <<d, Bottom(r)>> \in inside
    BY <1>2, <2>1, <2>2
  <2>5. QED
    BY <2>3, <2>4
<1>5. QED
  BY <1>3, <1>4 DEF Right, Bottom

LEMMA IInvApart == IInv => Apart
<1> SUFFICES ASSUME IInv, NEW i \in 1 .. Len(out) - 1
             PROVE  out[i + 1].y > out[i].y + out[i].h + Gap
    BY DEF Apart
<1>1. out \in Seq([x : Cols, y : Rows, w : 1 .. Width, h : 1 .. Height])
  BY DEF IInv, TypeOK
<1>2. i \in DOMAIN out /\ i + 1 \in DOMAIN out /\ i < i + 1
  BY <1>1
<1>3. Bottom(out[i]) < out[i + 1].y
  BY <1>2 DEF IInv, OutOK
<1>4. IsRun(out[i].y, Bottom(out[i])) /\ IsRun(out[i + 1].y, Bottom(out[i + 1]))
  BY <1>2, OutFacts
<1>5. out[i].y \in Nat /\ out[i].h \in Nat /\ out[i + 1].y \in Nat /\ Gap \in Nat
  BY <1>2, OutFacts, DiffAssumption
<1>6. out[i + 1].y > Bottom(out[i]) + 1 + Gap
  BY <1>3, <1>4, <1>5 DEF IsRun, Bottom
<1>7. QED
  BY <1>5, <1>6 DEF Bottom

LEMMA IInvReturnsRegions == IInv => ReturnsRegions
<1> SUFFICES ASSUME IInv, pc = "done"
             PROVE  FB!IsRegions(Regions, Old, New)
    BY DEF ReturnsRegions
<1>1. FB!Changed(Old, New) = Differing
  BY DEF FB!Changed, Old, New, Differing
<1>2. FB!Geometry(New) = Cols \X Rows
  BY DEF FB!Geometry, New
<1>3. Regions \subseteq AllRects
  <2> SUFFICES ASSUME NEW i \in DOMAIN out
               PROVE  PixelsOf(out[i]) \in AllRects
      BY DEF Regions
  <2>1. out[i] \in [x : Cols, y : Rows, w : 1 .. Width, h : 1 .. Height]
    BY OutFacts
  <2>2. out[i] = [x |-> out[i].x, y |-> out[i].y, w |-> out[i].w, h |-> out[i].h]
    BY <2>1
  <2>3. QED
    BY <2>1, <2>2 DEF AllRects
<1>4. ASSUME NEW i \in DOMAIN out
      PROVE  PixelsOf(out[i]) \subseteq Cols \X Rows /\ PixelsOf(out[i]) \cap Differing # {}
  <2>1. /\ out[i].x \in Nat /\ out[i].y \in Nat /\ out[i].h \in Nat \ {0}
        /\ IsRun(out[i].y, Bottom(out[i]))
        /\ IsBox(out[i].x, Right(out[i]), out[i].y, Bottom(out[i]))
        /\ PixelsOf(out[i]) = (out[i].x .. Right(out[i])) \X (out[i].y .. Bottom(out[i]))
    BY <1>4, OutFacts
  <2>2. Right(out[i]) \in Cols /\ Bottom(out[i]) \in Rows
    BY <2>1 DEF IsBox, IsRun, DirtyRows
  <2>3. out[i].x .. Right(out[i]) \subseteq Cols /\ out[i].y .. Bottom(out[i]) \subseteq Rows
    BY <2>1, <2>2, DiffAssumption DEF Cols, Rows
  <2>4. out[i].y \in out[i].y .. Bottom(out[i]) /\ diff[out[i].y] # {}
    BY <2>1 DEF Bottom, IsRun, DirtyRows, Dirty
  <2>5. PICK c \in diff[out[i].y] : <<c, out[i].y>> \in Differing \cap PixelsOf(out[i])
    BY <1>4, <2>4, ChangeInside
  <2>6. QED
    BY <2>1, <2>3, <2>5
<1>5. ASSUME NEW i \in DOMAIN out, NEW j \in DOMAIN out, i < j
      PROVE  PixelsOf(out[i]) \cap PixelsOf(out[j]) = {}
  <2>1. Bottom(out[i]) < out[j].y /\ out[i].y \in Nat /\ out[i].h \in Nat /\ out[j].y \in Nat
    BY <1>5, OutFacts DEF IInv, OutOK
  <2>2. /\ PixelsOf(out[i]) = (out[i].x .. Right(out[i])) \X (out[i].y .. Bottom(out[i]))
        /\ PixelsOf(out[j]) = (out[j].x .. Right(out[j])) \X (out[j].y .. Bottom(out[j]))
    BY <1>5, OutFacts
  <2>3. (out[i].y .. Bottom(out[i])) \cap (out[j].y .. Bottom(out[j])) = {}
    BY <2>1 DEF Bottom
  <2>4. QED
    BY <2>2, <2>3
<1>6. ASSUME NEW r \in Regions, NEW q \in Regions, r # q
      PROVE  r \cap q = {}
  <2>1. PICK i \in DOMAIN out : r = PixelsOf(out[i])
    BY DEF Regions
  <2>2. PICK j \in DOMAIN out : q = PixelsOf(out[j])
    BY DEF Regions
  <2>3. i \in Nat /\ j \in Nat /\ i # j
    BY <1>6, <2>1, <2>2 DEF IInv, TypeOK
  <2>4. CASE i < j
    BY <1>5, <2>1, <2>2, <2>4
  <2>5. CASE j < i
    BY <1>5, <2>1, <2>2, <2>5
  <2>6. QED
    BY <2>3, <2>4, <2>5
<1>7. Differing \subseteq UNION Regions
  <2> SUFFICES ASSUME NEW p \in Differing
               PROVE  \E i \in DOMAIN out : p \in PixelsOf(out[i])
      BY DEF Regions
  <2>1. p \in Cols \X Rows /\ p[1] \in diff[p[2]] /\ p = <<p[1], p[2]>>
    BY DEF Differing
  <2>2. p[2] \in DirtyRows
    BY <2>1 DEF DirtyRows, Dirty
  <2>3. runs = <<>>
    BY DEF IInv, PhaseOK
  <2>4. InOut(p[2])
    BY <2>2, <2>3 DEF IInv, Covered, InRuns
  <2>5. PICK i \in DOMAIN out : p[2] \in out[i].y .. Bottom(out[i])
    BY <2>4 DEF InOut
  <2>6. <<p[1], p[2]>> \in PixelsOf(out[i])
    BY <2>1, <2>5, ChangeInside
  <2>7. QED
    BY <2>1, <2>6
<1>8. \A r \in Regions : \E i \in DOMAIN out : r = PixelsOf(out[i])
  BY DEF Regions
<1>9. QED
  BY <1>1, <1>2, <1>3, <1>4, <1>6, <1>7, <1>8 DEF FB!IsRegions

-----------------------------------------------------------------------------
LEMMA InvariantHolds == Spec => []IInv
<1>1. Init => IInv
  BY InitIInv
<1>2. IInv /\ [Next]_vars => IInv'
  BY NextIInv
<1>3. QED
  BY <1>1, <1>2, PTL DEF Spec

(* The variables of diff_regions have their types, and no rectangle is      *)
(* pushed without a box: the branches for `right < left` are dead code.     *)
THEOREM TypeCorrect == Spec => []TypeOK
<1>1. IInv => TypeOK
  BY DEF IInv
<1>2. QED
  BY <1>1, InvariantHolds, PTL

(* What diff_regions returns is what the frame loop is modelled to get:     *)
(* disjoint rectangles inside the frame that cover every changed pixel.     *)
THEOREM RegionsAreReturned == Spec => []ReturnsRegions
<1>1. IInv => ReturnsRegions
  BY IInvReturnsRegions
<1>2. QED
  BY <1>1, InvariantHolds, PTL

(* No rectangle could be smaller on any side. *)
THEOREM RegionsAreTight == Spec => []Tight
<1>1. IInv => Tight
  BY IInvTight
<1>2. QED
  BY <1>1, InvariantHolds, PTL

(* More than the gap lies between two rectangles. *)
THEOREM RegionsAreApart == Spec => []Apart
<1>1. IInv => Apart
  BY IInvApart
<1>2. QED
  BY <1>1, InvariantHolds, PTL
=============================================================================
