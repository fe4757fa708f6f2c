----------------------------- MODULE DiffRegions ----------------------------
(***************************************************************************)
(* diff_regions and update_row_bounds (gutted-host-rs/src/main.rs:1118 and *)
(* 1166): the rectangles of a frame that go out when its content has       *)
(* changed.  One step is one iteration of a loop.  What the algorithm sees *)
(* of the two frames is, for every row, the columns in which they differ.  *)
(***************************************************************************)
EXTENDS Naturals, Sequences, FiniteSets, FiniteSetsExt

CONSTANTS
  Width, Height,  \* of the frames, in pixels
  Gap             \* clean rows tolerated inside a run (gap, 4)

ASSUME DiffAssumption == Width \in Nat \ {0} /\ Height \in Nat \ {0} /\ Gap \in Nat

Rows == 0 .. Height - 1

Cols == 0 .. Width - 1

VARIABLES
  diff,      \* the columns of a row in which the two frames differ
  pc,        \* the loop it is in
  y,         \* the row the loop looks at
  top, bot,  \* the run of rows being grown or bounded
  runs,      \* the runs found
  box,       \* the columns [left, right] that bound the rows looked at
  out        \* the rectangles found

vars == <<diff, pc, y, top, bot, runs, box, out>>

Dirty(r) == diff[r] # {}

DirtyRows == {r \in Rows : Dirty(r)}

FirstDirty == Min(DirtyRows)

LastDirty == Max(DirtyRows)

NoBox == [left |-> Width, right |-> 0]

(* Mutant of Rect: one column too many. *)
RectTooWide(b, t, u) ==
  [x |-> b.left, y |-> t, w |-> b.right - b.left + 2, h |-> u - t + 1]

Rect(b, t, u) == [x |-> b.left, y |-> t, w |-> b.right - b.left + 1, h |-> u - t + 1]

(* Mutant of UpdateRowBounds: what is found beyond the right bound is not   *)
(* taken.                                                                   *)
UpdateLosesRight(b, row) ==
  [left |-> Min({b.left} \cup row), right |-> IF b.left > b.right THEN Max(row) ELSE b.right]

(* update_row_bounds: once there is a box, only what is outside is scanned. *)
UpdateRowBounds(b, row) ==
  LET before == {c \in row : c < b.left}
      after == {c \in row : c > b.right}
  IN  IF b.left = 0 /\ b.right + 1 >= Width THEN b
      ELSE IF b.left > b.right THEN [left |-> Min(row), right |-> Max(row)]
      ELSE [left  |-> IF before # {} THEN Min(before) ELSE b.left,
            right |-> IF after # {} THEN Max(after) ELSE b.right]

-----------------------------------------------------------------------------
(* No row differs: there are no regions. *)
Identical ==
  /\ pc = "rows"
  /\ DirtyRows = {}
  /\ pc' = "done"
  /\ UNCHANGED <<diff, y, top, bot, runs, box, out>>

(* A quarter of the rows, or more: one rectangle around all of them. *)
FastPath ==
  /\ pc = "rows"
  /\ DirtyRows # {}
  /\ Cardinality(DirtyRows) * 4 >= Height
  /\ pc' = "bound"
  /\ top' = FirstDirty
  /\ bot' = LastDirty
  /\ y' = FirstDirty
  /\ UNCHANGED <<diff, runs, box, out>>

FewRows ==
  /\ pc = "rows"
  /\ DirtyRows # {}
  /\ Cardinality(DirtyRows) * 4 < Height
  /\ pc' = "seek"
  /\ y' = FirstDirty
  /\ UNCHANGED <<diff, top, bot, runs, box, out>>

(* The outer loop over the rows: a clean row is passed, a dirty one starts *)
(* a run.                                                                  *)
Seek ==
  /\ pc = "seek"
  /\ y <= LastDirty
  /\ y' = y + 1
  /\ IF Dirty(y)
       THEN pc' = "grow" /\ top' = y /\ bot' = y
       ELSE UNCHANGED <<pc, top, bot>>
  /\ UNCHANGED <<diff, runs, box, out>>

(* Mutant of Ahead: 1..gap in place of 1..=gap. *)
AheadTooNear == {k \in 1 .. Gap - 1 : y + k <= LastDirty /\ Dirty(y + k)}

(* The dirty rows within the gap ahead. *)
Ahead == {k \in 1 .. Gap : y + k <= LastDirty /\ Dirty(y + k)}

(* The inner loop: a dirty row belongs to the run, clean rows are skipped  *)
(* if a dirty one follows within the gap.                                  *)
GrowDirty ==
  /\ pc = "grow"
  /\ y <= LastDirty
  /\ Dirty(y)
  /\ bot' = y
  /\ y' = y + 1
  /\ UNCHANGED <<diff, pc, top, runs, box, out>>

(* Mutant of GrowOverGap: the row is not moved on. *)
GrowOnTheSpot ==
  /\ pc = "grow"
  /\ y <= LastDirty
  /\ ~Dirty(y)
  /\ Ahead # {}
  /\ UNCHANGED vars

GrowOverGap ==
  /\ pc = "grow"
  /\ y <= LastDirty
  /\ ~Dirty(y)
  /\ Ahead # {}
  /\ y' = y + Min(Ahead)
  /\ UNCHANGED <<diff, pc, top, bot, runs, box, out>>

RunEnds ==
  /\ pc = "grow"
  /\ y <= LastDirty => ~Dirty(y) /\ Ahead = {}
  /\ runs' = Append(runs, <<top, bot>>)
  /\ pc' = "seek"
  /\ UNCHANGED <<diff, y, top, bot, box, out>>

(* All runs are found: the first one left is bounded. *)
NextRun ==
  /\ pc \in {"seek", "push"}
  /\ pc = "seek" => y > LastDirty
  /\ runs # <<>>
  /\ top' = Head(runs)[1]
  /\ bot' = Head(runs)[2]
  /\ y' = Head(runs)[1]
  /\ runs' = Tail(runs)
  /\ box' = NoBox
  /\ pc' = "bound"
  /\ UNCHANGED <<diff, out>>

NoMoreRuns ==
  /\ pc = "push"
  /\ runs = <<>>
  /\ pc' = "done"
  /\ UNCHANGED <<diff, y, top, bot, runs, box, out>>

(* The loop over the rows of a run; it ends early when the box is as wide  *)
(* as the frame.                                                           *)
Bounded == y > bot \/ (box.left = 0 /\ box.right + 1 >= Width)

BoundRow ==
  /\ pc = "bound"
  /\ ~Bounded
  /\ box' = IF Dirty(y) THEN UpdateRowBounds(box, diff[y]) ELSE box
  /\ y' = y + 1
  /\ UNCHANGED <<diff, pc, top, bot, runs, out>>

(* A run starts with a dirty row, so there is a box (see TypeOK) and the     *)
(* branches of the code for `right < left` are never taken.                 *)
Push ==
  /\ pc = "bound"
  /\ Bounded
  /\ out' = Append(out, Rect(box, top, bot))
  /\ pc' = "push"
  /\ UNCHANGED <<diff, y, top, bot, runs, box>>

Init ==
  /\ diff \in [Rows -> SUBSET Cols]
  /\ pc = "rows"
  /\ y = 0
  /\ top = 0
  /\ bot = 0
  /\ runs = <<>>
  /\ box = NoBox
  /\ out = <<>>

Next ==
  \/ Identical
  \/ FastPath
  \/ FewRows
  \/ Seek
  \/ GrowDirty
  \/ GrowOverGap
  \/ RunEnds
  \/ NextRun
  \/ NoMoreRuns
  \/ BoundRow
  \/ Push

Spec == Init /\ [][Next]_vars

FairSpec == Spec /\ WF_vars(Next)

-----------------------------------------------------------------------------
PixelsOf(r) == (r.x .. r.x + r.w - 1) \X (r.y .. r.y + r.h - 1)

Differing == {p \in Cols \X Rows : p[1] \in diff[p[2]]}

(* Every rectangle there can be, as the set of its pixels. *)
AllRects ==
  {PixelsOf([x |-> a, y |-> b, w |-> c, h |-> d]) :
     a \in Cols, b \in Rows, c \in 1 .. Width, d \in 1 .. Height}

Regions == {PixelsOf(out[i]) : i \in DOMAIN out}

(* The frames as Framebuffers has them: content 1, and 2 where it changed. *)
FB == INSTANCE Framebuffers WITH
        Pixels <- Cols \X Rows, Rects <- AllRects, MaxRegions <- 16,
        NoFrame <- <<>>

Old == [p \in Cols \X Rows |-> 1]

New == [p \in Cols \X Rows |-> IF p \in Differing THEN 2 ELSE 1]

(* Every variable has its type, and a run that has been bounded has a box  *)
(* (main.rs:1213 and 1259).                                                *)
TypeOK ==
  /\ diff \in [Rows -> SUBSET Cols]
  /\ pc \in {"rows", "seek", "grow", "bound", "push", "done"}
  /\ y \in 0 .. Height
  /\ top \in Rows /\ bot \in Rows
  /\ runs \in Seq(Rows \X Rows)
  /\ box = NoBox \/ (box.left \in Cols /\ box.right \in Cols /\ box.left <= box.right)
  /\ pc = "push" => box # NoBox
  /\ out \in Seq([x : Cols, y : Rows, w : 1 .. Width, h : 1 .. Height])

(* The rectangles returned are what the frame loop is modelled to get:     *)
(* disjoint, inside the frame, none without a change, and together over    *)
(* every pixel that changed, although only part of each row is compared.   *)
ReturnsRegions == pc = "done" => FB!IsRegions(Regions, Old, New)

(* No rectangle is larger than it has to be: a change touches each side.   *)
Tight ==
  \A i \in DOMAIN out :
    LET r == out[i]
        inside == Differing \cap PixelsOf(r)
    IN  /\ {r.x, r.x + r.w - 1} \subseteq {p[1] : p \in inside}
        /\ {r.y, r.y + r.h - 1} \subseteq {p[2] : p \in inside}

(* Rectangles follow each other from top to bottom with more than Gap clean *)
(* rows between them: what is closer has been put together.                 *)
Apart ==
  \A i \in 1 .. Len(out) - 1 : out[i + 1].y > out[i].y + out[i].h + Gap

(* The loops end, although the inner one moves y by more than one row. *)
Returns == <>(pc = "done")

=============================================================================
