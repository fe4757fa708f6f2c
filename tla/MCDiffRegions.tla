---------------------------- MODULE MCDiffRegions ---------------------------
(***************************************************************************)
(* DiffRegions for every pair of frames that differ in at most MaxDirty    *)
(* rows.                                                                   *)
(***************************************************************************)
EXTENDS DiffRegions

CONSTANT MaxDirty

(* The frames differ in the rows of D, there in the columns d. *)
FewDirtyRows ==
  \E k \in 0 .. MaxDirty : \E D \in kSubset(k, Rows) :
    \E d \in [D -> SUBSET Cols \ {{}}] :
      diff = [r \in Rows |-> IF r \in D THEN d[r] ELSE {}]

MCInit ==
  /\ FewDirtyRows
  /\ pc = "rows"
  /\ y = 0
  /\ top = 0
  /\ bot = 0
  /\ runs = <<>>
  /\ box = NoBox
  /\ out = <<>>

MCSpec == MCInit /\ [][Next]_vars /\ WF_vars(Next)

=============================================================================
