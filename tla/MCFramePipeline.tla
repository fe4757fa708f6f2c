--------------------------- MODULE MCFramePipeline --------------------------
(***************************************************************************)
(* FramePipeline on a column of pixels, with bounds on how much WebKit     *)
(* renders and how much goes over the bus.                                 *)
(***************************************************************************)
EXTENDS FramePipeline

CONSTANTS
  MaxStamp,    \* frames WebKit renders
  MaxControl,  \* control messages sent
  Height       \* pixels of the column

ColumnPixels == 1 .. Height

(* A resize leaves the upper part of the column. *)
ColumnGeometries == {ColumnPixels, 1 .. (Height - 1)}

ColumnRects == {a .. b : a, b \in ColumnPixels} \ {{}}

ControlSent == Cardinality({i \in DOMAIN log : log[i].kind = "ctl"})

MCNext ==
  \/ /\ stamp < MaxStamp
     /\ \E g \in Geometries, C \in SUBSET Pixels : TakeFrame(g, C)
  \/ /\ ControlSent < MaxControl
     /\ \E force \in BOOLEAN : TabEvent(force)
  \/ FinishFrame
  \/ \E s \in Subscribers : SubscriberStep(s)

MCSpec == Init /\ [][MCNext]_vars

=============================================================================
