-------------------------- MODULE MCWebSocketWriter -------------------------
(***************************************************************************)
(* WebSocketWriter on a column of pixels, with bounds on how much WebKit   *)
(* renders and how much goes over the bus.                                 *)
(***************************************************************************)
EXTENDS WebSocketWriter

CONSTANTS
  MaxStamp,    \* frames WebKit renders
  MaxControl,  \* control messages sent
  Height       \* pixels of the column

ColumnPixels == 1 .. Height

ColumnGeometries == {ColumnPixels}

ColumnRects == {a .. b : a, b \in ColumnPixels} \ {{}}

ControlSent == Cardinality({i \in DOMAIN log : log[i].kind = "ctl"})

MCNext ==
  \/ /\ stamp < MaxStamp
     /\ \E g \in Geometries, C \in SUBSET Pixels : TakeFrame(g, C)
     /\ UNCHANGED queued
  \/ /\ ControlSent < MaxControl
     /\ \E force \in BOOLEAN : TabEvent(force)
     /\ UNCHANGED queued
  \/ FinishFrame /\ UNCHANGED queued
  \/ \E s \in Subscribers : WsSubscriberStep(s)

MCSpec == WsInit /\ [][MCNext]_wsVars

MCFairSpec == MCSpec /\ WsFairness

=============================================================================
