----------------------------- MODULE MCHostTabs -----------------------------
(***************************************************************************)
(* HostTabs with two pixels, and bounds on what clients ask and WebKit     *)
(* sends.                                                                  *)
(***************************************************************************)
EXTENDS HostTabs, TLC

CONSTANTS
  MaxStamp,    \* frames, titles and urls WebKit sends, and tabs created
  MaxQueue,    \* frames that wait in the channel
  MaxRequests  \* requests of all clients

(* Neither the connections nor the pixels are told apart: every set of     *)
(* pixels is a rectangle.                                                  *)
Symmetry == Permutations(Conns) \cup Permutations(Pixels)

AllRects == SUBSET Pixels \ {{}}

VARIABLE asked   \* how many requests there have been

MCInit == Init /\ asked = 0

MCNext ==
  \/ /\ stamp < MaxStamp
     /\ Len(frames) < MaxQueue
     /\ WebKit
     /\ UNCHANGED asked
  \/ stamp < MaxStamp /\ Event /\ UNCHANGED asked
  \/ (Start \/ RunPosted) /\ UNCHANGED asked
  \/ LoopStep /\ UNCHANGED asked
  \/ StoreMeta /\ UNCHANGED asked
  \/ \E c \in Conns : HandlerStep(c) /\ UNCHANGED asked
  \/ \E c \in Conns : Locking(c) /\ UNCHANGED asked
  \/ /\ asked < MaxRequests
     /\ asked' = asked + 1
     /\ \E c \in Conns, t \in Tabs : Ask(c, t)

mcVars == <<vars, asked>>

MCSpec == MCInit /\ [][MCNext]_mcVars

MCFairSpec == MCSpec /\ Fairness

=============================================================================
