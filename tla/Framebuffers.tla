---------------------------- MODULE Framebuffers ----------------------------
(***************************************************************************)
(* Framebuffers, the damage between two of them, and the messages of the   *)
(* frame bus (gutted-host-rs/src/main.rs; the message types are those of   *)
(* gutted-proto/src/lib.rs).                                               *)
(***************************************************************************)
EXTENDS Naturals, Sequences, FiniteSets

CONSTANTS
  Pixels,      \* the pixel positions of the largest framebuffer
  Rects,       \* the rectangles a subframe may cover
  MaxRegions,  \* more regions than this are sent as one full frame (16)
  NoFrame      \* the absence of an entry in last_frames

(***************************************************************************)
(* A framebuffer assigns to every position inside its geometry a stamp     *)
(* that identifies the content of the pixel, and 0 to the positions it     *)
(* does not reach.                                                         *)
(***************************************************************************)
Frame == [Pixels -> Nat]

Blank == [p \in Pixels |-> 0]

Geometry(f) == {p \in Pixels : f[p] # 0}

ASSUME FramebufferAssumption ==
  /\ Rects \subseteq SUBSET Pixels
  /\ MaxRegions \in Nat
  /\ NoFrame \notin Frame

-----------------------------------------------------------------------------
(* The messages on the bus. px is the region a message repaints, pix the    *)
(* frame it repaints it from.  How a payload is compressed is left out.     *)

Item == [kind : {"raw", "sub", "ctl"}, px : SUBSET Pixels, pix : Frame]

RawFrame(f) == [kind |-> "raw", px |-> Pixels, pix |-> f]

Subframe(r, f) == [kind |-> "sub", px |-> r, pix |-> f]

Control == [kind |-> "ctl", px |-> {}, pix |-> Blank]

(* What a message does to the picture of the client. *)
Paint(scr, m) == [p \in Pixels |-> IF p \in m.px THEN m.pix[p] ELSE scr[p]]

(* Mutants of Supersedes: any overlap is enough; a raw frame replaces anything. *)
SupersedesOverlapping(newer, item) ==
  \/ item.kind \in {"raw", "sub"} /\ newer.kind = "raw"
  \/ item.kind = "sub" /\ newer.kind = "sub" /\ item.px \cap newer.px # {}

SupersedesControl(newer, item) ==
  \/ newer.kind = "raw"
  \/ item.kind = "sub" /\ newer.kind = "sub" /\ item.px \subseteq newer.px

(* The match of a writer's inner loop: may `newer` replace the item in hand? *)
Supersedes(newer, item) ==
  \/ /\ item.kind \in {"raw", "sub"}
     /\ newer.kind = "raw"
  \/ /\ item.kind = "sub"
     /\ newer.kind = "sub"
     /\ item.px \subseteq newer.px

-----------------------------------------------------------------------------
(* diff_regions and the choice between one full frame and subframes. *)

Changed(f, g) == {p \in Pixels : f[p] # g[p]}

(* What diff_regions may return: disjoint rectangles inside the frame that *)
(* together cover every changed pixel, none of them without a change.      *)
IsRegions(R, f, g) ==
  /\ R \subseteq Rects
  /\ \A r \in R : r \subseteq Geometry(g) /\ r \cap Changed(f, g) # {}
  /\ \A r, q \in R : r # q => r \cap q = {}
  /\ Changed(f, g) \subseteq UNION R

(* total_px * 10 >= full_px * 8 || regions.len() > 16 *)
TooMuch(R, g) ==
  \/ Cardinality(UNION R) * 10 >= Cardinality(Geometry(g)) * 8
  \/ Cardinality(R) > MaxRegions

(* Mutant of Damage: the branch of the whole frame stores it but forgets to *)
(* publish it.                                                              *)
DamageUnlessTooMuch(R, f) ==
  IF R # {} /\ TooMuch(R, f) THEN {} ELSE {Subframe(r, f) : r \in R}

(* What goes out for the regions R of frame f: nothing if nothing changed,  *)
(* the whole frame if it is too much.                                       *)
Damage(R, f) ==
  IF R # {} /\ TooMuch(R, f) THEN {RawFrame(f)} ELSE {Subframe(r, f) : r \in R}

(* WebKit has rendered a frame of geometry g over the frame `base`: the     *)
(* pixels of C, and those `base` lacks, get content that was not seen       *)
(* before.                                                                  *)
Rendered(g, C, base, stamp) ==
  [p \in Pixels |->
     CASE p \notin g -> 0
       [] p \in g /\ (p \in C \/ base = NoFrame) -> stamp
       [] OTHER -> IF base[p] = 0 THEN stamp ELSE base[p]]

=============================================================================
