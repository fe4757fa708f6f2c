---------------------------- MODULE FramePipeline ---------------------------
(***************************************************************************)
(* The path of a framebuffer from WebKit to the subscribers while one tab  *)
(* stays active: the frame loop of HostState::new (main.rs:226-364), the   *)
(* last_frames entry of the active tab, the bus and its subscribers.       *)
(* Switching tabs is the subject of HostTabs.                              *)
(*                                                                         *)
(* The frame loop is one task, so its steps follow each other; the         *)
(* runtime is multi-threaded, so a subscriber may step between any two.    *)
(***************************************************************************)
EXTENDS FrameBus

CONSTANT Geometries   \* the framebuffer sizes: sets of pixel positions

ASSUME PipelineAssumption == Geometries \subseteq SUBSET Pixels

VARIABLES
  entry,       \* last_frames.get(active tab)
  loop,        \* where the frame loop stands
  prev,        \* what the loop removed from last_frames
  incoming,    \* the frame the loop is working on
  mustFull,    \* must_full: the frame has to go out whole
  forceFull,   \* force_full contains the active tab
  pending,     \* the regions of `incoming` still to be published
  stamp        \* the stamp of the newest content WebKit has rendered

loopVars == <<entry, loop, prev, incoming, mustFull, forceFull, pending, stamp>>

vars == <<busVars, loopVars>>

(* The framebuffer the subscribers are being brought to. *)
Shown == IF loop = "taken" THEN prev ELSE entry

-----------------------------------------------------------------------------
(* same_geom *)
SameGeometry == prev # NoFrame /\ ~mustFull /\ Geometry(prev) = Geometry(incoming)

(* The loop receives a batch's last frame of the active tab, takes the     *)
(* force_full mark and removes the entry of the tab from last_frames.      *)
TakeFrame(g, C) ==
  /\ loop = "idle"
  /\ incoming' = Rendered(g, C, entry, stamp + 1)
  /\ stamp' = stamp + 1
  /\ mustFull' = forceFull
  /\ forceFull' = FALSE
  /\ prev' = entry
  /\ entry' = NoFrame
  /\ loop' = "taken"
  /\ UNCHANGED <<busVars, pending>>

(* A first frame, another size or a force_full mark: the frame is put into *)
(* last_frames and goes out whole.                                         *)
StoreFull ==
  /\ loop = "taken"
  /\ ~SameGeometry
  /\ entry' = incoming
  /\ pending' = {RawFrame(incoming)}
  /\ loop' = "publish"
  /\ UNCHANGED <<busVars, prev, incoming, mustFull, forceFull, stamp>>

(* The frame is put into last_frames and its damage over the one before,   *)
(* the regions R, goes out.                                                *)
StoreDiff(R) ==
  /\ loop = "taken"
  /\ SameGeometry
  /\ IsRegions(R, prev, incoming)
  /\ entry' = incoming
  /\ pending' = Damage(R, incoming)
  /\ loop' = "publish"
  /\ UNCHANGED <<busVars, prev, incoming, mustFull, forceFull, stamp>>

(* One publish of the loop. The regions of a frame are disjoint, so the    *)
(* order in which diff_regions lists them makes no difference.             *)
PublishNext(m) ==
  /\ loop = "publish"
  /\ m \in pending
  /\ log' = Published(m)
  /\ pending' = pending \ {m}
  /\ UNCHANGED <<entry, loop, prev, incoming, mustFull, forceFull, stamp>>
  /\ UNCHANGED <<task, cursor, hand, screen, told, since, skipped, torn>>

FrameDone ==
  /\ loop = "publish"
  /\ pending = {}
  /\ loop' = "idle"
  /\ prev' = NoFrame
  /\ incoming' = NoFrame
  /\ mustFull' = FALSE
  /\ UNCHANGED <<busVars, entry, forceFull, pending, stamp>>

(* A control message of the active tab, at any place of the loop: the      *)
(* audio thread and a switch of tabs publish beside it. The loop's own,    *)
(* load, title, url and cursor events, come between frames; a load that    *)
(* starts or commits and a new url (force) also ask for a full frame.  A   *)
(* title or url sends two messages, TabTitle and Title or TabUrl and       *)
(* UrlChanged: two of these steps.                                         *)
TabEvent(force) ==
  /\ force => loop = "idle"
  /\ log' = Published(Control)
  /\ forceFull' = (forceFull \/ force)
  /\ UNCHANGED <<entry, loop, prev, incoming, mustFull, pending, stamp>>
  /\ UNCHANGED <<task, cursor, hand, screen, told, since, skipped, torn>>

SubscriberStep(s) ==
  /\ \/ Subscribe(s)
     \/ Snapshot(s, entry, Shown)
     \/ Recv(s)
     \/ RecvLagged(s)
     \/ Merge(s)
     \/ Disconnect(s)
  /\ UNCHANGED loopVars

-----------------------------------------------------------------------------
Init ==
  /\ BusInit
  /\ entry = NoFrame
  /\ loop = "idle"
  /\ prev = NoFrame
  /\ incoming = NoFrame
  /\ mustFull = FALSE
  /\ forceFull = FALSE
  /\ pending = {}
  /\ stamp = 0

LoopStep ==
  \/ \E g \in Geometries, C \in SUBSET Pixels : TakeFrame(g, C)
  \/ StoreFull
  \/ \E R \in SUBSET Rects : StoreDiff(R)
  \/ \E m \in pending : PublishNext(m)
  \/ FrameDone
  \/ \E force \in BOOLEAN : TabEvent(force)

Next == LoopStep \/ \E s \in Subscribers : SubscriberStep(s)

Spec == Init /\ [][Next]_vars

(* What the loop does with a frame it has taken; nothing here waits. *)
FinishFrame ==
  \/ StoreFull
  \/ \E R \in SUBSET Rects : StoreDiff(R)
  \/ \E m \in pending : PublishNext(m)
  \/ FrameDone

-----------------------------------------------------------------------------
(* Every variable has its type. *)
TypeOK ==
  /\ BusTypeOK
  /\ entry \in Frame \cup {NoFrame}
  /\ loop \in {"idle", "taken", "publish"}
  /\ prev \in Frame \cup {NoFrame}
  /\ incoming \in Frame \cup {NoFrame}
  /\ mustFull \in BOOLEAN
  /\ forceFull \in BOOLEAN
  /\ pending \subseteq Item
  /\ stamp \in Nat

(* The positions of the log that will still be written to s, or replaced   *)
(* by a later one.                                                         *)
Backlog(s) ==
  (cursor[s] .. Len(log)) \cup (IF hand[s] = 0 THEN {} ELSE {hand[s]})

Covers(i, p) == p \in log[i].px

IsLastCover(s, i, p) ==
  /\ Covers(i, p)
  /\ \A j \in Backlog(s) : j > i => ~Covers(j, p)

ToBePublished(p) == \E m \in pending : p \in m.px

(* Whatever a subscriber coalesces away, the last message of its backlog   *)
(* that repaints a pixel carries the content the host has for it, unless   *)
(* the loop is about to publish that pixel again (main.rs:668-713 against  *)
(* main.rs:237-311).                                                       *)
BacklogFresh ==
  \A s \in Subscribers, p \in Pixels : \A i \in Backlog(s) :
    Attached(s) /\ IsLastCover(s, i, p) /\ ~ToBePublished(p)
      => log[i].pix[p] = Shown[p]

(* A pixel nothing in the backlog repaints is already right on the screen, *)
(* for every subscriber that has not been left torn.                       *)
Untouched(s, p) ==
  /\ \A i \in Backlog(s) : ~Covers(i, p)
  /\ ~ToBePublished(p)

ScreenFresh ==
  \A s \in Subscribers, p \in Pixels :
    task[s] \in {"recv", "merge"} /\ ~torn[s] /\ Shown # NoFrame /\ Untouched(s, p)
      => screen[s][p] = Shown[p]

(* The subscriber has read everything and the loop published everything. *)
Settled(s) ==
  /\ task[s] = "recv"
  /\ cursor[s] = Len(log) + 1
  /\ pending = {}

(* A subscriber with nothing left to read shows exactly the framebuffer    *)
(* the host holds: coalescing, damage tracking and the snapshots taken on  *)
(* joining and after a lag add up to the same picture.                     *)
Converged ==
  \A s \in Subscribers :
    Settled(s) /\ ~torn[s] /\ Shown # NoFrame => screen[s] = Shown

(* Control messages are never coalesced away, repeated or reordered: a     *)
(* subscriber has been told, in the order of the bus, every one sent since *)
(* it subscribed, except the one in hand and those a lag skipped.          *)
ControlComplete ==
  \A s \in Subscribers :
    /\ \A i, j \in DOMAIN told[s] : i < j => told[s][i] < told[s][j]
    /\ Attached(s) =>
         {told[s][i] : i \in DOMAIN told[s]} =
           {i \in since[s] .. (cursor[s] - 1) :
              log[i].kind = "ctl" /\ i # hand[s] /\ i \notin skipped[s]}

(* When WebKit stops rendering, every subscriber that stays connected and  *)
(* was not left torn comes to show the framebuffer the host holds (under   *)
(* the fairness of WebSocketWriter).                                       *)
CatchesUp ==
  \A s \in Subscribers :
    []<>(~Attached(s) \/ torn[s] \/ Shown = NoFrame \/ screen[s] = Shown)

-----------------------------------------------------------------------------
(* The pipeline implements FrameDelivery. *)

(* The message in hand has been taken from the bus but not delivered. *)
Delivered(s) == IF hand[s] = 0 THEN cursor[s] - 1 ELSE hand[s] - 1

Delivery == INSTANCE FrameDelivery WITH
  picture <- Shown,
  on <- [s \in Subscribers |-> Attached(s)],
  done <- [s \in Subscribers |-> Delivered(s)]

(* The writer's two loops, the lags they meet and the snapshots they take   *)
(* give every subscriber what FrameDelivery promises: the messages in their *)
(* order, at most once, each left out only where the next one hides it or   *)
(* by an overrun, and between them only the picture the host holds          *)
(* (main.rs:666-724, with the entry main.rs:237-311 takes out and puts      *)
(* back).                                                                   *)
ImplementsDelivery == Delivery!Spec

-----------------------------------------------------------------------------
(* What the repository says of the program and the runs refute. *)

(* "video subscriber lagged — resyncing via immediate FULL snapshot"        *)
(* (main.rs:715): whenever the bus has made a subscriber skip messages, its *)
(* writer goes on to take a snapshot.                                       *)
LagIsResynced ==
  [][\A s \in Subscribers :
       Attached(s)' /\ skipped'[s] # skipped[s] => task'[s] = "snapshot"]_vars

=============================================================================
