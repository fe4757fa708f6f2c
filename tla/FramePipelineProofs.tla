------------------------- MODULE FramePipelineProofs ------------------------
(***************************************************************************)
(* Proofs about FramePipeline and, at the end, about WebSocketWriter, for  *)
(* every set of pixels, of subscribers, of rectangles and of geometries,   *)
(* every capacity of the channel and every number of frames and messages.  *)
(***************************************************************************)
EXTENDS WebSocketWriter, TLAPS

-----------------------------------------------------------------------------
(* Type correctness. *)

LEMMA BlankIsFrame == Blank \in Frame
BY DEF Blank, Frame

LEMMA PaintIsFrame ==
  ASSUME NEW scr \in Frame, NEW m \in Item
  PROVE  Paint(scr, m) \in Frame
BY DEF Frame, Item, Paint

LEMMA RenderedIsFrame ==
  ASSUME NEW g, NEW C, NEW base \in Frame \cup {NoFrame}, NEW n \in Nat
  PROVE  Rendered(g, C, base, n) \in Frame
<1> SUFFICES ASSUME NEW p \in Pixels
             PROVE  Rendered(g, C, base, n)[p] \in Nat
    BY DEF Rendered, Frame
<1>1. CASE p \notin g
  BY <1>1 DEF Rendered
<1>2. CASE p \in g /\ (p \in C \/ base = NoFrame)
  BY <1>2 DEF Rendered
<1>3. CASE p \in g /\ ~(p \in C \/ base = NoFrame)
  <2>1. base[p] \in Nat
    BY <1>3 DEF Frame
  <2>2. Rendered(g, C, base, n)[p] = IF base[p] = 0 THEN n ELSE base[p]
    BY <1>3 DEF Rendered
  <2>3. QED
    BY <2>1, <2>2
<1>4. QED
  BY <1>1, <1>2, <1>3

LEMMA MessagesAreItems ==
  /\ Control \in Item
  /\ \A f \in Frame : RawFrame(f) \in Item
  /\ \A f \in Frame, r \in SUBSET Pixels : Subframe(r, f) \in Item
<1>1. Control \in Item
  BY BlankIsFrame DEF Control, Item
<1>2. \A f \in Frame : RawFrame(f) \in Item
  BY DEF RawFrame, Item
<1>3. \A f \in Frame, r \in SUBSET Pixels : Subframe(r, f) \in Item
  BY DEF Subframe, Item
<1>4. QED
  BY <1>1, <1>2, <1>3

(* While the frame loop holds a frame, it is the frame in `incoming`. *)
LoopTypeOK ==
  /\ loop = "taken" => entry = NoFrame
  /\ loop # "idle" => incoming \in Frame
  /\ loop = "publish" => entry = incoming
  /\ loop # "publish" => pending = {}

LEMMA PublishedTypeOK ==
  ASSUME log \in Seq(Item), NEW m \in Item
  PROVE  Published(m) \in Seq(Item)
BY DEF Published

LEMMA InitTypeOK == Init => TypeOK /\ LoopTypeOK
<1> SUFFICES ASSUME Init
             PROVE  TypeOK /\ LoopTypeOK
    OBVIOUS
<1>1. BusTypeOK
  <2>1. log \in Seq(Item) /\ told \in [Subscribers -> Seq(Nat)]
    BY DEF Init, BusInit
  <2>2. screen \in [Subscribers -> Frame]
    BY BlankIsFrame DEF Init, BusInit
  <2>3. QED
    BY <2>1, <2>2 DEF Init, BusInit, BusTypeOK
<1>2. QED
  BY <1>1 DEF Init, TypeOK, LoopTypeOK

LEMMA LoopStepTypeOK == TypeOK /\ LoopTypeOK /\ LoopStep => TypeOK' /\ LoopTypeOK'
<1> SUFFICES ASSUME TypeOK, LoopTypeOK, LoopStep
             PROVE  TypeOK' /\ LoopTypeOK'
    OBVIOUS
<1> USE DEF TypeOK, BusTypeOK, LoopTypeOK
<1>1. ASSUME NEW g \in Geometries, NEW C \in SUBSET Pixels, TakeFrame(g, C)
      PROVE  TypeOK' /\ LoopTypeOK'
  <2>1. incoming' \in Frame
    BY <1>1, RenderedIsFrame DEF TakeFrame
  <2>2. BusTypeOK'
    BY <1>1 DEF TakeFrame, busVars
  <2>3. mustFull' \in BOOLEAN /\ forceFull' \in BOOLEAN
    BY <1>1 DEF TakeFrame
  <2>4. stamp' \in Nat /\ entry' = NoFrame /\ prev' \in Frame \cup {NoFrame}
    BY <1>1 DEF TakeFrame
  <2>5. loop' = "taken" /\ pending' = {}
    BY <1>1 DEF TakeFrame
  <2>6. QED
    BY <2>1, <2>2, <2>3, <2>4, <2>5
<1>2. CASE StoreFull
  BY <1>2, MessagesAreItems DEF StoreFull, busVars
<1>3. ASSUME NEW R \in SUBSET Rects, StoreDiff(R)
      PROVE  TypeOK' /\ LoopTypeOK'
  <2>1. RawFrame(incoming) \in Item /\ \A r \in R : Subframe(r, incoming) \in Item
    BY <1>3, MessagesAreItems, FramebufferAssumption DEF StoreDiff
  <2>2. pending' \subseteq Item
    BY <1>3, <2>1 DEF StoreDiff, Damage
  <2>3. QED
    BY <1>3, <2>2 DEF StoreDiff, busVars
<1>4. ASSUME NEW m \in pending, PublishNext(m)
      PROVE  TypeOK' /\ LoopTypeOK'
  BY <1>4, PublishedTypeOK DEF PublishNext
<1>5. CASE FrameDone
  BY <1>5 DEF FrameDone, busVars
<1>6. ASSUME NEW force \in BOOLEAN, TabEvent(force)
      PROVE  TypeOK' /\ LoopTypeOK'
  BY <1>6, PublishedTypeOK, MessagesAreItems DEF TabEvent
<1>7. QED
  BY <1>1, <1>2, <1>3, <1>4, <1>5, <1>6 DEF LoopStep

-----------------------------------------------------------------------------
(* The read positions, and what the messages on the bus look like. *)

(* A writer has a message in hand exactly while it runs its inner loop. *)
ReaderOK ==
  \A s \in Subscribers :
    /\ cursor[s] <= Len(log) + 1
    /\ task[s] = "merge" => hand[s] \in 1 .. (cursor[s] - 1)
    /\ task[s] # "merge" => hand[s] = 0

(* A raw frame repaints every pixel; what is pending is of the stored frame. *)
MessagesOK ==
  /\ \A i \in DOMAIN log : log[i].kind = "raw" => log[i].px = Pixels
  /\ \A m \in pending : (m.kind = "raw" => m.px = Pixels) /\ m.pix = entry

Shape == TypeOK /\ LoopTypeOK /\ ReaderOK /\ MessagesOK

LEMMA InitShape == Init => Shape
<1> SUFFICES ASSUME Init
             PROVE  Shape
    OBVIOUS
<1>1. TypeOK /\ LoopTypeOK
  BY InitTypeOK
<1>2. ReaderOK
  BY DEF Init, BusInit, ReaderOK
<1>3. MessagesOK
  BY DEF Init, BusInit, MessagesOK
<1>4. QED
  BY <1>1, <1>2, <1>3 DEF Shape

(* What a publish does to the log. *)
LEMMA PublishedLog ==
  ASSUME log \in Seq(Item), NEW m \in Item
  PROVE  /\ Receivers = {} => Published(m) = log
         /\ Receivers # {} => /\ Len(Published(m)) = Len(log) + 1
                              /\ Published(m)[Len(log) + 1] = m
         /\ Len(log) <= Len(Published(m))
         /\ \A i \in 1 .. Len(log) : Published(m)[i] = log[i]
BY DEF Published

LEMMA PublishShape ==
  ASSUME Shape, NEW m \in Item, m.kind = "raw" => m.px = Pixels,
         log' = Published(m), pending' \subseteq pending,
         UNCHANGED <<entry, task, cursor, hand>>
  PROVE  ReaderOK' /\ MessagesOK'
<1> USE DEF Shape, TypeOK, BusTypeOK
<1>1. Len(log) \in Nat /\ Len(log') \in Nat /\ Len(log) <= Len(log')
  BY PublishedLog, PublishedTypeOK
<1>2. ReaderOK'
  BY <1>1 DEF ReaderOK
<1>3. ASSUME NEW i \in DOMAIN log', log'[i].kind = "raw"
      PROVE  log'[i].px = Pixels
  <2>1. CASE i \in 1 .. Len(log)
    BY <2>1, <1>3, PublishedLog DEF MessagesOK
  <2>2. CASE i \notin 1 .. Len(log)
    <3>1. i \in 1 .. Len(log')
      BY PublishedTypeOK
    <3>2. Receivers # {}
      BY <2>2, <3>1, PublishedLog
    <3>3. Len(log') = Len(log) + 1 /\ log'[Len(log) + 1] = m
      BY <3>2, PublishedLog
    <3>4. i = Len(log) + 1
      BY <2>2, <3>1, <3>3, <1>1
    <3>5. QED
      BY <3>3, <3>4, <1>3
  <2>3. QED
    BY <2>1, <2>2
<1>4. QED
  BY <1>2, <1>3 DEF MessagesOK

LEMMA LoopStepShape == Shape /\ LoopStep => Shape'
<1> SUFFICES ASSUME Shape, LoopStep
             PROVE  Shape'
    OBVIOUS
<1> USE DEF Shape
<1>1. TypeOK' /\ LoopTypeOK'
  BY LoopStepTypeOK
<1>2. ReaderOK' /\ MessagesOK'
  <2>1. ASSUME NEW g \in Geometries, NEW C \in SUBSET Pixels, TakeFrame(g, C)
        PROVE  ReaderOK' /\ MessagesOK'
    BY <2>1 DEF TakeFrame, busVars, ReaderOK, MessagesOK, LoopTypeOK
  <2>2. CASE StoreFull
    BY <2>2 DEF StoreFull, busVars, ReaderOK, MessagesOK, RawFrame
  <2>3. ASSUME NEW R \in SUBSET Rects, StoreDiff(R)
        PROVE  ReaderOK' /\ MessagesOK'
    <3>1. \A m \in pending' : (m.kind = "raw" => m.px = Pixels) /\ m.pix = entry'
      BY <2>3 DEF StoreDiff, Damage, RawFrame, Subframe
    <3>2. QED
      BY <2>3, <3>1 DEF StoreDiff, busVars, ReaderOK, MessagesOK
  <2>4. ASSUME NEW m \in pending, PublishNext(m)
        PROVE  ReaderOK' /\ MessagesOK'
    BY <2>4, PublishShape DEF PublishNext, MessagesOK, TypeOK
  <2>5. CASE FrameDone
    BY <2>5 DEF FrameDone, busVars, ReaderOK, MessagesOK
  <2>6. ASSUME NEW force \in BOOLEAN, TabEvent(force)
        PROVE  ReaderOK' /\ MessagesOK'
    <3>1. Control \in Item /\ Control.kind # "raw"
      BY MessagesAreItems DEF Control
    <3>2. QED
      BY <2>6, <3>1, PublishShape DEF TabEvent
  <2>7. QED
    BY <2>1, <2>2, <2>3, <2>4, <2>5, <2>6 DEF LoopStep
<1>3. QED
  BY <1>1, <1>2

LEMMA OldestInLog == log \in Seq(Item) => Oldest \in Nat \ {0} /\ Oldest <= Len(log) + 1
BY BusAssumption DEF Oldest

(* Writing the item in hand keeps the types of what it changes. *)
LEMMA WriteHandTypeOK ==
  ASSUME Shape, NEW s \in Subscribers, task[s] = "merge", WriteHand(s)
  PROVE  /\ screen' \in [Subscribers -> Frame]
         /\ told' \in [Subscribers -> Seq(Nat)]
         /\ log[hand[s]] \in Item
<1> USE DEF Shape, TypeOK, BusTypeOK
<1>1. log[hand[s]] \in Item
  BY DEF ReaderOK
<1>2. Paint(screen[s], log[hand[s]]) \in Frame
  BY <1>1, PaintIsFrame
<1>3. screen' \in [Subscribers -> Frame]
  BY <1>2 DEF WriteHand
<1>4. Append(told[s], hand[s]) \in Seq(Nat)
  OBVIOUS
<1>5. told' \in [Subscribers -> Seq(Nat)]
  BY <1>4 DEF WriteHand
<1>6. QED
  BY <1>1, <1>3, <1>5

LEMMA JumpTypeOK ==
  ASSUME Shape, NEW s \in Subscribers, JumpToOldest(s)
  PROVE  /\ cursor' \in [Subscribers -> Nat \ {0}]
         /\ skipped' \in [Subscribers -> SUBSET Nat]
<1> USE DEF Shape, TypeOK, BusTypeOK
<1>1. cursor' \in [Subscribers -> Nat \ {0}]
  BY OldestInLog DEF JumpToOldest
<1>2. skipped[s] \cup (cursor[s] .. (Oldest - 1)) \in SUBSET Nat
  BY OldestInLog
<1>3. QED
  BY <1>1, <1>2 DEF JumpToOldest

LEMMA SubscriberStepShape ==
  ASSUME Shape, NEW s \in Subscribers, SubscriberStep(s)
  PROVE  Shape'
<1> USE DEF Shape
<1>1. UNCHANGED loopVars /\ log' = log
  BY DEF SubscriberStep, Subscribe, Snapshot, Recv, RecvLagged, Merge, Supersede,
         WriteAndTake, Drain, DrainLagged, Disconnect
<1>2. BusTypeOK' /\ ReaderOK'
  <2> USE DEF TypeOK, BusTypeOK, ReaderOK
  <2>1. CASE Subscribe(s)
    BY <2>1, <1>1 DEF Subscribe
  <2>2. CASE Snapshot(s, entry, Shown)
    <3>1. /\ task' = [task EXCEPT ![s] = "recv"]
          /\ UNCHANGED <<log, cursor, hand, told, since, skipped>>
      BY <2>2 DEF Snapshot
    <3>2. torn' \in [Subscribers -> BOOLEAN]
      BY <2>2 DEF Snapshot
    <3>3. screen' \in [Subscribers -> Frame]
      BY <2>2 DEF Snapshot
    <3>4. QED
      BY <2>2, <3>1, <3>2, <3>3 DEF Snapshot
  <2>3. CASE Recv(s)
    BY <2>3, <1>1 DEF Recv, CanRead
  <2>4. CASE RecvLagged(s)
    BY <2>4, <1>1, JumpTypeOK, OldestInLog DEF RecvLagged, JumpToOldest
  <2>5. CASE Supersede(s)
    <3>1. cursor[s] \in Nat \ {0} /\ cursor[s] + 1 \in Nat \ {0} /\ Len(log) \in Nat
      OBVIOUS
    <3>2. BusTypeOK'
      BY <2>5, <1>1, <3>1 DEF Supersede
    <3>3. ReaderOK'
      BY <2>5, <1>1, <3>1 DEF Supersede, CanRead
    <3>4. QED
      BY <3>2, <3>3
  <2>6. CASE WriteAndTake(s)
    <3>1. cursor[s] \in Nat \ {0} /\ cursor[s] + 1 \in Nat \ {0} /\ Len(log) \in Nat
      OBVIOUS
    <3>2. BusTypeOK'
      BY <2>6, <1>1, <3>1, WriteHandTypeOK DEF WriteAndTake, Healed
    <3>3. ReaderOK'
      BY <2>6, <1>1, <3>1 DEF WriteAndTake, CanRead
    <3>4. QED
      BY <3>2, <3>3
  <2>7. CASE Drain(s)
    BY <2>7, <1>1, WriteHandTypeOK DEF Drain, Healed
  <2>8. CASE DrainLagged(s)
    BY <2>8, <1>1, WriteHandTypeOK, JumpTypeOK, OldestInLog DEF DrainLagged, JumpToOldest
  <2>9. CASE Disconnect(s)
    BY <2>9, <1>1, BlankIsFrame DEF Disconnect
  <2>10. QED
    BY <2>1, <2>2, <2>3, <2>4, <2>5, <2>6, <2>7, <2>8, <2>9 DEF SubscriberStep, Merge
<1>3. TypeOK' /\ LoopTypeOK' /\ MessagesOK'
  BY <1>1, <1>2 DEF TypeOK, LoopTypeOK, MessagesOK, loopVars
<1>4. QED
  BY <1>2, <1>3

-----------------------------------------------------------------------------
(* The two freshness invariants, for one subscriber. *)

BacklogFreshFor(s) ==
  \A p \in Pixels : \A i \in Backlog(s) :
    Attached(s) /\ IsLastCover(s, i, p) /\ ~ToBePublished(p)
      => log[i].pix[p] = Shown[p]

ScreenFreshFor(s) ==
  \A p \in Pixels :
    task[s] \in {"recv", "merge"} /\ ~torn[s] /\ Shown # NoFrame /\ Untouched(s, p)
      => screen[s][p] = Shown[p]

FreshFor(s) == BacklogFreshFor(s) /\ ScreenFreshFor(s)

IInv == Shape /\ \A s \in Subscribers : FreshFor(s)

(* What is right of a picture of s stays right: a pixel left alone now was *)
(* left alone before, and the host shows the same there.                   *)
Kept(s) ==
  \A p \in Pixels :
    Shown' # NoFrame /\ Untouched(s, p)'
      => Shown # NoFrame /\ Untouched(s, p) /\ Shown'[p] = Shown[p]

LEMMA KeptScreen ==
  ASSUME NEW s \in Subscribers, Kept(s), ScreenFreshFor(s),
         task'[s] = task[s], screen'[s] = screen[s], torn'[s] = torn[s]
  PROVE  ScreenFreshFor(s)'
BY DEF Kept, ScreenFreshFor

(* Nothing a subscriber's freshness speaks of has changed. *)
LEMMA FreshUnchanged ==
  ASSUME NEW s \in Subscribers, BacklogFreshFor(s),
         log' = log, Shown' = Shown, pending' = pending,
         task'[s] = task[s], cursor'[s] = cursor[s], hand'[s] = hand[s]
  PROVE  BacklogFreshFor(s)' /\ Kept(s)
BY DEF BacklogFreshFor, Attached, Backlog, IsLastCover, Covers, ToBePublished, Untouched, Kept

(* The frame stored differs from the one before only where it is about to  *)
(* be published.                                                           *)
LEMMA FreshStored ==
  ASSUME NEW s \in Subscribers, BacklogFreshFor(s), pending = {}, UNCHANGED busVars,
         \A p \in Pixels : ~ToBePublished(p)' => Shown # NoFrame /\ Shown'[p] = Shown[p]
  PROVE  BacklogFreshFor(s)' /\ Kept(s)
<1> USE DEF busVars
<1>1. BacklogFreshFor(s)'
  BY DEF BacklogFreshFor, Attached, Backlog, IsLastCover, Covers, ToBePublished
<1>2. Kept(s)
  BY DEF Kept, Backlog, Covers, ToBePublished, Untouched
<1>3. QED
  BY <1>1, <1>2

(* A message is published that carries the stored content of its pixels.   *)
LEMMA FreshPublished ==
  ASSUME Shape, NEW s \in Subscribers, BacklogFreshFor(s), NEW m \in Item,
         m.px = {} \/ m.pix = Shown,
         log' = Published(m), Shown' = Shown,
         pending \ {m} \subseteq pending', pending' \subseteq pending,
         UNCHANGED <<task, cursor, hand, screen, torn>>
  PROVE  BacklogFreshFor(s)' /\ (Attached(s) => Kept(s))
<1> USE DEF Shape, TypeOK, BusTypeOK
<1> DEFINE n == Len(log) + 1
<1>1. CASE ~Attached(s)
  BY <1>1 DEF BacklogFreshFor, Attached
<1>2. CASE Attached(s)
  <2>1. Receivers # {}
    BY <1>2 DEF Receivers
  <2>2. Len(log') = n /\ log'[n] = m /\ \A i \in 1 .. Len(log) : log'[i] = log[i]
    BY <2>1, PublishedLog
  <2>3. n \notin Backlog(s) /\ \A i \in Backlog(s) : i \in 1 .. Len(log) /\ i < n
    BY DEF Backlog, ReaderOK
  <2>4. Backlog(s)' = Backlog(s) \cup {n}
    BY <2>2 DEF Backlog, ReaderOK
  <2>5. \A p \in Pixels : ~ToBePublished(p)' /\ p \notin m.px => ~ToBePublished(p)
    BY DEF ToBePublished
  <2>6. ASSUME NEW p \in Pixels, NEW i \in Backlog(s)', IsLastCover(s, i, p)', ~ToBePublished(p)'
        PROVE  log'[i].pix[p] = Shown'[p]
    <3>1. CASE i = n
      BY <3>1, <2>2, <2>6 DEF IsLastCover, Covers
    <3>2. CASE i # n
      <4>1. i \in Backlog(s) /\ i < n
        BY <3>2, <2>4, <2>3
      <4>2. p \notin m.px
        BY <4>1, <2>6, <2>4, <2>2 DEF IsLastCover, Covers
      <4>3. IsLastCover(s, i, p)
        BY <4>1, <2>6, <2>4, <2>3, <2>2 DEF IsLastCover, Covers
      <4>4. log[i].pix[p] = Shown[p]
        BY <4>1, <4>2, <4>3, <2>5, <2>6, <1>2 DEF BacklogFreshFor
      <4>5. QED
        BY <4>1, <4>4, <2>3, <2>2
    <3>3. QED
      BY <3>1, <3>2
  <2>7. ASSUME NEW p \in Pixels, Untouched(s, p)'
        PROVE  Untouched(s, p)
    <3>1. p \notin m.px
      BY <2>7, <2>4, <2>2 DEF Untouched, Covers
    <3>2. ~ToBePublished(p)
      BY <3>1, <2>7, <2>5 DEF Untouched
    <3>3. \A i \in Backlog(s) : ~Covers(i, p)
      BY <2>7, <2>4, <2>3, <2>2 DEF Untouched, Covers
    <3>4. QED
      BY <3>2, <3>3 DEF Untouched
  <2>8. BacklogFreshFor(s)'
    BY <2>6 DEF BacklogFreshFor
  <2>9. Kept(s)
    BY <2>7 DEF Kept
  <2>10. QED
    BY <2>8, <2>9
<1>3. QED
  BY <1>1, <1>2

LEMMA LoopStepKeeps ==
  ASSUME Shape, LoopStep, NEW s \in Subscribers, BacklogFreshFor(s)
  PROVE  BacklogFreshFor(s)' /\ (Attached(s) => Kept(s))
<1> USE DEF Shape
<1>1. ASSUME NEW g \in Geometries, NEW C \in SUBSET Pixels, TakeFrame(g, C)
      PROVE  BacklogFreshFor(s)' /\ (Attached(s) => Kept(s))
  <2>1. Shown' = Shown /\ pending' = pending
    BY <1>1 DEF TakeFrame, Shown
  <2>2. QED
    BY <1>1, <2>1, FreshUnchanged DEF TakeFrame, busVars
<1>2. CASE StoreFull
  <2>1. \A p \in Pixels : ToBePublished(p)'
    BY <1>2 DEF StoreFull, ToBePublished, RawFrame
  <2>2. QED
    BY <1>2, <2>1, FreshStored DEF StoreFull, LoopTypeOK
<1>3. ASSUME NEW R \in SUBSET Rects, StoreDiff(R)
      PROVE  BacklogFreshFor(s)' /\ (Attached(s) => Kept(s))
  <2>1. Shown = prev /\ prev # NoFrame /\ Shown' = incoming
    BY <1>3 DEF StoreDiff, SameGeometry, Shown
  <2>2. ASSUME NEW p \in Pixels, ~ToBePublished(p)'
        PROVE  incoming[p] = prev[p]
    <3>1. CASE R # {} /\ TooMuch(R, incoming)
      BY <3>1, <2>2, <1>3 DEF StoreDiff, Damage, ToBePublished, RawFrame
    <3>2. CASE ~(R # {} /\ TooMuch(R, incoming))
      <4>1. pending' = {Subframe(r, incoming) : r \in R}
        BY <3>2, <1>3 DEF StoreDiff, Damage
      <4>2. \A r \in R : p \notin Subframe(r, incoming).px
        BY <4>1, <2>2 DEF ToBePublished
      <4>3. p \notin UNION R
        BY <4>2 DEF Subframe
      <4>4. p \notin Changed(prev, incoming)
        BY <4>3, <1>3 DEF StoreDiff, IsRegions
      <4>5. QED
        BY <4>4 DEF Changed
    <3>3. QED
      BY <3>1, <3>2
  <2>3. pending = {} /\ UNCHANGED busVars
    BY <1>3 DEF StoreDiff, LoopTypeOK
  <2>4. QED
    BY <2>1, <2>2, <2>3, FreshStored
<1>4. ASSUME NEW m \in pending, PublishNext(m)
      PROVE  BacklogFreshFor(s)' /\ (Attached(s) => Kept(s))
  <2>1. m \in Item /\ m.pix = Shown /\ Shown' = Shown
    BY <1>4 DEF TypeOK, MessagesOK, PublishNext, Shown
  <2>2. QED
    BY <1>4, <2>1, FreshPublished DEF PublishNext
<1>5. CASE FrameDone
  <2>1. Shown' = Shown /\ pending' = pending
    BY <1>5 DEF FrameDone, Shown
  <2>2. QED
    BY <1>5, <2>1, FreshUnchanged DEF FrameDone, busVars
<1>6. ASSUME NEW force \in BOOLEAN, TabEvent(force)
      PROVE  BacklogFreshFor(s)' /\ (Attached(s) => Kept(s))
  <2>1. Control \in Item /\ Control.px = {}
    BY MessagesAreItems DEF Control
  <2>2. Shown' = Shown /\ pending' = pending
    BY <1>6 DEF TabEvent, Shown
  <2>3. QED
    BY <1>6, <2>1, <2>2, FreshPublished DEF TabEvent
<1>7. QED
  BY <1>1, <1>2, <1>3, <1>4, <1>5, <1>6 DEF LoopStep

LEMMA LoopStepFresh ==
  ASSUME Shape, LoopStep, NEW s \in Subscribers, FreshFor(s)
  PROVE  FreshFor(s)'
<1>1. UNCHANGED <<task, screen, torn>>
  BY DEF LoopStep, TakeFrame, StoreFull, StoreDiff, PublishNext, FrameDone, TabEvent, busVars
<1>2. BacklogFreshFor(s)' /\ (Attached(s) => Kept(s))
  BY LoopStepKeeps DEF FreshFor
<1>3. CASE Attached(s)
  BY <1>1, <1>2, <1>3, KeptScreen DEF FreshFor
<1>4. CASE ~Attached(s)
  BY <1>1, <1>2, <1>4 DEF FreshFor, ScreenFreshFor, Attached
<1>5. QED
  BY <1>3, <1>4

-----------------------------------------------------------------------------
(* A step of the subscriber itself. *)

(* A backlog that lost only its oldest part has the same last covers. *)
LEMMA BacklogSuffix ==
  ASSUME NEW s \in Subscribers, BacklogFreshFor(s), Attached(s), UNCHANGED <<log, loopVars>>,
         Backlog(s)' \subseteq Backlog(s),
         \A i \in Backlog(s)', j \in Backlog(s) : j > i => j \in Backlog(s)'
  PROVE  BacklogFreshFor(s)'
<1> SUFFICES ASSUME NEW p \in Pixels, NEW i \in Backlog(s)',
                    IsLastCover(s, i, p)', ~ToBePublished(p)'
             PROVE  log'[i].pix[p] = Shown'[p]
    BY DEF BacklogFreshFor
<1>1. i \in Backlog(s) /\ IsLastCover(s, i, p)
  BY DEF IsLastCover, Covers
<1>2. Shown' = Shown /\ ~ToBePublished(p)
  BY DEF loopVars, Shown, ToBePublished
<1>3. QED
  BY <1>1, <1>2 DEF BacklogFreshFor

(* Painting the oldest message of the backlog keeps the screen right, and  *)
(* a raw frame makes it right.                                             *)
LEMMA PaintFresh ==
  ASSUME Shape, NEW s \in Subscribers, FreshFor(s), task[s] = "merge",
         UNCHANGED <<log, loopVars>>, WriteHand(s), torn' = Healed(s),
         Backlog(s)' = Backlog(s) \ {hand[s]}
  PROVE  ScreenFreshFor(s)'
<1> USE DEF Shape, TypeOK, BusTypeOK
<1> DEFINE h == hand[s]
<1> SUFFICES ASSUME NEW p \in Pixels, ~torn'[s], Shown' # NoFrame, Untouched(s, p)'
             PROVE  screen'[s][p] = Shown'[p]
    BY DEF ScreenFreshFor
<1>1. Shown' = Shown /\ pending' = pending
  BY DEF loopVars, Shown
<1>2. /\ h \in 1 .. Len(log) /\ h # 0 /\ h \in Backlog(s)
      /\ \A j \in Backlog(s) : j # h => j > h
  BY DEF ReaderOK, Backlog
<1>3. screen'[s][p] = IF p \in log[h].px THEN log[h].pix[p] ELSE screen[s][p]
  BY DEF WriteHand, Paint
<1>4. ~ToBePublished(p) /\ \A j \in Backlog(s) : j # h => ~Covers(j, p)
  BY <1>1 DEF Untouched, ToBePublished, Covers
<1>5. CASE p \in log[h].px
  <2>1. IsLastCover(s, h, p)
    BY <1>2, <1>4, <1>5 DEF IsLastCover, Covers
  <2>2. log[h].pix[p] = Shown[p]
    BY <2>1, <1>2, <1>4 DEF FreshFor, BacklogFreshFor, Attached
  <2>3. QED
    BY <2>2, <1>3, <1>5, <1>1
<1>6. CASE p \notin log[h].px
  <2>1. log[h].kind # "raw"
    BY <1>2, <1>6 DEF MessagesOK
  <2>2. ~torn[s]
    BY <2>1 DEF Healed
  <2>3. Untouched(s, p)
    BY <1>4, <1>6 DEF Untouched, Covers
  <2>4. screen[s][p] = Shown[p]
    BY <2>2, <2>3, <1>1 DEF FreshFor, ScreenFreshFor
  <2>5. QED
    BY <2>4, <1>3, <1>6, <1>1
<1>7. QED
  BY <1>5, <1>6

(* What may supersede a message repaints all that the message repaints. *)
LEMMA SupersedesCovers ==
  ASSUME Shape, NEW i \in DOMAIN log, NEW j \in DOMAIN log, Supersedes(log[j], log[i])
  PROVE  log[i].px \subseteq log[j].px
<1> USE DEF Shape, TypeOK, BusTypeOK
<1>1. log[i] \in Item
  OBVIOUS
<1>2. log[i].px \subseteq Pixels
  BY <1>1 DEF Item
<1>3. log[j].kind = "raw" => log[j].px = Pixels
  BY DEF MessagesOK
<1>4. QED
  BY <1>2, <1>3 DEF Supersedes

LEMMA SubscriberStepKeeps ==
  ASSUME Shape, NEW s \in Subscribers, BacklogFreshFor(s), SubscriberStep(s)
  PROVE  BacklogFreshFor(s)' /\ (ScreenFreshFor(s) => ScreenFreshFor(s)')
<1> USE DEF Shape, TypeOK, BusTypeOK
<1>1. UNCHANGED loopVars /\ log' = log /\ Shown' = Shown
  BY DEF SubscriberStep, Subscribe, Snapshot, Recv, RecvLagged, Merge, Supersede,
         WriteAndTake, Drain, DrainLagged, Disconnect, loopVars, Shown
<1>2. CASE Subscribe(s)
  <2>1. Backlog(s)' = {} /\ task'[s] = "snapshot"
    BY <1>2, <1>1 DEF Subscribe, Backlog, ReaderOK
  <2>2. QED
    BY <2>1 DEF BacklogFreshFor, ScreenFreshFor
<1>3. CASE Snapshot(s, entry, Shown)
  <2>1. Backlog(s)' = Backlog(s) /\ Attached(s)
    BY <1>3, <1>1 DEF Snapshot, Backlog, Attached
  <2>2. BacklogFreshFor(s)'
    BY <2>1, <1>1, BacklogSuffix
  <2>3. ASSUME NEW p \in Pixels, ~torn'[s], Shown' # NoFrame
        PROVE  screen'[s][p] = Shown'[p]
    <3>1. entry # NoFrame /\ screen'[s] = entry
      BY <2>3, <1>3, <1>1 DEF Snapshot
    <3>2. Shown = entry
      BY <3>1 DEF LoopTypeOK, Shown
    <3>3. QED
      BY <3>1, <3>2, <1>1
  <2>4. QED
    BY <2>2, <2>3 DEF ScreenFreshFor
<1>4. CASE Recv(s)
  <2>1. Backlog(s)' = Backlog(s) /\ Attached(s)
    BY <1>4, <1>1 DEF Recv, CanRead, Backlog, Attached, ReaderOK
  <2>2. BacklogFreshFor(s)'
    BY <2>1, <1>1, BacklogSuffix
  <2>3. ScreenFreshFor(s) => ScreenFreshFor(s)'
    BY <2>1, <1>4, <1>1
       DEF ScreenFreshFor, Recv, Untouched, Covers, ToBePublished, loopVars
  <2>4. QED
    BY <2>2, <2>3
<1>5. CASE RecvLagged(s)
  <2>1. /\ Backlog(s) = cursor[s] .. Len(log)
        /\ Backlog(s)' = Oldest .. Len(log)
        /\ cursor[s] < Oldest /\ Oldest \in Nat
    BY <1>5, <1>1, OldestInLog
       DEF RecvLagged, Lagged, JumpToOldest, Backlog, ReaderOK
  <2>2. Backlog(s)' \subseteq Backlog(s)
    BY <2>1
  <2>3. \A i \in Backlog(s)', j \in Backlog(s) : j > i => j \in Backlog(s)'
    BY <2>1
  <2>4. BacklogFreshFor(s)'
    BY <2>2, <2>3, <1>1, <1>5, BacklogSuffix DEF RecvLagged, Attached
  <2>5. ScreenFreshFor(s)'
    BY <1>5 DEF RecvLagged, ScreenFreshFor
  <2>6. QED
    BY <2>4, <2>5
<1>6. CASE Supersede(s)
  <2>1. /\ Backlog(s)' = Backlog(s) \ {hand[s]}
        /\ \A j \in Backlog(s) : j # hand[s] => j > hand[s]
        /\ hand[s] \in DOMAIN log /\ cursor[s] \in DOMAIN log
        /\ cursor[s] \in Backlog(s)'
    BY <1>6, <1>1 DEF Supersede, CanRead, Backlog, ReaderOK
  <2>2. \A i \in Backlog(s)', j \in Backlog(s) : j > i => j \in Backlog(s)'
    <3>1. Backlog(s) \subseteq Nat /\ hand[s] \in Nat
      BY DEF Backlog
    <3>2. QED
      BY <3>1, <2>1
  <2>3. BacklogFreshFor(s)'
    BY <2>1, <2>2, <1>1, <1>6, BacklogSuffix DEF Supersede, Attached
  <2>4. log[hand[s]].px \subseteq log[cursor[s]].px
    BY <2>1, <1>6, SupersedesCovers DEF Supersede
  <2>5. ASSUME NEW p \in Pixels, Untouched(s, p)'
        PROVE  Untouched(s, p)
    BY <2>1, <2>4, <2>5, <1>1 DEF Untouched, Covers, ToBePublished, loopVars
  <2>6. ScreenFreshFor(s) => ScreenFreshFor(s)'
    BY <2>5, <1>1, <1>6 DEF ScreenFreshFor, Supersede
  <2>7. QED
    BY <2>3, <2>6
<1>7. ASSUME task[s] = "merge", WriteHand(s), torn' = Healed(s),
             Backlog(s)' = Backlog(s) \ {hand[s]}
      PROVE  BacklogFreshFor(s)' /\ (ScreenFreshFor(s) => ScreenFreshFor(s)')
  <2>1. \A j \in Backlog(s) : j # hand[s] => j > hand[s]
    BY <1>7 DEF Backlog, ReaderOK
  <2>2. \A i \in Backlog(s)', j \in Backlog(s) : j > i => j \in Backlog(s)'
    <3>1. Backlog(s) \subseteq Nat /\ hand[s] \in Nat
      BY DEF Backlog
    <3>2. QED
      BY <3>1, <2>1, <1>7
  <2>3. BacklogFreshFor(s)'
    BY <2>2, <1>1, <1>7, BacklogSuffix DEF Attached
  <2>4. ScreenFreshFor(s) => ScreenFreshFor(s)'
    BY <1>1, <1>7, PaintFresh DEF FreshFor
  <2>5. QED
    BY <2>3, <2>4
<1>8. CASE WriteAndTake(s)
  <2>1. Backlog(s)' = Backlog(s) \ {hand[s]}
    BY <1>8, <1>1 DEF WriteAndTake, CanRead, Backlog, ReaderOK
  <2>2. QED
    BY <2>1, <1>7, <1>8 DEF WriteAndTake
<1>9. CASE Drain(s)
  <2>1. Backlog(s)' = Backlog(s) \ {hand[s]}
    BY <1>9, <1>1 DEF Drain, Backlog, ReaderOK
  <2>2. QED
    BY <2>1, <1>7, <1>9 DEF Drain
<1>10. CASE DrainLagged(s)
  <2>1. /\ Backlog(s) = (cursor[s] .. Len(log)) \cup {hand[s]}
        /\ Backlog(s)' = Oldest .. Len(log)
        /\ hand[s] < cursor[s] /\ cursor[s] < Oldest /\ Oldest \in Nat
    BY <1>10, <1>1, OldestInLog
       DEF DrainLagged, Lagged, JumpToOldest, Backlog, ReaderOK
  <2>2. Backlog(s)' \subseteq Backlog(s)
    BY <2>1
  <2>3. \A i \in Backlog(s)', j \in Backlog(s) : j > i => j \in Backlog(s)'
    BY <2>1
  <2>4. BacklogFreshFor(s)'
    BY <2>2, <2>3, <1>1, <1>10, BacklogSuffix DEF DrainLagged, Attached
  <2>5. ScreenFreshFor(s)'
    BY <1>10 DEF DrainLagged, ScreenFreshFor
  <2>6. QED
    BY <2>4, <2>5
<1>11. CASE Disconnect(s)
  BY <1>11 DEF Disconnect, BacklogFreshFor, ScreenFreshFor, Attached
<1>12. QED
  BY <1>2, <1>3, <1>4, <1>5, <1>6, <1>8, <1>9, <1>10, <1>11 DEF SubscriberStep, Merge

LEMMA SubscriberStepFresh ==
  ASSUME Shape, NEW s \in Subscribers, FreshFor(s), SubscriberStep(s)
  PROVE  FreshFor(s)'
BY SubscriberStepKeeps DEF FreshFor

(* A step of another subscriber. *)
LEMMA OtherStepKeeps ==
  ASSUME Shape, NEW s \in Subscribers, NEW t \in Subscribers, t # s,
         BacklogFreshFor(s), SubscriberStep(t)
  PROVE  BacklogFreshFor(s)' /\ Kept(s)
<1> USE DEF Shape, TypeOK, BusTypeOK
<1>1. log' = log /\ Shown' = Shown /\ pending' = pending
  BY DEF SubscriberStep, Subscribe, Snapshot, Recv, RecvLagged, Merge, Supersede,
         WriteAndTake, Drain, DrainLagged, Disconnect, loopVars, Shown
<1>2. /\ task'[s] = task[s] /\ cursor'[s] = cursor[s] /\ hand'[s] = hand[s]
      /\ screen'[s] = screen[s] /\ torn'[s] = torn[s]
  BY DEF SubscriberStep, Subscribe, Snapshot, Recv, RecvLagged, Merge, Supersede,
         WriteAndTake, Drain, DrainLagged, Disconnect, WriteHand, JumpToOldest, Healed
<1>3. QED
  BY <1>1, <1>2, FreshUnchanged

LEMMA OtherStepFresh ==
  ASSUME Shape, NEW s \in Subscribers, NEW t \in Subscribers, t # s,
         FreshFor(s), SubscriberStep(t)
  PROVE  FreshFor(s)'
<1>1. task'[s] = task[s] /\ screen'[s] = screen[s] /\ torn'[s] = torn[s]
  BY DEF SubscriberStep, Subscribe, Snapshot, Recv, RecvLagged, Merge, Supersede,
         WriteAndTake, Drain, DrainLagged, Disconnect, WriteHand, JumpToOldest, Healed,
         Shape, TypeOK, BusTypeOK
<1>2. QED
  BY <1>1, OtherStepKeeps, KeptScreen DEF FreshFor

-----------------------------------------------------------------------------
(* The inductive invariant and what follows from it. *)

LEMMA InitIInv == Init => IInv
<1> SUFFICES ASSUME Init
             PROVE  IInv
    OBVIOUS
<1>1. \A s \in Subscribers : task[s] = "off"
  BY DEF Init, BusInit
<1>2. QED
  BY <1>1, InitShape DEF IInv, FreshFor, BacklogFreshFor, ScreenFreshFor, Attached

LEMMA NextIInv == IInv /\ [Next]_vars => IInv'
<1> SUFFICES ASSUME IInv, [Next]_vars
             PROVE  IInv'
    OBVIOUS
<1>1. CASE LoopStep
  BY <1>1, LoopStepShape, LoopStepFresh DEF IInv
<1>2. ASSUME NEW t \in Subscribers, SubscriberStep(t)
      PROVE  IInv'
  <2>1. ASSUME NEW s \in Subscribers
        PROVE  FreshFor(s)'
    BY <1>2, SubscriberStepFresh, OtherStepFresh DEF IInv
  <2>2. QED
    BY <1>2, <2>1, SubscriberStepShape DEF IInv
<1>3. CASE UNCHANGED vars
  <2>1. UNCHANGED <<busVars, loopVars, Shown>>
    BY <1>3 DEF vars, busVars, loopVars, Shown
  <2>2. Shape'
    BY <2>1 DEF IInv, Shape, TypeOK, BusTypeOK, LoopTypeOK, ReaderOK, MessagesOK, busVars, loopVars
  <2>3. ASSUME NEW s \in Subscribers
        PROVE  FreshFor(s)'
    BY <2>1, FreshUnchanged, KeptScreen DEF IInv, FreshFor, busVars, loopVars
  <2>4. QED
    BY <2>2, <2>3 DEF IInv
<1>4. QED
  BY <1>1, <1>2, <1>3 DEF Next

(* Every variable of the pipeline always has its type. *)
THEOREM TypeCorrect == Spec => []TypeOK
<1>1. IInv => TypeOK
  BY DEF IInv, Shape
<1>2. QED
  BY <1>1, InitIInv, NextIInv, PTL DEF Spec

(* The last message of a backlog that repaints a pixel, however much of it *)
(* the writer coalesces away, carries the content the host has for it.     *)
THEOREM BacklogIsFresh == Spec => []BacklogFresh
<1>1. IInv => BacklogFresh
  BY DEF IInv, FreshFor, BacklogFreshFor, BacklogFresh
<1>2. QED
  BY <1>1, InitIInv, NextIInv, PTL DEF Spec

(* What the backlog leaves alone is right on the screen already. *)
THEOREM ScreenIsFresh == Spec => []ScreenFresh
<1>1. IInv => ScreenFresh
  BY DEF IInv, FreshFor, ScreenFreshFor, ScreenFresh
<1>2. QED
  BY <1>1, InitIInv, NextIInv, PTL DEF Spec

(* A subscriber that has read everything shows the host's framebuffer. *)
THEOREM PictureConverges == Spec => []Converged
<1>1. ASSUME IInv
      PROVE  Converged
  <2> SUFFICES ASSUME NEW s \in Subscribers, Settled(s), ~torn[s], Shown # NoFrame
               PROVE  screen[s] = Shown
      BY DEF Converged
  <2> USE DEF IInv, Shape, TypeOK, BusTypeOK
  <2>1. Backlog(s) = {}
    BY <1>1 DEF Settled, Backlog, ReaderOK
  <2>2. \A p \in Pixels : Untouched(s, p)
    BY <2>1 DEF Settled, Untouched, ToBePublished
  <2>3. \A p \in Pixels : screen[s][p] = Shown[p]
    BY <1>1, <2>2 DEF Settled, FreshFor, ScreenFreshFor
  <2>4. screen[s] \in Frame /\ Shown \in Frame
    BY <1>1 DEF Shown
  <2>5. QED
    BY <2>3, <2>4 DEF Frame
<1>2. QED
  BY <1>1, InitIInv, NextIInv, PTL DEF Spec

-----------------------------------------------------------------------------
(* Control messages, for one subscriber. *)

ToldTo(s) == {told[s][i] : i \in DOMAIN told[s]}

DueTo(s) ==
  {i \in since[s] .. (cursor[s] - 1) :
     log[i].kind = "ctl" /\ i # hand[s] /\ i \notin skipped[s]}

(* What has been told lies before what is in hand, and that before what is *)
(* still to be read.                                                       *)
ToldInOrder(s) ==
  /\ \A i, j \in DOMAIN told[s] : i < j => told[s][i] < told[s][j]
  /\ \A i \in DOMAIN told[s] :
       told[s][i] < cursor[s] /\ (hand[s] # 0 => told[s][i] < hand[s])

SkippedOK(s) ==
  /\ since[s] <= cursor[s]
  /\ hand[s] # 0 => since[s] <= hand[s] /\ hand[s] \notin skipped[s]
  /\ \A i \in skipped[s] : i < cursor[s]

ControlFor(s) ==
  /\ ToldInOrder(s) /\ SkippedOK(s)
  /\ IF Attached(s) THEN ToldTo(s) = DueTo(s) ELSE told[s] = <<>> /\ skipped[s] = {}

CInv == Shape /\ \A s \in Subscribers : ControlFor(s)

LEMMA InitControl == Init => CInv
<1> SUFFICES ASSUME Init, NEW s \in Subscribers
             PROVE  ControlFor(s)
    BY InitShape DEF CInv
<1>1. /\ told[s] = <<>> /\ skipped[s] = {} /\ since[s] = 1 /\ cursor[s] = 1 /\ hand[s] = 0
      /\ ~Attached(s)
  BY DEF Init, BusInit, Attached
<1>2. QED
  BY <1>1 DEF ControlFor, ToldInOrder, SkippedOK

(* What has been read stays where it is when the log grows. *)
LEMMA LogGrowsControl ==
  ASSUME Shape, NEW s \in Subscribers, ControlFor(s),
         \A i \in 1 .. Len(log) : log'[i] = log[i],
         UNCHANGED <<task, cursor, hand, told, since, skipped>>
  PROVE  ControlFor(s)'
<1> USE DEF Shape, TypeOK, BusTypeOK
<1>1. \A i \in since[s] .. (cursor[s] - 1) : log'[i] = log[i]
  BY DEF ReaderOK
<1>2. DueTo(s)' = DueTo(s)
  BY <1>1 DEF DueTo
<1>3. QED
  BY <1>2 DEF ControlFor, ToldInOrder, SkippedOK, ToldTo, Attached

LEMMA LoopStepControl ==
  ASSUME Shape, NEW s \in Subscribers, ControlFor(s), LoopStep
  PROVE  ControlFor(s)'
<1>1. log \in Seq(Item) /\ pending \subseteq Item
  BY DEF Shape, TypeOK, BusTypeOK
<1>2. UNCHANGED <<task, cursor, hand, told, since, skipped>>
  BY DEF LoopStep, TakeFrame, StoreFull, StoreDiff, PublishNext, FrameDone, TabEvent, busVars
<1>3. log' = log \/ \E m \in Item : log' = Published(m)
  <2>1. Control \in Item
    BY MessagesAreItems
  <2>2. QED
    BY <1>1, <2>1 DEF LoopStep, TakeFrame, StoreFull, StoreDiff, PublishNext, FrameDone, TabEvent,
       busVars
<1>4. \A i \in 1 .. Len(log) : log'[i] = log[i]
  BY <1>1, <1>3, PublishedLog
<1>5. QED
  BY <1>2, <1>4, LogGrowsControl

Increasing(q) == \A i, j \in DOMAIN q : i < j => q[i] < q[j]
AllBelow(q, h) == \A i \in DOMAIN q : q[i] < h
AllUpTo(q, h) == \A i \in DOMAIN q : q[i] <= h
ElementsOf(q) == {q[i] : i \in DOMAIN q}

(* Appending a number above all the others keeps a sequence increasing. *)
LEMMA AppendIncreasing ==
  ASSUME NEW q \in Seq(Nat), NEW h \in Nat, NEW r, r = Append(q, h),
         Increasing(q), AllBelow(q, h)
  PROVE  Increasing(r) /\ AllUpTo(r, h) /\ ElementsOf(r) = ElementsOf(q) \cup {h}
<1> USE DEF Increasing, AllBelow, AllUpTo, ElementsOf
<1>1. /\ DOMAIN q = 1 .. Len(q) /\ Len(q) \in Nat
      /\ DOMAIN r = 1 .. Len(q) + 1 /\ r[Len(q) + 1] = h
      /\ \A i \in 1 .. Len(q) : r[i] = q[i] /\ q[i] \in Nat
  OBVIOUS
<1>2. \A i \in DOMAIN r : i \in DOMAIN q \/ i = Len(q) + 1
  BY <1>1
<1>3. ASSUME NEW i \in DOMAIN r, NEW j \in DOMAIN r, i < j
      PROVE  r[i] < r[j]
  <2>1. i \in DOMAIN q /\ r[i] = q[i]
    BY <1>1, <1>3
  <2>2. CASE j \in DOMAIN q
    BY <1>1, <1>3, <2>1, <2>2
  <2>3. CASE j = Len(q) + 1
    BY <1>1, <2>1, <2>3
  <2>4. QED
    BY <1>2, <2>2, <2>3
<1>4. ASSUME NEW i \in DOMAIN r
      PROVE  r[i] <= h
  BY <1>1, <1>2
<1>5. {r[i] : i \in DOMAIN r} = {q[i] : i \in DOMAIN q} \cup {h}
  BY <1>1, <1>2
<1>6. QED
  BY <1>3, <1>4, <1>5

(* Writing the item in hand tells it if it is a control message. *)
LEMMA WriteHandControl ==
  ASSUME Shape, NEW s \in Subscribers, ControlFor(s), task[s] = "merge", WriteHand(s)
  PROVE  /\ ToldTo(s)' = ToldTo(s) \cup (IF log[hand[s]].kind = "ctl" THEN {hand[s]} ELSE {})
         /\ \A i, j \in DOMAIN told'[s] : i < j => told'[s][i] < told'[s][j]
         /\ \A i \in DOMAIN told'[s] : told'[s][i] <= hand[s]
<1>1. /\ hand[s] \in Nat /\ hand[s] # 0 /\ told[s] \in Seq(Nat)
      /\ \A i, j \in DOMAIN told[s] : i < j => told[s][i] < told[s][j]
      /\ \A i \in DOMAIN told[s] : told[s][i] < hand[s] /\ told[s][i] \in Nat
  BY DEF Shape, TypeOK, BusTypeOK, ReaderOK, ControlFor, ToldInOrder
<1>2. CASE log[hand[s]].kind # "ctl"
  <2>1. told'[s] = told[s]
    BY <1>2 DEF WriteHand, Shape, TypeOK, BusTypeOK
  <2>2. QED
    BY <1>1, <1>2, <2>1 DEF ToldTo
<1>3. CASE log[hand[s]].kind = "ctl"
  <2>1. told'[s] = Append(told[s], hand[s])
    BY <1>3 DEF WriteHand, Shape, TypeOK, BusTypeOK
  <2> DEFINE q == told[s]
             h == hand[s]
             r == told'[s]
  <2>2. q \in Seq(Nat) /\ h \in Nat /\ r = Append(q, h) /\ Increasing(q) /\ AllBelow(q, h)
    BY <1>1, <2>1 DEF Increasing, AllBelow
  <2>3. Increasing(r) /\ AllUpTo(r, h) /\ ElementsOf(r) = ElementsOf(q) \cup {h}
    <3> HIDE DEF q, h, r
    <3>1. QED
      BY ONLY <2>2, AppendIncreasing
  <2>4. QED
    BY <1>3, <2>3 DEF ToldTo, Increasing, AllUpTo, ElementsOf
<1>4. QED
  BY <1>2, <1>3

LEMMA SubscriberStepControl ==
  ASSUME Shape, NEW s \in Subscribers, ControlFor(s), SubscriberStep(s)
  PROVE  ControlFor(s)'
<1> USE DEF Shape, TypeOK, BusTypeOK
<1>1. log' = log
  BY DEF SubscriberStep, Subscribe, Snapshot, Recv, RecvLagged, Merge, Supersede,
         WriteAndTake, Drain, DrainLagged, Disconnect
<1>2. /\ ToldInOrder(s) /\ SkippedOK(s)
      /\ Attached(s) => ToldTo(s) = DueTo(s)
      /\ ~Attached(s) => told[s] = <<>> /\ skipped[s] = {}
  BY DEF ControlFor
<1>3. /\ cursor[s] \in Nat \ {0} /\ since[s] \in Nat \ {0} /\ hand[s] \in Nat
      /\ skipped[s] \subseteq Nat /\ told[s] \in Seq(Nat) /\ cursor[s] <= Len(log) + 1
      /\ Len(log) \in Nat
  BY DEF ReaderOK
<1>4. CASE Subscribe(s)
  <2>1. /\ told'[s] = <<>> /\ skipped'[s] = {} /\ hand'[s] = 0
        /\ since'[s] = Len(log) + 1 /\ cursor'[s] = Len(log) + 1
    BY <1>2, <1>4 DEF Subscribe, Attached, ReaderOK
  <2>2. ToldTo(s)' = {} /\ DueTo(s)' = {}
    BY <1>3, <2>1 DEF ToldTo, DueTo
  <2>3. QED
    BY <1>3, <2>1, <2>2 DEF ControlFor, ToldInOrder, SkippedOK
<1>5. CASE Snapshot(s, entry, Shown)
  <2>1. UNCHANGED <<log, cursor, hand, told, since, skipped>> /\ Attached(s) /\ Attached(s)'
    BY <1>5 DEF Snapshot, Attached
  <2>2. QED
    BY <1>2, <2>1 DEF ControlFor, ToldInOrder, SkippedOK, ToldTo, DueTo
<1>6. CASE Recv(s)
  <2>1. /\ told' = told /\ since' = since /\ skipped' = skipped /\ hand[s] = 0
        /\ hand'[s] = cursor[s] /\ cursor'[s] = cursor[s] + 1 /\ Attached(s) /\ Attached(s)'
    BY <1>6 DEF Recv, Attached, ReaderOK
  <2>2. DueTo(s)' = DueTo(s)
    BY <1>1, <1>3, <2>1 DEF DueTo
  <2>3. ToldInOrder(s)' /\ SkippedOK(s)'
    BY <1>2, <1>3, <2>1 DEF ToldInOrder, SkippedOK
  <2>4. QED
    BY <1>2, <2>1, <2>2, <2>3 DEF ControlFor, ToldTo
<1>7. CASE RecvLagged(s)
  <2>1. /\ told' = told /\ since' = since /\ hand' = hand /\ hand[s] = 0
        /\ skipped'[s] = skipped[s] \cup (cursor[s] .. (Oldest - 1)) /\ cursor'[s] = Oldest
        /\ cursor[s] < Oldest /\ Oldest \in Nat /\ Attached(s) /\ Attached(s)'
    BY <1>3, <1>7, OldestInLog DEF RecvLagged, JumpToOldest, Lagged, Attached, ReaderOK
  <2>2. DueTo(s)' = DueTo(s)
    BY <1>1, <1>3, <2>1 DEF DueTo
  <2>3. ToldInOrder(s)' /\ SkippedOK(s)'
    BY <1>2, <1>3, <2>1 DEF ToldInOrder, SkippedOK
  <2>4. QED
    BY <1>2, <2>1, <2>2, <2>3 DEF ControlFor, ToldTo
<1>8. CASE Supersede(s)
  <2>1. /\ told' = told /\ since' = since /\ skipped' = skipped
        /\ hand[s] \in 1 .. cursor[s] - 1 /\ log[hand[s]].kind # "ctl"
        /\ hand'[s] = cursor[s] /\ cursor'[s] = cursor[s] + 1 /\ Attached(s) /\ Attached(s)'
    BY <1>8 DEF Supersede, Supersedes, Attached, ReaderOK
  <2>2. DueTo(s)' = DueTo(s)
    BY <1>1, <1>3, <2>1 DEF DueTo
  <2>3. ToldInOrder(s)' /\ SkippedOK(s)'
    BY <1>2, <1>3, <2>1 DEF ToldInOrder, SkippedOK
  <2>4. QED
    BY <1>2, <2>1, <2>2, <2>3 DEF ControlFor, ToldTo
<1>9. ASSUME task[s] = "merge", WriteHand(s)
      PROVE  /\ hand[s] \in 1 .. cursor[s] - 1 /\ since[s] <= hand[s] /\ hand[s] \notin skipped[s]
             /\ \A i, j \in DOMAIN told'[s] : i < j => told'[s][i] < told'[s][j]
             /\ \A i \in DOMAIN told'[s] : told'[s][i] <= hand[s] /\ told'[s][i] \in Nat
             /\ ToldTo(s)' = {i \in since[s] .. (cursor[s] - 1) :
                                log[i].kind = "ctl" /\ i \notin skipped[s]}
  <2>1. hand[s] \in 1 .. cursor[s] - 1 /\ since[s] <= hand[s] /\ hand[s] \notin skipped[s]
    BY <1>2, <1>9 DEF ReaderOK, SkippedOK
  <2>2. told'[s] \in Seq(Nat)
    BY <1>9, WriteHandTypeOK
  <2>3. Attached(s)
    BY <1>9 DEF Attached
  <2>4. ToldTo(s)' = {i \in since[s] .. (cursor[s] - 1) :
                        log[i].kind = "ctl" /\ i \notin skipped[s]}
    BY <1>2, <1>3, <1>9, <2>1, <2>3, WriteHandControl DEF DueTo
  <2>5. /\ \A i, j \in DOMAIN told'[s] : i < j => told'[s][i] < told'[s][j]
        /\ \A i \in DOMAIN told'[s] : told'[s][i] <= hand[s]
    <3> HIDE DEF Shape, TypeOK, BusTypeOK
    <3>1. QED
      BY <1>9, WriteHandControl
  <2>6. \A i \in DOMAIN told'[s] : told'[s][i] \in Nat
    BY ONLY <2>2
  <2>7. QED
    BY ONLY <2>1, <2>4, <2>5, <2>6
<1>10. CASE WriteAndTake(s)
  <2>1. /\ task[s] = "merge" /\ WriteHand(s) /\ since' = since /\ skipped' = skipped
        /\ hand'[s] = cursor[s] /\ cursor'[s] = cursor[s] + 1 /\ Attached(s)'
    BY <1>10 DEF WriteAndTake, Attached
  <2>2. DueTo(s)' = {i \in since[s] .. (cursor[s] - 1) :
                       log[i].kind = "ctl" /\ i \notin skipped[s]}
    BY <1>1, <1>3, <2>1 DEF DueTo
  <2>3. ToldInOrder(s)'
    BY <1>3, <1>9, <2>1 DEF ToldInOrder
  <2>4. SkippedOK(s)'
    BY <1>2, <1>3, <2>1 DEF SkippedOK
  <2>5. QED
    BY <1>9, <2>1, <2>2, <2>3, <2>4 DEF ControlFor
<1>11. CASE Drain(s)
  <2>1. /\ task[s] = "merge" /\ WriteHand(s) /\ since' = since /\ skipped' = skipped
        /\ hand'[s] = 0 /\ cursor' = cursor /\ Attached(s)'
    BY <1>11 DEF Drain, Attached
  <2>2. DueTo(s)' = {i \in since[s] .. (cursor[s] - 1) :
                       log[i].kind = "ctl" /\ i \notin skipped[s]}
    BY <1>1, <1>3, <2>1 DEF DueTo
  <2>3. ToldInOrder(s)'
    BY <1>3, <1>9, <2>1 DEF ToldInOrder
  <2>4. SkippedOK(s)'
    BY <1>2, <1>3, <2>1 DEF SkippedOK
  <2>5. QED
    BY <1>9, <2>1, <2>2, <2>3, <2>4 DEF ControlFor
<1>12. CASE DrainLagged(s)
  <2>1. /\ task[s] = "merge" /\ WriteHand(s) /\ since' = since
        /\ skipped'[s] = skipped[s] \cup (cursor[s] .. (Oldest - 1)) /\ cursor'[s] = Oldest
        /\ cursor[s] < Oldest /\ Oldest \in Nat /\ hand'[s] = 0 /\ Attached(s)'
    BY <1>3, <1>12, OldestInLog DEF DrainLagged, JumpToOldest, Lagged, Attached
  <2>2. DueTo(s)' = {i \in since[s] .. (cursor[s] - 1) :
                       log[i].kind = "ctl" /\ i \notin skipped[s]}
    BY <1>1, <1>3, <2>1 DEF DueTo
  <2>3. ToldInOrder(s)'
    BY <1>3, <1>9, <2>1 DEF ToldInOrder
  <2>4. SkippedOK(s)'
    BY <1>2, <1>3, <2>1 DEF SkippedOK
  <2>5. QED
    BY <1>9, <2>1, <2>2, <2>3, <2>4 DEF ControlFor
<1>13. CASE Disconnect(s)
  <2>1. /\ told'[s] = <<>> /\ skipped'[s] = {} /\ hand'[s] = 0 /\ since'[s] = 1 /\ cursor'[s] = 1
        /\ ~Attached(s)'
    BY <1>13 DEF Disconnect, Attached
  <2>2. QED
    BY <2>1 DEF ControlFor, ToldInOrder, SkippedOK
<1> HIDE DEF Shape, TypeOK, BusTypeOK
<1>14. QED
  BY <1>4, <1>5, <1>6, <1>7, <1>8, <1>10, <1>11, <1>12, <1>13 DEF SubscriberStep, Merge

LEMMA OtherStepControl ==
  ASSUME Shape, NEW s \in Subscribers, NEW t \in Subscribers, t # s,
         ControlFor(s), SubscriberStep(t)
  PROVE  ControlFor(s)'
<1> USE DEF Shape, TypeOK, BusTypeOK
<1>1. /\ log' = log /\ task'[s] = task[s] /\ cursor'[s] = cursor[s] /\ hand'[s] = hand[s]
      /\ told'[s] = told[s] /\ since'[s] = since[s] /\ skipped'[s] = skipped[s]
  BY DEF SubscriberStep, Subscribe, Snapshot, Recv, RecvLagged, Merge, Supersede,
         WriteAndTake, Drain, DrainLagged, Disconnect, WriteHand, JumpToOldest
<1> HIDE DEF Shape, TypeOK, BusTypeOK
<1>2. /\ ToldTo(s)' = ToldTo(s) /\ DueTo(s)' = DueTo(s)
      /\ Attached(s)' = Attached(s)
  BY <1>1 DEF ToldTo, DueTo, Attached
<1>3. ToldInOrder(s)' /\ SkippedOK(s)'
  BY <1>1 DEF ControlFor, ToldInOrder, SkippedOK
<1>4. QED
  BY <1>1, <1>2, <1>3 DEF ControlFor

LEMMA NextControl == CInv /\ [Next]_vars => CInv'
<1> SUFFICES ASSUME CInv, [Next]_vars
             PROVE  CInv'
    OBVIOUS
<1>1. CASE LoopStep
  BY <1>1, LoopStepShape, LoopStepControl DEF CInv
<1>2. ASSUME NEW t \in Subscribers, SubscriberStep(t)
      PROVE  CInv'
  <2>1. ASSUME NEW s \in Subscribers
        PROVE  ControlFor(s)'
    BY <1>2, SubscriberStepControl, OtherStepControl DEF CInv
  <2>2. QED
    BY <1>2, <2>1, SubscriberStepShape DEF CInv
<1>3. CASE UNCHANGED vars
  <2>1. Shape'
    BY <1>3 DEF vars, busVars, loopVars, CInv, Shape, TypeOK, BusTypeOK, LoopTypeOK, ReaderOK,
                MessagesOK
  <2>2. ASSUME NEW s \in Subscribers
        PROVE  ControlFor(s)'
    BY <1>3, LogGrowsControl DEF vars, busVars, CInv
  <2>3. QED
    BY <2>1, <2>2 DEF CInv
<1>4. QED
  BY <1>1, <1>2, <1>3 DEF Next

(* No control message is coalesced away, repeated or reordered. *)
THEOREM ControlIsComplete == Spec => []ControlComplete
<1>1. CInv => ControlComplete
  BY DEF CInv, ControlFor, ToldInOrder, ToldTo, DueTo, ControlComplete
<1>2. QED
  BY <1>1, InitControl, NextControl, PTL DEF Spec

-----------------------------------------------------------------------------
(***************************************************************************)
(* FramePipeline implements FrameDelivery: its initial states map to an    *)
(* initial state and each of its steps to a step of FrameDelivery or to a  *)
(* stutter, for any subscribers, capacity, rectangles and frame sizes.     *)
(***************************************************************************)

(* The inner loop of a writer looks at the position after the one in hand. *)
HandOK == \A s \in Subscribers : task[s] = "merge" => cursor[s] = hand[s] + 1

DInv == Shape /\ HandOK

-----------------------------------------------------------------------------
LEMMA InitDInv == Init => DInv
BY InitShape DEF DInv, HandOK, Init, BusInit

LEMMA NextDInv == DInv /\ [Next]_vars => DInv'
<1> SUFFICES ASSUME DInv, [Next]_vars
             PROVE  DInv'
    OBVIOUS
<1> USE DEF DInv
<1>1. CASE LoopStep
  <2>1. UNCHANGED <<task, cursor, hand>>
    BY <1>1 DEF LoopStep, TakeFrame, StoreFull, StoreDiff, PublishNext, FrameDone,
                TabEvent, busVars
  <2>2. QED
    BY <1>1, <2>1, LoopStepShape DEF HandOK
<1>2. ASSUME NEW s \in Subscribers, SubscriberStep(s)
      PROVE  DInv'
  <2> USE DEF Shape, TypeOK, BusTypeOK, HandOK, ReaderOK
  <2>1. Shape'
    BY <1>2, SubscriberStepShape
  <2>2. HandOK'
    <3>1. CASE Subscribe(s)
      BY <3>1 DEF Subscribe
    <3>2. CASE Snapshot(s, entry, Shown)
      BY <3>2 DEF Snapshot
    <3>3. CASE Recv(s)
      BY <3>3 DEF Recv
    <3>4. CASE RecvLagged(s)
      BY <3>4 DEF RecvLagged, JumpToOldest
    <3>5. CASE Supersede(s)
      BY <3>5 DEF Supersede
    <3>6. CASE WriteAndTake(s)
      BY <3>6 DEF WriteAndTake
    <3>7. CASE Drain(s)
      BY <3>7 DEF Drain
    <3>8. CASE DrainLagged(s)
      BY <3>8 DEF DrainLagged, JumpToOldest
    <3>9. CASE Disconnect(s)
      BY <3>9 DEF Disconnect
    <3>10. QED
      BY <1>2, <3>1, <3>2, <3>3, <3>4, <3>5, <3>6, <3>7, <3>8, <3>9
         DEF SubscriberStep, Merge
  <2>3. QED
    BY <2>1, <2>2
<1>3. CASE UNCHANGED vars
  BY <1>3 DEF vars, busVars, loopVars, HandOK, Shape, TypeOK, BusTypeOK, LoopTypeOK,
              ReaderOK, MessagesOK
<1>4. QED
  BY <1>1, <1>2, <1>3 DEF Next

-----------------------------------------------------------------------------
(* The refinement mapping. *)
On == [s \in Subscribers |-> Attached(s)]

Done == [s \in Subscribers |-> Delivered(s)]

(* What FrameDelivery sees of the subscribers. *)
ViewOfSubscribers == <<On, Done, screen, told>>

LEMMA InitDelivery == Init => Delivery!Init
<1> SUFFICES ASSUME Init
             PROVE  Delivery!Init
    OBVIOUS
<1> USE DEF Init, BusInit
<1>1. \A s \in Subscribers : Attached(s) = FALSE
  BY DEF Attached
<1>2. \A s \in Subscribers : Delivered(s) = 0
  BY DEF Delivered
<1>3. On = [s \in Subscribers |-> FALSE]
  BY <1>1, Zenon DEF On
<1>4. Done = [s \in Subscribers |-> 0]
  BY <1>2, Zenon DEF Done
<1>5. screen = [s \in Subscribers |-> Delivery!Blank]
  BY DEF Delivery!Blank, Blank
<1>6. QED
  BY <1>3, <1>4, <1>5 DEF Delivery!Init, On, Done, Shown

(* A message of the loop is a Send, or is sent to nobody. *)
LEMMA PublishSends ==
  ASSUME DInv, NEW m \in Item, log' = Published(m), Shown' = Shown,
         UNCHANGED <<task, cursor, hand, screen, told>>
  PROVE  [Delivery!Next]_(Delivery!vars)
<1> USE DEF DInv, Shape, TypeOK, BusTypeOK
<1>1. On' = On /\ Done' = Done
  BY DEF On, Done, Attached, Delivered
<1>2. CASE Receivers = {}
  BY <1>1, <1>2 DEF Published, Delivery!vars, On, Done
<1>3. CASE Receivers # {}
  <2>1. log' = Append(log, m) /\ Len(log') = Len(log) + 1 /\ log'[Len(log) + 1] = m
    BY <1>3 DEF Published
  <2>2. Len(log') > 0 /\ log' = Append(log, log'[Len(log')])
    BY <2>1
  <2>3. Delivery!Send
    BY <1>1, <2>2 DEF Delivery!Send, On, Done
  <2>4. QED
    BY <2>3 DEF Delivery!Next
<1>4. QED
  BY <1>2, <1>3

LEMMA LoopStepDelivers == DInv /\ LoopStep => [Delivery!Next]_(Delivery!vars)
<1> SUFFICES ASSUME DInv, LoopStep
             PROVE  [Delivery!Next]_(Delivery!vars)
    OBVIOUS
<1> USE DEF DInv, Shape, TypeOK, LoopTypeOK
<1>1. ASSUME UNCHANGED busVars, Shown' = Shown
      PROVE  UNCHANGED Delivery!vars
  BY <1>1 DEF busVars, Delivery!vars, Attached, Delivered
<1>2. ASSUME UNCHANGED busVars, Shown' \in Frame
      PROVE  Delivery!Next
  <2>1. Delivery!Render
    BY <1>2 DEF busVars, Delivery!Render, Delivery!Frame, Frame, Attached, Delivered
  <2>2. QED
    BY <2>1 DEF Delivery!Next
<1>3. ASSUME NEW g \in Geometries, NEW C \in SUBSET Pixels, TakeFrame(g, C)
      PROVE  [Delivery!Next]_(Delivery!vars)
  BY <1>1, <1>3 DEF TakeFrame, Shown
<1>4. CASE StoreFull
  BY <1>2, <1>4 DEF StoreFull, Shown
<1>5. ASSUME NEW R \in SUBSET Rects, StoreDiff(R)
      PROVE  [Delivery!Next]_(Delivery!vars)
  BY <1>2, <1>5 DEF StoreDiff, Shown
<1>6. ASSUME NEW m \in pending, PublishNext(m)
      PROVE  [Delivery!Next]_(Delivery!vars)
  BY <1>6, PublishSends DEF PublishNext, Shown
<1>7. CASE FrameDone
  BY <1>1, <1>7 DEF FrameDone, Shown
<1>8. ASSUME NEW force \in BOOLEAN, TabEvent(force)
      PROVE  [Delivery!Next]_(Delivery!vars)
  BY <1>8, PublishSends, MessagesAreItems DEF TabEvent, Shown
<1>9. QED
  BY <1>3, <1>4, <1>5, <1>6, <1>7, <1>8 DEF LoopStep

-----------------------------------------------------------------------------
(* The steps of a subscriber. *)

(* What has been read of the log is in it, and counts as delivered except  *)
(* for the message in hand.                                                *)
LEMMA DoneAndHand ==
  ASSUME DInv, NEW s \in Subscribers
  PROVE  /\ Delivered(s) \in Nat
         /\ task[s] = "merge" => /\ hand[s] = Delivered(s) + 1
                                 /\ cursor[s] = Delivered(s) + 2
                                 /\ hand[s] <= Len(log)
         /\ task[s] # "merge" => hand[s] = 0 /\ cursor[s] = Delivered(s) + 1
BY DEF DInv, Shape, TypeOK, BusTypeOK, ReaderOK, HandOK, Delivered

(* A message that another may replace is hidden by it. *)
LEMMA SupersededIsHidden ==
  ASSUME DInv, NEW i \in DOMAIN log, i + 1 \in DOMAIN log,
         Supersedes(log[i + 1], log[i])
  PROVE  Delivery!Hidden(i)
<1> USE DEF DInv, Shape, TypeOK, BusTypeOK
<1>1. log[i] \in Item
  OBVIOUS
<1>2. log[i + 1].kind = "raw" => log[i + 1].px = Pixels
  BY DEF MessagesOK
<1>3. log[i].kind # "ctl" /\ log[i].px \subseteq log[i + 1].px
  BY <1>1, <1>2 DEF Supersedes, Item
<1>4. QED
  BY <1>3 DEF Delivery!Hidden

(* Who is subscribed, and how far each one is, after a step of s. *)
LEMMA OnAfter ==
  ASSUME task \in [Subscribers -> {"off", "snapshot", "recv", "merge"}],
         NEW s \in Subscribers, NEW t, task' = [task EXCEPT ![s] = t]
  PROVE  /\ Attached(s) /\ t # "off" => On' = On
         /\ t # "off" => On' = [On EXCEPT ![s] = TRUE]
         /\ t = "off" => On' = [On EXCEPT ![s] = FALSE]
<1>1. \A u \in Subscribers : u # s => Attached(u)' = Attached(u)
  BY DEF Attached
<1>2. t # "off" => Attached(s)' = TRUE
  BY DEF Attached
<1>3. t = "off" => Attached(s)' = FALSE
  BY DEF Attached
<1>4. Attached(s) => Attached(s) = TRUE
  BY DEF Attached
<1>5. QED
  BY <1>1, <1>2, <1>3, <1>4, Zenon DEF On

LEMMA DoneAfter ==
  ASSUME cursor \in [Subscribers -> Nat \ {0}], hand \in [Subscribers -> Nat],
         NEW s \in Subscribers, NEW c, NEW h,
         cursor' = [cursor EXCEPT ![s] = c],
         hand' = [hand EXCEPT ![s] = h]
  PROVE  Done' = [Done EXCEPT ![s] = IF h = 0 THEN c - 1 ELSE h - 1]
BY DEF Done, Delivered

(* The lag of a writer is an overrun. *)
LEMMA LagIsOverrun ==
  ASSUME DInv, NEW s \in Subscribers, Lagged(s)
  PROVE  Len(log) > (cursor[s] - 1) + Capacity /\ Oldest - 1 = Len(log) - Capacity
BY BusAssumption DEF DInv, Shape, TypeOK, BusTypeOK, Lagged, Oldest

(* Writing the message in hand is the delivery of the next message. *)
LEMMA WriteHandDelivers ==
  ASSUME DInv, NEW s \in Subscribers, task[s] = "merge", WriteHand(s),
         log' = log, Shown' = Shown, On' = On,
         \/ Done' = [Done EXCEPT ![s] = hand[s]]
         \/ /\ Len(log) > hand[s] + Capacity
            /\ Done' = [Done EXCEPT ![s] = Len(log) - Capacity]
  PROVE  Delivery!Deliver(s)
<1> DEFINE n == Done[s] + 1
<1>1. n = hand[s] /\ n <= Len(log)
  BY DoneAndHand DEF Done
<1>2. On[s]
  BY DEF On, Attached
<1>3. /\ screen' = [screen EXCEPT ![s] = Delivery!Paint(@, log[n])]
      /\ told' = IF log[n].kind = "ctl" THEN [told EXCEPT ![s] = Append(@, n)] ELSE told
  BY <1>1 DEF WriteHand, Delivery!Paint, Paint
<1>4. Delivery!GoesOn(s, n) \/ Delivery!Overruns(s, n)
  BY <1>1 DEF Delivery!GoesOn, Delivery!Overruns, Done
<1>5. QED
  BY <1>1, <1>2, <1>3, <1>4 DEF Delivery!Deliver, On, Done

LEMMA SubscriberStepDelivers ==
  ASSUME DInv, NEW s \in Subscribers, SubscriberStep(s)
  PROVE  [Delivery!Next]_(Delivery!vars)
<1> USE DEF DInv, Shape, TypeOK, BusTypeOK
<1>1. Shown' = Shown
  BY DEF SubscriberStep, loopVars, Shown
<1>2. CASE Subscribe(s)
  <2>1. ~Attached(s) /\ hand[s] = 0 /\ hand' = [hand EXCEPT ![s] = 0]
    BY <1>2 DEF Subscribe, Attached, ReaderOK
  <2>2. On' = [On EXCEPT ![s] = TRUE] /\ Done' = [Done EXCEPT ![s] = Len(log)]
    <3>1. On' = [On EXCEPT ![s] = TRUE]
      <4>1. task' = [task EXCEPT ![s] = "snapshot"] /\ "snapshot" # "off"
        BY <1>2 DEF Subscribe
      <4>2. QED
        BY <4>1, OnAfter, Zenon
    <3>2. Done' = [Done EXCEPT ![s] = IF 0 = 0 THEN (Len(log) + 1) - 1 ELSE 0 - 1]
      BY <1>2, <2>1, DoneAfter DEF Subscribe
    <3>3. QED
      BY <3>1, <3>2
  <2>3. Delivery!Join(s)
    BY <1>1, <1>2, <2>1, <2>2 DEF Subscribe, Delivery!Join, On, Done
  <2>4. QED
    BY <2>3 DEF Delivery!Next
<1>3. CASE Snapshot(s, entry, Shown)
  <2>1. On' = On /\ Done' = Done /\ On[s]
    BY <1>3 DEF Snapshot, On, Done, Attached, Delivered
  <2>2. CASE entry = NoFrame
    BY <1>1, <1>3, <2>1, <2>2 DEF Snapshot, Delivery!vars, On, Done
  <2>3. CASE entry # NoFrame
    <3>1. entry = Shown
      BY <2>3 DEF Shown, LoopTypeOK
    <3>2. Delivery!Refresh(s)
      BY <1>1, <1>3, <2>1, <2>3, <3>1 DEF Snapshot, Delivery!Refresh, On, Done
    <3>3. QED
      BY <3>2 DEF Delivery!Next
  <2>4. QED
    BY <2>2, <2>3
<1>4. CASE Recv(s)
  <2>1. On' = On /\ Done' = Done
    BY <1>4 DEF Recv, On, Done, Attached, Delivered, ReaderOK
  <2>2. QED
    BY <1>1, <1>4, <2>1 DEF Recv, Delivery!vars, On, Done
<1>5. CASE RecvLagged(s)
  <2>1. On[s] /\ On' = On /\ Done[s] = cursor[s] - 1
    BY <1>5 DEF RecvLagged, On, Done, Attached, Delivered, ReaderOK
  <2>2. Len(log) > Done[s] + Capacity /\ Oldest - 1 = Len(log) - Capacity
    BY <1>5, <2>1, LagIsOverrun DEF RecvLagged
  <2>3. Done' = [Done EXCEPT ![s] = Oldest - 1]
    BY <1>5 DEF RecvLagged, JumpToOldest, Done, Delivered, ReaderOK
  <2>4. Delivery!Miss(s)
    BY <1>1, <1>5, <2>1, <2>2, <2>3
       DEF RecvLagged, Delivery!Miss, Delivery!Overruns, Delivery!GoesOn, On, Done
  <2>5. QED
    BY <2>4 DEF Delivery!Next
<1>6. CASE Supersede(s)
  <2>1. /\ hand[s] = Done[s] + 1 /\ cursor[s] = Done[s] + 2 /\ Done[s] \in Nat
        /\ cursor[s] <= Len(log)
    BY <1>6, DoneAndHand DEF Supersede, CanRead, Done
  <2>2. On[s] /\ On' = On /\ Done' = [Done EXCEPT ![s] = @ + 1]
    <3>1. On[s] /\ On' = On
      BY <1>6 DEF Supersede, On, Attached
    <3>2. Done' = [Done EXCEPT ![s] = IF cursor[s] = 0 THEN (cursor[s] + 1) - 1 ELSE cursor[s] - 1]
      BY <1>6, DoneAfter DEF Supersede
    <3>3. (IF cursor[s] = 0 THEN (cursor[s] + 1) - 1 ELSE cursor[s] - 1) = Done[s] + 1
      BY <2>1
    <3>4. QED
      BY <3>1, <3>2, <3>3, Zenon
  <2>3. Delivery!Hidden(Done[s] + 1)
    <3>1. Done[s] + 1 \in DOMAIN log /\ (Done[s] + 1) + 1 \in DOMAIN log
      BY <2>1
    <3>2. Supersedes(log[(Done[s] + 1) + 1], log[Done[s] + 1])
      BY <1>6, <2>1 DEF Supersede
    <3>3. QED
      BY <3>1, <3>2, SupersededIsHidden
  <2>4. Delivery!Omit(s)
    BY <1>1, <1>6, <2>1, <2>2, <2>3 DEF Supersede, Delivery!Omit, On, Done
  <2>5. QED
    BY <2>4 DEF Delivery!Next
<1>7. CASE WriteAndTake(s)
  <2>1. On' = On /\ Done' = [Done EXCEPT ![s] = hand[s]]
    <3>1. On' = On /\ cursor[s] = hand[s] + 1
      BY <1>7 DEF WriteAndTake, On, Attached, HandOK
    <3>2. Done' = [Done EXCEPT ![s] = IF cursor[s] = 0 THEN (cursor[s] + 1) - 1 ELSE cursor[s] - 1]
      BY <1>7, DoneAfter DEF WriteAndTake
    <3>3. (IF cursor[s] = 0 THEN (cursor[s] + 1) - 1 ELSE cursor[s] - 1) = hand[s]
      BY <3>1
    <3>4. QED
      BY <3>1, <3>2, <3>3, Zenon
  <2>2. Delivery!Deliver(s)
    BY <1>1, <1>7, <2>1, WriteHandDelivers DEF WriteAndTake
  <2>3. QED
    BY <2>2 DEF Delivery!Next
<1>8. CASE Drain(s)
  <2>1. On' = On /\ Done' = [Done EXCEPT ![s] = hand[s]]
    <3>1. Attached(s) /\ cursor[s] = hand[s] + 1 /\ cursor' = [cursor EXCEPT ![s] = cursor[s]]
      BY <1>8 DEF Drain, Attached, HandOK
    <3>2. On' = On
      <4>1. task' = [task EXCEPT ![s] = "recv"] /\ "recv" # "off"
        BY <1>8 DEF Drain
      <4>2. QED
        BY <3>1, <4>1, OnAfter, Zenon
    <3>3. Done' = [Done EXCEPT ![s] = IF 0 = 0 THEN cursor[s] - 1 ELSE 0 - 1]
      BY <1>8, <3>1, DoneAfter DEF Drain
    <3>4. (IF 0 = 0 THEN cursor[s] - 1 ELSE 0 - 1) = hand[s]
      BY <3>1
    <3>5. QED
      BY <3>2, <3>3, <3>4, Zenon
  <2>2. Delivery!Deliver(s)
    BY <1>1, <1>8, <2>1, WriteHandDelivers DEF Drain
  <2>3. QED
    BY <2>2 DEF Delivery!Next
<1>9. CASE DrainLagged(s)
  <2>1. cursor[s] - 1 = hand[s]
    BY <1>9 DEF DrainLagged, HandOK
  <2>2. Len(log) > hand[s] + Capacity /\ Oldest - 1 = Len(log) - Capacity
    BY <1>9, <2>1, LagIsOverrun DEF DrainLagged
  <2>3. On' = On /\ Done' = [Done EXCEPT ![s] = Oldest - 1]
    BY <1>9 DEF DrainLagged, JumpToOldest, On, Done, Attached, Delivered
  <2>4. Delivery!Deliver(s)
    BY <1>1, <1>9, <2>2, <2>3, WriteHandDelivers DEF DrainLagged
  <2>5. QED
    BY <2>4 DEF Delivery!Next
<1>10. CASE Disconnect(s)
  <2>1. On[s] /\ On' = [On EXCEPT ![s] = FALSE] /\ Done' = [Done EXCEPT ![s] = 0]
    <3>1. On[s]
      BY <1>10 DEF Disconnect, On
    <3>2. On' = [On EXCEPT ![s] = FALSE]
      BY <1>10, OnAfter DEF Disconnect
    <3>3. Done' = [Done EXCEPT ![s] = IF 0 = 0 THEN 1 - 1 ELSE 0 - 1]
      BY <1>10, DoneAfter DEF Disconnect
    <3>4. QED
      BY <3>1, <3>2, <3>3
  <2>2. Delivery!Leave(s)
    BY <1>1, <1>10, <2>1 DEF Disconnect, Delivery!Leave, Delivery!Blank, Blank, On, Done
  <2>3. QED
    BY <2>2 DEF Delivery!Next
<1>11. QED
  BY <1>2, <1>3, <1>4, <1>5, <1>6, <1>7, <1>8, <1>9, <1>10 DEF SubscriberStep, Merge

-----------------------------------------------------------------------------
(* The frame loop, the bus and the writers, whatever their interleaving,   *)
(* implement FrameDelivery (main.rs:226-364 and 644-731).                  *)
THEOREM PipelineDelivers == Spec => ImplementsDelivery
<1>1. DInv /\ [Next]_vars => [Delivery!Next]_(Delivery!vars)
  <2>1. ASSUME DInv, UNCHANGED vars
        PROVE  UNCHANGED Delivery!vars
    BY <2>1 DEF vars, busVars, loopVars, Delivery!vars, Attached, Delivered, Shown
  <2>2. QED
    BY <2>1, LoopStepDelivers, SubscriberStepDelivers DEF Next
<1>2. QED
  BY <1>1, InitDInv, NextDInv, InitDelivery, PTL DEF Spec, ImplementsDelivery, Delivery!Spec

-----------------------------------------------------------------------------
(***************************************************************************)
(* WebSocket subscribers converge too.  The freshness above is carried     *)
(* over the queue: while a snapshot waits there and nothing of the bus has *)
(* been read, the snapshot stands for the screen.                          *)
(***************************************************************************)

(* Only an attached WebSocket has a queue, and a writer that has an item   *)
(* in hand has read something.                                             *)
QueueOK(s) ==
  /\ queued[s] # NoFrame => s \in WebSockets /\ Attached(s)
  /\ since[s] <= cursor[s]
  /\ task[s] = "merge" => ~NothingRead(s)

(* A snapshot nothing has overtaken is right where the backlog leaves it. *)
QueuedFreshFor(s) ==
  queued[s] # NoFrame /\ NothingRead(s) =>
    \A p \in Pixels : Shown # NoFrame /\ Untouched(s, p) => queued[s][p] = Shown[p]

WsFreshFor(s) ==
  /\ QueueOK(s)
  /\ BacklogFreshFor(s)
  /\ QueuedFreshFor(s)
  /\ queued[s] = NoFrame => ScreenFreshFor(s)

QueuedTypeOK == queued \in [Subscribers -> Frame \cup {NoFrame}]

WsIInv == Shape /\ QueuedTypeOK /\ \A s \in Subscribers : WsFreshFor(s)

(* What the writer of s stands on does not change. *)
SameWriter(s) ==
  /\ task'[s] = task[s] /\ cursor'[s] = cursor[s] /\ since'[s] = since[s]
  /\ screen'[s] = screen[s] /\ torn'[s] = torn[s] /\ queued'[s] = queued[s]

-----------------------------------------------------------------------------
(* Steps of others: the frame loop and the other subscribers. *)

LEMMA QueuedCarried ==
  ASSUME NEW s \in Subscribers, WsFreshFor(s), SameWriter(s),
         BacklogFreshFor(s)', Attached(s) => Kept(s)
  PROVE  WsFreshFor(s)'
<1>1. QueueOK(s)'
  BY DEF WsFreshFor, QueueOK, SameWriter, NothingRead, Attached
<1>2. QueuedFreshFor(s)'
  BY DEF WsFreshFor, QueueOK, QueuedFreshFor, SameWriter, NothingRead, Kept
<1>3. ASSUME queued'[s] = NoFrame
      PROVE  ScreenFreshFor(s)'
  <2>1. ScreenFreshFor(s)
    BY <1>3 DEF WsFreshFor, SameWriter
  <2>2. CASE Attached(s)
    BY <2>1, <2>2, KeptScreen DEF SameWriter
  <2>3. CASE ~Attached(s)
    BY <2>3 DEF SameWriter, ScreenFreshFor, Attached
  <2>4. QED
    BY <2>2, <2>3
<1>4. QED
  BY <1>1, <1>2, <1>3 DEF WsFreshFor

LEMMA LoopStepQueued ==
  ASSUME Shape, NEW s \in Subscribers, WsFreshFor(s), LoopStep, UNCHANGED queued
  PROVE  WsFreshFor(s)'
<1>1. UNCHANGED <<task, cursor, since, screen, torn>>
  BY DEF LoopStep, TakeFrame, StoreFull, StoreDiff, PublishNext, FrameDone, TabEvent, busVars
<1>2. SameWriter(s)
  BY <1>1 DEF SameWriter
<1>3. BacklogFreshFor(s)' /\ (Attached(s) => Kept(s))
  BY LoopStepKeeps DEF WsFreshFor
<1>4. QED
  BY <1>2, <1>3, QueuedCarried

(* The steps WebSocketWriter takes over from the pipeline. *)
LEMMA TakenOver ==
  ASSUME NEW s \in Subscribers, WsSubscriberStep(s)
  PROVE  SubscriberStep(s) \/ QueueSnapshot(s) \/ WriteQueued(s)
BY DEF WsSubscriberStep, WsWrite, WriteSnapshot, WsDisconnect, SubscriberStep

(* The two steps of the queue change the writer of one subscriber only. *)
LEMMA QueueStepFrame ==
  ASSUME NEW t \in Subscribers, QueueSnapshot(t) \/ WriteQueued(t)
  PROVE  UNCHANGED <<log, cursor, hand, told, since, skipped, loopVars, Shown>>
BY DEF QueueSnapshot, WriteQueued, loopVars, Shown

LEMMA OtherStepQueued ==
  ASSUME Shape, QueuedTypeOK, NEW s \in Subscribers, NEW t \in Subscribers, t # s,
         WsFreshFor(s), WsSubscriberStep(t)
  PROVE  WsFreshFor(s)'
<1>1. BacklogFreshFor(s)
  BY DEF WsFreshFor
<1>2. queued'[s] = queued[s]
  BY DEF WsSubscriberStep, QueueSnapshot, WriteQueued, WsWrite, WsDisconnect, QueuedTypeOK
<1>3. CASE SubscriberStep(t)
  <2>1. /\ task'[s] = task[s] /\ cursor'[s] = cursor[s] /\ since'[s] = since[s]
        /\ screen'[s] = screen[s] /\ torn'[s] = torn[s]
    BY <1>3 DEF SubscriberStep, Subscribe, Snapshot, Recv, RecvLagged, Merge, Supersede,
       WriteAndTake, Drain, DrainLagged, Disconnect, WriteHand, JumpToOldest, Healed,
       Shape, TypeOK, BusTypeOK
  <2>2. QED
    BY <1>1, <1>2, <1>3, <2>1, OtherStepKeeps, QueuedCarried DEF SameWriter
<1>4. CASE QueueSnapshot(t) \/ WriteQueued(t)
  <2>1. UNCHANGED <<log, cursor, hand, since, pending, Shown>>
    BY <1>4, QueueStepFrame DEF loopVars
  <2>2. task'[s] = task[s] /\ screen'[s] = screen[s] /\ torn'[s] = torn[s]
    BY <1>4 DEF QueueSnapshot, WriteQueued, Shape, TypeOK, BusTypeOK
  <2>3. QED
    BY <1>1, <1>2, <2>1, <2>2, FreshUnchanged, QueuedCarried DEF SameWriter
<1>5. QED
  BY <1>3, <1>4, TakenOver

-----------------------------------------------------------------------------
(* Steps of the subscriber itself. *)

(* The read position only moves on, so once something has been read, or is *)
(* being read now, the queue says nothing of the screen.                   *)
LEMMA ReadsOn ==
  ASSUME Shape, NEW s \in Subscribers, QueueOK(s), Recv(s) \/ RecvLagged(s) \/ Merge(s),
         UNCHANGED queued
  PROVE  QueueOK(s)' /\ ~NothingRead(s)'
<1> USE DEF Shape, TypeOK, BusTypeOK
<1>1. since' = since /\ Attached(s)'
  BY DEF Recv, RecvLagged, Merge, Supersede, WriteAndTake, Drain, DrainLagged, Attached
<1>2. queued'[s] # NoFrame => s \in WebSockets
  BY DEF QueueOK
<1>3. since[s] <= cursor[s] /\ cursor[s] \in Nat /\ since[s] \in Nat /\ cursor'[s] \in Nat
  <2>1. Oldest \in Nat
    BY OldestInLog
  <2>2. QED
    BY <2>1 DEF QueueOK, Recv, RecvLagged, Merge, Supersede, WriteAndTake, Drain, DrainLagged,
       JumpToOldest
<1>4. CASE cursor'[s] > cursor[s]
  BY <1>1, <1>2, <1>3, <1>4 DEF QueueOK, NothingRead
<1>5. CASE ~(cursor'[s] > cursor[s])
  <2>1. Drain(s)
    BY <1>5, OldestInLog DEF Recv, RecvLagged, Merge, Supersede, WriteAndTake, DrainLagged,
       JumpToOldest, Lagged
  <2>2. cursor' = cursor /\ task[s] = "merge" /\ task'[s] = "recv"
    BY <2>1 DEF Drain
  <2>3. QED
    BY <1>1, <1>2, <1>3, <2>2 DEF QueueOK, NothingRead
<1>6. QED
  BY <1>4, <1>5

LEMMA OwnStepQueued ==
  ASSUME Shape, QueuedTypeOK, NEW s \in Subscribers, WsFreshFor(s), WsSubscriberStep(s)
  PROVE  WsFreshFor(s)'
<1>1. /\ BacklogFreshFor(s) /\ QueueOK(s) /\ QueuedFreshFor(s)
      /\ (queued[s] = NoFrame => ScreenFreshFor(s))
  BY DEF WsFreshFor
<1>2. SubscriberStep(s) => BacklogFreshFor(s)' /\ (ScreenFreshFor(s) => ScreenFreshFor(s)')
  BY <1>1, SubscriberStepKeeps
<1>3. CASE Subscribe(s) /\ UNCHANGED <<loopVars, queued>>
  <2>1. SubscriberStep(s)
    BY <1>3 DEF SubscriberStep
  <2>2. queued[s] = NoFrame /\ queued'[s] = NoFrame
    BY <1>1, <1>3 DEF Subscribe, QueueOK, Attached
  <2>3. task'[s] = "snapshot" /\ since'[s] = cursor'[s] /\ cursor'[s] \in Nat
    BY <1>3 DEF Subscribe, Shape, TypeOK, BusTypeOK
  <2>4. QueueOK(s)'
    BY <2>2, <2>3 DEF QueueOK
  <2>5. QED
    BY <1>1, <1>2, <2>1, <2>2, <2>4 DEF WsFreshFor, QueuedFreshFor
<1>4. CASE QueueSnapshot(s)
  <2>1. UNCHANGED <<log, cursor, hand, since, loopVars, Shown>>
    BY <1>4, QueueStepFrame
  <2>2. Attached(s) /\ task'[s] = "recv" /\ s \in WebSockets
    BY <1>4 DEF QueueSnapshot, Attached, Shape, TypeOK, BusTypeOK
  <2>3. queued'[s] = entry /\ torn'[s] = (entry = NoFrame /\ Shown # NoFrame)
    BY <1>4 DEF QueueSnapshot, QueuedTypeOK, Shape, TypeOK, BusTypeOK
  <2>4. QueueOK(s)'
    BY <1>1, <2>1, <2>2 DEF QueueOK, Attached
  <2>5. BacklogFreshFor(s)'
    <3>1. Backlog(s)' = Backlog(s)
      BY <2>1 DEF Backlog
    <3>2. QED
      BY <1>1, <2>1, <2>2, <3>1, BacklogSuffix
  <2>6. entry # NoFrame => Shown = entry
    BY DEF Shape, LoopTypeOK, Shown
  <2>7. QueuedFreshFor(s)'
    BY <2>1, <2>3, <2>6 DEF QueuedFreshFor
  <2>8. queued'[s] = NoFrame => ScreenFreshFor(s)'
    BY <2>1, <2>3 DEF ScreenFreshFor
  <2>9. QED
    BY <2>4, <2>5, <2>7, <2>8 DEF WsFreshFor
<1>5. CASE WriteQueued(s)
  <2>1. UNCHANGED <<log, cursor, hand, since, loopVars, pending, Shown, task>>
    BY <1>5, QueueStepFrame DEF WriteQueued, loopVars
  <2>2. /\ queued[s] # NoFrame /\ queued'[s] = NoFrame /\ screen'[s] = queued[s]
        /\ torn'[s] = ~NothingRead(s)
    BY <1>5 DEF WriteQueued, QueuedTypeOK, Shape, TypeOK, BusTypeOK
  <2>3. QueueOK(s)'
    BY <1>1, <2>1, <2>2 DEF QueueOK, NothingRead
  <2>4. BacklogFreshFor(s)' /\ Kept(s)
    BY <1>1, <2>1, FreshUnchanged
  <2>5. ASSUME NEW p \in Pixels, ~torn'[s], Shown' # NoFrame, Untouched(s, p)'
        PROVE  screen'[s][p] = Shown'[p]
    <3>1. NothingRead(s) /\ Shown # NoFrame /\ Untouched(s, p) /\ Shown' = Shown
      BY <2>1, <2>2, <2>4, <2>5 DEF Kept
    <3>2. queued[s][p] = Shown[p]
      BY <1>1, <2>2, <3>1 DEF QueuedFreshFor
    <3>3. QED
      BY <2>2, <3>1, <3>2
  <2>6. ScreenFreshFor(s)'
    BY <2>5 DEF ScreenFreshFor
  <2>7. QED
    BY <2>2, <2>3, <2>4, <2>6 DEF WsFreshFor, QueuedFreshFor
<1>6. CASE WriteSnapshot(s) /\ UNCHANGED <<loopVars, queued>>
  <2>1. SubscriberStep(s)
    BY <1>6 DEF WriteSnapshot, SubscriberStep
  <2>2. /\ UNCHANGED <<cursor, since>> /\ task'[s] = "recv" /\ Attached(s)'
        /\ (s \in WebSockets => ~NothingRead(s))
    BY <1>6 DEF WriteSnapshot, Snapshot, Attached, Shape, TypeOK, BusTypeOK
  <2>3. QueueOK(s)'
    BY <1>1, <1>6, <2>2 DEF QueueOK
  <2>4. QueuedFreshFor(s)'
    BY <1>1, <1>6, <2>2 DEF QueueOK, QueuedFreshFor, NothingRead
  <2>5. QED
    BY <1>1, <1>2, <1>6, <2>1, <2>3, <2>4 DEF WsFreshFor
<1>7. CASE (Recv(s) \/ RecvLagged(s) \/ Merge(s)) /\ UNCHANGED <<loopVars, queued>>
  <2>1. SubscriberStep(s)
    BY <1>7 DEF SubscriberStep
  <2>2. QueueOK(s)' /\ ~NothingRead(s)'
    BY <1>1, <1>7, ReadsOn
  <2>3. QED
    BY <1>1, <1>2, <1>7, <2>1, <2>2 DEF WsFreshFor, QueuedFreshFor
<1>8. CASE WsDisconnect(s)
  <2>1. SubscriberStep(s)
    BY <1>8 DEF WsDisconnect, SubscriberStep
  <2>2. queued'[s] = NoFrame /\ task'[s] = "off" /\ since'[s] = 1 /\ cursor'[s] = 1
    BY <1>8 DEF WsDisconnect, Disconnect, QueuedTypeOK, Shape, TypeOK, BusTypeOK
  <2>3. QueueOK(s)' /\ ScreenFreshFor(s)'
    BY <2>2 DEF QueueOK, ScreenFreshFor
  <2>4. QED
    BY <1>2, <2>1, <2>2, <2>3 DEF WsFreshFor, QueuedFreshFor
<1>9. QED
  BY <1>3, <1>4, <1>5, <1>6, <1>7, <1>8 DEF WsSubscriberStep, WsWrite

-----------------------------------------------------------------------------
(* The shape of the pipeline, and the type of the queue. *)

LEMMA WsSubscriberStepShape ==
  ASSUME Shape, QueuedTypeOK, NEW s \in Subscribers, WsSubscriberStep(s)
  PROVE  Shape' /\ QueuedTypeOK'
<1>1. ASSUME SubscriberStep(s)
      PROVE  Shape'
  BY <1>1, SubscriberStepShape
<1>2. ASSUME QueueSnapshot(s) \/ WriteQueued(s)
      PROVE  Shape'
  <2>1. UNCHANGED <<log, cursor, hand, told, since, skipped, loopVars>>
    BY <1>2, QueueStepFrame
  <2>2. /\ screen' \in [Subscribers -> Frame]
        /\ torn' \in [Subscribers -> BOOLEAN]
        /\ task' \in [Subscribers -> {"off", "snapshot", "recv", "merge"}]
    BY <1>2 DEF QueueSnapshot, WriteQueued, QueuedTypeOK, Shape, TypeOK, BusTypeOK
  <2>3. TypeOK' /\ LoopTypeOK' /\ MessagesOK'
    BY <2>1, <2>2 DEF Shape, TypeOK, BusTypeOK, LoopTypeOK, MessagesOK, loopVars
  <2>4. ReaderOK'
    BY <1>2, <2>1 DEF QueueSnapshot, WriteQueued, Shape, TypeOK, BusTypeOK, ReaderOK
  <2>5. QED
    BY <2>3, <2>4 DEF Shape
<1>3. QueuedTypeOK'
  <2>1. entry \in Frame \cup {NoFrame}
    BY DEF Shape, TypeOK
  <2>2. \/ queued' = queued
        \/ queued' = [queued EXCEPT ![s] = entry]
        \/ queued' = [queued EXCEPT ![s] = NoFrame]
    BY DEF WsSubscriberStep, QueueSnapshot, WriteQueued, WsWrite, WsDisconnect
  <2>3. QED
    BY <2>1, <2>2 DEF QueuedTypeOK
<1>4. QED
  BY <1>1, <1>2, <1>3, TakenOver

LEMMA InitWsIInv == WsInit => WsIInv
<1> SUFFICES ASSUME WsInit
             PROVE  WsIInv
    OBVIOUS
<1>1. Shape /\ QueuedTypeOK
  BY InitShape DEF WsInit, QueuedTypeOK
<1>2. ASSUME NEW s \in Subscribers
      PROVE  WsFreshFor(s)
  <2>1. task[s] = "off" /\ cursor[s] = 1 /\ since[s] = 1 /\ queued[s] = NoFrame
    BY DEF WsInit, Init, BusInit
  <2>2. QED
    BY <2>1 DEF WsFreshFor, QueueOK, QueuedFreshFor, BacklogFreshFor, ScreenFreshFor, Attached
<1>3. QED
  BY <1>1, <1>2 DEF WsIInv

LEMMA NextWsIInv == WsIInv /\ [WsNext]_wsVars => WsIInv'
<1> SUFFICES ASSUME WsIInv, [WsNext]_wsVars
             PROVE  WsIInv'
    OBVIOUS
<1>1. CASE LoopStep /\ UNCHANGED queued
  BY <1>1, LoopStepShape, LoopStepQueued DEF WsIInv, QueuedTypeOK
<1>2. ASSUME NEW t \in Subscribers, WsSubscriberStep(t)
      PROVE  WsIInv'
  <2>1. ASSUME NEW s \in Subscribers
        PROVE  WsFreshFor(s)'
    BY <1>2, OwnStepQueued, OtherStepQueued DEF WsIInv
  <2>2. QED
    BY <1>2, <2>1, WsSubscriberStepShape DEF WsIInv
<1>3. CASE UNCHANGED wsVars
  <2>1. UNCHANGED <<busVars, loopVars, Shown, queued>>
    BY <1>3 DEF wsVars, vars, busVars, loopVars, Shown
  <2>2. Shape' /\ QueuedTypeOK'
    BY <2>1 DEF WsIInv, QueuedTypeOK, Shape, TypeOK, BusTypeOK, LoopTypeOK, ReaderOK, MessagesOK,
       busVars, loopVars
  <2>3. ASSUME NEW s \in Subscribers
        PROVE  WsFreshFor(s)'
    <3>1. BacklogFreshFor(s)' /\ Kept(s) /\ SameWriter(s)
      BY <2>1, FreshUnchanged DEF WsIInv, WsFreshFor, SameWriter, busVars, loopVars
    <3>2. QED
      BY <3>1, QueuedCarried DEF WsIInv
  <2>4. QED
    BY <2>2, <2>3 DEF WsIInv
<1>4. QED
  BY <1>1, <1>2, <1>3 DEF WsNext

(* A WebSocket whose queue is empty and that has read everything shows the *)
(* host's framebuffer, as every other subscriber does, unless its snapshot *)
(* was overtaken or a lag left it torn.                                    *)
THEOREM WebSocketsConverge == WsSpec => []WsConverged
<1>1. ASSUME WsIInv
      PROVE  WsConverged
  <2> SUFFICES ASSUME NEW s \in Subscribers, Settled(s), queued[s] = NoFrame, ~torn[s],
                      Shown # NoFrame
               PROVE  screen[s] = Shown
      BY DEF WsConverged
  <2> USE DEF WsIInv, Shape, TypeOK, BusTypeOK
  <2>1. Backlog(s) = {}
    BY <1>1 DEF Settled, Backlog, ReaderOK
  <2>2. \A p \in Pixels : Untouched(s, p)
    BY <2>1 DEF Settled, Untouched, ToBePublished
  <2>3. \A p \in Pixels : screen[s][p] = Shown[p]
    BY <1>1, <2>2 DEF Settled, WsFreshFor, ScreenFreshFor
  <2>4. screen[s] \in Frame /\ Shown \in Frame
    BY <1>1 DEF Shown
  <2>5. QED
    BY <2>3, <2>4 DEF Frame
<1>2. QED
  BY <1>1, InitWsIInv, NextWsIInv, PTL DEF WsSpec

=============================================================================
