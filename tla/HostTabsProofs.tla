--------------------------- MODULE HostTabsProofs ---------------------------
(***************************************************************************)
(* Theorems about HostTabs, for any number of connections and tabs: what   *)
(* switch_tab announces, the titles and urls a client is shown, and the    *)
(* views of WebKit against the table of tabs, however the handlers, the    *)
(* frame loop and WebKit's thread interleave.                              *)
(***************************************************************************)
EXTENDS HostTabs, FiniteSetTheorems, TLAPS

Places == {"idle", "store", "lock", "raw", "meta", "announce",
           "insert", "create", "remove", "drop", "close"}

Calls == [op : {"create", "close"}, tab : Tabs]

(* A handler is somewhere, about some tab; the frame it may have cloned is *)
(* of no concern here.                                                     *)
HandlerOK == \E F : handler \in [Conns -> [pc : Places, tab : Tabs, copy : F]]

TableOK ==
  /\ tabs \subseteq Tabs /\ live \subseteq Tabs /\ active \in Tabs /\ cur \in Tabs
  /\ posted \in Seq(Calls)
  /\ ~ready => posted = <<>> /\ live = {}
  /\ meta \in [Tabs -> [Fields -> Nat]] /\ shown \in [Fields -> Nat]
  /\ news \in Nat /\ stamp \in Nat
  /\ loop \in {"news", "check", "tell"} => field \in Fields

Shape == HandlerOK /\ TableOK

(* switch_tab has set active_tab_id and has not returned. *)
Switching(c) == At(c, {"lock", "raw", "meta", "announce"})

(* A tab has gone into the table and will be switched to. *)
Creating(c, t) == At(c, {"create", "store"}) /\ handler[c].tab = t

(* The active tab is not in the table, or about to be made active again. *)
Settling == active \notin tabs \/ \E c \in Conns : Creating(c, active)

(* What has been announced is right, or will be.  A switch that is not     *)
(* raced is the only one under way.                                        *)
AnnounceInv ==
  "announced" \notin raced =>
    /\ \A c \in Conns : Switching(c) => handler[c].tab = active
    /\ announced = active \/ Settling \/ \E c \in Conns : Switching(c)

Telling == loop \in {"check", "tell"} /\ cur = active

BeforeMeta(c) == At(c, {"lock", "raw", "meta"})

(* What has been shown is right but for what the loop is about to tell,    *)
(* which is what the table holds.                                          *)
ShownRight == \A f \in Fields : shown[f] = meta[active][f] \/ (Telling /\ f = field)

MetaSettled ==
  /\ Telling => news = meta[active][field]
  /\ ShownRight \/ \E c \in Conns : BeforeMeta(c)

MetaInv ==
  "meta" \notin raced =>
    /\ "announced" \notin raced
    /\ loop = "tell" => cur = active
    /\ Settling \/ MetaSettled

(* Once WebKit is up and the calls posted have run there is a view for t,  *)
(* if WPE makes the views it is asked for.                                 *)
WillHaveView(t) ==
  \/ ~ready /\ t = FirstTab
  \/ ready /\ t \in live /\ \A j \in DOMAIN posted : posted[j].tab # t
  \/ \E i \in DOMAIN posted :
        /\ posted[i].tab = t /\ posted[i].op = "create"
        /\ \A j \in DOMAIN posted : posted[j].tab = t => j <= i

(* Table and views agree about a tab none of whose calls came to nothing,  *)
(* or a handler has still to see to it.                                    *)
ViewInv ==
  "view" \notin raced =>
    \A t \in Tabs \ missed :
      \/ t \in tabs <=> WillHaveView(t)
      \/ t \in tabs /\ \E c \in Conns : handler[c].pc = "create" /\ handler[c].tab = t
      \/ t \notin tabs /\ \E c \in Conns : At(c, {"drop", "close"}) /\ handler[c].tab = t

-----------------------------------------------------------------------------
(* What becomes of the handlers. *)

OthersStay(c) == \A d \in Conns \ {c} : handler'[d] = handler[d]

LEMMA HandlerFacts ==
  ASSUME HandlerOK, NEW c \in Conns
  PROVE  handler[c].pc \in Places /\ handler[c].tab \in Tabs
  BY DEF HandlerOK

LEMMA GotoMoves ==
  ASSUME HandlerOK, NEW c \in Conns, NEW p \in Places, Goto(c, p)
  PROVE  /\ HandlerOK' /\ OthersStay(c)
         /\ handler'[c].pc = p /\ handler'[c].tab = handler[c].tab
<1>1. PICK F : handler \in [Conns -> [pc : Places, tab : Tabs, copy : F]]
  BY DEF HandlerOK
<1>2. handler' \in [Conns -> [pc : Places, tab : Tabs, copy : F]]
  BY <1>1 DEF Goto
<1>3. HandlerOK'
  BY <1>2 DEF HandlerOK
<1>4. QED
  BY <1>1, <1>3 DEF Goto, OthersStay

LEMMA ResetMoves ==
  ASSUME HandlerOK, NEW c \in Conns, NEW p \in Places, NEW t \in Tabs, NEW f,
         handler' = [handler EXCEPT ![c] = [pc |-> p, tab |-> t, copy |-> f]]
  PROVE  HandlerOK' /\ OthersStay(c) /\ handler'[c].pc = p /\ handler'[c].tab = t
<1>1. PICK F : handler \in [Conns -> [pc : Places, tab : Tabs, copy : F]]
  BY DEF HandlerOK
<1>2. handler \in [Conns -> [pc : Places, tab : Tabs, copy : F \cup {f}]]
  BY <1>1
<1>3. handler' \in [Conns -> [pc : Places, tab : Tabs, copy : F \cup {f}]]
  BY <1>2
<1>4. HandlerOK'
  BY <1>3 DEF HandlerOK
<1>5. QED
  BY <1>1, <1>4 DEF OthersStay

LEMMA CloneMoves ==
  ASSUME HandlerOK, NEW c \in Conns, NEW f,
         handler' = [handler EXCEPT ![c].pc = "raw", ![c].copy = f]
  PROVE  HandlerOK' /\ OthersStay(c) /\ handler'[c].pc = "raw" /\ handler'[c].tab = handler[c].tab
<1>1. PICK F : handler \in [Conns -> [pc : Places, tab : Tabs, copy : F]]
  BY DEF HandlerOK
<1>2. handler \in [Conns -> [pc : Places, tab : Tabs, copy : F \cup {f}]]
  BY <1>1
<1>3. "raw" \in Places
  BY DEF Places
<1>4. handler' \in [Conns -> [pc : Places, tab : Tabs, copy : F \cup {f}]]
  BY <1>2, <1>3
<1>5. HandlerOK'
  BY <1>4 DEF HandlerOK
<1>6. QED
  BY <1>2, <1>5 DEF OthersStay

-----------------------------------------------------------------------------
LEMMA InitInvariants == Init => Shape /\ AnnounceInv /\ MetaInv /\ ViewInv
<1> SUFFICES ASSUME Init PROVE Shape /\ AnnounceInv /\ MetaInv /\ ViewInv
    OBVIOUS
<1>1. FirstTab \in Tabs
  BY TabsAssumption
<1>2. handler \in [Conns -> [pc : Places, tab : Tabs, copy : {NoFrame}]]
  BY <1>1 DEF Init, Idle, Places
<1>3. HandlerOK
  BY <1>2 DEF HandlerOK
<1>4. meta \in [Tabs -> [Fields -> Nat]] /\ shown \in [Fields -> Nat]
  BY DEF Init
<1>5. posted \in Seq(Calls)
  BY DEF Init
<1>6. TableOK
  BY <1>1, <1>4, <1>5 DEF Init, TableOK
<1>7. AnnounceInv
  BY DEF Init, AnnounceInv, Switching, At, Idle
<1>8. MetaInv
  <2>1. loop = "idle" /\ "announced" \notin raced
    BY DEF Init
  <2>2. ~Telling
    BY <2>1 DEF Telling
  <2>3. ShownRight
    BY <1>1 DEF Init, ShownRight
  <2>4. QED
    BY <2>1, <2>2, <2>3 DEF MetaInv, MetaSettled
<1>9. ViewInv
  BY DEF Init, ViewInv, WillHaveView
<1>10. QED
  BY <1>3, <1>6, <1>7, <1>8, <1>9 DEF Shape

-----------------------------------------------------------------------------
(* The steps of the frame loop, as the table and the handlers see them. *)

SameRaces == \A x \in {"announced", "meta", "view"} : x \in raced' <=> x \in raced

LoopPlaces == {"news", "check", "tell"}

LoopEffect ==
  /\ UNCHANGED <<tabs, ready, live, posted, missed, active, announced, meta, stamp, handler, field>>
  /\ SameRaces
  /\ \/ /\ loop \notin LoopPlaces /\ loop' \notin LoopPlaces
        /\ UNCHANGED <<news, shown>> /\ cur' \in Tabs \cup {cur}
     \/ CheckActive
     \/ TellMeta

LEMMA LoopFacts == LoopStep => LoopEffect
<1> USE DEF LoopEffect
<1> SUFFICES ASSUME LoopStep PROVE LoopEffect
    OBVIOUS
<1>1. CASE ReceiveBatch \/ Stash \/ FrameDone \/ BatchDone
  BY <1>1 DEF ReceiveBatch, Stash, FrameDone, BatchDone, tableVars, webVars, clientVars,
              SameRaces, LoopPlaces
<1>2. ASSUME NEW t \in Tabs, PickActive(t) \/ PickInactive(t)
      PROVE  LoopEffect
  BY <1>2 DEF PickActive, PickInactive, PickFrame, tableVars, webVars, clientVars,
              SameRaces, LoopPlaces
<1>3. CASE StoreFull \/ \E R \in SUBSET Rects : StoreDiff(R)
  <2>1. PICK msgs : Store(msgs)
    BY <1>3 DEF StoreFull, StoreDiff
  <2>2. QED
    BY <2>1 DEF Store, webVars, clientVars, SameRaces, LoopPlaces
<1>4. ASSUME NEW m \in pending, PublishNext(m)
      PROVE  LoopEffect
  BY <1>4 DEF PublishNext, tableVars, webVars, SameRaces, LoopPlaces
<1>5. CASE CheckActive
  BY <1>5 DEF CheckActive, tableVars, webVars, clientVars, SameRaces
<1>6. CASE TellMeta
  BY <1>6 DEF TellMeta, tableVars, webVars, SameRaces
<1>7. QED
  BY <1>1, <1>2, <1>3, <1>4, <1>5, <1>6 DEF LoopStep

-----------------------------------------------------------------------------
(* Shape is inductive. *)

LEMMA PostedCalls ==
  ASSUME NEW op \in {"create", "close"}, NEW t \in Tabs, posted \in Seq(Calls),
         Post(op, t) \/ PostNothing(t)
  PROVE  posted' \in Seq(Calls) /\ (~ready => posted' = posted)
<1>1. [op |-> op, tab |-> t] \in Calls
  BY DEF Calls
<1>2. CASE Post(op, t)
  BY <1>1, <1>2 DEF Post
<1>3. CASE PostNothing(t)
  BY <1>3 DEF PostNothing
<1>4. QED
  BY <1>2, <1>3

LEMMA HandlerShape ==
  ASSUME Shape, NEW c \in Conns, HandlerStep(c) \/ Locking(c)
  PROVE  Shape'
<1>1. HandlerOK /\ handler[c].tab \in Tabs
  BY HandlerFacts DEF Shape
<1>2. \A p \in Places : Goto(c, p) => HandlerOK'
  BY <1>1, GotoMoves
<1>3. handler' = [handler EXCEPT ![c] = Idle] => HandlerOK'
  BY <1>1, ResetMoves, TabsAssumption DEF Idle, Places
<1>4. ASSUME TableOK, UNCHANGED <<tabs, ready, live, active, cur, posted, meta, shown, news, stamp, loop, field>>
      PROVE  TableOK'
  BY <1>4 DEF TableOK
<1> USE DEF tableVars, webVars, loopVars, clientVars
<1>5. CASE SetActive(c)
  BY <1>1, <1>2, <1>5 DEF SetActive, Shape, TableOK, Places
<1>6. CASE LockAndClone(c)
  <2>1. HandlerOK'
    BY <1>1, <1>3, <1>6, CloneMoves DEF LockAndClone
  <2>2. QED
    BY <1>4, <1>6, <2>1 DEF LockAndClone, Shape
<1>7. CASE PublishRaw(c)
  BY <1>2, <1>4, <1>7 DEF PublishRaw, Shape, Places
<1>8. CASE PublishMeta(c)
  BY <1>1, <1>2, <1>8 DEF PublishMeta, Shape, TableOK, Places
<1>9. CASE PublishActivated(c)
  BY <1>3, <1>4, <1>9 DEF PublishActivated, Shape
<1>10. CASE InsertTab(c)
  BY <1>1, <1>2, <1>10 DEF InsertTab, Shape, TableOK, Places
<1>11. CASE PostCreate(c)
  <2>3. Post("create", handler[c].tab) \/ PostNothing(handler[c].tab)
    BY <1>11 DEF PostCreate
  <2>1. posted' \in Seq(Calls) /\ (~ready => posted' = posted)
    BY <1>1, <2>3, PostedCalls DEF Shape, TableOK
  <2>2. QED
    BY <1>2, <1>11, <2>1 DEF PostCreate, Shape, TableOK, Places
<1>12. CASE RemoveTab(c)
  BY <1>2, <1>12 DEF RemoveTab, Shape, TableOK, Places
<1>13. CASE DropEntry(c)
  BY <1>2, <1>4, <1>13 DEF DropEntry, Shape, Places
<1>14. CASE PostClose(c)
  <2>3. Post("close", handler[c].tab) \/ PostNothing(handler[c].tab)
    BY <1>14 DEF PostClose
  <2>1. posted' \in Seq(Calls) /\ (~ready => posted' = posted)
    BY <1>1, <2>3, PostedCalls DEF Shape, TableOK
  <2>2. QED
    BY <1>3, <1>14, <2>1 DEF PostClose, Shape, TableOK
<1>15. QED
  BY <1>5, <1>6, <1>7, <1>8, <1>9, <1>10, <1>11, <1>12, <1>13, <1>14 DEF HandlerStep, Locking

LEMMA NextShape == Shape /\ [Next]_vars => Shape'
<1> SUFFICES ASSUME Shape, [Next]_vars PROVE Shape'
    OBVIOUS
<1>1. HandlerOK /\ TableOK
  BY DEF Shape
<1>2. handler' = handler => HandlerOK'
  BY <1>1 DEF HandlerOK
<1>3. CASE WebKit
  BY <1>1, <1>2, <1>3 DEF WebKit, Render, Shape, TableOK, tableVars, loopVars, clientVars
<1>4. CASE Event
  BY <1>1, <1>2, <1>4 DEF Event, LoadEvent, ReceiveMeta, Shape, TableOK, tableVars, webVars, clientVars
<1>11. CASE Start
  <2>1. live' \subseteq Tabs /\ ready' /\ UNCHANGED posted
    BY <1>1, <1>11, TabsAssumption DEF Start, OpenView, TableOK
  <2>2. QED
    BY <1>1, <1>2, <1>11, <2>1 DEF Start, Shape, TableOK, tableVars, loopVars, clientVars
<1>5. CASE RunPosted
  <2>1. Head(posted) \in Calls /\ posted' \in Seq(Calls) /\ ready /\ ready'
    BY <1>1, <1>5 DEF RunPosted, TableOK
  <2>2. live' \subseteq Tabs
    BY <1>1, <1>5, <2>1 DEF RunPosted, OpenView, CloseView, TableOK, Calls
  <2>3. QED
    BY <1>1, <1>2, <1>5, <2>1, <2>2 DEF RunPosted, Shape, TableOK, tableVars, loopVars, clientVars
<1>6. CASE LoopStep
  <2>1. CASE CheckActive
    BY <1>1, <1>2, <2>1 DEF CheckActive, Shape, TableOK, tableVars, webVars, clientVars
  <2>2. CASE TellMeta
    BY <1>1, <1>2, <2>2 DEF TellMeta, Shape, TableOK, tableVars, webVars
  <2>3. QED
    BY <1>1, <1>2, <1>6, <2>1, <2>2, LoopFacts DEF LoopEffect, LoopPlaces, Shape, TableOK
<1>7. CASE StoreMeta
  BY <1>1, <1>2, <1>7 DEF StoreMeta, Shape, TableOK, webVars, clientVars
<1>8. ASSUME NEW c \in Conns, NEW t \in Tabs, Ask(c, t)
      PROVE  Shape'
  <2>1. PICK p \in Places : Request(c, t, p)
    BY <1>8 DEF Ask, Places
  <2>2. HandlerOK'
    BY <1>1, <2>1, ResetMoves DEF Request
  <2>3. QED
    BY <1>1, <2>1, <2>2 DEF Request, Shape, TableOK, tableVars, webVars, loopVars, clientVars
<1>9. CASE UNCHANGED vars
  BY <1>1, <1>2, <1>9 DEF vars, Shape, TableOK, tableVars, webVars, loopVars, clientVars
<1>10. QED
  BY <1>3, <1>4, <1>5, <1>6, <1>7, <1>8, <1>9, <1>11, HandlerShape DEF Next

-----------------------------------------------------------------------------
(* What is announced. *)

(* What an idle handler is asked to do is no switch that has begun. *)
LEMMA RequestEffect ==
  ASSUME Shape, NEW c \in Conns, NEW t \in Tabs, Ask(c, t)
  PROVE  /\ UNCHANGED <<tableVars, webVars, loopVars, clientVars, raced>>
         /\ OthersStay(c) /\ handler[c].pc = "idle"
         /\ handler'[c].pc \in {"store", "insert", "remove"} /\ handler'[c].tab = t
<1>1. PICK p \in {"store", "insert", "remove"} : Request(c, t, p)
  BY DEF Ask
<1>2. p \in Places /\ HandlerOK
  BY DEF Places, Shape
<1>3. OthersStay(c) /\ handler'[c].pc = p /\ handler'[c].tab = t
  BY <1>1, <1>2, ResetMoves DEF Request
<1>4. QED
  BY <1>1, <1>3 DEF Request, At

(* Steps that leave the handlers, the table and the announcement alone. *)
LEMMA AnnounceStays ==
  ASSUME AnnounceInv, UNCHANGED <<tabs, active, announced, handler>>, SameRaces
  PROVE  AnnounceInv'
  BY DEF AnnounceInv, SameRaces, Settling, Creating, Switching, At

(* A handler that goes from one place of a switch to the next. *)
LEMMA SwitchGoesOn ==
  ASSUME AnnounceInv, NEW c \in Conns, OthersStay(c), SameRaces,
         Switching(c), Switching(c)', handler'[c].tab = handler[c].tab,
         UNCHANGED <<tabs, active>>
  PROVE  AnnounceInv'
<1>1. \A d \in Conns : Switching(d) <=> Switching(d)'
  BY DEF OthersStay, Switching, At
<1>2. \A d \in Conns : handler'[d].tab = handler[d].tab
  BY DEF OthersStay
<1>3. QED
  BY <1>1, <1>2 DEF AnnounceInv, SameRaces

LEMMA HandlerAnnounce ==
  ASSUME Shape, AnnounceInv, NEW c \in Conns, HandlerStep(c) \/ Locking(c)
  PROVE  AnnounceInv'
<1>1. HandlerOK /\ handler[c].tab \in Tabs /\ handler[c].pc \in Places
  BY HandlerFacts DEF Shape
<1>2. \A p \in Places : Goto(c, p) =>
        OthersStay(c) /\ handler'[c].pc = p /\ handler'[c].tab = handler[c].tab
  BY <1>1, GotoMoves
<1>3. handler' = [handler EXCEPT ![c] = Idle] => OthersStay(c) /\ handler'[c].pc = "idle"
  BY <1>1, ResetMoves, TabsAssumption DEF Idle, Places
<1> USE DEF tableVars, webVars, loopVars, clientVars
<1>4. CASE SetActive(c)
  <2>1. /\ OthersStay(c) /\ handler'[c].pc = "lock" /\ handler'[c].tab = active'
    BY <1>2, <1>4 DEF SetActive, Places
  <2>2. Switching(c)'
    BY <2>1 DEF Switching, At
  <2>3. ASSUME "announced" \notin raced', NEW d \in Conns, Switching(d)'
        PROVE  d = c
    BY <1>4, <2>1, <2>3 DEF SetActive, Exposed, MidSwitch, Switching, OthersStay, At
  <2>4. QED
    BY <2>1, <2>2, <2>3 DEF AnnounceInv
<1>5. CASE LockAndClone(c) /\ handler[c].tab \in tabs
  <2>1. OthersStay(c) /\ handler'[c].pc = "raw" /\ handler'[c].tab = handler[c].tab
    BY <1>1, <1>5, CloneMoves DEF LockAndClone
  <2>2. QED
    BY <1>5, <2>1, SwitchGoesOn DEF LockAndClone, Switching, At, SameRaces
<1>6. CASE LockAndClone(c) /\ handler[c].tab \notin tabs
  <2>1. OthersStay(c) /\ handler'[c].pc = "idle" /\ UNCHANGED <<tabs, active, announced, raced>>
    BY <1>3, <1>6 DEF LockAndClone
  <2>2. Switching(c) /\ ~Switching(c)'
    BY <1>6, <2>1 DEF LockAndClone, Switching, At
  <2>3. \A d \in Conns : Switching(d)' => d # c /\ Switching(d) /\ handler'[d] = handler[d]
    BY <2>1, <2>2 DEF Switching, OthersStay, At
  <2>4. "announced" \notin raced => active \notin tabs
    BY <1>6, <2>2 DEF AnnounceInv
  <2>5. QED
    BY <2>1, <2>3, <2>4 DEF AnnounceInv, Settling
<1>7. CASE PublishRaw(c)
  BY <1>2, <1>7, SwitchGoesOn DEF PublishRaw, Switching, At, SameRaces, Places
<1>8. CASE PublishMeta(c)
  BY <1>2, <1>8, SwitchGoesOn DEF PublishMeta, Switching, At, SameRaces, Places
<1>9. CASE PublishActivated(c)
  <2>1. /\ OthersStay(c) /\ handler'[c].pc = "idle" /\ UNCHANGED <<tabs, active, raced>>
        /\ announced' = handler[c].tab
    BY <1>3, <1>9 DEF PublishActivated
  <2>2. Switching(c) /\ ~Switching(c)'
    BY <1>9, <2>1 DEF PublishActivated, Switching, At
  <2>3. \A d \in Conns : Switching(d)' => d # c /\ Switching(d) /\ handler'[d] = handler[d]
    BY <2>1, <2>2 DEF Switching, OthersStay, At
  <2>4. QED
    BY <2>1, <2>2, <2>3 DEF AnnounceInv
<1>10. CASE InsertTab(c)
  <2>1. /\ OthersStay(c) /\ handler[c].pc = "insert" /\ handler'[c].pc = "create"
        /\ handler'[c].tab = handler[c].tab
        /\ tabs' = tabs \cup {handler[c].tab} /\ UNCHANGED <<active, announced, raced>>
    BY <1>2, <1>10 DEF InsertTab, Places, At
  <2>2. \A d \in Conns : Switching(d)' <=> d # c /\ Switching(d)
    BY <2>1 DEF Switching, OthersStay, At
  <2>3. ~Switching(c) /\ \A d \in Conns \ {c} : handler'[d] = handler[d]
    BY <2>1 DEF Switching, OthersStay, At
  <2>4. ASSUME Settling PROVE Settling'
    <3>1. CASE handler[c].tab = active
      BY <2>1, <3>1 DEF Settling, Creating, At
    <3>2. CASE handler[c].tab # active /\ active \notin tabs
      BY <2>1, <3>2 DEF Settling
    <3>3. CASE \E d \in Conns : Creating(d, active)
      BY <2>1, <2>3, <3>3 DEF Settling, Creating, At
    <3>4. QED
      BY <2>4, <3>1, <3>2, <3>3 DEF Settling
  <2>5. QED
    BY <2>1, <2>2, <2>3, <2>4 DEF AnnounceInv
<1>11. CASE PostCreate(c)
  <2>1. /\ OthersStay(c) /\ handler[c].pc = "create" /\ handler'[c].pc = "store"
        /\ handler'[c].tab = handler[c].tab
        /\ raced' \in {raced, raced \cup {"view"}} /\ UNCHANGED <<tabs, active, announced>>
    BY <1>2, <1>11 DEF PostCreate, TooLate, Places, At
  <2>2. \A d \in Conns : /\ Switching(d)' <=> Switching(d)
                         /\ handler'[d].tab = handler[d].tab
                         /\ Creating(d, active)' <=> Creating(d, active)
    BY <2>1 DEF Switching, Creating, OthersStay, At
  <2>3. QED
    BY <2>1, <2>2 DEF AnnounceInv, Settling
<1>12. CASE RemoveTab(c) \/ DropEntry(c) \/ PostClose(c)
  <2>1. /\ OthersStay(c) /\ handler[c].pc \in {"remove", "drop", "close"}
        /\ handler'[c].pc \in {"drop", "close", "idle"} /\ tabs' \subseteq tabs
        /\ raced' \in {raced, raced \cup {"view"}} /\ UNCHANGED <<active, announced>>
    BY <1>2, <1>3, <1>12 DEF RemoveTab, DropEntry, PostClose, TooLate, Places, At
  <2>2. \A d \in Conns : Switching(d)' <=> d # c /\ Switching(d)
    BY <2>1 DEF Switching, OthersStay, At
  <2>3. ~Switching(c) /\ \A d \in Conns \ {c} : handler'[d] = handler[d]
    BY <2>1 DEF Switching, OthersStay, At
  <2>4. Settling => Settling'
    BY <2>1, <2>3 DEF Settling, Creating, At
  <2>5. QED
    BY <2>1, <2>2, <2>3, <2>4 DEF AnnounceInv
<1>13. QED
  BY <1>4, <1>5, <1>6, <1>7, <1>8, <1>9, <1>10, <1>11, <1>12 DEF HandlerStep, Locking

LEMMA NextAnnounce == Shape /\ AnnounceInv /\ [Next]_vars => AnnounceInv'
<1> SUFFICES ASSUME Shape, AnnounceInv, [Next]_vars PROVE AnnounceInv'
    OBVIOUS
<1> USE DEF tableVars, webVars, loopVars, clientVars
<1>1. CASE WebKit \/ Event \/ Start \/ RunPosted \/ StoreMeta \/ UNCHANGED vars
  BY <1>1, AnnounceStays DEF WebKit, Render, Event, LoadEvent, ReceiveMeta, Start, RunPosted, StoreMeta,
     vars, SameRaces
<1>2. CASE LoopStep
  BY <1>2, LoopFacts, AnnounceStays DEF LoopEffect
<1>3. ASSUME NEW c \in Conns, NEW t \in Tabs, Ask(c, t)
      PROVE  AnnounceInv'
  <2>1. /\ UNCHANGED <<tabs, active, announced, raced>> /\ OthersStay(c)
        /\ handler[c].pc = "idle" /\ handler'[c].pc \in {"store", "insert", "remove"}
    BY <1>3, RequestEffect
  <2>2. \A d \in Conns : Switching(d)' <=> d # c /\ Switching(d)
    BY <2>1 DEF Switching, OthersStay, At
  <2>3. ~Switching(c) /\ \A d \in Conns \ {c} : handler'[d] = handler[d]
    BY <2>1 DEF Switching, OthersStay, At
  <2>4. Settling => Settling'
    BY <2>1, <2>3 DEF Settling, Creating, At
  <2>5. QED
    BY <2>1, <2>2, <2>3, <2>4 DEF AnnounceInv
<1>4. QED
  BY <1>1, <1>2, <1>3, HandlerAnnounce DEF Next

-----------------------------------------------------------------------------
(* Views. *)

(* A call posted decides about its tab and about no other. *)
LEMMA PostedView ==
  ASSUME TableOK, ready, ready', NEW call \in Calls, posted' = Append(posted, call),
         live' = live, NEW t \in Tabs
  PROVE  WillHaveView(t)' <=> IF call.tab = t THEN call.op = "create" ELSE WillHaveView(t)
<1>1. /\ Len(posted) \in Nat /\ DOMAIN posted = 1 .. Len(posted)
      /\ DOMAIN posted' = 1 .. Len(posted) + 1 /\ posted'[Len(posted) + 1] = call
      /\ \A i \in DOMAIN posted : posted'[i] = posted[i]
  BY DEF TableOK
<1>2. DOMAIN posted' = DOMAIN posted \cup {Len(posted) + 1} /\ Len(posted) + 1 \in DOMAIN posted'
  BY <1>1
<1>3. \A i \in DOMAIN posted : i <= Len(posted) + 1 /\ ~(Len(posted) + 1 <= i)
  BY <1>1
<1>4. CASE call.tab = t /\ call.op = "create"
  BY <1>1, <1>2, <1>3, <1>4 DEF WillHaveView
<1>5. CASE call.tab = t /\ call.op # "create"
  BY <1>1, <1>2, <1>3, <1>5 DEF WillHaveView
<1>6. CASE call.tab # t
  <2>1. \A j \in DOMAIN posted' : posted'[j].tab = t => j \in DOMAIN posted /\ posted[j].tab = t
    BY <1>1, <1>2, <1>6
  <2>2. \A j \in DOMAIN posted : posted'[j] = posted[j] /\ j \in DOMAIN posted'
    BY <1>1, <1>2
  <2>3. QED
    BY <1>6, <2>1, <2>2 DEF WillHaveView
<1>7. QED
  BY <1>4, <1>5, <1>6

(* Running the call at the head changes nothing about the outcome, but for *)
(* a tab WPE makes no view for.                                            *)
LEMMA RunView ==
  ASSUME TableOK, RunPosted, NEW t \in Tabs, t \notin missed'
  PROVE  WillHaveView(t)' <=> WillHaveView(t)
<1> DEFINE n == Len(posted)
<1>1. /\ posted # <<>> /\ posted' = Tail(posted) /\ n \in Nat /\ DOMAIN posted = 1 .. n
      /\ posted[1] \in Calls /\ Head(posted) = posted[1] /\ ready /\ ready'
  BY DEF RunPosted, TableOK
<1>2. /\ n >= 1 /\ DOMAIN posted' = 1 .. n - 1
      /\ \A i \in DOMAIN posted' : posted'[i] = posted[i + 1] /\ i + 1 \in DOMAIN posted
      /\ \A i \in DOMAIN posted : i = 1 \/ (i - 1 \in DOMAIN posted' /\ posted'[i - 1] = posted[i])
  BY <1>1 DEF TableOK
<1>3. /\ posted[1].tab = t => (t \in live' <=> posted[1].op = "create")
      /\ posted[1].tab # t => (t \in live' <=> t \in live)
  BY <1>1 DEF RunPosted, OpenView, CloseView, Calls
<1>4. ASSUME WillHaveView(t)' PROVE WillHaveView(t)
  <2>1. CASE t \in live' /\ \A j \in DOMAIN posted' : posted'[j].tab # t
    <3>1. \A j \in DOMAIN posted : posted[j].tab = t => j = 1
      BY <1>2, <2>1
    <3>2. CASE posted[1].tab = t
      BY <1>1, <1>2, <1>3, <2>1, <3>1, <3>2 DEF WillHaveView
    <3>3. CASE posted[1].tab # t
      BY <1>1, <1>3, <2>1, <3>1, <3>3 DEF WillHaveView
    <3>4. QED
      BY <3>2, <3>3
  <2>2. ASSUME NEW i \in DOMAIN posted', posted'[i].tab = t, posted'[i].op = "create",
               \A j \in DOMAIN posted' : posted'[j].tab = t => j <= i
        PROVE  WillHaveView(t)
    <3>1. i + 1 \in DOMAIN posted /\ posted[i + 1].tab = t /\ posted[i + 1].op = "create"
      BY <1>2, <2>2
    <3>2. ASSUME NEW j \in DOMAIN posted, posted[j].tab = t PROVE j <= i + 1
      <4>1. CASE j = 1
        BY <1>2, <4>1
      <4>2. CASE j # 1
        <5>1. j - 1 \in DOMAIN posted' /\ posted'[j - 1].tab = t
          BY <1>2, <3>2, <4>2
        <5>2. j - 1 <= i
          BY <2>2, <5>1
        <5>3. QED
          BY <1>1, <1>2, <5>2
      <4>3. QED
        BY <4>1, <4>2
    <3>3. QED
      BY <3>1, <3>2 DEF WillHaveView
  <2>3. QED
    BY <1>1, <1>4, <2>1, <2>2 DEF WillHaveView
<1>5. ASSUME WillHaveView(t) PROVE WillHaveView(t)'
  <2>1. CASE t \in live /\ \A j \in DOMAIN posted : posted[j].tab # t
    <3>1. t \in live'
      BY <1>1, <1>2, <1>3, <2>1
    <3>2. \A j \in DOMAIN posted' : posted'[j].tab # t
      BY <1>2, <2>1
    <3>3. QED
      BY <1>1, <3>1, <3>2 DEF WillHaveView
  <2>2. ASSUME NEW i \in DOMAIN posted, posted[i].tab = t, posted[i].op = "create",
               \A j \in DOMAIN posted : posted[j].tab = t => j <= i
        PROVE  WillHaveView(t)'
    <3>1. CASE i = 1
      <4>1. \A j \in DOMAIN posted' : posted'[j].tab # t
        <5>1. SUFFICES ASSUME NEW j \in DOMAIN posted', posted'[j].tab = t PROVE FALSE
          OBVIOUS
        <5>2. j + 1 <= 1
          BY <1>2, <2>2, <3>1, <5>1
        <5>3. QED
          BY <1>1, <1>2, <5>1, <5>2
      <4>2. QED
        BY <1>1, <1>3, <2>2, <3>1, <4>1 DEF WillHaveView
    <3>2. CASE i # 1
      <4>1. i - 1 \in DOMAIN posted' /\ posted'[i - 1].tab = t /\ posted'[i - 1].op = "create"
        BY <1>2, <2>2, <3>2
      <4>2. ASSUME NEW j \in DOMAIN posted', posted'[j].tab = t PROVE j <= i - 1
        <5>1. j + 1 <= i
          BY <1>2, <2>2, <4>2
        <5>2. QED
          BY <1>1, <1>2, <5>1
      <4>3. QED
        BY <4>1, <4>2 DEF WillHaveView
    <3>3. QED
      BY <3>1, <3>2
  <2>3. QED
    BY <1>1, <1>5, <2>1, <2>2 DEF WillHaveView
<1>6. QED
  BY <1>4, <1>5

(* A handler that has still to see to a tab. *)
InsertedAt(c, t) == handler[c].pc = "create" /\ handler[c].tab = t
RemovedAt(c, t) == At(c, {"drop", "close"}) /\ handler[c].tab = t

StillSeen ==
  \A c \in Conns, t \in Tabs : /\ InsertedAt(c, t) => InsertedAt(c, t)'
                               /\ RemovedAt(c, t) => RemovedAt(c, t)'

SameOutcome ==
  \A t \in Tabs \ missed' : t \notin missed /\ (WillHaveView(t)' <=> WillHaveView(t))

(* Steps that neither change the table, the views or the calls, nor leave  *)
(* a place where a handler has still to see to a tab.                      *)
LEMMA ViewStays ==
  ASSUME ViewInv, "view" \in raced' <=> "view" \in raced, tabs' = tabs,
         SameOutcome, StillSeen
  PROVE  ViewInv'
<1> SUFFICES ASSUME "view" \notin raced', NEW t \in Tabs \ missed'
             PROVE  \/ t \in tabs' <=> WillHaveView(t)'
                    \/ t \in tabs' /\ \E c \in Conns : InsertedAt(c, t)'
                    \/ t \notin tabs' /\ \E c \in Conns : RemovedAt(c, t)'
    BY DEF ViewInv, InsertedAt, RemovedAt
<1>1. \/ t \in tabs <=> WillHaveView(t)
      \/ t \in tabs /\ \E c \in Conns : InsertedAt(c, t)
      \/ t \notin tabs /\ \E c \in Conns : RemovedAt(c, t)
  BY DEF ViewInv, InsertedAt, RemovedAt, SameOutcome
<1> HIDE DEF InsertedAt, RemovedAt, WillHaveView
<1> USE DEF SameOutcome, StillSeen
<1>2. CASE t \in tabs <=> WillHaveView(t)
  BY <1>2
<1>3. CASE t \in tabs /\ \E c \in Conns : InsertedAt(c, t)
  <2>1. PICK c \in Conns : InsertedAt(c, t)
    BY <1>3
  <2>2. InsertedAt(c, t)'
    BY <2>1 DEF InsertedAt, RemovedAt, At
  <2>3. QED
    BY <1>3, <2>2
<1>4. CASE t \notin tabs /\ \E c \in Conns : RemovedAt(c, t)
  <2>1. PICK c \in Conns : RemovedAt(c, t)
    BY <1>4
  <2>2. RemovedAt(c, t)'
    BY <2>1 DEF InsertedAt, RemovedAt, At
  <2>3. QED
    BY <1>4, <2>2
<1>5. QED
  BY <1>1, <1>2, <1>3, <1>4

LEMMA SameCalls ==
  ASSUME UNCHANGED <<ready, live, posted, missed>>
  PROVE  SameOutcome
  BY DEF SameOutcome, WillHaveView

(* A handler that is nowhere near the table or the view of its tab. *)
LEMMA ViewElsewhere ==
  ASSUME ViewInv, NEW c \in Conns, OthersStay(c), "view" \in raced' <=> "view" \in raced,
         ~At(c, {"create", "drop", "close"}), UNCHANGED <<tabs, ready, live, posted, missed>>
  PROVE  ViewInv'
<1>1. StillSeen
  BY DEF StillSeen, InsertedAt, RemovedAt, OthersStay, At
<1>2. QED
  BY <1>1, SameCalls, ViewStays

LEMMA HandlerView ==
  ASSUME Shape, ViewInv, NEW c \in Conns, HandlerStep(c) \/ Locking(c)
  PROVE  ViewInv'
<1>1. HandlerOK /\ TableOK /\ handler[c].tab \in Tabs
  BY HandlerFacts DEF Shape
<1>2. \A p \in Places : Goto(c, p) =>
        OthersStay(c) /\ handler'[c].pc = p /\ handler'[c].tab = handler[c].tab
  BY <1>1, GotoMoves
<1>3. handler' = [handler EXCEPT ![c] = Idle] => OthersStay(c) /\ handler'[c].pc = "idle"
  BY <1>1, ResetMoves, TabsAssumption DEF Idle, Places
<1> USE DEF tableVars, webVars, loopVars, clientVars
<1>4. CASE SetActive(c) \/ PublishRaw(c) \/ PublishMeta(c) \/ PublishActivated(c)
  <2>1. /\ OthersStay(c) /\ UNCHANGED <<tabs, ready, live, posted, missed>>
        /\ ~At(c, {"create", "drop", "close"})
    BY <1>2, <1>3, <1>4 DEF SetActive, PublishRaw, PublishMeta, PublishActivated, Places, At
  <2>2. "view" \in raced' <=> "view" \in raced
    BY <1>4 DEF SetActive, PublishRaw, PublishMeta, PublishActivated, Exposed
  <2>3. QED
    BY <2>1, <2>2, ViewElsewhere
<1>5. CASE LockAndClone(c)
  <2>1. OthersStay(c)
    BY <1>1, <1>3, <1>5, CloneMoves DEF LockAndClone
  <2>2. QED
    BY <1>5, <2>1, ViewElsewhere DEF LockAndClone, At
<1>6. ASSUME OthersStay(c), UNCHANGED <<ready, live, posted, missed, raced>>,
             \/ /\ tabs' = tabs \cup {handler[c].tab} /\ ~At(c, {"create", "drop", "close"})
                /\ At(c, {"create"})' /\ handler'[c].tab = handler[c].tab
             \/ /\ tabs' = tabs \ {handler[c].tab} /\ ~At(c, {"create"})
                /\ At(c, {"drop", "close"})' /\ handler'[c].tab = handler[c].tab
      PROVE  ViewInv'
  <2> SUFFICES ASSUME "view" \notin raced', NEW t \in Tabs \ missed'
               PROVE  \/ t \in tabs' <=> WillHaveView(t)'
                      \/ t \in tabs' /\ \E d \in Conns : InsertedAt(d, t)'
                      \/ t \notin tabs' /\ \E d \in Conns : RemovedAt(d, t)'
      BY DEF ViewInv, InsertedAt, RemovedAt
  <2>1. \A d \in Conns \ {c} : /\ InsertedAt(d, t) => InsertedAt(d, t)'
                               /\ RemovedAt(d, t) => RemovedAt(d, t)'
    BY <1>6 DEF InsertedAt, RemovedAt, OthersStay, At
  <2>2. CASE t = handler[c].tab
    <3>1. \/ t \in tabs' /\ InsertedAt(c, t)'
          \/ t \notin tabs' /\ RemovedAt(c, t)'
      BY <1>6, <2>2 DEF InsertedAt, RemovedAt, At
    <3>2. QED
      BY <3>1
  <2>3. CASE t # handler[c].tab
    <3>1. (t \in tabs <=> t \in tabs') /\ ~InsertedAt(c, t) /\ ~RemovedAt(c, t)
      BY <1>6, <2>3 DEF InsertedAt, RemovedAt
    <3>2. \/ t \in tabs <=> WillHaveView(t)
          \/ t \in tabs /\ \E d \in Conns : InsertedAt(d, t)
          \/ t \notin tabs /\ \E d \in Conns : RemovedAt(d, t)
      BY <1>6 DEF ViewInv, InsertedAt, RemovedAt
    <3>3. WillHaveView(t)' <=> WillHaveView(t)
      BY <1>6, SameCalls DEF SameOutcome
    <3> HIDE DEF InsertedAt, RemovedAt, WillHaveView
    <3>4. CASE t \in tabs <=> WillHaveView(t)
      BY <3>1, <3>3, <3>4
    <3>5. CASE t \in tabs /\ \E d \in Conns : InsertedAt(d, t)
      <4>1. PICK d \in Conns : InsertedAt(d, t)
        BY <3>5
      <4>2. InsertedAt(d, t)'
        BY <2>1, <3>1, <4>1 DEF InsertedAt, RemovedAt, At
      <4>3. QED
        BY <2>1, <3>1, <3>5, <4>2
    <3>6. CASE t \notin tabs /\ \E d \in Conns : RemovedAt(d, t)
      <4>1. PICK d \in Conns : RemovedAt(d, t)
        BY <3>6
      <4>2. RemovedAt(d, t)'
        BY <2>1, <3>1, <4>1 DEF InsertedAt, RemovedAt, At
      <4>3. QED
        BY <2>1, <3>1, <3>6, <4>2
    <3>7. QED
      BY <3>2, <3>4, <3>5, <3>6
  <2>4. QED
    BY <2>2, <2>3
<1>7. CASE InsertTab(c)
  <2>1. /\ OthersStay(c) /\ UNCHANGED <<ready, live, posted, missed, raced>>
        /\ tabs' = tabs \cup {handler[c].tab} /\ ~At(c, {"create", "drop", "close"})
        /\ At(c, {"create"})' /\ handler'[c].tab = handler[c].tab
    BY <1>2, <1>7 DEF InsertTab, InsertedAt, Places, At
  <2>2. QED
    BY <1>6, <2>1
<1>8. CASE RemoveTab(c)
  <2>1. /\ OthersStay(c) /\ UNCHANGED <<ready, live, posted, missed, raced>>
        /\ tabs' = tabs \ {handler[c].tab} /\ ~At(c, {"create"})
        /\ At(c, {"drop", "close"})' /\ handler'[c].tab = handler[c].tab
    BY <1>2, <1>8 DEF RemoveTab, RemovedAt, Places, At
  <2>2. QED
    BY <1>6, <2>1
<1>9. CASE DropEntry(c)
  <2>1. /\ OthersStay(c) /\ UNCHANGED <<tabs, ready, live, posted, missed, raced>> /\ At(c, {"drop"})
        /\ handler'[c].pc = "close" /\ handler'[c].tab = handler[c].tab
    BY <1>2, <1>9 DEF DropEntry, Places
  <2>2. StillSeen
    BY <2>1 DEF StillSeen, InsertedAt, RemovedAt, OthersStay, At
  <2>3. ("view" \in raced' <=> "view" \in raced) /\ tabs' = tabs
    BY <2>1
  <2>4. SameOutcome
    BY <2>1, SameCalls
  <2>5. QED
    BY ONLY ViewInv, <2>2, <2>3, <2>4, ViewStays
<1>10. ASSUME OthersStay(c), tabs' = tabs, NEW op \in {"create", "close"},
              \A t \in Tabs \ missed' :
                 IF t = handler[c].tab THEN WillHaveView(t)' <=> op = "create"
                 ELSE t \notin missed /\ (WillHaveView(t)' <=> WillHaveView(t)),
              \/ op = "create" /\ raced' = TooLate(c, TRUE) /\ ~At(c, {"drop", "close"})
              \/ op # "create" /\ raced' = TooLate(c, FALSE) /\ ~At(c, {"create"})
       PROVE  ViewInv'
  <2> SUFFICES ASSUME "view" \notin raced', NEW t \in Tabs \ missed'
               PROVE  \/ t \in tabs' <=> WillHaveView(t)'
                      \/ t \in tabs' /\ \E d \in Conns : InsertedAt(d, t)'
                      \/ t \notin tabs' /\ \E d \in Conns : RemovedAt(d, t)'
      BY DEF ViewInv, InsertedAt, RemovedAt
  <2>1. "view" \notin raced /\ (handler[c].tab \in tabs <=> op = "create")
    BY <1>10 DEF TooLate
  <2>3. CASE t = handler[c].tab
    BY <1>10, <2>1, <2>3
  <2>4. CASE t # handler[c].tab
    <3>1. \A d \in Conns : /\ InsertedAt(d, t) => InsertedAt(d, t)'
                           /\ RemovedAt(d, t) => RemovedAt(d, t)'
      BY <1>10, <2>4 DEF InsertedAt, RemovedAt, OthersStay, At
    <3>2. \/ t \in tabs <=> WillHaveView(t)
          \/ t \in tabs /\ \E d \in Conns : InsertedAt(d, t)
          \/ t \notin tabs /\ \E d \in Conns : RemovedAt(d, t)
      BY <1>10, <2>1, <2>4 DEF ViewInv, InsertedAt, RemovedAt
    <3>3. (WillHaveView(t)' <=> WillHaveView(t)) /\ tabs' = tabs
      BY <1>10, <2>4
    <3> HIDE DEF InsertedAt, RemovedAt, WillHaveView
    <3>4. CASE t \in tabs <=> WillHaveView(t)
      BY <3>3, <3>4
    <3>5. CASE t \in tabs /\ \E d \in Conns : InsertedAt(d, t)
      <4>1. PICK d \in Conns : InsertedAt(d, t)
        BY <3>5
      <4>2. InsertedAt(d, t)'
        BY <3>1, <3>3, <4>1 DEF InsertedAt, RemovedAt, At
      <4>3. QED
        BY <3>1, <3>3, <3>5, <4>2
    <3>6. CASE t \notin tabs /\ \E d \in Conns : RemovedAt(d, t)
      <4>1. PICK d \in Conns : RemovedAt(d, t)
        BY <3>6
      <4>2. RemovedAt(d, t)'
        BY <3>1, <3>3, <4>1 DEF InsertedAt, RemovedAt, At
      <4>3. QED
        BY <3>1, <3>3, <3>6, <4>2
    <3>7. QED
      BY <3>2, <3>4, <3>5, <3>6
  <2>5. QED
    BY <2>3, <2>4
<1>14. ASSUME NEW op \in {"create", "close"}, UNCHANGED <<ready, live>>,
              Post(op, handler[c].tab) \/ PostNothing(handler[c].tab)
       PROVE  \A t \in Tabs \ missed' :
                 IF t = handler[c].tab THEN WillHaveView(t)' <=> op = "create"
                 ELSE t \notin missed /\ (WillHaveView(t)' <=> WillHaveView(t))
  <2>1. CASE Post(op, handler[c].tab)
    <3> DEFINE call == [op |-> op, tab |-> handler[c].tab]
    <3>1. call \in Calls /\ call.op = op /\ call.tab = handler[c].tab
      BY <1>1, <1>14 DEF Calls
    <3>2. posted' = Append(posted, call) /\ missed' = missed \ {handler[c].tab} /\ ready
      BY <2>1 DEF Post
    <3> HIDE DEF call
    <3>3. \A t \in Tabs : WillHaveView(t)' <=> IF call.tab = t THEN call.op = "create"
                                              ELSE WillHaveView(t)
      BY <1>1, <1>14, <3>1, <3>2, PostedView
    <3>4. QED
      BY <3>1, <3>2, <3>3
  <2>2. CASE PostNothing(handler[c].tab)
    BY <1>14, <2>2 DEF PostNothing, WillHaveView
  <2>3. QED
    BY <1>14, <2>1, <2>2
<1>11. CASE PostCreate(c)
  <2>1. OthersStay(c) /\ UNCHANGED <<tabs, ready, live>> /\ ~At(c, {"drop", "close"})
    BY <1>2, <1>11 DEF PostCreate, Places, At
  <2>2. raced' = TooLate(c, TRUE)
    BY <1>11 DEF PostCreate
  <2>3. Post("create", handler[c].tab) \/ PostNothing(handler[c].tab)
    BY <1>11 DEF PostCreate
  <2> DEFINE op == "create"
  <2>4. op \in {"create", "close"} /\ (op = "create" <=> TRUE)
    OBVIOUS
  <2>5. Post(op, handler[c].tab) \/ PostNothing(handler[c].tab)
    BY <2>3
  <2> HIDE DEF op
  <2>6. \A t \in Tabs \ missed' :
           IF t = handler[c].tab THEN WillHaveView(t)' <=> op = "create"
           ELSE t \notin missed /\ (WillHaveView(t)' <=> WillHaveView(t))
    BY <1>14, <2>1, <2>4, <2>5
  <2>7. QED
    BY <1>10, <2>1, <2>2, <2>4, <2>6
<1>12. CASE PostClose(c)
  <2>1. OthersStay(c) /\ UNCHANGED <<tabs, ready, live>> /\ ~At(c, {"create"})
    BY <1>3, <1>12 DEF PostClose, At
  <2>2. raced' = TooLate(c, FALSE)
    BY <1>12 DEF PostClose
  <2>3. Post("close", handler[c].tab) \/ PostNothing(handler[c].tab)
    BY <1>12 DEF PostClose
  <2> DEFINE op == "close"
  <2>4. op \in {"create", "close"} /\ (op = "create" <=> FALSE)
    OBVIOUS
  <2>5. Post(op, handler[c].tab) \/ PostNothing(handler[c].tab)
    BY <2>3
  <2> HIDE DEF op
  <2>6. \A t \in Tabs \ missed' :
           IF t = handler[c].tab THEN WillHaveView(t)' <=> op = "create"
           ELSE t \notin missed /\ (WillHaveView(t)' <=> WillHaveView(t))
    BY <1>14, <2>1, <2>4, <2>5
  <2>7. QED
    BY <1>10, <2>1, <2>2, <2>4, <2>6
<1>13. QED
  BY <1>4, <1>5, <1>7, <1>8, <1>9, <1>11, <1>12 DEF HandlerStep, Locking

LEMMA NextView == Shape /\ ViewInv /\ [Next]_vars => ViewInv'
<1> SUFFICES ASSUME Shape, ViewInv, [Next]_vars PROVE ViewInv'
    OBVIOUS
<1> USE DEF tableVars, webVars, loopVars, clientVars
<1>1. ASSUME UNCHANGED <<tabs, ready, live, posted, missed, handler>>, SameRaces
      PROVE  ViewInv'
  BY <1>1 DEF ViewInv, WillHaveView, SameRaces, At
<1>2. CASE WebKit \/ Event \/ StoreMeta \/ UNCHANGED vars
  BY <1>1, <1>2 DEF WebKit, Render, Event, LoadEvent, ReceiveMeta, StoreMeta, vars, SameRaces
<1>3. CASE LoopStep
  BY <1>1, <1>3, LoopFacts DEF LoopEffect
<1>4. CASE Start \/ RunPosted
  <2>1. missed \subseteq missed'
    BY <1>4 DEF Start, RunPosted, OpenView, CloseView
  <2>4. ASSUME RunPosted PROVE SameOutcome
    <3>1. \A t \in Tabs : t \notin missed' => (WillHaveView(t)' <=> WillHaveView(t))
      BY <2>4, RunView DEF Shape
    <3>2. QED
      BY <2>1, <3>1 DEF SameOutcome
  <2>5. ASSUME Start PROVE SameOutcome
    <3>1. ~ready /\ ready' /\ live = {} /\ posted = <<>> /\ posted' = <<>>
      BY <2>5 DEF Start, Shape, TableOK
    <3>2. live' = {FirstTab} \/ (live' = {} /\ FirstTab \in missed')
      BY <2>5, <3>1 DEF Start, OpenView
    <3>3. \A t \in Tabs : (WillHaveView(t) <=> t = FirstTab) /\ (WillHaveView(t)' <=> t \in live')
      BY <3>1 DEF WillHaveView
    <3>4. \A t \in Tabs \ missed' : t \notin missed /\ (WillHaveView(t)' <=> WillHaveView(t))
      BY <2>1, <3>2, <3>3
    <3>5. QED
      BY <3>4 DEF SameOutcome
  <2>6. SameOutcome
    BY <1>4, <2>4, <2>5
  <2>2. UNCHANGED <<tabs, handler, raced>>
    BY <1>4 DEF Start, RunPosted
  <2>3. StillSeen
    BY <2>2 DEF StillSeen, InsertedAt, RemovedAt, At
  <2>7. QED
    BY <2>2, <2>3, <2>6, ViewStays
<1>5. ASSUME NEW c \in Conns, NEW t \in Tabs, Ask(c, t)
      PROVE  ViewInv'
  BY <1>5, RequestEffect, ViewElsewhere DEF At
<1>6. QED
  BY <1>2, <1>3, <1>4, <1>5, HandlerView DEF Next

-----------------------------------------------------------------------------
(* Title and url. *)

(* Steps of a handler that leave the loop, the table's metadata and what   *)
(* is shown alone, and are not the end of a switch.                        *)
LEMMA MetaStays ==
  ASSUME MetaInv, UNCHANGED <<active, loop, cur, field, news, meta, shown>>,
         "announced" \in raced' <=> "announced" \in raced, "meta" \in raced' <=> "meta" \in raced,
         Settling => Settling',
         \A c \in Conns : BeforeMeta(c) => BeforeMeta(c)' \/ ShownRight \/ Settling'
  PROVE  MetaInv'
<1>1. Telling' = Telling /\ ShownRight' = ShownRight
  BY DEF Telling, ShownRight
<1> SUFFICES ASSUME "meta" \notin raced'
             PROVE  /\ "announced" \notin raced'
                    /\ loop' = "tell" => cur' = active'
                    /\ Settling' \/ MetaSettled'
    BY DEF MetaInv
<1>2. "meta" \notin raced /\ "announced" \notin raced /\ "announced" \notin raced'
  BY DEF MetaInv
<1>3. loop' = "tell" => cur' = active'
  BY <1>2 DEF MetaInv
<1>4. CASE Settling
  BY <1>2, <1>3, <1>4
<1>5. CASE MetaSettled
  <2>1. Telling' => news' = meta'[active'][field']
    BY <1>1, <1>5 DEF MetaSettled
  <2>2. CASE ShownRight
    BY <1>1, <1>2, <1>3, <2>1, <2>2 DEF MetaSettled
  <2>3. CASE \E c \in Conns : BeforeMeta(c)
    <3>1. PICK c \in Conns : BeforeMeta(c)
      BY <2>3
    <3>2. BeforeMeta(c)' \/ ShownRight \/ Settling'
      BY <3>1 DEF BeforeMeta
    <3>3. CASE BeforeMeta(c)'
      BY <1>2, <1>3, <2>1, <3>3 DEF MetaSettled
    <3>4. QED
      BY <1>1, <1>2, <1>3, <2>1, <3>2, <3>3 DEF MetaSettled
  <2>4. QED
    BY <1>5, <2>2, <2>3 DEF MetaSettled
<1>6. QED
  BY <1>2, <1>4, <1>5 DEF MetaInv

(* The steps of the loop: what it stores it is about to tell, and it tells *)
(* it only while the tab is active.                                        *)
LEMMA LoopMeta ==
  ASSUME Shape, MetaInv, LoopStep \/ StoreMeta \/ Event
  PROVE  MetaInv'
<1> SUFFICES ASSUME "meta" \notin raced'
             PROVE  /\ "announced" \notin raced'
                    /\ loop' = "tell" => cur' = active'
                    /\ Settling' \/ MetaSettled'
    BY DEF MetaInv
<1>1. UNCHANGED <<tabs, active, handler>> /\ SameRaces
  BY LoopFacts DEF LoopEffect, StoreMeta, Event, LoadEvent, ReceiveMeta, tableVars, webVars, SameRaces
<1>2. /\ "announced" \notin raced /\ "announced" \notin raced'
      /\ loop = "tell" => cur = active
      /\ Settling \/ MetaSettled
  BY <1>1 DEF MetaInv, SameRaces
<1>3. Settling' = Settling /\ \A c \in Conns : BeforeMeta(c)' = BeforeMeta(c)
  BY <1>1 DEF Settling, Creating, BeforeMeta, At
<1>4. TableOK
  BY DEF Shape
<1>5. ASSUME loop' = "tell" => cur' = active', Settling \/ (MetaSettled => MetaSettled')
      PROVE  /\ "announced" \notin raced'
             /\ loop' = "tell" => cur' = active'
             /\ Settling' \/ MetaSettled'
  BY <1>2, <1>3, <1>5
<1>6. CASE LoopStep
  <2>1. UNCHANGED <<meta, field>>
    BY <1>6, LoopFacts DEF LoopEffect
  <2>2. CASE CheckActive
    <3>1. /\ loop = "check" /\ UNCHANGED <<cur, shown>>
          /\ active = cur => loop' = "tell" /\ news' = news
          /\ active # cur => loop' = "idle"
      BY <2>2 DEF CheckActive, clientVars
    <3>2. Telling' <=> Telling
      BY <1>1, <3>1 DEF Telling
    <3>3. MetaSettled => MetaSettled'
      BY <1>1, <1>3, <2>1, <3>1, <3>2 DEF MetaSettled, ShownRight, Telling
    <3>4. QED
      BY <1>1, <1>5, <3>1, <3>3
  <2>3. CASE TellMeta
    <3>1. /\ loop = "tell" /\ loop' = "idle" /\ cur = active /\ field \in Fields
          /\ shown' = [shown EXCEPT ![field] = news]
      BY <1>2, <1>4, <2>3 DEF TellMeta, TableOK
    <3>2. Telling /\ ~Telling'
      BY <1>1, <3>1 DEF Telling
    <3>3. ASSUME MetaSettled PROVE MetaSettled'
      <4>1. news = meta[active][field]
        BY <3>2, <3>3 DEF MetaSettled
      <4>2. ShownRight => ShownRight'
        BY <1>1, <1>4, <2>1, <3>1, <4>1 DEF ShownRight, TableOK
      <4>3. QED
        BY <1>3, <3>2, <3>3, <4>2 DEF MetaSettled
    <3>4. QED
      BY <1>5, <3>1, <3>3
  <2>4. CASE loop \notin LoopPlaces /\ loop' \notin LoopPlaces /\ shown' = shown
    <3>1. ~Telling /\ ~Telling' /\ loop' # "tell"
      BY <2>4 DEF LoopPlaces, Telling
    <3>2. ShownRight => ShownRight'
      BY <1>1, <2>1, <2>4, <3>1 DEF ShownRight
    <3>3. MetaSettled => MetaSettled'
      BY <1>3, <3>1, <3>2 DEF MetaSettled
    <3>4. QED
      BY <1>5, <3>1, <3>3
  <2>5. QED
    BY <1>6, <2>2, <2>3, <2>4, LoopFacts DEF LoopEffect
<1>7. CASE StoreMeta
  <2>1. /\ loop = "news" /\ loop' = "check" /\ field \in Fields /\ cur \in Tabs
        /\ UNCHANGED <<cur, field, news, shown>>
        /\ meta' = IF cur \in tabs THEN [meta EXCEPT ![cur][field] = news] ELSE meta
    BY <1>4, <1>7 DEF StoreMeta, TableOK, clientVars
  <2>2. ASSUME MetaSettled, ~Settling PROVE MetaSettled'
    <3>1. active \in tabs /\ active \in Tabs
      BY <1>4, <2>2 DEF Settling, TableOK
    <3>2. CASE cur = active
      <4>1. Telling' /\ meta'[active][field] = news
        BY <1>1, <1>4, <2>1, <3>1, <3>2 DEF Telling, TableOK
      <4>2. \A f \in Fields \ {field} : meta'[active][f] = meta[active][f]
        BY <1>4, <2>1, <3>1, <3>2 DEF TableOK
      <4>3. ~Telling
        BY <2>1 DEF Telling
      <4>4. ShownRight => ShownRight'
        BY <1>1, <2>1, <4>1, <4>2, <4>3 DEF ShownRight
      <4>5. QED
        BY <1>1, <1>3, <2>1, <2>2, <4>1, <4>4 DEF MetaSettled
    <3>3. CASE cur # active
      <4>1. meta'[active] = meta[active]
        BY <1>4, <2>1, <3>1, <3>3 DEF TableOK
      <4>2. ~Telling /\ ~Telling'
        BY <1>1, <2>1, <3>3 DEF Telling
      <4>3. ShownRight => ShownRight'
        BY <1>1, <2>1, <4>1, <4>2 DEF ShownRight
      <4>4. QED
        BY <1>3, <2>2, <4>2, <4>3 DEF MetaSettled
    <3>4. QED
      BY <3>2, <3>3
  <2>3. QED
    BY <1>5, <2>1, <2>2
<1>8. CASE Event
  <2>1. /\ loop = "idle" /\ loop' \in {"idle", "news"} /\ UNCHANGED <<meta, shown>>
    BY <1>8 DEF Event, LoadEvent, ReceiveMeta, tableVars, clientVars
  <2>2. ~Telling /\ ~Telling'
    BY <2>1 DEF Telling
  <2>3. ShownRight => ShownRight'
    BY <1>1, <2>1, <2>2 DEF ShownRight
  <2>4. MetaSettled => MetaSettled'
    BY <1>3, <2>2, <2>3 DEF MetaSettled
  <2>5. QED
    BY <1>5, <2>1, <2>4
<1>9. QED
  BY <1>6, <1>7, <1>8

LEMMA HandlerMeta ==
  ASSUME Shape, AnnounceInv, MetaInv, NEW c \in Conns, HandlerStep(c) \/ Locking(c)
  PROVE  MetaInv'
<1>1. HandlerOK /\ TableOK /\ handler[c].tab \in Tabs
  BY HandlerFacts DEF Shape
<1>2. \A p \in Places : Goto(c, p) =>
        OthersStay(c) /\ handler'[c].pc = p /\ handler'[c].tab = handler[c].tab
  BY <1>1, GotoMoves
<1>3. handler' = [handler EXCEPT ![c] = Idle] => OthersStay(c) /\ handler'[c].pc = "idle"
  BY <1>1, ResetMoves, TabsAssumption DEF Idle, Places
<1> USE DEF tableVars, webVars, loopVars, clientVars
<1>4. CASE SetActive(c)
  <2> SUFFICES ASSUME "meta" \notin raced'
               PROVE  /\ "announced" \notin raced'
                      /\ loop' = "tell" => cur' = active'
                      /\ Settling' \/ MetaSettled'
      BY DEF MetaInv
  <2>1. "announced" \notin raced' /\ loop' \notin {"check", "tell"}
    BY <1>4 DEF SetActive, Exposed
  <2>2. BeforeMeta(c)'
    BY <1>2, <1>4 DEF SetActive, BeforeMeta, Places, At
  <2>3. QED
    BY <2>1, <2>2 DEF MetaSettled, Telling
<1>5. ASSUME OthersStay(c), ~At(c, {"create", "store"}), UNCHANGED <<tabs, active>>
      PROVE  Settling => Settling'
  BY <1>5 DEF Settling, Creating, OthersStay, At
<1>6. CASE LockAndClone(c) /\ handler[c].tab \in tabs
  <2>1. OthersStay(c) /\ handler'[c].pc = "raw" /\ ~At(c, {"create", "store"})
    BY <1>1, <1>6, CloneMoves DEF LockAndClone, At
  <2>2. \A d \in Conns : BeforeMeta(d) => BeforeMeta(d)'
    BY <2>1 DEF BeforeMeta, OthersStay, At
  <2>3. QED
    BY <1>5, <1>6, <2>1, <2>2, MetaStays DEF LockAndClone
<1>7. CASE LockAndClone(c) /\ handler[c].tab \notin tabs
  <2>1. /\ OthersStay(c) /\ ~At(c, {"create", "store"}) /\ Switching(c)
        /\ UNCHANGED <<tabs, active, raced, loop, cur, field, news, meta, shown>>
    BY <1>3, <1>7 DEF LockAndClone, Switching, At
  <2>2. "announced" \notin raced => active = handler[c].tab
    BY <2>1 DEF AnnounceInv
  <2>3. "meta" \notin raced => Settling'
    BY <1>7, <2>1, <2>2 DEF MetaInv, Settling
  <2>4. QED
    BY <2>1, <2>3 DEF MetaInv
<1>8. CASE PublishRaw(c)
  <2>1. /\ OthersStay(c) /\ handler'[c].pc = "meta" /\ ~At(c, {"create", "store"})
        /\ UNCHANGED <<tabs, active, raced, loop, cur, field, news, meta, shown>>
    BY <1>2, <1>8 DEF PublishRaw, Places, At
  <2>2. \A d \in Conns : BeforeMeta(d) => BeforeMeta(d)'
    BY <2>1 DEF BeforeMeta, OthersStay, At
  <2>3. QED
    BY <1>5, <2>1, <2>2, MetaStays
<1>9. CASE PublishMeta(c)
  <2>1. /\ OthersStay(c) /\ ~At(c, {"create", "store"}) /\ Switching(c)
        /\ UNCHANGED <<tabs, active, raced, loop, cur, field, news, meta>>
        /\ shown' = meta[handler[c].tab]
    BY <1>2, <1>9 DEF PublishMeta, Switching, Places, At
  <2>2. "announced" \notin raced => active = handler[c].tab
    BY <2>1 DEF AnnounceInv
  <2>3. "announced" \notin raced => ShownRight'
    BY <2>1, <2>2 DEF ShownRight
  <2>4. Telling' = Telling
    BY <2>1 DEF Telling
  <2>5. QED
    BY <1>5, <2>1, <2>3, <2>4 DEF MetaInv, MetaSettled
<1>10. CASE PublishActivated(c) \/ PostClose(c)
  <2>1. /\ OthersStay(c) /\ ~At(c, {"create", "store", "lock", "raw", "meta"})
        /\ UNCHANGED <<tabs, active, loop, cur, field, news, meta, shown>>
        /\ raced' \in {raced, raced \cup {"view"}}
    BY <1>3, <1>10 DEF PublishActivated, PostClose, TooLate, At
  <2>2. \A d \in Conns : BeforeMeta(d) => BeforeMeta(d)'
    BY <2>1 DEF BeforeMeta, OthersStay, At
  <2>3. QED
    BY <1>5, <2>1, <2>2, MetaStays DEF At
<1>11. CASE DropEntry(c) \/ RemoveTab(c)
  <2>1. /\ OthersStay(c) /\ ~At(c, {"create", "store", "lock", "raw", "meta"})
        /\ UNCHANGED <<active, raced, loop, cur, field, news, meta, shown>> /\ tabs' \subseteq tabs
    BY <1>2, <1>11 DEF DropEntry, RemoveTab, Places, At
  <2>2. \A d \in Conns : BeforeMeta(d) => BeforeMeta(d)'
    BY <2>1 DEF BeforeMeta, OthersStay, At
  <2>3. Settling => Settling'
    BY <2>1 DEF Settling, Creating, OthersStay, At
  <2>4. QED
    BY <2>1, <2>2, <2>3, MetaStays
<1>12. CASE PostCreate(c)
  <2>1. /\ OthersStay(c) /\ handler'[c].pc = "store" /\ handler'[c].tab = handler[c].tab
        /\ handler[c].pc = "create"
        /\ UNCHANGED <<tabs, active, loop, cur, field, news, meta, shown>>
        /\ raced' \in {raced, raced \cup {"view"}}
    BY <1>2, <1>12 DEF PostCreate, TooLate, Places, At
  <2>2. \A d \in Conns : BeforeMeta(d) => BeforeMeta(d)'
    BY <2>1 DEF BeforeMeta, OthersStay, At
  <2>3. Settling => Settling'
    BY <2>1 DEF Settling, Creating, OthersStay, At
  <2>4. QED
    BY <2>1, <2>2, <2>3, MetaStays
<1>13. CASE InsertTab(c)
  <2>1. /\ OthersStay(c) /\ handler'[c].pc = "create" /\ handler'[c].tab = handler[c].tab
        /\ handler[c].pc = "insert" /\ tabs' = tabs \cup {handler[c].tab}
        /\ UNCHANGED <<active, raced, loop, cur, field, news, shown>>
        /\ meta' = [meta EXCEPT ![handler[c].tab] = [f \in Fields |-> stamp + 1]]
    BY <1>2, <1>13 DEF InsertTab, Places, At
  <2>2. CASE handler[c].tab = active
    <3>1. Settling'
      BY <2>1, <2>2 DEF Settling, Creating, At
    <3>2. QED
      BY <2>1, <3>1 DEF MetaInv
  <2>3. CASE handler[c].tab # active
    <3>1. meta'[active] = meta[active] /\ (active \in tabs' <=> active \in tabs)
      BY <1>1, <2>1, <2>3 DEF TableOK
    <3>2. Settling => Settling'
      BY <2>1, <3>1 DEF Settling, Creating, OthersStay, At
    <3>3. \A d \in Conns : BeforeMeta(d) => BeforeMeta(d)'
      BY <2>1 DEF BeforeMeta, OthersStay, At
    <3>4. Telling' = Telling /\ (ShownRight => ShownRight')
      BY <2>1, <3>1 DEF Telling, ShownRight
    <3>5. MetaSettled => MetaSettled'
      BY <2>1, <3>1, <3>3, <3>4 DEF MetaSettled, BeforeMeta
    <3>6. QED
      BY <2>1, <3>2, <3>5 DEF MetaInv
  <2>4. QED
    BY <2>2, <2>3
<1>14. QED
  BY <1>4, <1>6, <1>7, <1>8, <1>9, <1>10, <1>11, <1>12, <1>13 DEF HandlerStep, Locking

LEMMA NextMeta == Shape /\ AnnounceInv /\ MetaInv /\ [Next]_vars => MetaInv'
<1> SUFFICES ASSUME Shape, AnnounceInv, MetaInv, [Next]_vars PROVE MetaInv'
    OBVIOUS
<1> USE DEF tableVars, webVars, loopVars, clientVars
<1>1. CASE WebKit \/ Start \/ RunPosted \/ UNCHANGED vars
  <2>1. UNCHANGED <<tabs, active, handler, raced, loop, cur, field, news, meta, shown>>
    BY <1>1 DEF WebKit, Render, Start, RunPosted, vars
  <2>2. \A d \in Conns : BeforeMeta(d) => BeforeMeta(d)'
    BY <2>1 DEF BeforeMeta, At
  <2>3. Settling => Settling'
    BY <2>1 DEF Settling, Creating, At
  <2>4. QED
    BY <2>1, <2>2, <2>3, MetaStays
<1>2. CASE LoopStep \/ StoreMeta \/ Event
  BY <1>2, LoopMeta
<1>3. ASSUME NEW c \in Conns, NEW t \in Tabs, Ask(c, t)
      PROVE  MetaInv'
  <2>1. /\ UNCHANGED <<tabs, active, raced, loop, cur, field, news, meta, shown>>
        /\ OthersStay(c) /\ handler[c].pc = "idle"
    BY <1>3, RequestEffect
  <2>2. \A d \in Conns : BeforeMeta(d) => BeforeMeta(d)'
    BY <2>1 DEF BeforeMeta, OthersStay, At
  <2>3. Settling => Settling'
    BY <2>1 DEF Settling, Creating, OthersStay, At
  <2>4. QED
    BY <2>1, <2>2, <2>3, MetaStays
<1>4. QED
  BY <1>1, <1>2, <1>3, HandlerMeta DEF Next

-----------------------------------------------------------------------------
IInv == Shape /\ AnnounceInv /\ MetaInv /\ ViewInv

LEMMA Inductive == Spec => []IInv
<1>1. Init => IInv
  BY InitInvariants DEF IInv
<1>2. IInv /\ [Next]_vars => IInv'
  BY NextShape, NextAnnounce, NextMeta, NextView DEF IInv
<1>3. QED
  BY <1>1, <1>2, PTL DEF Spec

(* Whatever the number of connections that switch, create and close tabs:  *)
(* the tab announced last is the active one, unless switches overlapped    *)
(* (main.rs:391-410).                                                      *)
THEOREM SwitchesAreAnnounced == Spec => []AnnouncedUnlessRaced
<1>1. IInv => AnnouncedUnlessRaced
  BY DEF IInv, AnnounceInv, AnnouncedUnlessRaced, Quiet, Settling, Creating, Switching, At
<1>2. QED
  BY <1>1, Inductive, PTL

(* A client is shown title and url of the active tab, unless the loop was  *)
(* telling it one, or another switch under way, when it changed            *)
(* (main.rs:325-349, 406-407).                                             *)
THEOREM MetaIsOfActive == Spec => []MetaOfActive
<1>1. ASSUME IInv, Quiet, loop \in {"idle", "batch"}, "meta" \notin raced
      PROVE  shown = meta[active]
  <2>1. ~Settling /\ ~Telling /\ \A c \in Conns : ~BeforeMeta(c)
    BY <1>1 DEF Quiet, Settling, Creating, Telling, BeforeMeta, At
  <2>2. \A f \in Fields : shown[f] = meta[active][f]
    BY <1>1, <2>1 DEF IInv, MetaInv, MetaSettled, ShownRight
  <2>3. shown \in [Fields -> Nat] /\ meta[active] \in [Fields -> Nat]
    BY <1>1 DEF IInv, Shape, TableOK
  <2>4. QED
    BY <2>2, <2>3
<1>2. IInv => MetaOfActive
  BY <1>1 DEF MetaOfActive
<1>3. QED
  BY <1>2, Inductive, PTL

(* Once WebKit is up and has run what was posted to it, it has a view for  *)
(* exactly the tabs in the table, but for a tab whose last call came to    *)
(* nothing (no handle yet, a url with a NUL in it, no view from WPE), and  *)
(* unless one was created and closed at the same time (main.rs:377-421,    *)
(* wpe.rs:223-235, gutted_wpe.c:383-386).                                  *)
THEOREM ViewsAreOfTabs == Spec => []ViewsMatchTabs
<1>1. ASSUME IInv, ready, \A c \in Conns : At(c, {"idle"}), posted = <<>>, "view" \notin raced
      PROVE  live \ missed = tabs \ missed
  <2>1. \A t \in Tabs : WillHaveView(t) <=> t \in live
    BY <1>1 DEF WillHaveView
  <2>2. \A t \in Tabs \ missed : t \in tabs <=> WillHaveView(t)
    BY <1>1 DEF IInv, ViewInv, At
  <2>3. QED
    BY <1>1, <2>1, <2>2 DEF IInv, Shape, TableOK
<1>2. IInv => ViewsMatchTabs
  BY <1>1 DEF ViewsMatchTabs
<1>3. QED
  BY <1>2, Inductive, PTL

-----------------------------------------------------------------------------
(***************************************************************************)
(* The theorem about HostTabs and framebuffers: the texture of a client is *)
(* the framebuffer of the active tab unless one of the races named has     *)
(* spoiled it, for any number of connections, tabs, pixels and frames.     *)
(***************************************************************************)

(* The loop works on a frame whose entry it has taken out. *)
InHand == loop \in {"taken", "publish"}

ToBePublished(p) == \E m \in pending : p \in m.px

FramesOK ==
  /\ entries \in [Tabs -> Frame \cup {NoFrame}]
  /\ surface \in [Tabs -> Frame \cup {NoFrame}]
  /\ batch \in [Tabs -> Frame \cup {NoFrame}]
  /\ frames \in Seq([tab : Tabs, pix : Frame])
  /\ prev \in Frame \cup {NoFrame} /\ incoming \in Frame \cup {NoFrame} /\ picture \in Frame
  /\ \A c \in Conns : handler[c].copy \in Frame \cup {NoFrame}

(* What the loop publishes is of the frame it has stored, which only a     *)
(* closing tab can lose in between.                                        *)
LoopOK ==
  /\ InHand => incoming \in Frame
  /\ loop = "publish" =>
       /\ entries[cur] \in {incoming, NoFrame}
       /\ \A m \in pending : m.pix = incoming /\ (m.kind = "raw" => m.px = Pixels)

(* The texture is the framebuffer of the active tab, or was before the     *)
(* frame in hand and gets the rest of it.                                  *)
PictureRight ==
  /\ ~InHand /\ entries[active] # NoFrame => picture = entries[active]
  /\ loop = "taken" /\ prev # NoFrame => picture = prev
  /\ loop = "publish" /\ entries[active] # NoFrame =>
       \A p \in Pixels : picture[p] = incoming[p] \/ ToBePublished(p)

(* A switch that has not sent its RawFrame. *)
Sending(c) == At(c, {"lock", "raw"})

(* What it will send is the framebuffer of the active tab. *)
CopyRight(c) ==
  /\ handler[c].tab = active
  /\ At(c, {"raw"}) => entries[active] \in {handler[c].copy, NoFrame}

(* While nothing has spoiled it, the loop has only frames of the active    *)
(* tab in hand, and none while a switch has its RawFrame still to send;    *)
(* only one switch has.                                                    *)
PictureInv ==
  "picture" \notin raced =>
    /\ InHand => cur = active /\ \A c \in Conns : ~Sending(c)
    /\ loop = "stash" => cur # active
    /\ \A c, d \in Conns : Sending(c) /\ Sending(d) => c = d
    /\ \A c \in Conns : Sending(c) => CopyRight(c)
    /\ Settling \/ (\E c \in Conns : Sending(c)) \/ PictureRight

PInv == Shape /\ FramesOK /\ LoopOK /\ PictureInv

-----------------------------------------------------------------------------
(* Frames. *)

LEMMA RenderedIsFrame ==
  ASSUME NEW C, NEW base \in Frame \cup {NoFrame}, NEW n \in Nat
  PROVE  Rendered(Pixels, C, base, n) \in Frame
<1> SUFFICES ASSUME NEW p \in Pixels
             PROVE  Rendered(Pixels, C, base, n)[p] \in Nat
    BY DEF Rendered, Frame
<1>1. CASE p \in C \/ base = NoFrame
  BY <1>1 DEF Rendered
<1>2. CASE ~(p \in C \/ base = NoFrame)
  <2>1. base[p] \in Nat
    BY <1>2 DEF Frame
  <2>2. Rendered(Pixels, C, base, n)[p] = IF base[p] = 0 THEN n ELSE base[p]
    BY <1>2 DEF Rendered
  <2>3. QED
    BY <2>1, <2>2
<1>3. QED
  BY <1>1, <1>2

(* A set of positions of a queue has a last one: the sets of those behind  *)
(* a position cannot shrink for ever.                                      *)
LEMMA LastOfSome ==
  ASSUME NEW n \in Nat, NEW S \in SUBSET (1 .. n), S # {}
  PROVE  \E i \in S : \A j \in S : j <= i
<1> DEFINE Behind(i) == {j \in S : j > i}
           T == {Behind(i) : i \in S}
<1>1. IsFiniteSet(S)
  <2>1. IsFiniteSet(1 .. n)
    BY FS_Interval
  <2>2. QED
    BY <2>1, FS_Subset
<1>2. IsWellFoundedOn(StrictSubsetOrdering(S), SUBSET S)
  BY <1>1, FS_StrictSubsetOrderingWellFounded, FS_FiniteSubsetsOfFinite
<1>3. T \subseteq SUBSET S /\ T # {}
  OBVIOUS
<1>4. PICK x \in T : \A y \in T : <<y, x>> \notin StrictSubsetOrdering(S)
  <2> HIDE DEF T
  <2>1. QED
    BY <1>2, <1>3, WFMin
<1>5. PICK i \in S : x = Behind(i)
  OBVIOUS
<1>6. ASSUME NEW k \in S, k > i
      PROVE  FALSE
  <2>1. i \in Nat /\ k \in Nat /\ \A j \in S : j \in Nat
    OBVIOUS
  <2>2. \A j \in Behind(k) : j \in x
    BY <1>5, <1>6, <2>1
  <2>3. k \in x
    BY <1>5, <1>6
  <2>4. k \notin Behind(k)
    BY <2>1
  <2> HIDE DEF Behind
  <2>5. Behind(k) \subseteq x /\ Behind(k) # x
    BY <2>2, <2>3, <2>4
  <2>6. Behind(k) \in T
    OBVIOUS
  <2>7. Behind(k) \in SUBSET S /\ x \in SUBSET S
    BY <1>3, <2>6
  <2> HIDE DEF T
  <2>8. <<Behind(k), x>> \in StrictSubsetOrdering(S)
    BY <2>5, <2>7 DEF StrictSubsetOrdering
  <2>9. QED
    BY <1>4, <2>6, <2>8
<1>7. \A j \in S : j <= i
  BY <1>6
<1>8. QED
  BY <1>7

(* The entries of a queue. *)
LEMMA EntryOf ==
  ASSUME NEW X, NEW q \in Seq(X), NEW i \in DOMAIN q
  PROVE  q[i] \in X
  OBVIOUS

LEMMA NewestIsFrames ==
  ASSUME NEW q \in Seq([tab : Tabs, pix : Frame])
  PROVE  Newest(q) \in [Tabs -> Frame \cup {NoFrame}]
<1> SUFFICES ASSUME NEW t \in Tabs
             PROVE  Newest(q)[t] \in Frame \cup {NoFrame}
    BY DEF Newest
<1> DEFINE mine == {i \in DOMAIN q : q[i].tab = t}
           last == CHOOSE i \in mine : \A j \in mine : j <= i
<1>1. Newest(q)[t] = IF mine = {} THEN NoFrame ELSE q[last].pix
  BY DEF Newest
<1>2. CASE mine = {}
  BY <1>1, <1>2
<1>3. CASE mine # {}
  <2>1. Len(q) \in Nat /\ DOMAIN q = 1 .. Len(q)
    OBVIOUS
  <2>2. \E i \in mine : \A j \in mine : j <= i
    BY <1>3, <2>1, LastOfSome
  <2>3. last \in mine
    BY <2>2
  <2>4. q[last] \in [tab : Tabs, pix : Frame]
    <3>1. last \in DOMAIN q
      BY <2>3
    <3> HIDE DEF last, mine
    <3>2. QED
      BY <3>1, EntryOf
  <2>5. QED
    BY <1>1, <1>3, <2>4
<1>4. QED
  BY <1>2, <1>3

LEMMA PaintIsFrame ==
  ASSUME NEW scr \in Frame, NEW m, m.pix \in Frame
  PROVE  Paint(scr, m) \in Frame
  BY DEF Frame, Paint

-----------------------------------------------------------------------------
(* The frame a handler has cloned. *)
LEMMA CopyMoves ==
  ASSUME HandlerOK, NEW c \in Conns
  PROVE  /\ \A p : Goto(c, p) => handler'[c].copy = handler[c].copy
         /\ handler' = [handler EXCEPT ![c] = Idle] => handler'[c].copy = NoFrame
         /\ \A f : handler' = [handler EXCEPT ![c].pc = "raw", ![c].copy = f]
                   => handler'[c].copy = f
<1>1. PICK F : handler \in [Conns -> [pc : Places, tab : Tabs, copy : F]]
  BY DEF HandlerOK
<1>2. \A p : Goto(c, p) => handler'[c].copy = handler[c].copy
  BY <1>1 DEF Goto
<1>3. handler' = [handler EXCEPT ![c] = Idle] => handler'[c].copy = NoFrame
  BY <1>1 DEF Idle
<1>4. \A f : handler' = [handler EXCEPT ![c].pc = "raw", ![c].copy = f]
            => handler'[c].copy = f
  BY <1>1
<1>5. QED
  BY <1>2, <1>3, <1>4

-----------------------------------------------------------------------------
LEMMA InitPicture == Init => FramesOK /\ LoopOK /\ PictureInv
<1> SUFFICES ASSUME Init PROVE FramesOK /\ LoopOK /\ PictureInv
    OBVIOUS
<1>1. Blank \in Frame
  BY DEF Blank, Frame
<1>2. NoBatch \in [Tabs -> Frame \cup {NoFrame}]
  BY DEF NoBatch
<1>3. FramesOK
  BY <1>1, <1>2 DEF Init, FramesOK, Idle
<1>4. LoopOK
  BY DEF Init, LoopOK, InHand
<1>5. entries[active] = NoFrame
  BY TabsAssumption DEF Init, NoBatch
<1>6. PictureInv
  BY <1>5 DEF Init, PictureInv, PictureRight, InHand, Sending, At, Idle
<1>7. QED
  BY <1>3, <1>4, <1>6

-----------------------------------------------------------------------------
(* FramesOK and LoopOK are inductive. *)

(* What a step of a handler does to the frame it has cloned. *)
LEMMA HandlerFrames ==
  ASSUME Shape, FramesOK, LoopOK, NEW c \in Conns, HandlerStep(c) \/ Locking(c)
  PROVE  FramesOK' /\ LoopOK'
<1>1. HandlerOK /\ handler[c].tab \in Tabs
  BY HandlerFacts DEF Shape
<1>2. \A p \in Places : Goto(c, p) => OthersStay(c) /\ handler'[c].copy = handler[c].copy
  BY <1>1, GotoMoves, CopyMoves
<1>3. handler' = [handler EXCEPT ![c] = Idle] => OthersStay(c) /\ handler'[c].copy = NoFrame
  BY <1>1, ResetMoves, CopyMoves, TabsAssumption DEF Idle, Places
<1>4. UNCHANGED <<surface, batch, frames, prev, incoming, loop, cur, pending>>
  BY DEF HandlerStep, Locking, SetActive, PublishRaw, PublishMeta, PublishActivated, PostCreate,
         DropEntry, PostClose, LockAndClone, InsertTab, RemoveTab, webVars, loopVars
<1>5. ASSUME OthersStay(c), handler'[c].copy \in Frame \cup {NoFrame},
             entries' \in [Tabs -> Frame \cup {NoFrame}], picture' \in Frame,
             \A t \in Tabs : entries'[t] \in {entries[t], NoFrame}
      PROVE  FramesOK' /\ LoopOK'
  <2>1. \A d \in Conns : handler'[d].copy \in Frame \cup {NoFrame}
    BY <1>5 DEF FramesOK, OthersStay
  <2>2. FramesOK'
    BY <1>4, <1>5, <2>1 DEF FramesOK
  <2>3. cur \in Tabs
    BY DEF Shape, TableOK
  <2>4. LoopOK'
    BY <1>4, <1>5, <2>3 DEF LoopOK, InHand
  <2>5. QED
    BY <2>2, <2>4
<1>6. UNCHANGED entries => /\ entries' \in [Tabs -> Frame \cup {NoFrame}]
                           /\ \A t \in Tabs : entries'[t] \in {entries[t], NoFrame}
  BY DEF FramesOK
<1>7. UNCHANGED picture => picture' \in Frame
  BY DEF FramesOK
<1>8. handler[c].copy \in Frame \cup {NoFrame}
  BY DEF FramesOK
<1> USE DEF tableVars, clientVars
<1>9. CASE SetActive(c) \/ InsertTab(c) \/ PostCreate(c) \/ RemoveTab(c) \/ PublishMeta(c)
  <2>1. OthersStay(c) /\ handler'[c].copy = handler[c].copy
    BY <1>2, <1>9 DEF SetActive, InsertTab, PostCreate, RemoveTab, PublishMeta, Places
  <2>2. UNCHANGED <<entries, picture>>
    BY <1>9 DEF SetActive, InsertTab, PostCreate, RemoveTab, PublishMeta
  <2>3. QED
    BY <1>5, <1>6, <1>7, <1>8, <2>1, <2>2
<1>10. CASE PublishActivated(c) \/ PostClose(c)
  <2>1. OthersStay(c) /\ handler'[c].copy = NoFrame /\ UNCHANGED <<entries, picture>>
    BY <1>3, <1>10 DEF PublishActivated, PostClose
  <2>2. QED
    BY <1>5, <1>6, <1>7, <2>1
<1>11. CASE LockAndClone(c)
  <2>1. OthersStay(c) /\ handler'[c].copy \in {NoFrame, entries[handler[c].tab]}
    BY <1>1, <1>3, <1>11, CloneMoves, CopyMoves DEF LockAndClone
  <2>2. handler'[c].copy \in Frame \cup {NoFrame}
    BY <1>1, <2>1 DEF FramesOK
  <2>3. UNCHANGED <<entries, picture>>
    BY <1>11 DEF LockAndClone
  <2>4. QED
    BY <1>5, <1>6, <1>7, <2>1, <2>2, <2>3
<1>12. CASE PublishRaw(c)
  <2>1. OthersStay(c) /\ handler'[c].copy = handler[c].copy /\ UNCHANGED entries
    BY <1>2, <1>12 DEF PublishRaw, Places
  <2>2. picture' \in Frame
    BY <1>8, <1>12 DEF PublishRaw, FramesOK
  <2>3. QED
    BY <1>5, <1>6, <1>8, <2>1, <2>2
<1>13. CASE DropEntry(c)
  <2>1. OthersStay(c) /\ handler'[c].copy = handler[c].copy /\ UNCHANGED picture
    BY <1>2, <1>13 DEF DropEntry, Places
  <2>2. /\ entries' \in [Tabs -> Frame \cup {NoFrame}]
        /\ \A t \in Tabs : entries'[t] \in {entries[t], NoFrame}
    BY <1>13 DEF DropEntry, FramesOK
  <2>3. QED
    BY <1>5, <1>7, <1>8, <2>1, <2>2
<1>14. QED
  BY <1>9, <1>10, <1>11, <1>12, <1>13 DEF HandlerStep, Locking

(* The messages of a frame that is stored. *)
StoredMessages(msgs) == \A m \in msgs : m.pix = incoming /\ (m.kind = "raw" => m.px = Pixels)

LEMMA StoreMessages ==
  /\ StoreFull => Store({RawFrame(incoming)}) /\ StoredMessages({RawFrame(incoming)})
  /\ \A R : StoreDiff(R) => Store(Damage(R, incoming)) /\ StoredMessages(Damage(R, incoming))
  BY DEF StoreFull, StoreDiff, StoredMessages, RawFrame, Subframe, Damage

LEMMA LoopFrames ==
  ASSUME Shape, FramesOK, LoopOK, LoopStep
  PROVE  FramesOK' /\ LoopOK'
<1>1. UNCHANGED <<surface, handler>> /\ active \in Tabs /\ cur \in Tabs
  BY LoopFacts DEF LoopStep, LoopEffect, ReceiveBatch, PickActive, PickInactive, Stash, StoreFull,
     StoreDiff, Store, PublishNext, FrameDone, BatchDone, CheckActive, TellMeta, webVars, Shape, TableOK
<1> USE DEF tableVars, webVars, clientVars
<1>2. CASE ReceiveBatch
  <2>1. batch' \in [Tabs -> Frame \cup {NoFrame}]
    BY <1>2, NewestIsFrames DEF ReceiveBatch, FramesOK
  <2>2. QED
    BY <1>1, <1>2, <2>1 DEF ReceiveBatch, FramesOK, LoopOK, InHand
<1>3. ASSUME NEW t \in Tabs, PickActive(t) \/ PickInactive(t)
      PROVE  FramesOK' /\ LoopOK'
  <2>1. /\ batch' \in [Tabs -> Frame \cup {NoFrame}] /\ incoming' \in Frame
        /\ entries' \in [Tabs -> Frame \cup {NoFrame}] /\ prev' \in Frame \cup {NoFrame}
    BY <1>3 DEF PickActive, PickInactive, PickFrame, FramesOK
  <2>2. UNCHANGED <<frames, picture>> /\ loop' \in {"taken", "stash"}
    BY <1>3 DEF PickActive, PickInactive
  <2>3. QED
    BY <1>1, <2>1, <2>2 DEF FramesOK, LoopOK, InHand
<1>4. CASE Stash
  BY <1>1, <1>4 DEF Stash, FramesOK, LoopOK, InHand
<1>5. ASSUME NEW msgs, Store(msgs), StoredMessages(msgs)
      PROVE  FramesOK' /\ LoopOK'
  <2>1. /\ entries' \in [Tabs -> Frame \cup {NoFrame}] /\ entries'[cur] = incoming
        /\ incoming \in Frame
    BY <1>1, <1>5 DEF Store, FramesOK, LoopOK, InHand
  <2>2. UNCHANGED <<batch, frames, prev, incoming, picture, cur>> /\ pending' = msgs
    BY <1>5 DEF Store
  <2>3. QED
    BY <1>1, <1>5, <2>1, <2>2 DEF FramesOK, LoopOK, StoredMessages
<1>6. ASSUME NEW m \in pending, PublishNext(m)
      PROVE  FramesOK' /\ LoopOK'
  <2>1. picture' \in Frame
    BY <1>6, PaintIsFrame DEF PublishNext, FramesOK, LoopOK, InHand
  <2>2. /\ UNCHANGED <<entries, batch, frames, prev, incoming, loop, cur>>
        /\ pending' \subseteq pending
    BY <1>6 DEF PublishNext
  <2>3. QED
    BY <1>1, <2>1, <2>2 DEF FramesOK, LoopOK, InHand
<1>7. CASE FrameDone
  BY <1>1, <1>7 DEF FrameDone, FramesOK, LoopOK, InHand
<1>8. CASE BatchDone \/ CheckActive \/ TellMeta
  <2>1. UNCHANGED <<entries, batch, frames, prev, incoming, picture>> /\ loop' \in {"idle", "tell"}
    BY <1>8 DEF BatchDone, CheckActive, TellMeta
  <2>2. QED
    BY <1>1, <2>1 DEF FramesOK, LoopOK, InHand
<1>9. QED
  BY <1>2, <1>3, <1>4, <1>5, <1>6, <1>7, <1>8, StoreMessages DEF LoopStep

LEMMA NextFrames == Shape /\ FramesOK /\ LoopOK /\ [Next]_vars => FramesOK' /\ LoopOK'
<1> SUFFICES ASSUME Shape, FramesOK, LoopOK, [Next]_vars PROVE FramesOK' /\ LoopOK'
    OBVIOUS
<1> USE DEF tableVars, webVars, loopVars, clientVars
<1>1. ASSUME NEW t \in Tabs, NEW C, Render(t, C)
      PROVE  FramesOK' /\ LoopOK'
  <2>1. surface[t] \in Frame \cup {NoFrame} /\ stamp + 1 \in Nat
    BY DEF FramesOK, Shape, TableOK
  <2>2. Rendered(Pixels, C, surface[t], stamp + 1) \in Frame
    BY <2>1, RenderedIsFrame
  <2>3. /\ surface' \in [Tabs -> Frame \cup {NoFrame}] /\ surface'[t] \in Frame
    BY <1>1, <2>2 DEF Render, FramesOK
  <2>4. frames' \in Seq([tab : Tabs, pix : Frame])
    BY <1>1, <2>3 DEF Render, FramesOK
  <2>5. QED
    BY <1>1, <2>3, <2>4 DEF Render, FramesOK, LoopOK, InHand
<1>2. CASE Start \/ RunPosted
  <2>1. surface' \in [Tabs -> Frame \cup {NoFrame}]
    BY <1>2 DEF Start, RunPosted, OpenView, CloseView, FramesOK
  <2>2. QED
    BY <1>2, <2>1 DEF Start, RunPosted, FramesOK, LoopOK, InHand
<1>3. CASE Event \/ StoreMeta
  <2>1. /\ UNCHANGED <<entries, surface, batch, frames, prev, incoming, picture, handler>>
        /\ loop' \in {"idle", "news", "check"}
    BY <1>3 DEF Event, LoadEvent, ReceiveMeta, StoreMeta
  <2>2. QED
    BY <2>1 DEF FramesOK, LoopOK, InHand
<1>4. ASSUME NEW c \in Conns, NEW t \in Tabs, Ask(c, t)
      PROVE  FramesOK' /\ LoopOK'
  <2>1. PICK p \in {"store", "insert", "remove"} : Request(c, t, p)
    BY <1>4 DEF Ask
  <2>2. \A d \in Conns : handler'[d].copy \in Frame \cup {NoFrame}
    BY <2>1 DEF Request, FramesOK, Shape, HandlerOK
  <2>3. QED
    BY <2>1, <2>2 DEF Request, FramesOK, LoopOK, InHand
<1>5. CASE UNCHANGED vars
  BY <1>5 DEF vars, FramesOK, LoopOK, InHand
<1>6. QED
  BY <1>1, <1>2, <1>3, <1>4, <1>5, LoopFrames, HandlerFrames DEF Next, WebKit

-----------------------------------------------------------------------------
(* PictureInv is inductive. *)

SameLoopFrames ==
  \/ UNCHANGED <<loop, cur, prev, incoming, pending>>
  \/ loop \notin {"taken", "publish", "stash"} /\ loop' \notin {"taken", "publish", "stash"}

(* Handlers that have a RawFrame to send have it still, and no other has. *)
SameSenders ==
  \A c \in Conns : /\ Sending(c)' <=> Sending(c)
                   /\ Sending(c) => handler'[c] = handler[c]

(* Steps that touch neither frames nor the senders. *)
LEMMA PictureStays ==
  ASSUME PictureInv, "picture" \in raced => "picture" \in raced',
         UNCHANGED <<active, entries, picture>>,
         SameLoopFrames, SameSenders, Settling => Settling'
  PROVE  PictureInv'
<1> SUFFICES ASSUME "picture" \notin raced'
             PROVE  /\ InHand' => cur' = active' /\ \A c \in Conns : ~Sending(c)'
                    /\ loop' = "stash" => cur' # active'
                    /\ \A c, d \in Conns : Sending(c)' /\ Sending(d)' => c = d
                    /\ \A c \in Conns : Sending(c)' => CopyRight(c)'
                    /\ Settling' \/ (\E c \in Conns : Sending(c)') \/ PictureRight'
    BY DEF PictureInv
<1>1. /\ InHand => cur = active /\ \A c \in Conns : ~Sending(c)
      /\ loop = "stash" => cur # active
      /\ \A c, d \in Conns : Sending(c) /\ Sending(d) => c = d
      /\ \A c \in Conns : Sending(c) => CopyRight(c)
      /\ Settling \/ (\E c \in Conns : Sending(c)) \/ PictureRight
  BY DEF PictureInv
<1>2. InHand' => InHand /\ cur' = cur
  BY DEF SameLoopFrames, InHand
<1>3. loop' = "stash" => loop = "stash" /\ cur' = cur
  BY DEF SameLoopFrames
<1>4. \A c \in Conns : Sending(c)' => Sending(c)
  BY DEF SameSenders
<1>5. ASSUME NEW c \in Conns, Sending(c)' PROVE CopyRight(c)'
  <2>1. CopyRight(c) /\ handler'[c] = handler[c]
    BY <1>1, <1>5 DEF SameSenders
  <2>2. QED
    BY <2>1 DEF CopyRight, At
<1>6. PictureRight => PictureRight'
  <2>1. CASE UNCHANGED <<loop, cur, prev, incoming, pending>>
    BY <2>1 DEF PictureRight, InHand, ToBePublished
  <2>2. CASE loop \notin {"taken", "publish", "stash"} /\ loop' \notin {"taken", "publish", "stash"}
    BY <2>2 DEF PictureRight, InHand
  <2>3. QED
    BY <2>1, <2>2 DEF SameLoopFrames
<1>7. (\E c \in Conns : Sending(c)) => \E c \in Conns : Sending(c)'
  BY DEF SameSenders
<1> HIDE DEF InHand, Sending, CopyRight, Settling, PictureRight
<1>8. QED
  BY <1>1, <1>2, <1>3, <1>4, <1>5, <1>6, <1>7

(* Only SetActive ends the settling of the active tab. *)
LEMMA StillSettling ==
  ASSUME Shape, NEW c \in Conns, HandlerStep(c) \/ Locking(c), ~SetActive(c), Settling
  PROVE  Settling'
<1>1. HandlerOK /\ handler[c].tab \in Tabs
  BY HandlerFacts DEF Shape
<1>2. \A p \in Places : Goto(c, p) =>
        OthersStay(c) /\ handler'[c].pc = p /\ handler'[c].tab = handler[c].tab
  BY <1>1, GotoMoves
<1>3. handler' = [handler EXCEPT ![c] = Idle] => OthersStay(c) /\ handler'[c].pc = "idle"
  BY <1>1, ResetMoves, TabsAssumption DEF Idle, Places
<1> USE DEF tableVars
<1>4. CASE LockAndClone(c) \/ PublishRaw(c) \/ PublishMeta(c) \/ PublishActivated(c)
           \/ DropEntry(c) \/ PostClose(c) \/ RemoveTab(c)
  <2>1. OthersStay(c)
    BY <1>1, <1>2, <1>3, <1>4, CloneMoves
       DEF LockAndClone, PublishRaw, PublishMeta, PublishActivated, DropEntry, PostClose,
           RemoveTab, Places
  <2>2. ~At(c, {"create", "store"}) /\ UNCHANGED active /\ tabs' \subseteq tabs
    BY <1>4 DEF LockAndClone, PublishRaw, PublishMeta, PublishActivated, DropEntry, PostClose,
                RemoveTab, At
  <2>3. QED
    BY <2>1, <2>2 DEF Settling, Creating, OthersStay, At
<1>5. CASE PostCreate(c)
  <2>1. /\ OthersStay(c) /\ handler'[c].pc = "store" /\ handler'[c].tab = handler[c].tab
        /\ handler[c].pc = "create" /\ UNCHANGED <<tabs, active>>
    BY <1>2, <1>5 DEF PostCreate, Places, At
  <2>2. QED
    BY <2>1 DEF Settling, Creating, OthersStay, At
<1>6. CASE InsertTab(c)
  <2>1. /\ OthersStay(c) /\ handler'[c].pc = "create" /\ handler'[c].tab = handler[c].tab
        /\ handler[c].pc = "insert" /\ tabs' = tabs \cup {handler[c].tab} /\ UNCHANGED active
    BY <1>2, <1>6 DEF InsertTab, Places, At
  <2>2. CASE handler[c].tab = active
    BY <2>1, <2>2 DEF Settling, Creating, At
  <2>3. CASE handler[c].tab # active
    <3>1. active \in tabs' => active \in tabs
      BY <2>1, <2>3
    <3>2. \A d \in Conns : Creating(d, active) => Creating(d, active)'
      BY <2>1 DEF Creating, OthersStay, At
    <3>3. QED
      BY <2>1, <3>1, <3>2 DEF Settling
  <2>4. QED
    BY <2>2, <2>3
<1>7. QED
  BY <1>4, <1>5, <1>6 DEF HandlerStep, Locking

(* A handler that is not between active_tab_id and its RawFrame, and does  *)
(* not come there, leaves the senders alone.                               *)
LEMMA SendersStay ==
  ASSUME NEW c \in Conns, OthersStay(c), ~Sending(c), ~Sending(c)'
  PROVE  SameSenders
  BY DEF SameSenders, OthersStay, Sending, At

LEMMA HandlerPicture ==
  ASSUME Shape, FramesOK, PictureInv, NEW c \in Conns, HandlerStep(c) \/ Locking(c)
  PROVE  PictureInv'
<1>1. HandlerOK /\ handler[c].tab \in Tabs
  BY HandlerFacts DEF Shape
<1>2. \A p \in Places : Goto(c, p) =>
        /\ OthersStay(c) /\ handler'[c].pc = p
        /\ handler'[c].tab = handler[c].tab /\ handler'[c].copy = handler[c].copy
  BY <1>1, GotoMoves, CopyMoves
<1>3. handler' = [handler EXCEPT ![c] = Idle] => OthersStay(c) /\ handler'[c].pc = "idle"
  BY <1>1, ResetMoves, TabsAssumption DEF Idle, Places
<1> USE DEF tableVars, webVars, loopVars, clientVars
<1>4. CASE PublishMeta(c) \/ PublishActivated(c) \/ InsertTab(c) \/ PostCreate(c)
           \/ RemoveTab(c) \/ PostClose(c)
  <2>1. OthersStay(c) /\ ~Sending(c) /\ ~Sending(c)'
    BY <1>2, <1>3, <1>4
       DEF PublishMeta, PublishActivated, InsertTab, PostCreate, RemoveTab, PostClose, Places,
           Sending, At
  <2>2. /\ UNCHANGED <<active, entries, picture, loop, cur, prev, incoming, pending>>
        /\ "picture" \in raced => "picture" \in raced'
    BY <1>4 DEF PublishMeta, PublishActivated, InsertTab, PostCreate, RemoveTab, PostClose, TooLate
  <2>3. ~SetActive(c)
    BY <1>4 DEF SetActive, PublishMeta, PublishActivated, InsertTab, PostCreate, RemoveTab,
                PostClose, At
  <2>4. QED
    BY <2>1, <2>2, <2>3, StillSettling, SendersStay, PictureStays DEF SameLoopFrames
<1> SUFFICES ASSUME "picture" \notin raced',
                    SetActive(c) \/ LockAndClone(c) \/ PublishRaw(c) \/ DropEntry(c)
             PROVE  /\ InHand' => cur' = active' /\ \A d \in Conns : ~Sending(d)'
                    /\ loop' = "stash" => cur' # active'
                    /\ \A d, e \in Conns : Sending(d)' /\ Sending(e)' => d = e
                    /\ \A d \in Conns : Sending(d)' => CopyRight(d)'
                    /\ Settling' \/ (\E d \in Conns : Sending(d)') \/ PictureRight'
    BY <1>4 DEF PictureInv, HandlerStep, Locking
<1>5. CASE SetActive(c)
  <2>1. /\ OthersStay(c) /\ handler'[c].pc = "lock" /\ handler'[c].tab = active'
        /\ raced' = Exposed(c) \cup (raced \cap {"view"}) /\ loop' = loop
    BY <1>2, <1>5 DEF SetActive, Places
  <2>2. MidSwitch \ {c} = {} /\ loop' \notin {"taken", "publish", "stash"}
    BY <2>1 DEF Exposed
  <2>3. ASSUME NEW d \in Conns, Sending(d)' PROVE d = c
    BY <2>1, <2>2, <2>3 DEF Sending, At, OthersStay, MidSwitch
  <2>4. Sending(c)' /\ CopyRight(c)'
    BY <2>1 DEF Sending, CopyRight, At
  <2>5. ~InHand'
    BY <2>2 DEF InHand
  <2>6. QED
    BY <2>2, <2>3, <2>4, <2>5
<1>6. ASSUME "picture" \notin raced
      PROVE  /\ InHand => cur = active /\ \A d \in Conns : ~Sending(d)
             /\ loop = "stash" => cur # active
             /\ \A d, e \in Conns : Sending(d) /\ Sending(e) => d = e
             /\ \A d \in Conns : Sending(d) => CopyRight(d)
             /\ Settling \/ (\E d \in Conns : Sending(d)) \/ PictureRight
  BY <1>6 DEF PictureInv
<1>7. CASE LockAndClone(c) /\ handler[c].tab \in tabs
  <2>1. /\ OthersStay(c) /\ handler'[c].pc = "raw" /\ handler'[c].tab = handler[c].tab
        /\ handler'[c].copy = entries[handler[c].tab] /\ handler[c].pc = "lock"
        /\ UNCHANGED <<active, entries, picture, raced, loop, cur, prev, incoming, pending>>
    BY <1>1, <1>7, CloneMoves, CopyMoves DEF LockAndClone, At
  <2>2. Sending(c) /\ Sending(c)'
    BY <2>1 DEF Sending, At
  <2>3. \A d \in Conns : Sending(d)' => d = c
    BY <1>6, <2>1, <2>2 DEF Sending, At, OthersStay
  <2>4. handler[c].tab = active
    BY <1>6, <2>1, <2>2 DEF CopyRight
  <2>5. CopyRight(c)'
    BY <2>1, <2>4 DEF CopyRight
  <2>6. ~InHand' /\ (loop' = "stash" => cur' # active')
    BY <1>6, <2>1, <2>2 DEF InHand
  <2>7. QED
    BY <2>2, <2>3, <2>5, <2>6
<1>8. CASE LockAndClone(c) /\ handler[c].tab \notin tabs
  <2>1. /\ OthersStay(c) /\ handler'[c].pc = "idle" /\ handler[c].pc = "lock"
        /\ UNCHANGED <<tabs, active, entries, picture, raced, loop, cur, prev, incoming, pending>>
    BY <1>3, <1>8 DEF LockAndClone, At
  <2>2. Sending(c) /\ \A d \in Conns : Sending(d)' => d # c /\ Sending(d)
    BY <2>1 DEF Sending, At, OthersStay
  <2>3. active \notin tabs'
    BY <1>6, <1>8, <2>1, <2>2 DEF CopyRight
  <2>4. \A d \in Conns : ~Sending(d)'
    BY <1>6, <2>1, <2>2
  <2>5. ~InHand' /\ (loop' = "stash" => cur' # active')
    BY <1>6, <2>1, <2>2 DEF InHand
  <2>6. QED
    BY <2>1, <2>3, <2>4, <2>5 DEF Settling
<1>9. CASE PublishRaw(c)
  <2>1. /\ OthersStay(c) /\ handler'[c].pc = "meta" /\ handler[c].pc = "raw"
        /\ picture' = IF handler[c].copy = NoFrame THEN picture ELSE handler[c].copy
        /\ UNCHANGED <<tabs, active, entries, raced, loop, cur, prev, incoming, pending>>
    BY <1>2, <1>9 DEF PublishRaw, Places, At
  <2>2. Sending(c) /\ \A d \in Conns : Sending(d)' => d # c /\ Sending(d)
    BY <2>1 DEF Sending, At, OthersStay
  <2>3. \A d \in Conns : ~Sending(d)'
    BY <1>6, <2>1, <2>2
  <2>4. ~InHand' /\ (loop' = "stash" => cur' # active')
    BY <1>6, <2>1, <2>2 DEF InHand
  <2>5. entries[active] \in {handler[c].copy, NoFrame}
    BY <1>6, <2>1, <2>2 DEF CopyRight, At
  <2>6. PictureRight'
    BY <2>1, <2>4, <2>5 DEF PictureRight, InHand
  <2>7. QED
    BY <2>3, <2>4, <2>6
<1>10. CASE DropEntry(c)
  <2>1. /\ OthersStay(c) /\ handler'[c].pc = "close" /\ handler[c].pc = "drop"
        /\ UNCHANGED <<active, picture, raced, loop, cur, prev, incoming, pending>>
        /\ entries' = [entries EXCEPT ![handler[c].tab] = NoFrame]
    BY <1>2, <1>10 DEF DropEntry, Places, At
  <2>2. active \in Tabs /\ entries' [active] \in {entries[active], NoFrame}
    BY <2>1 DEF Shape, TableOK, FramesOK
  <2>3. \A d \in Conns : /\ Sending(d)' <=> Sending(d)
                         /\ Sending(d) => handler'[d] = handler[d]
    BY <2>1 DEF Sending, At, OthersStay
  <2>4. ASSUME NEW d \in Conns, Sending(d)' PROVE CopyRight(d)'
    <3>1. CopyRight(d) /\ handler'[d] = handler[d]
      BY <1>6, <2>1, <2>3, <2>4
    <3>2. QED
      BY <2>1, <2>2, <3>1 DEF CopyRight, At
  <2>5. InHand' = InHand /\ (PictureRight => PictureRight')
    BY <2>1, <2>2 DEF PictureRight, InHand, ToBePublished
  <2>6. Settling => Settling'
    BY <1>10, StillSettling DEF SetActive, DropEntry, At
  <2> HIDE DEF InHand, Sending, CopyRight, Settling, PictureRight
  <2>7. QED
    BY <1>6, <2>1, <2>3, <2>4, <2>5, <2>6
<1>11. QED
  BY <1>5, <1>7, <1>8, <1>9, <1>10

(* The steps of the loop that handle a frame.  Each is given what PictureInv *)
(* says before it, and establishes what it says after it.                   *)
LEMMA FramePicture ==
  ASSUME Shape, FramesOK, LoopOK, PictureInv,
         \/ \E t \in Tabs : PickActive(t) \/ PickInactive(t)
         \/ Stash \/ StoreFull \/ (\E R \in SUBSET Rects : StoreDiff(R))
         \/ (\E m \in pending : PublishNext(m)) \/ FrameDone
  PROVE  PictureInv'
<1>1. active \in Tabs /\ cur \in Tabs
  BY DEF Shape, TableOK
<1>2. UNCHANGED <<tabs, active, handler>>
  BY DEF PickActive, PickInactive, PickFrame, Stash, StoreFull, StoreDiff, Store, PublishNext,
         FrameDone, tableVars
<1>3. Settling' = Settling /\ \A c \in Conns : Sending(c)' = Sending(c)
  BY <1>2 DEF Settling, Creating, Sending, At
<1>4. \A c \in Conns : entries'[active] = entries[active] => CopyRight(c)' = CopyRight(c)
  BY <1>2 DEF CopyRight, At
<1>5. (\A c \in Conns : ~Sending(c)) <=> BeforeRaw = {}
  BY DEF BeforeRaw, Sending
<1> SUFFICES ASSUME "picture" \notin raced'
             PROVE  /\ InHand' => cur' = active' /\ \A c \in Conns : ~Sending(c)'
                    /\ loop' = "stash" => cur' # active'
                    /\ \A c, d \in Conns : Sending(c)' /\ Sending(d)' => c = d
                    /\ \A c \in Conns : Sending(c)' => CopyRight(c)'
                    /\ Settling' \/ (\E c \in Conns : Sending(c)') \/ PictureRight'
    BY DEF PictureInv
<1> USE DEF tableVars, webVars, clientVars
<1>6. ASSUME "picture" \notin raced
      PROVE  /\ InHand => cur = active /\ \A c \in Conns : ~Sending(c)
             /\ loop = "stash" => cur # active
             /\ \A c, d \in Conns : Sending(c) /\ Sending(d) => c = d
             /\ \A c \in Conns : Sending(c) => CopyRight(c)
             /\ Settling \/ (\E c \in Conns : Sending(c)) \/ PictureRight
  BY <1>6 DEF PictureInv
(* Enough for a step that does not look at the senders. *)
<1>7. ASSUME "picture" \notin raced, entries'[active] = entries[active],
             InHand' => cur' = active /\ \A c \in Conns : ~Sending(c),
             loop' = "stash" => cur' # active,
             (\A c \in Conns : ~Sending(c)) \/ (~InHand /\ ~InHand'),
             PictureRight => PictureRight'
      PROVE  /\ InHand' => cur' = active' /\ \A c \in Conns : ~Sending(c)'
             /\ loop' = "stash" => cur' # active'
             /\ \A c, d \in Conns : Sending(c)' /\ Sending(d)' => c = d
             /\ \A c \in Conns : Sending(c)' => CopyRight(c)'
             /\ Settling' \/ (\E c \in Conns : Sending(c)') \/ PictureRight'
  <2> HIDE DEF InHand, Sending, CopyRight, Settling, PictureRight
  <2>1. QED
    BY <1>2, <1>3, <1>4, <1>6, <1>7
(* Enough for a step that only needs that no switch is before its RawFrame. *)
<1>8. ASSUME \A c \in Conns : ~Sending(c), InHand' => cur' = active, loop' # "stash",
             Settling \/ PictureRight'
      PROVE  /\ InHand' => cur' = active' /\ \A c \in Conns : ~Sending(c)'
             /\ loop' = "stash" => cur' # active'
             /\ \A c, d \in Conns : Sending(c)' /\ Sending(d)' => c = d
             /\ \A c \in Conns : Sending(c)' => CopyRight(c)'
             /\ Settling' \/ (\E c \in Conns : Sending(c)') \/ PictureRight'
  <2> HIDE DEF InHand, Sending, CopyRight, Settling, PictureRight
  <2>1. QED
    BY <1>2, <1>3, <1>8
<1>9. ASSUME NEW t \in Tabs, PickActive(t)
      PROVE  (\A c \in Conns : ~Sending(c)) /\ cur' = active /\ loop' # "stash"
             /\ (Settling \/ PictureRight')
  <2>1. /\ t = active /\ cur' = t /\ loop = "batch" /\ loop' = "taken"
        /\ prev' = entries[active] /\ entries' = [entries EXCEPT ![active] = NoFrame]
        /\ picture' = picture
    BY <1>9 DEF PickActive, PickFrame
  <2>2. "picture" \notin raced /\ BeforeRaw = {}
    BY <1>9 DEF PickActive
  <2>3. \A c \in Conns : ~Sending(c)
    BY <1>5, <2>2
  <2>4. Settling \/ PictureRight
    BY <1>6, <2>2, <2>3
  <2>5. PictureRight => PictureRight'
    BY <2>1 DEF PictureRight, InHand
  <2>6. QED
    BY <2>1, <2>3, <2>4, <2>5
<1>10. ASSUME NEW t \in Tabs, PickInactive(t)
       PROVE  /\ "picture" \notin raced /\ entries'[active] = entries[active]
              /\ ~InHand /\ ~InHand' /\ cur' # active /\ (PictureRight => PictureRight')
  BY <1>10 DEF PickInactive, PickFrame, InHand, PictureRight
<1>11. ASSUME Stash
       PROVE  /\ "picture" \notin raced /\ entries'[active] = entries[active]
              /\ ~InHand /\ ~InHand' /\ loop' # "stash" /\ (PictureRight => PictureRight')
  <2>1. "picture" \notin raced /\ loop = "stash" /\ loop' = "batch" /\ picture' = picture
    BY <1>11 DEF Stash
  <2>2. cur # active
    BY <1>6, <2>1
  <2>3. entries'[active] = entries[active]
    BY <1>1, <1>11, <2>2 DEF Stash, FramesOK
  <2>4. QED
    BY <1>2, <2>1, <2>3 DEF InHand, PictureRight
<1>12. ASSUME NEW msgs, Store(msgs),
              "picture" \notin raced /\ (Settling \/ PictureRight)
                => Settling \/ \A p \in Pixels : picture[p] = incoming[p] \/ \E m \in msgs : p \in m.px
       PROVE  (\A c \in Conns : ~Sending(c)) /\ cur' = active /\ loop' # "stash"
              /\ (Settling \/ PictureRight')
  <2>1. /\ "picture" \notin raced /\ loop = "taken" /\ loop' = "publish" /\ pending' = msgs
        /\ UNCHANGED <<cur, incoming, picture>>
    BY <1>12 DEF Store
  <2>2. cur = active /\ \A c \in Conns : ~Sending(c)
    BY <1>6, <2>1 DEF InHand
  <2>3. Settling \/ \A p \in Pixels : picture[p] = incoming[p] \/ \E m \in msgs : p \in m.px
    BY <1>6, <1>12, <2>1, <2>2
  <2>4. (\A p \in Pixels : picture[p] = incoming[p] \/ \E m \in msgs : p \in m.px) => PictureRight'
    BY <2>1 DEF PictureRight, InHand, ToBePublished
  <2>5. QED
    BY <2>1, <2>2, <2>3, <2>4
<1>13. ASSUME StoreFull
       PROVE  (\A c \in Conns : ~Sending(c)) /\ cur' = active /\ loop' # "stash"
              /\ (Settling \/ PictureRight')
  <2>1. Store({RawFrame(incoming)})
    BY <1>13 DEF StoreFull
  <2>2. \A p \in Pixels : \E m \in {RawFrame(incoming)} : p \in m.px
    BY DEF RawFrame
  <2>3. QED
    BY <1>12, <2>1, <2>2
<1>14. ASSUME NEW R \in SUBSET Rects, StoreDiff(R)
       PROVE  (\A c \in Conns : ~Sending(c)) /\ cur' = active /\ loop' # "stash"
              /\ (Settling \/ PictureRight')
  <2>1. /\ Store(Damage(R, incoming)) /\ prev # NoFrame /\ loop = "taken"
        /\ Changed(prev, incoming) \subseteq UNION R
    BY <1>14 DEF StoreDiff, Store, IsRegions
  <2>2. ASSUME PictureRight, NEW p \in Pixels, picture[p] # incoming[p]
        PROVE  \E m \in Damage(R, incoming) : p \in m.px
    <3>1. picture = prev
      BY <2>1, <2>2 DEF PictureRight
    <3>2. PICK r \in R : p \in r
      BY <2>1, <2>2, <3>1 DEF Changed
    <3>3. CASE TooMuch(R, incoming)
      BY <3>2, <3>3 DEF Damage, RawFrame
    <3>4. CASE ~TooMuch(R, incoming)
      <4>1. Subframe(r, incoming) \in Damage(R, incoming)
        BY <3>2, <3>4 DEF Damage
      <4>2. p \in Subframe(r, incoming).px
        BY <3>2 DEF Subframe
      <4>3. QED
        BY <4>1, <4>2
    <3>5. QED
      BY <3>3, <3>4
  <2>3. QED
    BY <1>12, <2>1, <2>2
<1>15. ASSUME NEW m \in pending, PublishNext(m)
       PROVE  (\A c \in Conns : ~Sending(c)) /\ cur' = active /\ loop' # "stash"
              /\ (Settling \/ PictureRight')
  <2>1. /\ loop = "publish" /\ loop' = "publish" /\ UNCHANGED <<cur, incoming, entries>>
        /\ picture' = Paint(picture, m) /\ pending' = pending \ {m}
        /\ raced' = IF m.kind = "raw" /\ cur = active /\ BeforeRaw = {}
                      THEN raced \ {"picture"} ELSE raced
    BY <1>15 DEF PublishNext
  <2>2. /\ m.pix = incoming /\ (m.kind = "raw" => m.px = Pixels)
        /\ \A p \in m.px \cap Pixels : picture'[p] = incoming[p]
        /\ \A p \in Pixels \ m.px : picture'[p] = picture[p]
    BY <2>1 DEF LoopOK, Paint
  <2>3. CASE m.kind = "raw" /\ cur = active /\ BeforeRaw = {}
    <3>1. \A p \in Pixels : picture'[p] = incoming'[p]
      BY <2>1, <2>2, <2>3
    <3>2. PictureRight'
      BY <2>1, <3>1 DEF PictureRight, InHand
    <3>3. QED
      BY <1>5, <2>1, <2>3, <3>2
  <2>4. CASE ~(m.kind = "raw" /\ cur = active /\ BeforeRaw = {})
    <3>1. "picture" \notin raced
      BY <2>1, <2>4
    <3>2. cur = active /\ \A c \in Conns : ~Sending(c)
      BY <1>6, <2>1, <3>1 DEF InHand
    <3>3. Settling \/ PictureRight
      BY <1>6, <3>1, <3>2
    <3>4. ASSUME PictureRight PROVE PictureRight'
      <4>1. ASSUME entries[active] # NoFrame, NEW p \in Pixels
            PROVE  picture'[p] = incoming'[p] \/ ToBePublished(p)'
        <5>1. CASE p \in m.px
          BY <2>1, <2>2, <5>1
        <5>2. CASE p \notin m.px
          <6>1. picture'[p] = picture[p]
            BY <2>2, <5>2
          <6>2. picture[p] = incoming[p] \/ ToBePublished(p)
            BY <2>1, <3>4, <4>1 DEF PictureRight
          <6>3. ToBePublished(p) => ToBePublished(p)'
            BY <2>1, <5>2 DEF ToBePublished
          <6>4. QED
            BY <2>1, <6>1, <6>2, <6>3
        <5>3. QED
          BY <5>1, <5>2
      <4>2. QED
        BY <1>2, <2>1, <4>1 DEF PictureRight, InHand
    <3>5. QED
      BY <2>1, <3>2, <3>3, <3>4
  <2>5. QED
    BY <2>3, <2>4
<1>16. ASSUME FrameDone
       PROVE  (\A c \in Conns : ~Sending(c)) /\ ~InHand' /\ loop' # "stash"
              /\ (Settling \/ PictureRight')
  <2>1. /\ "picture" \notin raced /\ loop = "publish" /\ loop' = "batch" /\ pending = {}
        /\ UNCHANGED <<entries, picture>>
    BY <1>16 DEF FrameDone
  <2>2. cur = active /\ \A c \in Conns : ~Sending(c)
    BY <1>6, <2>1 DEF InHand
  <2>3. Settling \/ PictureRight
    BY <1>6, <2>1, <2>2
  <2>4. ASSUME PictureRight, entries[active] # NoFrame PROVE picture = entries[active]
    <3>1. entries[active] = incoming /\ incoming \in Frame /\ picture \in Frame
      BY <2>1, <2>2, <2>4 DEF LoopOK, InHand, FramesOK
    <3>2. \A p \in Pixels : picture[p] = incoming[p]
      BY <2>1, <2>4 DEF PictureRight, ToBePublished
    <3>3. QED
      BY <3>1, <3>2 DEF Frame
  <2>5. ~InHand'
    BY <2>1 DEF InHand
  <2>6. PictureRight => PictureRight'
    BY <1>2, <2>1, <2>4, <2>5 DEF PictureRight, InHand
  <2>7. QED
    BY <2>1, <2>2, <2>3, <2>5, <2>6
<1> HIDE DEF InHand, Sending, CopyRight, Settling, PictureRight
<1>17. QED
  BY <1>7, <1>8, <1>9, <1>10, <1>11, <1>13, <1>14, <1>15, <1>16

LEMMA NextPicture == Shape /\ FramesOK /\ LoopOK /\ PictureInv /\ [Next]_vars => PictureInv'
<1> SUFFICES ASSUME Shape, FramesOK, LoopOK, PictureInv, [Next]_vars PROVE PictureInv'
    OBVIOUS
<1> USE DEF tableVars, webVars, clientVars
<1>1. CASE WebKit \/ Event \/ Start \/ RunPosted \/ StoreMeta \/ ReceiveBatch \/ BatchDone
           \/ CheckActive \/ TellMeta \/ UNCHANGED vars
  <2>1. UNCHANGED <<tabs, active, entries, picture, handler, raced>>
    BY <1>1 DEF WebKit, Render, Event, LoadEvent, ReceiveMeta, Start, RunPosted, StoreMeta, ReceiveBatch,
                BatchDone, CheckActive, TellMeta, vars
  <2>2. SameLoopFrames
    BY <1>1 DEF WebKit, Render, Event, LoadEvent, ReceiveMeta, Start, RunPosted, StoreMeta, ReceiveBatch,
                BatchDone, CheckActive, TellMeta, vars, loopVars, SameLoopFrames
  <2>3. SameSenders /\ (Settling => Settling')
    BY <2>1 DEF SameSenders, Sending, Settling, Creating, At
  <2>4. QED
    BY <2>1, <2>2, <2>3, PictureStays
<1>2. ASSUME NEW c \in Conns, NEW t \in Tabs, Ask(c, t)
      PROVE  PictureInv'
  <2>1. /\ UNCHANGED <<tabs, active, entries, picture, raced, loop, cur, prev, incoming, pending>>
        /\ OthersStay(c) /\ handler[c].pc = "idle"
        /\ handler'[c].pc \in {"store", "insert", "remove"}
    BY <1>2, RequestEffect DEF loopVars
  <2>2. SameSenders
    BY <2>1, SendersStay DEF Sending, At
  <2>3. Settling => Settling'
    BY <2>1 DEF Settling, Creating, OthersStay, At
  <2>4. QED
    BY <2>1, <2>2, <2>3, PictureStays DEF SameLoopFrames
<1>3. QED
  BY <1>1, <1>2, HandlerPicture, FramePicture DEF Next, LoopStep

-----------------------------------------------------------------------------
(* However the handlers of any number of connections, the frame loop and   *)
(* WebKit interleave, a client shows the framebuffer of the active tab     *)
(* unless a frame was in the loop's hands, or another switch under way,    *)
(* when active_tab_id changed (main.rs:391-410 against main.rs:237-311).   *)
THEOREM PictureIsOfActive == Spec => []PictureOfActive
<1>1. Init => PInv
  BY InitInvariants, InitPicture DEF PInv
<1>2. PInv /\ [Next]_vars => PInv'
  BY NextShape, NextFrames, NextPicture DEF PInv
<1>3. PInv => PictureOfActive
  <2>1. SUFFICES ASSUME PInv, Quiet, loop \in {"idle", "batch"}, entries[active] # NoFrame,
                        "picture" \notin raced
                 PROVE  picture = entries[active]
    BY DEF PictureOfActive
  <2>2. ~InHand /\ ~Settling /\ \A c \in Conns : ~Sending(c)
    BY <2>1 DEF InHand, Quiet, Settling, Creating, Sending, At
  <2>3. PictureRight
    BY <2>1, <2>2 DEF PInv, PictureInv
  <2>4. QED
    BY <2>1, <2>2, <2>3 DEF PictureRight
<1>4. QED
  BY <1>1, <1>2, <1>3, PTL DEF Spec

=============================================================================
