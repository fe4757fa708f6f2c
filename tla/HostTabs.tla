------------------------------ MODULE HostTabs -----------------------------
(***************************************************************************)
(* The tabs of the host: switch_tab, create_tab and close_tab, run by one  *)
(* handler task per connection, against the frame loop and against WebKit. *)
(* All of gutted-host-rs/src/main.rs unless another file is named.         *)
(*                                                                         *)
(* Shared by these tasks are the tab table behind a tokio mutex, the       *)
(* atomic active_tab_id, last_frames behind a mutex held for one operation *)
(* at a time, and the bus.  The bus is seen by one client that applies     *)
(* every message as it is published; FramePipeline is about clients that   *)
(* read late.                                                              *)
(*                                                                         *)
(* A value that is new (the content of a pixel, a title, a url) is         *)
(* identified by a stamp nothing else has.                                 *)
(***************************************************************************)
EXTENDS Framebuffers

CONSTANTS
  Tabs,      \* the tab ids the clients use
  FirstTab,  \* the tab the host starts with (1)
  Conns,     \* the connections, each handling one request at a time
  Fields,    \* what the table holds of a tab: "title" and "url"
  Nobody     \* holds the tab table when no connection does

ASSUME TabsAssumption ==
  /\ FirstTab \in Tabs
  /\ Fields \subseteq {"title", "url"}
  /\ Nobody \notin Conns

VARIABLES
  tabs,       \* the ids in the tab table
  meta,       \* the title and url the table holds for a tab
  lock,       \* the connection that holds the mutex of the tab table
  active,     \* active_tab_id
  entries,    \* last_frames
  ready,      \* WebKit's thread has handed out its handle
  live,       \* the tabs WebKit has a view for (host/gutted_wpe.c inst->tabs)
  heard,      \* the tabs that have had one: their events may be in the channels
  surface,    \* what the view of a tab last rendered
  posted,     \* create and close calls posted to the GLib loop
  missed,     \* ghost: the tabs whose last create or close call came to nothing
  frames,     \* the channel of frames from WebKit to the frame loop
  stamp,      \* the newest stamp
  loop,       \* where the frame loop stands
  cur,        \* this_tab_id
  field,      \* which of titles and urls it received from
  batch,      \* the newest frame per tab, for the tabs still to be handled
  prev,       \* what the loop removed from last_frames
  incoming,   \* the frame it is working on
  news,       \* the title or url it is working on
  mustFull,   \* must_full
  forceFull,  \* force_full
  pending,    \* the frame messages still to be published
  handler,    \* what the request handler of a connection is doing
  picture,    \* client: its texture
  shown,      \* client: window title and url bar
  announced,  \* client: the tab of the last TabActivated
  raced       \* ghost: what a race with the latest switch may have spoiled

tableVars == <<tabs, meta, lock, active, entries>>
webVars == <<ready, live, heard, surface, posted, missed>>
loopVars == <<loop, cur, field, news, batch, prev, incoming, mustFull, forceFull, pending>>
clientVars == <<picture, shown, announced>>

vars == <<tableVars, webVars, frames, stamp, loopVars, handler, clientVars, raced>>

Idle == [pc |-> "idle", tab |-> FirstTab, copy |-> NoFrame]

NoBatch == [t \in Tabs |-> NoFrame]

At(c, places) == handler[c].pc \in places

(* switch_tab has set active_tab_id and has not sent its RawFrame yet. *)
BeforeRaw == {c \in Conns : At(c, {"lock", "raw"})}

(* switch_tab has set active_tab_id and has not returned yet. *)
MidSwitch == {c \in Conns : At(c, {"lock", "raw", "meta", "announce"})}

Goto(c, place) == handler' = [handler EXCEPT ![c].pc = place]

-----------------------------------------------------------------------------
(* WebKit's thread. *)

(* idle_create_tab and create_tab_internal: an id that has a view keeps the  *)
(* view it has, for another WPE may fail to make one.                      *)
OpenView(t) ==
  \/ /\ live' = live \cup {t}
     /\ heard' = heard \cup {t}
     /\ surface' = IF t \in live THEN surface ELSE [surface EXCEPT ![t] = NoFrame]
     /\ UNCHANGED missed
  \/ /\ t \notin live
     /\ missed' = missed \cup {t}
     /\ UNCHANGED <<live, heard, surface>>

(* idle_close_tab *)
CloseView(t) ==
  /\ live' = live \ {t}
  /\ surface' = [surface EXCEPT ![t] = NoFrame]
  /\ UNCHANGED <<heard, missed>>

(* gutted_wpe_run makes the view of the first tab and hands out the handle; *)
(* the host waits for that a second and then goes on without.              *)
Start ==
  /\ ~ready
  /\ ready' = TRUE
  /\ OpenView(FirstTab)
  /\ UNCHANGED posted
  /\ UNCHANGED <<tableVars, frames, stamp, loopVars, handler, clientVars, raced>>

RunPosted ==
  /\ posted # <<>>
  /\ posted' = Tail(posted)
  /\ LET call == Head(posted)
     IN  IF call.op = "create" THEN OpenView(call.tab) ELSE CloseView(call.tab)
  /\ UNCHANGED ready
  /\ UNCHANGED <<tableVars, frames, stamp, loopVars, handler, clientVars, raced>>

(* on_shm_buffer: a view has rendered and sends its whole surface. *)
Render(t, C) ==
  /\ t \in live
  /\ surface' = [surface EXCEPT ![t] = Rendered(Pixels, C, @, stamp + 1)]
  /\ frames' = Append(frames, [tab |-> t, pix |-> surface'[t]])
  /\ stamp' = stamp + 1
  /\ UNCHANGED <<ready, live, heard, posted, missed>>
  /\ UNCHANGED <<tableVars, loopVars, handler, clientVars, raced>>

-----------------------------------------------------------------------------
(* The frame loop: frames. *)

(* The newest frame of every tab that has one in the channel. *)
Newest(q) ==
  [t \in Tabs |->
     LET mine == {i \in DOMAIN q : q[i].tab = t}
     IN  IF mine = {} THEN NoFrame
         ELSE q[CHOOSE i \in mine : \A j \in mine : j <= i].pix]

ReceiveBatch ==
  /\ loop = "idle"
  /\ frames # <<>>
  /\ batch' = Newest(frames)
  /\ frames' = <<>>
  /\ loop' = "batch"
  /\ UNCHANGED <<cur, field, news, prev, incoming, mustFull, forceFull, pending>>
  /\ UNCHANGED <<tableVars, webVars, stamp, handler, clientVars, raced>>

PickFrame(t) ==
  /\ loop = "batch"
  /\ batch[t] # NoFrame
  /\ cur' = t
  /\ incoming' = batch[t]
  /\ batch' = [batch EXCEPT ![t] = NoFrame]

(* The frame is of the active tab: its entry is taken out of last_frames.  *)
PickActive(t) ==
  /\ t = active
  /\ PickFrame(t)
  /\ mustFull' = (t \in forceFull)
  /\ forceFull' = forceFull \ {t}
  /\ prev' = entries[t]
  /\ entries' = [entries EXCEPT ![t] = NoFrame]
  /\ loop' = "taken"
  /\ raced' = IF BeforeRaw = {} THEN raced ELSE raced \cup {"picture"}
  /\ UNCHANGED <<tabs, meta, lock, active, field, news, pending>>
  /\ UNCHANGED <<webVars, frames, stamp, handler, clientVars>>

(* The frame is of another tab ... *)
PickInactive(t) ==
  /\ t # active
  /\ PickFrame(t)
  /\ loop' = "stash"
  /\ UNCHANGED <<tableVars, field, news, prev, mustFull, forceFull, pending>>
  /\ UNCHANGED <<webVars, frames, stamp, handler, clientVars, raced>>

(* ... and only goes into last_frames. *)
Stash ==
  /\ loop = "stash"
  /\ entries' = [entries EXCEPT ![cur] = incoming]
  /\ incoming' = NoFrame
  /\ loop' = "batch"
  /\ UNCHANGED <<tabs, meta, lock, active>>
  /\ UNCHANGED <<cur, field, news, batch, prev, mustFull, forceFull, pending>>
  /\ UNCHANGED <<webVars, frames, stamp, handler, clientVars, raced>>

(* The frame goes back into last_frames and out to the bus: whole if it is *)
(* the first, or must be; otherwise the damage over the one before.        *)
Store(msgs) ==
  /\ loop = "taken"
  /\ entries' = [entries EXCEPT ![cur] = incoming]
  /\ pending' = msgs
  /\ loop' = "publish"
  /\ UNCHANGED <<tabs, meta, lock, active>>
  /\ UNCHANGED <<cur, field, news, batch, prev, incoming, mustFull, forceFull>>
  /\ UNCHANGED <<webVars, frames, stamp, handler, clientVars, raced>>

StoreFull == (mustFull \/ prev = NoFrame) /\ Store({RawFrame(incoming)})

StoreDiff(R) ==
  /\ ~mustFull /\ prev # NoFrame
  /\ IsRegions(R, prev, incoming)
  /\ Store(Damage(R, incoming))

(* A raw frame of the active tab makes the client's texture whole again. *)
PublishNext(m) ==
  /\ loop = "publish"
  /\ m \in pending
  /\ picture' = Paint(picture, m)
  /\ pending' = pending \ {m}
  /\ raced' = IF m.kind = "raw" /\ cur = active /\ BeforeRaw = {}
                THEN raced \ {"picture"} ELSE raced
  /\ UNCHANGED <<loop, cur, field, news, batch, prev, incoming, mustFull, forceFull>>
  /\ UNCHANGED <<tableVars, webVars, frames, stamp, handler, shown, announced>>

FrameDone ==
  /\ loop = "publish"
  /\ pending = {}
  /\ loop' = "batch"
  /\ prev' = NoFrame
  /\ incoming' = NoFrame
  /\ mustFull' = FALSE
  /\ UNCHANGED <<cur, field, news, batch, forceFull, pending>>
  /\ UNCHANGED <<tableVars, webVars, frames, stamp, handler, clientVars, raced>>

BatchDone ==
  /\ loop = "batch"
  /\ batch = NoBatch
  /\ loop' = "idle"
  /\ UNCHANGED <<cur, field, news, batch, prev, incoming, mustFull, forceFull, pending>>
  /\ UNCHANGED <<tableVars, webVars, frames, stamp, handler, clientVars, raced>>

-----------------------------------------------------------------------------
(* The frame loop: the other channels. *)

(* A load of the tab starts or commits. *)
LoadEvent(t) ==
  /\ loop = "idle"
  /\ t \in heard
  /\ forceFull' = forceFull \cup {t}
  /\ UNCHANGED <<loop, cur, field, news, batch, prev, incoming, mustFull, pending>>
  /\ UNCHANGED <<tableVars, webVars, frames, stamp, handler, clientVars, raced>>

(* A new title or url arrives; a url also asks for a full frame. *)
ReceiveMeta(t, f) ==
  /\ loop = "idle"
  /\ t \in heard
  /\ loop' = "news"
  /\ cur' = t
  /\ field' = f
  /\ news' = stamp + 1
  /\ stamp' = stamp + 1
  /\ forceFull' = IF f = "url" THEN forceFull \cup {t} ELSE forceFull
  /\ UNCHANGED <<batch, prev, incoming, mustFull, pending>>
  /\ UNCHANGED <<tableVars, webVars, frames, handler, clientVars, raced>>

(* tabs.lock().await, the update of a tab that is there, the unlock. *)
StoreMeta ==
  /\ loop = "news"
  /\ lock = Nobody
  /\ meta' = IF cur \in tabs THEN [meta EXCEPT ![cur][field] = news] ELSE meta
  /\ loop' = "check"
  /\ UNCHANGED <<tabs, lock, active, entries>>
  /\ UNCHANGED <<cur, field, news, batch, prev, incoming, mustFull, forceFull, pending>>
  /\ UNCHANGED <<webVars, frames, stamp, handler, clientVars, raced>>

(* Mutant of CheckActive: the event goes out whatever tab it is of. *)
CheckNothing ==
  /\ loop = "check"
  /\ loop' = "tell"
  /\ UNCHANGED <<cur, field, news, batch, prev, incoming, mustFull, forceFull, pending>>
  /\ UNCHANGED <<tableVars, webVars, frames, stamp, handler, clientVars, raced>>

CheckActive ==
  /\ loop = "check"
  /\ loop' = IF active = cur THEN "tell" ELSE "idle"
  /\ news' = IF active = cur THEN news ELSE 0
  /\ UNCHANGED <<cur, field, batch, prev, incoming, mustFull, forceFull, pending>>
  /\ UNCHANGED <<tableVars, webVars, frames, stamp, handler, clientVars, raced>>

(* Title or UrlChanged goes out. *)
TellMeta ==
  /\ loop = "tell"
  /\ shown' = [shown EXCEPT ![field] = news]
  /\ news' = 0
  /\ loop' = "idle"
  /\ UNCHANGED <<cur, field, batch, prev, incoming, mustFull, forceFull, pending>>
  /\ UNCHANGED <<tableVars, webVars, frames, stamp, handler, picture, announced, raced>>

-----------------------------------------------------------------------------
(* switch_tab *)

(* A request arrives at an idle handler. *)
Request(c, t, place) ==
  /\ At(c, {"idle"})
  /\ handler' = [handler EXCEPT ![c] = [pc |-> place, tab |-> t, copy |-> NoFrame]]
  /\ UNCHANGED <<tableVars, webVars, frames, stamp, loopVars, clientVars, raced>>

(* What of the client's view another task can still spoil, if the active   *)
(* tab changes now: everything if another switch is under way, the picture *)
(* if the loop has already asked whether the tab of its frame is active,   *)
(* the title and url if it has just stored one.                            *)
Exposed(c) ==
  IF MidSwitch \ {c} # {} THEN {"picture", "meta", "announced"}
  ELSE (IF loop \in {"taken", "publish", "stash"} THEN {"picture"} ELSE {})
         \cup (IF loop \in {"check", "tell"} THEN {"meta"} ELSE {})

SetActive(c) ==
  /\ At(c, {"store"})
  /\ active' = handler[c].tab
  /\ raced' = Exposed(c) \cup (raced \cap {"view"})
  /\ Goto(c, "lock")
  /\ UNCHANGED <<tabs, meta, lock, entries>>
  /\ UNCHANGED <<webVars, frames, stamp, loopVars, clientVars>>

(* Mutant of LockAndClone: the early return keeps the mutex. *)
LockAndCloneKeeps(c) ==
  LET t == handler[c].tab
  IN  /\ At(c, {"lock"})
      /\ lock = Nobody
      /\ lock' = c
      /\ handler' = IF t \in tabs
                      THEN [handler EXCEPT ![c].pc = "raw", ![c].copy = entries[t]]
                      ELSE [handler EXCEPT ![c] = Idle]
      /\ UNCHANGED <<tabs, meta, active, entries>>
      /\ UNCHANGED <<webVars, frames, stamp, loopVars, clientVars, raced>>

(* The mutex is taken, and kept while the messages go out; the entry of the *)
(* tab is cloned. A tab that is not there ends the call.                    *)
LockAndClone(c) ==
  LET t == handler[c].tab
  IN  /\ At(c, {"lock"})
      /\ lock = Nobody
      /\ IF t \in tabs
           THEN /\ lock' = c
                /\ handler' = [handler EXCEPT ![c].pc = "raw", ![c].copy = entries[t]]
           ELSE /\ handler' = [handler EXCEPT ![c] = Idle]
                /\ UNCHANGED lock
      /\ UNCHANGED <<tabs, meta, active, entries>>
      /\ UNCHANGED <<webVars, frames, stamp, loopVars, clientVars, raced>>

(* Mutant of PublishRaw: the framebuffer of the new tab is not sent. *)
PublishNoRaw(c) ==
  /\ At(c, {"raw"})
  /\ Goto(c, "meta")
  /\ UNCHANGED <<tableVars, webVars, frames, stamp, loopVars, clientVars, raced>>

(* The RawFrame goes out, if there was an entry. *)
PublishRaw(c) ==
  /\ At(c, {"raw"})
  /\ picture' = IF handler[c].copy = NoFrame THEN picture ELSE handler[c].copy
  /\ Goto(c, "meta")
  /\ UNCHANGED <<tableVars, webVars, frames, stamp, loopVars, shown, announced, raced>>

(* Title and UrlChanged. *)
PublishMeta(c) ==
  /\ At(c, {"meta"})
  /\ shown' = meta[handler[c].tab]
  /\ Goto(c, "announce")
  /\ UNCHANGED <<tableVars, webVars, frames, stamp, loopVars, picture, announced, raced>>

(* Mutants of PublishActivated: the mutex stays taken; the tab is not announced. *)
PublishActivatedKeeps(c) ==
  /\ At(c, {"announce"})
  /\ announced' = handler[c].tab
  /\ handler' = [handler EXCEPT ![c] = Idle]
  /\ UNCHANGED <<tableVars, webVars, frames, stamp, loopVars, picture, shown, raced>>

PublishActivatedSilent(c) ==
  /\ At(c, {"announce"})
  /\ lock' = Nobody
  /\ handler' = [handler EXCEPT ![c] = Idle]
  /\ UNCHANGED <<tabs, meta, active, entries>>
  /\ UNCHANGED <<webVars, frames, stamp, loopVars, clientVars, raced>>

(* TabActivated, and the mutex is released. *)
PublishActivated(c) ==
  /\ At(c, {"announce"})
  /\ announced' = handler[c].tab
  /\ lock' = Nobody
  /\ handler' = [handler EXCEPT ![c] = Idle]
  /\ UNCHANGED <<tabs, meta, active, entries>>
  /\ UNCHANGED <<webVars, frames, stamp, loopVars, picture, shown, raced>>

-----------------------------------------------------------------------------
(* create_tab and close_tab *)

InsertTab(c) ==
  /\ At(c, {"insert"})
  /\ lock = Nobody
  /\ tabs' = tabs \cup {handler[c].tab}
  /\ stamp' = stamp + 1
  /\ meta' = [meta EXCEPT ![handler[c].tab] = [f \in Fields |-> stamp + 1]]
  /\ Goto(c, "create")
  /\ UNCHANGED <<lock, active, entries, webVars, frames, loopVars, clientVars, raced>>

(* The tab is no longer in the table, or is again, as another handler has    *)
(* closed or created it since: WebKit is told too late.                      *)
TooLate(c, there) == IF (handler[c].tab \in tabs) = there THEN raced ELSE raced \cup {"view"}

(* A call on WebKit's thread is posted; without a handle nothing is, nor for *)
(* a url with a NUL in it.                                                  *)
Post(op, t) ==
  /\ ready
  /\ posted' = Append(posted, [op |-> op, tab |-> t])
  /\ missed' = missed \ {t}

PostNothing(t) == missed' = missed \cup {t} /\ UNCHANGED posted

(* Mutant of PostCreate: a tab that still has a view is not asked of WebKit. *)
PostCreateUnlessLive(c) ==
  /\ At(c, {"create"})
  /\ \/ handler[c].tab \in live /\ UNCHANGED <<posted, missed>>
     \/ handler[c].tab \notin live /\ Post("create", handler[c].tab)
     \/ PostNothing(handler[c].tab)
  /\ Goto(c, "store")
  /\ raced' = TooLate(c, TRUE)
  /\ UNCHANGED <<tableVars, ready, live, heard, surface, frames, stamp, loopVars, clientVars>>

(* The new tab is asked of WebKit, and then switched to. *)
PostCreate(c) ==
  /\ At(c, {"create"})
  /\ Post("create", handler[c].tab) \/ PostNothing(handler[c].tab)
  /\ Goto(c, "store")
  /\ raced' = TooLate(c, TRUE)
  /\ UNCHANGED <<tableVars, ready, live, heard, surface, frames, stamp, loopVars, clientVars>>

RemoveTab(c) ==
  /\ At(c, {"remove"})
  /\ lock = Nobody
  /\ tabs' = tabs \ {handler[c].tab}
  /\ Goto(c, "drop")
  /\ UNCHANGED <<meta, lock, active, entries>>
  /\ UNCHANGED <<webVars, frames, stamp, loopVars, clientVars, raced>>

DropEntry(c) ==
  /\ At(c, {"drop"})
  /\ entries' = [entries EXCEPT ![handler[c].tab] = NoFrame]
  /\ Goto(c, "close")
  /\ UNCHANGED <<tabs, meta, lock, active>>
  /\ UNCHANGED <<webVars, frames, stamp, loopVars, clientVars, raced>>

PostClose(c) ==
  /\ At(c, {"close"})
  /\ Post("close", handler[c].tab) \/ (~ready /\ PostNothing(handler[c].tab))
  /\ handler' = [handler EXCEPT ![c] = Idle]
  /\ raced' = TooLate(c, FALSE)
  /\ UNCHANGED <<tableVars, ready, live, heard, surface, frames, stamp, loopVars, clientVars>>

-----------------------------------------------------------------------------
Init ==
  /\ tabs = {FirstTab}
  /\ meta = [t \in Tabs |-> [f \in Fields |-> 0]]
  /\ lock = Nobody
  /\ active = FirstTab
  /\ entries = NoBatch
  /\ ready = FALSE
  /\ live = {}
  /\ heard = {}
  /\ surface = NoBatch
  /\ posted = <<>>
  /\ missed = {}
  /\ frames = <<>>
  /\ stamp = 0
  /\ loop = "idle"
  /\ cur = FirstTab
  /\ field = "url"
  /\ news = 0
  /\ batch = NoBatch
  /\ prev = NoFrame
  /\ incoming = NoFrame
  /\ mustFull = FALSE
  /\ forceFull = {}
  /\ pending = {}
  /\ handler = [c \in Conns |-> Idle]
  /\ picture = Blank
  /\ shown = [f \in Fields |-> 0]
  /\ announced = FirstTab
  /\ raced = {}

(* What the loop does once something has arrived. *)
LoopStep ==
  \/ ReceiveBatch
  \/ \E t \in Tabs : PickActive(t) \/ PickInactive(t)
  \/ Stash
  \/ StoreFull
  \/ \E R \in SUBSET Rects : StoreDiff(R)
  \/ \E m \in pending : PublishNext(m)
  \/ FrameDone
  \/ BatchDone
  \/ CheckActive
  \/ TellMeta

(* The steps that wait for the mutex of the tab table. *)
Locking(c) == LockAndClone(c) \/ InsertTab(c) \/ RemoveTab(c)

(* The other steps of a handler that has a request. *)
HandlerStep(c) ==
  \/ SetActive(c)
  \/ PublishRaw(c)
  \/ PublishMeta(c)
  \/ PublishActivated(c)
  \/ PostCreate(c)
  \/ DropEntry(c)
  \/ PostClose(c)

WebKit == \E t \in Tabs, C \in SUBSET Pixels : Render(t, C)

Event ==
  \/ \E t \in Tabs : LoadEvent(t)
  \/ \E t \in Tabs, f \in Fields : ReceiveMeta(t, f)

Ask(c, t) == \E place \in {"store", "insert", "remove"} : Request(c, t, place)

Next ==
  \/ WebKit
  \/ Event
  \/ Start \/ RunPosted
  \/ LoopStep
  \/ StoreMeta
  \/ \E c \in Conns : HandlerStep(c) \/ Locking(c) \/ \E t \in Tabs : Ask(c, t)

Spec == Init /\ [][Next]_vars

(***************************************************************************)
(* Every task that can go on does; tokio's mutex queues its waiters in     *)
(* order, so a task that waits for a mutex that is free again and again    *)
(* gets it.  No fairness is assumed of WebKit or of the clients.           *)
(***************************************************************************)
Fairness ==
  /\ WF_vars(LoopStep)
  /\ SF_vars(StoreMeta)
  /\ \A c \in Conns : WF_vars(HandlerStep(c)) /\ SF_vars(Locking(c))

-----------------------------------------------------------------------------
(* Every variable has its type. *)
TypeOK ==
  /\ ready \in BOOLEAN /\ missed \subseteq Tabs
  /\ tabs \subseteq Tabs /\ live \subseteq heard /\ heard \subseteq Tabs /\ forceFull \subseteq Tabs
  /\ meta \in [Tabs -> [Fields -> Nat]]
  /\ lock \in Conns \cup {Nobody}
  /\ {active, cur, announced} \subseteq Tabs
  /\ {entries, surface, batch} \subseteq [Tabs -> Frame \cup {NoFrame}]
  /\ posted \in Seq([op : {"create", "close"}, tab : Tabs])
  /\ frames \in Seq([tab : Tabs, pix : Frame])
  /\ stamp \in Nat
  /\ loop \in {"idle", "batch", "taken", "stash", "publish", "news", "check", "tell"}
  /\ field \in {"title", "url"}
  /\ prev \in Frame \cup {NoFrame}
  /\ incoming \in Frame \cup {NoFrame}
  /\ news \in Nat
  /\ mustFull \in BOOLEAN
  /\ pending \subseteq Item
  /\ handler \in [Conns -> [pc : {"idle", "store", "lock", "raw", "meta", "announce",
                                  "insert", "create", "remove", "drop", "close"},
                            tab : Tabs, copy : Frame \cup {NoFrame}]]
  /\ picture \in Frame
  /\ shown \in [Fields -> Nat]
  /\ raced \subseteq {"picture", "meta", "announced", "view"}

(* No request is being handled, and the active tab is one there is. *)
Quiet ==
  /\ \A c \in Conns : At(c, {"idle"})
  /\ active \in tabs

(* Switching, creating and closing tabs never leaves the client with the   *)
(* framebuffer of another tab, or with damage painted over it, except when *)
(* a frame was in the loop's hands, or another switch under way, while     *)
(* active_tab_id changed; then the next RawFrame mends it                  *)
(* (main.rs:391-410 against main.rs:237-311).                              *)
PictureOfActive ==
  Quiet /\ loop \in {"idle", "batch"} /\ entries[active] # NoFrame /\ "picture" \notin raced
    => picture = entries[active]

(* Title and url bar are those of the active tab, except when the loop was *)
(* about to send one, or another switch under way, when active_tab_id      *)
(* changed (main.rs:406-407 against main.rs:325-349).                      *)
MetaOfActive ==
  Quiet /\ loop \in {"idle", "batch"} /\ "meta" \notin raced
    => shown = meta[active]

(* The tab announced last is the active one, unless two switches overlap   *)
(* (main.rs:392 against main.rs:408).                                      *)
AnnouncedUnlessRaced == Quiet /\ "announced" \notin raced => announced = active

(* WebKit has a view for exactly the tabs in the table once it is up and the *)
(* calls posted to it have run, but for a tab whose last call came to      *)
(* nothing: it was made before WebKit was up, or with a url that has a NUL *)
(* in it, or WPE made no view (wpe.rs:223-235, gutted_wpe.c:383-386); and  *)
(* unless one tab was created and closed at the same time: the table and   *)
(* WebKit may then take the two in different orders (main.rs:377-421).     *)
ViewsMatchTabs ==
  ready /\ (\A c \in Conns : At(c, {"idle"})) /\ posted = <<>> /\ "view" \notin raced
    => live \ missed = tabs \ missed

(* The mutex of the tab table is held over several messages and waited for *)
(* by the loop and by the other handlers: every request is still handled   *)
(* to its end.                                                             *)
RequestsFinish == \A c \in Conns : []<>At(c, {"idle"})

(* The loop always comes back to its channels. *)
LoopServes == []<>(loop \in {"idle", "batch"} /\ batch = NoBatch)

=============================================================================
