------------------------- MODULE ClientWindowProofs -------------------------
(***************************************************************************)
(* The properties of ClientWindow, for any cells, windows and events.      *)
(***************************************************************************)
EXTENDS ClientWindow, BrowserCoreProofs

----------------------------------------------------------------------------
(* The inductive invariant *)

\* The chrome on the screen is that of the state, or will be drawn again.
ChromeOK ==
    ~mode.headless => /\ core.chrome_dirty \/ chrome = <<draw_chrome(core)>>
                      /\ pc = "x11" /\ ~ask => ~core.chrome_dirty

Coming == Covered(core.pending_subframes) \cup Covered(core.pending_tiles)

NothingWaits ==
    core.pending_frames = <<>> /\ core.pending_subframes = <<>> /\ core.pending_tiles = <<>>

PendingOK ==
    /\ QueueOK(core.pending_frames) /\ Len(core.pending_frames) <= 1
    /\ QueueOK(core.pending_subframes) /\ QueueOK(core.pending_tiles)
    /\ \A i \in DOMAIN core.pending_tiles : core.pending_tiles[i].hash \in DOMAIN core.tile_cache
    /\ core.pending_frames # <<>> => core.full_content_dirty
    /\ pc = "x11" => NothingWaits

\* Nothing the host sends is taken for a blank.
NeverBlank ==
    /\ \A i \in DOMAIN core.pending_frames : core.pending_frames[i].val # Blank
    /\ \A i \in DOMAIN core.pending_subframes : core.pending_subframes[i].val # Blank
    /\ \A h \in DOMAIN core.tile_cache : core.tile_cache[h] # Blank

AreasOK ==
    /\ core.win_size \subseteq Cells
    /\ DOMAIN fb = Cells /\ DOMAIN window = Cells

WindowOK ==
    /\ mode \in Windows /\ pc \in {"x11", "net", "closed"} /\ ask \in BOOLEAN
    /\ mode.headless => pc # "x11" /\ core.win_size = Cells
    /\ CoreOK(core)

\* The window shows the framebuffer unless all of it will be drawn again.
ShownOK ==
    ~mode.headless /\ ~core.full_content_dirty => \A p \in core.win_size : window[p] = fb[p]

\* render_into draws.
Drawing == ~mode.headless \/ (mode.capture /\ shot = <<>>)

\* Cell by cell what render_into will draw is what the host sent last: a tile,
\* else a subframe, else a frame, else a blank, else what is there.
TileOK(p) ==
    p \in Covered(core.pending_tiles) =>
        core.tile_cache[LastOver(core.pending_tiles, p).hash] = latest[p]
SubframeOK(p) ==
    p \in Covered(core.pending_subframes) \ Covered(core.pending_tiles) =>
        LastOver(core.pending_subframes, p).val = latest[p]
BelowOK(p) ==
    p \notin Coming =>
        /\ core.pending_frames # <<>> =>
               latest[p] = IF p \in core.pending_frames[1].cells THEN core.pending_frames[1].val ELSE Blank
        /\ core.pending_frames = <<>> /\ core.full_content_dirty => p \in wiped
        /\ ~core.full_content_dirty /\ p \in core.win_size =>
               \/ fb[p] = IF p \in wiped THEN Blank ELSE latest[p]
               \/ p = ToastCell /\ fb[p] = "toast" /\ core.toast > 0
CellOK(p) == TileOK(p) /\ SubframeOK(p) /\ BelowOK(p)

ContentOK ==
    /\ core.pending_frames # <<>> => wiped = {}
    /\ wiped \cap Coming = {}
    /\ Drawing => \A p \in Cells \ overtaken : CellOK(p)

\* A screenshot that is still to be taken waits for frames, or has one to draw.
ShotOK ==
    mode.headless /\ mode.capture /\ shot = <<>> =>
        core.frames_seen < mode.after \/ core.pending_frames # <<>> \/ core.pending_subframes # <<>>

IInv == WindowOK /\ ChromeOK /\ AreasOK /\ PendingOK /\ NeverBlank /\ ShownOK /\ ContentOK /\ ShotOK

----------------------------------------------------------------------------
(* Steps that leave the pictures alone *)

LEMMA FreshIs ==
  ASSUME CoreOK(core)
  PROVE  /\ Same(core, Fresh, {"out"}) /\ CoreOK(Fresh) /\ Fresh.out = <<>>
         /\ Still(core, Fresh) /\ ChromeKept(core, Fresh) /\ Fresh.chrome_dirty = core.chrome_dirty
         /\ Look(Fresh) = Look(core)
<1>1. Same(core, Fresh, {"out"})
  BY DEF Fresh, Same, CoreOK, IsCore
<1>2. Fresh.out = <<>>
  BY DEF Fresh, CoreOK, IsCore, CoreFields
<1>3. Same(core, Fresh, {"mods", "cursor", "out"})
  BY <1>1 DEF Same
<1>4. Requested(core, Fresh) /\ Fresh.chrome_dirty = core.chrome_dirty
  BY <1>3, TouchIs
<1>5. Still(core, Fresh) /\ ChromeKept(core, Fresh)
  BY <1>4, HandlesStill DEF Requested
<1>6. Look(Fresh) = Look(core)
  BY <1>1, LookSame
<1> QED
  BY <1>1, <1>2, <1>4, <1>5, <1>6 DEF Still

\* All but the chrome and the window.
Rest == WindowOK /\ AreasOK /\ PendingOK /\ NeverBlank /\ ShownOK /\ ContentOK /\ ShotOK

(* Where nothing new is coming, what is below is as it was. *)
LEMMA BelowKept ==
  ASSUME IInv, NEW p \in Cells, BelowOK(p), Becomes(core'), Coming \subseteq Coming',
         core'.pending_frames = core.pending_frames, core'.win_size = core.win_size,
         Raised(core, core'), fb' = fb, p \notin Coming' => latest'[p] = latest[p]
  PROVE  BelowOK(p)'
<1> SUFFICES ASSUME p \notin Coming'
             PROVE  BelowOK(p)'
  BY DEF BelowOK
<1>1. /\ p \notin Coming /\ latest'[p] = latest[p]
      /\ core.pending_frames # <<>> => core.full_content_dirty
  BY DEF IInv, PendingOK
<1>2. wiped' = IF core'.pending_frames # <<>> THEN {}
               ELSE (IF core'.full_content_dirty THEN Cells ELSE wiped) \ Coming'
  BY DEF Becomes, Coming
<1>3. core'.pending_frames # <<>> =>
          latest'[p] = IF p \in core'.pending_frames[1].cells THEN core'.pending_frames[1].val ELSE Blank
  BY <1>1 DEF BelowOK
<1>4. core'.pending_frames = <<>> /\ core'.full_content_dirty => p \in wiped'
  BY <1>2
<1>5. ~core'.full_content_dirty /\ p \in core'.win_size =>
          \/ fb'[p] = IF p \in wiped' THEN Blank ELSE latest'[p]
          \/ p = ToastCell /\ fb'[p] = "toast" /\ core'.toast > 0
  <2> SUFFICES ASSUME ~core'.full_content_dirty, p \in core'.win_size
               PROVE  \/ fb'[p] = IF p \in wiped' THEN Blank ELSE latest'[p]
                      \/ p = ToastCell /\ fb'[p] = "toast" /\ core'.toast > 0
    OBVIOUS
  <2>1. ~core.full_content_dirty /\ core.pending_frames = <<>> /\ p \in core.win_size
    BY <1>1 DEF Raised
  <2>2. p \in wiped' <=> p \in wiped
    BY <1>2, <2>1
  <2>3. \/ fb[p] = IF p \in wiped THEN Blank ELSE latest[p]
        \/ p = ToastCell /\ fb[p] = "toast" /\ core.toast > 0
    BY <1>1, <2>1 DEF BelowOK
  <2>4. core.toast > 0 => core'.toast > 0
    BY DEF Raised
  <2> QED
    BY <1>1, <2>2, <2>3, <2>4
<1> QED
  BY <1>3, <1>4, <1>5 DEF BelowOK

(* Nothing is drawn, and what waits is what waited. *)
LEMMA StillRest ==
  ASSUME IInv, Becomes(core'), Still(core, core'),
         UNCHANGED <<mode, fb, window, shot, latest, overtaken>>,
         pc' \in {"x11", "net", "closed"}, ask' \in BOOLEAN,
         pc' = "x11" => /\ pc = "x11" \/ NothingWaits
                        /\ ~mode.headless
  PROVE  Rest'
<1>1. WindowOK' /\ AreasOK'
  BY DEF IInv, WindowOK, AreasOK, Still
<1>2. PendingOK' /\ NeverBlank'
  BY DEF IInv, PendingOK, NothingWaits, Still, Raised, NeverBlank
<1>3. ShownOK' /\ ShotOK'
  BY DEF IInv, ShownOK, ShotOK, Still, Raised
<1>4. Coming' = Coming
  BY DEF Coming, Still
<1>5. /\ core'.pending_frames # <<>> => wiped' = {}
      /\ wiped' \cap Coming' = {}
  BY DEF Becomes, Coming
<1>6. ASSUME Drawing', NEW p \in Cells \ overtaken'
      PROVE  CellOK(p)'
  <2>1. CellOK(p)
    BY <1>6 DEF IInv, ContentOK, Drawing
  <2>2. BelowOK(p)'
    BY <1>4, <2>1, BelowKept DEF CellOK, Still
  <2>3. TileOK(p)' /\ SubframeOK(p)'
    BY <2>1 DEF CellOK, TileOK, SubframeOK, Still
  <2> QED
    BY <2>2, <2>3 DEF CellOK
<1> QED
  BY <1>1, <1>2, <1>3, <1>5, <1>6 DEF ContentOK, Rest

(* The chrome is not drawn, and is asked for if it is to be. *)
LEMMA ChromeKeptOK ==
  ASSUME IInv, ChromeKept(core, core'), UNCHANGED <<mode, chrome>>,
         ~mode.headless /\ pc' = "x11" /\ ~ask' => ~core'.chrome_dirty
  PROVE  ChromeOK'
BY DEF IInv, ChromeOK, ChromeKept

(* The X server has lost the content, or its rows have shifted: all of it is *)
(* to be drawn anew, and nothing waits.                                      *)
LEMMA BlankedRest ==
  ASSUME IInv, pc = "x11", NEW n, CoreOK(n), n.win_size \subseteq Cells, n.full_content_dirty,
         n.chrome_dirty,
         n.pending_frames = core.pending_frames, n.pending_subframes = core.pending_subframes,
         n.pending_tiles = core.pending_tiles, n.tile_cache = core.tile_cache,
         Becomes(n), UNCHANGED <<mode, pc, shot, latest, overtaken>>, ask' = TRUE,
         DOMAIN fb' = Cells, DOMAIN window' = Cells
  PROVE  IInv'
<1>1. core' = n /\ ~mode.headless
  BY DEF Becomes, IInv, WindowOK
<1>2. WindowOK' /\ AreasOK'
  BY <1>1 DEF IInv, WindowOK, AreasOK
<1>3. PendingOK' /\ NeverBlank'
  BY <1>1 DEF IInv, PendingOK, NothingWaits, NeverBlank
<1>4. ShownOK' /\ ShotOK' /\ ChromeOK'
  BY <1>1 DEF ShownOK, ShotOK, ChromeOK
<1>5. /\ core.pending_frames = <<>> /\ core.pending_subframes = <<>> /\ core.pending_tiles = <<>>
      /\ Covered(core.pending_subframes) = {} /\ Covered(core.pending_tiles) = {}
  BY EmptyQueue DEF IInv, PendingOK, NothingWaits
<1>6. Coming' = {} /\ wiped' = Cells
  BY <1>1, <1>5 DEF Coming, Becomes
<1>7. \A p \in Cells : CellOK(p)'
  BY <1>1, <1>5, <1>6 DEF CellOK, TileOK, SubframeOK, BelowOK
<1>8. ContentOK'
  BY <1>1, <1>5, <1>6, <1>7 DEF ContentOK
<1> QED
  BY <1>2, <1>3, <1>4, <1>8 DEF IInv

LEMMA ExposeKeeps == ASSUME IInv, Expose PROVE IInv'
<1> DEFINE yes == TRUE
           n == [Fresh EXCEPT !.chrome_dirty = yes, !.full_content_dirty = yes]
<1>1. /\ pc = "x11" /\ Becomes(n) /\ UNCHANGED <<mode, pc, shot, latest, overtaken>> /\ ask' = TRUE
      /\ window' = [p \in Cells |-> "lost"] /\ fb' = fb
  BY DEF Expose, Polling
<1>2. CoreOK(core) /\ core.win_size \subseteq Cells /\ DOMAIN fb = Cells
  BY DEF IInv, WindowOK, AreasOK
<1>3. CoreOK(Fresh) /\ Still(core, Fresh)
  BY <1>2, FreshIs
<1>4. Same(Fresh, n, {"chrome_dirty", "full_content_dirty"})
  BY <1>3 DEF Same, CoreOK, IsCore
<1>5. n.chrome_dirty = yes /\ n.full_content_dirty = yes
  BY <1>3 DEF CoreOK, IsCore, CoreFields
<1> HIDE DEF n
<1>6. /\ n.pending_frames = core.pending_frames /\ n.pending_subframes = core.pending_subframes
      /\ n.pending_tiles = core.pending_tiles /\ n.tile_cache = core.tile_cache
      /\ n.win_size = core.win_size
  BY <1>3, <1>4 DEF Same, Still, CoreFields
<1>7. CoreOK(n)
  <2>1. /\ n.tabs = Fresh.tabs /\ n.next_tab_id = Fresh.next_tab_id
        /\ n.active_buf = Fresh.active_buf /\ n.tab_composites = Fresh.tab_composites
        /\ n.editing = Fresh.editing /\ n.toast = Fresh.toast
        /\ n.audio_playing = Fresh.audio_playing /\ n.frames_seen = Fresh.frames_seen
    BY <1>4 DEF Same, CoreFields
  <2>2. TabsOK(n) /\ NoBuffers(n)
    BY <2>1, <1>3, SameTabs DEF CoreOK, NoBuffers
  <2>3. Flags(n)
    BY <2>1, <1>3, <1>5 DEF CoreOK, Flags
  <2> QED
    BY <2>2, <2>3, <1>4 DEF CoreOK, Same
<1>8. DOMAIN fb' = Cells /\ DOMAIN window' = Cells
  BY <1>1, <1>2
<1> QED
  BY <1>1, <1>2, <1>5, <1>6, <1>7, <1>8, BlankedRest

LEMMA ConfigureNotifyKeeps == ASSUME IInv, ConfigureNotify PROVE IInv'
<1>1. PICK size \in SUBSET Cells : size # core.win_size /\ Becomes(on_resize(Fresh, size))
  BY DEF ConfigureNotify
<1>2. /\ pc = "x11" /\ UNCHANGED <<mode, pc, shot, latest, overtaken>> /\ ask' = TRUE
      /\ DOMAIN window' = Cells /\ DOMAIN fb' = Cells
  BY DEF ConfigureNotify, Polling
<1>3. CoreOK(Fresh) /\ Still(core, Fresh)
  BY FreshIs DEF IInv, WindowOK
<1> DEFINE n == on_resize(Fresh, size)
<1>4. size # Fresh.win_size
  BY <1>1, <1>3 DEF Still
<1> HIDE DEF n
<1>5. /\ CoreOK(n) /\ Same(Fresh, n, {"win_size", "chrome_dirty", "full_content_dirty", "out"})
      /\ n.win_size = size /\ n.chrome_dirty = TRUE /\ n.full_content_dirty = TRUE
  BY <1>3, <1>4, ResizeIs DEF n
<1>6. /\ n.pending_frames = core.pending_frames /\ n.pending_subframes = core.pending_subframes
      /\ n.pending_tiles = core.pending_tiles /\ n.tile_cache = core.tile_cache
  BY <1>3, <1>5 DEF Same, Still, CoreFields
<1>7. Becomes(n)
  BY <1>1 DEF n
<1> QED
  BY <1>2, <1>5, <1>6, <1>7, BlankedRest

(* What the user asks for of the state with nothing sent yet. *)
LEMMA FreshRequested ==
  ASSUME CoreOK(core), NEW n, Requested(Fresh, n)
  PROVE  Requested(core, n) /\ Still(core, n) /\ ChromeKept(core, n)
<1>1. Same(core, Fresh, {"mods", "cursor", "out"})
  BY FreshIs DEF Same
<1>2. Requested(core, n)
  BY <1>1, RequestedAfter
<1> QED
  BY <1>2, HandlesStill DEF Requested

(* Other modifiers, then the handler. *)
LEMMA ModsRequested ==
  ASSUME CoreOK(core), NEW n, NEW d, Same(Fresh, n, {"mods"}), Requested(n, d)
  PROVE  Requested(core, d) /\ Still(core, d) /\ ChromeKept(core, d)
<1>1. CoreOK(Fresh)
  BY FreshIs
<1>2. Same(Fresh, n, {"mods", "cursor", "out"})
  BY DEF Same
<1>3. Requested(Fresh, d)
  BY <1>1, <1>2, RequestedAfter
<1> QED
  BY <1>3, FreshRequested

LEMMA FreshMods ==
  ASSUME CoreOK(core), NEW state
  PROVE  LET n == update_x11_mods(Fresh, state)
         IN  Same(Fresh, n, {"mods"}) /\ CoreOK(n) /\ n.out = <<>>
BY FreshIs, ModsMove DEF update_x11_mods

LEMMA FreshKeyMods ==
  ASSUME CoreOK(core), NEW state, NEW sym, NEW pressed
  PROVE  LET n == update_keysym_modifier(update_x11_mods(Fresh, state), sym, pressed)
         IN  Same(Fresh, n, {"mods"}) /\ CoreOK(n) /\ n.out = <<>>
<1> DEFINE m == update_x11_mods(Fresh, state)
           n == update_keysym_modifier(m, sym, pressed)
<1>1. Same(Fresh, m, {"mods"}) /\ CoreOK(m) /\ m.out = <<>>
  BY FreshMods
<1> HIDE DEF m
<1>2. Same(m, n, {"mods"}) /\ CoreOK(n) /\ n.out = <<>>
  BY <1>1, ModsMove DEF update_keysym_modifier
<1>3. Same(Fresh, n, {"mods"})
  BY <1>1, <1>2 DEF Same
<1> QED
  BY <1>2, <1>3 DEF m

----------------------------------------------------------------------------
(* What each X event makes of the state *)

\* The user, or nobody, asked for something.
Acted == Requested(core, core') /\ Still(core, core') /\ ChromeKept(core, core')

LEMMA MotionNotifyIs ==
  ASSUME CoreOK(core), MotionNotify
  PROVE  Acted /\ core'.chrome_dirty = core.chrome_dirty
<1>1. PICK place : Becomes(on_pointer_move(update_x11_mods(Fresh, {}), place))
  BY DEF MotionNotify
<1> DEFINE n == update_x11_mods(Fresh, {})
           d == on_pointer_move(n, place)
<1>2. Same(Fresh, n, {"mods"}) /\ CoreOK(n)
  BY FreshMods
<1>3. core' = d
  BY <1>1 DEF Becomes
<1> HIDE DEF n
<1>4. Same(n, d, {"mods", "cursor", "out"})
  BY <1>2, PointerTouches
<1> HIDE DEF d
<1>5. Requested(n, d) /\ d.chrome_dirty = n.chrome_dirty
  BY <1>2, <1>4, TouchIs
<1>6. Requested(core, d) /\ Still(core, d) /\ ChromeKept(core, d)
  BY <1>2, <1>5, ModsRequested
<1>7. n.chrome_dirty = core.chrome_dirty
  BY <1>2, FreshIs DEF Same, CoreFields
<1> QED
  BY <1>3, <1>5, <1>6, <1>7 DEF Acted

LEMMA GivenIsNumbered ==
  ASSUME IdGiven, NEW n, Same(Fresh, n, {"mods"}), CoreOK(core), NEW d, core' = d
  PROVE  Numbered(n, d)
<1>1. n.next_tab_id = core.next_tab_id /\ core.next_tab_id \in Nat
  BY FreshIs DEF Same, CoreFields, CoreOK, TabsOK
<1> QED
  BY <1>1, WindowAssumption, CoreAssumption DEF IdGiven, Numbered

LEMMA ButtonPressIs ==
  ASSUME CoreOK(core), ask \in BOOLEAN, ButtonPress
  PROVE  /\ Acted
         /\ ask' = TRUE \/ (ask' = ask /\ core'.chrome_dirty = core.chrome_dirty)
<1>1. PICK e \in XEvents : /\ e.x = "press"
                           /\ Becomes(IF e.button > 3 THEN on_scroll(Fresh) ELSE Button(e))
                           /\ ask' = (ask \/ e.button <= 3)
  BY DEF ButtonPress
<1>2. e.button \in Nat /\ IdGiven
  BY <1>1, EventAssumption DEF ButtonPress
<1>3. CoreOK(Fresh) /\ Fresh.chrome_dirty = core.chrome_dirty
  BY FreshIs
<1>4. CASE e.button > 3
  <2> DEFINE d == on_scroll(Fresh)
  <2>1. core' = d /\ ask' = ask
    BY <1>1, <1>2, <1>4 DEF Becomes
  <2>2. Same(Fresh, d, {"mods", "cursor", "out"})
    BY <1>3, ScrollTouches
  <2> HIDE DEF d
  <2>3. Requested(Fresh, d) /\ d.chrome_dirty = Fresh.chrome_dirty
    BY <1>3, <2>2, TouchIs
  <2> QED
    BY <1>3, <2>1, <2>3, FreshRequested DEF Acted
<1>5. CASE ~(e.button > 3)
  <2> DEFINE n == update_x11_mods(Fresh, {})
             pressed == e.x = "press"
             d == on_mouse_button(n, e.part, e.button, pressed)
  <2>1. core' = d
    BY <1>1, <1>5 DEF Becomes, Button
  <2>2. ask' = TRUE
    <3>1. e.button <= 3
      BY <1>2, <1>5
    <3> QED
      BY <1>1, <3>1
  <2>3. Same(Fresh, n, {"mods"}) /\ CoreOK(n) /\ n.out = <<>>
    BY FreshMods
  <2> HIDE DEF n, pressed
  <2>4. Requested(n, d)
    BY <1>2, <2>1, <2>3, ButtonRequested, GivenIsNumbered
  <2> HIDE DEF d
  <2> QED
    BY <2>1, <2>2, <2>3, <2>4, ModsRequested DEF Acted
<1> QED
  BY <1>4, <1>5

LEMMA ButtonReleaseIs ==
  ASSUME CoreOK(core), ButtonRelease
  PROVE  Acted /\ core'.chrome_dirty = core.chrome_dirty
<1>1. PICK e \in XEvents : /\ e.x = "release"
                           /\ Becomes(IF e.button > 3 THEN Fresh ELSE Button(e))
  BY DEF ButtonRelease
<1>2. CoreOK(Fresh) /\ Fresh.chrome_dirty = core.chrome_dirty
  BY FreshIs
<1>3. CASE e.button > 3
  <2>1. core' = Fresh
    BY <1>1, <1>3 DEF Becomes
  <2> QED
    BY <1>2, <2>1, RequestedSame, FreshRequested DEF Acted
<1>4. CASE ~(e.button > 3)
  <2> DEFINE n == update_x11_mods(Fresh, {})
             pressed == e.x = "press"
             d == on_mouse_button(n, e.part, e.button, pressed)
  <2>1. core' = d /\ ~pressed
    BY <1>1, <1>4 DEF Becomes, Button
  <2>2. Same(Fresh, n, {"mods"}) /\ CoreOK(n) /\ n.out = <<>>
    BY FreshMods
  <2>3. n.chrome_dirty = Fresh.chrome_dirty
    BY <2>2 DEF Same, CoreFields
  <2> HIDE DEF n, pressed
  <2>4. Same(n, d, {"mods", "cursor", "out"})
    BY <2>1, <2>2, ReleaseTouches
  <2> HIDE DEF d
  <2>5. Requested(n, d) /\ d.chrome_dirty = n.chrome_dirty
    BY <2>2, <2>4, TouchIs
  <2> QED
    BY <1>2, <2>1, <2>2, <2>3, <2>5, ModsRequested DEF Acted
<1> QED
  BY <1>3, <1>4

LEMMA KeyIs == ASSUME CoreOK(core), KeyPressOrRelease PROVE Acted
<1>1. PICK e \in XEvents :
          Becomes(on_key(update_keysym_modifier(update_x11_mods(Fresh, e.state), e.sym, e.pressed),
                         e.sym, e.pressed))
  BY DEF KeyPressOrRelease
<1> DEFINE n == update_keysym_modifier(update_x11_mods(Fresh, e.state), e.sym, e.pressed)
           d == on_key(n, e.sym, e.pressed)
<1>2. core' = d
  BY <1>1 DEF Becomes
<1>3. Same(Fresh, n, {"mods"}) /\ CoreOK(n) /\ n.out = <<>>
  BY FreshKeyMods
<1> HIDE DEF n
<1>4. Requested(n, d)
  <2>1. IdGiven
    BY DEF KeyPressOrRelease
  <2> QED
    BY <1>2, <1>3, <2>1, KeyRequested, GivenIsNumbered
<1> HIDE DEF d
<1> QED
  BY <1>2, <1>3, <1>4, ModsRequested DEF Acted

(* Nothing but the requests of the last step goes. *)
LEMMA FreshActed ==
  ASSUME CoreOK(core), Becomes(Fresh)
  PROVE  Acted /\ core' = Fresh /\ core'.chrome_dirty = core.chrome_dirty
<1>1. core' = Fresh
  BY DEF Becomes
<1> QED
  BY <1>1, FreshIs, RequestedSame, FreshRequested DEF Acted

----------------------------------------------------------------------------
(* The steps that draw nothing keep the invariant *)

LEMMA ActedKeeps ==
  ASSUME IInv, Becomes(core'), Still(core, core'), ChromeKept(core, core'),
         UNCHANGED <<mode, drawn, latest, overtaken>>,
         pc' \in {"x11", "net", "closed"}, ask' \in BOOLEAN,
         pc' = "x11" => /\ pc = "x11" \/ NothingWaits
                        /\ ~mode.headless,
         ~mode.headless /\ pc' = "x11" /\ ~ask' => ~core'.chrome_dirty
  PROVE  IInv'
<1>1. UNCHANGED <<mode, fb, window, chrome, shot, latest, overtaken>>
  BY DEF drawn
<1>2. Rest'
  BY <1>1, StillRest
<1>3. ChromeOK'
  BY <1>1, ChromeKeptOK
<1> QED
  BY <1>2, <1>3 DEF Rest, IInv

LEMMA XEventKeeps == ASSUME IInv, XEvent PROVE IInv'
<1>1. /\ CoreOK(core) /\ pc \in {"x11", "net", "closed"} /\ ask \in BOOLEAN
      /\ pc = "x11" => ~mode.headless
      /\ ~mode.headless /\ pc = "x11" /\ ~ask => ~core.chrome_dirty
  BY DEF IInv, WindowOK, ChromeOK
<1>2. CASE Expose
  BY <1>2, ExposeKeeps
<1>3. CASE ConfigureNotify
  BY <1>3, ConfigureNotifyKeeps
<1>4. CASE MotionNotify
  <2>1. /\ Becomes(core') /\ UNCHANGED <<mode, drawn, latest, overtaken>>
        /\ pc' = pc /\ ask' = ask
    BY <1>4 DEF MotionNotify, Becomes
  <2>2. Acted /\ core'.chrome_dirty = core.chrome_dirty
    BY <1>1, <1>4, MotionNotifyIs
  <2> QED
    BY <1>1, <2>1, <2>2, ActedKeeps DEF Acted
<1>5. CASE ButtonPress
  <2>1. /\ Becomes(core') /\ UNCHANGED <<mode, drawn, latest, overtaken>>
        /\ pc' = pc
    BY <1>5 DEF ButtonPress, Becomes
  <2>2. Acted /\ (ask' = TRUE \/ (ask' = ask /\ core'.chrome_dirty = core.chrome_dirty))
    BY <1>1, <1>5, ButtonPressIs
  <2>3. ask' \in BOOLEAN /\ (~ask' => ~ask /\ core'.chrome_dirty = core.chrome_dirty)
    <3>1. CASE ask' = TRUE
      BY <3>1
    <3>2. CASE ask' = ask /\ core'.chrome_dirty = core.chrome_dirty
      BY <1>1, <3>2
    <3> QED
      BY <2>2, <3>1, <3>2
  <2> QED
    BY <1>1, <2>1, <2>2, <2>3, ActedKeeps DEF Acted
<1>6. CASE ButtonRelease
  <2>1. /\ Becomes(core') /\ UNCHANGED <<mode, drawn, latest, overtaken>>
        /\ pc' = pc /\ ask' = ask
    BY <1>6 DEF ButtonRelease, Becomes
  <2>2. Acted /\ core'.chrome_dirty = core.chrome_dirty
    BY <1>1, <1>6, ButtonReleaseIs
  <2> QED
    BY <1>1, <2>1, <2>2, ActedKeeps DEF Acted
<1>7. CASE KeyPressOrRelease
  <2>1. /\ Becomes(core') /\ UNCHANGED <<mode, drawn, latest, overtaken>>
        /\ pc' = pc /\ ask' = TRUE
    BY <1>7 DEF KeyPressOrRelease, Becomes
  <2>2. Acted
    BY <1>1, <1>7, KeyIs
  <2>3. ask' \in BOOLEAN /\ ~(~ask')
    BY <2>1
  <2> QED
    BY <1>1, <2>1, <2>2, <2>3, ActedKeeps DEF Acted
<1>8. CASE ClientMessage
  <2>1. /\ Becomes(Fresh) /\ Becomes(core') /\ UNCHANGED <<mode, drawn, latest, overtaken>>
        /\ pc' = "closed" /\ ask' = ask
    BY <1>8 DEF ClientMessage, Becomes
  <2>2. Acted
    BY <1>1, <2>1, FreshActed
  <2> QED
    BY <1>1, <2>1, <2>2, ActedKeeps DEF Acted
<1> QED
  BY <1>2, <1>3, <1>4, <1>5, <1>6, <1>7, <1>8 DEF XEvent

LEMMA PolledKeeps == ASSUME IInv, Polled \/ Quit PROVE IInv'
<1>1. /\ CoreOK(core) /\ ask \in BOOLEAN
  BY DEF IInv, WindowOK
<1>2. /\ Becomes(Fresh) /\ Becomes(core') /\ UNCHANGED <<mode, drawn, latest, overtaken>>
      /\ pc' \in {"net", "closed"} /\ ask' = ask
  BY DEF Polled, Quit, Becomes
<1>3. Acted
  BY <1>1, <1>2, FreshActed
<1>4. pc' # "x11" /\ pc' \in {"x11", "net", "closed"}
  BY <1>2
<1> QED
  BY <1>1, <1>2, <1>3, <1>4, ActedKeeps DEF Acted

----------------------------------------------------------------------------
(* What the host sends *)

Strip == {"Audio", "LoadState", "InitialUrl", "UrlChanged", "Title",
          "TabCreated", "TabClosed", "TabActivated", "TabTitle", "TabUrl"}

\* A picture that is not whole, that covers nothing or is not in the cache.
Useless(e) ==
    \/ e.ev \in {"Frame", "Subframe"} /\ ~(e.cells # {} /\ e.whole)
    \/ e.ev = "TileData" /\ ~e.whole
    \/ e.ev = "TileRef" /\ ~(e.cells # {} /\ e.hash \in DOMAIN core.tile_cache)

LEMMA HandledIs ==
  ASSUME NEW c, NEW e
  PROVE  LET d == handle_render_event(c, e)
         IN  /\ e.ev = "Frame" => d = Frame(c, e)
             /\ e.ev = "Subframe" => d = Subframe(c, e)
             /\ e.ev = "TileData" => d = TileData(c, e)
             /\ e.ev = "TileRef" => d = TileRef(c, e)
             /\ e.ev = "Audio" => d = Audio(c)
             /\ e.ev = "LoadState" => d = LoadState(c, e.state)
             /\ e.ev \in {"InitialUrl", "UrlChanged"} => d = UrlChanged(c, e.url)
             /\ e.ev = "Title" => d = Title(c, e.title)
             /\ e.ev = "TabCreated" => d = TabCreated(c, e.id, e.title, e.url)
             /\ e.ev = "TabClosed" => d = TabClosed(c, e.id)
             /\ e.ev = "TabActivated" => d = TabActivated(c, e.id)
             /\ e.ev = "TabTitle" => d = TabTitle(c, e.id, e.title)
             /\ e.ev = "TabUrl" => d = TabUrl(c, e.id, e.url)
BY DEF handle_render_event

(* An event about the tabs, the page or the sound. *)
LEMMA StripIs ==
  ASSUME CoreOK(core), NEW e \in NetEvents, e.ev \in Strip
  PROVE  LET d == handle_render_event(Fresh, e)
         IN  /\ Still(core, d) /\ ChromeKept(core, d)
             /\ Told(core, d) \/ Look(d) = Look(core)
<1> DEFINE d == handle_render_event(Fresh, e)
<1>1. /\ CoreOK(Fresh) /\ Same(core, Fresh, {"out"}) /\ Look(Fresh) = Look(core)
      /\ Still(core, Fresh) /\ ChromeKept(core, Fresh)
  BY FreshIs
<1>2. CASE e.ev = "Audio"
  <2>1. d = Audio(Fresh)
    BY <1>2, HandledIs
  <2> HIDE DEF d
  <2>2. /\ CoreOK(d) /\ Look(d) = Look(Fresh)
        /\ d.chrome_dirty \/ (d.chrome_dirty = Fresh.chrome_dirty /\ draw_chrome(d) = draw_chrome(Fresh))
        /\ Same(Fresh, d, {"audio_playing", "chrome_dirty"})
    BY <1>1, <2>1, AudioIs
  <2>3. Still(core, d)
    BY <1>1, <2>2 DEF Still, Same, CoreFields, Raised
  <2>4. ChromeKept(core, d)
    <3>1. CASE d.chrome_dirty
      BY <3>1 DEF ChromeKept
    <3>2. CASE ~d.chrome_dirty
      <4>1. ~Fresh.chrome_dirty /\ draw_chrome(d) = draw_chrome(Fresh)
        BY <2>2, <3>2
      <4> QED
        BY <1>1, <4>1 DEF ChromeKept
    <3> QED
      BY <3>1, <3>2
  <2> QED
    BY <1>1, <2>2, <2>3, <2>4 DEF d
<1>3. CASE e.ev # "Audio"
  <2>1. Told(Fresh, d)
    <3>1. CASE e.ev \in {"LoadState", "InitialUrl", "UrlChanged", "Title"}
      BY <1>1, <3>1, HandledIs, LoadStateTold, UrlChangedTold, TitleTold
    <3>2. CASE e.ev \in {"TabCreated", "TabClosed", "TabActivated", "TabTitle", "TabUrl"}
      <4>1. e.id \in Nat
        BY <3>2, EventAssumption
      <4> QED
        BY <1>1, <3>2, <4>1, HandledIs, TabCreatedTold, TabClosedTold, TabActivatedTold,
           TabTitleTold, TabUrlTold
    <3> QED
      BY <1>3, <3>1, <3>2 DEF Strip
  <2> HIDE DEF d
  <2>2. Told(core, d)
    BY <1>1, <2>1, ToldAfter
  <2>3. Still(core, d) /\ ChromeKept(core, d)
    BY <2>2, HandlesStill DEF Told
  <2> QED
    BY <2>2, <2>3 DEF d
<1> QED
  BY <1>2, <1>3

LEMMA UselessIs ==
  ASSUME CoreOK(core), NEW e, Useless(e)
  PROVE  handle_render_event(Fresh, e) = Fresh
<1>1. Fresh.tile_cache = core.tile_cache
  BY FreshIs DEF Still
<1>2. CASE e.ev = "Frame"
  BY <1>2, HandledIs DEF Useless, Frame
<1>3. CASE e.ev = "Subframe"
  BY <1>3, HandledIs DEF Useless, Subframe
<1>4. CASE e.ev = "TileData"
  BY <1>4, HandledIs DEF Useless, TileData
<1>5. CASE e.ev = "TileRef"
  BY <1>1, <1>5, HandledIs DEF Useless, TileRef
<1> QED
  BY <1>2, <1>3, <1>4, <1>5 DEF Useless

(* Nothing that waits changes: what the host sent last is what it was. *)
LEMMA StillSent ==
  ASSUME CoreOK(core), NEW e, e.ev \in Strip \/ Useless(e), Still(core, core'), Sent(e)
  PROVE  UNCHANGED <<latest, overtaken>>
<1>1. ~(core'.frames_seen > core.frames_seen \/ core'.pending_tiles # core.pending_tiles)
  BY DEF Still, CoreOK, Flags
<1>2. ~(e.ev = "TileData" /\ e.whole)
  BY DEF Strip, Useless
<1> QED
  BY <1>1, <1>2 DEF Sent

\* The host has been heard.
Heard(e) ==
    /\ Becomes(handle_render_event(Fresh, e)) /\ Sent(e)
    /\ pc = "net" /\ ask' = TRUE /\ UNCHANGED <<mode, pc, drawn>>

LEMMA StillHeard ==
  ASSUME IInv, NEW e \in NetEvents, Heard(e), e.ev \in Strip \/ Useless(e)
  PROVE  IInv'
<1>1. CoreOK(core)
  BY DEF IInv, WindowOK
<1>2. core' = handle_render_event(Fresh, e) /\ Becomes(core')
  BY DEF Heard, Becomes
<1>3. Still(core, core') /\ ChromeKept(core, core')
  BY <1>1, <1>2, StripIs, UselessIs, FreshIs
<1>4. UNCHANGED <<latest, overtaken>>
  BY <1>1, <1>3, StillSent DEF Heard
<1>5. ask' \in BOOLEAN /\ pc' # "x11" /\ pc' \in {"x11", "net", "closed"}
  BY DEF Heard
<1> QED
  BY <1>2, <1>3, <1>4, <1>5, ActedKeeps DEF Heard

(* A picture: nothing of the chrome changes and nothing is drawn. *)
LEMMA PictureRest ==
  ASSUME IInv, Becomes(core'), Aside(Fresh, core'),
         ask' = TRUE, pc = "net", UNCHANGED <<mode, pc, drawn>>,
         core.full_content_dirty => core'.full_content_dirty
  PROVE  WindowOK' /\ AreasOK' /\ ChromeOK' /\ ShownOK' /\ Raised(core, core')
<1>1. /\ Still(core, Fresh) /\ Fresh.chrome_dirty = core.chrome_dirty /\ ChromeKept(core, Fresh)
  BY FreshIs DEF IInv, WindowOK
<1>2. /\ CoreOK(core') /\ core'.win_size = core.win_size
      /\ core.toast > 0 => core'.toast > 0
      /\ ChromeKept(core, core')
  BY <1>1 DEF Aside, Still, Raised, ChromeKept
<1>3. UNCHANGED <<fb, window, chrome, shot>>
  BY DEF drawn
<1>4. WindowOK' /\ AreasOK'
  BY <1>2, <1>3 DEF IInv, WindowOK, AreasOK
<1>5. ChromeOK'
  BY <1>2, <1>3, ChromeKeptOK
<1>6. ShownOK' /\ Raised(core, core')
  BY <1>2, <1>3 DEF IInv, ShownOK, Raised
<1> QED
  BY <1>4, <1>5, <1>6

(* What is sent, as far as EventAssumption goes. *)
LEMMA PictureEvent ==
  ASSUME NEW e \in NetEvents
  PROVE  /\ e.ev \in {"Frame", "Subframe"} => e.cells \subseteq Cells /\ e.val # Blank
         /\ e.ev = "TileData" => e.val # Blank
         /\ e.ev = "TileRef" => e.cells \subseteq Cells
         /\ e.ev \in Strip \cup {"Frame", "Subframe", "TileData", "TileRef"}
<1>1. \/ /\ e.ev \in {"Frame", "Subframe"}
         /\ e.cells \subseteq Cells /\ e.val # Blank
      \/ e.ev = "TileData" /\ e.val # Blank
      \/ e.ev = "TileRef" /\ e.cells \subseteq Cells
      \/ e.ev \in Strip
  BY EventAssumption DEF Strip
<1> QED
  BY <1>1 DEF Strip

LEMMA FrameHeard ==
  ASSUME IInv, NEW e \in NetEvents, Heard(e), e.ev = "Frame", e.cells # {} /\ e.whole
  PROVE  IInv'
<1>1. CoreOK(Fresh) /\ Still(core, Fresh) /\ CoreOK(core)
  BY FreshIs DEF IInv, WindowOK
<1>2. core' = Frame(Fresh, e) /\ Becomes(core')
  BY HandledIs DEF Heard, Becomes
<1>3. /\ Aside(Fresh, core')
      /\ core'.pending_frames = <<e>> /\ core'.pending_subframes = <<>> /\ core'.pending_tiles = <<>>
      /\ core'.full_content_dirty = TRUE /\ core'.frames_seen = core.frames_seen + 1
      /\ core'.tile_cache = core.tile_cache
  <2>1. /\ Aside(Fresh, core')
        /\ core'.pending_frames = <<e>> /\ core'.pending_subframes = <<>> /\ core'.pending_tiles = <<>>
        /\ core'.full_content_dirty = TRUE /\ core'.frames_seen = Fresh.frames_seen + 1
        /\ core'.tile_cache = Fresh.tile_cache
    BY <1>1, <1>2, FrameIs
  <2> QED
    BY <1>1, <2>1 DEF Still
<1>4. e.cells \subseteq Cells /\ e.val # Blank
  BY PictureEvent
<1>5. WindowOK' /\ AreasOK' /\ ChromeOK' /\ ShownOK'
  BY <1>2, <1>3, PictureRest DEF Heard
<1>6. /\ latest' = [p \in Cells |-> IF p \in e.cells THEN e.val ELSE Blank]
      /\ overtaken' = {}
  <2>1. core'.frames_seen > core.frames_seen
    BY <1>1, <1>3 DEF CoreOK, Flags
  <2> QED
    BY <2>1 DEF Heard, Sent
<1>7. QueueOK(<<e>>) /\ <<e>> # <<>> /\ DOMAIN <<e>> = {1} /\ <<e>>[1] = e /\ Len(<<e>>) = 1
  <2> DEFINE q == <<>>
             r == Append(q, e)
  <2>1. r = <<e>>
    OBVIOUS
  <2>2. QueueOK(q)
    BY EmptyQueue
  <2> HIDE DEF q
  <2>3. QueueOK(r)
    BY <1>4, <2>2, AppendQueue
  <2> QED
    BY <2>1, <2>3
<1>8. PendingOK' /\ NeverBlank'
  <2>1. PendingOK'
    BY <1>3, <1>7, EmptyQueue DEF PendingOK, Heard
  <2>2. NeverBlank'
    BY <1>3, <1>4, <1>7, EmptyQueue DEF IInv, NeverBlank
  <2> QED
    BY <2>1, <2>2
<1>9. Covered(core'.pending_subframes) = {} /\ Covered(core'.pending_tiles) = {} /\ Coming' = {}
  BY <1>3, EmptyQueue DEF Coming
<1>10. wiped' = {}
  BY <1>2, <1>3, <1>7 DEF Becomes
<1>11. \A p \in Cells : CellOK(p)'
  BY <1>3, <1>6, <1>7, <1>9 DEF CellOK, TileOK, SubframeOK, BelowOK
<1>12. ContentOK' /\ ShotOK'
  BY <1>3, <1>7, <1>10, <1>11 DEF ContentOK, ShotOK
<1> QED
  BY <1>5, <1>8, <1>12 DEF IInv

LEMMA SubframeHeard ==
  ASSUME IInv, NEW e \in NetEvents, Heard(e), e.ev = "Subframe", e.cells # {} /\ e.whole
  PROVE  IInv'
<1> DEFINE q == core.pending_subframes
           r == Append(q, e)
<1>1. CoreOK(Fresh) /\ Still(core, Fresh) /\ CoreOK(core)
  BY FreshIs DEF IInv, WindowOK
<1>2. core' = Subframe(Fresh, e) /\ Becomes(core')
  BY HandledIs DEF Heard, Becomes
<1>3. /\ Aside(Fresh, core')
      /\ core'.pending_subframes = r
      /\ core'.frames_seen = core.frames_seen + 1
      /\ core'.pending_frames = core.pending_frames /\ core'.pending_tiles = core.pending_tiles
      /\ core'.full_content_dirty = Fresh.full_content_dirty /\ core'.tile_cache = core.tile_cache
  BY <1>1, <1>2, SubframeIs DEF Still
<1>4. e.cells \subseteq Cells /\ e.val # Blank
  BY PictureEvent
<1>5. Fresh.full_content_dirty = core.full_content_dirty
  BY FreshIs, <1>1 DEF Same, CoreFields
<1>6. WindowOK' /\ AreasOK' /\ ChromeOK' /\ ShownOK' /\ Raised(core, core')
  BY <1>2, <1>3, <1>5, PictureRest DEF Heard
<1>7. /\ latest' = [p \in Cells |-> IF p \in e.cells THEN e.val ELSE latest[p]]
      /\ overtaken' = (overtaken \ e.cells) \cup (e.cells \cap Covered(core.pending_tiles))
  <2>1. core'.frames_seen > core.frames_seen
    BY <1>1, <1>3 DEF CoreOK, Flags
  <2> QED
    BY <2>1 DEF Heard, Sent
<1>8. QueueOK(q)
  BY DEF IInv, PendingOK
<1>9. /\ QueueOK(r) /\ r # <<>> /\ Covered(r) = Covered(q) \cup e.cells
      /\ \A p \in e.cells : LastOver(r, p) = e
      /\ \A p \in Covered(q) \ e.cells : LastOver(r, p) = LastOver(q, p)
      /\ \A i \in DOMAIN r : r[i] = e \/ \E j \in DOMAIN q : r[i] = q[j]
  BY <1>4, <1>8, AppendQueue
<1> HIDE DEF r
<1>10. PendingOK'
  BY <1>3, <1>5, <1>9 DEF IInv, PendingOK, Heard
<1>11. NeverBlank'
  BY <1>3, <1>4, <1>9 DEF IInv, NeverBlank
<1>12. Coming' = Coming \cup e.cells
  BY <1>3, <1>9 DEF Coming
<1>13. /\ core'.pending_frames # <<>> => wiped' = {}
       /\ wiped' \cap Coming' = {}
  BY <1>2 DEF Becomes, Coming
<1>14. ASSUME Drawing', NEW p \in Cells \ overtaken'
       PROVE  CellOK(p)'
  <2>1. Drawing
    BY <1>14 DEF Heard, Drawing, drawn
  <2>2. CASE p \in e.cells
    <3>1. p \notin Covered(core'.pending_tiles) /\ p \in Coming' /\ latest'[p] = e.val
      BY <1>3, <1>7, <1>12, <1>14, <2>2
    <3>2. LastOver(core'.pending_subframes, p) = e
      BY <1>3, <1>9, <2>2
    <3> QED
      BY <3>1, <3>2 DEF CellOK, TileOK, SubframeOK, BelowOK
  <2>3. CASE p \notin e.cells
    <3>1. p \notin overtaken /\ latest'[p] = latest[p]
      BY <1>7, <1>14, <2>3
    <3>2. CellOK(p)
      BY <2>1, <3>1 DEF IInv, ContentOK
    <3>3. TileOK(p)'
      BY <1>3, <3>1, <3>2 DEF CellOK, TileOK
    <3>4. SubframeOK(p)'
      BY <1>3, <1>9, <2>3, <3>1, <3>2 DEF CellOK, SubframeOK
    <3>5. BelowOK(p)'
      <4>1. core'.win_size = core.win_size
        BY <1>1, <1>3 DEF Aside, Still
      <4>2. BelowOK(p) /\ p \in Cells /\ fb' = fb /\ Coming \subseteq Coming'
        BY <1>12, <1>14, <3>2 DEF CellOK, Heard, drawn
      <4> QED
        BY <1>2, <1>3, <1>6, <3>1, <4>1, <4>2, BelowKept
    <3> QED
      BY <3>3, <3>4, <3>5 DEF CellOK
  <2> QED
    BY <2>2, <2>3
<1>15. ContentOK' /\ ShotOK'
  BY <1>3, <1>9, <1>13, <1>14 DEF ContentOK, ShotOK
<1> QED
  BY <1>6, <1>10, <1>11, <1>15 DEF IInv

(* A tile another picture has the hash of: where that one was to be drawn the *)
(* new one is, over what came since.                                         *)
LEMMA TileDataHeard ==
  ASSUME IInv, NEW e \in NetEvents, Heard(e), e.ev = "TileData", e.whole
  PROVE  IInv'
<1> DEFINE q == core.pending_tiles
<1>1. CoreOK(Fresh) /\ Still(core, Fresh) /\ CoreOK(core)
  BY FreshIs DEF IInv, WindowOK
<1>2. core' = TileData(Fresh, e) /\ Becomes(core')
  BY HandledIs DEF Heard, Becomes
<1>3. /\ Aside(Fresh, core')
      /\ core'.tile_cache = Put(core.tile_cache, e.hash, e.val)
      /\ core'.pending_frames = core.pending_frames /\ core'.pending_tiles = core.pending_tiles
      /\ core'.pending_subframes = core.pending_subframes /\ core'.frames_seen = core.frames_seen
      /\ core'.full_content_dirty = Fresh.full_content_dirty
  BY <1>1, <1>2, TileDataIs DEF Still
<1>4. e.val # Blank
  BY PictureEvent
<1>5. Fresh.full_content_dirty = core.full_content_dirty
  BY FreshIs, <1>1 DEF Same, CoreFields
<1>6. WindowOK' /\ AreasOK' /\ ChromeOK' /\ ShownOK' /\ Raised(core, core')
  BY <1>2, <1>3, <1>5, PictureRest DEF Heard
<1>7. /\ latest' = latest
      /\ overtaken' = overtaken \cup UNION {t.cells : t \in {t \in Range(q) : t.hash = e.hash}}
  <2>1. ~(core'.frames_seen > core.frames_seen \/ core'.pending_tiles # core.pending_tiles)
    BY <1>1, <1>3 DEF CoreOK, Flags
  <2> QED
    BY <2>1 DEF Heard, Sent
<1>8. /\ DOMAIN core'.tile_cache = {e.hash} \cup DOMAIN core.tile_cache
      /\ \A h \in DOMAIN core'.tile_cache :
             core'.tile_cache[h] = IF h = e.hash THEN e.val ELSE core.tile_cache[h]
  BY <1>3 DEF Put
<1>9. PendingOK'
  BY <1>3, <1>5, <1>8 DEF IInv, PendingOK, Heard
<1>10. NeverBlank'
  BY <1>3, <1>4, <1>8 DEF IInv, NeverBlank
<1>11. Coming' = Coming
  BY <1>3 DEF Coming
<1>12. /\ core'.pending_frames # <<>> => wiped' = {}
       /\ wiped' \cap Coming' = {}
  BY <1>2 DEF Becomes, Coming
<1>13. ASSUME Drawing', NEW p \in Cells \ overtaken'
       PROVE  CellOK(p)'
  <2>1. Drawing /\ p \notin overtaken
    BY <1>7, <1>13 DEF Heard, Drawing, drawn
  <2>2. CellOK(p)
    BY <2>1 DEF IInv, ContentOK
  <2>3. TileOK(p)'
    <3> SUFFICES ASSUME p \in Covered(q)
                 PROVE  core'.tile_cache[LastOver(q, p).hash] = latest[p]
      BY <1>3, <1>7 DEF TileOK
    <3>1. PICK i \in DOMAIN q : p \in q[i].cells /\ LastOver(q, p) = q[i]
      BY LastOverCovers DEF IInv, PendingOK
    <3>2. q[i] \in Range(q)
      BY DEF Range
    <3>3. q[i].hash # e.hash
      BY <1>7, <1>13, <3>1, <3>2
    <3>4. q[i].hash \in DOMAIN core.tile_cache
      BY DEF IInv, PendingOK
    <3>5. core'.tile_cache[q[i].hash] = core.tile_cache[q[i].hash]
      BY <1>8, <3>3, <3>4
    <3>6. core.tile_cache[q[i].hash] = latest[p]
      BY <2>2, <3>1 DEF CellOK, TileOK
    <3> QED
      BY <3>1, <3>5, <3>6
  <2>4. SubframeOK(p)'
    BY <1>3, <1>7, <2>2 DEF CellOK, SubframeOK
  <2>5. BelowOK(p)'
    <3>1. core'.win_size = core.win_size
      BY <1>1, <1>3 DEF Aside, Still
    <3>2. BelowOK(p) /\ p \in Cells /\ fb' = fb /\ Coming \subseteq Coming'
      BY <1>11, <1>13, <2>2 DEF CellOK, Heard, drawn
    <3> QED
      BY <1>2, <1>3, <1>6, <1>7, <3>1, <3>2, BelowKept
  <2> QED
    BY <2>3, <2>4, <2>5 DEF CellOK
<1>14. ContentOK'
  BY <1>12, <1>13 DEF ContentOK
<1>15. ShotOK'
  BY <1>3 DEF IInv, ShotOK, Heard, drawn
<1> QED
  BY <1>6, <1>9, <1>10, <1>14, <1>15 DEF IInv

LEMMA TileRefHeard ==
  ASSUME IInv, NEW e \in NetEvents, Heard(e), e.ev = "TileRef",
         e.cells # {} /\ e.hash \in DOMAIN core.tile_cache
  PROVE  IInv'
<1> DEFINE q == core.pending_tiles
           t == [cells |-> e.cells, hash |-> e.hash]
           r == Append(q, t)
<1>1. CoreOK(Fresh) /\ Still(core, Fresh) /\ CoreOK(core)
  BY FreshIs DEF IInv, WindowOK
<1>2. core' = TileRef(Fresh, e) /\ Becomes(core')
  BY HandledIs DEF Heard, Becomes
<1>3. /\ Aside(Fresh, core')
      /\ core'.pending_tiles = r
      /\ core'.pending_frames = core.pending_frames
      /\ core'.pending_subframes = core.pending_subframes /\ core'.frames_seen = core.frames_seen
      /\ core'.full_content_dirty = Fresh.full_content_dirty /\ core'.tile_cache = core.tile_cache
  BY <1>1, <1>2, TileRefIs DEF Still
<1>4. e.cells \subseteq Cells /\ t.cells = e.cells /\ t.hash = e.hash
  BY PictureEvent
<1>5. Fresh.full_content_dirty = core.full_content_dirty
  BY FreshIs, <1>1 DEF Same, CoreFields
<1>6. WindowOK' /\ AreasOK' /\ ChromeOK' /\ ShownOK' /\ Raised(core, core')
  BY <1>2, <1>3, <1>5, PictureRest DEF Heard
<1>7. QueueOK(q)
  BY DEF IInv, PendingOK
<1> HIDE DEF t
<1>8. /\ QueueOK(r) /\ r # <<>> /\ r # q /\ Covered(r) = Covered(q) \cup e.cells
      /\ \A p \in e.cells : LastOver(r, p) = t
      /\ \A p \in Covered(q) \ e.cells : LastOver(r, p) = LastOver(q, p)
      /\ \A i \in DOMAIN r : r[i] = t \/ \E j \in DOMAIN q : r[i] = q[j]
  BY <1>4, <1>7, AppendQueue
<1> HIDE DEF r
<1>9. /\ latest' = [p \in Cells |-> IF p \in e.cells THEN core.tile_cache[e.hash] ELSE latest[p]]
      /\ overtaken' = overtaken \ e.cells
  BY <1>3, <1>8 DEF Heard, Sent
<1>10. PendingOK'
  BY <1>3, <1>4, <1>5, <1>8 DEF IInv, PendingOK, Heard
<1>11. NeverBlank'
  BY <1>3 DEF IInv, NeverBlank
<1>12. Coming' = Coming \cup e.cells
  BY <1>3, <1>8 DEF Coming
<1>13. /\ core'.pending_frames # <<>> => wiped' = {}
       /\ wiped' \cap Coming' = {}
  BY <1>2 DEF Becomes, Coming
<1>14. ASSUME Drawing', NEW p \in Cells \ overtaken'
       PROVE  CellOK(p)'
  <2>1. Drawing
    BY <1>14 DEF Heard, Drawing, drawn
  <2>2. CASE p \in e.cells
    <3>1. /\ p \in Covered(core'.pending_tiles) /\ p \in Coming'
          /\ latest'[p] = core'.tile_cache[e.hash]
      BY <1>3, <1>8, <1>9, <1>12, <1>14, <2>2
    <3>2. LastOver(core'.pending_tiles, p).hash = e.hash
      BY <1>3, <1>4, <1>8, <2>2
    <3> QED
      BY <3>1, <3>2 DEF CellOK, TileOK, SubframeOK, BelowOK
  <2>3. CASE p \notin e.cells
    <3>1. p \notin overtaken /\ latest'[p] = latest[p]
      BY <1>9, <1>14, <2>3
    <3>2. CellOK(p)
      BY <2>1, <3>1 DEF IInv, ContentOK
    <3>3. TileOK(p)'
      BY <1>3, <1>8, <2>3, <3>1, <3>2 DEF CellOK, TileOK
    <3>4. SubframeOK(p)'
      BY <1>3, <1>8, <2>3, <3>1, <3>2 DEF CellOK, SubframeOK
    <3>5. BelowOK(p)'
      <4>1. core'.win_size = core.win_size
        BY <1>1, <1>3 DEF Aside, Still
      <4>2. BelowOK(p) /\ p \in Cells /\ fb' = fb /\ Coming \subseteq Coming'
        BY <1>12, <1>14, <3>2 DEF CellOK, Heard, drawn
      <4> QED
        BY <1>2, <1>3, <1>6, <3>1, <4>1, <4>2, BelowKept
    <3> QED
      BY <3>3, <3>4, <3>5 DEF CellOK
  <2> QED
    BY <2>2, <2>3
<1>15. ContentOK'
  BY <1>13, <1>14 DEF ContentOK
<1>16. ShotOK'
  BY <1>3 DEF IInv, ShotOK, Heard, drawn
<1> QED
  BY <1>6, <1>10, <1>11, <1>15, <1>16 DEF IInv

LEMMA HostEventKeeps == ASSUME IInv, HostEvent PROVE IInv'
<1>1. PICK e \in NetEvents : Heard(e)
  BY DEF HostEvent, Heard
<1>2. CASE e.ev \in Strip \/ Useless(e)
  BY <1>1, <1>2, StillHeard
<1>3. CASE ~(e.ev \in Strip \/ Useless(e))
  <2>1. e.ev \in {"Frame", "Subframe", "TileData", "TileRef"}
    BY <1>3, PictureEvent
  <2>2. CASE e.ev = "Frame"
    BY <1>1, <1>3, <2>2, FrameHeard DEF Useless
  <2>3. CASE e.ev = "Subframe"
    BY <1>1, <1>3, <2>3, SubframeHeard DEF Useless
  <2>4. CASE e.ev = "TileData"
    BY <1>1, <1>3, <2>4, TileDataHeard DEF Useless
  <2>5. CASE e.ev = "TileRef"
    BY <1>1, <1>3, <2>5, TileRefHeard DEF Useless
  <2> QED
    BY <2>1, <2>2, <2>3, <2>4, <2>5
<1> QED
  BY <1>2, <1>3

----------------------------------------------------------------------------
(* Drawing *)

(* What is drawn is what the host sent last, a blank, or the toast over it. *)
LEMMA DrawnContent ==
  ASSUME IInv, Drawing, NEW p \in core.win_size \ overtaken
  PROVE  LET after == render_into(core, fb).fb
         IN  \/ after[p] = "toast" /\ p = ToastCell /\ core.toast > 0
             \/ after[p] = IF p \in wiped THEN Blank ELSE latest[p]
<1> DEFINE after == render_into(core, fb).fb
           lit == core.toast > 0 /\ p = ToastCell
           tile == p \in Covered(core.pending_tiles)
           sub == p \in Covered(core.pending_subframes)
           last == core.pending_frames[Len(core.pending_frames)]
<1>1. p \in Cells /\ p \in core.win_size /\ p \in DOMAIN fb /\ NoBuffers(core)
  BY DEF IInv, AreasOK, WindowOK, CoreOK
<1>2. /\ lit => after[p] = "toast"
      /\ ~lit /\ tile => after[p] = core.tile_cache[LastOver(core.pending_tiles, p).hash]
      /\ ~lit /\ ~tile /\ sub => after[p] = LastOver(core.pending_subframes, p).val
      /\ ~lit /\ ~tile /\ ~sub /\ core.pending_frames # <<>>
             => after[p] = IF p \in last.cells THEN last.val ELSE Blank
      /\ ~lit /\ ~tile /\ ~sub /\ core.pending_frames = <<>> /\ core.full_content_dirty
             => after[p] = Blank
      /\ ~lit /\ ~tile /\ ~sub /\ core.pending_frames = <<>> /\ ~core.full_content_dirty
             => after[p] = fb[p]
  BY <1>1, DrawnIs
<1> SUFFICES \/ after[p] = "toast" /\ p = ToastCell /\ core.toast > 0
             \/ after[p] = IF p \in wiped THEN Blank ELSE latest[p]
  OBVIOUS
<1> HIDE DEF after
<1>3. CellOK(p) /\ wiped \cap Coming = {} /\ (core.pending_frames # <<>> => wiped = {})
  BY <1>1 DEF IInv, ContentOK
<1>4. p \in Coming <=> tile \/ sub
  BY DEF Coming
<1>5. CASE lit
  BY <1>2, <1>5
<1>6. CASE ~lit /\ tile
  BY <1>2, <1>3, <1>4, <1>6 DEF CellOK, TileOK
<1>7. CASE ~lit /\ ~tile /\ sub
  BY <1>2, <1>3, <1>4, <1>7 DEF CellOK, SubframeOK
<1>8. CASE ~lit /\ ~tile /\ ~sub /\ core.pending_frames # <<>>
  <2>1. last = core.pending_frames[1]
    <3>1. IsSeq(core.pending_frames) /\ Len(core.pending_frames) <= 1
      BY DEF IInv, PendingOK, QueueOK
    <3>2. Len(core.pending_frames) \in Nat /\ Len(core.pending_frames) # 0
      BY <1>8, <3>1 DEF IsSeq
    <3> DEFINE n == Len(core.pending_frames)
    <3> HIDE DEF n
    <3>3. n \in Nat /\ n <= 1 /\ n # 0
      BY <3>1, <3>2 DEF n
    <3>4. n = 1
      BY <3>3
    <3> QED
      BY <3>4 DEF n
  <2>2. wiped = {} /\ BelowOK(p) /\ p \notin Coming
    BY <1>3, <1>4, <1>8 DEF CellOK
  <2>3. latest[p] = IF p \in core.pending_frames[1].cells THEN core.pending_frames[1].val ELSE Blank
    BY <1>8, <2>2 DEF BelowOK
  <2>4. after[p] = latest[p] /\ p \notin wiped
    BY <1>2, <1>8, <2>1, <2>2, <2>3
  <2> QED
    BY <2>4
<1>9. CASE ~lit /\ ~tile /\ ~sub /\ core.pending_frames = <<>> /\ core.full_content_dirty
  BY <1>2, <1>3, <1>4, <1>9 DEF CellOK, BelowOK
<1>10. CASE ~lit /\ ~tile /\ ~sub /\ core.pending_frames = <<>> /\ ~core.full_content_dirty
  BY <1>1, <1>2, <1>3, <1>4, <1>10 DEF CellOK, BelowOK
<1> QED
  BY <1>5, <1>6, <1>7, <1>8, <1>9, <1>10

(* What a drawing leaves to be drawn. *)
LEMMA RenderContent ==
  ASSUME IInv, Drawing, NEW r, r = render_into(core, fb), Becomes(r.core), fb' = r.fb,
         UNCHANGED <<mode, latest, overtaken>>
  PROVE  /\ PendingOK' /\ NeverBlank' /\ ContentOK'
         /\ CoreOK(core') /\ core'.win_size = core.win_size /\ DOMAIN fb' = Cells
         /\ core'.frames_seen = core.frames_seen
<1> DEFINE n == r.core
<1>1. /\ CoreOK(n) /\ n.win_size = core.win_size /\ n.tile_cache = core.tile_cache
      /\ n.frames_seen = core.frames_seen
      /\ n.pending_frames = <<>> /\ n.pending_subframes = <<>> /\ n.pending_tiles = <<>>
      /\ n.full_content_dirty <=> core.toast = 1
      /\ core.toast > 1 <=> n.toast > 0
      /\ DOMAIN r.fb = DOMAIN fb
  BY RenderIs DEF IInv, WindowOK
<1> HIDE DEF n
<1>2. core' = n
  BY DEF Becomes, n
<1>3. DOMAIN fb' = Cells
  BY <1>1 DEF IInv, AreasOK
<1>4. PendingOK' /\ NeverBlank'
  BY <1>1, <1>2, EmptyQueue DEF IInv, PendingOK, NothingWaits, NeverBlank
<1>5. /\ Covered(core'.pending_subframes) = {} /\ Covered(core'.pending_tiles) = {} /\ Coming' = {}
  BY <1>1, <1>2, EmptyQueue DEF Coming
<1>6. wiped' = IF n.full_content_dirty THEN Cells ELSE wiped
  <2>1. wiped' = IF n.pending_frames # <<>> THEN {}
                 ELSE (IF n.full_content_dirty THEN Cells ELSE wiped)
                          \ (Covered(n.pending_subframes) \cup Covered(n.pending_tiles))
    BY DEF Becomes, n
  <2> QED
    BY <1>1, <1>2, <1>5, <2>1
<1>7. ASSUME NEW p \in Cells \ overtaken'
      PROVE  CellOK(p)'
  <2>1. ASSUME ~n.full_content_dirty, p \in core.win_size
        PROVE  \/ fb'[p] = IF p \in wiped' THEN Blank ELSE latest'[p]
               \/ p = ToastCell /\ fb'[p] = "toast" /\ core'.toast > 0
    <3>1. \/ r.fb[p] = "toast" /\ p = ToastCell /\ core.toast > 0
          \/ r.fb[p] = IF p \in wiped THEN Blank ELSE latest[p]
      BY <1>7, <2>1, DrawnContent
    <3>2. core.toast > 0 => core'.toast > 0
      <4>1. core.toast \in Nat /\ core.toast # 1
        BY <1>1, <2>1 DEF IInv, WindowOK, CoreOK, Flags
      <4> QED
        BY <1>1, <1>2, <4>1
    <3> QED
      BY <1>6, <2>1, <3>1, <3>2
  <2>2. n.full_content_dirty => p \in wiped'
    BY <1>6
  <2>3. BelowOK(p)'
    BY <1>1, <1>2, <2>1, <2>2 DEF BelowOK
  <2>4. TileOK(p)' /\ SubframeOK(p)'
    BY <1>5 DEF TileOK, SubframeOK
  <2> QED
    BY <2>3, <2>4 DEF CellOK
<1>8. ContentOK'
  BY <1>1, <1>2, <1>5, <1>7 DEF ContentOK
<1> QED
  BY <1>1, <1>2, <1>3, <1>4, <1>8

(* What is damaged is put on the window; the rest has not changed. *)
LEMMA DrawnShown ==
  ASSUME IInv, ~mode.headless, NEW r, r = render_into(core, fb), Present(r), NEW p \in core.win_size
  PROVE  window'[p] = r.fb[p]
<1>1. p \in Cells /\ p \in DOMAIN fb /\ NoBuffers(core) /\ r.damage = Damage(core)
  BY RenderIs DEF IInv, AreasOK, WindowOK, CoreOK
<1>2. window'[p] = IF p \in Damage(core) THEN r.fb[p] ELSE window[p]
  BY <1>1 DEF Present
<1>3. CASE p \in Damage(core)
  BY <1>2, <1>3
<1>4. CASE p \notin Damage(core)
  <2>1. /\ core.pending_frames = <<>> /\ ~core.full_content_dirty
        /\ p \notin Covered(core.pending_subframes) /\ p \notin Covered(core.pending_tiles)
        /\ ~(core.toast > 0 /\ p = ToastCell)
    BY <1>4 DEF Damage
  <2>2. r.fb[p] = fb[p]
    BY <1>1, <2>1, DrawnIs
  <2>3. window[p] = fb[p]
    BY <2>1 DEF IInv, ShownOK
  <2> QED
    BY <1>2, <1>4, <2>2, <2>3
<1> QED
  BY <1>3, <1>4

LEMMA RenderKeeps == ASSUME IInv, Render PROVE IInv'
<1>1. CoreOK(core) /\ pc = "net" /\ ~mode.headless
  BY DEF IInv, WindowOK, Render
<1>2. /\ pc' = "x11" /\ ask' = FALSE /\ UNCHANGED <<mode, latest, overtaken>>
  BY DEF Render
<1>3. CASE Asked
  <2>1. PICK r : /\ r = render_into(core, fb) /\ Becomes(r.core) /\ fb' = r.fb /\ Present(r)
    BY <1>3 DEF Render
  <2>2. /\ CoreOK(r.core) /\ r.core.win_size = core.win_size
        /\ r.core.pending_frames = <<>> /\ r.core.pending_subframes = <<>>
        /\ r.core.pending_tiles = <<>> /\ ~r.core.chrome_dirty
        /\ \/ r.chrome = <<draw_chrome(r.core)>>
           \/ r.chrome = <<>> /\ ~core.chrome_dirty /\ draw_chrome(r.core) = draw_chrome(core)
    BY <1>1, <2>1, RenderIs
  <2>3. core' = r.core
    BY <2>1 DEF Becomes
  <2>4. PendingOK' /\ NeverBlank' /\ ContentOK' /\ DOMAIN fb' = Cells
    BY <1>1, <1>2, <2>1, RenderContent DEF Drawing
  <2>5. WindowOK'
    BY <1>1, <1>2, <2>2, <2>3 DEF IInv, WindowOK
  <2>6. AreasOK'
    BY <2>1, <2>2, <2>3, <2>4 DEF IInv, AreasOK, Present
  <2>7. ChromeOK'
    <3>1. chrome' = <<draw_chrome(core')>>
      <4>1. CASE r.chrome = <<draw_chrome(r.core)>>
        BY <2>1, <2>3, <4>1 DEF Present
      <4>2. CASE r.chrome = <<>> /\ ~core.chrome_dirty /\ draw_chrome(r.core) = draw_chrome(core)
        <5>1. chrome = <<draw_chrome(core)>>
          BY <1>1, <4>2 DEF IInv, ChromeOK
        <5> QED
          BY <2>1, <2>3, <4>2, <5>1 DEF Present
      <4> QED
        BY <2>2, <4>1, <4>2
    <3> QED
      BY <2>2, <2>3, <3>1 DEF ChromeOK
  <2>8. ShownOK'
    BY <1>1, <2>1, <2>2, <2>3, DrawnShown DEF ShownOK
  <2>9. ShotOK'
    BY <1>1, <1>2 DEF ShotOK
  <2> QED
    BY <2>4, <2>5, <2>6, <2>7, <2>8, <2>9 DEF IInv
<1>4. CASE ~Asked
  <2>1. Becomes(Fresh) /\ Becomes(core') /\ UNCHANGED <<mode, drawn, latest, overtaken>>
    BY <1>2, <1>4 DEF Render, Becomes
  <2>2. Acted /\ core'.chrome_dirty = core.chrome_dirty
    BY <1>1, <2>1, FreshActed
  <2>3. ~core.chrome_dirty /\ NothingWaits
    BY <1>4 DEF Asked, IInv, PendingOK, NothingWaits
  <2>4. pc' \in {"x11", "net", "closed"} /\ ask' \in BOOLEAN
    BY <1>2
  <2> QED
    BY <1>1, <2>1, <2>2, <2>3, <2>4, ActedKeeps DEF Acted
<1> QED
  BY <1>3, <1>4

LEMMA ForgetIs ==
  ASSUME NEW c, CoreOK(c)
  PROVE  LET d == Forget(c)
         IN  /\ CoreOK(d) /\ Look(d) = Look(c) /\ d.out = c.out
             /\ d.win_size = c.win_size /\ d.tile_cache = c.tile_cache
             /\ d.pending_frames = <<>> /\ d.pending_subframes = <<>> /\ d.pending_tiles = <<>>
<1> DEFINE no == FALSE
           d == [c EXCEPT !.pending_frames = <<>>, !.pending_subframes = <<>>, !.pending_tiles = <<>>,
                          !.chrome_dirty = no, !.full_content_dirty = no]
<1>1. Same(c, d, {"pending_frames", "pending_subframes", "pending_tiles", "chrome_dirty",
                  "full_content_dirty"})
  BY DEF Same, CoreOK, IsCore
<1>2. d.pending_frames = <<>> /\ d.pending_subframes = <<>> /\ d.pending_tiles = <<>>
  BY DEF CoreOK, IsCore, CoreFields
<1>3. d.chrome_dirty = no /\ d.full_content_dirty = no
  BY DEF CoreOK, IsCore, CoreFields
<1>4. Forget(c) = d
  BY DEF Forget
<1> HIDE DEF d
<1>5. /\ d.tabs = c.tabs /\ d.next_tab_id = c.next_tab_id /\ d.active_tab_id = c.active_tab_id
      /\ d.active_buf = c.active_buf /\ d.tab_composites = c.tab_composites
      /\ d.editing = c.editing /\ d.url_buf = c.url_buf /\ d.out = c.out
      /\ d.is_loading = c.is_loading /\ d.toast = c.toast /\ d.audio_playing = c.audio_playing
      /\ d.frames_seen = c.frames_seen /\ d.win_size = c.win_size /\ d.tile_cache = c.tile_cache
  BY <1>1 DEF Same, CoreFields
<1>6. TabsOK(d) /\ NoBuffers(d) /\ Flags(d)
  BY <1>3, <1>5, SameTabs DEF CoreOK, NoBuffers, Flags
<1>7. CoreOK(d) /\ Look(d) = Look(c)
  BY <1>1, <1>5, <1>6 DEF CoreOK, Same, Look
<1> QED
  BY <1>2, <1>4, <1>5, <1>7

LEMMA RenderHeadlessKeeps == ASSUME IInv, RenderHeadless PROVE IInv'
<1>1. CoreOK(core) /\ pc = "net" /\ mode.headless
  BY DEF IInv, WindowOK, RenderHeadless
<1>2. pc' = "net" /\ ask' = FALSE /\ UNCHANGED <<mode, latest, overtaken>>
  BY DEF RenderHeadless
<1>3. CASE mode.capture /\ shot = <<>>
  <2>1. PICK r : /\ r = render_into(core, fb) /\ Becomes(r.core) /\ fb' = r.fb
                 /\ shot' = Screenshot(r) /\ window' = window
    BY <1>3 DEF RenderHeadless
  <2>2. core' = r.core
    BY <2>1 DEF Becomes
  <2>3. /\ PendingOK' /\ NeverBlank' /\ ContentOK' /\ DOMAIN fb' = Cells
        /\ CoreOK(core') /\ core'.win_size = core.win_size /\ core'.frames_seen = core.frames_seen
    BY <1>2, <1>3, <2>1, RenderContent DEF Drawing
  <2>4. WindowOK' /\ AreasOK'
    BY <1>1, <1>2, <2>1, <2>3 DEF IInv, WindowOK, AreasOK
  <2>5. ChromeOK' /\ ShownOK'
    BY <1>1, <1>2 DEF ChromeOK, ShownOK
  <2>6. ShotOK'
    <3> SUFFICES ASSUME shot' = <<>>
                 PROVE  core'.frames_seen < mode'.after
      BY DEF ShotOK
    <3>1. ~(r.core.frames_seen >= mode.after)
      BY <1>3, <2>1 DEF Screenshot
    <3>2. mode.after \in Nat /\ core'.frames_seen \in Nat
      BY <1>3, <2>3, WindowAssumption DEF IInv, WindowOK, CoreOK, Flags
    <3> QED
      BY <1>2, <2>2, <3>1, <3>2
  <2> QED
    BY <2>3, <2>4, <2>5, <2>6 DEF IInv
<1>4. CASE ~(mode.capture /\ shot = <<>>)
  <2> DEFINE n == Forget(Fresh)
  <2>1. Becomes(n) /\ UNCHANGED <<fb, window, shot>>
    BY <1>4 DEF RenderHeadless, drawn
  <2>2. CoreOK(Fresh) /\ Still(core, Fresh)
    BY <1>1, FreshIs
  <2>3. /\ CoreOK(n) /\ n.win_size = core.win_size /\ n.tile_cache = core.tile_cache
        /\ n.pending_frames = <<>> /\ n.pending_subframes = <<>> /\ n.pending_tiles = <<>>
    BY <2>2, ForgetIs DEF Still
  <2> HIDE DEF n
  <2>4. core' = n
    BY <2>1 DEF Becomes
  <2>5. WindowOK' /\ AreasOK' /\ ChromeOK' /\ ShownOK'
    BY <1>1, <1>2, <2>1, <2>3, <2>4 DEF IInv, WindowOK, AreasOK, ChromeOK, ShownOK
  <2>6. PendingOK' /\ NeverBlank'
    BY <2>3, <2>4, EmptyQueue DEF IInv, PendingOK, NothingWaits, NeverBlank
  <2>7. ContentOK' /\ ShotOK'
    BY <1>1, <1>2, <1>4, <2>1, <2>3, <2>4, EmptyQueue DEF ContentOK, ShotOK, Drawing, Coming
  <2> QED
    BY <2>5, <2>6, <2>7 DEF IInv
<1> QED
  BY <1>3, <1>4

----------------------------------------------------------------------------
(* The first state *)

LEMMA InitIInv == ASSUME Init PROVE IInv
<1> DEFINE blank == [p \in Cells |-> Blank]
<1>1. PICK editing \in BOOLEAN :
          LET c == new(Cells, Home, editing)
              r == render_into(c, blank)
          IN  IF mode.headless /\ ~mode.capture
              THEN core = c /\ fb = blank /\ chrome = <<>>
              ELSE core = r.core /\ fb = r.fb /\ chrome = r.chrome
  BY DEF Init
<1>2. /\ mode \in Windows /\ ask = FALSE /\ window = fb /\ shot = <<>>
      /\ pc = IF mode.headless THEN "net" ELSE "x11"
      /\ latest = blank /\ wiped = Cells /\ overtaken = {}
  BY DEF Init
<1> DEFINE c == new(Cells, Home, editing)
           r == render_into(c, blank)
<1>3. /\ CoreOK(c) /\ c.win_size = Cells /\ c.toast = 0 /\ c.frames_seen = 0
      /\ c.pending_frames = <<>> /\ c.pending_subframes = <<>> /\ c.pending_tiles = <<>>
      /\ c.tile_cache = <<>> /\ c.chrome_dirty = TRUE /\ c.full_content_dirty = TRUE
  BY NewIs
<1>4. \/ mode.headless /\ ~mode.capture /\ core = c /\ fb = blank
      \/ ~(mode.headless /\ ~mode.capture) /\ core = r.core /\ fb = r.fb /\ chrome = r.chrome
  BY <1>1
<1> HIDE DEF c
<1>5. /\ CoreOK(r.core) /\ r.core.win_size = c.win_size /\ r.core.tile_cache = c.tile_cache
      /\ r.core.frames_seen = c.frames_seen
      /\ r.core.pending_frames = <<>> /\ r.core.pending_subframes = <<>>
      /\ r.core.pending_tiles = <<>>
      /\ r.core.full_content_dirty <=> c.toast = 1
      /\ ~r.core.chrome_dirty
      /\ \/ r.chrome = <<draw_chrome(r.core)>>
         \/ r.chrome = <<>> /\ ~c.chrome_dirty /\ draw_chrome(r.core) = draw_chrome(c)
      /\ DOMAIN r.fb = DOMAIN blank
  BY <1>3, RenderIs
<1>6. \A p \in Cells : r.fb[p] = Blank
  <2> TAKE p \in Cells
  <2>1. /\ p \in DOMAIN blank /\ p \in c.win_size /\ NoBuffers(c) /\ ~(c.toast > 0)
        /\ p \notin Covered(c.pending_tiles) /\ p \notin Covered(c.pending_subframes)
    BY <1>3, EmptyQueue DEF CoreOK
  <2> QED
    BY <1>3, <2>1, DrawnIs
<1> HIDE DEF r
<1>7. /\ CoreOK(core) /\ core.win_size = Cells /\ core.tile_cache = <<>> /\ core.frames_seen = 0
      /\ NothingWaits
      /\ DOMAIN fb = Cells /\ \A p \in Cells : fb[p] = Blank
  BY <1>3, <1>4, <1>5, <1>6 DEF NothingWaits
<1>8. WindowOK /\ AreasOK /\ ShownOK
  BY <1>2, <1>7, WindowAssumption DEF WindowOK, AreasOK, ShownOK
<1>9. ChromeOK
  BY <1>3, <1>4, <1>5 DEF ChromeOK
<1>10. PendingOK /\ NeverBlank
  BY <1>7, EmptyQueue DEF PendingOK, NothingWaits, NeverBlank
<1>11. ContentOK
  <2>1. Coming = {} /\ Covered(core.pending_subframes) = {} /\ Covered(core.pending_tiles) = {}
    BY <1>7, EmptyQueue DEF NothingWaits, Coming
  <2>2. \A p \in Cells : CellOK(p)
    BY <1>2, <1>7, <2>1 DEF NothingWaits, CellOK, TileOK, SubframeOK, BelowOK
  <2> QED
    BY <1>7, <2>1, <2>2 DEF ContentOK, NothingWaits
<1>12. ShotOK
  BY <1>2, <1>7, WindowAssumption DEF ShotOK
<1> QED
  BY <1>8, <1>9, <1>10, <1>11, <1>12 DEF IInv

LEMMA StutterKeeps == ASSUME IInv, UNCHANGED vars PROVE IInv'
BY DEF vars, IInv, WindowOK, ChromeOK, AreasOK, PendingOK, NothingWaits, NeverBlank, ShownOK,
       ContentOK, Coming, Drawing, CellOK, TileOK, SubframeOK, BelowOK, ShotOK

LEMMA NextKeeps == ASSUME IInv, [Next]_vars PROVE IInv'
BY XEventKeeps, PolledKeeps, HostEventKeeps, RenderKeeps, RenderHeadlessKeeps, StutterKeeps
   DEF Next

\* The inductive invariant holds throughout.
LEMMA SpecIInv == Spec => []IInv
BY InitIInv, NextKeeps, PTL DEF Spec

----------------------------------------------------------------------------
(* What a step makes of the omnibox and the stop button *)

LEMMA HostEventIs ==
  ASSUME IInv, HostEvent
  PROVE  Told(core, core') \/ Look(core') = Look(core)
<1>1. CoreOK(core) /\ CoreOK(Fresh) /\ Look(Fresh) = Look(core) /\ Still(core, Fresh)
  BY FreshIs DEF IInv, WindowOK
<1>2. PICK e \in NetEvents : core' = handle_render_event(Fresh, e)
  BY DEF HostEvent, Becomes
<1>3. CASE e.ev \in Strip
  BY <1>1, <1>2, <1>3, StripIs
<1>4. CASE Useless(e)
  BY <1>1, <1>2, <1>4, UselessIs
<1>5. CASE e.ev \notin Strip /\ ~Useless(e)
  <2>1. e.ev \in {"Frame", "Subframe", "TileData", "TileRef"}
    BY <1>5, PictureEvent
  <2>2. Aside(Fresh, core')
    <3>1. CASE e.ev = "Frame"
      <4>1. (e.cells # {} /\ e.whole) /\ core' = Frame(Fresh, e)
        BY <1>2, <1>5, <3>1, HandledIs DEF Useless
      <4> QED
        BY <1>1, <4>1, FrameIs
    <3>2. CASE e.ev = "Subframe"
      BY <1>1, <1>2, <1>5, <3>2, HandledIs, SubframeIs DEF Useless
    <3>3. CASE e.ev = "TileData"
      BY <1>1, <1>2, <1>5, <3>3, HandledIs, TileDataIs DEF Useless
    <3>4. CASE e.ev = "TileRef"
      <4>1. (e.cells # {} /\ e.hash \in DOMAIN core.tile_cache) /\ core' = TileRef(Fresh, e)
        BY <1>2, <1>5, <3>4, HandledIs DEF Useless
      <4>2. Fresh.tile_cache = core.tile_cache
        BY <1>1 DEF Still
      <4> QED
        BY <1>1, <4>1, <4>2, TileRefIs
    <3> QED
      BY <2>1, <3>1, <3>2, <3>3, <3>4
  <2> QED
    BY <1>1, <2>2 DEF Aside
<1> QED
  BY <1>3, <1>4, <1>5

LEMMA StepIs ==
  ASSUME IInv, [Next]_vars
  PROVE  \/ Requested(core, core')
         \/ HostEvent /\ Told(core, core')
         \/ Look(core') = Look(core)
<1>1. CoreOK(core) /\ ask \in BOOLEAN /\ CoreOK(Fresh) /\ Look(Fresh) = Look(core)
  BY FreshIs DEF IInv, WindowOK
<1>2. CASE Expose
  <2> DEFINE yes == TRUE
             n == [Fresh EXCEPT !.chrome_dirty = yes, !.full_content_dirty = yes]
  <2>1. core' = n
    BY <1>2 DEF Expose, Becomes
  <2>2. Same(Fresh, n, {"chrome_dirty", "full_content_dirty"})
    BY <1>1 DEF Same, CoreOK, IsCore
  <2> HIDE DEF n
  <2>3. Look(n) = Look(Fresh)
    BY <2>2, LookSame
  <2> QED
    BY <1>1, <2>1, <2>3
<1>3. CASE ConfigureNotify
  <2>1. PICK size : size # core.win_size /\ core' = on_resize(Fresh, size)
    BY <1>3 DEF ConfigureNotify, Becomes
  <2>2. Fresh.win_size = core.win_size
    BY <1>1, FreshIs DEF Still
  <2> QED
    BY <1>1, <2>1, <2>2, ResizeIs
<1>4. CASE MotionNotify \/ ButtonPress \/ ButtonRelease \/ KeyPressOrRelease
  BY <1>1, <1>4, MotionNotifyIs, ButtonPressIs, ButtonReleaseIs, KeyIs DEF Acted
<1>5. CASE ClientMessage \/ Polled \/ Quit
  BY <1>1, <1>5 DEF ClientMessage, Polled, Quit, Becomes
<1>6. CASE HostEvent
  BY <1>6, HostEventIs
<1>7. CASE Render \/ RenderHeadless
  <2>1. \/ core' = Fresh
        \/ core' = Forget(Fresh)
        \/ core' = render_into(core, fb).core
    BY <1>7 DEF Render, RenderHeadless, Becomes
  <2> QED
    BY <1>1, <2>1, ForgetIs, RenderIs
<1>8. CASE UNCHANGED vars
  BY <1>8 DEF vars
<1> QED
  BY <1>2, <1>3, <1>4, <1>5, <1>6, <1>7, <1>8 DEF Next, XEvent

----------------------------------------------------------------------------
(* The theorems *)

(* Whatever ids the host announces and whatever the user opens, no two tabs   *)
(* of the strip have the same id, and the counter is above them all, but for  *)
(* a tab that the host gave the largest id: the counter wraps after that one  *)
(* and is not raised (Ctrl+T, render.rs:1499-1520, and TabCreated,            *)
(* 1169-1193).                                                                *)
THEOREM TabIdsAreFresh == Spec => []TabIdsFresh
<1>1. IInv => TabIdsFresh
  BY DEF IInv, WindowOK, CoreOK, TabsOK, IdsFresh, TabIdsFresh
<1>2. QED
  BY <1>1, SpecIInv, PTL

(* When the X11 loop waits with nothing asked for, the chrome on the screen   *)
(* is the one draw_chrome makes of the state: every handler that changes      *)
(* something it reads has set chrome_dirty, the audio button's countdown      *)
(* included (render.rs:1059-1242, 1471-1825, 1829-1857).                      *)
THEOREM ChromeIsFresh == Spec => []ChromeFresh
<1>1. IInv => ChromeFresh
  BY DEF IInv, ChromeOK, ChromeFresh
<1>2. QED
  BY <1>1, SpecIInv, PTL

(* The rectangles render_into returns cover every cell it changed, so that    *)
(* what is put on the window keeps up with the framebuffer, for any cells,    *)
(* subframes and tiles (render.rs:1858-1990, 2357-2405).                      *)
THEOREM DamageIsCovered == Spec => []DamageCovers
<1>1. IInv => DamageCovers
  BY DEF IInv, ShownOK, DamageCovers, Settled
<1>2. QED
  BY <1>1, SpecIInv, PTL

(* When the loop has nothing left to draw, each cell of the window shows what *)
(* the host sent for it last, or the blank of a full repaint, or the toast,   *)
(* unless a tile was drawn over newer content (render.rs:1062-1107, 1829-2005). *)
THEOREM ContentIsTheLatest == Spec => []ContentIsLatest
<1>1. ASSUME IInv, Settled, NEW p \in core.win_size
      PROVE  \/ p \in overtaken
             \/ p = ToastCell /\ window[p] = "toast" /\ core.toast > 0
             \/ window[p] = IF p \in wiped THEN Blank ELSE latest[p]
  <2> SUFFICES ASSUME p \notin overtaken
               PROVE  \/ p = ToastCell /\ window[p] = "toast" /\ core.toast > 0
                      \/ window[p] = IF p \in wiped THEN Blank ELSE latest[p]
    OBVIOUS
  <2>1. /\ pc = "x11" /\ ~mode.headless /\ ~core.full_content_dirty /\ p \in Cells
        /\ window[p] = fb[p]
    BY <1>1 DEF Settled, IInv, AreasOK, ShownOK
  <2>2. NothingWaits
    BY <1>1, <2>1 DEF IInv, PendingOK
  <2>3. Coming = {}
    BY <2>2, EmptyQueue DEF NothingWaits, Coming
  <2>4. BelowOK(p)
    BY <1>1, <2>1 DEF IInv, ContentOK, Drawing, CellOK
  <2> QED
    BY <1>1, <2>1, <2>3, <2>4 DEF BelowOK
<1>2. IInv => ContentIsLatest
  BY <1>1 DEF ContentIsLatest
<1>3. QED
  BY <1>2, SpecIInv, PTL

(* No event of the host changes what the user is typing, but for the closing  *)
(* of the tab he is in (the guards on editing, render.rs:1148-1239).          *)
THEOREM TypingIsKept == Spec => TypingKept
<1>1. ASSUME IInv, [Next]_vars, core.editing, core'.url_buf # core.url_buf, HostEvent
      PROVE  core'.active_tab_id # core.active_tab_id /\ core.active_tab_id \notin Ids(core')
  <2>1. CASE Told(core, core')
    BY <1>1, <2>1 DEF Told, TypingSafe
  <2>2. CASE Look(core') = Look(core)
    BY <1>1, <2>2, LookAlike
  <2> QED
    BY <1>1, <2>1, <2>2, HostEventIs
<1>2. QED
  BY <1>1, SpecIInv, PTL DEF Spec, TypingKept

(* Whatever the user does and the host says, the omnibox leaves the url of    *)
(* the active tab in the three ways OmniboxFollows names and in no other      *)
(* (render.rs:1059-1242, 1429-1825).                                          *)
THEOREM OmniboxIsFollowing == Spec => OmniboxFollows
<1>1. ASSUME IInv, [Next]_vars, UrlInSync(core), ~UrlInSync(core')
      PROVE  \/ core.editing /\ core'.url_buf = core.url_buf
             \/ core'.out = <<[ev |-> "Navigate", url |-> Home]>>
             \/ core'.active_tab_id = core.active_tab_id /\ core'.url_buf = core.url_buf
                /\ Ids(core') = Ids(core) \cup {core.active_tab_id} /\ HostEvent
  <2>1. CASE Requested(core, core')
    BY <1>1, <2>1 DEF Requested, UrlKept, HomeOnly
  <2>2. CASE HostEvent /\ Told(core, core')
    BY <1>1, <2>2 DEF Told, UrlKept, Relabelled
  <2>3. CASE Look(core') = Look(core)
    BY <1>1, <2>3, LookAlike
  <2> QED
    BY <1>1, <2>1, <2>2, <2>3, StepIs
<1>2. QED
  BY <1>1, SpecIInv, PTL DEF Spec, OmniboxFollows

(* The stop button leaves the loading state of the active tab only when the   *)
(* client's own request changes the active tab or the host closes it          *)
(* (render.rs:1141-1147, 1194-1223, 1499-1592, 1660-1692).                    *)
THEOREM StopIsOfTheActive == Spec => StopIsOfActive
<1>1. ASSUME IInv, [Next]_vars, LoadingInSync(core), ~LoadingInSync(core')
      PROVE  \/ core'.active_tab_id # core.active_tab_id /\ core'.out # <<>>
             \/ core.active_tab_id \in Ids(core) \ Ids(core')
             \/ ~Listed(core)
  <2>1. CASE Requested(core, core')
    BY <1>1, <2>1 DEF Requested, StopKept
  <2>2. CASE HostEvent /\ Told(core, core')
    BY <1>1, <2>2 DEF Told, StopKept
  <2>3. CASE Look(core') = Look(core)
    BY <1>1, <2>3, LookAlike
  <2> QED
    BY <1>1, <2>1, <2>2, <2>3, StepIs
<1>2. QED
  BY <1>1, SpecIInv, PTL DEF Spec, StopIsOfActive

(* Some cell of a headless window is not blank when frames wait. *)
LEMMA SomethingDrawn ==
  ASSUME IInv, Drawing, mode.headless,
         core.pending_frames # <<>> \/ core.pending_subframes # <<>>
  PROVE  \E p \in Cells : render_into(core, fb).fb[p] # Blank
<1> DEFINE now == render_into(core, fb).fb
           first == core.pending_frames[1]
<1>1. core.win_size = Cells /\ DOMAIN fb = Cells /\ NoBuffers(core)
  BY DEF IInv, WindowOK, AreasOK, CoreOK
<1>2. /\ QueueOK(core.pending_frames) /\ QueueOK(core.pending_subframes)
      /\ QueueOK(core.pending_tiles) /\ Len(core.pending_frames) <= 1
      /\ \A i \in DOMAIN core.pending_tiles : core.pending_tiles[i].hash \in DOMAIN core.tile_cache
  BY DEF IInv, PendingOK
<1>3. ASSUME NEW p \in Cells
      PROVE  LET lit == core.toast > 0 /\ p = ToastCell
                 tile == p \in Covered(core.pending_tiles)
                 sub == p \in Covered(core.pending_subframes)
                 last == core.pending_frames[Len(core.pending_frames)]
             IN  /\ lit => now[p] = "toast"
                 /\ ~lit /\ tile => now[p] = core.tile_cache[LastOver(core.pending_tiles, p).hash]
                 /\ ~lit /\ ~tile /\ sub => now[p] = LastOver(core.pending_subframes, p).val
                 /\ ~lit /\ ~tile /\ ~sub /\ core.pending_frames # <<>>
                        => now[p] = IF p \in last.cells THEN last.val ELSE Blank
  BY <1>1, DrawnIs
<1> SUFFICES \E p \in Cells : now[p] # Blank
  OBVIOUS
<1> HIDE DEF now
<1>4. \A p \in Covered(core.pending_tiles) :
          core.tile_cache[LastOver(core.pending_tiles, p).hash] # Blank
  BY <1>2, LastOverCovers DEF IInv, NeverBlank
<1>5. \A p \in Covered(core.pending_subframes) : LastOver(core.pending_subframes, p).val # Blank
  BY <1>2, LastOverCovers DEF IInv, NeverBlank
<1>6. "toast" # Blank
  BY DEF Blank
<1>7. \A p \in Covered(core.pending_subframes) : p \in Cells /\ now[p] # Blank
  <2> TAKE p \in Covered(core.pending_subframes)
  <2>1. p \in Cells
    BY <1>2 DEF Covered, QueueOK
  <2> QED
    BY <1>3, <1>4, <1>5, <1>6, <2>1
<1>8. CASE core.pending_subframes # <<>>
  <2>1. 1 \in DOMAIN core.pending_subframes
    BY <1>2, <1>8, IsSeqDomain DEF QueueOK, IsSeq
  <2>2. PICK p : p \in core.pending_subframes[1].cells
    BY <1>2, <2>1 DEF QueueOK
  <2>3. p \in Covered(core.pending_subframes)
    BY <2>1, <2>2 DEF Covered
  <2> QED
    BY <1>7, <2>3
<1>9. CASE core.pending_frames # <<>>
  <2> DEFINE n == Len(core.pending_frames)
  <2>1. n \in Nat /\ DOMAIN core.pending_frames = 1..n /\ n # 0
    BY <1>2, <1>9, IsSeqDomain DEF QueueOK, IsSeq
  <2>2. n <= 1
    BY <1>2
  <2> HIDE DEF n
  <2>3. n = 1 /\ 1 \in 1..n
    BY <2>1, <2>2
  <2>4. 1 \in DOMAIN core.pending_frames /\ Len(core.pending_frames) = 1
    BY <2>1, <2>3 DEF n
  <2>5. PICK p \in Cells : p \in first.cells
    BY <1>2, <2>4 DEF QueueOK
  <2>6. first.val # Blank
    BY <2>4 DEF IInv, NeverBlank
  <2>7. now[p] # Blank
    BY <1>3, <1>4, <1>5, <1>6, <1>9, <2>4, <2>5, <2>6
  <2> QED
    BY <2>5, <2>7
<1> QED
  BY <1>8, <1>9

(* The screenshot is taken no sooner than after the frames asked for, and     *)
(* shows in each cell what the host sent last; in the headless loop, which    *)
(* draws for nothing else, a frame or subframe is there to be drawn when it   *)
(* is taken (render.rs:1992-2002, 2061-2102).                                 *)
THEOREM ShotIsTheLatest == Spec => ShotIsLatest
<1>1. ASSUME IInv, Next, shot' # shot
      PROVE  /\ core.frames_seen >= mode.after
             /\ mode.headless => \E p \in Cells : shot'[1][p] # Blank
             /\ \A p \in core.win_size :
                    \/ p \in overtaken \/ p \in wiped
                    \/ shot'[1][p] \in {latest[p], "toast"}
  <2>1. Render \/ RenderHeadless
    BY <1>1 DEF Next, XEvent, Expose, ConfigureNotify, MotionNotify, ButtonPress, ButtonRelease,
                KeyPressOrRelease, ClientMessage, Polled, HostEvent, Quit, drawn
  <2>2. PICK r : r = render_into(core, fb) /\ shot' = Screenshot(r)
    BY <1>1, <2>1 DEF Render, RenderHeadless, drawn
  <2>3. mode.capture /\ shot = <<>> /\ r.core.frames_seen >= mode.after /\ shot' = <<r.fb>>
    BY <1>1, <2>2 DEF Screenshot
  <2>4. core.frames_seen >= mode.after
    BY <1>1, <2>2, <2>3, RenderIs DEF IInv, WindowOK
  <2>5. Drawing /\ shot'[1] = render_into(core, fb).fb
    BY <2>2, <2>3 DEF Drawing
  <2>6. ASSUME mode.headless PROVE \E p \in Cells : shot'[1][p] # Blank
    <3>1. ~(core.frames_seen < mode.after)
      BY <1>1, <2>3, <2>4, WindowAssumption DEF IInv, WindowOK, CoreOK, Flags
    <3>2. core.pending_frames # <<>> \/ core.pending_subframes # <<>>
      BY <1>1, <2>3, <2>6, <3>1 DEF IInv, ShotOK
    <3> QED
      BY <1>1, <2>5, <2>6, <3>2, SomethingDrawn
  <2>7. \A p \in core.win_size : \/ p \in overtaken \/ p \in wiped
                                 \/ shot'[1][p] \in {latest[p], "toast"}
    BY <1>1, <2>5, DrawnContent
  <2> QED
    BY <2>4, <2>6, <2>7
<1>2. ASSUME UNCHANGED vars PROVE shot' = shot
  BY <1>2 DEF vars
<1>3. QED
  BY <1>1, <1>2, SpecIInv, PTL DEF Spec, ShotIsLatest

=============================================================================
