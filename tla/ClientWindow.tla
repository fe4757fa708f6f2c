---------------------------- MODULE ClientWindow ----------------------------
(***************************************************************************)
(* The thread that owns the client's window: run_x11_loop and              *)
(* run_headless_loop of render.rs around BrowserCore.  The X11 loop        *)
(* empties the queue of the X server, takes what the network thread has    *)
(* sent, renders if anything asks for it and puts the damaged rectangles   *)
(* on the window; only those reach the screen.                             *)
(***************************************************************************)
EXTENDS BrowserCore

CONSTANTS Windows,    \* records: headless or not, wanting a screenshot or not
          XEvents,    \* what the X server may report
          NetEvents,  \* what the host may send
          MaxTab,     \* bound: tab ids opened
          MaxUrl,     \* bound: words in the omnibox
          MaxBatch,   \* bound: events between two renders
          MaxFrames   \* bound: frames and subframes in all

\* A screenshot waits for some frame.
ASSUME WindowAssumption ==
    /\ {MaxTab, MaxUrl, MaxBatch, MaxFrames} \subseteq Nat /\ MaxTab < TopId
    /\ \A w \in Windows : /\ {w.headless, w.capture} \subseteq BOOLEAN
                          /\ w.capture => w.after \in Nat \ {0}

\* Buttons are numbered; ids are those of the protocol; what is sent lies in
\* the content area, and is not taken for the blank of a repaint.
ASSUME EventAssumption ==
    /\ \A e \in XEvents : e.x = "press" => e.button \in Nat
    /\ \A e \in NetEvents :
          \/ /\ e.ev \in {"Frame", "Subframe"}
             /\ e.cells \subseteq Cells /\ e.val # Blank /\ e.whole \in BOOLEAN
          \/ e.ev = "TileData" /\ e.val # Blank /\ e.whole \in BOOLEAN
          \/ e.ev = "TileRef" /\ e.cells \subseteq Cells
          \/ e.ev \in {"TabCreated", "TabClosed", "TabActivated", "TabTitle", "TabUrl"} /\ e.id \in 0..TopId
          \/ e.ev \in {"Audio", "LoadState", "InitialUrl", "UrlChanged", "Title"}

VARIABLES mode,     \* of the window, see Windows
          pc,       \* x11: the X queue; net: the channel; draw; closed
          ask,      \* got_net or dirty_from_x11
          core,
          fb,       \* the content in the framebuffer
          window,   \* the content on the screen
          chrome,   \* the chrome on the screen
          shot,     \* the screenshot, once taken
          latest,   \* for each cell, what the host sent for it last
          wiped,    \* cells a full repaint has emptied since
          overtaken, \* cells where a tile will be drawn over newer content
          batch     \* events since the last render

vars == <<mode, pc, ask, core, fb, window, chrome, shot, latest, wiped, overtaken, batch>>

drawn == <<fb, window, chrome, shot>>

\* Every handler: the new state, and what it means for what should be visible.
Becomes(n) ==
    LET coming == Covered(n.pending_subframes) \cup Covered(n.pending_tiles)
    IN  /\ core' = n
        /\ wiped' = IF n.pending_frames # <<>> THEN {}
                    ELSE (IF n.full_content_dirty THEN Cells ELSE wiped) \ coming

Fresh == [core EXCEPT !.out = <<>>]

Init ==
    /\ mode \in Windows
    /\ \E size \in {Cells}, editing \in BOOLEAN :
          LET c == new(size, Home, editing)
              r == render_into(c, [p \in Cells |-> Blank])
          IN  IF mode.headless /\ ~mode.capture
              THEN core = c /\ fb = [p \in Cells |-> Blank] /\ chrome = <<>>
              ELSE core = r.core /\ fb = r.fb /\ chrome = r.chrome
    /\ pc = (IF mode.headless THEN "net" ELSE "x11")
    /\ ask = FALSE
    /\ window = fb
    /\ shot = <<>>
    /\ latest = [p \in Cells |-> Blank]
    /\ wiped = Cells
    /\ overtaken = {}
    /\ batch = 0

----------------------------------------------------------------------------
\* Events of the X server

Polling == pc = "x11" /\ batch < MaxBatch /\ batch' = batch + 1

\* The server has lost what the window showed.
Expose ==
    /\ Polling /\ [x |-> "expose"] \in XEvents
    /\ Becomes([Fresh EXCEPT !.chrome_dirty = TRUE, !.full_content_dirty = TRUE])
    /\ ask' = TRUE
    /\ window' = [p \in Cells |-> "lost"] /\ chrome' = <<>>
    /\ UNCHANGED <<mode, pc, fb, shot, latest, overtaken>>

\* Another size shifts the rows of the framebuffer.
ConfigureNotify ==
    /\ Polling
    /\ \E size \in SUBSET Cells :
          /\ [x |-> "configure", size |-> size] \in XEvents
          /\ size # core.win_size
          /\ Becomes(on_resize(Fresh, size))
    /\ fb' = [p \in Cells |-> "shifted"]
    /\ window' = [p \in Cells |-> "lost"] /\ chrome' = <<>>
    /\ ask' = TRUE
    /\ UNCHANGED <<mode, pc, shot, latest, overtaken>>

MotionNotify ==
    /\ Polling
    /\ \E place \in {"chrome", "content"} :
          /\ [x |-> "motion", place |-> place] \in XEvents
          /\ Becomes(on_pointer_move(update_x11_mods(Fresh, {}), place))
    /\ UNCHANGED <<mode, pc, ask, drawn, latest, overtaken>>

\* The bound on the ids the client gives.
IdGiven == core'.next_tab_id = core.next_tab_id \/ core.next_tab_id <= MaxTab

Button(e) ==
    on_mouse_button(update_x11_mods(Fresh, {}), e.part, e.button, e.x = "press")

ButtonPress ==
    /\ Polling
    /\ \E e \in XEvents :
          /\ e.x = "press"
          /\ Becomes(IF e.button > 3 THEN on_scroll(Fresh) ELSE Button(e))
          /\ ask' = (ask \/ e.button <= 3)
    /\ IdGiven
    /\ UNCHANGED <<mode, pc, drawn, latest, overtaken>>

ButtonRelease ==
    /\ Polling
    /\ \E e \in XEvents :
          /\ e.x = "release"
          /\ Becomes(IF e.button > 3 THEN Fresh ELSE Button(e))
    /\ UNCHANGED <<mode, pc, ask, drawn, latest, overtaken>>

KeyPressOrRelease ==
    /\ Polling
    /\ \E e \in XEvents :
          /\ e.x = "key"
          /\ Becomes(on_key(update_keysym_modifier(update_x11_mods(Fresh, e.state), e.sym, e.pressed),
                            e.sym, e.pressed))
    /\ IdGiven /\ (core'.editing => Len(core'.url_buf) <= MaxUrl)
    /\ ask' = TRUE
    /\ UNCHANGED <<mode, pc, drawn, latest, overtaken>>

\* WM_DELETE_WINDOW
ClientMessage ==
    /\ Polling /\ [x |-> "close"] \in XEvents
    /\ pc' = "closed"
    /\ Becomes(Fresh)
    /\ UNCHANGED <<mode, ask, drawn, latest, overtaken>>

Polled ==
    /\ pc = "x11"
    /\ pc' = "net"
    /\ Becomes(Fresh)
    /\ UNCHANGED <<mode, ask, drawn, latest, overtaken, batch>>

----------------------------------------------------------------------------
\* The channel from the network thread

\* What the host sent last, cell by cell; a tile is drawn after the subframes
\* that arrive with it, in whatever order they came.
Sent(e) ==
    LET accepted == core'.frames_seen > core.frames_seen \/ core'.pending_tiles # core.pending_tiles
        val == IF e.ev = "TileRef" THEN core.tile_cache[e.hash] ELSE e.val
    IN  CASE accepted /\ e.ev = "Frame" ->
                 latest' = [p \in Cells |-> IF p \in e.cells THEN val ELSE Blank] /\ overtaken' = {}
          [] accepted /\ e.ev = "Subframe" ->
                 /\ latest' = [p \in Cells |-> IF p \in e.cells THEN val ELSE latest[p]]
                 /\ overtaken' = (overtaken \ e.cells) \cup (e.cells \cap Covered(core.pending_tiles))
          [] accepted /\ e.ev = "TileRef" ->
                 /\ latest' = [p \in Cells |-> IF p \in e.cells THEN val ELSE latest[p]]
                 /\ overtaken' = overtaken \ e.cells
          [] e.ev = "TileData" /\ e.whole ->
                 /\ overtaken' = overtaken \cup UNION {t.cells : t \in {t \in Range(core.pending_tiles) :
                                                                          t.hash = e.hash}}
                 /\ UNCHANGED latest
          [] OTHER -> UNCHANGED <<latest, overtaken>>

HostEvent ==
    /\ pc = "net" /\ batch < MaxBatch
    /\ \E e \in NetEvents : Becomes(handle_render_event(Fresh, e)) /\ Sent(e)
    /\ core'.frames_seen <= MaxFrames
    /\ batch' = batch + 1
    /\ ask' = TRUE
    /\ UNCHANGED <<mode, pc, drawn>>

\* Quit, or the network thread is gone.
Quit ==
    /\ pc = "net"
    /\ pc' = "closed"
    /\ Becomes(Fresh)
    /\ UNCHANGED <<mode, ask, drawn, latest, overtaken, batch>>

----------------------------------------------------------------------------
\* Drawing

Asked == ask \/ core.chrome_dirty \/ core.full_content_dirty
             \/ core.pending_subframes # <<>> \/ core.pending_tiles # <<>>

\* Mutant of Screenshot: it does not wait for the frames.
ScreenshotAtOnce(r) == IF mode.capture /\ shot = <<>> THEN <<r.fb>> ELSE shot

Screenshot(r) == IF mode.capture /\ shot = <<>> /\ r.core.frames_seen >= mode.after
                 THEN <<r.fb>> ELSE shot

\* Only the damage is put on the window.
Present(r) ==
    /\ window' = [p \in Cells |-> IF p \in r.damage THEN r.fb[p] ELSE window[p]]
    /\ chrome' = IF r.chrome = <<>> THEN chrome ELSE r.chrome

Render ==
    /\ pc = "net" /\ ~mode.headless
    /\ pc' = "x11"
    /\ IF Asked
       THEN \E r \in {render_into(core, fb)} :
                Becomes(r.core) /\ fb' = r.fb /\ Present(r) /\ shot' = Screenshot(r)
       ELSE Becomes(Fresh) /\ UNCHANGED drawn
    /\ ask' = FALSE /\ batch' = 0
    /\ UNCHANGED <<mode, latest, overtaken>>

Forget(c) ==
    [c EXCEPT !.pending_frames = <<>>, !.pending_subframes = <<>>, !.pending_tiles = <<>>,
              !.chrome_dirty = FALSE, !.full_content_dirty = FALSE]

\* Without a window nothing is drawn but for the screenshot, and what arrives
\* is forgotten.
RenderHeadless ==
    /\ pc = "net" /\ mode.headless /\ batch > 0
    /\ IF mode.capture /\ shot = <<>>
       THEN \E r \in {render_into(core, fb)} :
                Becomes(r.core) /\ fb' = r.fb /\ shot' = Screenshot(r) /\ UNCHANGED <<window, chrome>>
       ELSE Becomes(Forget(Fresh)) /\ UNCHANGED drawn
    /\ ask' = FALSE /\ batch' = 0
    /\ UNCHANGED <<mode, pc, latest, overtaken>>

XEvent ==
    \/ Expose \/ ConfigureNotify
    \/ MotionNotify \/ ButtonPress \/ ButtonRelease \/ KeyPressOrRelease
    \/ ClientMessage

Next == XEvent \/ Polled \/ HostEvent \/ Quit \/ Render \/ RenderHeadless

Spec == Init /\ [][Next]_vars

----------------------------------------------------------------------------
(***************************************************************************)
(* Properties.                                                             *)
(***************************************************************************)

\* The loop has nothing left to draw.
Settled == pc = "x11" /\ ~mode.headless /\ ~ask /\ ~core.full_content_dirty

\* When the loop waits for events, each cell of the content shows what the host
\* sent for it last, or has been blanked by a repaint since: for want of the
\* tab buffers that were to be kept (active_buf, tab_composites) a resize, a
\* switch, an exposure and the end of a toast all blank it until the host
\* happens to send it again.
ContentIsLatest ==
    Settled =>
        \A p \in core.win_size :
            \/ p \in overtaken
            \/ p = ToastCell /\ window[p] = "toast" /\ core.toast > 0
            \/ window[p] = (IF p \in wiped THEN Blank ELSE latest[p])

\* And nothing is left behind: what is on the window is what is in the
\* framebuffer, so the damage returned covers every change.
DamageCovers == Settled => \A p \in core.win_size : window[p] = fb[p]

\* The chrome on the screen is that of the state: no handler forgets to ask for
\* a redraw of something draw_chrome reads.
ChromeFresh == pc = "x11" /\ ~mode.headless /\ ~ask => chrome = <<draw_chrome(core)>>

\* The ids the client gives are new to it: no two tabs share one, and the next
\* is above them all, whatever ids the host announces, but for the largest there
\* is: a tab of that id does not raise the counter, which wraps
\* (render.rs:1169-1171).
TabIdsFresh ==
    /\ \A i, j \in DOMAIN core.tabs : core.tabs[i].id = core.tabs[j].id => i = j
    /\ \A i \in DOMAIN core.tabs :
          core.tabs[i].id < core.next_tab_id \/ core.tabs[i].id = TopId

\* What the user is typing is not touched by the host, unless it closes the tab.
TypingKept == [][
    core.editing /\ core'.url_buf # core.url_buf /\ HostEvent =>
        core'.active_tab_id # core.active_tab_id /\ core.active_tab_id \notin Ids(core')]_vars

\* Outside editing the omnibox shows the url of the active tab.  It stops doing
\* so in three ways only: a click on the page leaves what was typed there, the
\* home button shows its page before the host does, and a TabCreated for the
\* active tab, announced late or again, changes the url under it.
OmniboxFollows == [][
    UrlInSync(core) /\ ~UrlInSync(core') =>
        \/ core.editing /\ core'.url_buf = core.url_buf
        \/ core'.out = <<[ev |-> "Navigate", url |-> Home]>>
        \/ core'.active_tab_id = core.active_tab_id /\ core'.url_buf = core.url_buf
           /\ Ids(core') = Ids(core) \cup {core.active_tab_id} /\ HostEvent]_vars

\* The stop button is that of the active tab, until the client itself opens,
\* closes or switches a tab, or the host closes the active one: then it stays
\* that of the other tab, and TabActivated does not put it right.
StopIsOfActive == [][
    LoadingInSync(core) /\ ~LoadingInSync(core') =>
        \/ core'.active_tab_id # core.active_tab_id /\ core'.out # <<>>
        \/ core.active_tab_id \in Ids(core) \ Ids(core')
        \/ ~Listed(core)]_vars

\* The screenshot is taken at the first drawing with enough frames in it, and
\* shows the content as the host sent it; without a window, whose size may have
\* left the frames outside, it is not the blank that came before.
ShotIsLatest == [][
    shot' # shot =>
        /\ core.frames_seen >= mode.after
        /\ mode.headless => \E p \in Cells : shot'[1][p] # Blank
        /\ \A p \in core.win_size :
               \/ p \in overtaken \/ p \in wiped
               \/ shot'[1][p] \in {latest[p], "toast"}]_vars

=============================================================================
