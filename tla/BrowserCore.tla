---------------------------- MODULE BrowserCore ----------------------------
(***************************************************************************)
(* BrowserCore, the client's state and its handlers (render.rs), as        *)
(* functions from a state to a state.  ClientWindow runs them in the       *)
(* window's event loop and Browsing against the host's tabs.               *)
(*                                                                         *)
(* A text is a sequence of words and marks: a url begins with its scheme.  *)
(* The content area is a set of cells; a frame, a subframe and a tile are  *)
(* the cells they cover and what they put there.                           *)
(***************************************************************************)
EXTENDS Integers, SequencesExt

CONSTANTS Cells,        \* the content area of the largest window
          ToastCell,    \* where the status toast is drawn
          ToastFrames,  \* renders a toast stays (60 in the source)
          AudioFrames,  \* renders the audio button stays lit (30)
          ZoomMin, ZoomMax, \* 300 and 3000
          TopId         \* the largest tab id (2^32 - 1)

ASSUME CoreAssumption ==
    /\ ToastCell \in Cells
    /\ {ToastFrames, AudioFrames, ZoomMin, ZoomMax} \subseteq Nat \ {0}
    /\ 1000 \in ZoomMin..ZoomMax
    /\ TopId \in Nat \ {0}

NoBuffer == "no buffer"
Blank == "blank"    \* 0x0F0F12

Home == <<"https://", "duckduckgo.com">>

Schemes == {"https://", "http://", "about:blank"}

is_secure(url) == url # <<>> /\ Head(url) = "https://"

\* What the omnibox makes of what was typed.
canonicalize_url(raw) ==
    LET Typed(i) == raw[i] # " "
        s == IF \E i \in DOMAIN raw : Typed(i)
             THEN SubSeq(raw, CHOOSE i \in DOMAIN raw : Typed(i) /\ \A j \in 1..(i - 1) : ~Typed(j),
                              CHOOSE i \in DOMAIN raw : Typed(i) /\ \A j \in (i + 1)..Len(raw) : ~Typed(j))
             ELSE <<>>
        Query(t) == <<"https://", "duckduckgo.com/?q=">> \o t
    IN  IF s = <<>> THEN <<"about:blank">>
        ELSE IF Contains(s, " ") THEN Query([i \in DOMAIN s |-> IF s[i] = " " THEN "+" ELSE s[i]])
        ELSE IF s[1] = "localhost" THEN <<"http://">> \o s
        ELSE IF s[1] \in Schemes THEN s
        ELSE IF Contains(s, ".") THEN <<"https://">> \o s
        ELSE Query(s)

----------------------------------------------------------------------------
\* The state

TabInfo(id, title, url, loading) == [id |-> id, title |-> title, url |-> url, is_loading |-> loading]

new(size, initial_url, editing) ==
    [win_size |-> size, out |-> <<>>,
     tabs |-> <<TabInfo(1, "New Tab", initial_url, FALSE)>>,
     active_tab_id |-> 1, next_tab_id |-> 2,
     active_buf |-> NoBuffer, tab_composites |-> <<>>, tile_cache |-> <<>>,
     cursor |-> "chrome", mods |-> {},
     window_title |-> "ExoBrowser", url_buf |-> initial_url, editing |-> editing,
     is_loading |-> FALSE, zoom_milli |-> 1000, toast |-> 0,
     chrome_dirty |-> TRUE, full_content_dirty |-> TRUE,
     pending_frames |-> <<>>, pending_subframes |-> <<>>, pending_tiles |-> <<>>,
     audio_muted |-> FALSE, audio_playing |-> 0, frames_seen |-> 0]

\* out is what the current step sends to the network thread.
emit_input(c, e) == [c EXCEPT !.out = Append(@, e)]

Ids(c) == {c.tabs[i].id : i \in DOMAIN c.tabs}
Position(c, id) == CHOOSE i \in DOMAIN c.tabs : c.tabs[i].id = id
TabOf(c, id) == c.tabs[Position(c, id)]
Listed(c) == c.active_tab_id \in Ids(c)

\* A record with new values for some of its fields, a map with an entry more.
With(r, fields) == [f \in DOMAIN r |-> IF f \in DOMAIN fields THEN fields[f] ELSE r[f]]
Put(map, key, val) == [k \in {key} \cup DOMAIN map |-> IF k = key THEN val ELSE map[k]]

\* A tab that is there gets new values for some of its fields.
SetTab(c, id, fields) ==
    [c EXCEPT !.tabs = [i \in DOMAIN @ |-> IF @[i].id = id THEN With(@[i], fields) ELSE @[i]]]

\* The tab goes, if it is there: no two have its id (TabIdsFresh).
Drop(c, id) ==
    [c EXCEPT !.tabs = IF id \in Ids(c) THEN RemoveAt(@, Position(c, id)) ELSE @,
              !.tab_composites = Restrict(@, DOMAIN @ \ {id})]

\* The buffer of the active tab is put away.
Leave(c) ==
    [c EXCEPT !.tab_composites = IF c.active_buf = NoBuffer THEN @
                                 ELSE Put(@, c.active_tab_id, c.active_buf),
              !.active_buf = NoBuffer]

\* Another tab is active, with the buffer kept for it if there is one.
Enter(c, id) ==
    [c EXCEPT !.active_tab_id = id,
              !.active_buf = IF id \in DOMAIN c.tab_composites THEN c.tab_composites[id] ELSE NoBuffer,
              !.tab_composites = Restrict(@, DOMAIN @ \ {id}),
              !.full_content_dirty = TRUE]

ShowUrl(c) == [c EXCEPT !.url_buf = IF Listed(c) THEN TabOf(c, c.active_tab_id).url ELSE @]

Redraw(c) == [c EXCEPT !.chrome_dirty = TRUE]

\* The active tab is gone: the first of the others takes its place.
FallBack(c) == ShowUrl(Enter(c, c.tabs[1].id))

\* Outside editing, the omnibox has the url of the active tab.
UrlInSync(c) == c.editing \/ ~Listed(c) \/ c.url_buf = TabOf(c, c.active_tab_id).url

\* The stop button is that of the active tab.
LoadingInSync(c) == Listed(c) => c.is_loading = TabOf(c, c.active_tab_id).is_loading

----------------------------------------------------------------------------
\* Events from the host: handle_render_event

Frame(c, f) ==
    IF f.cells = {} \/ ~f.whole THEN c
    ELSE [c EXCEPT !.pending_frames = <<f>>, !.pending_subframes = <<>>, !.pending_tiles = <<>>,
                   !.full_content_dirty = TRUE, !.frames_seen = @ + 1]

Subframe(c, s) ==
    IF s.cells = {} \/ ~s.whole THEN c
    ELSE [c EXCEPT !.pending_subframes = Append(@, s), !.frames_seen = @ + 1]

TileData(c, e) ==
    IF e.whole THEN [c EXCEPT !.tile_cache = Put(@, e.hash, e.val)] ELSE c

\* Only whole tiles that the cache has.
TileRef(c, e) ==
    IF e.cells # {} /\ e.hash \in DOMAIN c.tile_cache
    THEN [c EXCEPT !.pending_tiles = Append(@, [cells |-> e.cells, hash |-> e.hash])]
    ELSE c

Audio(c) ==
    [c EXCEPT !.audio_playing = AudioFrames, !.chrome_dirty = @ \/ c.audio_playing = 0]

LoadState(c, state) ==
    Redraw([SetTab(c, c.active_tab_id, [is_loading |-> state < 3]) EXCEPT !.is_loading = state < 3])

\* Mutant of UrlChanged: the omnibox follows whatever the user does.
UrlChangedAlways(c, url) ==
    Redraw([SetTab(c, c.active_tab_id, [url |-> url]) EXCEPT !.url_buf = url])

\* InitialUrl and UrlChanged
UrlChanged(c, url) ==
    Redraw([SetTab(c, c.active_tab_id, [url |-> url]) EXCEPT !.url_buf = IF c.editing THEN @ ELSE url])

Title(c, title) ==
    Redraw([SetTab(c, c.active_tab_id, [title |-> title]) EXCEPT
                !.window_title = IF title = "" THEN "ExoBrowser" ELSE title])

\* Above the largest id comes 0; a build that checks for overflow would panic.
Above(id) == IF id = TopId THEN 0 ELSE id + 1

\* Mutant of TabCreated: the counter is not raised above the host's id.
TabCreatedKeepsNext(c, id, title, url) ==
    Redraw(IF id \in Ids(c) THEN SetTab(c, id, [url |-> url])
           ELSE [c EXCEPT !.tabs = Append(@, TabInfo(id, title, url, FALSE))])

TabCreated(c, id, title, url) ==
    LET n == [c EXCEPT !.next_tab_id = IF Above(id) > @ THEN Above(id) ELSE @]
        titled == IF title = "" THEN n ELSE SetTab(n, id, [title |-> title])
        given == IF url = <<>> THEN titled ELSE SetTab(titled, id, [url |-> url])
    IN  Redraw(IF id \in Ids(c) THEN given
               ELSE [n EXCEPT !.tabs = Append(@, TabInfo(id, IF title = "" THEN "New Tab" ELSE title,
                                                         url, FALSE))])

\* The omnibox follows the tab even while the user types in it.
TabClosed(c, id) ==
    LET d == Drop(c, id)
    IN  Redraw(IF c.active_tab_id = id /\ d.tabs # <<>> THEN FallBack(d) ELSE d)

\* Mutants of TabActivated: the omnibox, or the stop button, stays as it was.
TabActivatedKeepsUrl(c, id) ==
    LET n == Enter(Leave(c), id)
    IN  Redraw(IF c.active_tab_id = id THEN c
               ELSE IF id \in Ids(c) THEN [n EXCEPT !.is_loading = TabOf(c, id).is_loading] ELSE n)
TabActivatedKeepsStop(c, id) ==
    LET n == Enter(Leave(c), id)
    IN  Redraw(IF c.active_tab_id = id THEN c
               ELSE IF id \in Ids(c) THEN [n EXCEPT !.url_buf = IF c.editing THEN @ ELSE TabOf(c, id).url]
               ELSE n)

\* Nothing but a redraw when the tab is active already, as it is after a
\* switch of the client's own.
TabActivated(c, id) ==
    LET n == Enter(Leave(c), id)
        known == [n EXCEPT !.url_buf = IF c.editing THEN @ ELSE TabOf(c, id).url,
                           !.is_loading = TabOf(c, id).is_loading]
    IN  Redraw(IF c.active_tab_id = id THEN c ELSE IF id \in Ids(c) THEN known ELSE n)

TabTitle(c, id, title) ==
    IF id \in Ids(c) THEN Redraw(SetTab(c, id, [title |-> title])) ELSE c

\* Mutant of TabUrl: nothing is redrawn.
TabUrlUndrawn(c, id, url) == SetTab(c, id, [url |-> url])

TabUrl(c, id, url) ==
    IF id \in Ids(c)
    THEN Redraw([SetTab(c, id, [url |-> url]) EXCEPT
                     !.url_buf = IF id = c.active_tab_id /\ ~c.editing THEN url ELSE @])
    ELSE c

handle_render_event(c, e) ==
    CASE e.ev = "Frame" -> Frame(c, e)
      [] e.ev = "Subframe" -> Subframe(c, e)
      [] e.ev = "TileData" -> TileData(c, e)
      [] e.ev = "TileRef" -> TileRef(c, e)
      [] e.ev = "Audio" -> Audio(c)
      [] e.ev = "LoadState" -> LoadState(c, e.state)
      [] e.ev \in {"InitialUrl", "UrlChanged"} -> UrlChanged(c, e.url)
      [] e.ev = "Title" -> Title(c, e.title)
      [] e.ev = "TabCreated" -> TabCreated(c, e.id, e.title, e.url)
      [] e.ev = "TabClosed" -> TabClosed(c, e.id)
      [] e.ev = "TabActivated" -> TabActivated(c, e.id)
      [] e.ev = "TabTitle" -> TabTitle(c, e.id, e.title)
      [] e.ev = "TabUrl" -> TabUrl(c, e.id, e.url)

----------------------------------------------------------------------------
\* What the user can ask for, with a key or with a click on the chrome

Navigate(c, url) == Redraw(emit_input([c EXCEPT !.url_buf = url, !.editing = FALSE],
                                      [ev |-> "Navigate", url |-> url]))

\* A navigation that also shows in the tab.
Load(c, url) ==
    Navigate([SetTab(c, c.active_tab_id, [url |-> url, is_loading |-> TRUE])
                  EXCEPT !.is_loading = TRUE], url)

submit_omnibox(c) == Load(c, canonicalize_url(c.url_buf))

EditUrl(c) == Redraw([c EXCEPT !.editing = TRUE, !.url_buf = <<>>])

NewTab(c) ==
    LET id == c.next_tab_id
        n == [Leave(c) EXCEPT !.next_tab_id = Above(id),
                              !.tabs = Append(@, TabInfo(id, "New Tab", Home, TRUE)),
                              !.active_tab_id = id, !.url_buf = Home, !.editing = FALSE,
                              !.full_content_dirty = TRUE]
    IN  Redraw(emit_input(n, [ev |-> "CreateTab", tab_id |-> id, url |-> Home]))

SwitchTo(c, id) == emit_input(c, [ev |-> "SwitchTab", tab_id |-> id])

\* The last tab is not closed.
CloseTab(c, id) ==
    LET d == Drop(emit_input(c, [ev |-> "CloseTab", tab_id |-> id]), id)
        f == FallBack(d)
    IN  IF Len(c.tabs) <= 1 THEN c
        ELSE Redraw(IF c.active_tab_id = id THEN SwitchTo(f, f.active_tab_id) ELSE d)

NextTab(c) ==
    LET at == IF Listed(c) THEN Position(c, c.active_tab_id) ELSE 1
        id == c.tabs[(at % Len(c.tabs)) + 1].id
    IN  IF Len(c.tabs) <= 1 THEN c
        ELSE Redraw(SwitchTo(ShowUrl(Enter(Leave(c), id)), id))

ClickTab(c, id) ==
    IF c.active_tab_id = id THEN c
    ELSE Redraw(SwitchTo([ShowUrl(Enter(Leave(c), id)) EXCEPT !.editing = FALSE], id))

Zoom(c, level) ==
    Redraw(emit_input([c EXCEPT !.zoom_milli = level], [ev |-> "SetZoom", level_milli |-> level]))
ZoomIn(c) == Zoom(c, IF c.zoom_milli + 100 > ZoomMax THEN ZoomMax ELSE c.zoom_milli + 100)
ZoomOut(c) == Zoom(c, IF c.zoom_milli - 100 < ZoomMin THEN ZoomMin ELSE c.zoom_milli - 100)

Mute(c) == Redraw([c EXCEPT !.audio_muted = ~@])

NavAction(c, action) == emit_input(c, [ev |-> "NavAction", action |-> action])

ClearData(c) ==
    Redraw(emit_input([c EXCEPT !.toast = ToastFrames], [ev |-> "ClearData"]))

\* The part of the chrome that was hit.  Any button will do, but on the tabs:
\* there the middle one closes, and so does the left one on the cross.
handle_chrome_click(c, part, button) ==
    CASE part.part = "tab" ->
             IF part.i \notin DOMAIN c.tabs THEN c
             ELSE IF Len(c.tabs) > 1 /\ (button = 2 \/ (button = 1 /\ part.cross))
             THEN CloseTab(c, c.tabs[part.i].id)
             ELSE ClickTab(c, c.tabs[part.i].id)
      [] part.part = "new" -> NewTab(c)
      [] part.part = "back" -> NavAction(c, 0)
      [] part.part = "forward" -> NavAction(c, 1)
      [] part.part = "reload" ->
             IF c.is_loading THEN emit_input(c, [ev |-> "Stop"]) ELSE NavAction(c, 2)
      [] part.part = "home" -> Navigate(c, Home)
      [] part.part = "omnibox" -> IF c.editing THEN c ELSE EditUrl(c)
      [] part.part = "mute" -> Mute(c)
      [] part.part = "zoom-" -> ZoomOut(c)
      [] part.part = "zoom0" -> Zoom(c, 1000)
      [] part.part = "zoom+" -> ZoomIn(c)
      [] part.part = "clear" -> ClearData(c)
      [] part.part = "bookmark" -> Load(c, part.url)
      [] OTHER -> c

Control(c, sym) ==
    CASE sym = "l" -> EditUrl(c)
      [] sym = "t" -> NewTab(c)
      [] sym = "w" -> CloseTab(c, c.active_tab_id)
      [] sym = "r" -> NavAction(c, 2)
      [] sym = "m" -> Mute(c)
      [] sym = "+" -> ZoomIn(c)
      [] sym = "-" -> ZoomOut(c)
      [] sym = "0" -> Zoom(c, 1000)
      [] sym = "Tab" -> NextTab(c)

InOmnibox(c, sym) ==
    CASE sym = "Return" -> submit_omnibox(c)
      [] sym = "Escape" -> Redraw(ShowUrl([c EXCEPT !.editing = FALSE]))
      [] sym = "BackSpace" -> Redraw([c EXCEPT !.url_buf = IF @ = <<>> THEN @ ELSE Front(@)])

Named == {"F11", "F5", "Left", "Right", "Tab", "Return", "Escape", "BackSpace", "Control", "Alt"}

\* A key that means nothing to the client is typed into the omnibox or goes to
\* the page; a release only goes to the page.
on_key(c, sym, pressed) ==
    CASE pressed /\ sym = "F11" -> c
      [] pressed /\ sym = "F5" -> NavAction(c, 2)
      [] pressed /\ "alt" \in c.mods /\ sym = "Left" -> NavAction(c, 0)
      [] pressed /\ "alt" \in c.mods /\ sym = "Right" -> NavAction(c, 1)
      [] pressed /\ "ctrl" \in c.mods /\ sym \in {"l", "t", "w", "r", "m", "+", "-", "0", "Tab"} ->
             Control(c, sym)
      [] pressed /\ c.editing /\ sym \in {"Return", "Escape", "BackSpace"} -> InOmnibox(c, sym)
      [] OTHER ->
             IF ~c.editing
             THEN emit_input(c, [ev |-> "Key", keysym |-> sym, mods |-> c.mods, pressed |-> pressed])
             ELSE IF pressed /\ c.mods \cap {"ctrl", "alt"} = {} /\ sym \notin Named
             THEN Redraw([c EXCEPT !.url_buf = Append(@, sym)])
             ELSE c

----------------------------------------------------------------------------
\* The pointer and the window

\* size is what the window covers once it has been brought up to the smallest.
on_resize(c, size) ==
    IF c.win_size = size THEN c
    ELSE emit_input([c EXCEPT !.win_size = size, !.chrome_dirty = TRUE, !.full_content_dirty = TRUE],
                    [ev |-> "Resize", size |-> size])

on_pointer_move(c, place) ==
    LET n == [c EXCEPT !.cursor = place]
    IN  IF place = "content" THEN emit_input(n, [ev |-> "Motion", mods |-> c.mods]) ELSE n

on_scroll(c) == IF c.cursor = "content" THEN emit_input(c, [ev |-> "Scroll"]) ELSE c

Bits == <<"button 1", "button 2", "button 3">>

\* A press on the content ends the editing; on the chrome only presses count.
on_mouse_button(c, part, button, pressed) ==
    LET bit == {Bits[button]}
        n == [c EXCEPT !.mods = IF pressed THEN @ \cup bit ELSE @ \ bit]
        away == IF pressed /\ c.editing THEN Redraw([n EXCEPT !.editing = FALSE]) ELSE n
    IN  IF part.part = "content"
        THEN emit_input(away, [ev |-> "Button", button |-> button, pressed |-> pressed,
                               mods |-> n.mods])
        ELSE IF pressed THEN handle_chrome_click(n, part, button) ELSE n

\* The mask of an X event says which modifiers are held, not which buttons.
update_x11_mods(c, state) == [c EXCEPT !.mods = (@ \cap Range(Bits)) \cup state]

update_keysym_modifier(c, sym, pressed) ==
    LET bit == CASE sym = "Control" -> {"ctrl"} [] sym = "Alt" -> {"alt"} [] OTHER -> {}
    IN  [c EXCEPT !.mods = IF pressed THEN @ \cup bit ELSE @ \ bit]

----------------------------------------------------------------------------
\* Drawing

\* What the chrome shows.
draw_chrome(c) ==
    [tabs |-> [i \in DOMAIN c.tabs |->
                  [title |-> c.tabs[i].title, active |-> c.tabs[i].id = c.active_tab_id,
                   dot |-> IF c.tabs[i].is_loading THEN "amber"
                           ELSE IF is_secure(c.tabs[i].url) THEN "green" ELSE "grey"]],
     stop |-> c.is_loading, url |-> c.url_buf, caret |-> c.editing,
     audio |-> IF c.audio_muted THEN "muted" ELSE IF c.audio_playing > 0 THEN "playing" ELSE "off",
     zoom |-> c.zoom_milli, width |-> c.win_size]

\* The content of a frame, a buffer or nothing, padded to the window.
Whole(c, fb, f) == [p \in DOMAIN fb |-> IF p \notin c.win_size THEN fb[p]
                                        ELSE IF p \in f.cells THEN f.val ELSE Blank]
Nothing == [cells |-> {}, val |-> Blank]

\* Mutant of Repaint: what is in the framebuffer is left there.
RepaintKeeps(c, fb) == fb

\* A full repaint without a frame.
Repaint(c, fb) == Whole(c, fb, IF c.active_buf = NoBuffer THEN Nothing ELSE c.active_buf)

Covered(q) == UNION {q[i].cells : i \in DOMAIN q}

\* The items of a queue are drawn in turn: the last one over a cell stays.
IsLastOver(q, p, i) == p \in q[i].cells /\ \A j \in DOMAIN q : j > i => p \notin q[j].cells
LastOver(q, p) == q[CHOOSE i \in DOMAIN q : IsLastOver(q, p, i)]

\* Mutant of Damage: tiles are drawn and not reported.
DamageNoTiles(c) ==
    IF c.pending_frames # <<>> \/ c.full_content_dirty THEN c.win_size
    ELSE c.win_size \cap (Covered(c.pending_subframes) \cup IF c.toast > 0 THEN {ToastCell} ELSE {})

\* The rectangles render_into reports: the cells that changed.
Damage(c) ==
    IF c.pending_frames # <<>> \/ c.full_content_dirty THEN c.win_size
    ELSE c.win_size \cap (Covered(c.pending_subframes) \cup Covered(c.pending_tiles)
                              \cup IF c.toast > 0 THEN {ToastCell} ELSE {})

\* render_into: the state after it, the framebuffer, the chrome drawn (or
\* nothing) and the damage.  The dot of GBROWSER_SYNTH_CURSOR, an aid to
\* debugging that is drawn without damage, is left out.
render_into(c, fb) ==
    LET aged == IF c.audio_playing > 0
                THEN [c EXCEPT !.audio_playing = @ - 1, !.chrome_dirty = @ \/ c.audio_playing = 1]
                ELSE c
        base == IF c.pending_frames # <<>> THEN Whole(c, fb, c.pending_frames[Len(c.pending_frames)])
                ELSE IF c.full_content_dirty THEN Repaint(c, fb) ELSE fb
        tiles == c.win_size \cap Covered(c.pending_tiles)
        subs == c.win_size \cap Covered(c.pending_subframes)
        toast == IF c.toast > 0 THEN c.win_size \cap {ToastCell} ELSE {}
    IN  [core |-> [aged EXCEPT !.chrome_dirty = FALSE, !.full_content_dirty = c.toast = 1,
                               !.pending_frames = <<>>, !.pending_subframes = <<>>,
                               !.pending_tiles = <<>>, !.toast = IF @ > 0 THEN @ - 1 ELSE 0,
                               !.out = <<>>],
         fb |-> [p \in DOMAIN fb |-> IF p \in toast THEN "toast"
                                     ELSE IF p \in tiles THEN c.tile_cache[LastOver(c.pending_tiles, p).hash]
                                     ELSE IF p \in subs THEN LastOver(c.pending_subframes, p).val
                                     ELSE base[p]],
         chrome |-> IF aged.chrome_dirty THEN <<draw_chrome(aged)>> ELSE <<>>,
         damage |-> Damage(c)]

=============================================================================
