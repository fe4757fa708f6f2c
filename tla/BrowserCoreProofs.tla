------------------------- MODULE BrowserCoreProofs -------------------------
(***************************************************************************)
(* What the handlers of BrowserCore keep, from any state: facts about the  *)
(* operators they are built of, and one lemma per handler.                 *)
(***************************************************************************)
EXTENDS BrowserCore, TLAPS

CoreFields ==
    {"win_size", "out", "tabs", "active_tab_id", "next_tab_id", "active_buf", "tab_composites",
     "tile_cache", "cursor", "mods", "window_title", "url_buf", "editing", "is_loading",
     "zoom_milli", "toast", "chrome_dirty", "full_content_dirty", "pending_frames",
     "pending_subframes", "pending_tiles", "audio_muted", "audio_playing", "frames_seen"}

IsCore(c) == DOMAIN c = CoreFields

\* d is a state that differs from c in these fields at most.
Same(c, d, fields) == IsCore(d) /\ \A f \in CoreFields \ fields : d[f] = c[f]

IsSeq(s) == s \in Seq({s[i] : i \in DOMAIN s})

TabFields == {"id", "title", "url", "is_loading"}

IdsFresh(c) ==
    /\ \A i, j \in DOMAIN c.tabs : c.tabs[i].id = c.tabs[j].id => i = j
    /\ \A i \in DOMAIN c.tabs : c.tabs[i].id < c.next_tab_id \/ c.tabs[i].id = TopId

TabsOK(c) ==
    /\ IsSeq(c.tabs)
    /\ c.next_tab_id \in Nat
    /\ \A i \in DOMAIN c.tabs : DOMAIN c.tabs[i] = TabFields /\ c.tabs[i].id \in Nat
    /\ IdsFresh(c)

\* No tab has a buffer: the ones there are fields for are never filled.
NoBuffers(c) == c.active_buf = NoBuffer /\ DOMAIN c.tab_composites = {}

Flags(c) ==
    /\ {c.chrome_dirty, c.full_content_dirty, c.editing} \subseteq BOOLEAN
    /\ {c.toast, c.audio_playing, c.frames_seen} \subseteq Nat

CoreOK(c) == IsCore(c) /\ TabsOK(c) /\ NoBuffers(c) /\ Flags(c)

----------------------------------------------------------------------------
(* Sequences *)

LEMMA SeqIsSeq == ASSUME NEW S, NEW s \in Seq(S) PROVE IsSeq(s)
BY DEF IsSeq

LEMMA IsSeqDomain == ASSUME NEW s, IsSeq(s) PROVE Len(s) \in Nat /\ DOMAIN s = 1..Len(s)
BY DEF IsSeq

LEMMA AppendIsSeq ==
  ASSUME NEW s, IsSeq(s), NEW e
  PROVE  /\ IsSeq(Append(s, e))
         /\ Len(Append(s, e)) = Len(s) + 1
         /\ Append(s, e)[Len(s) + 1] = e
         /\ \A i \in 1..Len(s) : Append(s, e)[i] = s[i]
<1> DEFINE S == {s[i] : i \in DOMAIN s} \cup {e}
<1>1. s \in Seq(S)
  BY DEF IsSeq
<1>2. Append(s, e) \in Seq(S)
  BY <1>1
<1>3. IsSeq(Append(s, e))
  BY <1>2, SeqIsSeq
<1> QED
  BY <1>1, <1>3

LEMMA MapIsSeq ==
  ASSUME NEW s, IsSeq(s), NEW t, t = [i \in DOMAIN s |-> t[i]]
  PROVE  IsSeq(t) /\ Len(t) = Len(s) /\ DOMAIN t = DOMAIN s
<1>1. DOMAIN s = 1..Len(s) /\ Len(s) \in Nat
  BY IsSeqDomain
<1>2. t = [i \in 1..Len(s) |-> t[i]]
  BY <1>1
<1>3. t \in Seq({t[i] : i \in 1..Len(s)})
  BY <1>1, <1>2
<1> QED
  BY <1>1, <1>2, <1>3 DEF IsSeq

LEMMA LenConcat == ASSUME NEW S, NEW s \in Seq(S), NEW t \in Seq(S) PROVE Len(s \o t) = Len(s) + Len(t)
OBVIOUS

LEMMA RemoveAtIsSeq ==
  ASSUME NEW s, IsSeq(s), NEW k \in 1..Len(s)
  PROVE  /\ IsSeq(RemoveAt(s, k))
         /\ Len(RemoveAt(s, k)) = Len(s) - 1
         /\ \A i \in 1..(Len(s) - 1) : RemoveAt(s, k)[i] = IF i < k THEN s[i] ELSE s[i + 1]
<1> DEFINE S == {s[i] : i \in DOMAIN s}
           a == SubSeq(s, 1, k - 1)
           b == SubSeq(s, k + 1, Len(s))
<1>1. s \in Seq(S) /\ Len(s) \in Nat
  BY DEF IsSeq
<1> HIDE DEF S
<1>2. a \in Seq(S) /\ Len(a) = k - 1 /\ \A i \in 1..(k - 1) : a[i] = s[i]
  BY <1>1
<1>3. b \in Seq(S) /\ Len(b) = Len(s) - k /\ \A i \in 1..(Len(s) - k) : b[i] = s[i + k]
  BY <1>1
<1>4. RemoveAt(s, k) = a \o b
  BY DEF RemoveAt
<1> HIDE DEF a, b
<1>5. a \o b \in Seq(S)
  BY <1>2, <1>3
<1>6. Len(a \o b) = Len(s) - 1
  <2>1. a \in Seq(S) /\ b \in Seq(S)
    BY <1>2, <1>3
  <2>2. Len(a \o b) = Len(a) + Len(b)
    BY <2>1, LenConcat
  <2> QED
    BY <2>2, <1>1, <1>2, <1>3
<1>7. ASSUME NEW i \in 1..(Len(s) - 1)
      PROVE  (a \o b)[i] = IF i < k THEN s[i] ELSE s[i + 1]
  <2>1. i \in Nat /\ k \in Nat
    BY <1>1
  <2>2. CASE i < k
    BY <1>1, <1>2, <1>3, <2>2
  <2>3. CASE ~(i < k)
    <3>1. (a \o b)[i] = b[i - (k - 1)]
      BY <1>1, <1>2, <1>3, <2>3
    <3>2. i - (k - 1) \in 1..(Len(s) - k)
      BY <1>1, <2>1, <2>3
    <3>3. b[i - (k - 1)] = s[i + 1]
      BY <3>2, <1>3, <2>1
    <3> QED
      BY <3>1, <3>3, <2>3
  <2> QED
    BY <2>2, <2>3
<1>8. IsSeq(a \o b)
  BY <1>5, SeqIsSeq
<1> QED
  BY <1>4, <1>6, <1>7, <1>8

----------------------------------------------------------------------------
(* Tabs and their ids *)

LEMMA TabOfIs ==
  ASSUME NEW c, TabsOK(c), NEW i \in DOMAIN c.tabs
  PROVE  /\ Position(c, c.tabs[i].id) = i
         /\ TabOf(c, c.tabs[i].id) = c.tabs[i]
         /\ c.tabs[i].id \in Ids(c)
BY DEF TabsOK, IdsFresh, Position, TabOf, Ids

LEMMA PositionIs ==
  ASSUME NEW c, TabsOK(c), NEW id \in Ids(c)
  PROVE  /\ Position(c, id) \in DOMAIN c.tabs
         /\ c.tabs[Position(c, id)].id = id
         /\ TabOf(c, id) = c.tabs[Position(c, id)]
         /\ id \in Nat /\ (id < c.next_tab_id \/ id = TopId)
<1>1. PICK i \in DOMAIN c.tabs : c.tabs[i].id = id
  BY DEF Ids
<1> QED
  BY <1>1, TabOfIs DEF TabsOK, IdsFresh, TabOf

(* Two states with the same tabs. *)
LEMMA SameTabs ==
  ASSUME NEW c, NEW d, d.tabs = c.tabs
  PROVE  /\ Ids(d) = Ids(c)
         /\ \A id : Position(d, id) = Position(c, id) /\ TabOf(d, id) = TabOf(c, id)
         /\ TabsOK(c) /\ d.next_tab_id = c.next_tab_id => TabsOK(d)
BY DEF Ids, Position, TabOf, TabsOK, IdsFresh

----------------------------------------------------------------------------
(* The parts the handlers are built of: what each changes. *)

LEMMA RedrawIs ==
  ASSUME NEW c, IsCore(c)
  PROVE  Same(c, Redraw(c), {"chrome_dirty"}) /\ Redraw(c).chrome_dirty = TRUE
<1>1. IsCore(Redraw(c))
  BY DEF IsCore, Redraw
<1>2. \A f \in CoreFields \ {"chrome_dirty"} : Redraw(c)[f] = c[f]
  BY DEF IsCore, Redraw
<1>3. Redraw(c).chrome_dirty = TRUE
  BY DEF IsCore, Redraw, CoreFields
<1> QED
  BY <1>1, <1>2, <1>3 DEF Same

LEMMA EmitIs ==
  ASSUME NEW c, IsCore(c), NEW e
  PROVE  Same(c, emit_input(c, e), {"out"}) /\ emit_input(c, e).out = Append(c.out, e)
<1>1. IsCore(emit_input(c, e))
  BY DEF IsCore, emit_input
<1>2. \A f \in CoreFields \ {"out"} : emit_input(c, e)[f] = c[f]
  BY DEF IsCore, emit_input
<1>3. emit_input(c, e).out = Append(c.out, e)
  BY DEF IsCore, emit_input, CoreFields
<1> QED
  BY <1>1, <1>2, <1>3 DEF Same

LEMMA SetTabIs ==
  ASSUME NEW c, IsCore(c), NEW id, NEW fields
  PROVE  /\ Same(c, SetTab(c, id, fields), {"tabs"})
         /\ SetTab(c, id, fields).tabs =
                [i \in DOMAIN c.tabs |-> IF c.tabs[i].id = id THEN With(c.tabs[i], fields) ELSE c.tabs[i]]
<1>1. IsCore(SetTab(c, id, fields))
  BY DEF IsCore, SetTab
<1>2. \A f \in CoreFields \ {"tabs"} : SetTab(c, id, fields)[f] = c[f]
  BY DEF IsCore, SetTab
<1>3. SetTab(c, id, fields).tabs =
         [i \in DOMAIN c.tabs |-> IF c.tabs[i].id = id THEN With(c.tabs[i], fields) ELSE c.tabs[i]]
  BY DEF IsCore, SetTab, CoreFields
<1> QED
  BY <1>1, <1>2, <1>3 DEF Same

LEMMA DropIs ==
  ASSUME NEW c, IsCore(c), NEW id
  PROVE  /\ Same(c, Drop(c, id), {"tabs", "tab_composites"})
         /\ Drop(c, id).tabs = IF id \in Ids(c) THEN RemoveAt(c.tabs, Position(c, id)) ELSE c.tabs
         /\ DOMAIN Drop(c, id).tab_composites = DOMAIN c.tab_composites \ {id}
<1>1. IsCore(Drop(c, id))
  BY DEF IsCore, Drop
<1>2. \A f \in CoreFields \ {"tabs", "tab_composites"} : Drop(c, id)[f] = c[f]
  BY DEF IsCore, Drop
<1>3. Drop(c, id).tabs = IF id \in Ids(c) THEN RemoveAt(c.tabs, Position(c, id)) ELSE c.tabs
  BY DEF IsCore, Drop, CoreFields
<1>4. DOMAIN Drop(c, id).tab_composites = DOMAIN c.tab_composites \ {id}
  BY DEF IsCore, Drop, CoreFields, Restrict
<1> QED
  BY <1>1, <1>2, <1>3, <1>4 DEF Same

LEMMA LeaveIs ==
  ASSUME NEW c, IsCore(c), NoBuffers(c)
  PROVE  Same(c, Leave(c), {})
<1>1. IsCore(Leave(c))
  BY DEF IsCore, Leave
<1>2. \A f \in CoreFields \ {"tab_composites", "active_buf"} : Leave(c)[f] = c[f]
  BY DEF IsCore, Leave
<1>3. Leave(c).tab_composites = c.tab_composites
  BY DEF IsCore, Leave, CoreFields, NoBuffers
<1>4. Leave(c).active_buf = c.active_buf
  BY DEF IsCore, Leave, CoreFields, NoBuffers
<1> QED
  BY <1>1, <1>2, <1>3, <1>4 DEF Same

LEMMA EnterIs ==
  ASSUME NEW c, IsCore(c), NoBuffers(c), NEW id
  PROVE  /\ Same(c, Enter(c, id), {"active_tab_id", "tab_composites", "full_content_dirty"})
         /\ Enter(c, id).active_tab_id = id
         /\ Enter(c, id).full_content_dirty = TRUE
         /\ DOMAIN Enter(c, id).tab_composites = {}
<1>1. IsCore(Enter(c, id))
  BY DEF IsCore, Enter
<1>2. \A f \in CoreFields \ {"active_tab_id", "active_buf", "tab_composites", "full_content_dirty"} :
         Enter(c, id)[f] = c[f]
  BY DEF IsCore, Enter
<1>3. Enter(c, id).active_tab_id = id
  BY DEF IsCore, Enter, CoreFields
<1>4. Enter(c, id).full_content_dirty = TRUE
  BY DEF IsCore, Enter, CoreFields
<1>5. DOMAIN Enter(c, id).tab_composites = {}
  BY DEF IsCore, Enter, CoreFields, Restrict, NoBuffers
<1>6. Enter(c, id).active_buf = c.active_buf
  BY DEF IsCore, Enter, CoreFields, NoBuffers
<1> QED
  BY <1>1, <1>2, <1>3, <1>4, <1>5, <1>6 DEF Same

LEMMA ShowUrlIs ==
  ASSUME NEW c, IsCore(c)
  PROVE  /\ Same(c, ShowUrl(c), {"url_buf"})
         /\ ShowUrl(c).url_buf = IF Listed(c) THEN TabOf(c, c.active_tab_id).url ELSE c.url_buf
<1>1. IsCore(ShowUrl(c))
  BY DEF IsCore, ShowUrl
<1>2. \A f \in CoreFields \ {"url_buf"} : ShowUrl(c)[f] = c[f]
  BY DEF IsCore, ShowUrl
<1>3. ShowUrl(c).url_buf = IF Listed(c) THEN TabOf(c, c.active_tab_id).url ELSE c.url_buf
  BY DEF IsCore, ShowUrl, CoreFields
<1> QED
  BY <1>1, <1>2, <1>3 DEF Same

----------------------------------------------------------------------------
(* A step that leaves alone what is to be drawn, and the state well formed *)

\* The fields of the strip, the omnibox and the buttons, and the request sent.
StripFields ==
    {"out", "tabs", "active_tab_id", "next_tab_id", "tab_composites", "cursor", "mods",
     "window_title", "url_buf", "editing", "is_loading", "zoom_milli", "toast", "chrome_dirty",
     "full_content_dirty", "audio_muted"}

\* What is to be drawn anew still is, and so is the toast.
Raised(c, d) ==
    /\ c.full_content_dirty => d.full_content_dirty
    /\ c.toast > 0 => d.toast > 0

Moves(c, d) == CoreOK(d) /\ Same(c, d, StripFields) /\ Raised(c, d)

\* What draw_chrome reads.
ChromeFields ==
    {"tabs", "active_tab_id", "is_loading", "url_buf", "editing", "audio_muted", "audio_playing",
     "zoom_milli", "win_size"}

\* The chrome is drawn again, or is as it was.
Redrawn(c, d) == d.chrome_dirty \/ \A f \in ChromeFields \cup {"chrome_dirty"} : d[f] = c[f]

Handles(c, d) == Moves(c, d) /\ Redrawn(c, d)

LEMMA MovesTrans ==
  ASSUME NEW c, NEW d, NEW e, Moves(c, d), Moves(d, e)
  PROVE  Moves(c, e)
BY DEF Moves, Same, Raised

(* A step that changes none of the tabs. *)
LEMMA MovesPlain ==
  ASSUME NEW c, CoreOK(c), NEW d,
         Same(c, d, StripFields \ {"tabs", "next_tab_id", "tab_composites"}), Flags(d), Raised(c, d)
  PROVE  Moves(c, d)
<1>1. IsCore(d)
  BY DEF Same
<1>2. d.tabs = c.tabs /\ d.next_tab_id = c.next_tab_id
  BY DEF Same, CoreFields
<1>3. d.tab_composites = c.tab_composites /\ d.active_buf = c.active_buf
  BY DEF Same, CoreFields, StripFields
<1>4. TabsOK(d)
  BY <1>2, SameTabs DEF CoreOK
<1>5. NoBuffers(d)
  BY <1>3 DEF CoreOK, NoBuffers
<1>6. Same(c, d, StripFields)
  BY DEF Same
<1> QED
  BY <1>1, <1>4, <1>5, <1>6 DEF CoreOK, Moves

LEMMA MovesRefl == ASSUME NEW c, CoreOK(c) PROVE Handles(c, c)
<1>1. Same(c, c, {})
  BY DEF Same, CoreOK
<1>2. Same(c, c, StripFields \ {"tabs", "next_tab_id", "tab_composites"})
  BY <1>1 DEF Same
<1>3. Moves(c, c)
  BY <1>2, MovesPlain DEF CoreOK, Raised
<1> QED
  BY <1>3 DEF Handles, Redrawn

LEMMA RedrawHandles ==
  ASSUME NEW c, NEW d, Moves(c, d)
  PROVE  Handles(c, Redraw(d))
<1>1. CoreOK(d)
  BY DEF Moves
<1>2. Same(d, Redraw(d), {"chrome_dirty"}) /\ Redraw(d).chrome_dirty = TRUE
  BY <1>1, RedrawIs DEF CoreOK
<1>3. Flags(Redraw(d))
  BY <1>1, <1>2 DEF CoreOK, Flags, Same, CoreFields
<1>4. Same(d, Redraw(d), StripFields \ {"tabs", "next_tab_id", "tab_composites"})
  BY <1>2 DEF Same, StripFields
<1>5. Raised(d, Redraw(d))
  BY <1>2 DEF Same, CoreFields, Raised
<1>6. Moves(d, Redraw(d))
  BY <1>1, <1>3, <1>4, <1>5, MovesPlain
<1> QED
  BY <1>2, <1>6, MovesTrans DEF Handles, Redrawn

LEMMA EmitHandles ==
  ASSUME NEW c, CoreOK(c), NEW e
  PROVE  Handles(c, emit_input(c, e))
<1> DEFINE d == emit_input(c, e)
<1>1. Same(c, d, {"out"})
  BY EmitIs DEF CoreOK
<1> HIDE DEF d
<1>2. Flags(d) /\ Raised(c, d)
  BY <1>1 DEF CoreOK, Flags, Same, CoreFields, Raised
<1>3. Same(c, d, StripFields \ {"tabs", "next_tab_id", "tab_composites"})
  BY <1>1 DEF Same, StripFields
<1>4. Moves(c, d)
  BY <1>2, <1>3, MovesPlain
<1>5. \A f \in ChromeFields \cup {"chrome_dirty"} : d[f] = c[f]
  BY <1>1 DEF Same, ChromeFields, CoreFields
<1> QED
  BY <1>4, <1>5 DEF Handles, Redrawn, d

LEMMA SetTabMoves ==
  ASSUME NEW c, CoreOK(c), NEW id, NEW fields, "id" \notin DOMAIN fields
  PROVE  /\ Moves(c, SetTab(c, id, fields))
         /\ Ids(SetTab(c, id, fields)) = Ids(c)
         /\ DOMAIN SetTab(c, id, fields).tabs = DOMAIN c.tabs
         /\ \A i \in DOMAIN c.tabs : SetTab(c, id, fields).tabs[i].id = c.tabs[i].id
<1> DEFINE d == SetTab(c, id, fields)
<1>1. Same(c, d, {"tabs"})
  BY SetTabIs DEF CoreOK
<1>2. d.tabs = [i \in DOMAIN c.tabs |-> IF c.tabs[i].id = id THEN With(c.tabs[i], fields) ELSE c.tabs[i]]
  BY SetTabIs DEF CoreOK
<1> HIDE DEF d
<1>3. \A i \in DOMAIN c.tabs : DOMAIN d.tabs[i] = TabFields /\ d.tabs[i].id = c.tabs[i].id
  BY <1>2 DEF CoreOK, TabsOK, With, TabFields
<1>4. IsSeq(d.tabs) /\ DOMAIN d.tabs = DOMAIN c.tabs
  BY <1>2, MapIsSeq DEF CoreOK, TabsOK
<1>5. d.next_tab_id = c.next_tab_id /\ Raised(c, d)
  BY <1>1 DEF Same, CoreFields, Raised
<1>6. TabsOK(d)
  BY <1>3, <1>4, <1>5 DEF CoreOK, TabsOK, IdsFresh
<1>7. NoBuffers(d) /\ Flags(d)
  BY <1>1 DEF CoreOK, NoBuffers, Flags, Same, CoreFields
<1>8. Same(c, d, StripFields)
  BY <1>1 DEF Same, StripFields
<1>9. Moves(c, d)
  BY <1>5, <1>6, <1>7, <1>8 DEF Moves, CoreOK, Same
<1>10. Ids(d) = Ids(c)
  BY <1>3, <1>4 DEF Ids
<1> QED
  BY <1>3, <1>4, <1>9, <1>10 DEF d

(* The other tabs stay. *)
LEMMA DropMoves ==
  ASSUME NEW c, CoreOK(c), NEW id
  PROVE  LET d == Drop(c, id)
         IN  /\ Moves(c, d)
             /\ Ids(d) = Ids(c) \ {id}
             /\ \A x \in Ids(d) : TabOf(d, x) = TabOf(c, x)
             /\ Len(d.tabs) = IF id \in Ids(c) THEN Len(c.tabs) - 1 ELSE Len(c.tabs)
             /\ d.url_buf = c.url_buf /\ d.editing = c.editing /\ d.is_loading = c.is_loading
             /\ d.active_tab_id = c.active_tab_id /\ d.out = c.out
             /\ d.full_content_dirty = c.full_content_dirty
<1> DEFINE d == Drop(c, id)
           k == Position(c, id)
<1>1. Same(c, d, {"tabs", "tab_composites"})
  BY DropIs DEF CoreOK
<1>2. d.tabs = IF id \in Ids(c) THEN RemoveAt(c.tabs, k) ELSE c.tabs
  BY DropIs DEF CoreOK
<1>3. DOMAIN d.tab_composites = {}
  BY DropIs DEF CoreOK, NoBuffers
<1> HIDE DEF d, k
<1>4. d.next_tab_id = c.next_tab_id
  BY <1>1 DEF Same, CoreFields
<1>5. TabsOK(c) /\ IsSeq(c.tabs) /\ DOMAIN c.tabs = 1..Len(c.tabs) /\ Len(c.tabs) \in Nat
  BY IsSeqDomain DEF CoreOK, TabsOK
<1>6. /\ TabsOK(d)
      /\ Ids(d) = Ids(c) \ {id}
      /\ Len(d.tabs) = IF id \in Ids(c) THEN Len(c.tabs) - 1 ELSE Len(c.tabs)
      /\ \A j \in DOMAIN d.tabs : \E i \in DOMAIN c.tabs : d.tabs[j] = c.tabs[i]
  <2>1. CASE id \notin Ids(c)
    <3>1. d.tabs = c.tabs
      BY <1>2, <2>1
    <3> QED
      BY <3>1, <1>4, <1>5, <2>1, SameTabs
  <2>2. CASE id \in Ids(c)
    <3>1. k \in 1..Len(c.tabs) /\ c.tabs[k].id = id
      BY <1>5, <2>2, PositionIs DEF k
    <3>2. /\ IsSeq(d.tabs) /\ Len(d.tabs) = Len(c.tabs) - 1
          /\ \A i \in 1..(Len(c.tabs) - 1) : d.tabs[i] = IF i < k THEN c.tabs[i] ELSE c.tabs[i + 1]
      BY <1>2, <1>5, <2>2, <3>1, RemoveAtIsSeq
    <3>3. DOMAIN d.tabs = 1..(Len(c.tabs) - 1)
      BY <3>2, IsSeqDomain
    <3> DEFINE At(i) == IF i < k THEN i ELSE i + 1
    <3>4. \A i \in DOMAIN d.tabs : At(i) \in DOMAIN c.tabs /\ At(i) # k /\ d.tabs[i] = c.tabs[At(i)]
      BY <1>5, <3>1, <3>2, <3>3
    <3>5. \A i, j \in DOMAIN d.tabs : At(i) = At(j) => i = j
      BY <1>5, <3>1, <3>3
    <3>6. \A i \in DOMAIN c.tabs \ {k} : \E j \in DOMAIN d.tabs : i = At(j)
      <4> TAKE i \in DOMAIN c.tabs \ {k}
      <4>1. CASE i < k
        <5>1. i \in DOMAIN d.tabs /\ At(i) = i
          BY <4>1, <1>5, <3>1, <3>3
        <5> QED
          BY <5>1
      <4>2. CASE ~(i < k)
        <5>1. i - 1 \in DOMAIN d.tabs /\ At(i - 1) = i
          BY <4>2, <1>5, <3>1, <3>3
        <5> QED
          BY <5>1
      <4> QED
        BY <4>1, <4>2
    <3> HIDE DEF At
    <3>7. TabsOK(d)
      BY <1>4, <1>5, <3>2, <3>4, <3>5 DEF TabsOK, IdsFresh
    <3>8. Ids(d) \subseteq Ids(c) \ {id}
      BY <1>5, <3>1, <3>4 DEF Ids, TabsOK, IdsFresh
    <3>9. Ids(c) \ {id} \subseteq Ids(d)
      BY <3>1, <3>4, <3>6 DEF Ids
    <3> QED
      BY <2>2, <3>2, <3>4, <3>7, <3>8, <3>9
  <2> QED
    BY <2>1, <2>2
<1>7. \A x \in Ids(d) : TabOf(d, x) = TabOf(c, x)
  <2> TAKE x \in Ids(d)
  <2>1. /\ Position(d, x) \in DOMAIN d.tabs /\ d.tabs[Position(d, x)].id = x
        /\ TabOf(d, x) = d.tabs[Position(d, x)]
    BY <1>6, PositionIs
  <2>2. PICK i \in DOMAIN c.tabs : d.tabs[Position(d, x)] = c.tabs[i]
    BY <1>6, <2>1
  <2>3. TabOf(c, c.tabs[i].id) = c.tabs[i]
    BY <1>5, TabOfIs
  <2> QED
    BY <2>1, <2>2, <2>3
<1>8. NoBuffers(d) /\ Flags(d)
  BY <1>1, <1>3 DEF CoreOK, NoBuffers, Flags, Same, CoreFields
<1>9. Same(c, d, StripFields)
  BY <1>1 DEF Same, StripFields
<1>10. /\ d.url_buf = c.url_buf /\ d.editing = c.editing /\ d.is_loading = c.is_loading
       /\ d.active_tab_id = c.active_tab_id /\ d.out = c.out
       /\ d.full_content_dirty = c.full_content_dirty /\ Raised(c, d)
  BY <1>1 DEF Same, CoreFields, Raised
<1>11. Moves(c, d)
  BY <1>6, <1>8, <1>9, <1>10 DEF Moves, CoreOK, Same
<1> QED
  BY <1>6, <1>7, <1>10, <1>11 DEF d

LEMMA LeaveMoves == ASSUME NEW c, CoreOK(c) PROVE Moves(c, Leave(c)) /\ Same(c, Leave(c), {})
<1> DEFINE d == Leave(c)
<1>1. Same(c, d, {})
  BY LeaveIs DEF CoreOK
<1> HIDE DEF d
<1>2. Flags(d) /\ Raised(c, d)
  BY <1>1 DEF CoreOK, Flags, Same, CoreFields, Raised
<1>3. Same(c, d, StripFields \ {"tabs", "next_tab_id", "tab_composites"})
  BY <1>1 DEF Same
<1> QED
  BY <1>1, <1>2, <1>3, MovesPlain DEF d

LEMMA EnterMoves ==
  ASSUME NEW c, CoreOK(c), NEW id
  PROVE  /\ Moves(c, Enter(c, id))
         /\ Same(c, Enter(c, id), {"active_tab_id", "tab_composites", "full_content_dirty"})
         /\ Enter(c, id).active_tab_id = id
         /\ Enter(c, id).full_content_dirty = TRUE
<1> DEFINE d == Enter(c, id)
<1>1. /\ Same(c, d, {"active_tab_id", "tab_composites", "full_content_dirty"})
      /\ d.active_tab_id = id /\ d.full_content_dirty = TRUE /\ DOMAIN d.tab_composites = {}
  BY EnterIs DEF CoreOK
<1> HIDE DEF d
<1>2. d.tabs = c.tabs /\ d.next_tab_id = c.next_tab_id /\ d.active_buf = c.active_buf
  BY <1>1 DEF Same, CoreFields
<1>3. TabsOK(d)
  BY <1>2, SameTabs DEF CoreOK
<1>4. NoBuffers(d) /\ Flags(d)
  BY <1>1, <1>2 DEF CoreOK, NoBuffers, Flags, Same, CoreFields
<1>5. Same(c, d, StripFields)
  BY <1>1 DEF Same, StripFields
<1>6. Raised(c, d)
  BY <1>1 DEF Same, CoreFields, Raised
<1>7. Moves(c, d)
  BY <1>1, <1>3, <1>4, <1>5, <1>6 DEF Moves, CoreOK, Same
<1> QED
  BY <1>1, <1>7 DEF d

LEMMA ShowUrlMoves ==
  ASSUME NEW c, CoreOK(c)
  PROVE  /\ Moves(c, ShowUrl(c))
         /\ Same(c, ShowUrl(c), {"url_buf"})
         /\ ShowUrl(c).url_buf = IF Listed(c) THEN TabOf(c, c.active_tab_id).url ELSE c.url_buf
<1> DEFINE d == ShowUrl(c)
<1>1. /\ Same(c, d, {"url_buf"})
      /\ d.url_buf = IF Listed(c) THEN TabOf(c, c.active_tab_id).url ELSE c.url_buf
  BY ShowUrlIs DEF CoreOK
<1> HIDE DEF d
<1>2. Flags(d) /\ Raised(c, d)
  BY <1>1 DEF CoreOK, Flags, Same, CoreFields, Raised
<1>3. Same(c, d, StripFields \ {"tabs", "next_tab_id", "tab_composites"})
  BY <1>1 DEF Same, StripFields
<1> QED
  BY <1>1, <1>2, <1>3, MovesPlain DEF d

(* A tab with an id that is not given again: it is below the counter, or the   *)
(* largest there is.                                                            *)
LEMMA TabAdded ==
  ASSUME NEW c, TabsOK(c), NEW id \in Nat, id \notin Ids(c),
         NEW t, DOMAIN t = TabFields, t.id = id,
         NEW d, d.tabs = Append(c.tabs, t),
         d.next_tab_id \in Nat, d.next_tab_id >= c.next_tab_id,
         id < d.next_tab_id \/ id = TopId
  PROVE  /\ TabsOK(d)
         /\ Ids(d) = Ids(c) \cup {id}
         /\ TabOf(d, id) = t
         /\ \A x \in Ids(c) : TabOf(d, x) = TabOf(c, x)
<1>1. DOMAIN t = TabFields /\ t.id = id
  OBVIOUS
<1>2. IsSeq(c.tabs) /\ DOMAIN c.tabs = 1..Len(c.tabs) /\ Len(c.tabs) \in Nat
  BY IsSeqDomain DEF TabsOK
<1>3. /\ IsSeq(d.tabs) /\ Len(d.tabs) = Len(c.tabs) + 1 /\ d.tabs[Len(c.tabs) + 1] = t
      /\ \A i \in 1..Len(c.tabs) : d.tabs[i] = c.tabs[i]
  BY <1>2, AppendIsSeq
<1>4. DOMAIN d.tabs = 1..(Len(c.tabs) + 1)
  BY <1>3, IsSeqDomain
<1>5. /\ DOMAIN d.tabs = DOMAIN c.tabs \cup {Len(c.tabs) + 1} /\ Len(c.tabs) + 1 \notin DOMAIN c.tabs
      /\ d.tabs[Len(c.tabs) + 1] = t /\ \A i \in DOMAIN c.tabs : d.tabs[i] = c.tabs[i]
  BY <1>2, <1>3, <1>4
<1>6. \A i \in DOMAIN c.tabs : c.tabs[i].id # id
  BY DEF Ids
<1>7. IdsFresh(d)
  <2>1. \A i, j \in DOMAIN d.tabs : d.tabs[i].id = d.tabs[j].id => i = j
    BY <1>1, <1>5, <1>6 DEF TabsOK, IdsFresh
  <2>2. \A i \in DOMAIN d.tabs : d.tabs[i].id < d.next_tab_id \/ d.tabs[i].id = TopId
    BY <1>1, <1>5 DEF TabsOK, IdsFresh
  <2> QED
    BY <2>1, <2>2 DEF IdsFresh
<1>8. TabsOK(d)
  BY <1>1, <1>3, <1>5, <1>7 DEF TabsOK
<1>9. Ids(d) = Ids(c) \cup {id}
  BY <1>1, <1>5 DEF Ids
<1>10. TabOf(d, id) = t
  BY <1>1, <1>5, <1>8, TabOfIs
<1>11. \A x \in Ids(c) : TabOf(d, x) = TabOf(c, x)
  <2> TAKE x \in Ids(c)
  <2>1. PICK i \in DOMAIN c.tabs : c.tabs[i].id = x
    BY DEF Ids
  <2>2. TabOf(c, x) = c.tabs[i]
    BY <2>1, TabOfIs
  <2>3. TabOf(d, x) = d.tabs[i]
    BY <2>1, <1>5, <1>8, TabOfIs
  <2> QED
    BY <1>5, <2>1, <2>2, <2>3
<1> QED
  BY <1>8, <1>9, <1>10, <1>11

(* The first tab takes the place of the active one. *)
LEMMA FallBackMoves ==
  ASSUME NEW c, CoreOK(c), c.tabs # <<>>
  PROVE  LET d == FallBack(c)
         IN  /\ Moves(c, d)
             /\ d.active_tab_id = c.tabs[1].id /\ d.active_tab_id \in Ids(c)
             /\ d.url_buf = TabOf(c, d.active_tab_id).url
             /\ d.full_content_dirty = TRUE
             /\ Same(c, d, {"active_tab_id", "tab_composites", "full_content_dirty", "url_buf"})
<1> DEFINE n == Enter(c, c.tabs[1].id)
           d == ShowUrl(n)
<1>1. /\ Moves(c, n) /\ n.active_tab_id = c.tabs[1].id /\ n.full_content_dirty = TRUE
      /\ Same(c, n, {"active_tab_id", "tab_composites", "full_content_dirty"})
  BY EnterMoves
<1> HIDE DEF n
<1>2. CoreOK(n)
  BY <1>1 DEF Moves
<1>3. /\ Moves(n, d) /\ Same(n, d, {"url_buf"})
      /\ d.url_buf = IF Listed(n) THEN TabOf(n, n.active_tab_id).url ELSE n.url_buf
  BY <1>2, ShowUrlMoves
<1> HIDE DEF d
<1>4. 1 \in DOMAIN c.tabs
  BY IsSeqDomain DEF CoreOK, TabsOK, IsSeq
<1>5. c.tabs[1].id \in Ids(c)
  BY <1>4 DEF Ids
<1>6. n.tabs = c.tabs
  BY <1>1 DEF Same, CoreFields
<1>7. Listed(n) /\ TabOf(n, n.active_tab_id) = TabOf(c, n.active_tab_id)
  BY <1>1, <1>5, <1>6, SameTabs DEF Listed
<1>8. d.active_tab_id = n.active_tab_id /\ d.full_content_dirty = n.full_content_dirty
  BY <1>3 DEF Same, CoreFields
<1>9. Moves(c, d)
  BY <1>1, <1>3, MovesTrans
<1>10. Same(c, d, {"active_tab_id", "tab_composites", "full_content_dirty", "url_buf"})
  BY <1>1, <1>3 DEF Same
<1>11. FallBack(c) = d
  BY DEF FallBack, d, n
<1> QED
  BY <1>1, <1>3, <1>5, <1>7, <1>8, <1>9, <1>10, <1>11

----------------------------------------------------------------------------
(* The omnibox and the stop button against the active tab *)

\* What UrlInSync and LoadingInSync depend on.
Look(c) == <<c.tabs, c.active_tab_id, c.url_buf, c.editing, c.is_loading>>

UrlKept(c, d) == UrlInSync(c) => UrlInSync(d) \/ (c.editing /\ d.url_buf = c.url_buf)

StopKept(c, d) ==
    LoadingInSync(c) =>
        LoadingInSync(d) \/ ~Listed(c) \/ c.active_tab_id \in Ids(c) \ Ids(d)

LEMMA LookAlike ==
  ASSUME NEW c, NEW d, Look(d) = Look(c)
  PROVE  /\ Ids(d) = Ids(c) /\ d.active_tab_id = c.active_tab_id
         /\ d.url_buf = c.url_buf /\ d.editing = c.editing /\ d.tabs = c.tabs
         /\ d.is_loading = c.is_loading
         /\ Listed(d) <=> Listed(c)
         /\ \A id : TabOf(d, id) = TabOf(c, id)
         /\ UrlInSync(d) <=> UrlInSync(c)
         /\ LoadingInSync(d) <=> LoadingInSync(c)
<1>1. d.tabs = c.tabs /\ d.active_tab_id = c.active_tab_id /\ d.url_buf = c.url_buf
      /\ d.editing = c.editing /\ d.is_loading = c.is_loading
  BY DEF Look
<1>2. Ids(d) = Ids(c) /\ \A id : TabOf(d, id) = TabOf(c, id)
  BY <1>1, SameTabs
<1> HIDE DEF Look
<1>3. Listed(d) <=> Listed(c)
  BY <1>1, <1>2 DEF Listed
<1>4. UrlInSync(d) <=> UrlInSync(c)
  BY <1>1, <1>2, <1>3 DEF UrlInSync
<1>5. LoadingInSync(d) <=> LoadingInSync(c)
  BY <1>1, <1>2, <1>3 DEF LoadingInSync
<1> QED
  BY <1>1, <1>2, <1>3, <1>4, <1>5

LEMMA LookKept ==
  ASSUME NEW c, NEW d, NEW c1, NEW d1, Look(c1) = Look(c), Look(d1) = Look(d)
  PROVE  /\ UrlKept(c, d) => UrlKept(c1, d1)
         /\ StopKept(c, d) => StopKept(c1, d1)
<1>1. /\ Ids(c1) = Ids(c) /\ c1.active_tab_id = c.active_tab_id
      /\ c1.url_buf = c.url_buf /\ c1.editing = c.editing
      /\ Listed(c1) <=> Listed(c)
      /\ UrlInSync(c1) <=> UrlInSync(c)
      /\ LoadingInSync(c1) <=> LoadingInSync(c)
  BY LookAlike
<1>2. /\ Ids(d1) = Ids(d) /\ d1.url_buf = d.url_buf
      /\ UrlInSync(d1) <=> UrlInSync(d)
      /\ LoadingInSync(d1) <=> LoadingInSync(d)
  BY LookAlike
<1>3. UrlKept(c, d) => UrlKept(c1, d1)
  BY <1>1, <1>2 DEF UrlKept
<1>4. StopKept(c, d) => StopKept(c1, d1)
  BY <1>1, <1>2 DEF StopKept
<1> QED
  BY <1>3, <1>4

LEMMA LookSame ==
  ASSUME NEW c, NEW d, NEW F, Same(c, d, F),
         F \cap {"tabs", "active_tab_id", "url_buf", "editing", "is_loading"} = {}
  PROVE  Look(d) = Look(c)
BY DEF Look, Same, CoreFields

LEMMA LookRedraw == ASSUME NEW c, IsCore(c) PROVE Look(Redraw(c)) = Look(c) /\ Redraw(c).out = c.out
<1>1. Same(c, Redraw(c), {"chrome_dirty"})
  BY RedrawIs
<1>2. Look(Redraw(c)) = Look(c)
  BY <1>1, LookSame
<1>3. Redraw(c).out = c.out
  BY <1>1 DEF Same, CoreFields
<1> QED
  BY <1>2, <1>3

LEMMA LookEmit ==
  ASSUME NEW c, IsCore(c), NEW e
  PROVE  Look(emit_input(c, e)) = Look(c) /\ emit_input(c, e).out = Append(c.out, e)
<1>1. Same(c, emit_input(c, e), {"out"})
  BY EmitIs
<1> QED
  BY <1>1, LookSame, EmitIs

(* The tabs after new values for a tab. *)
LEMMA SetTabTabs ==
  ASSUME NEW c, CoreOK(c), NEW id, NEW fields, "id" \notin DOMAIN fields
  PROVE  LET d == SetTab(c, id, fields)
         IN  /\ Same(c, d, {"tabs"})
             /\ Ids(d) = Ids(c)
             /\ \A x \in Ids(c) : TabOf(d, x) = IF x = id THEN With(TabOf(c, x), fields) ELSE TabOf(c, x)
<1> DEFINE d == SetTab(c, id, fields)
<1>1. /\ Same(c, d, {"tabs"})
      /\ d.tabs = [i \in DOMAIN c.tabs |-> IF c.tabs[i].id = id THEN With(c.tabs[i], fields) ELSE c.tabs[i]]
  BY SetTabIs DEF CoreOK
<1>2. CoreOK(d) /\ Ids(d) = Ids(c)
  BY SetTabMoves DEF Moves
<1>3. DOMAIN d.tabs = DOMAIN c.tabs /\ \A i \in DOMAIN c.tabs : d.tabs[i].id = c.tabs[i].id
  BY SetTabMoves
<1> HIDE DEF d
<1>4. ASSUME NEW x \in Ids(c)
      PROVE  TabOf(d, x) = IF x = id THEN With(TabOf(c, x), fields) ELSE TabOf(c, x)
  <2>1. PICK i \in DOMAIN c.tabs : c.tabs[i].id = x
    BY DEF Ids
  <2>2. TabOf(c, x) = c.tabs[i]
    BY <2>1, TabOfIs DEF CoreOK
  <2>3. d.tabs[i].id = x
    BY <1>3, <2>1
  <2>4. TabOf(d, x) = d.tabs[i]
    BY <1>2, <1>3, <2>3, TabOfIs DEF CoreOK
  <2> QED
    BY <1>1, <2>1, <2>2, <2>4
<1> QED
  BY <1>1, <1>2, <1>4 DEF d

LEMMA TabShape ==
  ASSUME NEW c, CoreOK(c), NEW id \in Ids(c)
  PROVE  DOMAIN TabOf(c, id) = TabFields
BY PositionIs DEF CoreOK, TabsOK

----------------------------------------------------------------------------
(* What the user can ask for *)

Quiet(c, d) == Handles(c, d) /\ UrlKept(c, d) /\ StopKept(c, d)

LEMMA SameLookIsKept ==
  ASSUME NEW c, NEW d, Look(d) = Look(c) PROVE UrlKept(c, d) /\ StopKept(c, d)
BY LookAlike DEF UrlKept, StopKept

LEMMA QuietRedraw ==
  ASSUME NEW c, NEW d, Moves(c, d), UrlKept(c, d), StopKept(c, d)
  PROVE  Quiet(c, Redraw(d))
<1>1. Look(Redraw(d)) = Look(d)
  BY LookRedraw DEF Moves, CoreOK
<1> QED
  BY <1>1, RedrawHandles, LookKept DEF Quiet

LEMMA QuietEmit ==
  ASSUME NEW c, CoreOK(c), NEW e PROVE Quiet(c, emit_input(c, e))
BY EmitHandles, LookEmit, SameLookIsKept DEF Quiet, CoreOK

(* Fields that neither the tabs nor the omnibox depend on. *)
LEMMA PlainMoves ==
  ASSUME NEW c, CoreOK(c), NEW d, NEW F, Same(c, d, F),
         F \subseteq {"out", "cursor", "mods", "window_title", "audio_muted", "zoom_milli"}
  PROVE  Moves(c, d) /\ Look(d) = Look(c)
<1>1. Flags(d) /\ Raised(c, d)
  BY DEF CoreOK, Flags, Same, CoreFields, Raised
<1>2. Same(c, d, StripFields \ {"tabs", "next_tab_id", "tab_composites"})
  BY DEF Same, StripFields
<1>3. Look(d) = Look(c)
  BY LookSame
<1> QED
  BY <1>1, <1>2, <1>3, MovesPlain

LEMMA MuteQuiet == ASSUME NEW c, CoreOK(c) PROVE Quiet(c, Mute(c))
<1> DEFINE d == [c EXCEPT !.audio_muted = ~@]
<1>1. Same(c, d, {"audio_muted"})
  BY DEF Same, CoreOK, IsCore
<1>2. Mute(c) = Redraw(d)
  BY DEF Mute
<1> HIDE DEF d
<1>3. Moves(c, d) /\ Look(d) = Look(c)
  BY <1>1, PlainMoves
<1> QED
  BY <1>2, <1>3, SameLookIsKept, QuietRedraw

LEMMA ZoomQuiet == ASSUME NEW c, CoreOK(c), NEW level PROVE Quiet(c, Zoom(c, level))
<1> DEFINE d == [c EXCEPT !.zoom_milli = level]
           n == emit_input(d, [ev |-> "SetZoom", level_milli |-> level])
<1>1. Same(c, d, {"zoom_milli"})
  BY DEF Same, CoreOK, IsCore
<1>2. Zoom(c, level) = Redraw(n)
  BY DEF Zoom
<1> HIDE DEF d
<1>3. Moves(c, d) /\ Look(d) = Look(c)
  BY <1>1, PlainMoves
<1>4. CoreOK(d)
  BY <1>3 DEF Moves
<1>5. Moves(d, n) /\ Look(n) = Look(d)
  BY <1>4, EmitHandles, LookEmit DEF Handles, CoreOK
<1> HIDE DEF n
<1>6. Moves(c, n) /\ Look(n) = Look(c)
  BY <1>3, <1>5, MovesTrans
<1> QED
  BY <1>2, <1>6, SameLookIsKept, QuietRedraw

LEMMA ClearDataQuiet == ASSUME NEW c, CoreOK(c) PROVE Quiet(c, ClearData(c))
<1> DEFINE d == [c EXCEPT !.toast = ToastFrames]
           n == emit_input(d, [ev |-> "ClearData"])
<1>1. Same(c, d, {"toast"})
  BY DEF Same, CoreOK, IsCore
<1>2. d.toast = ToastFrames
  BY DEF CoreOK, IsCore, CoreFields
<1>3. ClearData(c) = Redraw(n)
  BY DEF ClearData
<1> HIDE DEF d
<1>4. Flags(d) /\ Raised(c, d)
  BY <1>1, <1>2, CoreAssumption DEF CoreOK, Flags, Same, CoreFields, Raised
<1>5. Same(c, d, StripFields \ {"tabs", "next_tab_id", "tab_composites"})
  BY <1>1 DEF Same, StripFields
<1>6. Moves(c, d)
  BY <1>4, <1>5, MovesPlain
<1>7. Look(d) = Look(c)
  BY <1>1, LookSame
<1>8. Moves(d, n) /\ Look(n) = Look(d)
  BY <1>6, EmitHandles, LookEmit DEF Handles, CoreOK, Moves
<1> HIDE DEF n
<1>9. Moves(c, n) /\ Look(n) = Look(c)
  BY <1>6, <1>7, <1>8, MovesTrans
<1> QED
  BY <1>3, <1>9, SameLookIsKept, QuietRedraw

(* A step on the omnibox, or on the stop button, alone. *)
LEMMA OmniboxMoves ==
  ASSUME NEW c, CoreOK(c), NEW d, Same(c, d, {"url_buf", "editing", "is_loading"}),
         d.editing \in BOOLEAN
  PROVE  /\ Moves(c, d)
         /\ d.tabs = c.tabs /\ d.active_tab_id = c.active_tab_id /\ d.out = c.out
         /\ Ids(d) = Ids(c) /\ (Listed(d) <=> Listed(c))
         /\ \A id : TabOf(d, id) = TabOf(c, id)
<1>1. Flags(d) /\ Raised(c, d)
  BY DEF CoreOK, Flags, Same, CoreFields, Raised
<1>2. Same(c, d, StripFields \ {"tabs", "next_tab_id", "tab_composites"})
  BY DEF Same, StripFields
<1>3. d.tabs = c.tabs /\ d.active_tab_id = c.active_tab_id /\ d.out = c.out
  BY DEF Same, CoreFields
<1>4. Moves(c, d)
  BY <1>1, <1>2, MovesPlain
<1> QED
  BY <1>3, <1>4, SameTabs DEF Listed

LEMMA EditUrlQuiet == ASSUME NEW c, CoreOK(c) PROVE Quiet(c, EditUrl(c))
<1> DEFINE d == [c EXCEPT !.editing = TRUE, !.url_buf = <<>>]
<1>1. Same(c, d, {"editing", "url_buf"})
  BY DEF Same, CoreOK, IsCore
<1>2. d.editing = TRUE
  BY DEF CoreOK, IsCore, CoreFields
<1>3. EditUrl(c) = Redraw(d)
  BY DEF EditUrl
<1> HIDE DEF d
<1>4. Same(c, d, {"url_buf", "editing", "is_loading"})
  BY <1>1 DEF Same
<1>5. d.is_loading = c.is_loading
  BY <1>1 DEF Same, CoreFields
<1>6. UrlKept(c, d)
  BY <1>2 DEF UrlKept, UrlInSync
<1>7. /\ Moves(c, d) /\ d.active_tab_id = c.active_tab_id
      /\ (Listed(d) <=> Listed(c)) /\ \A id : TabOf(d, id) = TabOf(c, id)
  BY <1>2, <1>4, OmniboxMoves
<1>8. StopKept(c, d)
  BY <1>5, <1>7 DEF StopKept, LoadingInSync
<1> QED
  BY <1>3, <1>6, <1>7, <1>8, QuietRedraw

(* The page is asked for: the omnibox has its url. *)
LEMMA NavigateIs ==
  ASSUME NEW c, CoreOK(c), NEW url
  PROVE  LET d == Navigate(c, url)
         IN  /\ Handles(c, d)
             /\ StopKept(c, d)
             /\ d.out = Append(c.out, [ev |-> "Navigate", url |-> url])
             /\ d.url_buf = url /\ d.is_loading = c.is_loading
             /\ d.tabs = c.tabs /\ d.active_tab_id = c.active_tab_id
             /\ Ids(d) = Ids(c) /\ \A id : TabOf(d, id) = TabOf(c, id)
<1> DEFINE a == [c EXCEPT !.url_buf = url, !.editing = FALSE]
           e == [ev |-> "Navigate", url |-> url]
           n == emit_input(a, e)
           d == Redraw(n)
<1>1. Same(c, a, {"editing", "url_buf"})
  BY DEF Same, CoreOK, IsCore
<1>2. a.editing = FALSE
  BY DEF CoreOK, IsCore, CoreFields
<1>3. a.url_buf = url
  BY DEF CoreOK, IsCore, CoreFields
<1>4. Navigate(c, url) = d
  BY DEF Navigate
<1> HIDE DEF a
<1>5. Same(c, a, {"url_buf", "editing", "is_loading"}) /\ a.is_loading = c.is_loading
  BY <1>1 DEF Same, CoreFields
<1>6. /\ Moves(c, a) /\ a.tabs = c.tabs /\ a.active_tab_id = c.active_tab_id /\ a.out = c.out
      /\ Ids(a) = Ids(c) /\ (Listed(a) <=> Listed(c)) /\ \A id : TabOf(a, id) = TabOf(c, id)
  BY <1>2, <1>5, OmniboxMoves
<1>7. CoreOK(a)
  BY <1>6 DEF Moves
<1>8. Moves(a, n) /\ Look(n) = Look(a) /\ n.out = Append(c.out, e)
  BY <1>6, <1>7, EmitHandles, LookEmit DEF Handles, CoreOK
<1> HIDE DEF n
<1>9. Look(d) = Look(n) /\ d.out = n.out
  BY <1>8, LookRedraw DEF Moves, CoreOK
<1>10. Handles(c, d)
  BY <1>6, <1>8, MovesTrans, RedrawHandles
<1> HIDE DEF d
<1>11. Look(d) = Look(a)
  BY <1>8, <1>9
<1>12. /\ d.tabs = c.tabs /\ d.active_tab_id = c.active_tab_id /\ d.url_buf = url
       /\ d.is_loading = c.is_loading /\ Ids(d) = Ids(c) /\ \A id : TabOf(d, id) = TabOf(c, id)
  BY <1>3, <1>5, <1>6, <1>11, LookAlike
<1>13. StopKept(c, d)
  BY <1>12 DEF StopKept, LoadingInSync, Listed
<1> QED
  BY <1>4, <1>8, <1>9, <1>10, <1>12, <1>13 DEF e

LEMMA LoadQuiet == ASSUME NEW c, CoreOK(c), NEW url PROVE Quiet(c, Load(c, url))
<1> DEFINE f == [url |-> url, is_loading |-> TRUE]
           s == SetTab(c, c.active_tab_id, f)
           a == [s EXCEPT !.is_loading = TRUE]
           d == Navigate(a, url)
<1>1. /\ Same(c, s, {"tabs"}) /\ Ids(s) = Ids(c) /\ Moves(c, s)
      /\ \A x \in Ids(c) : TabOf(s, x) = IF x = c.active_tab_id THEN With(TabOf(c, x), f) ELSE TabOf(c, x)
  BY SetTabTabs, SetTabMoves
<1>2. Load(c, url) = d
  BY DEF Load
<1>3. CoreOK(s) /\ s.active_tab_id = c.active_tab_id
  BY <1>1 DEF Moves, Same, CoreFields
<1> HIDE DEF s
<1>4. Same(s, a, {"is_loading"})
  BY <1>3 DEF Same, CoreOK, IsCore
<1>5. a.is_loading = TRUE
  BY <1>3 DEF CoreOK, IsCore, CoreFields
<1> HIDE DEF a
<1>6. Same(s, a, {"url_buf", "editing", "is_loading"}) /\ a.editing \in BOOLEAN
  BY <1>3, <1>4 DEF Same, CoreFields, CoreOK, Flags
<1>7. /\ Moves(s, a) /\ a.active_tab_id = c.active_tab_id
      /\ Ids(a) = Ids(c) /\ \A id : TabOf(a, id) = TabOf(s, id)
  BY <1>1, <1>3, <1>6, OmniboxMoves
<1>8. CoreOK(a) /\ Moves(c, a)
  BY <1>1, <1>7, MovesTrans DEF Moves
<1>9. /\ Handles(a, d) /\ d.url_buf = url /\ d.is_loading = a.is_loading
      /\ d.active_tab_id = a.active_tab_id /\ Ids(d) = Ids(a) /\ \A id : TabOf(d, id) = TabOf(a, id)
  BY <1>8, NavigateIs
<1> HIDE DEF d
<1>10. /\ Handles(a, d) /\ d.url_buf = url /\ d.is_loading = TRUE /\ d.active_tab_id = c.active_tab_id
       /\ Ids(d) = Ids(c) /\ \A id : TabOf(d, id) = TabOf(s, id)
  BY <1>9, <1>5, <1>7
<1>11. d.chrome_dirty
  <2>1. d.chrome_dirty = TRUE
    BY <1>8, RedrawIs, EmitIs DEF d, Navigate, Redraw, CoreOK, IsCore, emit_input, CoreFields
  <2> QED
    BY <2>1
<1>12. Handles(c, d)
  BY <1>8, <1>10, <1>11, MovesTrans DEF Handles, Redrawn
<1>13. Listed(c) => TabOf(d, c.active_tab_id).url = url /\ TabOf(d, c.active_tab_id).is_loading = TRUE
  <2> HAVE Listed(c)
  <2>1. TabOf(d, c.active_tab_id) = With(TabOf(c, c.active_tab_id), f)
    BY <1>1, <1>10 DEF Listed
  <2>2. DOMAIN TabOf(c, c.active_tab_id) = TabFields
    BY TabShape DEF Listed
  <2> QED
    BY <2>1, <2>2 DEF With, TabFields
<1>14. UrlInSync(d) /\ LoadingInSync(d)
  BY <1>10, <1>13 DEF UrlInSync, LoadingInSync, Listed
<1> QED
  BY <1>2, <1>12, <1>14 DEF Quiet, UrlKept, StopKept

\* What a request of the user's does to the omnibox and to the stop button.
HomeOnly == <<[ev |-> "Navigate", url |-> Home]>>

Requested(c, d) ==
    /\ Handles(c, d)
    /\ UrlKept(c, d) \/ d.out = HomeOnly
    /\ StopKept(c, d) \/ (d.active_tab_id # c.active_tab_id /\ d.out # <<>>)

LEMMA QuietRequested == ASSUME NEW c, NEW d, Quiet(c, d) PROVE Requested(c, d)
BY DEF Quiet, Requested

LEMMA HomeRequested == ASSUME NEW c, CoreOK(c), c.out = <<>> PROVE Requested(c, Navigate(c, Home))
<1>1. /\ Handles(c, Navigate(c, Home)) /\ StopKept(c, Navigate(c, Home))
      /\ Navigate(c, Home).out = Append(c.out, [ev |-> "Navigate", url |-> Home])
  BY NavigateIs
<1>2. Append(<<>>, [ev |-> "Navigate", url |-> Home]) = HomeOnly
  BY DEF HomeOnly
<1> QED
  BY <1>1, <1>2 DEF Requested

\* If an id was given, it was not the largest one.
Numbered(c, d) == d.next_tab_id = c.next_tab_id \/ c.next_tab_id < TopId

LEMMA NewTabRequested ==
  ASSUME NEW c, CoreOK(c), c.out = <<>>, Numbered(c, NewTab(c))
  PROVE  Requested(c, NewTab(c))
<1> DEFINE id == c.next_tab_id
           t == TabInfo(id, "New Tab", Home, TRUE)
           l == Leave(c)
           n == [l EXCEPT !.next_tab_id = Above(id),
                          !.tabs = Append(@, t),
                          !.active_tab_id = id, !.url_buf = Home, !.editing = FALSE,
                          !.full_content_dirty = TRUE]
           e == [ev |-> "CreateTab", tab_id |-> id, url |-> Home]
           m == emit_input(n, e)
           d == Redraw(m)
           F == {"next_tab_id", "tabs", "active_tab_id", "url_buf", "editing", "full_content_dirty"}
<1>1. NewTab(c) = d
  BY DEF NewTab
<1>2. Same(c, l, {}) /\ Moves(c, l) /\ CoreOK(l)
  BY LeaveMoves DEF Moves
<1> HIDE DEF l
<1>3. Same(l, n, F)
  BY <1>2 DEF Same, CoreOK, IsCore
<1>4. /\ n.next_tab_id = Above(id) /\ n.active_tab_id = id
      /\ n.url_buf = Home /\ n.editing = FALSE /\ n.full_content_dirty = TRUE
  BY <1>2 DEF CoreOK, IsCore, CoreFields
<1>5. n.tabs = Append(l.tabs, t)
  BY <1>2 DEF CoreOK, IsCore, CoreFields
<1>6. DOMAIN t = TabFields /\ t.id = id /\ t.url = Home
  BY DEF TabInfo, TabFields
<1> HIDE DEF n, t
<1>7. l.tabs = c.tabs /\ l.next_tab_id = id /\ id \in Nat
  BY <1>2 DEF Same, CoreFields, CoreOK, TabsOK
<1>8. id < TopId /\ id \notin Ids(c)
  <2>1. NewTab(c).next_tab_id = Above(id)
    <3>1. Same(n, m, {"out"})
      BY <1>3, EmitIs DEF Same
    <3> HIDE DEF m
    <3>2. Same(m, d, {"chrome_dirty"})
      BY <3>1, RedrawIs DEF Same
    <3> HIDE DEF d
    <3> QED
      BY <1>1, <1>4, <3>1, <3>2 DEF Same, CoreFields
  <2>2. Above(id) # id
    BY <1>7, CoreAssumption DEF Above
  <2>3. id < TopId
    BY <2>1, <2>2 DEF Numbered
  <2>4. ~(id < id) /\ id # TopId
    BY <1>7, <2>3, CoreAssumption
  <2> QED
    BY <2>3, <2>4, PositionIs DEF CoreOK
<1>9. TabsOK(n) /\ id \in Ids(n) /\ TabOf(n, id) = t
  <2>1. n.tabs = Append(c.tabs, t) /\ TabsOK(c)
    BY <1>5, <1>7 DEF CoreOK
  <2>2. n.next_tab_id \in Nat /\ n.next_tab_id >= c.next_tab_id /\ id < n.next_tab_id
    BY <1>4, <1>7, <1>8, CoreAssumption DEF Above
  <2> HIDE DEF id
  <2> QED
    BY <1>6, <1>7, <1>8, <2>1, <2>2, TabAdded
<1>10. NoBuffers(n) /\ Flags(n) /\ Raised(c, n)
  BY <1>2, <1>3, <1>4 DEF CoreOK, NoBuffers, Flags, Same, CoreFields, Raised
<1>11. Same(c, n, StripFields)
  BY <1>2, <1>3 DEF Same, StripFields
<1>12. Moves(c, n)
  BY <1>4, <1>9, <1>10, <1>11 DEF Moves, CoreOK, Same
<1>13. n.out = <<>>
  BY <1>2, <1>3 DEF Same, CoreFields
<1>14. Moves(n, m) /\ Look(m) = Look(n) /\ m.out = Append(n.out, e)
  BY <1>12, EmitHandles, LookEmit DEF Moves, Handles, CoreOK
<1> HIDE DEF m
<1>15. Look(d) = Look(m) /\ d.out = m.out
  BY <1>14, LookRedraw DEF Moves, CoreOK
<1>16. Handles(c, d)
  BY <1>12, <1>14, MovesTrans, RedrawHandles
<1> HIDE DEF d
<1>17. UrlInSync(n)
  <2>1. TabOf(n, n.active_tab_id).url = Home
    BY <1>6, <1>4, <1>9
  <2> QED
    BY <2>1, <1>4 DEF UrlInSync
<1>18. UrlKept(c, d)
  BY <1>14, <1>15, <1>17, LookAlike DEF UrlKept
<1>19. d.active_tab_id = id /\ d.out # <<>>
  <2>1. d.active_tab_id = id
    BY <1>4, <1>14, <1>15, LookAlike
  <2>2. d.out = <<e>>
    BY <1>13, <1>14, <1>15
  <2> QED
    BY <2>1, <2>2
<1>20. StopKept(c, d) \/ d.active_tab_id # c.active_tab_id
  BY <1>8, <1>19 DEF StopKept, Listed
<1> QED
  BY <1>1, <1>16, <1>18, <1>19, <1>20 DEF Requested

(* The active tab is another one that is there. *)
LEMMA SwitchShown ==
  ASSUME NEW c, CoreOK(c), NEW id \in Ids(c), c.out = <<>>
  PROVE  LET s == ShowUrl(Enter(Leave(c), id))
         IN  /\ Moves(c, s) /\ UrlInSync(s)
             /\ s.active_tab_id = id /\ s.out = <<>>
             /\ s.url_buf = TabOf(s, id).url /\ Listed(s)
<1> DEFINE l == Leave(c)
           n == Enter(l, id)
           s == ShowUrl(n)
<1>1. Same(c, l, {}) /\ Moves(c, l) /\ CoreOK(l)
  BY LeaveMoves DEF Moves
<1> HIDE DEF l
<1>2. /\ Moves(l, n) /\ n.active_tab_id = id /\ CoreOK(n)
      /\ Same(l, n, {"active_tab_id", "tab_composites", "full_content_dirty"})
  BY <1>1, EnterMoves DEF Moves
<1> HIDE DEF n
<1>3. /\ Moves(n, s) /\ Same(n, s, {"url_buf"})
      /\ s.url_buf = IF Listed(n) THEN TabOf(n, n.active_tab_id).url ELSE n.url_buf
  BY <1>2, ShowUrlMoves
<1> HIDE DEF s
<1>4. n.tabs = c.tabs /\ n.out = c.out
  BY <1>1, <1>2 DEF Same, CoreFields
<1>5. s.tabs = n.tabs /\ s.active_tab_id = id /\ s.out = <<>>
  BY <1>2, <1>3, <1>4 DEF Same, CoreFields
<1>6. Ids(s) = Ids(c) /\ TabOf(s, id) = TabOf(n, id) /\ Ids(n) = Ids(c)
  BY <1>4, <1>5, SameTabs
<1>7. Listed(n) /\ Listed(s)
  BY <1>2, <1>5, <1>6 DEF Listed
<1>8. s.url_buf = TabOf(s, id).url
  BY <1>2, <1>3, <1>6, <1>7
<1>9. UrlInSync(s)
  BY <1>5, <1>8 DEF UrlInSync
<1>10. Moves(c, s)
  BY <1>1, <1>2, <1>3, MovesTrans
<1> QED
  BY <1>5, <1>7, <1>8, <1>9, <1>10 DEF s, n, l

(* A switch that is shown, sent and drawn. *)
LEMMA SwitchSent ==
  ASSUME NEW c, NEW s, Moves(c, s), UrlInSync(s), s.out = <<>>, s.active_tab_id # c.active_tab_id,
         NEW id
  PROVE  Requested(c, Redraw(SwitchTo(s, id)))
<1> DEFINE e == [ev |-> "SwitchTab", tab_id |-> id]
           m == emit_input(s, e)
           d == Redraw(m)
<1>1. CoreOK(s)
  BY DEF Moves
<1>2. Moves(s, m) /\ Look(m) = Look(s) /\ m.out = Append(s.out, e)
  BY <1>1, EmitHandles, LookEmit DEF Handles, CoreOK
<1>3. SwitchTo(s, id) = m
  BY DEF SwitchTo
<1> HIDE DEF m
<1>4. Look(d) = Look(m) /\ d.out = m.out
  BY <1>2, LookRedraw DEF Moves, CoreOK
<1>5. Handles(c, d)
  BY <1>2, MovesTrans, RedrawHandles
<1> HIDE DEF d
<1>6. UrlInSync(d) /\ d.active_tab_id = s.active_tab_id
  BY <1>2, <1>4, LookAlike
<1>7. d.out = <<e>>
  BY <1>2, <1>4
<1>8. d.out # <<>>
  BY <1>7
<1> QED
  BY <1>3, <1>5, <1>6, <1>8 DEF Requested, UrlKept, d

(* The next position around a circle of two or more is another one. *)
LEMMA NextAround ==
  ASSUME NEW n \in Nat, n > 1, NEW k \in 1..n
  PROVE  (k % n) + 1 \in 1..n /\ (k % n) + 1 # k
<1>1. CASE k = n
  <2>1. k % n = 0
    BY <1>1
  <2> QED
    BY <2>1, <1>1
<1>2. CASE k < n
  <2>1. k % n = k
    BY <1>2
  <2> QED
    BY <2>1, <1>2
<1> QED
  BY <1>1, <1>2

LEMMA NextTabRequested == ASSUME NEW c, CoreOK(c), c.out = <<>> PROVE Requested(c, NextTab(c))
<1> DEFINE at == IF Listed(c) THEN Position(c, c.active_tab_id) ELSE 1
           next == (at % Len(c.tabs)) + 1
           id == c.tabs[next].id
           s == ShowUrl(Enter(Leave(c), id))
<1>1. CASE Len(c.tabs) <= 1
  <2>1. NextTab(c) = c
    BY <1>1 DEF NextTab
  <2> QED
    BY <2>1, MovesRefl, SameLookIsKept DEF Requested
<1>2. CASE ~(Len(c.tabs) <= 1)
  <2>1. NextTab(c) = Redraw(SwitchTo(s, id))
    BY <1>2 DEF NextTab
  <2>2. Len(c.tabs) \in Nat /\ DOMAIN c.tabs = 1..Len(c.tabs)
    BY IsSeqDomain DEF CoreOK, TabsOK
  <2>3. at \in DOMAIN c.tabs /\ (Listed(c) => c.tabs[at].id = c.active_tab_id)
    BY <1>2, <2>2, PositionIs DEF Listed, CoreOK
  <2> HIDE DEF at
  <2>4. next \in DOMAIN c.tabs /\ next # at
    <3>1. at \in 1..Len(c.tabs) /\ Len(c.tabs) > 1
      BY <1>2, <2>2, <2>3
    <3> QED
      BY <2>2, <3>1, NextAround
  <2> HIDE DEF next
  <2>5. id \in Ids(c) /\ (Listed(c) => id # c.active_tab_id)
    BY <2>3, <2>4 DEF Ids, CoreOK, TabsOK, IdsFresh
  <2>6. id # c.active_tab_id
    BY <2>5 DEF Listed
  <2> HIDE DEF id
  <2>7. Moves(c, s) /\ UrlInSync(s) /\ s.active_tab_id = id /\ s.out = <<>>
    BY <2>5, SwitchShown
  <2> QED
    BY <2>1, <2>6, <2>7, SwitchSent
<1> QED
  BY <1>1, <1>2

LEMMA ClickTabRequested ==
  ASSUME NEW c, CoreOK(c), c.out = <<>>, NEW id \in Ids(c)
  PROVE  Requested(c, ClickTab(c, id))
<1> DEFINE s == ShowUrl(Enter(Leave(c), id))
           n == [s EXCEPT !.editing = FALSE]
<1>1. CASE c.active_tab_id = id
  <2>1. ClickTab(c, id) = c
    BY <1>1 DEF ClickTab
  <2> QED
    BY <2>1, MovesRefl, SameLookIsKept DEF Requested
<1>2. CASE c.active_tab_id # id
  <2>1. ClickTab(c, id) = Redraw(SwitchTo(n, id))
    BY <1>2 DEF ClickTab
  <2>2. /\ Moves(c, s) /\ CoreOK(s) /\ s.active_tab_id = id /\ s.out = <<>>
        /\ s.url_buf = TabOf(s, id).url
    BY SwitchShown DEF Moves
  <2> HIDE DEF s
  <2>3. Same(s, n, {"editing"})
    BY <2>2 DEF Same, CoreOK, IsCore
  <2>4. n.editing = FALSE
    BY <2>2 DEF CoreOK, IsCore, CoreFields
  <2> HIDE DEF n
  <2>5. Same(s, n, {"url_buf", "editing", "is_loading"}) /\ n.url_buf = s.url_buf
    BY <2>3 DEF Same, CoreFields
  <2>6. /\ Moves(s, n) /\ n.active_tab_id = id /\ n.out = <<>>
        /\ \A x : TabOf(n, x) = TabOf(s, x)
    BY <2>2, <2>4, <2>5, OmniboxMoves
  <2>7. UrlInSync(n)
    BY <2>2, <2>5, <2>6 DEF UrlInSync
  <2>8. Moves(c, n)
    BY <2>2, <2>6, MovesTrans
  <2> QED
    BY <1>2, <2>1, <2>6, <2>7, <2>8, SwitchSent
<1> QED
  BY <1>1, <1>2

(* A tab other than the active one is dropped: nothing changes for that one. *)
LEMMA DropOther ==
  ASSUME NEW c, CoreOK(c), NEW id, id # c.active_tab_id
  PROVE  UrlKept(c, Drop(c, id)) /\ StopKept(c, Drop(c, id))
<1> DEFINE d == Drop(c, id)
<1>1. /\ Ids(d) = Ids(c) \ {id} /\ \A x \in Ids(d) : TabOf(d, x) = TabOf(c, x)
      /\ d.url_buf = c.url_buf /\ d.editing = c.editing /\ d.is_loading = c.is_loading
      /\ d.active_tab_id = c.active_tab_id
  BY DropMoves
<1> HIDE DEF d
<1>2. Listed(d) <=> Listed(c)
  BY <1>1 DEF Listed
<1>3. Listed(c) => TabOf(d, c.active_tab_id) = TabOf(c, c.active_tab_id)
  BY <1>1, <1>2 DEF Listed
<1>4. UrlKept(c, d)
  BY <1>1, <1>2, <1>3 DEF UrlKept, UrlInSync
<1>5. StopKept(c, d)
  BY <1>1, <1>2, <1>3 DEF StopKept, LoadingInSync
<1> QED
  BY <1>4, <1>5 DEF d

(* The active tab is dropped and another is there to take its place. *)
LEMMA DropActive ==
  ASSUME NEW c, CoreOK(c), NEW id, id = c.active_tab_id, Drop(c, id).tabs # <<>>
  PROVE  LET f == FallBack(Drop(c, id))
         IN  /\ Moves(c, f) /\ UrlKept(c, f) /\ StopKept(c, f)
             /\ f.active_tab_id # id /\ id \notin Ids(f)
<1> DEFINE d == Drop(c, id)
           f == FallBack(d)
<1>1. Moves(c, d) /\ Ids(d) = Ids(c) \ {id} /\ CoreOK(d)
  BY DropMoves DEF Moves
<1> HIDE DEF d
<1>2. d.tabs # <<>>
  BY DEF d
<1>3. /\ Moves(d, f) /\ f.active_tab_id \in Ids(d)
      /\ f.url_buf = TabOf(d, f.active_tab_id).url
      /\ Same(d, f, {"active_tab_id", "tab_composites", "full_content_dirty", "url_buf"})
  BY <1>1, <1>2, FallBackMoves
<1> HIDE DEF f
<1>4. f.tabs = d.tabs
  BY <1>3 DEF Same, CoreFields
<1>5. Ids(f) = Ids(d) /\ TabOf(f, f.active_tab_id) = TabOf(d, f.active_tab_id)
  BY <1>4, SameTabs
<1>6. UrlInSync(f)
  BY <1>3, <1>5 DEF UrlInSync
<1>7. UrlKept(c, f)
  BY <1>6 DEF UrlKept
<1>8. StopKept(c, f)
  BY <1>1, <1>5 DEF StopKept, Listed
<1>9. Moves(c, f)
  BY <1>1, <1>3, MovesTrans
<1> QED
  BY <1>1, <1>3, <1>5, <1>7, <1>8, <1>9 DEF d, f

LEMMA CloseTabRequested ==
  ASSUME NEW c, CoreOK(c), NEW id PROVE Requested(c, CloseTab(c, id))
<1> DEFINE e == emit_input(c, [ev |-> "CloseTab", tab_id |-> id])
           d == Drop(e, id)
           f == FallBack(d)
           s == SwitchTo(f, f.active_tab_id)
<1>1. CASE Len(c.tabs) <= 1
  <2>1. CloseTab(c, id) = c
    BY <1>1 DEF CloseTab
  <2> QED
    BY <2>1, MovesRefl, SameLookIsKept DEF Requested
<1>2. CASE ~(Len(c.tabs) <= 1)
  <2>1. CloseTab(c, id) = Redraw(IF c.active_tab_id = id THEN s ELSE d)
    BY <1>2 DEF CloseTab
  <2>2. Moves(c, e) /\ CoreOK(e) /\ Look(e) = Look(c)
    BY EmitHandles, LookEmit DEF Handles, Moves, CoreOK
  <2> HIDE DEF e
  <2>3. e.active_tab_id = c.active_tab_id /\ Len(e.tabs) = Len(c.tabs)
    BY <2>2, LookAlike
  <2>4. CASE c.active_tab_id # id
    <3>1. Moves(e, d)
      BY <2>2, DropMoves
    <3>2. UrlKept(e, d) /\ StopKept(e, d)
      BY <2>2, <2>3, <2>4, DropOther
    <3> HIDE DEF d
    <3>3. UrlKept(c, d) /\ StopKept(c, d)
      BY <2>2, <3>2, LookKept
    <3>4. Quiet(c, Redraw(d))
      BY <2>2, <3>1, <3>3, MovesTrans, QuietRedraw
    <3> QED
      BY <2>1, <2>4, <3>4, QuietRequested
  <2>5. CASE c.active_tab_id = id
    <3>1. d.tabs # <<>>
      <4>1. Len(d.tabs) = IF id \in Ids(e) THEN Len(e.tabs) - 1 ELSE Len(e.tabs)
        BY <2>2, DropMoves
      <4>2. Len(c.tabs) \in Nat
        BY IsSeqDomain DEF CoreOK, TabsOK
      <4>3. Len(d.tabs) > 0
        BY <1>2, <2>3, <4>1, <4>2
      <4> QED
        BY <4>3
    <3>2. Moves(e, f) /\ UrlKept(e, f) /\ StopKept(e, f)
      BY <2>2, <2>3, <2>5, <3>1, DropActive
    <3> HIDE DEF f
    <3>3. Moves(c, f) /\ CoreOK(f) /\ UrlKept(c, f) /\ StopKept(c, f)
      BY <2>2, <3>2, LookKept, MovesTrans DEF Moves
    <3>4. Moves(f, s) /\ Look(s) = Look(f)
      BY <3>3, EmitHandles, LookEmit DEF Handles, CoreOK, SwitchTo
    <3> HIDE DEF s
    <3>5. Moves(c, s) /\ UrlKept(c, s) /\ StopKept(c, s)
      BY <3>3, <3>4, LookKept, MovesTrans
    <3>6. Quiet(c, Redraw(s))
      BY <3>5, QuietRedraw
    <3> QED
      BY <2>1, <2>5, <3>6, QuietRequested
  <2> QED
    BY <2>4, <2>5
<1> QED
  BY <1>1, <1>2

----------------------------------------------------------------------------
(* The handlers of the X events *)

(* The handler runs on a state with nothing sent yet, and other modifiers or  *)
(* another cursor.                                                         *)
LEMMA RequestedAfter ==
  ASSUME NEW c, CoreOK(c), NEW n, Same(c, n, {"mods", "cursor", "out"}), NEW d, Requested(n, d)
  PROVE  Requested(c, d)
<1>1. Moves(c, n) /\ Look(n) = Look(c)
  BY PlainMoves
<1>2. /\ Moves(n, d) /\ Redrawn(n, d)
      /\ UrlKept(n, d) \/ d.out = HomeOnly
      /\ StopKept(n, d) \/ (d.active_tab_id # n.active_tab_id /\ d.out # <<>>)
  BY DEF Requested, Handles
<1>3. \A f \in ChromeFields \cup {"chrome_dirty"} : n[f] = c[f]
  BY DEF Same, ChromeFields, CoreFields
<1>4. Handles(c, d)
  BY <1>1, <1>2, <1>3, MovesTrans DEF Handles, Redrawn
<1>5. /\ UrlKept(n, d) => UrlKept(c, d)
      /\ StopKept(n, d) => StopKept(c, d)
      /\ n.active_tab_id = c.active_tab_id
  BY <1>1, LookKept, LookAlike
<1> QED
  BY <1>2, <1>4, <1>5 DEF Requested

LEMMA RequestedSame == ASSUME NEW c, CoreOK(c) PROVE Requested(c, c)
BY MovesRefl, SameLookIsKept DEF Requested

LEMMA EmitRequested == ASSUME NEW c, CoreOK(c), NEW e PROVE Requested(c, emit_input(c, e))
BY QuietEmit, QuietRequested

LEMMA ZoomsRequested ==
  ASSUME NEW c, CoreOK(c)
  PROVE  /\ Requested(c, ZoomIn(c)) /\ Requested(c, ZoomOut(c))
         /\ \A level : Requested(c, Zoom(c, level))
<1>1. \A level : Requested(c, Zoom(c, level))
  BY ZoomQuiet, QuietRequested
<1> QED
  BY <1>1 DEF ZoomIn, ZoomOut

LEMMA ClickRequested ==
  ASSUME NEW c, CoreOK(c), c.out = <<>>, NEW part, NEW button
  PROVE  Numbered(c, handle_chrome_click(c, part, button))
             => Requested(c, handle_chrome_click(c, part, button))
<1>1. CASE part.part = "tab"
  <2>1. \A i \in DOMAIN c.tabs : c.tabs[i].id \in Ids(c)
    BY DEF Ids
  <2>2. part.i \in DOMAIN c.tabs => /\ Requested(c, ClickTab(c, c.tabs[part.i].id))
                                    /\ Requested(c, CloseTab(c, c.tabs[part.i].id))
    BY <2>1, ClickTabRequested, CloseTabRequested
  <2> QED
    BY <1>1, <2>2, RequestedSame DEF handle_chrome_click
<1>2. CASE part.part = "bookmark"
  BY <1>2, LoadQuiet, QuietRequested DEF handle_chrome_click
<1>3. CASE part.part \in {"back", "forward", "reload"}
  BY <1>3, EmitRequested DEF handle_chrome_click, NavAction
<1>4. CASE part.part \in {"zoom-", "zoom0", "zoom+"}
  BY <1>4, ZoomsRequested DEF handle_chrome_click
<1>5. CASE part.part \in {"new", "home"}
  BY <1>5, NewTabRequested, HomeRequested DEF handle_chrome_click
<1>6. CASE part.part \in {"omnibox", "mute", "clear"}
  BY <1>6, RequestedSame, EditUrlQuiet, MuteQuiet, ClearDataQuiet, QuietRequested
  DEF handle_chrome_click
<1>7. CASE part.part \notin {"tab", "bookmark", "back", "forward", "reload", "zoom-", "zoom0", "zoom+",
                             "new", "home", "omnibox", "mute", "clear"}
  BY <1>7, RequestedSame DEF handle_chrome_click
<1> QED
  BY <1>1, <1>2, <1>3, <1>4, <1>5, <1>6, <1>7

LEMMA ControlRequested ==
  ASSUME NEW c, CoreOK(c), c.out = <<>>,
         NEW sym \in {"l", "t", "w", "r", "m", "+", "-", "0", "Tab"}
  PROVE  Numbered(c, Control(c, sym)) => Requested(c, Control(c, sym))
<1>1. CASE sym \in {"l", "m"}
  BY <1>1, EditUrlQuiet, MuteQuiet, QuietRequested DEF Control
<1>2. CASE sym = "r"
  BY <1>2, EmitRequested DEF Control, NavAction
<1>3. CASE sym \in {"+", "-", "0"}
  BY <1>3, ZoomsRequested DEF Control
<1>4. CASE sym \in {"t", "w", "Tab"}
  BY <1>4, NewTabRequested, CloseTabRequested, NextTabRequested DEF Control
<1> QED
  BY <1>1, <1>2, <1>3, <1>4

(* What is typed stays there while it is typed. *)
LEMMA TypedRequested ==
  ASSUME NEW c, CoreOK(c), c.editing, NEW text
  PROVE  Requested(c, Redraw([c EXCEPT !.url_buf = text]))
<1> DEFINE d == [c EXCEPT !.url_buf = text]
<1>1. Same(c, d, {"url_buf"})
  BY DEF Same, CoreOK, IsCore
<1> HIDE DEF d
<1>2. Same(c, d, {"url_buf", "editing", "is_loading"}) /\ d.editing = c.editing /\ d.is_loading = c.is_loading
  BY <1>1 DEF Same, CoreFields
<1>3. /\ Moves(c, d) /\ d.active_tab_id = c.active_tab_id
      /\ (Listed(d) <=> Listed(c)) /\ \A id : TabOf(d, id) = TabOf(c, id)
  BY <1>2, OmniboxMoves DEF CoreOK, Flags
<1>4. UrlKept(c, d) /\ StopKept(c, d)
  BY <1>2, <1>3 DEF UrlKept, UrlInSync, StopKept, LoadingInSync
<1>5. Quiet(c, Redraw(d))
  BY <1>3, <1>4, QuietRedraw
<1> QED
  BY <1>5, QuietRequested DEF d

(* Editing ends, with or without the url of the tab put back. *)
LEMMA EditEnds ==
  ASSUME NEW c, CoreOK(c)
  PROVE  LET d == [c EXCEPT !.editing = FALSE]
         IN  /\ Moves(c, d) /\ Same(c, d, {"editing"}) /\ StopKept(c, d)
             /\ c.editing => Quiet(c, Redraw(d))
             /\ Requested(c, Redraw(ShowUrl(d)))
<1> DEFINE d == [c EXCEPT !.editing = FALSE]
           s == ShowUrl(d)
<1>1. Same(c, d, {"editing"})
  BY DEF Same, CoreOK, IsCore
<1>2. d.editing = FALSE
  BY DEF CoreOK, IsCore, CoreFields
<1> HIDE DEF d
<1>3. Same(c, d, {"url_buf", "editing", "is_loading"}) /\ d.url_buf = c.url_buf /\ d.is_loading = c.is_loading
  BY <1>1 DEF Same, CoreFields
<1>4. /\ Moves(c, d) /\ d.active_tab_id = c.active_tab_id
      /\ (Listed(d) <=> Listed(c)) /\ \A id : TabOf(d, id) = TabOf(c, id)
  BY <1>2, <1>3, OmniboxMoves
<1>5. StopKept(c, d)
  BY <1>3, <1>4 DEF StopKept, LoadingInSync
<1>6. c.editing => Quiet(c, Redraw(d))
  <2> HAVE c.editing
  <2>1. UrlKept(c, d)
    BY <1>3 DEF UrlKept
  <2> QED
    BY <2>1, <1>4, <1>5, QuietRedraw
<1>7. Requested(c, Redraw(s))
  <2>1. CoreOK(d)
    BY <1>4 DEF Moves
  <2>2. /\ Moves(d, s) /\ Same(d, s, {"url_buf"})
        /\ s.url_buf = IF Listed(d) THEN TabOf(d, d.active_tab_id).url ELSE d.url_buf
    BY <2>1, ShowUrlMoves
  <2> HIDE DEF s
  <2>3. s.tabs = d.tabs /\ s.active_tab_id = d.active_tab_id /\ s.is_loading = d.is_loading
    BY <2>2 DEF Same, CoreFields
  <2>4. (Listed(s) <=> Listed(d)) /\ \A id : TabOf(s, id) = TabOf(d, id)
    BY <2>3, SameTabs DEF Listed
  <2>5. UrlInSync(s)
    BY <2>2, <2>3, <2>4 DEF UrlInSync
  <2>6. StopKept(c, s)
    BY <1>3, <1>4, <2>3, <2>4 DEF StopKept, LoadingInSync
  <2>7. Quiet(c, Redraw(s))
    BY <1>4, <2>2, <2>5, <2>6, MovesTrans, QuietRedraw DEF UrlKept
  <2> QED
    BY <2>7, QuietRequested
<1> QED
  BY <1>1, <1>4, <1>5, <1>6, <1>7 DEF d, s

LEMMA InOmniboxRequested ==
  ASSUME NEW c, CoreOK(c), c.editing, NEW sym \in {"Return", "Escape", "BackSpace"}
  PROVE  Requested(c, InOmnibox(c, sym))
<1>1. CASE sym = "Return"
  BY <1>1, LoadQuiet, QuietRequested DEF InOmnibox, submit_omnibox
<1>2. CASE sym = "Escape"
  BY <1>2, EditEnds DEF InOmnibox
<1>3. CASE sym = "BackSpace"
  BY <1>3, TypedRequested DEF InOmnibox
<1> QED
  BY <1>1, <1>2, <1>3

LEMMA KeyRequested ==
  ASSUME NEW c, CoreOK(c), c.out = <<>>, NEW sym, NEW pressed
  PROVE  Numbered(c, on_key(c, sym, pressed)) => Requested(c, on_key(c, sym, pressed))
<1>1. \A e : Requested(c, emit_input(c, e))
  BY EmitRequested
<1>2. sym \in {"l", "t", "w", "r", "m", "+", "-", "0", "Tab"} /\ Numbered(c, Control(c, sym))
        => Requested(c, Control(c, sym))
  BY ControlRequested
<1>3. c.editing /\ sym \in {"Return", "Escape", "BackSpace"} => Requested(c, InOmnibox(c, sym))
  BY InOmniboxRequested
<1>4. c.editing => Requested(c, Redraw([c EXCEPT !.url_buf = Append(@, sym)]))
  BY TypedRequested
<1>5. Requested(c, c)
  BY RequestedSame
<1> QED
  BY <1>1, <1>2, <1>3, <1>4, <1>5 DEF on_key, NavAction

LEMMA ModsMove ==
  ASSUME NEW c, CoreOK(c), NEW mods
  PROVE  LET n == [c EXCEPT !.mods = mods]
         IN  Same(c, n, {"mods"}) /\ Same(c, n, {"mods", "cursor", "out"}) /\ CoreOK(n) /\ n.out = c.out
<1> DEFINE n == [c EXCEPT !.mods = mods]
<1>1. Same(c, n, {"mods"})
  BY DEF Same, CoreOK, IsCore
<1> HIDE DEF n
<1>2. Same(c, n, {"mods", "cursor", "out"}) /\ n.out = c.out
  BY <1>1 DEF Same, CoreFields
<1>3. CoreOK(n)
  BY <1>2, PlainMoves DEF Moves
<1> QED
  BY <1>1, <1>2, <1>3 DEF n

LEMMA ButtonRequested ==
  ASSUME NEW c, CoreOK(c), c.out = <<>>, NEW part, NEW button, NEW pressed
  PROVE  Numbered(c, on_mouse_button(c, part, button, pressed))
             => Requested(c, on_mouse_button(c, part, button, pressed))
<1> DEFINE n == [c EXCEPT !.mods = IF pressed THEN @ \cup {Bits[button]} ELSE @ \ {Bits[button]}]
           a == [n EXCEPT !.editing = FALSE]
           away == IF pressed /\ c.editing THEN Redraw(a) ELSE n
           e == [ev |-> "Button", button |-> button, pressed |-> pressed, mods |-> n.mods]
           h == IF part.part = "content" THEN emit_input(away, e)
                ELSE IF pressed THEN handle_chrome_click(n, part, button) ELSE n
<1>1. /\ Same(c, n, {"mods"}) /\ Same(c, n, {"mods", "cursor", "out"}) /\ CoreOK(n) /\ n.out = <<>>
  BY ModsMove
<1>2. on_mouse_button(c, part, button, pressed) = h
  BY DEF on_mouse_button
<1> HIDE DEF n, e
<1>3. Quiet(n, away) /\ CoreOK(away)
  <2>1. CASE pressed /\ c.editing
    <3>1. n.editing
      BY <1>1, <2>1 DEF Same, CoreFields
    <3>2. Quiet(n, Redraw(a))
      BY <1>1, <3>1, EditEnds
    <3> QED
      BY <2>1, <3>2 DEF Quiet, Handles, Moves
  <2>2. CASE ~(pressed /\ c.editing)
    BY <1>1, <2>2, MovesRefl, SameLookIsKept DEF Quiet
  <2> QED
    BY <2>1, <2>2
<1> HIDE DEF away
<1>4. Requested(n, emit_input(away, e))
  <2> DEFINE m == emit_input(away, e)
  <2>1. Handles(away, m) /\ Look(m) = Look(away)
    BY <1>3, EmitHandles, LookEmit DEF CoreOK
  <2>2. Moves(n, away) /\ Redrawn(n, away) /\ UrlKept(n, away) /\ StopKept(n, away)
    BY <1>3 DEF Quiet, Handles
  <2> HIDE DEF m
  <2>3. UrlKept(n, m) /\ StopKept(n, m)
    BY <2>1, <2>2, LookKept
  <2>4. Moves(n, m)
    BY <2>1, <2>2, MovesTrans DEF Handles
  <2>5. Redrawn(n, m)
    BY <2>1, <2>2 DEF Handles, Redrawn
  <2> QED
    BY <2>3, <2>4, <2>5 DEF Requested, Handles, m
<1>5. n.next_tab_id = c.next_tab_id
  BY <1>1 DEF Same, CoreFields
<1>6. Numbered(c, h) => Requested(n, h)
  BY <1>1, <1>4, <1>5, ClickRequested, RequestedSame DEF Numbered
<1> QED
  BY <1>1, <1>2, <1>6, RequestedAfter

----------------------------------------------------------------------------
(* The handlers of the host's events *)

\* A tab that is active is announced, late or again: its url changes, or it
\* has one at last, and the omnibox does not follow.
Relabelled(c, d) ==
    /\ d.active_tab_id = c.active_tab_id /\ d.url_buf = c.url_buf
    /\ Ids(d) = Ids(c) \cup {c.active_tab_id}

\* What is being typed stays, unless its tab goes.
TypingSafe(c, d) ==
    c.editing /\ d.url_buf # c.url_buf =>
        d.active_tab_id # c.active_tab_id /\ c.active_tab_id \notin Ids(d)

Told(c, d) ==
    /\ Handles(c, d)
    /\ UrlKept(c, d) \/ Relabelled(c, d)
    /\ StopKept(c, d)
    /\ TypingSafe(c, d)

LEMMA ToldSame == ASSUME NEW c, CoreOK(c) PROVE Told(c, c)
BY MovesRefl, SameLookIsKept DEF Told, TypingSafe

LEMMA ToldRedraw ==
  ASSUME NEW c, NEW d, Moves(c, d), UrlKept(c, d) \/ Relabelled(c, d), StopKept(c, d), TypingSafe(c, d)
  PROVE  Told(c, Redraw(d))
<1>1. Look(Redraw(d)) = Look(d)
  BY LookRedraw DEF Moves, CoreOK
<1>2. /\ Ids(Redraw(d)) = Ids(d) /\ Redraw(d).active_tab_id = d.active_tab_id
      /\ Redraw(d).url_buf = d.url_buf
  BY <1>1, LookAlike
<1>3. (UrlKept(c, d) => UrlKept(c, Redraw(d))) /\ StopKept(c, Redraw(d))
  BY <1>1, LookKept
<1> QED
  BY <1>2, <1>3, RedrawHandles DEF Told, TypingSafe, Relabelled

(* New labels for a tab and the fields of the active tab they touch. *)
LEMMA SetTabKeeps ==
  ASSUME NEW c, CoreOK(c), NEW id, NEW fields, "id" \notin DOMAIN fields
  PROVE  LET d == SetTab(c, id, fields)
         IN  /\ Moves(c, d) /\ CoreOK(d) /\ Ids(d) = Ids(c)
             /\ d.active_tab_id = c.active_tab_id /\ d.url_buf = c.url_buf
             /\ d.editing = c.editing /\ d.is_loading = c.is_loading
             /\ Listed(d) <=> Listed(c)
             /\ "url" \notin DOMAIN fields \/ id # c.active_tab_id
                    => (UrlInSync(d) <=> UrlInSync(c))
             /\ "is_loading" \notin DOMAIN fields \/ id # c.active_tab_id
                    => (LoadingInSync(d) <=> LoadingInSync(c))
             /\ Listed(c) /\ id = c.active_tab_id
                    => \A f \in DOMAIN fields \cap TabFields : TabOf(d, id)[f] = fields[f]
<1> DEFINE d == SetTab(c, id, fields)
<1>1. /\ Same(c, d, {"tabs"}) /\ Ids(d) = Ids(c) /\ Moves(c, d)
      /\ \A x \in Ids(c) : TabOf(d, x) = IF x = id THEN With(TabOf(c, x), fields) ELSE TabOf(c, x)
  BY SetTabTabs, SetTabMoves
<1> HIDE DEF d
<1>2. /\ d.active_tab_id = c.active_tab_id /\ d.url_buf = c.url_buf
      /\ d.editing = c.editing /\ d.is_loading = c.is_loading
  BY <1>1 DEF Same, CoreFields
<1>3. Listed(d) <=> Listed(c)
  BY <1>1, <1>2 DEF Listed
<1>4. Listed(c) => DOMAIN TabOf(c, c.active_tab_id) = TabFields
  BY TabShape DEF Listed
<1>5. Listed(c) => TabOf(d, c.active_tab_id) = IF c.active_tab_id = id THEN With(TabOf(c, id), fields)
                                               ELSE TabOf(c, c.active_tab_id)
  BY <1>1 DEF Listed
<1>6. Listed(c) /\ id = c.active_tab_id => \A f \in DOMAIN fields \cap TabFields : TabOf(d, id)[f] = fields[f]
  BY <1>4, <1>5 DEF With
<1>7. Listed(c) /\ ("url" \notin DOMAIN fields \/ id # c.active_tab_id)
        => TabOf(d, c.active_tab_id).url = TabOf(c, c.active_tab_id).url
  BY <1>4, <1>5 DEF With, TabFields
<1>8. Listed(c) /\ ("is_loading" \notin DOMAIN fields \/ id # c.active_tab_id)
        => TabOf(d, c.active_tab_id).is_loading = TabOf(c, c.active_tab_id).is_loading
  BY <1>4, <1>5 DEF With, TabFields
<1>9. "url" \notin DOMAIN fields \/ id # c.active_tab_id => (UrlInSync(d) <=> UrlInSync(c))
  BY <1>2, <1>3, <1>7 DEF UrlInSync
<1>10. "is_loading" \notin DOMAIN fields \/ id # c.active_tab_id => (LoadingInSync(d) <=> LoadingInSync(c))
  BY <1>2, <1>3, <1>8 DEF LoadingInSync
<1>11. CoreOK(d)
  BY <1>1 DEF Moves
<1> QED
  BY <1>1, <1>2, <1>3, <1>6, <1>9, <1>10, <1>11 DEF d

LEMMA LoadStateTold == ASSUME NEW c, CoreOK(c), NEW state PROVE Told(c, LoadState(c, state))
<1> DEFINE b == state < 3
           f == [is_loading |-> b]
           s == SetTab(c, c.active_tab_id, f)
           d == [s EXCEPT !.is_loading = b]
<1>1. LoadState(c, state) = Redraw(d)
  BY DEF LoadState
<1> HIDE DEF b
<1>2. /\ Moves(c, s) /\ CoreOK(s) /\ Ids(s) = Ids(c)
      /\ s.active_tab_id = c.active_tab_id /\ s.url_buf = c.url_buf /\ s.editing = c.editing
      /\ UrlInSync(s) <=> UrlInSync(c)
      /\ Listed(s) <=> Listed(c)
      /\ Listed(c) => TabOf(s, c.active_tab_id).is_loading = b
  BY SetTabKeeps DEF TabFields
<1> HIDE DEF s
<1>3. Same(s, d, {"is_loading"})
  BY <1>2 DEF Same, CoreOK, IsCore
<1>4. d.is_loading = b
  BY <1>2 DEF CoreOK, IsCore, CoreFields
<1> HIDE DEF d
<1>5. Same(s, d, {"url_buf", "editing", "is_loading"}) /\ d.editing = c.editing /\ d.url_buf = c.url_buf
  BY <1>2, <1>3 DEF Same, CoreFields
<1>6. /\ Moves(s, d) /\ d.active_tab_id = c.active_tab_id
      /\ (Listed(d) <=> Listed(c)) /\ \A id : TabOf(d, id) = TabOf(s, id)
  BY <1>2, <1>5, OmniboxMoves DEF CoreOK, Flags
<1>7. LoadingInSync(d)
  BY <1>2, <1>4, <1>6 DEF LoadingInSync
<1>8. UrlInSync(d) <=> UrlInSync(s)
  BY <1>2, <1>5, <1>6 DEF UrlInSync
<1>9. UrlKept(c, d) /\ StopKept(c, d) /\ TypingSafe(c, d)
  BY <1>2, <1>5, <1>7, <1>8 DEF UrlKept, StopKept, TypingSafe
<1>10. Moves(c, d)
  BY <1>2, <1>6, MovesTrans
<1> QED
  BY <1>1, <1>9, <1>10, ToldRedraw

LEMMA UrlChangedTold == ASSUME NEW c, CoreOK(c), NEW url PROVE Told(c, UrlChanged(c, url))
<1> DEFINE f == [url |-> url]
           s == SetTab(c, c.active_tab_id, f)
           d == [s EXCEPT !.url_buf = IF c.editing THEN @ ELSE url]
<1>1. UrlChanged(c, url) = Redraw(d)
  BY DEF UrlChanged
<1>2. /\ Moves(c, s) /\ CoreOK(s) /\ Ids(s) = Ids(c)
      /\ s.active_tab_id = c.active_tab_id /\ s.url_buf = c.url_buf /\ s.editing = c.editing
      /\ s.is_loading = c.is_loading
      /\ LoadingInSync(s) <=> LoadingInSync(c)
      /\ Listed(s) <=> Listed(c)
      /\ Listed(c) => TabOf(s, c.active_tab_id).url = url
  BY SetTabKeeps DEF TabFields
<1> HIDE DEF s
<1>3. Same(s, d, {"url_buf"})
  BY <1>2 DEF Same, CoreOK, IsCore
<1>4. d.url_buf = IF c.editing THEN s.url_buf ELSE url
  BY <1>2 DEF CoreOK, IsCore, CoreFields
<1> HIDE DEF d
<1>5. Same(s, d, {"url_buf", "editing", "is_loading"}) /\ d.editing = c.editing /\ d.is_loading = s.is_loading
  BY <1>2, <1>3 DEF Same, CoreFields
<1>6. /\ Moves(s, d) /\ d.active_tab_id = c.active_tab_id
      /\ (Listed(d) <=> Listed(c)) /\ \A id : TabOf(d, id) = TabOf(s, id)
  BY <1>2, <1>5, OmniboxMoves DEF CoreOK, Flags
<1>7. LoadingInSync(d) <=> LoadingInSync(c)
  BY <1>2, <1>5, <1>6 DEF LoadingInSync
<1>8. UrlInSync(d)
  BY <1>2, <1>4, <1>5, <1>6 DEF UrlInSync
<1>9. UrlKept(c, d) /\ StopKept(c, d) /\ TypingSafe(c, d)
  BY <1>2, <1>4, <1>7, <1>8 DEF UrlKept, StopKept, TypingSafe
<1>10. Moves(c, d)
  BY <1>2, <1>6, MovesTrans
<1> QED
  BY <1>1, <1>9, <1>10, ToldRedraw

LEMMA TitleTold == ASSUME NEW c, CoreOK(c), NEW title PROVE Told(c, Title(c, title))
<1> DEFINE f == [title |-> title]
           s == SetTab(c, c.active_tab_id, f)
           d == [s EXCEPT !.window_title = IF title = "" THEN "ExoBrowser" ELSE title]
<1>1. Title(c, title) = Redraw(d)
  BY DEF Title
<1>2. /\ Moves(c, s) /\ CoreOK(s) /\ s.url_buf = c.url_buf
      /\ UrlInSync(s) <=> UrlInSync(c)
      /\ LoadingInSync(s) <=> LoadingInSync(c)
  BY SetTabKeeps
<1> HIDE DEF s
<1>3. Same(s, d, {"window_title"})
  BY <1>2 DEF Same, CoreOK, IsCore
<1> HIDE DEF d
<1>4. Moves(s, d) /\ Look(d) = Look(s)
  BY <1>2, <1>3, PlainMoves
<1>5. /\ UrlInSync(d) <=> UrlInSync(c)
      /\ LoadingInSync(d) <=> LoadingInSync(c)
      /\ d.url_buf = c.url_buf
  BY <1>2, <1>4, LookAlike
<1>6. UrlKept(c, d) /\ StopKept(c, d) /\ TypingSafe(c, d)
  BY <1>5 DEF UrlKept, StopKept, TypingSafe
<1> QED
  BY <1>1, <1>2, <1>4, <1>6, MovesTrans, ToldRedraw

LEMMA TabTitleTold == ASSUME NEW c, CoreOK(c), NEW id, NEW title PROVE Told(c, TabTitle(c, id, title))
<1> DEFINE d == SetTab(c, id, [title |-> title])
<1>1. /\ Moves(c, d) /\ d.url_buf = c.url_buf
      /\ UrlInSync(d) <=> UrlInSync(c)
      /\ LoadingInSync(d) <=> LoadingInSync(c)
  BY SetTabKeeps
<1> HIDE DEF d
<1>2. UrlKept(c, d) /\ StopKept(c, d) /\ TypingSafe(c, d)
  BY <1>1 DEF UrlKept, StopKept, TypingSafe
<1>3. Told(c, Redraw(d))
  BY <1>1, <1>2, ToldRedraw
<1> QED
  BY <1>3, ToldSame DEF TabTitle, d

LEMMA TabUrlTold == ASSUME NEW c, CoreOK(c), NEW id, NEW url PROVE Told(c, TabUrl(c, id, url))
<1> DEFINE f == [url |-> url]
           s == SetTab(c, id, f)
           d == [s EXCEPT !.url_buf = IF id = c.active_tab_id /\ ~c.editing THEN url ELSE @]
<1>1. TabUrl(c, id, url) = IF id \in Ids(c) THEN Redraw(d) ELSE c
  BY DEF TabUrl
<1>2. /\ Moves(c, s) /\ CoreOK(s)
      /\ s.active_tab_id = c.active_tab_id /\ s.url_buf = c.url_buf /\ s.editing = c.editing
      /\ s.is_loading = c.is_loading
      /\ LoadingInSync(s) <=> LoadingInSync(c)
      /\ Listed(s) <=> Listed(c)
      /\ id # c.active_tab_id => (UrlInSync(s) <=> UrlInSync(c))
      /\ Listed(c) /\ id = c.active_tab_id => TabOf(s, c.active_tab_id).url = url
  BY SetTabKeeps DEF TabFields
<1> HIDE DEF s
<1>3. Same(s, d, {"url_buf"})
  BY <1>2 DEF Same, CoreOK, IsCore
<1>4. d.url_buf = IF id = c.active_tab_id /\ ~c.editing THEN url ELSE s.url_buf
  BY <1>2 DEF CoreOK, IsCore, CoreFields
<1> HIDE DEF d
<1>5. Same(s, d, {"url_buf", "editing", "is_loading"}) /\ d.editing = c.editing /\ d.is_loading = s.is_loading
  BY <1>2, <1>3 DEF Same, CoreFields
<1>6. /\ Moves(s, d) /\ d.active_tab_id = c.active_tab_id
      /\ (Listed(d) <=> Listed(c)) /\ \A x : TabOf(d, x) = TabOf(s, x)
  BY <1>2, <1>5, OmniboxMoves DEF CoreOK, Flags
<1>7. LoadingInSync(d) <=> LoadingInSync(c)
  BY <1>2, <1>5, <1>6 DEF LoadingInSync
<1>8. UrlInSync(c) => UrlInSync(d)
  <2>1. CASE id = c.active_tab_id
    BY <2>1, <1>2, <1>4, <1>5, <1>6 DEF UrlInSync
  <2>2. CASE id # c.active_tab_id
    BY <2>2, <1>2, <1>4, <1>5, <1>6 DEF UrlInSync
  <2> QED
    BY <2>1, <2>2
<1>9. UrlKept(c, d) /\ StopKept(c, d) /\ TypingSafe(c, d)
  BY <1>2, <1>4, <1>7, <1>8 DEF UrlKept, StopKept, TypingSafe
<1>10. Told(c, Redraw(d))
  BY <1>2, <1>6, <1>9, MovesTrans, ToldRedraw
<1> QED
  BY <1>1, <1>10, ToldSame

LEMMA TabClosedTold == ASSUME NEW c, CoreOK(c), NEW id PROVE Told(c, TabClosed(c, id))
<1> DEFINE d == Drop(c, id)
           f == FallBack(d)
<1>1. TabClosed(c, id) = Redraw(IF c.active_tab_id = id /\ d.tabs # <<>> THEN f ELSE d)
  BY DEF TabClosed
<1>2. CASE c.active_tab_id = id /\ d.tabs # <<>>
  <2>1. /\ Moves(c, f) /\ UrlKept(c, f) /\ StopKept(c, f)
        /\ f.active_tab_id # id /\ id \notin Ids(f)
    BY <1>2, DropActive
  <2> HIDE DEF f
  <2>2. TypingSafe(c, f)
    BY <1>2, <2>1 DEF TypingSafe
  <2> QED
    BY <1>1, <1>2, <2>1, <2>2, ToldRedraw
<1>3. CASE ~(c.active_tab_id = id /\ d.tabs # <<>>)
  <2>1. /\ Moves(c, d) /\ Ids(d) = Ids(c) \ {id} /\ d.url_buf = c.url_buf
        /\ d.active_tab_id = c.active_tab_id
    BY DropMoves
  <2>2. UrlKept(c, d) /\ StopKept(c, d)
    <3>1. CASE c.active_tab_id # id
      BY <3>1, DropOther
    <3>2. CASE c.active_tab_id = id
      BY <2>1, <3>2 DEF UrlKept, UrlInSync, StopKept, Listed
    <3> QED
      BY <3>1, <3>2
  <2> HIDE DEF f
  <2>3. TypingSafe(c, d)
    BY <2>1 DEF TypingSafe
  <2> QED
    BY <1>1, <1>3, <2>1, <2>2, <2>3, ToldRedraw
<1> QED
  BY <1>2, <1>3

LEMMA TabActivatedTold == ASSUME NEW c, CoreOK(c), NEW id PROVE Told(c, TabActivated(c, id))
<1> DEFINE l == Leave(c)
           n == Enter(l, id)
           k == [n EXCEPT !.url_buf = IF c.editing THEN @ ELSE TabOf(c, id).url,
                          !.is_loading = TabOf(c, id).is_loading]
<1>1. TabActivated(c, id) = Redraw(IF c.active_tab_id = id THEN c ELSE IF id \in Ids(c) THEN k ELSE n)
  BY DEF TabActivated
<1>2. Same(c, l, {}) /\ Moves(c, l) /\ CoreOK(l)
  BY LeaveMoves DEF Moves
<1> HIDE DEF l
<1>3. /\ Moves(l, n) /\ CoreOK(n) /\ n.active_tab_id = id
      /\ Same(l, n, {"active_tab_id", "tab_composites", "full_content_dirty"})
  BY <1>2, EnterMoves DEF Moves
<1> HIDE DEF n
<1>4. n.tabs = c.tabs /\ n.url_buf = c.url_buf /\ n.editing = c.editing /\ Moves(c, n)
  BY <1>2, <1>3, MovesTrans DEF Same, CoreFields
<1>5. Ids(n) = Ids(c) /\ \A x : TabOf(n, x) = TabOf(c, x)
  BY <1>4, SameTabs
<1>6. CASE c.active_tab_id = id
  BY <1>1, <1>6, MovesRefl, SameLookIsKept, ToldRedraw DEF Handles, TypingSafe
<1>7. CASE c.active_tab_id # id /\ id \notin Ids(c)
  <2>1. ~Listed(n)
    BY <1>3, <1>5, <1>7 DEF Listed
  <2>2. UrlKept(c, n) /\ StopKept(c, n) /\ TypingSafe(c, n)
    BY <1>4, <2>1 DEF UrlKept, UrlInSync, StopKept, LoadingInSync, TypingSafe
  <2> QED
    BY <1>1, <1>4, <1>7, <2>2, ToldRedraw
<1>8. CASE c.active_tab_id # id /\ id \in Ids(c)
  <2>1. Same(n, k, {"url_buf", "is_loading"})
    BY <1>3 DEF Same, CoreOK, IsCore
  <2>2. k.is_loading = TabOf(c, id).is_loading
    BY <1>3 DEF CoreOK, IsCore, CoreFields
  <2>3. k.url_buf = IF c.editing THEN n.url_buf ELSE TabOf(c, id).url
    BY <1>3 DEF CoreOK, IsCore, CoreFields
  <2> HIDE DEF k
  <2>4. Same(n, k, {"url_buf", "editing", "is_loading"}) /\ k.editing = c.editing
    BY <1>4, <2>1 DEF Same, CoreFields
  <2>5. /\ Moves(n, k) /\ k.active_tab_id = id
        /\ \A x : TabOf(k, x) = TabOf(c, x)
    BY <1>3, <1>4, <1>5, <2>4, OmniboxMoves DEF CoreOK, Flags
  <2>6. UrlInSync(k) /\ LoadingInSync(k)
    BY <2>2, <2>3, <2>4, <2>5 DEF UrlInSync, LoadingInSync
  <2>7. UrlKept(c, k) /\ StopKept(c, k) /\ TypingSafe(c, k)
    BY <1>4, <2>3, <2>6 DEF UrlKept, StopKept, TypingSafe
  <2> QED
    BY <1>1, <1>4, <1>8, <2>5, <2>7, MovesTrans, ToldRedraw
<1> QED
  BY <1>6, <1>7, <1>8

LEMMA TabCreatedTold ==
  ASSUME NEW c, CoreOK(c), NEW id \in Nat, NEW title, NEW url
  PROVE  Told(c, TabCreated(c, id, title, url))
<1> DEFINE n == [c EXCEPT !.next_tab_id = IF Above(id) > @ THEN Above(id) ELSE @]
           t == IF title = "" THEN n ELSE SetTab(n, id, [title |-> title])
           g == IF url = <<>> THEN t ELSE SetTab(t, id, [url |-> url])
           tab == TabInfo(id, IF title = "" THEN "New Tab" ELSE title, url, FALSE)
           a == [n EXCEPT !.tabs = Append(@, tab)]
<1>1. TabCreated(c, id, title, url) = Redraw(IF id \in Ids(c) THEN g ELSE a)
  BY DEF TabCreated
<1>2. Same(c, n, {"next_tab_id"})
  BY DEF Same, CoreOK, IsCore
<1>3. n.next_tab_id = IF Above(id) > c.next_tab_id THEN Above(id) ELSE c.next_tab_id
  BY DEF CoreOK, IsCore, CoreFields
<1>4. DOMAIN tab = TabFields /\ tab.id = id
  BY DEF TabInfo, TabFields
<1> HIDE DEF n, tab
<1>5. c.next_tab_id \in Nat
  BY DEF CoreOK, TabsOK
<1>6. n.next_tab_id \in Nat /\ n.next_tab_id >= c.next_tab_id /\ (id < n.next_tab_id \/ id = TopId)
  BY <1>3, <1>5, CoreAssumption DEF Above
<1>7. n.tabs = c.tabs /\ Look(n) = Look(c)
  BY <1>2 DEF Same, CoreFields, Look
<1>8. TabsOK(n)
  <2>1. \A i \in DOMAIN c.tabs : c.tabs[i].id < n.next_tab_id \/ c.tabs[i].id = TopId
    BY <1>5, <1>6 DEF CoreOK, TabsOK, IdsFresh
  <2> QED
    BY <1>6, <1>7, <2>1 DEF CoreOK, TabsOK, IdsFresh
<1>9. NoBuffers(n) /\ Flags(n) /\ Raised(c, n)
  BY <1>2 DEF CoreOK, NoBuffers, Flags, Same, CoreFields, Raised
<1>10. Moves(c, n) /\ CoreOK(n)
  BY <1>2, <1>8, <1>9 DEF Moves, CoreOK, Same, StripFields
<1>11. CASE id \in Ids(c)
  <2>1. /\ Moves(n, t) /\ CoreOK(t) /\ Ids(t) = Ids(n)
        /\ t.active_tab_id = n.active_tab_id /\ t.url_buf = n.url_buf
        /\ UrlInSync(t) <=> UrlInSync(n)
        /\ LoadingInSync(t) <=> LoadingInSync(n)
    <3>1. CASE title = ""
      <4>1. t = n
        BY <3>1
      <4> HIDE DEF t
      <4> QED
        BY <1>10, <4>1, MovesRefl DEF Handles
    <3>2. CASE title # ""
      <4>1. t = SetTab(n, id, [title |-> title])
        BY <3>2
      <4> HIDE DEF t
      <4> QED
        BY <1>10, <4>1, SetTabKeeps
    <3> QED
      BY <3>1, <3>2
  <2> HIDE DEF t
  <2>2. /\ Moves(t, g) /\ Ids(g) = Ids(t)
        /\ g.active_tab_id = t.active_tab_id /\ g.url_buf = t.url_buf
        /\ LoadingInSync(g) <=> LoadingInSync(t)
        /\ id # t.active_tab_id => (UrlInSync(g) <=> UrlInSync(t))
    BY <2>1, SetTabKeeps, MovesRefl DEF Handles
  <2> HIDE DEF g
  <2>3. /\ Ids(n) = Ids(c) /\ n.active_tab_id = c.active_tab_id /\ n.url_buf = c.url_buf
        /\ UrlInSync(n) <=> UrlInSync(c)
        /\ LoadingInSync(n) <=> LoadingInSync(c)
    BY <1>7, LookAlike
  <2>4. Moves(c, g)
    BY <1>10, <2>1, <2>2, MovesTrans
  <2>5. StopKept(c, g) /\ TypingSafe(c, g)
    BY <2>1, <2>2, <2>3 DEF StopKept, TypingSafe
  <2>6. UrlKept(c, g) \/ Relabelled(c, g)
    <3>1. CASE id # c.active_tab_id
      BY <2>1, <2>2, <2>3, <3>1 DEF UrlKept
    <3>2. CASE id = c.active_tab_id
      BY <1>11, <2>1, <2>2, <2>3, <3>2 DEF Relabelled
    <3> QED
      BY <3>1, <3>2
  <2> QED
    BY <1>1, <1>11, <2>4, <2>5, <2>6, ToldRedraw
<1>12. CASE id \notin Ids(c)
  <2>1. Same(n, a, {"tabs"})
    BY <1>10 DEF Same, CoreOK, IsCore
  <2>2. a.tabs = Append(n.tabs, tab)
    BY <1>10 DEF CoreOK, IsCore, CoreFields
  <2> HIDE DEF a
  <2>3. a.next_tab_id = n.next_tab_id
    BY <2>1 DEF Same, CoreFields
  <2>4. /\ TabsOK(a) /\ Ids(a) = Ids(c) \cup {id}
        /\ \A x \in Ids(c) : TabOf(a, x) = TabOf(c, x)
    BY <1>4, <1>6, <1>7, <1>12, <2>2, <2>3, TabAdded DEF CoreOK
  <2>5. NoBuffers(a) /\ Flags(a) /\ Raised(c, a)
    BY <1>9, <2>1 DEF CoreOK, NoBuffers, Flags, Same, CoreFields, Raised
  <2>6. Moves(c, a)
    BY <1>2, <2>1, <2>4, <2>5 DEF Moves, CoreOK, Same, StripFields
  <2>7. /\ a.active_tab_id = c.active_tab_id /\ a.url_buf = c.url_buf /\ a.editing = c.editing
        /\ a.is_loading = c.is_loading
    BY <1>2, <2>1 DEF Same, CoreFields
  <2>8. TypingSafe(c, a)
    BY <2>7 DEF TypingSafe
  <2>9. CASE id = c.active_tab_id
    <3>1. Relabelled(c, a) /\ StopKept(c, a)
      BY <1>12, <2>4, <2>7, <2>9 DEF Relabelled, StopKept, Listed
    <3> QED
      BY <1>1, <1>12, <2>6, <2>8, <3>1, ToldRedraw
  <2>10. CASE id # c.active_tab_id
    <3>1. (Listed(a) <=> Listed(c)) /\ (Listed(c) => TabOf(a, c.active_tab_id) = TabOf(c, c.active_tab_id))
      BY <2>4, <2>7, <2>10 DEF Listed
    <3>2. UrlKept(c, a) /\ StopKept(c, a)
      BY <2>7, <3>1 DEF UrlKept, UrlInSync, StopKept, LoadingInSync
    <3> QED
      BY <1>1, <1>12, <2>6, <2>8, <3>2, ToldRedraw
  <2> QED
    BY <2>9, <2>10
<1> QED
  BY <1>11, <1>12

----------------------------------------------------------------------------
(* Queues of what is to be drawn *)

\* Over each cell of the queue some item comes last.
QueueOK(q) ==
    /\ IsSeq(q)
    /\ \A i \in DOMAIN q : q[i].cells \subseteq Cells /\ q[i].cells # {}
    /\ \A p \in Covered(q) : \E i \in DOMAIN q : IsLastOver(q, p, i)

LEMMA LastOverIs ==
  ASSUME NEW q, QueueOK(q), NEW i \in DOMAIN q, NEW p, IsLastOver(q, p, i)
  PROVE  LastOver(q, p) = q[i]
<1>1. DOMAIN q \subseteq Int
  BY IsSeqDomain DEF QueueOK
<1>2. \A j \in DOMAIN q : IsLastOver(q, p, j) => j = i
  BY <1>1 DEF IsLastOver
<1> QED
  BY <1>2 DEF LastOver

LEMMA LastOverCovers ==
  ASSUME NEW q, QueueOK(q), NEW p \in Covered(q)
  PROVE  \E i \in DOMAIN q : p \in q[i].cells /\ LastOver(q, p) = q[i]
<1>1. PICK i \in DOMAIN q : IsLastOver(q, p, i)
  BY DEF QueueOK
<1> QED
  BY <1>1, LastOverIs DEF IsLastOver

LEMMA EmptyQueue == QueueOK(<<>>) /\ Covered(<<>>) = {} /\ Len(<<>>) = 0 /\ DOMAIN <<>> = {}
<1>1. DOMAIN <<>> = {} /\ Len(<<>>) = 0
  OBVIOUS
<1>2. <<>> \in Seq({})
  OBVIOUS
<1>3. IsSeq(<<>>)
  BY <1>2, SeqIsSeq
<1>4. Covered(<<>>) = {}
  BY <1>1 DEF Covered
<1> QED
  BY <1>1, <1>3, <1>4 DEF QueueOK

(* An item more is drawn over the others. *)
LEMMA AppendQueue ==
  ASSUME NEW q, QueueOK(q), NEW e, e.cells \subseteq Cells, e.cells # {}
  PROVE  LET r == Append(q, e)
         IN  /\ QueueOK(r) /\ r # <<>> /\ r # q
             /\ Covered(r) = Covered(q) \cup e.cells
             /\ \A p \in e.cells : LastOver(r, p) = e
             /\ \A p \in Covered(q) \ e.cells : LastOver(r, p) = LastOver(q, p)
             /\ \A i \in DOMAIN r : r[i] = e \/ \E j \in DOMAIN q : r[i] = q[j]
<1> DEFINE r == Append(q, e)
           n == Len(q) + 1
<1>1. IsSeq(q) /\ Len(q) \in Nat /\ DOMAIN q = 1..Len(q)
  BY IsSeqDomain DEF QueueOK
<1>2. /\ IsSeq(r) /\ Len(r) = Len(q) + 1 /\ r[n] = e
      /\ \A i \in 1..Len(q) : r[i] = q[i]
  BY <1>1, AppendIsSeq
<1> HIDE DEF r
<1>3. DOMAIN r = 1..n
  BY <1>2, IsSeqDomain
<1>4. /\ DOMAIN r = DOMAIN q \cup {n} /\ n \notin DOMAIN q
      /\ \A i \in DOMAIN q : r[i] = q[i] /\ i < n
      /\ \A i \in DOMAIN q : \A j \in DOMAIN r : j > i => j = n \/ j \in DOMAIN q
      /\ \A j \in DOMAIN r : ~(j > n)
      /\ n \in DOMAIN r
  BY <1>1, <1>2, <1>3
<1>5. Covered(r) = Covered(q) \cup e.cells
  BY <1>2, <1>4 DEF Covered
<1>6. \A p \in e.cells : IsLastOver(r, p, n)
  BY <1>2, <1>4 DEF IsLastOver
<1>7. \A p : \A i \in DOMAIN q : p \notin e.cells /\ IsLastOver(q, p, i) => IsLastOver(r, p, i)
  BY <1>2, <1>4 DEF IsLastOver
<1>8. \A p \in Covered(r) : \E i \in DOMAIN r : IsLastOver(r, p, i)
  <2> TAKE p \in Covered(r)
  <2>1. CASE p \in e.cells
    BY <2>1, <1>4, <1>6
  <2>2. CASE p \notin e.cells
    BY <2>2, <1>4, <1>5, <1>7 DEF QueueOK
  <2> QED
    BY <2>1, <2>2
<1>9. QueueOK(r)
  BY <1>2, <1>4, <1>8 DEF QueueOK
<1>10. \A p \in e.cells : LastOver(r, p) = e
  BY <1>2, <1>4, <1>6, <1>9, LastOverIs
<1>11. ASSUME NEW p \in Covered(q) \ e.cells PROVE LastOver(r, p) = LastOver(q, p)
  <2>1. PICK i \in DOMAIN q : IsLastOver(q, p, i)
    BY DEF QueueOK
  <2>2. LastOver(q, p) = q[i]
    BY <2>1, LastOverIs
  <2>3. LastOver(r, p) = r[i]
    BY <2>1, <1>4, <1>7, <1>9, LastOverIs
  <2> QED
    BY <2>2, <2>3, <1>4
<1>12. r # <<>> /\ r # q
  BY <1>1, <1>2
<1>13. \A i \in DOMAIN r : r[i] = e \/ \E j \in DOMAIN q : r[i] = q[j]
  BY <1>2, <1>4
<1> QED
  BY <1>5, <1>9, <1>10, <1>11, <1>12, <1>13 DEF r

----------------------------------------------------------------------------
(* The host's pictures and sounds *)

\* The strip, the omnibox and the buttons stay.
Aside(c, d) ==
    /\ CoreOK(d) /\ Look(d) = Look(c)
    /\ d.chrome_dirty = c.chrome_dirty /\ draw_chrome(d) = draw_chrome(c)
    /\ d.out = c.out /\ d.win_size = c.win_size /\ d.toast = c.toast

PictureFields == {"pending_frames", "pending_subframes", "pending_tiles", "full_content_dirty",
                  "frames_seen", "tile_cache"}

LEMMA PicturesAside ==
  ASSUME NEW c, CoreOK(c), NEW d, Same(c, d, PictureFields),
         d.full_content_dirty \in BOOLEAN, d.frames_seen \in Nat
  PROVE  Aside(c, d)
<1>1. /\ d.tabs = c.tabs /\ d.next_tab_id = c.next_tab_id /\ d.active_tab_id = c.active_tab_id
      /\ d.active_buf = c.active_buf /\ d.tab_composites = c.tab_composites
      /\ d.chrome_dirty = c.chrome_dirty /\ d.editing = c.editing /\ d.url_buf = c.url_buf
      /\ d.is_loading = c.is_loading /\ d.toast = c.toast /\ d.audio_playing = c.audio_playing
      /\ d.audio_muted = c.audio_muted /\ d.zoom_milli = c.zoom_milli /\ d.win_size = c.win_size
      /\ d.out = c.out
  BY DEF Same, CoreFields, PictureFields
<1>2. TabsOK(d)
  BY <1>1, SameTabs DEF CoreOK
<1>3. NoBuffers(d) /\ Flags(d)
  BY <1>1 DEF CoreOK, NoBuffers, Flags
<1>4. CoreOK(d)
  BY <1>2, <1>3 DEF CoreOK, Same
<1>5. draw_chrome(d) = draw_chrome(c)
  BY <1>1 DEF draw_chrome
<1>6. Look(d) = Look(c)
  BY <1>1 DEF Look
<1>7. /\ d.chrome_dirty = c.chrome_dirty
      /\ d.out = c.out /\ d.win_size = c.win_size /\ d.toast = c.toast
  BY <1>1
<1> QED
  BY <1>4, <1>5, <1>6, <1>7 DEF Aside

LEMMA FrameIs ==
  ASSUME NEW c, CoreOK(c), NEW f, f.cells # {} /\ f.whole
  PROVE  LET d == Frame(c, f)
         IN  /\ Aside(c, d)
             /\ d.pending_frames = <<f>> /\ d.pending_subframes = <<>> /\ d.pending_tiles = <<>>
             /\ d.full_content_dirty = TRUE /\ d.frames_seen = c.frames_seen + 1
             /\ d.tile_cache = c.tile_cache
<1> DEFINE d == Frame(c, f)
<1>1. Same(c, d, PictureFields)
  BY DEF Frame, Same, CoreOK, IsCore, PictureFields
<1>2. d.pending_frames = <<f>> /\ d.pending_subframes = <<>> /\ d.pending_tiles = <<>>
  BY DEF Frame, CoreOK, IsCore, CoreFields
<1>3. d.full_content_dirty = TRUE
  BY DEF Frame, CoreOK, IsCore, CoreFields
<1>4. d.frames_seen = c.frames_seen + 1 /\ c.frames_seen \in Nat
  BY DEF Frame, CoreOK, IsCore, CoreFields, Flags
<1>5. d.tile_cache = c.tile_cache
  BY DEF Frame, CoreOK, IsCore, CoreFields
<1> HIDE DEF d
<1>6. Aside(c, d)
  <2>1. d.full_content_dirty \in BOOLEAN
    BY <1>3
  <2>2. d.frames_seen \in Nat
    BY <1>4
  <2> QED
    BY <1>1, <2>1, <2>2, PicturesAside
<1> QED
  BY <1>2, <1>3, <1>4, <1>5, <1>6 DEF d

LEMMA SubframeIs ==
  ASSUME NEW c, CoreOK(c), NEW s, s.cells # {} /\ s.whole
  PROVE  LET d == Subframe(c, s)
         IN  /\ Aside(c, d)
             /\ d.pending_subframes = Append(c.pending_subframes, s)
             /\ d.frames_seen = c.frames_seen + 1
             /\ d.pending_frames = c.pending_frames /\ d.pending_tiles = c.pending_tiles
             /\ d.full_content_dirty = c.full_content_dirty /\ d.tile_cache = c.tile_cache
<1> DEFINE d == Subframe(c, s)
<1>1. Same(c, d, {"pending_subframes", "frames_seen"})
  BY DEF Subframe, Same, CoreOK, IsCore
<1>2. d.pending_subframes = Append(c.pending_subframes, s)
  BY DEF Subframe, CoreOK, IsCore, CoreFields
<1>3. d.frames_seen = c.frames_seen + 1 /\ c.frames_seen \in Nat
  BY DEF Subframe, CoreOK, IsCore, CoreFields, Flags
<1> HIDE DEF d
<1>4. /\ d.pending_frames = c.pending_frames /\ d.pending_tiles = c.pending_tiles
      /\ d.full_content_dirty = c.full_content_dirty /\ d.tile_cache = c.tile_cache
  BY <1>1 DEF Same, CoreFields
<1>5. Same(c, d, PictureFields) /\ d.full_content_dirty \in BOOLEAN
  BY <1>1, <1>4 DEF Same, PictureFields, CoreOK, Flags
<1>6. Aside(c, d)
  BY <1>3, <1>5, PicturesAside
<1> QED
  BY <1>2, <1>3, <1>4, <1>6 DEF d

LEMMA TileDataIs ==
  ASSUME NEW c, CoreOK(c), NEW e, e.whole
  PROVE  LET d == TileData(c, e)
         IN  /\ Aside(c, d)
             /\ d.tile_cache = Put(c.tile_cache, e.hash, e.val)
             /\ d.pending_frames = c.pending_frames /\ d.pending_tiles = c.pending_tiles
             /\ d.pending_subframes = c.pending_subframes /\ d.frames_seen = c.frames_seen
             /\ d.full_content_dirty = c.full_content_dirty
<1> DEFINE d == TileData(c, e)
<1>1. Same(c, d, {"tile_cache"})
  BY DEF TileData, Same, CoreOK, IsCore
<1>2. d.tile_cache = Put(c.tile_cache, e.hash, e.val)
  BY DEF TileData, CoreOK, IsCore, CoreFields
<1> HIDE DEF d
<1>3. /\ d.pending_frames = c.pending_frames /\ d.pending_tiles = c.pending_tiles
      /\ d.pending_subframes = c.pending_subframes /\ d.frames_seen = c.frames_seen
      /\ d.full_content_dirty = c.full_content_dirty
  BY <1>1 DEF Same, CoreFields
<1>4. Same(c, d, PictureFields) /\ d.full_content_dirty \in BOOLEAN /\ d.frames_seen \in Nat
  BY <1>1, <1>3 DEF Same, PictureFields, CoreOK, Flags
<1>5. Aside(c, d)
  BY <1>4, PicturesAside
<1> QED
  BY <1>2, <1>3, <1>5 DEF d

LEMMA TileRefIs ==
  ASSUME NEW c, CoreOK(c), NEW e, e.cells # {} /\ e.hash \in DOMAIN c.tile_cache
  PROVE  LET d == TileRef(c, e)
         IN  /\ Aside(c, d)
             /\ d.pending_tiles = Append(c.pending_tiles, [cells |-> e.cells, hash |-> e.hash])
             /\ d.pending_frames = c.pending_frames /\ d.tile_cache = c.tile_cache
             /\ d.pending_subframes = c.pending_subframes /\ d.frames_seen = c.frames_seen
             /\ d.full_content_dirty = c.full_content_dirty
<1> DEFINE d == TileRef(c, e)
<1>1. Same(c, d, {"pending_tiles"})
  BY DEF TileRef, Same, CoreOK, IsCore
<1>2. d.pending_tiles = Append(c.pending_tiles, [cells |-> e.cells, hash |-> e.hash])
  BY DEF TileRef, CoreOK, IsCore, CoreFields
<1> HIDE DEF d
<1>3. /\ d.pending_frames = c.pending_frames /\ d.tile_cache = c.tile_cache
      /\ d.pending_subframes = c.pending_subframes /\ d.frames_seen = c.frames_seen
      /\ d.full_content_dirty = c.full_content_dirty
  BY <1>1 DEF Same, CoreFields
<1>4. Same(c, d, PictureFields) /\ d.full_content_dirty \in BOOLEAN /\ d.frames_seen \in Nat
  BY <1>1, <1>3 DEF Same, PictureFields, CoreOK, Flags
<1>5. Aside(c, d)
  BY <1>4, PicturesAside
<1> QED
  BY <1>2, <1>3, <1>5 DEF d

(* The audio button lights up if it was dark. *)
LEMMA AudioIs ==
  ASSUME NEW c, CoreOK(c)
  PROVE  LET d == Audio(c)
         IN  /\ CoreOK(d) /\ Look(d) = Look(c)
             /\ d.chrome_dirty \/ (d.chrome_dirty = c.chrome_dirty /\ draw_chrome(d) = draw_chrome(c))
             /\ Same(c, d, {"audio_playing", "chrome_dirty"})
<1> DEFINE d == Audio(c)
<1>1. Same(c, d, {"audio_playing", "chrome_dirty"})
  BY DEF Audio, Same, CoreOK, IsCore
<1>2. d.audio_playing = AudioFrames
  BY DEF Audio, CoreOK, IsCore, CoreFields
<1>3. d.chrome_dirty = (c.chrome_dirty \/ c.audio_playing = 0)
  BY DEF Audio, CoreOK, IsCore, CoreFields
<1> HIDE DEF d
<1>4. /\ d.tabs = c.tabs /\ d.next_tab_id = c.next_tab_id /\ d.active_tab_id = c.active_tab_id
      /\ d.active_buf = c.active_buf /\ d.tab_composites = c.tab_composites
      /\ d.full_content_dirty = c.full_content_dirty /\ d.editing = c.editing /\ d.url_buf = c.url_buf
      /\ d.is_loading = c.is_loading /\ d.toast = c.toast /\ d.frames_seen = c.frames_seen
      /\ d.audio_muted = c.audio_muted /\ d.zoom_milli = c.zoom_milli /\ d.win_size = c.win_size
  BY <1>1 DEF Same, CoreFields
<1>5. AudioFrames \in Nat /\ AudioFrames > 0
  BY CoreAssumption
<1>6. TabsOK(d) /\ NoBuffers(d)
  BY <1>4, SameTabs DEF CoreOK, NoBuffers
<1>7. c.chrome_dirty \in BOOLEAN /\ c.audio_playing \in Nat
  BY DEF CoreOK, Flags
<1>8. Flags(d)
  BY <1>2, <1>3, <1>4, <1>5, <1>7 DEF CoreOK, Flags
<1>9. d.chrome_dirty \/ (d.chrome_dirty = c.chrome_dirty /\ draw_chrome(d) = draw_chrome(c))
  <2>1. CASE c.chrome_dirty \/ c.audio_playing = 0
    BY <2>1, <1>3
  <2>2. CASE ~(c.chrome_dirty \/ c.audio_playing = 0)
    <3>1. d.chrome_dirty = c.chrome_dirty
      BY <1>3, <1>7, <2>2
    <3>2. d.audio_playing > 0 /\ c.audio_playing > 0
      BY <1>2, <1>5, <1>7, <2>2
    <3>3. draw_chrome(d) = draw_chrome(c)
      BY <1>4, <3>2 DEF draw_chrome
    <3> QED
      BY <3>1, <3>3
  <2> QED
    BY <2>1, <2>2
<1> QED
  BY <1>1, <1>4, <1>6, <1>8, <1>9 DEF CoreOK, Same, Look, d

----------------------------------------------------------------------------
(* What does not touch the chrome, a resize, and the drawing *)

(* The pointer, the wheel and a button let go. *)
LEMMA TouchIs ==
  ASSUME NEW c, CoreOK(c), NEW d, Same(c, d, {"mods", "cursor", "out"})
  PROVE  Requested(c, d) /\ d.chrome_dirty = c.chrome_dirty
<1>1. /\ d.tabs = c.tabs /\ d.next_tab_id = c.next_tab_id
      /\ d.active_buf = c.active_buf /\ d.tab_composites = c.tab_composites
      /\ d.chrome_dirty = c.chrome_dirty /\ d.full_content_dirty = c.full_content_dirty
      /\ d.editing = c.editing /\ d.toast = c.toast
      /\ d.audio_playing = c.audio_playing /\ d.frames_seen = c.frames_seen
  BY DEF Same, CoreFields
<1>2. TabsOK(d) /\ NoBuffers(d) /\ Flags(d)
  BY <1>1, SameTabs DEF CoreOK, NoBuffers, Flags
<1>3. CoreOK(d)
  BY <1>2 DEF CoreOK, Same
<1> QED
  BY <1>1, <1>3, RequestedSame, RequestedAfter

LEMMA ScrollTouches ==
  ASSUME NEW c, CoreOK(c) PROVE Same(c, on_scroll(c), {"mods", "cursor", "out"})
BY EmitIs DEF on_scroll, Same, CoreOK

LEMMA PointerTouches ==
  ASSUME NEW c, CoreOK(c), NEW place
  PROVE  Same(c, on_pointer_move(c, place), {"mods", "cursor", "out"})
<1> DEFINE n == [c EXCEPT !.cursor = place]
<1>1. Same(c, n, {"cursor"})
  BY DEF Same, CoreOK, IsCore
<1> HIDE DEF n
<1>2. \A e : Same(n, emit_input(n, e), {"out"})
  BY <1>1, EmitIs DEF Same
<1>3. \A e : Same(c, emit_input(n, e), {"mods", "cursor", "out"})
  BY <1>1, <1>2 DEF Same
<1>4. Same(c, n, {"mods", "cursor", "out"})
  BY <1>1 DEF Same
<1> QED
  BY <1>3, <1>4 DEF on_pointer_move, n

LEMMA ReleaseTouches ==
  ASSUME NEW c, CoreOK(c), NEW part, NEW button, NEW pressed, ~pressed
  PROVE  Same(c, on_mouse_button(c, part, button, pressed), {"mods", "cursor", "out"})
<1> DEFINE bit == {Bits[button]}
           n == [c EXCEPT !.mods = IF pressed THEN @ \cup bit ELSE @ \ bit]
<1>1. Same(c, n, {"mods"})
  BY DEF Same, CoreOK, IsCore
<1>2. \/ on_mouse_button(c, part, button, pressed) = n
      \/ \E e : on_mouse_button(c, part, button, pressed) = emit_input(n, e)
  BY DEF on_mouse_button
<1> HIDE DEF n
<1>3. \A e : Same(c, emit_input(n, e), {"mods", "cursor", "out"})
  BY <1>1, EmitIs DEF Same
<1>4. Same(c, n, {"mods", "cursor", "out"})
  BY <1>1 DEF Same
<1> QED
  BY <1>2, <1>3, <1>4

LEMMA ResizeIs ==
  ASSUME NEW c, CoreOK(c), NEW size, size # c.win_size
  PROVE  LET d == on_resize(c, size)
         IN  /\ CoreOK(d) /\ Same(c, d, {"win_size", "chrome_dirty", "full_content_dirty", "out"})
             /\ d.win_size = size /\ d.chrome_dirty = TRUE /\ d.full_content_dirty = TRUE
             /\ Look(d) = Look(c)
<1> DEFINE n == [c EXCEPT !.win_size = size, !.chrome_dirty = TRUE, !.full_content_dirty = TRUE]
           d == on_resize(c, size)
<1>1. Same(c, n, {"win_size", "chrome_dirty", "full_content_dirty"})
  BY DEF Same, CoreOK, IsCore
<1>2. n.win_size = size /\ n.chrome_dirty = TRUE /\ n.full_content_dirty = TRUE
  BY DEF CoreOK, IsCore, CoreFields
<1>3. d = emit_input(n, [ev |-> "Resize", size |-> size])
  BY DEF on_resize
<1> HIDE DEF n, d
<1>4. Same(n, d, {"out"})
  BY <1>1, <1>3, EmitIs DEF Same
<1>5. Same(c, d, {"win_size", "chrome_dirty", "full_content_dirty", "out"})
  BY <1>1, <1>4 DEF Same
<1>6. d.win_size = size /\ d.chrome_dirty = TRUE /\ d.full_content_dirty = TRUE
  BY <1>2, <1>4 DEF Same, CoreFields
<1>7. /\ d.tabs = c.tabs /\ d.next_tab_id = c.next_tab_id /\ d.active_tab_id = c.active_tab_id
      /\ d.active_buf = c.active_buf /\ d.tab_composites = c.tab_composites
      /\ d.editing = c.editing /\ d.url_buf = c.url_buf
      /\ d.is_loading = c.is_loading /\ d.toast = c.toast /\ d.audio_playing = c.audio_playing
      /\ d.frames_seen = c.frames_seen
  BY <1>5 DEF Same, CoreFields
<1>8. TabsOK(d) /\ NoBuffers(d) /\ Flags(d)
  BY <1>6, <1>7, SameTabs DEF CoreOK, NoBuffers, Flags
<1>9. CoreOK(d)
  BY <1>5, <1>8 DEF CoreOK, Same
<1>10. Look(d) = Look(c)
  BY <1>7 DEF Look
<1> QED
  BY <1>5, <1>6, <1>9, <1>10 DEF d

(* What render_into draws, on the cells of the window. *)
LEMMA DrawnIs ==
  ASSUME NEW c, NoBuffers(c), NEW fb, NEW p \in DOMAIN fb, p \in c.win_size
  PROVE  LET after == render_into(c, fb).fb
             lit == c.toast > 0 /\ p = ToastCell
             tile == p \in Covered(c.pending_tiles)
             sub == p \in Covered(c.pending_subframes)
             last == c.pending_frames[Len(c.pending_frames)]
         IN  /\ lit => after[p] = "toast"
             /\ ~lit /\ tile => after[p] = c.tile_cache[LastOver(c.pending_tiles, p).hash]
             /\ ~lit /\ ~tile /\ sub => after[p] = LastOver(c.pending_subframes, p).val
             /\ ~lit /\ ~tile /\ ~sub /\ c.pending_frames # <<>>
                    => after[p] = IF p \in last.cells THEN last.val ELSE Blank
             /\ ~lit /\ ~tile /\ ~sub /\ c.pending_frames = <<>> /\ c.full_content_dirty
                    => after[p] = Blank
             /\ ~lit /\ ~tile /\ ~sub /\ c.pending_frames = <<>> /\ ~c.full_content_dirty
                    => after[p] = fb[p]
<1> DEFINE base == IF c.pending_frames # <<>> THEN Whole(c, fb, c.pending_frames[Len(c.pending_frames)])
                   ELSE IF c.full_content_dirty THEN Repaint(c, fb) ELSE fb
           tiles == c.win_size \cap Covered(c.pending_tiles)
           subs == c.win_size \cap Covered(c.pending_subframes)
           toast == IF c.toast > 0 THEN c.win_size \cap {ToastCell} ELSE {}
           after == render_into(c, fb).fb
<1>1. after = [q \in DOMAIN fb |-> IF q \in toast THEN "toast"
                                 ELSE IF q \in tiles THEN c.tile_cache[LastOver(c.pending_tiles, q).hash]
                                 ELSE IF q \in subs THEN LastOver(c.pending_subframes, q).val
                                 ELSE base[q]]
  BY DEF render_into
<1> HIDE DEF after
<1>2. after[p] = IF p \in toast THEN "toast"
               ELSE IF p \in tiles THEN c.tile_cache[LastOver(c.pending_tiles, p).hash]
               ELSE IF p \in subs THEN LastOver(c.pending_subframes, p).val
               ELSE base[p]
  BY <1>1
<1>3. \A f : Whole(c, fb, f)[p] = IF p \in f.cells THEN f.val ELSE Blank
  BY DEF Whole
<1>4. Repaint(c, fb)[p] = Blank
  BY <1>3 DEF Repaint, Nothing, NoBuffers
<1>5. /\ p \in toast <=> (c.toast > 0 /\ p = ToastCell)
      /\ p \in tiles <=> p \in Covered(c.pending_tiles)
      /\ p \in subs <=> p \in Covered(c.pending_subframes)
  OBVIOUS
<1>6. base[p] = IF c.pending_frames # <<>>
                THEN IF p \in c.pending_frames[Len(c.pending_frames)].cells
                     THEN c.pending_frames[Len(c.pending_frames)].val ELSE Blank
                ELSE IF c.full_content_dirty THEN Blank ELSE fb[p]
  BY <1>3, <1>4
<1> HIDE DEF base, tiles, subs, toast
<1> QED
  BY <1>2, <1>5, <1>6 DEF after

(* The state after a drawing: nothing waits, and only the end of a toast asks *)
(* for another.                                                            *)
LEMMA RenderIs ==
  ASSUME NEW c, CoreOK(c), NEW fb
  PROVE  LET r == render_into(c, fb)
             d == r.core
         IN  /\ CoreOK(d) /\ Look(d) = Look(c) /\ d.out = <<>>
             /\ d.win_size = c.win_size /\ d.tile_cache = c.tile_cache
             /\ d.frames_seen = c.frames_seen
             /\ d.pending_frames = <<>> /\ d.pending_subframes = <<>> /\ d.pending_tiles = <<>>
             /\ d.full_content_dirty <=> c.toast = 1
             /\ c.toast > 1 <=> d.toast > 0
             /\ ~d.chrome_dirty
             /\ \/ r.chrome = <<draw_chrome(d)>>
                \/ r.chrome = <<>> /\ ~c.chrome_dirty /\ draw_chrome(d) = draw_chrome(c)
             /\ r.damage = Damage(c) /\ DOMAIN r.fb = DOMAIN fb
<1> DEFINE r == render_into(c, fb)
           aged == IF c.audio_playing > 0
                   THEN [c EXCEPT !.audio_playing = @ - 1, !.chrome_dirty = @ \/ c.audio_playing = 1]
                   ELSE c
           ends == c.toast = 1
           d == [aged EXCEPT !.chrome_dirty = FALSE, !.full_content_dirty = ends,
                             !.pending_frames = <<>>, !.pending_subframes = <<>>,
                             !.pending_tiles = <<>>, !.toast = IF @ > 0 THEN @ - 1 ELSE 0,
                             !.out = <<>>]
<1>1. /\ r.core = d /\ r.damage = Damage(c) /\ DOMAIN r.fb = DOMAIN fb
      /\ r.chrome = IF aged.chrome_dirty THEN <<draw_chrome(aged)>> ELSE <<>>
  BY DEF render_into
<1>2. /\ c.audio_playing \in Nat /\ c.toast \in Nat /\ c.frames_seen \in Nat
      /\ c.chrome_dirty \in BOOLEAN /\ c.editing \in BOOLEAN
  BY DEF CoreOK, Flags
<1>3. Same(c, aged, {"audio_playing", "chrome_dirty"})
  BY DEF Same, CoreOK, IsCore
<1>4. aged.audio_playing = IF c.audio_playing > 0 THEN c.audio_playing - 1 ELSE 0
  BY <1>2 DEF CoreOK, IsCore, CoreFields
<1>5. aged.chrome_dirty <=> c.chrome_dirty \/ c.audio_playing = 1
  <2>1. CASE c.audio_playing > 0
    <3>1. aged.chrome_dirty = (c.chrome_dirty \/ c.audio_playing = 1)
      BY <2>1 DEF CoreOK, IsCore, CoreFields
    <3> QED
      BY <3>1
  <2>2. CASE ~(c.audio_playing > 0)
    <3>1. aged = c /\ c.audio_playing # 1
      BY <1>2, <2>2
    <3> QED
      BY <3>1
  <2> QED
    BY <2>1, <2>2
<1> HIDE DEF aged
<1>6. Same(aged, d, {"chrome_dirty", "full_content_dirty", "pending_frames", "pending_subframes",
                     "pending_tiles", "toast", "out"})
  BY <1>3 DEF Same, IsCore
<1>7. DOMAIN aged = CoreFields /\ aged.toast = c.toast
  BY <1>3 DEF Same, IsCore, CoreFields
<1>8. d.chrome_dirty = FALSE /\ d.full_content_dirty = ends
  BY <1>7 DEF CoreFields
<1>9. /\ d.pending_frames = <<>> /\ d.pending_subframes = <<>> /\ d.pending_tiles = <<>>
      /\ d.out = <<>>
  BY <1>7 DEF CoreFields
<1>10. d.toast = IF c.toast > 0 THEN c.toast - 1 ELSE 0
  BY <1>7 DEF CoreFields
<1> HIDE DEF d
<1>11. d.audio_playing = aged.audio_playing
  BY <1>6 DEF Same, CoreFields
<1>12. /\ d.tabs = c.tabs /\ d.next_tab_id = c.next_tab_id /\ d.active_tab_id = c.active_tab_id
       /\ d.active_buf = c.active_buf /\ d.tab_composites = c.tab_composites
       /\ d.editing = c.editing /\ d.url_buf = c.url_buf
       /\ d.is_loading = c.is_loading /\ d.frames_seen = c.frames_seen
       /\ d.audio_muted = c.audio_muted /\ d.zoom_milli = c.zoom_milli /\ d.win_size = c.win_size
       /\ d.tile_cache = c.tile_cache
  BY <1>3, <1>6 DEF Same, CoreFields
<1>13. d.chrome_dirty \in BOOLEAN /\ d.full_content_dirty \in BOOLEAN /\ d.editing \in BOOLEAN
  BY <1>2, <1>8, <1>12
<1>14. d.toast \in Nat /\ d.audio_playing \in Nat /\ d.frames_seen \in Nat
  BY <1>2, <1>4, <1>10, <1>11, <1>12
<1>15. TabsOK(d) /\ NoBuffers(d) /\ Flags(d)
  BY <1>12, <1>13, <1>14, SameTabs DEF CoreOK, NoBuffers, Flags
<1>16. CoreOK(d) /\ Look(d) = Look(c)
  BY <1>6, <1>12, <1>15 DEF CoreOK, Same, Look
<1>17. draw_chrome(d) = draw_chrome(aged)
  <2>1. /\ d.tabs = aged.tabs /\ d.active_tab_id = aged.active_tab_id /\ d.editing = aged.editing
        /\ d.url_buf = aged.url_buf /\ d.is_loading = aged.is_loading
        /\ d.audio_muted = aged.audio_muted /\ d.zoom_milli = aged.zoom_milli
        /\ d.win_size = aged.win_size
    BY <1>6 DEF Same, CoreFields
  <2> QED
    BY <2>1, <1>11 DEF draw_chrome
<1>18. ~aged.chrome_dirty => ~c.chrome_dirty /\ draw_chrome(d) = draw_chrome(c)
  <2> SUFFICES ASSUME ~aged.chrome_dirty
               PROVE  ~c.chrome_dirty /\ draw_chrome(d) = draw_chrome(c)
    OBVIOUS
  <2>1. ~c.chrome_dirty /\ c.audio_playing # 1
    BY <1>5
  <2>2. d.audio_playing > 0 <=> c.audio_playing > 0
    BY <2>1, <1>2, <1>4, <1>11
  <2> QED
    BY <2>1, <2>2, <1>12 DEF draw_chrome
<1>19. c.toast > 1 <=> d.toast > 0
  BY <1>2, <1>10
<1>20. /\ d.full_content_dirty <=> c.toast = 1
       /\ ~d.chrome_dirty
  BY <1>8
<1>21. \/ r.chrome = <<draw_chrome(d)>>
       \/ r.chrome = <<>> /\ ~c.chrome_dirty /\ draw_chrome(d) = draw_chrome(c)
  BY <1>1, <1>17, <1>18
<1>22. d.out = <<>> /\ r.core = d /\ r.damage = Damage(c) /\ DOMAIN r.fb = DOMAIN fb
  BY <1>1, <1>9
<1> HIDE DEF r
<1> QED
  BY <1>9, <1>12, <1>16, <1>19, <1>20, <1>21, <1>22 DEF r

LEMMA NewIs ==
  ASSUME NEW size, NEW url, NEW editing \in BOOLEAN
  PROVE  LET c == new(size, url, editing)
         IN  /\ CoreOK(c) /\ c.win_size = size /\ c.toast = 0 /\ c.frames_seen = 0
             /\ c.pending_frames = <<>> /\ c.pending_subframes = <<>> /\ c.pending_tiles = <<>>
             /\ c.tile_cache = <<>> /\ c.chrome_dirty = TRUE /\ c.full_content_dirty = TRUE
<1> DEFINE c == new(size, url, editing)
           t == TabInfo(1, "New Tab", url, FALSE)
<1>1. /\ IsCore(c) /\ c.win_size = size /\ c.toast = 0 /\ c.frames_seen = 0 /\ c.audio_playing = 0
      /\ c.pending_frames = <<>> /\ c.pending_subframes = <<>> /\ c.pending_tiles = <<>>
      /\ c.tile_cache = <<>> /\ c.chrome_dirty = TRUE /\ c.full_content_dirty = TRUE
      /\ c.editing = editing /\ c.next_tab_id = 2 /\ c.active_buf = NoBuffer
      /\ c.tab_composites = <<>> /\ c.tabs = <<t>>
  BY DEF new, IsCore, CoreFields
<1>2. DOMAIN t = TabFields /\ t.id = 1
  BY DEF TabInfo, TabFields
<1> HIDE DEF c, t
<1>3. DOMAIN c.tabs = {1} /\ c.tabs[1] = t /\ c.tabs \in Seq({t})
  BY <1>1
<1>4. TabsOK(c)
  <2>1. IsSeq(c.tabs)
    BY <1>3, SeqIsSeq
  <2>2. IdsFresh(c)
    BY <1>1, <1>2, <1>3 DEF IdsFresh
  <2>3. \A i \in DOMAIN c.tabs : DOMAIN c.tabs[i] = TabFields /\ c.tabs[i].id \in Nat
    BY <1>2, <1>3
  <2>4. c.next_tab_id \in Nat
    BY <1>1
  <2> QED
    BY <2>1, <2>2, <2>3, <2>4 DEF TabsOK
<1>5. NoBuffers(c) /\ Flags(c)
  <2>1. DOMAIN c.tab_composites = {}
    BY <1>1, EmptyQueue
  <2>2. {c.chrome_dirty, c.full_content_dirty, c.editing} \subseteq BOOLEAN
    BY <1>1
  <2>3. {c.toast, c.audio_playing, c.frames_seen} \subseteq Nat
    BY <1>1
  <2> QED
    BY <1>1, <2>1, <2>2, <2>3 DEF NoBuffers, Flags
<1> QED
  BY <1>1, <1>4, <1>5 DEF CoreOK, c

(* Told of a state with nothing sent yet, told of the one before. *)
LEMMA ToldAfter ==
  ASSUME NEW c, CoreOK(c), NEW n, Same(c, n, {"out"}), NEW d, Told(n, d)
  PROVE  Told(c, d)
<1>1. Look(n) = Look(c)
  BY LookSame
<1>2. /\ Ids(n) = Ids(c) /\ n.active_tab_id = c.active_tab_id
      /\ n.url_buf = c.url_buf /\ n.editing = c.editing
  BY <1>1, LookAlike
<1>3. /\ UrlKept(n, d) => UrlKept(c, d)
      /\ StopKept(n, d) => StopKept(c, d)
  BY <1>1, LookKept
<1>4. Relabelled(n, d) => Relabelled(c, d)
  BY <1>2 DEF Relabelled
<1>5. TypingSafe(n, d) => TypingSafe(c, d)
  BY <1>2 DEF TypingSafe
<1>6. Handles(c, d)
  <2>1. Moves(n, d) /\ Redrawn(n, d)
    BY DEF Told, Handles
  <2>2. Same(c, d, StripFields)
    BY <2>1 DEF Moves, Same, StripFields
  <2>3. /\ n.full_content_dirty = c.full_content_dirty /\ n.toast = c.toast
        /\ \A f \in ChromeFields \cup {"chrome_dirty"} : n[f] = c[f]
    BY DEF Same, CoreFields, ChromeFields
  <2>4. Raised(c, d) /\ Redrawn(c, d)
    BY <2>1, <2>3 DEF Raised, Moves, Redrawn
  <2> QED
    BY <2>1, <2>2, <2>4 DEF Handles, Moves
<1> QED
  BY <1>3, <1>4, <1>5, <1>6 DEF Told

----------------------------------------------------------------------------
(* What waits to be drawn, and what the chrome shows *)

\* The pictures that wait are those of before.
Still(c, d) ==
    /\ CoreOK(d) /\ Raised(c, d)
    /\ d.pending_frames = c.pending_frames /\ d.pending_subframes = c.pending_subframes
    /\ d.pending_tiles = c.pending_tiles /\ d.tile_cache = c.tile_cache
    /\ d.win_size = c.win_size /\ d.frames_seen = c.frames_seen

\* The chrome will be drawn again, or needs not.
ChromeKept(c, d) ==
    d.chrome_dirty \/ (~c.chrome_dirty /\ draw_chrome(d) = draw_chrome(c))

LEMMA HandlesStill ==
  ASSUME NEW c, CoreOK(c), NEW d, Handles(c, d)
  PROVE  Still(c, d) /\ ChromeKept(c, d)
<1>1. Still(c, d)
  BY DEF Handles, Moves, Same, StripFields, CoreFields, Still
<1>2. ChromeKept(c, d)
  <2>1. CASE d.chrome_dirty
    BY <2>1 DEF ChromeKept
  <2>2. CASE ~d.chrome_dirty
    <3>1. \A f \in ChromeFields \cup {"chrome_dirty"} : d[f] = c[f]
      BY <2>2 DEF Handles, Redrawn
    <3>2. ~c.chrome_dirty
      BY <2>2, <3>1
    <3>3. draw_chrome(d) = draw_chrome(c)
      BY <3>1 DEF ChromeFields, draw_chrome
    <3> QED
      BY <3>2, <3>3 DEF ChromeKept
  <2> QED
    BY <2>1, <2>2
<1> QED
  BY <1>1, <1>2

=============================================================================
