--------------------------- MODULE MCClientWindow ---------------------------
(* Two instances of ClientWindow: its tab strip and omnibox, and its screen. *)
EXTENDS ClientWindow

Key(sym, state) == [x |-> "key", sym |-> sym, state |-> state, pressed |-> TRUE]
Click(part) == [x |-> "press", part |-> part, button |-> 1]
Part(name) == [part |-> name]
TabPart(i, cross) == [part |-> "tab", i |-> i, cross |-> cross]

Page == <<"https://", "page">>

OneCell == {1}
TwoCells == {1, 2}

OneWindow == {[headless |-> FALSE, capture |-> FALSE]}
AnyWindow == {[headless |-> FALSE, capture |-> FALSE], [headless |-> TRUE, capture |-> FALSE],
              [headless |-> TRUE, capture |-> TRUE, after |-> 2]}

StripX ==
    {Key(k, {"ctrl"}) : k \in {"l", "t", "w", "Tab"}}
    \cup {Key(k, {}) : k \in {"Return", "Escape", "BackSpace", "a", " "}}
    \cup {Click(Part(p)) : p \in {"home", "omnibox", "content", "reload", "new"}}
    \cup {Click(TabPart(i, FALSE)) : i \in 1..2} \cup {Click(TabPart(2, TRUE))}
    \cup {Click([part |-> "bookmark", url |-> Page])}
    \cup {[x |-> "press", part |-> TabPart(1, FALSE), button |-> 2]}

StripNet ==
    {[ev |-> "LoadState", state |-> 0], [ev |-> "LoadState", state |-> 3],
     [ev |-> "UrlChanged", url |-> Page],
     [ev |-> "TabCreated", id |-> 2, title |-> "", url |-> Page],
     [ev |-> "TabCreated", id |-> TopId, title |-> "", url |-> Page],
     [ev |-> "TabUrl", id |-> 1, url |-> Page]}
    \cup [ev : {"TabClosed", "TabActivated"}, id : {1, 2}]

\* No more than two tabs at once.
StripSpec == Init /\ [][Next /\ Len(core'.tabs) <= 2]_vars

ScreenX ==
    {[x |-> "expose"], [x |-> "configure", size |-> {1}], [x |-> "configure", size |-> {1, 2}],
     [x |-> "close"], Click(Part("clear")), Key("t", {"ctrl"}),
     Click(Part("zoom0")), Click(Part("mute")), Key("+", {"ctrl"}), Key("-", {"ctrl"}),
     [x |-> "motion", place |-> "content"],
     [x |-> "press", part |-> Part("content"), button |-> 4],
     [x |-> "press", part |-> Part("content"), button |-> 1],
     [x |-> "release", part |-> Part("content"), button |-> 1]}

ScreenNet ==
    {[ev |-> "Frame", cells |-> c, val |-> "p", whole |-> TRUE] : c \in {{1}, {1, 2}}}
    \cup {[ev |-> "Frame", cells |-> {1}, val |-> "p", whole |-> FALSE]}
    \cup [ev : {"Subframe"}, cells : {{1}, {2}}, val : {"q"}, whole : {TRUE}]
    \cup {[ev |-> "TileData", hash |-> 1, val |-> "r", whole |-> TRUE],
          [ev |-> "TileRef", cells |-> {2}, hash |-> 1],
          [ev |-> "Audio"]}

=============================================================================
