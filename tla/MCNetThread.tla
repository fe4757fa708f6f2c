---------------------------- MODULE MCNetThread ----------------------------
(* One host message of every kind behind WELCOME, cut by reads of every     *)
(* length, and a short session for every kind of input event.              *)
EXTENDS NetThread

u == <<117>>
t == <<116, 50>>
Hash == [i \in 1..32 |-> i]
Px == <<1, 2, 3, 255>>

MCWelcome(url) ==
    [type |-> "Welcome", proto_version |-> 1, session_id |-> 258, features |-> 1,
     cursor_track_id |-> 0, current_url |-> url]

Frame(type, compression) ==
    [type |-> type, ts_us |-> 9, x |-> 300, y |-> 2, w |-> 1, h |-> 1, stride |-> 4,
     format |-> 7, compression |-> compression, pixels |-> Px]

Layer(type, extra) ==
    [type |-> type, id |-> 5, opacity |-> 255, size |-> <<0, 0>>, transform |-> TRANSFORM_IDENTITY,
     content |-> [ref |-> 0]] @@ extra

Update(mask, fields) ==
    fields @@ Layer("LayerUpdate", [mask |-> mask, damage |-> <<0, 0, 0, 0>>])

MCCommands ==
    <<[op |-> 1, x |-> -1, y |-> 2, w |-> 3, h |-> 4, rgba |-> 5],
      [op |-> 2, x |-> 1, y |-> -2, w |-> 3, h |-> 4, rgba |-> 5, line_width |-> 6],
      [op |-> 3, x |-> 1, y |-> 2, font_size |-> 12, rgba |-> 5, text |-> t],
      [op |-> 4, x |-> 1, y |-> 2, w |-> 3, h |-> 4, asset_hash |-> Hash],
      [op |-> 5, x |-> 1, y |-> 2, w |-> 3, h |-> 4], [op |-> 6]>>

MCMessages ==
    {Frame("Subframe", c) : c \in 0..3} \cup
    {[type |-> "RawFrame", ts_us |-> 9, width |-> 1, height |-> 2, stride |-> 8, format |-> 7,
      compression |-> RAW, pixels |-> Px \o <<0, 0, 0, 0>> \o Px \o <<0, 0, 0, 0>>],
     [type |-> "TileData", hash |-> 70000, w |-> 1, h |-> 1, stride |-> 4, format |-> 7,
      compression |-> LZ4, pixels |-> Px],
     [type |-> "TileRef", ts_us |-> 9, x |-> 1, y |-> 2, w |-> 64, h |-> 64, hash |-> 70000],
     [type |-> "AudioFrame", pts_us |-> 1, codec |-> 0, channels |-> 2, sample_rate |-> 48000,
      data |-> <<1, 2, 3, 4>>],
     [type |-> "VideoChunk", pts_us |-> 1, duration_us |-> 2, is_keyframe |-> TRUE, codec |-> 1,
      layer_id |-> 4, data |-> <<5>>],
     [type |-> "AssetRegister", hash |-> Hash, kind |-> 1, data |-> <<1, 2>>],
     [type |-> "DrawCommands", ts_us |-> 1, layer_id |-> 2, commands |-> MCCommands],
     [type |-> "CursorState", shape |-> 255, hotspot_x |-> 1, hotspot_y |-> 2, image_ref |-> 3],
     [type |-> "LoadState", state |-> 3], [type |-> "Heartbeat", ts_us |-> 5],
     [type |-> "Title", title |-> <<>>], [type |-> "UrlChanged", url |-> u],
     Layer("LayerAdd", [parent |-> 1, kind |-> 2]), Update(0, <<>>),
     Update(1, [transform |-> <<-1, 2, -300, 4, 5, 6>>]), Update(2, [opacity |-> 7]),
     Update(12, [size |-> <<640, 480>>, content |-> [ref |-> 1, val |-> 9]]),
     Update(24, [damage |-> <<1, 2, 3, 4>>, content |-> [ref |-> 3, val |-> Hash]]),
     Update(9, [transform |-> <<1, 2, 3, 4, 5, 6>>, content |-> [ref |-> 2, val |-> 9]]),
     [type |-> "LayerRemove", id |-> 1], [type |-> "SceneCommit", version |-> 3],
     [type |-> "TabCreated", tab_id |-> 2, title |-> t, url |-> u],
     [type |-> "TabClosed", tab_id |-> 2], [type |-> "TabActivated", tab_id |-> 3],
     [type |-> "TabTitle", tab_id |-> 2, title |-> t], [type |-> "TabUrl", tab_id |-> 2, url |-> u],
     [type |-> "AuthChallenge", nonce |-> Hash], [type |-> "AuthResponse", token_hash |-> Hash],
     [type |-> "AuthSuccess", node_id |-> t]}

Loaded == [type |-> "LoadState", state |-> 0]
Long(n) == [type |-> "Title", title |-> [i \in 1..n |-> 65]]

MCEvents ==
    {[ev |-> "Navigate", url |-> u], [ev |-> "Resize", w |-> 800, h |-> 600],
     [ev |-> "Motion", x |-> -1, y |-> 2, mods |-> 3],
     [ev |-> "Button", x |-> 1, y |-> 2, button |-> 1, pressed |-> TRUE, mods |-> 1048576],
     [ev |-> "Key", keysym |-> 65293, mods |-> 1, pressed |-> FALSE],
     [ev |-> "Scroll", dx |-> 0, dy |-> -3], [ev |-> "SetZoom", level_milli |-> 1100],
     [ev |-> "NavAction", action |-> 2], [ev |-> "Stop"],
     [ev |-> "CreateTab", tab_id |-> 2, url |-> u], [ev |-> "CloseTab", tab_id |-> 2],
     [ev |-> "SwitchTab", tab_id |-> 1],
     [ev |-> "ClearData", clear_cookies |-> TRUE, clear_cache |-> FALSE, clear_storage |-> TRUE]}

Of(m, says, does) == [mode |-> m, script |-> says, acts |-> does]

\* The long title's length needs two bytes; the longest exceeds the limit.
Oversized == <<MCWelcome(<<>>), Loaded, Long(MaxMessage), Loaded>>

MCSessions ==
    {Of("headless", <<MCWelcome(u), m, Loaded>>, <<>>) : m \in MCMessages \cup {Long(130)}} \cup
    {Of(m, Oversized, <<>>) : m \in {"headless", "embedded"}} \cup
    {Of(m, <<MCWelcome(u), Loaded, Loaded>>, <<>>) : m \in {"hold", "embedded"}} \cup
    {Of("window", <<Loaded, Loaded>>, <<>>)} \cup
    {Of("window", <<MCWelcome(u)>>, <<e, [ev |-> "Stop"]>>) : e \in MCEvents}

\* What the theorems of WireProofs about a session rest on, of every kind of message
\* and every event at once.
ASSUME MCPayloadsDecode == PayloadsDecode

============================================================================
