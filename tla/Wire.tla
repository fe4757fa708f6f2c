-------------------------------- MODULE Wire --------------------------------
(***************************************************************************)
(* gutted-proto: the codec of every connection.  A frame is a tag, a       *)
(* length and the fields of one message; encode writes it, decode takes    *)
(* one frame off the front of a buffer.                                    *)
(*                                                                         *)
(* A message is a record with a "type" and the fields of its variant.      *)
(* Three tables stand for the three places the code spells the schema out, *)
(* which nothing but care keeps in step: the enum (a field and its kind),  *)
(* the order encode_payload writes them in, and the order decode_payload   *)
(* reads them in.  Numbers stay below 2^31 and text is ASCII, so a byte    *)
(* above 127 is what is not UTF-8.                                         *)
(***************************************************************************)
EXTENDS Pixels, SequencesExt, TLC

MESSAGE_TAG ==
    [Hello |-> 1, Welcome |-> 2, Resize |-> 3, Nav |-> 4, Heartbeat |-> 5, NavAction |-> 6,
     Stop |-> 7, InputPointer |-> 16, InputKey |-> 17, InputScroll |-> 18, InputButton |-> 19,
     SetZoom |-> 20, CursorState |-> 48, LoadState |-> 49, Title |-> 50, UrlChanged |-> 51,
     RawFrame |-> 64, Subframe |-> 65, TileData |-> 66, TileRef |-> 67, AudioFrame |-> 72,
     VideoChunk |-> 73, AssetRegister |-> 80, DrawCommands |-> 81, LayerAdd |-> 96,
     LayerUpdate |-> 97, LayerRemove |-> 98, SceneCommit |-> 99, CreateTab |-> 112,
     CloseTab |-> 113, SwitchTab |-> 114, TabCreated |-> 115, TabClosed |-> 116,
     TabActivated |-> 117, TabTitle |-> 118, TabUrl |-> 119, ClearData |-> 128,
     AuthChallenge |-> 144, AuthResponse |-> 145, AuthSuccess |-> 146]

----------------------------------------------------------------------------
\* The schema: enum Message, its fields and their kinds.

ControlFields ==
    [Hello |-> [proto_version |-> "u32", viewport_w |-> "u16", viewport_h |-> "u16",
                dpr_hundredths |-> "u16", client_name |-> "str", capabilities |-> "u32"],
     Welcome |-> [proto_version |-> "u32", session_id |-> "u64", features |-> "u32",
                  cursor_track_id |-> "u32", current_url |-> "str"],
     Resize |-> [viewport_w |-> "u16", viewport_h |-> "u16", dpr_hundredths |-> "u16"],
     Nav |-> [url |-> "str"], NavAction |-> [action |-> "u8"], Stop |-> <<>>,
     Heartbeat |-> [ts_us |-> "u64"],
     InputPointer |-> [ts_us |-> "u64", x |-> "i32", y |-> "i32", modifiers |-> "u32"],
     InputButton |-> [ts_us |-> "u64", x |-> "i32", y |-> "i32", button |-> "u32",
                      pressed |-> "bool", modifiers |-> "u32"],
     InputKey |-> [ts_us |-> "u64", keycode |-> "u32", mods |-> "u32", down |-> "bool"],
     InputScroll |-> [ts_us |-> "u64", layer_id |-> "u32", dx_units |-> "i32",
                      dy_units |-> "i32", phase |-> "phase"],
     SetZoom |-> [level_milli |-> "u32"],
     CursorState |-> [shape |-> "shape", hotspot_x |-> "u16", hotspot_y |-> "u16",
                      image_ref |-> "u64"],
     LoadState |-> [state |-> "u8"], Title |-> [title |-> "str"], UrlChanged |-> [url |-> "str"]]

MediaFields ==
    [LayerAdd |-> [id |-> "u32", parent |-> "u32", kind |-> "layer", size |-> "u16x2",
                   transform |-> "i32x6", opacity |-> "u8", content |-> "content"],
     LayerUpdate |-> [id |-> "u32", mask |-> "u32", transform |-> "i32x6", opacity |-> "u8",
                      size |-> "u16x2", content |-> "content", damage |-> "u16x4"],
     LayerRemove |-> [id |-> "u32"], SceneCommit |-> [version |-> "u64"],
     Subframe |-> [ts_us |-> "u64", x |-> "u16", y |-> "u16", w |-> "u16", h |-> "u16",
                   stride |-> "u32", format |-> "u32", compression |-> "u8", pixels |-> "pixels"],
     RawFrame |-> [ts_us |-> "u64", width |-> "u16", height |-> "u16", stride |-> "u32",
                   format |-> "u32", compression |-> "u8", pixels |-> "pixels"],
     TileData |-> [hash |-> "u64", w |-> "u16", h |-> "u16", stride |-> "u32", format |-> "u32",
                   compression |-> "u8", pixels |-> "pixels"],
     TileRef |-> [ts_us |-> "u64", x |-> "u16", y |-> "u16", w |-> "u16", h |-> "u16",
                  hash |-> "u64"],
     AssetRegister |-> [hash |-> "hash", kind |-> "u8", data |-> "bytes"],
     DrawCommands |-> [ts_us |-> "u64", layer_id |-> "u32", commands |-> "commands"],
     AudioFrame |-> [pts_us |-> "u64", codec |-> "u8", channels |-> "u8", sample_rate |-> "u32",
                     data |-> "bytes"],
     VideoChunk |-> [pts_us |-> "u64", duration_us |-> "u32", is_keyframe |-> "bool",
                     codec |-> "u8", layer_id |-> "u32", data |-> "bytes"]]

SessionFields ==
    [CreateTab |-> [tab_id |-> "u32", url |-> "str"],
     CloseTab |-> [tab_id |-> "u32"], SwitchTab |-> [tab_id |-> "u32"],
     TabCreated |-> [tab_id |-> "u32", title |-> "str", url |-> "str"],
     TabClosed |-> [tab_id |-> "u32"], TabActivated |-> [tab_id |-> "u32"],
     TabTitle |-> [tab_id |-> "u32", title |-> "str"],
     TabUrl |-> [tab_id |-> "u32", url |-> "str"],
     ClearData |-> [clear_cookies |-> "bool", clear_cache |-> "bool", clear_storage |-> "bool"],
     AuthChallenge |-> [nonce |-> "hash"], AuthResponse |-> [token_hash |-> "hash"],
     AuthSuccess |-> [node_id |-> "str"]]

\* enum DrawCommand, by the byte that marks each command on the wire.
CommandFields ==
    <<[x |-> "i32", y |-> "i32", w |-> "u32", h |-> "u32", rgba |-> "u32"],
      [x |-> "i32", y |-> "i32", w |-> "u32", h |-> "u32", rgba |-> "u32", line_width |-> "u16"],
      [x |-> "i32", y |-> "i32", font_size |-> "u16", rgba |-> "u32", text |-> "str"],
      [x |-> "i32", y |-> "i32", w |-> "u32", h |-> "u32", asset_hash |-> "hash"],
      [x |-> "i32", y |-> "i32", w |-> "u32", h |-> "u32"],
      <<>>>>

\* The values an enumeration has on the wire.
ScrollPhase == 1..4
LayerKind == 0..3
CursorShape == (0..13) \cup {255}

TRANSFORM_IDENTITY == <<256, 0, 0, 256, 0, 0>>

\* layer_mask, and what an absent field is decoded as.
MaskBit == [transform |-> 1, opacity |-> 2, size |-> 4, content |-> 8, damage |-> 16]

Absent == [transform |-> TRANSFORM_IDENTITY, opacity |-> 255, size |-> <<0, 0>>,
           content |-> [ref |-> 0], damage |-> <<0, 0, 0, 0>>]

Masked(mask, fields) == SelectSeq(fields, LAMBDA f : (mask \div MaskBit[f]) % 2 = 1)

----------------------------------------------------------------------------
\* The order the fields are written in.

WriteControl ==
    [Hello |-> <<"proto_version", "viewport_w", "viewport_h", "dpr_hundredths", "capabilities",
                 "client_name">>,
     Welcome |-> <<"proto_version", "session_id", "features", "cursor_track_id", "current_url">>,
     Resize |-> <<"viewport_w", "viewport_h", "dpr_hundredths">>,
     Nav |-> <<"url">>, NavAction |-> <<"action">>, Stop |-> <<>>, Heartbeat |-> <<"ts_us">>,
     InputPointer |-> <<"ts_us", "x", "y", "modifiers">>,
     InputButton |-> <<"ts_us", "x", "y", "button", "pressed", "modifiers">>,
     InputKey |-> <<"ts_us", "keycode", "mods", "down">>,
     InputScroll |-> <<"ts_us", "layer_id", "dx_units", "dy_units", "phase">>,
     SetZoom |-> <<"level_milli">>,
     CursorState |-> <<"shape", "hotspot_x", "hotspot_y", "image_ref">>,
     LoadState |-> <<"state">>, Title |-> <<"title">>, UrlChanged |-> <<"url">>,
     RawFrame |-> <<"ts_us", "width", "height", "stride", "format", "compression", "pixels">>,
     LayerAdd |-> <<"id", "parent", "kind", "size", "transform", "opacity", "content">>,
     LayerUpdate |-> <<"id", "mask">>]

WriteLayerUpdate == <<"transform", "opacity", "size", "content", "damage">>

WriteSession ==
    [LayerRemove |-> <<"id">>, SceneCommit |-> <<"version">>,
     Subframe |-> <<"ts_us", "x", "y", "w", "h", "stride", "format", "compression", "pixels">>,
     TileData |-> <<"hash", "w", "h", "stride", "format", "compression", "pixels">>,
     TileRef |-> <<"ts_us", "x", "y", "w", "h", "hash">>,
     AssetRegister |-> <<"hash", "kind", "data">>,
     DrawCommands |-> <<"ts_us", "layer_id", "commands">>,
     AudioFrame |-> <<"pts_us", "codec", "channels", "sample_rate", "data">>,
     VideoChunk |-> <<"pts_us", "duration_us", "is_keyframe", "codec", "layer_id", "data">>,
     CreateTab |-> <<"tab_id", "url">>, CloseTab |-> <<"tab_id">>, SwitchTab |-> <<"tab_id">>,
     TabCreated |-> <<"tab_id", "title", "url">>, TabClosed |-> <<"tab_id">>,
     TabActivated |-> <<"tab_id">>, TabTitle |-> <<"tab_id", "title">>,
     TabUrl |-> <<"tab_id", "url">>,
     ClearData |-> <<"clear_cookies", "clear_cache", "clear_storage">>,
     AuthChallenge |-> <<"nonce">>, AuthResponse |-> <<"token_hash">>,
     AuthSuccess |-> <<"node_id">>]

WriteCommand ==
    <<<<"x", "y", "w", "h", "rgba">>, <<"x", "y", "w", "h", "rgba", "line_width">>,
      <<"x", "y", "font_size", "rgba", "text">>, <<"x", "y", "w", "h", "asset_hash">>,
      <<"x", "y", "w", "h">>, <<>>>>

----------------------------------------------------------------------------
\* The order they are read in.

ReadControl ==
    [Hello |-> <<"proto_version", "viewport_w", "viewport_h", "dpr_hundredths", "capabilities",
                 "client_name">>,
     Welcome |-> <<"proto_version", "session_id", "features", "cursor_track_id", "current_url">>,
     Resize |-> <<"viewport_w", "viewport_h", "dpr_hundredths">>,
     Nav |-> <<"url">>, NavAction |-> <<"action">>, Stop |-> <<>>, Heartbeat |-> <<"ts_us">>,
     InputPointer |-> <<"ts_us", "x", "y", "modifiers">>,
     InputButton |-> <<"ts_us", "x", "y", "button", "pressed", "modifiers">>,
     InputKey |-> <<"ts_us", "keycode", "mods", "down">>,
     InputScroll |-> <<"ts_us", "layer_id", "dx_units", "dy_units", "phase">>,
     SetZoom |-> <<"level_milli">>,
     CursorState |-> <<"shape", "hotspot_x", "hotspot_y", "image_ref">>,
     LoadState |-> <<"state">>, Title |-> <<"title">>, UrlChanged |-> <<"url">>,
     RawFrame |-> <<"ts_us", "width", "height", "stride", "format", "compression", "pixels">>,
     LayerAdd |-> <<"id", "parent", "kind", "size", "transform", "opacity", "content">>,
     LayerUpdate |-> <<"id", "mask">>,
     LayerRemove |-> <<"id">>, SceneCommit |-> <<"version">>]

ReadLayerUpdate == <<"transform", "opacity", "size", "content", "damage">>

ReadSession ==
    [Subframe |-> <<"ts_us", "x", "y", "w", "h", "stride", "format", "compression", "pixels">>,
     TileData |-> <<"hash", "w", "h", "stride", "format", "compression", "pixels">>,
     TileRef |-> <<"ts_us", "x", "y", "w", "h", "hash">>,
     AssetRegister |-> <<"hash", "kind", "data">>,
     DrawCommands |-> <<"ts_us", "layer_id", "commands">>,
     AudioFrame |-> <<"pts_us", "codec", "channels", "sample_rate", "data">>,
     VideoChunk |-> <<"pts_us", "duration_us", "is_keyframe", "codec", "layer_id", "data">>,
     CreateTab |-> <<"tab_id", "url">>, CloseTab |-> <<"tab_id">>, SwitchTab |-> <<"tab_id">>,
     TabCreated |-> <<"tab_id", "title", "url">>, TabClosed |-> <<"tab_id">>,
     TabActivated |-> <<"tab_id">>, TabTitle |-> <<"tab_id", "title">>,
     TabUrl |-> <<"tab_id", "url">>,
     ClearData |-> <<"clear_cookies", "clear_cache", "clear_storage">>,
     AuthChallenge |-> <<"nonce">>, AuthResponse |-> <<"token_hash">>,
     AuthSuccess |-> <<"node_id">>]

ReadCommand ==
    <<<<"x", "y", "w", "h", "rgba">>, <<"x", "y", "w", "h", "rgba", "line_width">>,
      <<"x", "y", "font_size", "rgba", "text">>, <<"x", "y", "w", "h", "asset_hash">>,
      <<"x", "y", "w", "h">>, <<>>>>

----------------------------------------------------------------------------
\* Writers

write_varint[v \in Nat] ==
    IF v < 128 THEN <<v>> ELSE <<128 + (v % 128)>> \o write_varint[v \div 128]

Width == [u8 |-> 1, u16 |-> 2, u32 |-> 4, i32 |-> 4, u64 |-> 8, phase |-> 1, layer |-> 1,
          shape |-> 1, bool |-> 1]

\* The kinds that are several numbers in a row.
Row == [i32x6 |-> [i \in 1..6 |-> "i32"], u16x2 |-> <<"u16", "u16">>,
        u16x4 |-> [i \in 1..4 |-> "u16"]]

write_blob(bytes) == write_varint[Len(bytes)] \o bytes

\* Variants 0 to 3 of ContentRef: none, a colour, a track, an asset.
ContentKind == <<"u32", "u64", "hash">>
write_content_ref(c) ==
    <<c.ref>> \o (CASE c.ref = 0 -> <<>>
                    [] c.ref = 3 -> c.val
                    [] OTHER -> Le(c.val, Width[ContentKind[c.ref]]))

\* The block encoder on a picture so small that the block is one literal run
\* (Lz4Encoder models the others).
write_payload_geom(m, w, h) ==
    CASE m.compression = RAW -> m.pixels
      [] m.compression = LZ4_DELTA ->
             Lz4Short(Lz4Short(Prepared(LZ4_DELTA, w, h, m.pixels)))
      [] OTHER -> Lz4Short(Prepared(m.compression, w, h, m.pixels))

Each(values, Bytes(_)) == FlattenSeq([i \in DOMAIN values |-> Bytes(values[i])])

WriteScalar(kind, v) ==
    CASE kind \in {"str", "bytes"} -> write_blob(v)
      [] kind = "hash" -> v
      [] kind = "bool" -> <<IF v THEN 1 ELSE 0>>
      [] OTHER -> Le(v, Width[kind])

write_draw_cmd(cmd) ==
    <<cmd.op>> \o Each(WriteCommand[cmd.op],
                       LAMBDA f : WriteScalar(CommandFields[cmd.op][f], cmd[f]))

Fields(type) ==
    CASE type \in DOMAIN ControlFields -> ControlFields[type]
      [] type \in DOMAIN MediaFields -> MediaFields[type]
      [] OTHER -> SessionFields[type]

PixelWidth(m) == IF m.type = "RawFrame" THEN m.width ELSE m.w
PixelHeight(m) == IF m.type = "RawFrame" THEN m.height ELSE m.h

WriteField(m, kind, v) ==
    CASE kind = "pixels"   -> write_payload_geom(m, PixelWidth(m), PixelHeight(m))
      [] kind = "content"  -> write_content_ref(v)
      [] kind = "commands" -> write_varint[Len(v)] \o Each(v, write_draw_cmd)
      [] kind \in DOMAIN Row -> Each(v, LAMBDA n : Le(n, Width[Row[kind][1]]))
      [] OTHER -> WriteScalar(kind, v)

encode_payload(m) ==
    LET order == CASE m.type \in DOMAIN WriteControl -> WriteControl[m.type]
                   [] OTHER -> WriteSession[m.type]
        more  == IF m.type = "LayerUpdate" THEN Masked(m.mask, WriteLayerUpdate) ELSE <<>>
    IN  Each(order \o more, LAMBDA f : WriteField(m, Fields(m.type)[f], m[f]))

\* The payload is written behind a one byte length first and moved up when its
\* length needs more.  Nothing here looks at MAX_MESSAGE_BYTES.
encode(m) ==
    LET payload == encode_payload(m)
        out     == write_varint[MESSAGE_TAG[m.type]] \o <<0>> \o payload
        lenPos  == Len(out) - Len(payload)
        length  == write_varint[Len(payload)]
        n       == Len(length)
    IN  IF Len(payload) < 128 THEN [out EXCEPT ![lenPos] = Len(payload)]
        ELSE [i \in 1..(Len(out) + n - 1) |->
                 IF i < lenPos THEN out[i]
                 ELSE IF i < lenPos + n THEN length[i - lenPos + 1]
                 ELSE out[i - (n - 1)]]

----------------------------------------------------------------------------
\* encode_ws_item of the host (web.rs): the frames of a WebSocket are written by
\* hand, uncompressed, with the length of their header spelt out.

WsHeader ==
    [RawFrame |-> <<"ts_us", "width", "height", "stride", "format">>,
     Subframe |-> <<"ts_us", "x", "y", "w", "h", "stride", "format">>]

\* Mutant of WsHeaderBytes: a subframe's header is taken to be as long as a frame's.
WsHeaderBytesSame == [RawFrame |-> 21, Subframe |-> 21]

WsHeaderBytes == [RawFrame |-> 21, Subframe |-> 25]

encode_ws_item(m) ==
    IF m.type \notin DOMAIN WsHeader THEN encode(m)
    ELSE write_varint[MESSAGE_TAG[m.type]]
             \o write_varint[WsHeaderBytes[m.type] + Len(m.pixels)]
             \o Each(WsHeader[m.type], LAMBDA f : WriteField(m, Fields(m.type)[f], m[f]))
             \o <<RAW>> \o m.pixels

----------------------------------------------------------------------------
\* Readers.  Each takes the bytes left and gives a value and what is left then.

\* The number seven bits of each of (at most five) bytes make.
Digit(b, i) == IF i <= Len(b) THEN b[i] % 128 ELSE 0
VarintValue(b) ==
    Digit(b, 1) + 128 * (Digit(b, 2) + 128 * (Digit(b, 3) + 128 * (Digit(b, 4) + 128 * Digit(b, 5))))

read_varint(buf) ==
    LET ends == {i \in 1..Least(Len(buf), 5) : buf[i] < 128}
        n    == IF ends = {} THEN 5 ELSE Min(ends)
    IN  IF Len(buf) < n THEN Err("UnexpectedEof")
        ELSE IF n = 5 /\ (buf[5] >= 16 \/ ends = {}) THEN Err("VarintOverflow")
        ELSE Ok(VarintValue(SubSeq(buf, 1, n)), SubSeq(buf, n + 1, Len(buf)))

\* n bytes, or the error the code gives when they are not there.
Take(n, buf, short) ==
    IF Len(buf) < n THEN Err(short) ELSE Ok(SubSeq(buf, 1, n), SubSeq(buf, n + 1, Len(buf)))

Check(ok, v, e) == IF ok THEN Ok(v, <<>>) ELSE Err(e)

read_blob(buf) ==
    Bind(read_varint(buf), LAMBDA len : Take(len.val, len.rest, "LengthOverflow"))

\* A number, as the value its kind stands for.
Number(kind, v) ==
    CASE kind = "bool"  -> Ok(v # 0, <<>>)
      [] kind = "phase" -> Check(v \in ScrollPhase, v, "InvalidValue")
      [] kind = "layer" -> Check(v \in LayerKind, v, "InvalidValue")
      [] kind = "shape" -> Check(v \in CursorShape, v, "InvalidValue")
      [] OTHER -> Ok(v, <<>>)

ReadScalar(kind, buf) ==
    CASE kind = "bytes" -> read_blob(buf)
      [] kind = "str"   -> Map(read_blob(buf), LAMBDA s :
                               Check(\A i \in 1..Len(s) : s[i] < 128, s, "InvalidUtf8"))
      [] kind = "hash"  -> Take(32, buf, "UnexpectedEof")
      [] OTHER -> Map(Take(Width[kind], buf, "UnexpectedEof"), LAMBDA b : Number(kind, FromLe(b)))

\* One value for each item, in order, with the first error.
ReadSeq(items, buf, Read(_, _)) ==
    FoldLeft(LAMBDA acc, it : Bind(acc, LAMBDA done :
                 Bind(Read(it, done.rest), LAMBDA r : Ok(Append(done.val, r.val), r.rest))),
             Ok(<<>>, buf), items)

read_content_ref(buf) ==
    Bind(ReadScalar("u8", buf), LAMBDA ref :
        IF ref.val = 0 THEN Ok([ref |-> 0], ref.rest)
        ELSE IF ref.val \notin 1..3 THEN Err("InvalidValue")
        ELSE Map(ReadScalar(ContentKind[ref.val], ref.rest), LAMBDA v :
                 Ok([ref |-> ref.val, val |-> v], <<>>)))

\* The fields named, each read by Read(record so far, name, bytes left).
ReadRecord(names, from, Read(_, _, _)) ==
    FoldLeft(LAMBDA acc, f : Bind(acc, LAMBDA m :
                 Bind(Read(m.val, f, m.rest), LAMBDA v : Ok(m.val @@ (f :> v.val), v.rest))),
             from, names)

read_draw_cmd(buf) ==
    Bind(ReadScalar("u8", buf), LAMBDA op :
        IF op.val \notin 1..6 THEN Err("InvalidValue")
        ELSE ReadRecord(ReadCommand[op.val], Ok([op |-> op.val], op.rest), LAMBDA cmd, f, b :
                        ReadScalar(CommandFields[cmd.op][f], b)))

\* The field f of kind kind; m holds the fields before it.
ReadField(m, kind, buf) ==
    CASE kind = "pixels"   -> read_payload_geom(buf, m.compression, PixelWidth(m), PixelHeight(m),
                                                m.stride * PixelHeight(m))
      [] kind = "content"  -> read_content_ref(buf)
      [] kind = "commands" -> Bind(read_varint(buf), LAMBDA count :
                                   ReadSeq([i \in 1..count.val |-> i], count.rest,
                                           LAMBDA i, b : read_draw_cmd(b)))
      [] kind \in DOMAIN Row -> ReadSeq(Row[kind], buf, ReadScalar)
      [] OTHER -> ReadScalar(kind, buf)

ReadFields(names, from) ==
    ReadRecord(names, from, LAMBDA m, f, b : ReadField(m, Fields(m.type)[f], b))

ReadMessage(type, payload) ==
    Bind(ReadFields(IF type \in DOMAIN ReadControl THEN ReadControl[type] ELSE ReadSession[type],
                    Ok([type |-> type], payload)),
         LAMBDA r : IF type # "LayerUpdate" THEN r
                    ELSE Bind(ReadFields(Masked(r.val.mask, ReadLayerUpdate), r),
                              LAMBDA all : Ok(all.val @@ Absent, all.rest)))

decode_payload(tag, payload) ==
    IF \E t \in DOMAIN MESSAGE_TAG : MESSAGE_TAG[t] = tag
    THEN Bind(ReadMessage(CHOOSE t \in DOMAIN MESSAGE_TAG : MESSAGE_TAG[t] = tag, payload),
              LAMBDA m : IF m.rest = <<>> THEN m ELSE Err("TrailingBytes"))
    ELSE Err("UnknownTag")

Incomplete == Err("Incomplete")    \* Ok(None), no error: the frame is not all there yet

\* One message off the front of buf.
decode(buf) ==
    LET Whole(r) == IF r.err = "UnexpectedEof" THEN Incomplete ELSE r
    IN  Bind(Whole(read_varint(buf)), LAMBDA tag :
        Bind(Whole(read_varint(tag.rest)), LAMBDA len :
            IF len.val > MaxMessage THEN Err("MessageTooLarge")
            ELSE IF Len(len.rest) < len.val THEN Incomplete
            ELSE Map(Take(len.val, len.rest, "UnexpectedEof"), LAMBDA p :
                     decode_payload(tag.val, p))))
============================================================================
