----------------------------- MODULE NetThread -----------------------------
(***************************************************************************)
(* The client's side of a TCP connection, gutted-client/src/lib.rs: the    *)
(* network thread (net_main), the thread that writes input events, the     *)
(* optional hold timer, the render loop that owns the window, and          *)
(* run_client, which waits for the network thread.  The bytes on the       *)
(* connection are the real frames of Wire, cut anywhere by the reads.      *)
(*                                                                         *)
(* The same module follows an embedded client, which has no threads and    *)
(* hands the bytes it receives to BrowserCore::ingest_wire_bytes.          *)
(***************************************************************************)
EXTENDS Wire

CONSTANTS Sessions,  \* records: the mode of the client, what the host will write
                     \* (messages) and what the user will do (input events)
          ReadSizes  \* how many bytes a read may give, if that many are there

ASSUME NetAssumption ==
    /\ ReadSizes \subseteq Nat \ {0}
    /\ \A s \in Sessions :
           /\ s.mode \in {"window", "headless", "hold", "embedded"}
           /\ s.script \in Seq(Range(s.script)) /\ s.acts \in Seq(Range(s.acts))
           /\ \A m \in Range(s.script) : m.type \in DOMAIN WsHeader =>
                  DOMAIN m = {"type"} \cup DOMAIN Fields(m.type) /\ m.pixels \in Seq(0..255)

VARIABLES mode,     \* an X11 window, headless, headless with GBROWSER_HOLD_SECS,
                    \* or embedded
          script,   \* what the host will write
          acts,     \* what the user will do
          sent,     \* how many of its messages the host has written
          hostOpen, \* the host keeps the connection open
          down,     \* bytes the host wrote that no read has given
          inbuf,    \* bytes read and not consumed
          applied,  \* messages decoded so far, WELCOME included
          frames,   \* everything sent to the render loop
          net,      \* the network thread: handshake, await, apply, read, ended
          stop,     \* stop_flag, set with the shutdown of the socket
          ui,       \* the render loop: open, closed, returned (run_client too)
          queue,    \* input events on their way to the writer thread
          emitted,  \* events emitted so far
          writer,   \* the writer thread: off, check, recv, ended
          up        \* bytes written to the host

vars == <<mode, script, acts, sent, hostOpen, down, inbuf, applied, frames, net, stop, ui,
          queue, emitted, writer, up>>

env  == <<mode, script, acts>>
host == <<sent, hostOpen>>
user == <<ui, queue, emitted>>

HELLO ==
    [type |-> "Hello", proto_version |-> 1, viewport_w |-> 1280, viewport_h |-> 648,
     dpr_hundredths |-> 100, client_name |-> <<103, 99>>, capabilities |-> 21]

----------------------------------------------------------------------------
\* Messages and the events of the two sides of BrowserCore

\* RenderEvent::from_proto_message: <<>> for a message the client ignores.
from_proto_message(m) ==
    LET Only(names) == [f \in {"ev"} \cup names |-> IF f = "ev" THEN m.type ELSE m[f]]
        Tab == {"TabCreated", "TabClosed", "TabActivated", "TabTitle", "TabUrl"}
    IN  CASE m.type = "Welcome" ->
                 IF m.current_url = <<>> THEN <<>>
                 ELSE <<[ev |-> "InitialUrl", url |-> m.current_url]>>
          [] m.type = "RawFrame" -> <<Only({"width", "height", "stride", "pixels"})>>
          [] m.type = "Subframe" -> <<Only({"x", "y", "w", "h", "stride", "pixels"})>>
          [] m.type = "TileData" -> <<Only({"hash", "pixels"})>>
          [] m.type = "TileRef" -> <<Only({"x", "y", "w", "h", "hash"})>>
          [] m.type = "AudioFrame" -> <<Only({"pts_us", "channels", "sample_rate", "data"})>>
          [] m.type = "CursorState" -> <<Only({"shape"})>>
          [] m.type = "LoadState" -> <<Only({"state"})>>
          [] m.type = "Title" -> <<Only({"title"})>>
          [] m.type = "UrlChanged" -> <<Only({"url"})>>
          [] m.type \in Tab -> <<Only(DOMAIN SessionFields[m.type])>>
          [] OTHER -> <<>>

\* InputEvent::into_proto_message; the clock is left at zero.
into_proto_message(e) ==
    LET As(type, rename, fixed) ==
            [f \in {"type"} \cup DOMAIN rename \cup DOMAIN fixed |->
                IF f = "type" THEN type
                ELSE IF f \in DOMAIN fixed THEN fixed[f] ELSE e[rename[f]]]
        now == [ts_us |-> 0]
        Same(names) == [f \in names |-> f]
    IN  CASE e.ev = "Navigate" -> As("Nav", [url |-> "url"], <<>>)
          [] e.ev = "Resize" -> As("Resize", [viewport_w |-> "w", viewport_h |-> "h"],
                                   [dpr_hundredths |-> 100])
          [] e.ev = "Motion" -> As("InputPointer", [x |-> "x", y |-> "y", modifiers |-> "mods"],
                                   now)
          [] e.ev = "Button" ->
                 As("InputButton", [modifiers |-> "mods"] @@
                        Same({"x", "y", "button", "pressed"}), now)
          [] e.ev = "Key" ->
                 As("InputKey", [keycode |-> "keysym", mods |-> "mods", down |-> "pressed"], now)
          [] e.ev = "Scroll" -> As("InputScroll", [dx_units |-> "dx", dy_units |-> "dy"],
                                   now @@ [layer_id |-> 0, phase |-> 2])
          [] OTHER -> As(e.ev, Same(DOMAIN e \ {"ev"}), <<>>)

\* All complete messages at the front of buf: the messages, the bytes left and
\* whether decoding stopped at an error.
DecodeAll(buf) ==
    LET Step[rest \in Seq(0..255)] ==
            LET r == decode(rest)
            IN  IF Failed(r) THEN [msgs |-> <<>>, rest |-> rest, bad |-> r # Incomplete]
                ELSE LET more == Step[r.rest]
                     IN  [more EXCEPT !.msgs = <<r.val>> \o more.msgs]
    IN  Step[buf]

Events(msgs) == FlattenSeq([i \in DOMAIN msgs |-> from_proto_message(msgs[i])])

----------------------------------------------------------------------------
\* The host, as far as this side sees it

HostSends ==
    /\ hostOpen
    /\ sent < Len(script)
    /\ sent' = sent + 1
    /\ down' = down \o encode(script[sent + 1])
    /\ UNCHANGED <<env, hostOpen, inbuf, applied, frames, net, stop, user, writer, up>>

\* The connection ends; a host that dies may lose the end of what it wrote.
HostCloses ==
    /\ hostOpen
    /\ hostOpen' = FALSE
    /\ \E k \in {0, Len(down) \div 2, Len(down)} : down' = SubSeq(down, 1, k)
    /\ UNCHANGED <<env, sent, inbuf, applied, frames, net, stop, user, writer, up>>

----------------------------------------------------------------------------
\* The network thread

Init ==
    /\ \E s \in Sessions : mode = s.mode /\ script = s.script /\ acts = s.acts
    /\ sent = 0 /\ hostOpen = TRUE
    /\ down = <<>> /\ inbuf = <<>>
    /\ applied = <<>> /\ frames = <<>>
    /\ net = (IF mode = "embedded" THEN "read" ELSE "handshake")
    /\ stop = FALSE
    /\ ui = "open" /\ queue = <<>> /\ emitted = 0
    /\ writer = "off"
    /\ up = encode(HELLO)

\* One read of the socket: some bytes, or the end of the stream.  After the
\* shutdown the bytes that had arrived may be given or not.
Chunk(n) ==
    /\ down # <<>>
    /\ inbuf' = inbuf \o SubSeq(down, 1, Least(n, Len(down)))
    /\ down' = SubSeq(down, n + 1, Len(down))

\* Mutant of AtEof: stopping does not shut the socket down.
AtEofHost == down = <<>> /\ ~hostOpen

AtEof == (down = <<>> /\ ~hostOpen) \/ stop

\* Mutant of Fails: the render loop is not told.
FailsSilently == net' = "ended" /\ UNCHANGED frames

\* net_main returned an error: the closure around it tells the render loop.
Fails ==
    /\ net' = "ended"
    /\ frames' = Append(frames, [ev |-> "Quit"])

\* Mutant of Handshake: the bytes read along with WELCOME are dropped.
HandshakeDrops ==
    /\ net = "handshake"
    /\ \E r \in {decode(inbuf)} :
          IF r = Incomplete THEN net' = "await" /\ UNCHANGED <<inbuf, applied, frames, writer>>
          ELSE IF ~Failed(r) /\ r.val.type = "Welcome"
          THEN /\ inbuf' = <<>>
               /\ applied' = <<r.val>>
               /\ frames' = frames \o from_proto_message(r.val)
               /\ net' = "apply"
               /\ writer' = "check"
          ELSE Fails /\ UNCHANGED <<inbuf, applied, writer>>
    /\ UNCHANGED <<env, host, down, stop, user, up>>

\* read_next_stream: the first frame is looked for after every read.  WELCOME
\* starts the session and the writer thread; anything else ends it.
Handshake ==
    /\ net = "handshake"
    /\ \E r \in {decode(inbuf)} :
          IF r = Incomplete THEN net' = "await" /\ UNCHANGED <<inbuf, applied, frames, writer>>
          ELSE IF ~Failed(r) /\ r.val.type = "Welcome"
          THEN /\ inbuf' = r.rest
               /\ applied' = <<r.val>>
               /\ frames' = frames \o from_proto_message(r.val)
               /\ net' = "apply"
               /\ writer' = "check"
          ELSE Fails /\ UNCHANGED <<inbuf, applied, writer>>
    /\ UNCHANGED <<env, host, down, stop, user, up>>

HandshakeRead ==
    /\ net = "await"
    /\ \/ (\E n \in ReadSizes : Chunk(n)) /\ net' = "handshake" /\ UNCHANGED frames
       \/ AtEof /\ Fails /\ UNCHANGED <<inbuf, down>>
    /\ UNCHANGED <<env, host, applied, stop, user, writer, up>>

\* Every complete message in the buffer goes to the render loop.  An undecodable
\* one stops the loop and stays in the buffer; the session goes on.
Apply ==
    /\ net = "apply"
    /\ \E all \in {DecodeAll(inbuf)} :
           /\ applied' = applied \o all.msgs
           /\ inbuf' = all.rest
           /\ frames' = frames \o Events(all.msgs) \o (IF stop THEN <<[ev |-> "Quit"]>> ELSE <<>>)
    /\ net' = (IF stop THEN "ended" ELSE "read")
    /\ UNCHANGED <<env, host, down, stop, user, writer, up>>

Read ==
    /\ mode # "embedded"
    /\ net = "read"
    /\ \/ (\E n \in ReadSizes : Chunk(n)) /\ net' = "apply" /\ UNCHANGED <<frames, stop>>
       \/ /\ AtEof
          /\ net' = "ended" /\ stop' = TRUE
          /\ frames' = Append(frames, [ev |-> "Quit"])
          /\ UNCHANGED <<inbuf, down>>
    /\ UNCHANGED <<env, host, applied, user, writer, up>>

\* The hold thread, started once the session is.
HoldFires ==
    /\ mode = "hold" /\ ~stop
    /\ net \in {"apply", "read"}
    /\ stop' = TRUE
    /\ UNCHANGED <<env, host, down, inbuf, applied, frames, net, user, writer, up>>

----------------------------------------------------------------------------
\* The writer thread and the render loop

\* The flag is looked at between events, not while the thread waits for one.
WriterChecks ==
    /\ writer = "check"
    /\ writer' = (IF stop THEN "ended" ELSE "recv")
    /\ UNCHANGED <<env, host, down, inbuf, applied, frames, net, stop, user, up>>

\* Mutant of WriterSends: only the newest of the events that wait is written.
WriterSendsNewest ==
    /\ writer = "recv" /\ queue # <<>>
    /\ queue' = <<>>
    /\ up' = up \o encode(into_proto_message(queue[Len(queue)]))
    /\ writer' = "check"
    /\ UNCHANGED <<env, host, down, inbuf, applied, frames, net, stop, ui, emitted>>

\* An event is written, unless the connection is gone: a thread that was waiting
\* for it when the flag was set may still write that one.  The channel of a render
\* loop that has returned is drained and then closed.
WriterSends ==
    /\ writer = "recv"
    /\ \/ /\ queue # <<>>
          /\ queue' = Tail(queue)
          /\ \/ /\ up' = up \o encode(into_proto_message(Head(queue)))
                /\ writer' = "check"
             \/ /\ stop \/ ~hostOpen
                /\ writer' = "ended"
                /\ UNCHANGED up
       \/ queue = <<>> /\ ui # "open" /\ writer' = "ended" /\ UNCHANGED <<queue, up>>
    /\ UNCHANGED <<env, host, down, inbuf, applied, frames, net, stop, ui, emitted>>

UserActs ==
    /\ mode = "window" /\ ui = "open"
    /\ emitted < Len(acts)
    /\ emitted' = emitted + 1
    /\ queue' = Append(queue, acts[emitted + 1])
    /\ UNCHANGED <<env, host, down, inbuf, applied, frames, net, stop, ui, writer, up>>

\* The window is closed by the user (a headless
\* client has none) or the render loop meets Quit.
RenderReturns ==
    /\ ui = "open"
    /\ mode = "window" \/ \E i \in DOMAIN frames : frames[i].ev = "Quit"
    /\ ui' = "closed"
    /\ UNCHANGED <<env, host, down, inbuf, applied, frames, net, stop, queue, emitted, writer, up>>

\* run_client joins the network thread.
Join ==
    /\ ui = "closed" /\ net = "ended"
    /\ ui' = "returned"
    /\ UNCHANGED <<env, host, down, inbuf, applied, frames, net, stop, queue, emitted, writer, up>>

----------------------------------------------------------------------------
\* An embedded client reads when it likes and ingests what it has.

EmbeddedReads ==
    /\ mode = "embedded"
    /\ \E n \in ReadSizes : Chunk(n)
    /\ UNCHANGED <<env, host, applied, frames, net, stop, user, writer, up>>

\* ingest_wire_bytes: an error returns at once, with the messages before it
\* applied and nothing drained.
Ingest ==
    /\ mode = "embedded"
    /\ Len(applied) <= Len(script)    \* bound: a refused buffer is ingested over and over
    /\ \E all \in {DecodeAll(inbuf)} :
           /\ applied' = applied \o all.msgs
           /\ frames' = frames \o Events(all.msgs)
           /\ inbuf' = (IF all.bad THEN inbuf ELSE all.rest)
    /\ UNCHANGED <<env, host, down, net, stop, user, writer, up>>

NetNext == HandshakeRead \/ Handshake \/ Apply \/ Read

Next ==
    \/ HostSends \/ HostCloses
    \/ NetNext \/ HoldFires
    \/ WriterChecks \/ WriterSends
    \/ UserActs \/ RenderReturns \/ Join
    \/ EmbeddedReads \/ Ingest

\* When the network thread has a step: always but while it waits for bytes.
NetCanStep ==
    \/ net \in {"handshake", "apply"}
    \/ net \in {"await", "read"} /\ (down # <<>> \/ AtEof)

\* Threads run; a sleeping timer wakes up; the render loop takes what is in its
\* channel.  Nothing obliges the host to close or the user to close the window.
Spec ==
    /\ Init /\ [][Next]_vars
    /\ []<>~NetCanStep \/ []<><<NetNext>>_vars    \* WF_vars(NetNext), ENABLED spelled out
    /\ WF_vars(WriterChecks) /\ WF_vars(WriterSends)
    /\ WF_vars(HoldFires) /\ WF_vars(Join)
    /\ WF_vars(RenderReturns /\ \E i \in DOMAIN frames : frames[i].ev = "Quit")

----------------------------------------------------------------------------
(***************************************************************************)
(* Properties.                                                             *)
(***************************************************************************)

Fits(m) == Len(encode_payload(m)) <= MaxMessage

\* The messages before the first one the codec accepts to write and refuses to
\* read.
Readable ==
    LET refused == {i \in DOMAIN script : ~Fits(script[i])}
    IN  IF refused = {} THEN Len(script) ELSE Min(refused) - 1

\* m without its compression, as a WebSocket client gets it.
Raw(m) == IF m.type \in DOMAIN WsHeader THEN [m EXCEPT !.compression = RAW] ELSE m

\* The reader of m's tag takes back the payload encode_payload writes of it, field
\* for field and to the last byte.
Decodes(m) ==
    /\ m.type \in DOMAIN MESSAGE_TAG
    /\ encode_payload(m) \in Seq(0..255)
    /\ Len(encode_payload(m)) \div 16777216 < 128
    /\ decode_payload(MESSAGE_TAG[m.type], encode_payload(m)) = Ok(m, <<>>)

\* encode_payload and decode_payload spell the schema out one against the other:
\* whatever either side of a session is to say, compressed or for a WebSocket, the
\* other takes it for what it is.
PayloadsDecode ==
    /\ \A s \in Sessions :
           /\ \A i \in DOMAIN s.script : Decodes(s.script[i]) /\ Decodes(Raw(s.script[i]))
           /\ \A i \in DOMAIN s.acts : Decodes(into_proto_message(s.acts[i]))
    /\ Decodes(HELLO)

\* However the reads cut the stream, what the render loop is given is what the
\* host wrote, in order, each message once and field for field, up to the first
\* message above the limit, after which nothing is delivered at all; and the
\* thread never waits for bytes while it holds a whole message.
DeliversInOrder ==
    \/ mode = "embedded" /\ Readable < Len(script)
    \/ /\ IsPrefix(applied, SubSeq(script, 1, Readable))
       /\ IsPrefix(Events(applied), frames)
       /\ Len(frames) - Len(Events(applied)) \in {0, 1}
       /\ mode # "embedded" /\ net = "read" /\ Len(applied) < Readable =>
              Len(inbuf) < Len(encode(script[Len(applied) + 1]))

\* A WebSocket client gets the same messages: the frames the host writes by hand
\* decode to the frames published, uncompressed, with nothing left over.
WebItemsDecode ==
    sent > 0 =>
        LET m == script[sent]
        IN  Fits(Raw(m)) => decode(encode_ws_item(m)) = Ok(Raw(m), <<>>)

\* The host reads HELLO and then the user's events in the order they happened:
\* what is written is the oldest event not written yet, whole.
InputWritten ==
    up' # up =>
        LET m == into_proto_message(acts[(emitted - Len(queue)) + 1])
        IN  /\ SubSeq(up', 1, Len(up)) = up
            /\ Fits(m) => DecodeAll(SubSeq(up', Len(up) + 1, Len(up'))) =
                              [msgs |-> <<m>>, rest |-> <<>>, bad |-> FALSE]

HostReadsInputs == [][InputWritten]_vars

\* A connection that ends, however it does, ends the client, and so does the
\* hold timer in a session that started: the render loop is told, the network
\* thread is joined and run_client returns.
EndReachesClient ==
    \/ mode # "embedded" /\ ~hostOpen
    \/ mode = "hold" /\ net = "read"
    ~> ui = "returned"

============================================================================
