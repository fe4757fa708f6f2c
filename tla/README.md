# A TLA+ model of ExoBrowserCore

ExoBrowserCore is a remote browser. A host runs WebKit (WPE) off screen and
streams the framebuffer of the active tab to any number of clients, over QUIC,
TCP/TLS or WebSocket. The clients draw what they receive and send back input and
requests for tabs. This directory models both ends in TLA+: how a rendered frame
becomes messages and reaches subscribers of very different speed, how tabs are
created, switched and closed by several connections at once, what a session does
with what a client sends, the wire format and its compression, and the client
from its socket to its window. TLC checks the models on small instances. TLAPS
proves every safety property the runs check, of the host, of the client and of the
codec between them, for instances of every size.

File names without a directory are in `gutted-host-rs/src/` or, for `render.rs`,
in `gutted-client/src/`. All paths are relative to the root of the repository.

## 1. Inventory

| Component | State it keeps | Operations | Modelled in |
|---|---|---|---|
| Frame bus, `FrameBus` (main.rs:34-96) | `last_frames`, `active_tab_id`, a tokio broadcast channel of 256 items | `publish`, `subscribe`, `snapshot` | `Framebuffers`, `FrameBus` |
| Writer tasks: QUIC (main.rs:644-731), TCP (main.rs:934-990), WebSocket (web.rs:152-200) | a receiver of the bus, the item in hand | first snapshot, receive, coalesce, write, resync after a lag | `FrameBus`, `WebSocketWriter` |
| Frame loop (main.rs:226-364) | `force_full`, a batch of frames | one arm per channel from WebKit: frames, loads, titles, urls, cursors | `FramePipeline` (one tab), `HostTabs` (many) |
| `diff_regions`, `update_row_bounds` (main.rs:1118-1265) | local variables | which rectangles of a frame have changed | `DiffRegions`; what callers assume of it: `Framebuffers` |
| Tabs, `HostState` (main.rs:182-421) | tab table behind a tokio mutex, `active_tab_id`, `last_frames` | `create_tab`, `switch_tab`, `close_tab` | `HostTabs`; against the clients: `Browsing` |
| WPE bridge (wpe.rs, `host/gutted_wpe.c`) | per-tab view table on the GLib thread, five channels to the frame loop | start, create, close, load, input, zoom, resize, shutdown; callbacks | start, create, close and frames in `HostTabs` |
| Sessions (main.rs:490-873, 875-1068, web.rs:110-368) | input buffer, last pointer position, reply queue | handshake, dispatch of each client message, replies, the end of a session | `Session` |
| Wire protocol (`gutted-proto/src/lib.rs`) | none (pure) | varints, framing, `encode`, `decode` | `Wire` |
| Pixel compression (`gutted-proto/src/lib.rs`) | none (pure) | LZ4 blocks, subtraction filter, half resolution, payloads | `Lz4`, `Pixels`, `Lz4Encoder` |
| Client network thread (`gutted-client/src/lib.rs`) | input buffer, queues to and from the renderer | connect, read loop, write loop, hold timer, shutdown | `NetThread` |
| Client core, `BrowserCore` (render.rs) | tabs, pending frames and tiles, chrome, omnibox, damage | apply messages, handle input, paint | `BrowserCore`, `ClientWindow`, `Browsing` |
| Audio (main.rs:1313-1359; render.rs) | capture process; player process and clock in the client | capture, publish; play, keep time | not modelled |
| Web client (`web_app.html`) | canvas, tabs | the same in JavaScript | not modelled; the bytes it is sent are in `Wire` |
| C test host, scripts, Docker files | - | - | not modelled |

### How they interact

```
 WebKit thread (GLib)            tokio tasks                           clients
 +--------------+  frames    +------------+  publish  +-----+  recv  +--------+
 | views        | ---------> | frame loop | --------> | bus | -----> | writer | --> stream
 | on_shm_buffer|  titles    +------------+           +-----+        +--------+      |
 +--------------+  urls...     |   ^  take/put           ^   snapshot    ^           v
      ^                        v   |                     |               |      network thread
      |                     last_frames <----------------+---------------+           |
      |  posted calls          ^  clone                          replies |           v
      +------------------ switch_tab / create_tab / close_tab <--- session       window loop
                               | tab table (mutex), active_tab_id   ^        (BrowserCore)
                                                                    |            |
                                                                    +-- input ---+
```

The frame loop is one task. Every connection has a handler task that runs its
requests one after another, and a writer task; a QUIC connection has another task
for datagrams and one for each input stream. The runtime is multi-threaded, so any
two tasks may interleave between any two accesses to what they share. The client
has a network thread, a thread that writes its input, and the thread of the window.

### What is hard in this code

* **The entry of the active tab is taken out of `last_frames` while its frame
  is compared** (main.rs:243 to 256, 274 or 298). A snapshot or a switch in that
  window finds nothing.
* **Coalescing.** A writer drops an item when a newer one covers it. The damage
  that remains must still add up to the current framebuffer for a subscriber at
  any position of the bus.
* **Lag.** The channel overruns slow receivers. `recv` reports it and the writer
  resyncs, but `try_recv` in the inner loop reports it too and there it is taken
  for an empty channel.
* **Damage against a moving base**: resizes, loads (`force_full`), frames that
  replace one another in a batch.
* **`active_tab_id` is read and used in separate steps**, by the frame loop
  (main.rs:238, 333, 346), by `switch_tab`, which sets it before it waits for
  the tab table (main.rs:392-393), and by input that comes on another stream.
* **A mutex is held over several messages** (main.rs:393-409) while the frame
  loop and the other handlers wait for it.
* **Three tables of tabs**, the host's, WebKit's and each client's, change in
  separate steps, and the ids are chosen by the clients, as one more than the largest
  seen, in 32 bits. A call that makes a view may come to nothing, without an error.
* **A client joins at any time** and is told a url, but not which tab is active or
  what any tab is called.
* **Two sources for one stream**: the WebSocket writer takes its first snapshot
  from a queue and chooses between queue and bus at random, and replies share a
  writer with what is published.
* **A schema spelt out three times** (enum, encoder, decoder), and frames that are
  cut anywhere by the reads.
* **Copies kept by hand in the client**: the omnibox is a copy of the active tab's
  url, the stop button of its loading flag, the window of the framebuffer, the
  chrome of the state.
* **Numeric edges** in `diff_regions` (the look-ahead over clean rows, and a scan
  that compares only what lies outside the box found so far) and in the LZ4 block
  format (lengths at exactly the limit of half a token or of a byte).

### What makes each component correct

* Bus and writers: nothing a subscriber needs is coalesced away; control messages
  are neither lost nor reordered; a resync restores the full picture.
* Frame pipeline: a subscriber that has read everything shows the framebuffer of
  the host, and when WebKit stops rendering it gets there.
* `diff_regions`: disjoint, tight rectangles that cover every changed pixel, after
  finitely many steps.
* Tabs: the picture, the title, the url and the announced tab a client has are
  those of the active tab; WebKit has a view for exactly the tabs in the table
  whose calls it got; no request and no loop waits for ever; clients and host agree on the tabs once
  everything has been delivered.
* Sessions: each message is acted on once and in order, each request is answered
  once and in order, input goes to the tab the user had in front, and a session
  that is over leaves nothing behind.
* Codec: what one end encodes the other decodes, field for field, whatever the
  reads do to it; a compressed picture survives.
* Client: what is drawn is the state of the core and what the host sent last; the
  ids it gives are new; a connection that ends ends the client.

## 2. The modules

| Module | What it stands for | Role |
|---|---|---|
| `Framebuffers` | message types, `BusItem`, the `match` of the coalescing loop, the choice between a full frame and subframes | operators only |
| `FrameBus` | `FrameBus` and the writer loop | bus state, one operator per step of a writer |
| `FramePipeline` | the frame loop for one active tab | extends `FrameBus` with the publisher |
| `FrameDelivery` | what bus and writers promise a subscriber | abstract specification; `FramePipeline` implements it |
| `WebSocketWriter` | `handle_websocket` | extends `FramePipeline`: subscribers of both kinds, of which a WebSocket one gets its first snapshot through a queue |
| `HostTabs` | `create_tab`, `switch_tab`, `close_tab`, frame loop with several tabs, the view table | the composition of handlers, loop and WebKit |
| `DiffRegions` | `diff_regions`, `update_row_bounds` | the algorithm, one step per loop iteration; instantiates `Framebuffers` to compare what it returns with what the other modules assume |
| `Session` | the handlers of a QUIC, TCP or WebSocket connection | one connection, from the client's messages to the calls on `HostState` and the replies |
| `Lz4`, `Pixels` | the block format and its decoder, the filters, `read_payload_geom` | operators only |
| `Lz4Encoder` | `lz4_encode_into`, `write_payload_geom` | the encoder's loop, one step per turn, against that decoder |
| `Wire` | every message, draw command and content reference; `encode`, `decode` | operators only; the schema in three tables, as in the code |
| `NetThread` | `gutted-client/src/lib.rs`; `ingest_wire_bytes` | the client's threads over real frames of `Wire` |
| `BrowserCore` | the client's state and handlers | functions from a state to a state |
| `ClientWindow` | `run_x11_loop`, `run_headless_loop` | `BrowserCore` in its event loop, with the window it draws on |
| `Browsing` | - | several `BrowserCore`s against the host's tab table, over queues of requests, published messages and replies |
| `*Proofs` | - | theorems, see section 5 |
| `MC*` | - | bounds and constants for TLC |

### Frames and messages (`Framebuffers`)

A framebuffer is a function from pixel positions to stamps. Every time WebKit
renders, the pixels it changes get a stamp never used before, so two pixels have
equal stamps exactly if they show the same content. Positions outside the frame
have stamp 0, which makes the geometry part of the frame: the comparison of
width, height and stride is a comparison of the positions that are not 0.

A message is one of `raw`, `sub` and `ctl`; `ctl` stands for all messages that
paint nothing (load state, titles, cursor, ...). `px` is the region it repaints and
`pix` the frame it repaints it from. The models identify *which* content a pixel
shows. At what resolution it shows it is left out: regions of 96 000 pixels or more
go out as `LZ4_DELTA_Q2`, which keeps a quarter of the pixels (main.rs:283-284), and
nothing sharpens them when the page comes to rest. `Converged` is not a statement
about sharpness; that such a payload decodes, to colours the picture had, is
`PictureSurvives` of `Lz4Encoder`.

### Bus and writers (`FrameBus`, `WebSocketWriter`)

The broadcast channel is the log of everything sent, of which the last `Capacity`
items can still be read, and a read position (`cursor`) per receiver. `task[s]`
is the program counter of the writer of `s`: `off`, `snapshot` (it owes a
snapshot: on joining and after a lag), `recv` (at `recv().await`), `merge` (in
the `while let Ok(newer) = try_recv()` loop, with item number `hand[s]`). Each
result of `recv` and `try_recv` is an action: `Recv`, `RecvLagged`, `Supersede`,
`WriteAndTake`, `Drain` (Empty), `DrainLagged` (Lagged, treated as Empty).
`screen` and `told` are what the bytes written so far describe; whether the
client has read them yet makes no difference to the host. A write and the step
that leads to it are one action, since nothing shared is read in between. The
exception that matters is modelled: `snapshot()` is a step of its own after the
subscription and after a lag.

`torn`, `skipped` and `since` are ghost variables: they record what happened and
no guard reads them. `torn[s]` says that something a subscriber should have had is
missing and nothing has repainted everything since. There are three ways there,
and the safety properties except these and no others: a lag met inside the inner
loop (run `lag_is_resynced`); a snapshot that found no entry although the host has
a frame, because the loop had it in hand; and, over a WebSocket, items of the bus
written before the snapshot that was queued when the connection was made.

### Frame loop for one tab (`FramePipeline`)

`loop` is the program counter of the frame loop: `idle`, `taken` (the entry of the
tab is out of `last_frames`; main.rs:243), `publish` (the new frame has been
stored and `pending` holds the messages still to go out). `StoreDiff` takes any
set of rectangles that `IsRegions` allows, which is what `DiffRegions` is proved to
return; so nothing here depends on how the rectangles are found. Control messages
(`TabEvent`) come at any place of the loop, as the audio thread and a switch publish
beside it; those that ask for a full frame are the loop's own and come between frames.

### Tabs (`HostTabs`)

`handler[c]` is what the handler of connection `c` is doing. Its places follow
the code: `store` (`active_tab_id`), `lock` (`tabs.lock().await`, the lookup and
the clone of the entry), `raw`, `meta`, `announce` (the messages, sent with the
mutex held), `insert`, `create`, `remove`, `drop`, `close`. `posted` are the calls
on their way to the GLib thread, `live` the views there. That thread comes up beside
the host, which waits for it one second and then goes on (main.rs:199-202), so `ready`
is false at first. Until it is true nothing can be posted; a create is not posted
either for a url with a NUL in it (wpe.rs:223-227), and one that is may find that WPE
makes no view (gutted_wpe.c:383-386). None of this is reported. The ghost `missed`
names the tabs whose last call came to nothing. A `tabs.lock().await`
with no `.await` before its release is one step. `Title` and `UrlChanged` of a
switch are sent in one step: no task reads the one and writes the other. The loop
handles the tabs of a batch in any order, because the batch is a `HashMap`.

The bus is reduced to one client that applies each message as it is published.
What late and coalescing readers see of the same sequence is the subject of
`FramePipeline`. All frames have one size here; resizes are in `FramePipeline`.

`raced` is a ghost: which of picture, meta, announcement and views the last change
of `active_tab_id`, or the last call to WebKit, may have spoiled, because the loop
was between its test of `active_tab_id` and its publication, because another switch
was under way, or because one tab was created and closed at once. The properties
say that *only* these races do harm. The harm is real in each case:

* two switches overlap, and the tab announced last is not the active one;
* the loop tests the active tab, a switch completes, and the url of the old tab
  goes out after that of the new one;
* a switch finds the entry of its tab taken out by the loop, sends no full frame,
  and damage is painted over the picture of the other tab; or it has cloned the
  entry (main.rs:395) and sends it (main.rs:404) after newer damage;
* `close_tab` removes the entry, and a frame of the tab that was still in the
  channel puts it back (main.rs:308). The entry stays, and is what a client would be
  sent if the id were used again.

### Sessions (`Session`)

One connection. `ctrl`, `input` and `dgrams` hold the client's messages, by index
into `sent`, on the stream it sent them by; over TCP and a WebSocket that is one
stream, over QUIC there are three, served by three tasks, and datagrams may be
lost. `done` is the sequence of calls on `HostState`, each with the tab it was about
when it was made; `owed`, `replies` and `got` are a reply on its way from the
handler, through the queue of the writer, to the client. `front`, kept with each
message, is the tab its user had in front.

`open` is how the connection stands to a reader: `eof` for a stream that ended between
messages, `reset` for the one error a reader takes for such an end when its buffer is
empty (main.rs:867-870, 833-834), `error` for any other and for a stream cut within a
message. A reader that meets an `error` returns through `?` before
`writer_task.abort()` (main.rs:993, 1065), and may do so with messages unread. The
handler ends besides on a refused or missing HELLO, a WELCOME that cannot be written, a
message that does not decode and, over QUIC, a heartbeat that cannot be answered
(main.rs:739); a reply to a request that cannot be written is passed over there.

A WebSocket differs in three ways. Its reader ends on every error alike, and aborts the
writer. Several messages may come in one frame, and what stands behind one that does
not decode is dropped with it while the session goes on (web.rs:209): `skip` marks such
a message. And it has no arm for a heartbeat, which falls through to `_ => {}`
(web.rs:366): `Requests` leaves heartbeats out for it. `RepliesInOrder` and `Answered`
except just that.

The level of a `SetZoom` is handed to WebKit as it comes (section 7). What another
client's tabs may do to the tab this one believes in front is in `Browsing`; `Session`
starts with a client that knows the active tab.

### Wire format and compression (`Wire`, `Lz4`, `Pixels`, `Lz4Encoder`)

`Wire` keeps the three places the code spells the schema out as three tables: the
fields and kinds of each variant, the order `encode_payload` writes them in and the
order `decode_payload` reads them in. A round trip succeeds only if they agree.
`encode_ws_item`, which writes the frames for WebSockets by hand, is a fourth.
Bytes are bytes; decoding fails wherever the code's does (`Incomplete`, unknown
tags, bad UTF-8, the limit `MAX_MESSAGE_BYTES`, bytes left over).

`Lz4Encoder` walks the loop of `lz4_encode_into`. The hash table is abstracted: the
candidate it offers may be any earlier position, so the result holds for every table,
collisions included. The sizes of a token and of a length byte are constants, which
lets small pictures reach every edge of the format.

### The client (`NetThread`, `BrowserCore`, `ClientWindow`, `Browsing`)

`NetThread` reads `down`, the bytes of real frames, in pieces of any of
`ReadSizes`. A decode error leaves its bytes in the buffer (lib.rs:358): the
thread goes on reading and delivers nothing any more, which is what
`DeliversInOrder` says. `mode` is a window, headless, headless with the hold timer,
or the embedded client that hands its bytes to `ingest_wire_bytes`, which applies
the messages before an error again each time it is called with them.

`BrowserCore` is a record of the client's fields and one function per handler.
Content is a set of cells, each showing the value of the last frame, subframe or
tile, or `Blank`; urls and titles are sequences of words. `ClientWindow` runs the
handlers as `run_x11_loop` does: the X queue, the network channel, one render. It
puts on `window` only what the damage covers, which is how a missing damage
rectangle would show. `latest`, `wiped` and `overtaken` are ghosts. Tab ids go up to
`TopId`, which stands for 2^32 - 1: the id after it is 0 (`Above`), as in a build that
does not check for overflow; one that does would panic at render.rs:1170. `next_tab_id`
itself does not get there in a run or a proof about what users open, as `MaxTab` bounds
the ids given.

`Browsing` composes clients and host: a request goes up in order and is handled as a
whole, what is published goes to every client that has joined, a reply to the one that
asked, and the writer of a connection sends the two in any order. A client joins at any
time, in the steps of the handshake: `current_url` reads `active_tab_id` (`Hello`) and
then the table, whose url goes out with WELCOME (`Welcome`; main.rs:483-487), and only
then does the handler subscribe (`Subscribe`). It is told no `TabActivated` and no
title, so it starts on its own tab 1 with the url of whatever tab was active. The frame
loop tells a title or url in four steps (`StoreNews`, `TellTab`, `CheckActive`,
`TellActive`; main.rs:325-350), between which a switch may come and put the label of
the old tab on the new one.

Four ghosts name the exceptions of its properties. `hasty`: someone asked while a
request was under way. `askers`: who has asked at all. `elsewhere`: the clients that
joined on another tab than the active one and have been told of no switch since.
`amiss`: the labels a client may have wrong, until they are published again, because
they were news before it joined, because a late `TabCreated` put back the old ones, or
because the loop published them for the tab that was active before.

### Level of abstraction

* `Ordering::Relaxed` accesses to `active_tab_id` are treated as sequentially
  consistent. It is one variable and what is guarded with it is behind mutexes.
* Time stamps, byte counts and logs are left out, but for the fields of messages.
* Poisoned mutexes (`lock().ok()`) are left out: no code panics while it holds one.
* `publish` encodes outside any lock; encoding has no effect on state.
* Replies (`TabCreated`, `TabClosed` and the second `TabActivated` of main.rs:790)
  go to the connection that asked and not over the bus: they are in `Session` and
  `Browsing`, not in `HostTabs`.
* Numbers of the protocol stay below 2^31 and text is ASCII, so that a byte above
  127 is what is not UTF-8.
* Counters of renders (toast, audio button) have small constants in place of 60
  and 30. They count renders, not time, as in the code (render.rs:1836): a toast
  stays as long as nothing else asks for a redraw.

## 3. The runs

| Run | Instance | Properties |
|---|---|---|
| `pipeline` | 1 subscriber, 3 pixels in a column, two sizes, 3 frames, 1 control message, capacity 2, at most 1 region (1.1 million states) | `BacklogFresh`, `ScreenFresh`, `Converged`, `ControlComplete`; `ImplementsDelivery` |
| `connections` | a QUIC or TCP subscriber and a WebSocket one, 2 pixels, 2 frames, 1 control message (0.27 million) | `WsConverged`; `CatchesUp` under fairness |
| `tabs` | 2 connections, 2 tabs, 2 pixels, 3 stamps, 2 requests (2.7 million, symmetric in the connections and in the pixels) | `PictureOfActive` |
| `tab_requests` | 2 connections, 2 tabs, urls, no frames, 2 stamps, 2 requests | `AnnouncedUnlessRaced`, `MetaOfActive`, `ViewsMatchTabs`; `RequestsFinish`, `LoopServes` under fairness |
| `diff` | every difference of two 2x13 frames in at most 4 rows, `Gap` 1 (0.61 million) | `ReturnsRegions`, `Tight`, `Apart`, `Returns` |
| `sessions` | one session of each transport, 3 messages out of 10, another client's switch, a reply queue of 1 | `InputHitsTab`, `ScrollAtPointer`, `RepliesInOrder`, `HelloFirst`, `OrphanOnlyAfterError`; `Answered` under fairness |
| `lz4` | pictures with and without repeats, all three compressions, half a token 13, a length byte 4 | `PictureSurvives`, `Encodes` |
| `client` | one session per kind of host message and of input event, plus oversized and undecodable ones, reads of 3 and 64 bytes | `DeliversInOrder`, `WebItemsDecode`, `HostReadsInputs`, `EndReachesClient` |
| `browsing` | 2 clients that join, 3 ids, 3 requests, or 2 and a title or url (2.8 million, symmetric in the clients) | `ActiveAgrees`, `TabsAgree`, `LabelsAgree` |
| `strip` | 1 cell, two tabs at once, ids up to a largest one of 3, keys, clicks and every tab message | `ChromeFresh`, `TabIdsFresh`, `TypingKept`, `OmniboxFollows`, `StopIsOfActive` |
| `screen` | 2 cells, two sizes, frames, subframes, tiles, exposures; with a window, headless, and with a screenshot | `DamageCovers`, `ContentIsLatest`, `ShotIsLatest` |

What each shows is said with it in `PROJECT.json`. Bounds, and why the interesting
cases happen within them:

* `MaxStamp`: frames rendered (in `HostTabs`: also titles, urls and tabs created,
  which take a stamp each). Three frames give a first frame, damage, and damage
  over damage while a subscriber still holds the first.
* `Capacity` 2: with three frames of up to two messages and a control message a
  receiver is overrun by one item, by several, while in `recv` and while in
  `merge`, and both before and after its first read.
* `MaxRegions` 1: with three pixels a frame may have no region, one, or the two
  that make it `TooMuch`; a region of two pixels is short of the 80 percent and
  goes out as a subframe.
* Two sizes of the column: growing and shrinking.
* `MaxRequests`, `MaxQueue`: two requests are enough for two overlapping
  switches, for create against close of one tab, and for a switch away and back;
  two queued frames give batches of two tabs and batches that replace a frame.
  `tab_requests` has no frames, and urls for the loop to tell.
* Diff: 13 rows with at most four dirty ones reach both branches (13 is the
  smallest height with three dirty rows below a quarter: three runs, two joined
  runs, and with four the fast path). Two columns suffice for a box that grows to
  either side and for one that is as wide as the frame.
* Sessions: HELLO and two messages, or three before or without one; of two replies
  one fills the queue of one while the handler holds the other.
* Lz4: 13 is the least half a token may be, as the encoder writes the length of an
  input shorter than 13 into it; with a length byte of 4 instead of 255, runs of
  literals and matches with no length byte, with one and with several occur in
  pictures of a few pixels.
* Client: 3 is shorter than every header, 64 longer than most frames, so a frame is
  cut in each of its parts and several come in one read. `MaxMessage` 180 is
  exceeded by one message of the sessions marked oversized.
* Browsing (`MaxEvents` 3): three requests of two clients overlap in pairs and follow
  one another, reach ids both clients have chosen, and come before and after the other
  one joins. With a title or url there are two of them: a tab opened, and a switch away
  that meets the loop between two of its steps.
* Tab ids: with 3 for the largest, the client gives 2 and the host announces 2 and 3,
  before and after the client has had them and with the strip full or not. `StripSpec`
  keeps the strip at two tabs.
* Strip and screen: one tab message, key or click between renders, respectively two
  frames, tiles or resizes; more of them repeat handlers whose results the state
  already shows.

`CHECK_DEADLOCK FALSE` is set where the bounds, the end of a connection, the close
of a window or the return of a function ends a behaviour.

One run looks for a violation of what the repository says, and TLC finds it:
`lag_is_resynced`, that a lagging subscriber is resynced by a snapshot (main.rs:715).
`try_recv` reports the lag inside the coalescing loop and no snapshot follows.

## 4. Fairness

* Frame loop: weak fairness of `FinishFrame` and, in `HostTabs`, of `LoopStep`. A
  spawned task that can go on is polled again; none of these steps waits for
  anything.
* Writers: `WF_wsVars(WsWrite(s))` (in `WebSocketWriter`, for both kinds), that is a
  subscriber whose peer goes on reading. A peer that stops for good blocks
  `write_all`; that is `Disconnect` or nothing, and nothing is promised to it.
* `tabs.lock().await`: strong fairness for `StoreMeta` and `Locking(c)`. tokio's
  mutex is fair: waiters queue and get it in order, so one who waits while it is
  released again and again gets it.
* WebSocket: strong fairness for `WriteQueued`. `select!` polls its branches in
  random order, so a queue that is ready again and again is taken from.
* `Session`: weak fairness of the handler's steps, of the writer and of the input
  task. The client reads what it is sent as long as it is there; it may go at any
  time, and `WriterNotices` is not forced.
* `NetThread`: the network thread steps whenever it can (weak fairness with the
  enabling condition spelled out, since a decode inside ENABLED is slow to
  evaluate), the writer thread runs, a sleeping timer wakes up, `join` returns, and
  the render loop takes a Quit that is in its channel. The host need not close and
  the user need not close the window.
* `Lz4Encoder`, `DiffRegions`: weak fairness of the one loop there is.
* None is assumed of WebKit, of the clients' requests, or of connections.

## 5. What is proved

Every theorem holds for all values of the constants that satisfy the assumptions
named in the modules, which TLC evaluates in every run. They say: capacities are
positive, rectangles and sizes are sets of pixels, `NoFrame` is not a frame,
`Nobody` not a connection, the first tab is a tab, and (in `Session` and
`ClientWindow`) the messages of the other end have the fields the handlers look at. Of
the client it is assumed besides that the levels of zoom and the counters of renders
are positive, that there is a largest tab id, which no id of the host exceeds, that a
screenshot waits for some frame, that what the host sends lies in
the content area, and that no content has the value that stands for a blank. Of the
format: half a token is at least 13 and at most 15, a length byte at most 255, and the
message limit fits four bytes (`Lz4Assumption`; the code has 15, 255 and 16 MiB); a
picture has a byte for each channel of each pixel, and its block is no longer than a
message (`PicturesAssumption`: the decoder refuses more, see section 7); reads give
bytes, and the frames of a session have their fields and bytes for pixels
(`NetAssumption`).

The three theorems about `NetThread` have a hypothesis besides, `PayloadsDecode`: each
message of a session, compressed as it is or raw, and each input event is taken back by
the reader of its tag, field for field and to the last byte. It says that the tables of
the encoder and of the decoder agree, and is the one fact about the codec that is
checked and not proved: `MCNetThread` has TLC evaluate it of every kind of message,
draw command, content reference and input event (with another opacity in `Absent`, for
instance, it is false). Everything from there on (tags, lengths, frames, buffers, reads,
threads) is proved.

| Theorem | States | Of |
|---|---|---|
| `FramePipelineProofs!TypeCorrect` | `TypeOK` | `FramePipeline` |
| `BacklogIsFresh`, `ScreenIsFresh`, `PictureConverges` | `BacklogFresh`, `ScreenFresh`, `Converged` | `FramePipeline` |
| `ControlIsComplete` | `ControlComplete` | `FramePipeline` |
| `PipelineDelivers` | `ImplementsDelivery` | `FramePipeline`, `FrameDelivery` |
| `WebSocketsConverge` | `WsConverged` | `WebSocketWriter` |
| `DiffRegionsProofs!TypeCorrect` | `TypeOK` | `DiffRegions` |
| `RegionsAreReturned`, `RegionsAreTight`, `RegionsAreApart` | `ReturnsRegions`, `Tight`, `Apart` | `DiffRegions` |
| `SwitchesAreAnnounced`, `MetaIsOfActive`, `ViewsAreOfTabs` | `AnnouncedUnlessRaced`, `MetaOfActive`, `ViewsMatchTabs` | `HostTabs` |
| `PictureIsOfActive` | `PictureOfActive` | `HostTabs` |
| `RepliesAreInOrder`, `InputsHitTheirTab`, `ScrollsAreAtPointer`, `HelloComesFirst`, `OrphansNeedAnError` | `RepliesInOrder`, `InputHitsTab`, `ScrollAtPointer`, `HelloFirst`, `OrphanOnlyAfterError` | `Session` |
| `TabIdsAreFresh`, `ChromeIsFresh`, `DamageIsCovered`, `ContentIsTheLatest` | `TabIdsFresh`, `ChromeFresh`, `DamageCovers`, `ContentIsLatest` | `ClientWindow` |
| `TypingIsKept`, `OmniboxIsFollowing`, `StopIsOfTheActive`, `ShotIsTheLatest` | `TypingKept`, `OmniboxFollows`, `StopIsOfActive`, `ShotIsLatest` (of steps) | `ClientWindow` |
| `ClientsAgree`, `ClientHasTheTabs`, `ClientHasTheLabels` | `ActiveAgrees`, `TabsAgree`, `LabelsAgree` | `Browsing` |
| `PicturesSurvive` | `PictureSurvives` | `Lz4Encoder` |
| `DeliveredInOrder`, `InputsReadInOrder`, `WebItemsDecoded` | `DeliversInOrder`, `HostReadsInputs` (of steps), `WebItemsDecode` | `NetThread` |

So every safety property that a run checks is also a theorem. `RegionsAreReturned` closes the
gap between two of the modules: `FramePipeline` and `HostTabs` let the loop pick any
rectangles `IsRegions` allows, and `diff_regions` returns none others.

### The picture converges (`FramePipelineProofs`)

The inductive invariant is `IInv == Shape /\ \A s \in Subscribers : FreshFor(s)`.
`Converged` alone is not inductive: it says nothing of a subscriber that is behind.
Its strengthening speaks of each pixel of each subscriber, at any distance from the
end of the bus:

* `BacklogFreshFor(s)`: of the items `s` has in hand or has yet to read, the last
  that repaints a pixel carries the content the host has for it.
* `ScreenFreshFor(s)`: a pixel no such item repaints is right on the screen.

Both except the pixels the loop is about to publish, and speak of the frame the
loop *removed* while it compares (`Shown`). `Shape` adds what the control flow
guarantees: an item is in hand exactly in the inner loop and precedes the read
position (`ReaderOK`), raw frames cover every pixel and what is pending belongs to
the stored frame (`MessagesOK`), and which of the loop's variables are set where
(`LoopTypeOK`).

A step of the loop that stores a frame changes `Shown` only where damage is pending
(`FreshStored`); a publish appends a message with the content of the host and takes
it out of `pending` (`FreshPublished`). A step of a writer turns the backlog into a
suffix of itself (`BacklogSuffix`), so last covers remain last covers. Where it
writes, a pixel repainted by the item in hand and by nothing later was a last
cover, hence fresh (`PaintFresh`). Where it drops the item in hand, everything the
item repaints is repainted by its successor (`SupersedesCovers`). A lag either
leads to a snapshot, which equals `Shown`, or sets `torn`. These steps are proved
for any state in which a subscriber's variables stay (`LoopStepKeeps`,
`SubscriberStepKeeps`, `OtherStepKeeps`), so the proof of
`WebSocketsConverge` uses them again. When the backlog is empty and nothing is pending, `ScreenFreshFor` is
`Converged`.

`ControlIsComplete` has an invariant of its own: what `s` was told is what it was due
(`ToldTo(s) = DueTo(s)`), everything told and skipped is below the read position,
and what is told next is above what was told.

### The promise behind it (`FrameDelivery`)

`FrameDelivery` says what a subscriber gets without the writer's two loops or the
places of the frame loop: the messages sent since it joined, one at a time, in their
order and at most once; a frame may be left out only when the very next message
repaints all of it, anything else only by falling more than `Capacity` messages
behind, and then no more than the overrun; and between messages the picture the host
holds, and no other. It has its own criterion of what may be left out (`Hidden`), not
that of the code (`Supersedes`).

`FramePipeline` implements it with `Shown` for the picture and `Delivered(s)` for how
far `s` has come: everything before the item in hand, or before the read position
when there is none. `Recv` is then a stutter, `Supersede` an omission, `WriteAndTake`
and `Drain` a delivery, `DrainLagged` a delivery that ends in an overrun, a snapshot a
refresh or, while the entry is out of `last_frames`, a stutter. The proof needs
`Shape` and that the inner loop looks at the position right after the item in hand
(`HandOK`). `Converged` and the ghost variables speak of what the subscriber ends
with; the refinement rules out what they do not see, for instance a writer that
answers a lag by subscribing anew and loses what the bus still keeps for it. The late
snapshot of a WebSocket writer is outside this promise: it may be an older picture
(see `torn` in `WebSocketWriter`).

### The queue of a WebSocket (`FramePipelineProofs`)

`WebSocketsConverge` replaces `ScreenFreshFor` by `QueuedFreshFor` as long as
the first snapshot waits in the queue and nothing of the bus has been read: until
then the snapshot stands for the screen.

### Rectangles (`DiffRegionsProofs`)

`IInv` follows the phases of the scan. Runs begin and end with a dirty row and are
followed by more clean rows than the look-ahead spans (`IsRun`); the runs found, the
run in hand and the rows to come are in order (`SeekOK`, `GrowOK`, `RunsOK`); the
box of the rows looked at bounds their differences and touches one on either side
(`IsBox`, `BoundOK`), although `update_row_bounds` compares only what lies outside
the box (`BoundsOfRow`); and no dirty row is passed over (`Covered`), where the inner
loop moves `y` by more than one (`NearestAhead`).

### Tabs (`HostTabsProofs`)

Each property of `HostTabs` holds unless `raced` names it. Its invariant says what
is true in the middle of requests that no race has spoiled:

* `AnnounceInv`: every switch under way is for the active tab, and what has been
  announced is right or one such switch has yet to announce. `Settling` is the
  time in which the active tab is not in the table or is about to be made active
  by its creator.
* `MetaInv`: title and url shown are those of the table but for the one the loop is
  about to tell, or a switch has yet to send them.
* `ViewInv`: once the posted calls have run WebKit will have a view for a tab exactly
  if the table has it (`WillHaveView`), or a handler is between the two steps, or the
  last call for the tab came to nothing.
* `PictureInv`: the loop has frames of none but the active tab in hand, and none while
  a switch has its `RawFrame` still to send; only one switch has, and its copy is
  the entry of the active tab; if there is none, the client's picture is right,
  except for what the frame in hand is about to publish (`PictureRight`).

They need one another (`MetaInv` needs that there is one switch, `PictureInv` needs the
shape of the loop), so they are one induction.

### Sessions (`SessionProofs`)

`Streams` says that each queue holds exactly the unread messages of its stream, in
order (`OnStream`). On it rest `Order` (a call is of a message that has been read, and
no two are of one: acting is once and in order), `PointerInv` (a task's
`last_pointer` is where the last move read from its stream went), `FrontInv` (the
messages that wait form a chain from the active tab to the tab the user has in
front, `Chain`), `GreetInv` (the first message on the control stream is a HELLO, or
nothing has happened but QUIC's input), `OrphanInv` and `ReplyInv`: what reached the
client, what is in the channel and what the handler is about to send rise, in this
order, and are together all the answers due.

### The client (`BrowserCoreProofs`, `ClientWindowProofs`)

The handlers of `BrowserCore` are functions from a state of the core to the next, so
what they keep is proved of the functions, from any well-formed state (`CoreOK`: the
tabs of the strip have distinct ids below the next one, and no tab has a buffer).
There is a lemma for each operator the handlers share (`SetTab`, `Leave`, `Enter`,
`ShowUrl`, `Redraw`, `emit_input`) and one for each handler: that of a host event about
the strip shows `Told`, that of a key or click `Requested`. Both say of a handler that

* it changes the strip and no picture, and raises dirty flags but never clears one
  (`Moves`, `Raised`);
* it sets `chrome_dirty`, or changes nothing that `draw_chrome` reads (`Redrawn`);
* the omnibox follows the active tab if it did, and the stop button too, or the
  handler is one of the exceptions the property names;
* and, for `Told`, what is being typed stays (`TypingSafe`).

The last three are `ChromeFresh`, `OmniboxFollows`, `StopIsOfActive` and `TypingKept`
but for the loop around the handlers.

The pictures need an invariant of the loop, since the core draws later than it
receives. `IInv` of `ClientWindowProofs` says for each cell not `overtaken` what
`render_into` would draw there now: the tile that covers it last, else the subframe
that does, else the one frame that waits, else, when all is to be repainted, a blank,
else nothing, and then what is in the framebuffer is right already, or is the toast
(`TileOK`, `SubframeOK`, `BelowOK`). Whichever it is, it is what the host sent last.
`ShownOK` carries that to the window, `ChromeOK` does the same for the chrome, and
`PendingOK` gives the facts on the queues both rest on: tiles that wait are in the cache, a
frame that waits comes with a full repaint, and the X queue is served only when
nothing waits. `ShotOK` says that a headless core which has seen enough frames for its
screenshot has one to draw. `ContentIsLatest` is not inductive without the cell by cell
part, as it speaks only of moments when nothing waits.

### Clients and host (`BrowsingProofs`)

All three properties of `Browsing` are about moments when nothing is under way, so the
invariant has to say what the queues will still do.

* Of a client that has not joined (`JoinOK`): nothing is on its way to it but WELCOME.
* Of the tabs of a client that is alone (`TabsInv`): a tab only the client has is still
  to be created, or its `TabClosed` is on its way; one only the host has is still to be
  closed (`DifferenceOK`). For this to last, an id asked for must be new to table and
  replies, and be closed after it is opened if the client has closed it (`OpeningOK`),
  a `TabCreated` on its way for a tab that is gone is followed by its `TabClosed`
  (`ClosingOK`), and the id given next must be above every id in either table or in any
  queue (`NextIsNew`), which is where it matters that the client counts up and has not
  come to the largest id.
* Of the active tab, when one thing is asked for at a time (`ActiveInv`): what is up is
  one request, or the close of the active tab and the switch that goes with it
  (`RoundOK`); no news of an earlier activation are left when a request that activates
  a tab is under way (`ActiveNews`); and when none is, a client that has joined has the
  active tab or the news of it before it, or is one of `elsewhere` (`WillAgree`).
* Of the labels (`LabelsInv`): the last event in the queue that will set a label carries
  the right text, and if there is none the label is right (`LabelRight`). Which events
  those are depends on the active tab of the client, as `Title` and `UrlChanged` carry
  no id (`OnLabel`), so the client's active tab must not change while they wait: it is
  the one asked for last (`FrontOK`). Excepted (`Excused`) are the labels in `amiss`,
  those of the tab it is about to make active at the host, until the announcement of the
  switch sets both, and the one the loop has stored and not told. What the loop tells is
  what the table has (`PageOK`).

Each action is first reduced to what it does to queues, strips and table (`UserIs`,
`HandleIs`, `HelloIs`, `WelcomeIs`, `SubscribeIs`, `StoreNewsIs`, `TellTabIs`,
`TellActiveIs`, `BroadcastIs`, `ReplyIs`, on top of a lemma per handler of the strip),
then each part of the invariant is shown to be kept by each kind of step. What another
client does leaves a client that is alone untouched (`UntouchedInv`).

### Pictures (`WireProofs`)

`PictureSurvives` speaks of the end of the encoder's loop, so the invariant has to say
what a block is good for that is half written. `Reads(out, input, anchor)` says it in
terms of the decoder: whatever bytes follow `out`, the decoder gets to the end of `out`
with the first `anchor` bytes of `input` and goes on from there. TLC cannot evaluate it,
as it speaks of all continuations; `CodecInv` adds the bounds of `ip` and `anchor`
(`Encoding`) and, for the second pass of `LZ4_DELTA`, that the first block decodes to
its input.

* What is written as a length is read as that length (`LenRead`, `TokenRead`), so the
  opening of a sequence is read (`OpeningRead`), a sequence with its match
  (`SequenceRead`) and the last literals (`LastRead`). A match repeats what is already
  there, overlapping itself or not (`ReadsMatch`), and this is where the two bytes of the
  distance matter: an earlier form of `MatchFrom` left out the check of the main loop
  (lib.rs:1440) as no picture of a run is that large, and the proof could not be
  completed until it was put in.
* A block grows by no more than a byte for every `LenMax` bytes of data and six at the
  ends (`SequenceSize`, `LastSize`), so the second pass of `LZ4_DELTA` is still a
  message.
* The filters: adding up undoes subtracting (`Unfiltered`), and a mean lies within the
  bounds of its terms (`MeanWithin`), which carries through half resolution and back
  (`Downsampled`, `Upsampled`).

The decoder's loop, the sums of the filter, `write_varint`, the joining of sequences
(`FlattenSeq`) and `DecodeAll` are recursive functions. That each is defined, and
unfolds as it is written, is proved first (`LoopUnfolds`, `VarintUnfolds`,
`JoinedUnfolds`, `DrainUnfolds`): its restrictions to arguments up to k exist for every
k, and agree. The induction goes over the least number for which a statement fails
(`HasMin`, from the well-foundedness of the natural numbers in the library), as a
theorem with an operator as parameter cannot be instantiated.

### Messages (`WireProofs`)

`FrameRead` says that a whole frame at the front of a buffer is read back and leaves
what follows it, or is refused for its length; `FrameCut` that a frame cut off anywhere
is waited for, or refused for its length: the first groups of a varint do not look like
another varint, nor the first bytes of a frame like a shorter frame. Every read and every
position of the cut in `DeliversInOrder` reduces to these two.

The invariant of a session, `SessionInv`, is about `Held(s, n, open, b, x, k)`: buffer
`b` and connection `x` together hold the bytes of messages k+1 to n of `s`, all of them
while the connection is open and a part from the front once it has closed. Sending adds
to `x` (`HeldSend`), a read moves bytes to `b`, closing cuts off the end, decoding one
message takes it off `b` and makes k one more (`HeldTakes`), and draining does so as
often as it can (`HeldDrains`). With `Held`, `NetInv` says that the messages applied are
the first k of the script and the render loop has exactly their events, with the Quit
behind them once the thread has ended. Beyond a message above the limit an embedded client
may apply messages twice, and the invariant says nothing of it, nor does the property.
`QueueInv` says that the queue holds the newest of the events emitted, in order, from
which `InputsReadInOrder` follows with `FrameRead`.

`WebItemsDecoded` compares the two writers of a frame: `ItemSame` shows that the bytes
`encode_ws_item` puts together by hand are those `encode` writes of the message without
its compression, the length of the header and the order of its fields included, for any
pixels.

Two of the properties were too strong as they stood, which no instance showed: an event or
a frame whose payload exceeds the limit is written all the same and refused by the other
end. `HostReadsInputs` and `WebItemsDecode` now ask for what fits (`Fits`), as
`DeliversInOrder` did before.

## 6. What is only model-checked

* All liveness (`CatchesUp`, `RequestsFinish`, `LoopServes`, `Returns`,
  `Answered`, `Encodes`, `EndReachesClient`): fairness and ENABLED
  are beyond the prover.
* `PayloadsDecode`, the hypothesis of section 5: that the schema's three tables agree is
  one fact for each of some forty kinds of messages, of which TLC evaluates one message
  or several each.

## 7. What is not modelled, and why

* Fonts, glyphs and rounded rectangles: pixels without state. The colour of a cell of
  the strip is abstracted to what it shows.
* The Redox loop of the client repeats the X11 loop against another window system. The
  lookup of an X11 keymap is a table of the server.
* The remaining calls into WebKit (zoom, resize, keys, pointer, clearing of data) are
  one posted argument each. Shutdown of the runner happens once.
* The dot drawn for `GBROWSER_SYNTH_CURSOR`, without damage (render.rs:1988): an aid to
  debugging. The smallest size of a window (render.rs:1030-1031): sizes in the models are
  the ones after it.
* A client whose counter of tab ids has reached the largest one: it would take more than
  four thousand million tabs, or one announced with that id less one.
* Audio: capture reads a child process in pieces of fixed size and publishes them;
  output writes to the pipe of another. The write blocks (render.rs:555), on the
  thread that draws. `AVClock` converts one clock into another and only its unit
  test calls `schedule_video`.
* TLS, QUIC, the pinning of certificates, name resolution: libraries and set-up.
* The web client repeats the client core in a browser page; C test host, demo scripts,
  network shaper, profiler, Docker files.

Two more places where the code does not do what the repository says of it. The models
follow the code there, and the properties take it as it is:

* main.rs:38-39: "`snapshot()` always reads the active tab's latest full framebuffer
  from `last_frames`". The frame loop has that framebuffer out of `last_frames` from
  main.rs:243 to 256, 274 or 298, and a subscriber that joins or resyncs then is sent
  none (`torn` in `FramePipeline`).
* `gutted-proto/src/lib.rs:290-291`: "Host clamps to [250, 5000]". The level of a
  `SetZoom` goes through main.rs:749-752 and 1007-1008, web.rs:306-308, main.rs:454-457
  and `gutted_wpe.c:782` to WebKit as it came.

Some facts of the code met on the way, which no text of the repository speaks of
and which are therefore in no property:

* A button pressed over the page and released over the strip is not reported as
  released to the host (render.rs:1442).
* `outbound_inputs` is filled by every event and drained only by an embedding
  program (render.rs:977); the program with threads of its own never drains it.
* `canonicalize_url` tells a port from a scheme by digits (render.rs:340).
* A headless client with no screenshot to take forgets frames and damage undrawn
  (render.rs:2093).
* Large regions are sent at half resolution and never sharpened (main.rs:283).
* A full frame is sent compressed whatever its size (main.rs:274), and `lz4_decode`
  compares the uncompressed size with the message limit: a window of more than 16 MiB of
  pixels (2560x1440 is below, 3840x2160 above) gets no full frame.
* `ingest_wire_bytes` applies the messages before an error again if it is called again
  (render.rs:1003).
* `active_buf` and `tab_composites` are moved about by every change of tab and never
  filled: nothing constructs a `TabBuffer` (render.rs:859, 1503; `NoBuffers`).

## 8. What is left

* `Browsing` with the bus of `FrameBus` in place of its queues: a client that lags while
  tabs change. The state space is too large for TLC without an invariant that reduces
  it first.
* The audio clock, once something schedules by it.

## 9. Running it

```
tlasany FramePipeline.tla
tlc -workers 2 -config Pipeline.cfg MCFramePipeline.tla
tlapm FramePipelineProofs.tla
```

Every run takes less than three minutes on two workers. `tlapm` needs about fifteen
minutes for `WireProofs`, four to five for `BrowsingProofs`, and less for each other
proof module.
`PROJECT.json` lists the runs with their modules and configurations, the source
lines each definition stands for, a mutation of the model that breaks each
checked property, the hazards of the code with the properties that cover them,
the theorems and the findings. The operators called "Mutant of ..." in the modules
are those mutations and are used nowhere else.
