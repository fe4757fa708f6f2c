------------------------------ MODULE Session ------------------------------
(***************************************************************************)
(* The host's side of a connection: the handlers of a QUIC connection      *)
(* (handle_connection, handle_ctrl_stream, handle_input_stream), of a TCP  *)
(* connection (handle_tcp_connection) and of a WebSocket (web.rs), from    *)
(* the client's messages to the calls on HostState and the replies.  What  *)
(* the bus carries, and its order against the replies, is in FramePipeline *)
(* and Browsing.                                                           *)
(*                                                                         *)
(* Over TCP and a WebSocket everything comes in one stream.  Over QUIC the *)
(* control messages, the input events and the motions sent as datagrams    *)
(* come to three tasks, and datagrams may be lost.                         *)
(***************************************************************************)
EXTENDS Integers, SequencesExt, FiniteSetsExt

CONSTANTS Kinds,     \* of connection: subset of {"tcp", "ws", "quic"}
          Messages,  \* what a client may send, next to HELLO
          Tabs,      \* the tabs of the host
          MaxSent,   \* bound: messages of the client
          ReplyQueue \* capacity of the TCP reply channel (64)

ASSUME SessionAssumption ==
    /\ Kinds \subseteq {"tcp", "ws", "quic"}
    /\ Tabs # {}
    /\ {MaxSent, ReplyQueue} \subseteq Nat \ {0}

\* via, front and skip are added to a message when it is sent.
ASSUME MessageAssumption ==
    \A m \in Messages :
        /\ "type" \in DOMAIN m /\ {"via", "front", "skip"} \cap DOMAIN m = {}
        /\ m.type = "Hello" => m \in [type : {"Hello"}, version : Nat, size : Nat]
        /\ m.type \in {"CreateTab", "CloseTab", "SwitchTab"} =>
               "tab_id" \in DOMAIN m /\ m.tab_id \in Tabs

VARIABLES kind,     \* of this connection
          sent,     \* the client's messages, in the order it sent them, each with the
                    \* stream it went by, the tab the client had in front of it and
                    \* whether it is lost behind one that does not decode
          open,     \* yes; eof: closed between messages; reset: reset there; error: any
                    \* other read error there, or the end within a message
          ctrl,     \* messages on the control stream that no task has read
          input,    \* and on QUIC's input stream
          dgrams,   \* datagrams on their way
          handler,  \* of the control stream: hello, serve, done, failed
          inputTask, \* of the input stream: run, done, failed
          writer,   \* off, run, ended
          owed,     \* the reply the handler is about to send
          replies,  \* the reply channel
          got,      \* the replies that reached the client
          active,   \* active_tab_id
          pointer,  \* last_pointer of each task
          done,     \* the calls on HostState, in order
          meddled   \* another client has switched tabs

vars == <<kind, sent, open, ctrl, input, dgrams, handler, inputTask, writer, owed,
          replies, got, active, pointer, done, meddled>>

client == <<kind, sent, open>>
back   == <<writer, replies, got>>

Motions == {"InputPointer"}
Inputs == {"InputPointer", "InputButton", "InputKey", "InputScroll"}

\* What a client is answered; a WebSocket's heartbeats are read and dropped.
Requests == {"CreateTab", "CloseTab", "SwitchTab"} \cup IF kind = "ws" THEN {} ELSE {"Heartbeat"}

Init ==
    /\ kind \in Kinds
    /\ sent = <<>> /\ open = "yes"
    /\ ctrl = <<>> /\ input = <<>> /\ dgrams = {}
    /\ handler = (IF kind = "ws" THEN "serve" ELSE "hello")
    /\ inputTask = "run"
    /\ writer = (IF kind = "ws" THEN "run" ELSE "off")
    /\ owed = <<>> /\ replies = <<>> /\ got = <<>>
    /\ active \in Tabs
    /\ pointer = [ctrl |-> 0, input |-> 0]
    /\ done = <<>> /\ meddled = FALSE

----------------------------------------------------------------------------
\* The client

\* Its own view of which tab is active, from the requests the host can read.
InFront(m, skip) == IF m.type \in {"CreateTab", "SwitchTab"} /\ ~skip THEN m.tab_id
                    ELSE IF sent = <<>> THEN active ELSE Last(sent).front

\* Control messages and everything of TCP and WebSockets go by the first
\* stream; QUIC has another for input, and datagrams for motions.
Routes(m) == IF kind # "quic" \/ m.type \notin Inputs THEN {"ctrl"}
             ELSE {"input"} \cup IF m.type \in Motions THEN {"dgram"} ELSE {}

\* A message may share a WebSocket frame with the one before it; behind one that
\* does not decode, the rest of the frame is lost.
Skips == {FALSE} \cup IF kind = "ws" /\ ctrl # <<>>
                     THEN {Last(sent).type = "Bad" \/ Last(sent).skip} ELSE {}

Send(m, via, skip) ==
    LET i == Len(sent) + 1
        stamp == [via |-> via, front |-> InFront(m, skip), skip |-> skip]
    IN  /\ open = "yes" /\ i <= MaxSent /\ via \in Routes(m) /\ skip \in Skips
        /\ sent' = Append(sent, [f \in DOMAIN m \cup DOMAIN stamp |->
                                   IF f \in DOMAIN stamp THEN stamp[f] ELSE m[f]])
        /\ ctrl' = (IF via = "ctrl" THEN Append(ctrl, i) ELSE ctrl)
        /\ input' = (IF via = "input" THEN Append(input, i) ELSE input)
        /\ dgrams' = (IF via = "dgram" THEN dgrams \cup {i} ELSE dgrams)
        /\ UNCHANGED <<kind, open, handler, inputTask, owed, back, active, pointer, done, meddled>>

ClientSends ==
    \E m \in Messages, via \in {"ctrl", "input", "dgram"}, skip \in BOOLEAN : Send(m, via, skip)

\* The client goes, or reading from it fails: between two messages or within one.
Disconnects ==
    /\ open = "yes"
    /\ open' \in {"eof", "reset", "error"}
    /\ UNCHANGED <<kind, sent, ctrl, input, dgrams, handler, inputTask, owed, back,
                   active, pointer, done, meddled>>

OtherSwitches ==
    /\ ~meddled
    /\ \E t \in Tabs \ {active} : active' = t
    /\ meddled' = TRUE
    /\ UNCHANGED <<client, ctrl, input, dgrams, handler, inputTask, owed, back, pointer, done>>

----------------------------------------------------------------------------
\* HostState

\* The tab a call is about: the one it names, or whichever is active.
Target(m) == IF m.type \in {"CreateTab", "CloseTab", "SwitchTab"} THEN m.tab_id
             ELSE IF m.type \in {"Resize", "ClearData", "Hello"} THEN 0
             ELSE active

\* What a message has HostState do, from the task whose last_pointer is p.  The
\* level of a SetZoom is handed on as it is.
Call(i, p) ==
    LET m == sent[i]
        c == [i |-> i, op |-> m.type, tab |-> Target(m)]
    IN  CASE m.type = "InputScroll" -> <<[i |-> i, op |-> m.type, tab |-> active, at |-> p]>>
          [] m.type = "NavAction" -> IF m.action <= 2 THEN <<c>> ELSE <<>>
          [] m.type = "Hello" -> IF m.size > 0 THEN <<c>> ELSE <<>>
          [] m.type \in {"Heartbeat", "Other"} -> <<>>
          [] OTHER -> <<c>>

\* Mutant of Activates: create_tab leaves the active tab alone.
ActivatesOnSwitch(m) == IF m.type = "SwitchTab" THEN m.tab_id ELSE active

\* create_tab makes its tab active; close_tab leaves active_tab_id alone.
Activates(m) == IF m.type \in {"CreateTab", "SwitchTab"} THEN m.tab_id ELSE active

\* Mutant of Moves: a button does not move the pointer.
MovesOnly(m, p) == IF m.type = "InputPointer" THEN m.at ELSE p

Moves(m, p) == IF m.type \in {"InputPointer", "InputButton"} THEN m.at ELSE p

\* Mutant of Reply: a closed tab is not confirmed.
ReplyNotClosed(i) ==
    CASE sent[i].type = "Hello" -> <<[re |-> i, type |-> "Welcome"]>>
      [] sent[i].type = "Heartbeat" /\ kind # "ws" -> <<[re |-> i, type |-> "Heartbeat"]>>
      [] sent[i].type = "CreateTab" -> <<[re |-> i, type |-> "TabCreated"]>>
      [] sent[i].type = "SwitchTab" -> <<[re |-> i, type |-> "TabActivated"]>>
      [] OTHER -> <<>>

Reply(i) ==
    CASE sent[i].type = "Hello" -> <<[re |-> i, type |-> "Welcome"]>>
      [] sent[i].type = "Heartbeat" /\ kind # "ws" -> <<[re |-> i, type |-> "Heartbeat"]>>
      [] sent[i].type = "CreateTab" -> <<[re |-> i, type |-> "TabCreated"]>>
      [] sent[i].type = "CloseTab" -> <<[re |-> i, type |-> "TabClosed"]>>
      [] sent[i].type = "SwitchTab" -> <<[re |-> i, type |-> "TabActivated"]>>
      [] OTHER -> <<>>

----------------------------------------------------------------------------
\* The tasks of the connection

Bad(i) == sent[i].type = "Bad"

\* Mutant of Accepts: the version is not looked at.
AcceptsAny(m) == m.type = "Hello"

Accepts(m) == m.type = "Hello" /\ m.version = 1

\* The handshake of QUIC and TCP.  Anything but a HELLO of this version ends
\* the session, and so does a WELCOME that cannot be written; it is written
\* before the writer task and the bus are.
Handshake ==
    /\ handler = "hello" /\ ctrl # <<>>
    /\ ctrl' = Tail(ctrl)
    /\ LET i == Head(ctrl)
       IN  IF ~Bad(i) /\ Accepts(sent[i])
           THEN /\ done' = done \o Call(i, 0)
                /\ got' = (IF open = "yes" THEN got \o Reply(i) ELSE got)
                /\ \/ handler' = "serve" /\ writer' = "run"
                   \/ open # "yes" /\ handler' = "failed" /\ UNCHANGED writer
           ELSE handler' = "failed" /\ UNCHANGED <<done, got, writer>>
    /\ UNCHANGED <<client, input, dgrams, inputTask, owed, replies, active, pointer, meddled>>

\* One message of the control stream.  Control messages are all a QUIC control
\* stream takes; a WebSocket answers HELLO whenever it comes, whatever it says,
\* and takes nothing more of a frame in which a message did not decode.
Takes(m) == /\ kind = "quic" => m.type \notin Inputs
            /\ m.type = "Hello" => kind = "ws"
            /\ ~m.skip

\* After a message that cannot be decoded a TCP or QUIC session is over; a
\* WebSocket goes on with the next frame.
Serve ==
    /\ handler = "serve" /\ owed = <<>> /\ ctrl # <<>>
    /\ ctrl' = Tail(ctrl)
    /\ LET i == Head(ctrl)
       IN  IF Bad(i)
           THEN /\ handler' = (IF kind = "ws" THEN "serve" ELSE "failed")
                /\ UNCHANGED <<done, active, pointer, owed>>
           ELSE IF ~Takes(sent[i]) THEN UNCHANGED <<handler, done, active, pointer, owed>>
           ELSE /\ done' = done \o Call(i, pointer.ctrl)
                /\ active' = Activates(sent[i])
                /\ pointer' = [pointer EXCEPT !.ctrl = Moves(sent[i], @)]
                /\ owed' = Reply(i)
                /\ UNCHANGED handler
    /\ UNCHANGED <<client, input, dgrams, inputTask, back, meddled>>

\* Mutant of Room: the channel gives away one place less.
RoomForTwo == Len(replies) + 1 < ReplyQueue

Room == Len(replies) < ReplyQueue

\* The reply goes out: over TCP when the channel has room, over a WebSocket at
\* once; a QUIC handler writes it to its stream itself, and of all replies only a
\* heartbeat that cannot be written ends it.
Answer ==
    /\ owed # <<>>
    /\ owed' = <<>>
    /\ IF kind = "quic"
       THEN /\ got' = (IF open = "yes" THEN got \o owed ELSE got)
            /\ \/ UNCHANGED handler
               \/ open # "yes" /\ Head(owed).type = "Heartbeat" /\ handler' = "failed"
            /\ UNCHANGED replies
       ELSE /\ kind = "ws" \/ writer # "run" \/ Room
            /\ replies' = (IF writer = "run" THEN replies \o owed ELSE replies)
            /\ UNCHANGED <<got, handler>>
    /\ UNCHANGED <<client, ctrl, input, dgrams, inputTask, writer, active, pointer, done, meddled>>

\* A stream that breaks may do so before all that was sent has been read.
AtEnd(queue) == open # "yes" /\ (open = "eof" => queue = <<>>)

\* Of the ends between two messages a reset counts as one, any other error does not.
Clean == open \in {"eof", "reset"}

\* Mutant of StreamEnds: the writer is not aborted.
StreamEndsOnly ==
    /\ handler \in {"hello", "serve"} /\ owed = <<>> /\ AtEnd(ctrl)
    /\ handler' = (IF handler = "serve" /\ (Clean \/ kind = "ws") THEN "done" ELSE "failed")
    /\ UNCHANGED <<client, ctrl, input, dgrams, inputTask, owed, back, active, pointer, done, meddled>>

\* The end of the stream.  After a clean one, and any of a WebSocket, the writer
\* is aborted; an error of TCP or QUIC returns before that.
StreamEnds ==
    /\ handler \in {"hello", "serve"} /\ owed = <<>> /\ AtEnd(ctrl)
    /\ handler' = (IF handler = "serve" /\ (Clean \/ kind = "ws") THEN "done" ELSE "failed")
    /\ writer' = (IF handler' = "done" /\ kind # "quic" /\ writer = "run" THEN "ended" ELSE writer)
    /\ UNCHANGED <<client, ctrl, input, dgrams, inputTask, owed, replies, got, active, pointer, done,
                   meddled>>

\* The writer task takes a reply; with the client gone the write fails.
Write ==
    /\ writer = "run" /\ kind # "quic" /\ replies # <<>>
    /\ replies' = Tail(replies)
    /\ IF open = "yes" THEN got' = Append(got, Head(replies)) /\ UNCHANGED writer
       ELSE writer' = "ended" /\ UNCHANGED got
    /\ UNCHANGED <<client, ctrl, input, dgrams, handler, inputTask, owed, active, pointer, done,
                   meddled>>

\* So does the write of an item of the bus; QUIC's writer sees the connection close.
WriterNotices ==
    /\ writer = "run" /\ open # "yes"
    /\ writer' = "ended"
    /\ UNCHANGED <<client, ctrl, input, dgrams, handler, inputTask, owed, replies, got, active,
                   pointer, done, meddled>>

\* QUIC's input stream needs no handshake and keeps a pointer of its own.
ServeInput ==
    /\ kind = "quic" /\ inputTask = "run"
    /\ \/ /\ input # <<>>
          /\ done' = done \o Call(Head(input), pointer.input)
          /\ pointer' = [pointer EXCEPT !.input = Moves(sent[Head(input)], @)]
          /\ input' = Tail(input)
          /\ UNCHANGED inputTask
       \/ /\ AtEnd(input)
          /\ inputTask' = (IF Clean THEN "done" ELSE "failed")
          /\ UNCHANGED <<done, pointer, input>>
    /\ UNCHANGED <<client, ctrl, dgrams, handler, owed, back, active, meddled>>

\* A datagram arrives or is lost; motions pass the pointer of no task.
Datagram ==
    /\ \E i \in dgrams :
          /\ dgrams' = dgrams \ {i}
          /\ done' \in {done, done \o Call(i, 0)}
    /\ UNCHANGED <<client, ctrl, input, handler, inputTask, owed, back, active, pointer, meddled>>

Next ==
    \/ ClientSends \/ Disconnects \/ OtherSwitches
    \/ Handshake \/ Serve \/ Answer \/ StreamEnds
    \/ Write \/ WriterNotices
    \/ ServeInput \/ Datagram

\* Tasks that can go on do, and the client reads what it is sent.
Spec ==
    /\ Init /\ [][Next]_vars
    /\ WF_vars(Handshake) /\ WF_vars(Serve) /\ WF_vars(Answer) /\ WF_vars(StreamEnds)
    /\ WF_vars(Write) /\ WF_vars(ServeInput)

----------------------------------------------------------------------------
(***************************************************************************)
(* Properties.                                                             *)
(***************************************************************************)

Calls == {done[k] : k \in DOMAIN done}

TypeOK ==
    /\ Len(sent) <= MaxSent
    /\ handler \in {"hello", "serve", "done", "failed"} /\ writer \in {"off", "run", "ended"}
    /\ inputTask \in {"run", "done", "failed"} /\ open \in {"yes", "eof", "reset", "error"}
    /\ Len(owed) <= 1 /\ (kind = "tcp" => Len(replies) <= ReplyQueue)
    /\ active \in Tabs

\* Each message is acted on at most once, and over one stream in order.
ActedOnce ==
    \A k, l \in DOMAIN done :
        /\ done[k].i = done[l].i => k = l
        /\ kind # "quic" /\ k < l => done[k].i < done[l].i

\* Over TCP and a WebSocket an input event goes to the tab the client had in
\* front of it, as far as its requests could be read, unless another client has
\* switched; over QUIC it may meet the tab of before a switch, or of after it.
InputHitsTab ==
    kind # "quic" /\ ~meddled =>
        \A c \in Calls : c.op \in Inputs => c.tab = sent[c.i].front

\* A scroll is where the client's pointer was last; over QUIC, where the input
\* stream last said it was, whatever datagrams have said since.
ScrollAtPointer ==
    \A c \in Calls : c.op = "InputScroll" =>
        LET moves == {j \in 1..(c.i - 1) : /\ sent[j].type \in {"InputPointer", "InputButton"}
                                           /\ sent[j].via = sent[c.i].via /\ ~sent[j].skip}
        IN  c.at = IF moves = {} THEN 0 ELSE sent[Max(moves)].at

\* The messages are acted on once and in order, and so are the replies to them
\* given: none twice and, as long as the session lasts, none left out, but for
\* what a WebSocket loses behind a message of the same frame that does not
\* decode, and its heartbeats.
RepliesInOrder ==
    LET all == got \o replies \o owed
        Due(i) == /\ sent[i].via = "ctrl" /\ sent[i].type \in Requests /\ ~sent[i].skip
                  /\ \A j \in DOMAIN ctrl : ctrl[j] > i
    IN  /\ ActedOnce
        /\ \A k, l \in DOMAIN all : k < l => all[k].re < all[l].re
        /\ open = "yes" /\ handler = "serve" =>
               \A i \in DOMAIN sent : Due(i) => \E k \in DOMAIN all : all[k].re = i

\* Nothing is done for a TCP client that has not said a HELLO of this version,
\* and nothing but input for a QUIC client; a WebSocket is not asked.
HelloFirst ==
    LET spoken == {i \in DOMAIN sent : sent[i].via = "ctrl"}
        Greeted == spoken # {} /\ sent[Min(spoken)] \in [type : {"Hello"}, version : {1}, size : Nat,
                                               via : {"ctrl"}, front : Tabs, skip : BOOLEAN]
    IN  kind # "ws" /\ ~Greeted =>
            /\ got = <<>>
            /\ \A c \in Calls : kind = "quic" /\ c.op \in Inputs

\* The writer of a TCP connection outlives its reader only if reading failed: the
\* stream broke off, or the last message read did not decode.  Then nobody aborts
\* the writer, and a client that is still there goes on seeing pages it cannot
\* touch.  That of a WebSocket never does.
OrphanOnlyAfterError ==
    writer = "run" /\ handler \in {"done", "failed"} /\ kind # "quic" =>
        /\ kind = "tcp" /\ handler = "failed"
        /\ \/ open = "error"
           \/ \E i \in DOMAIN sent : Bad(i) /\ \A c \in Calls : c.i < i

\* Requests that will be read and have no reply yet.
Unanswered ==
    {i \in DOMAIN sent :
        sent[i].type \in Requests /\ ~sent[i].skip /\ \A k \in DOMAIN got : got[k].re # i}

\* Every request that is read is answered, or the session is over: as the client
\* asks no more than MaxSent times and a reply stays, it is enough that again
\* and again none is left unanswered.
Answered == []<>(Unanswered = {} \/ open # "yes" \/ handler = "failed")

=============================================================================
