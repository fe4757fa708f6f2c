--------------------------- MODULE WebSocketWriter --------------------------
(***************************************************************************)
(* FramePipeline with subscribers of both kinds: QUIC and TCP ones as they *)
(* are there, and WebSocket ones (gutted-host-rs/src/web.rs).  The writer  *)
(* of a WebSocket runs the same loop, but its first snapshot comes through *)
(* the queue of replies, ws_out: the connection puts it there before the   *)
(* task exists, and the task's select! takes from that queue and from the  *)
(* bus in no particular order.  The url and the tabs that follow the       *)
(* snapshot into the queue, and later replies, paint nothing and are left  *)
(* out.                                                                    *)
(***************************************************************************)
EXTENDS FramePipeline

CONSTANT WebSockets   \* the subscribers that come over a WebSocket

ASSUME WebSocketAssumption == WebSockets \subseteq Subscribers

VARIABLE queued   \* the snapshot in the queue of a subscriber, or NoFrame

wsVars == <<vars, queued>>

(* Nothing has been read from the bus since the subscription. *)
NothingRead(s) == cursor[s] = since[s]

(* The connection snapshots into the queue and spawns the writer task. *)
QueueSnapshot(s) ==
  /\ task[s] = "snapshot"
  /\ s \in WebSockets
  /\ NothingRead(s)
  /\ queued' = [queued EXCEPT ![s] = entry]
  /\ task' = [task EXCEPT ![s] = "recv"]
  /\ torn' = [torn EXCEPT ![s] = entry = NoFrame /\ Shown # NoFrame]
  /\ UNCHANGED <<log, cursor, hand, screen, told, since, skipped, loopVars>>

(* Mutant of WriteQueued: what is taken from the queue is not sent. *)
DropQueued(s) ==
  /\ task[s] = "recv"
  /\ queued[s] # NoFrame
  /\ queued' = [queued EXCEPT ![s] = NoFrame]
  /\ UNCHANGED vars

(* select! takes the branch of the queue. A snapshot that comes after items *)
(* of the bus may undo them; nothing repaints them until a full frame does. *)
WriteQueued(s) ==
  /\ task[s] = "recv"
  /\ queued[s] # NoFrame
  /\ screen' = [screen EXCEPT ![s] = queued[s]]
  /\ torn' = [torn EXCEPT ![s] = ~NothingRead(s)]
  /\ queued' = [queued EXCEPT ![s] = NoFrame]
  /\ UNCHANGED <<log, task, cursor, hand, told, since, skipped, loopVars>>

(* Every other snapshot is written at once, and so is that after a lag. *)
WriteSnapshot(s) ==
  /\ s \in WebSockets => ~NothingRead(s)
  /\ Snapshot(s, entry, Shown)

(* The steps of the writer task. *)
WsWrite(s) ==
  /\ WriteSnapshot(s) \/ Recv(s) \/ RecvLagged(s) \/ Merge(s)
  /\ UNCHANGED <<loopVars, queued>>

WsDisconnect(s) ==
  /\ Disconnect(s)
  /\ queued' = [queued EXCEPT ![s] = NoFrame]
  /\ UNCHANGED loopVars

WsSubscriberStep(s) ==
  \/ Subscribe(s) /\ UNCHANGED <<loopVars, queued>>
  \/ QueueSnapshot(s)
  \/ WriteQueued(s)
  \/ WsWrite(s)
  \/ WsDisconnect(s)

WsInit == Init /\ queued = [s \in Subscribers |-> NoFrame]

WsNext == (LoopStep /\ UNCHANGED queued) \/ \E s \in Subscribers : WsSubscriberStep(s)

(***************************************************************************)
(* The scheduler runs every task that can go on: the loop finishes the     *)
(* frame it has taken, and a subscriber whose peer keeps reading finishes  *)
(* its writes and comes back to the bus.  The branches of select! are      *)
(* tried in random order, so a queue that has something again and again is *)
(* taken from.  Nothing is assumed of WebKit or of connections being made  *)
(* or lost.                                                                *)
(***************************************************************************)
WsFairness ==
  /\ WF_wsVars(FinishFrame /\ UNCHANGED queued)
  /\ \A s \in Subscribers : WF_wsVars(WsWrite(s))
  /\ \A s \in WebSockets : WF_wsVars(QueueSnapshot(s)) /\ SF_wsVars(WriteQueued(s))

WsSpec == WsInit /\ [][WsNext]_wsVars

-----------------------------------------------------------------------------
(* Joining over the queue ends with the same picture as joining over the   *)
(* stream, unless items of the bus overtook the snapshot (web.rs:121-160). *)
WsConverged ==
  \A s \in Subscribers :
    Settled(s) /\ queued[s] = NoFrame /\ ~torn[s] /\ Shown # NoFrame => screen[s] = Shown

=============================================================================
