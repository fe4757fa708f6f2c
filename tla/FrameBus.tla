------------------------------ MODULE FrameBus ------------------------------
(***************************************************************************)
(* The fan-out of the host (gutted-host-rs/src/main.rs, struct FrameBus)   *)
(* and the writer loop every subscriber runs over it: the QUIC video task  *)
(* (main.rs:644-731), the TCP writer task (main.rs:934-990) and the        *)
(* WebSocket writer task (web.rs:152-200).  The loop is the same in all    *)
(* three; the WebSocket writer gets its first snapshot through a queue     *)
(* (see WebSocketWriter).                                                  *)
(*                                                                         *)
(* This module holds the shared state and one operator per step; the       *)
(* modules that EXTEND it say who publishes and what last_frames holds.    *)
(*                                                                         *)
(* The bus is a tokio broadcast channel.  It is modelled as the log of all *)
(* items ever sent with one read position per receiver; only the last      *)
(* Capacity items can still be read, and a receiver whose position has     *)
(* been overwritten gets Lagged and is moved to the oldest item kept.      *)
(***************************************************************************)
EXTENDS Framebuffers

CONSTANTS
  Subscribers,  \* the connections that may subscribe
  Capacity      \* broadcast::channel(256): how many items the bus retains

ASSUME BusAssumption == Capacity \in Nat \ {0}

VARIABLES
  log,      \* every item sent on the bus, oldest first
  task,     \* where the writer task of a subscriber stands
  cursor,   \* the next position of the log a subscriber reads
  hand,     \* the position of the item held by the writer's inner loop, or 0
  screen,   \* the picture described by what has been written to a subscriber
  told,     \* the positions of the control messages written, in that order
  since,    \* ghost: where the subscription started
  skipped,  \* ghost: positions a lag made the subscriber miss
  torn      \* ghost: missed pixels were not made good by a full frame

busVars == <<log, task, cursor, hand, screen, told, since, skipped, torn>>

-----------------------------------------------------------------------------
(* The publishing side. *)

Attached(s) == task[s] # "off"

Receivers == {s \in Subscribers : Attached(s)}

(* The log after publish(m): nothing is sent when nobody listens. *)
Published(m) == IF Receivers = {} THEN log ELSE Append(log, m)

-----------------------------------------------------------------------------
(* The receiving side. *)

Oldest == IF Len(log) > Capacity THEN Len(log) - Capacity + 1 ELSE 1

Lagged(s) == cursor[s] < Oldest

CanRead(s) == ~Lagged(s) /\ cursor[s] <= Len(log)

(* What writing the item in hand does to the stream of s. *)
WriteHand(s) ==
  LET m == log[hand[s]]
  IN  /\ screen' = [screen EXCEPT ![s] = Paint(@, m)]
      /\ told' = IF m.kind = "ctl" THEN [told EXCEPT ![s] = Append(@, hand[s])]
                                   ELSE told

(* A Lagged result moves the read position to the oldest item retained. *)
JumpToOldest(s) ==
  /\ cursor' = [cursor EXCEPT ![s] = Oldest]
  /\ skipped' = [skipped EXCEPT ![s] = @ \cup cursor[s] .. (Oldest - 1)]

(* Mutant of Subscribe: the new receiver starts at the last item sent. *)
SubscribeAtLast(s) ==
  /\ task[s] = "off"
  /\ task' = [task EXCEPT ![s] = "snapshot"]
  /\ cursor' = [cursor EXCEPT ![s] = Len(log)]
  /\ since' = [since EXCEPT ![s] = Len(log) + 1]
  /\ UNCHANGED <<log, hand, screen, told, skipped, torn>>

(* A connection subscribes; its writer task starts with a snapshot. *)
Subscribe(s) ==
  /\ task[s] = "off"
  /\ task' = [task EXCEPT ![s] = "snapshot"]
  /\ cursor' = [cursor EXCEPT ![s] = Len(log) + 1]
  /\ since' = [since EXCEPT ![s] = Len(log) + 1]
  /\ UNCHANGED <<log, hand, screen, told, skipped, torn>>

(* snapshot() followed by the write of what it returned. `entry` is what   *)
(* last_frames holds for the active tab, `shown` the framebuffer that the  *)
(* stream ought to describe.                                               *)
Snapshot(s, entry, shown) ==
  /\ task[s] = "snapshot"
  /\ task' = [task EXCEPT ![s] = "recv"]
  /\ IF entry # NoFrame
       THEN /\ screen' = [screen EXCEPT ![s] = entry]
            /\ torn' = [torn EXCEPT ![s] = FALSE]
       ELSE /\ torn' = [torn EXCEPT ![s] = shown # NoFrame]
            /\ UNCHANGED screen
  /\ UNCHANGED <<log, cursor, hand, told, since, skipped>>

(* recv() returns an item: it is taken in hand. *)
Recv(s) ==
  /\ task[s] = "recv"
  /\ CanRead(s)
  /\ task' = [task EXCEPT ![s] = "merge"]
  /\ hand' = [hand EXCEPT ![s] = cursor[s]]
  /\ cursor' = [cursor EXCEPT ![s] = @ + 1]
  /\ UNCHANGED <<log, screen, told, since, skipped, torn>>

(* Mutant of RecvLagged: the task goes on reading without a snapshot. *)
RecvLaggedGoesOn(s) ==
  /\ task[s] = "recv"
  /\ Lagged(s)
  /\ JumpToOldest(s)
  /\ UNCHANGED <<log, task, hand, screen, told, since, torn>>

(* Mutant of RecvLagged: the task subscribes anew, and what the bus still   *)
(* keeps for it is lost as well.                                            *)
RecvLaggedResubscribes(s) ==
  /\ task[s] = "recv"
  /\ Lagged(s)
  /\ task' = [task EXCEPT ![s] = "snapshot"]
  /\ cursor' = [cursor EXCEPT ![s] = Len(log) + 1]
  /\ skipped' = [skipped EXCEPT ![s] = @ \cup cursor[s] .. Len(log)]
  /\ UNCHANGED <<log, hand, screen, told, since, torn>>

(* recv() returns Lagged: the task goes on to take a snapshot. *)
RecvLagged(s) ==
  /\ task[s] = "recv"
  /\ Lagged(s)
  /\ task' = [task EXCEPT ![s] = "snapshot"]
  /\ JumpToOldest(s)
  /\ UNCHANGED <<log, hand, screen, told, since, torn>>

(* try_recv() returns an item that replaces the one in hand. *)
Supersede(s) ==
  /\ task[s] = "merge"
  /\ CanRead(s)
  /\ Supersedes(log[cursor[s]], log[hand[s]])
  /\ hand' = [hand EXCEPT ![s] = cursor[s]]
  /\ cursor' = [cursor EXCEPT ![s] = @ + 1]
  /\ UNCHANGED <<log, task, screen, told, since, skipped, torn>>

(* A raw frame repaints everything, so it makes a torn picture whole. *)
Healed(s) ==
  IF log[hand[s]].kind = "raw" THEN [torn EXCEPT ![s] = FALSE] ELSE torn

(* try_recv() returns an item that does not: the one in hand is written. *)
WriteAndTake(s) ==
  /\ task[s] = "merge"
  /\ CanRead(s)
  /\ ~Supersedes(log[cursor[s]], log[hand[s]])
  /\ WriteHand(s)
  /\ torn' = Healed(s)
  /\ hand' = [hand EXCEPT ![s] = cursor[s]]
  /\ cursor' = [cursor EXCEPT ![s] = @ + 1]
  /\ UNCHANGED <<log, task, since, skipped>>

(* Mutant of Drain: recv().await in place of try_recv() waits for a next item. *)
DrainWaits(s) ==
  /\ task[s] = "merge"
  /\ CanRead(s)
  /\ UNCHANGED busVars

(* try_recv() returns Empty: the one in hand is written. *)
Drain(s) ==
  /\ task[s] = "merge"
  /\ cursor[s] = Len(log) + 1
  /\ WriteHand(s)
  /\ torn' = Healed(s)
  /\ task' = [task EXCEPT ![s] = "recv"]
  /\ hand' = [hand EXCEPT ![s] = 0]
  /\ UNCHANGED <<log, cursor, since, skipped>>

(* try_recv() returns Lagged: `while let Ok(newer)` ends the inner loop as *)
(* if the channel were empty, and the items skipped are never asked for.   *)
DrainLagged(s) ==
  /\ task[s] = "merge"
  /\ Lagged(s)
  /\ WriteHand(s)
  /\ torn' = [torn EXCEPT ![s] = TRUE]
  /\ task' = [task EXCEPT ![s] = "recv"]
  /\ hand' = [hand EXCEPT ![s] = 0]
  /\ JumpToOldest(s)
  /\ UNCHANGED <<log, since>>

(* A write fails or the connection closes: the receiver is dropped, and    *)
(* whatever it had not read with it.                                       *)
Disconnect(s) ==
  /\ Attached(s)
  /\ task' = [task EXCEPT ![s] = "off"]
  /\ cursor' = [cursor EXCEPT ![s] = 1]
  /\ since' = [since EXCEPT ![s] = 1]
  /\ hand' = [hand EXCEPT ![s] = 0]
  /\ screen' = [screen EXCEPT ![s] = Blank]
  /\ told' = [told EXCEPT ![s] = <<>>]
  /\ skipped' = [skipped EXCEPT ![s] = {}]
  /\ torn' = [torn EXCEPT ![s] = FALSE]
  /\ UNCHANGED log

(* One step of the inner loop. *)
Merge(s) == Supersede(s) \/ WriteAndTake(s) \/ Drain(s) \/ DrainLagged(s)

-----------------------------------------------------------------------------
BusInit ==
  /\ log = <<>>
  /\ task = [s \in Subscribers |-> "off"]
  /\ cursor = [s \in Subscribers |-> 1]
  /\ since = [s \in Subscribers |-> 1]
  /\ hand = [s \in Subscribers |-> 0]
  /\ screen = [s \in Subscribers |-> Blank]
  /\ told = [s \in Subscribers |-> <<>>]
  /\ skipped = [s \in Subscribers |-> {}]
  /\ torn = [s \in Subscribers |-> FALSE]

BusTypeOK ==
  /\ log \in Seq(Item)
  /\ task \in [Subscribers -> {"off", "snapshot", "recv", "merge"}]
  /\ cursor \in [Subscribers -> Nat \ {0}]
  /\ since \in [Subscribers -> Nat \ {0}]
  /\ hand \in [Subscribers -> Nat]
  /\ screen \in [Subscribers -> Frame]
  /\ told \in [Subscribers -> Seq(Nat)]
  /\ skipped \in [Subscribers -> SUBSET Nat]
  /\ torn \in [Subscribers -> BOOLEAN]

=============================================================================
