---------------------------- MODULE FrameDelivery ---------------------------
(***************************************************************************)
(* What the bus and the writer task promise a subscriber, without saying   *)
(* how a writer holds one message while it looks at the next, or where the *)
(* frame loop stands (gutted-host-rs/src/main.rs: the messages are those   *)
(* of 237-311, the writer that of 668-724).                                *)
(*                                                                         *)
(* A subscriber gets the messages sent since it joined one at a time, in   *)
(* their order and at most once. It may miss a frame only when the message *)
(* right after it repaints all of its pixels, and anything else only by    *)
(* falling more than Capacity messages behind. Between messages it may be  *)
(* given the whole picture the host holds, and no other.                   *)
(***************************************************************************)
EXTENDS Framebuffers

CONSTANTS
  Subscribers,  \* the connections that may subscribe
  Capacity      \* how many messages are kept for a slow subscriber

VARIABLES
  log,      \* every message sent, oldest first
  picture,  \* the framebuffer the host holds, or NoFrame
  on,       \* who is subscribed
  done,     \* how far into the log a subscriber has come
  screen,   \* the picture of a subscriber
  told      \* the control messages a subscriber has got, by position

vars == <<log, picture, on, done, screen, told>>

-----------------------------------------------------------------------------
(* A message is sent. *)
Send ==
  /\ Len(log') > 0
  /\ log' = Append(log, log'[Len(log')])
  /\ UNCHANGED <<picture, on, done, screen, told>>

(* The host comes to hold another framebuffer. *)
Render ==
  /\ picture' \in Frame
  /\ UNCHANGED <<log, on, done, screen, told>>

Join(s) ==
  /\ ~on[s]
  /\ on' = [on EXCEPT ![s] = TRUE]
  /\ done' = [done EXCEPT ![s] = Len(log)]
  /\ UNCHANGED <<log, picture, screen, told>>

(* The subscriber is given the whole picture. *)
Refresh(s) ==
  /\ on[s]
  /\ picture # NoFrame
  /\ screen' = [screen EXCEPT ![s] = picture]
  /\ UNCHANGED <<log, picture, on, done, told>>

(* Nothing of the frame at position i is seen once position i + 1 is drawn. *)
Hidden(i) == log[i].kind # "ctl" /\ log[i].px \subseteq log[i + 1].px

(* A frame is left out in favour of the message after it. *)
Omit(s) ==
  /\ on[s]
  /\ done[s] + 2 <= Len(log)
  /\ Hidden(done[s] + 1)
  /\ done' = [done EXCEPT ![s] = @ + 1]
  /\ UNCHANGED <<log, picture, on, screen, told>>

(* From position n on, where s goes on reading: the next position, or, when *)
(* it has been overrun, the oldest message kept.                            *)
GoesOn(s, n) == done' = [done EXCEPT ![s] = n]

Overruns(s, n) ==
  /\ Len(log) > n + Capacity
  /\ GoesOn(s, Len(log) - Capacity)

(* The next message is delivered. *)
Deliver(s) ==
  LET n == done[s] + 1
  IN  /\ on[s]
      /\ n <= Len(log)
      /\ screen' = [screen EXCEPT ![s] = Paint(@, log[n])]
      /\ told' = IF log[n].kind = "ctl" THEN [told EXCEPT ![s] = Append(@, n)] ELSE told
      /\ GoesOn(s, n) \/ Overruns(s, n)
      /\ UNCHANGED <<log, picture, on>>

(* The subscriber has fallen too far behind. *)
Miss(s) ==
  /\ on[s]
  /\ Overruns(s, done[s])
  /\ UNCHANGED <<log, picture, on, screen, told>>

Leave(s) ==
  /\ on[s]
  /\ on' = [on EXCEPT ![s] = FALSE]
  /\ done' = [done EXCEPT ![s] = 0]
  /\ screen' = [screen EXCEPT ![s] = Blank]
  /\ told' = [told EXCEPT ![s] = <<>>]
  /\ UNCHANGED <<log, picture>>

-----------------------------------------------------------------------------
Init ==
  /\ log = <<>>
  /\ picture = NoFrame
  /\ on = [s \in Subscribers |-> FALSE]
  /\ done = [s \in Subscribers |-> 0]
  /\ screen = [s \in Subscribers |-> Blank]
  /\ told = [s \in Subscribers |-> <<>>]

Next ==
  \/ Send
  \/ Render
  \/ \E s \in Subscribers :
       Join(s) \/ Refresh(s) \/ Omit(s) \/ Deliver(s) \/ Miss(s) \/ Leave(s)

Spec == Init /\ [][Next]_vars

=============================================================================
