---------------------------- MODULE SessionProofs ---------------------------
(***************************************************************************)
(* Theorems about Session: what a session does with what a client sends,   *)
(* for any messages, any number of them and any length of the reply queue, *)
(* over all three transports.                                              *)
(***************************************************************************)
EXTENDS Session, TLAPS

Transports == {"tcp", "ws", "quic"}

In(i, q) == \E j \in DOMAIN q : q[j] = i

(* The queue q holds the messages of s sent by stream via that have not    *)
(* been read, in order.                                                    *)
OnStream(s, q, via) ==
  /\ q \in Seq(Nat)
  /\ \A j \in DOMAIN q : q[j] \in DOMAIN s /\ s[q[j]].via = via
  /\ \A j, k \in DOMAIN q : j < k => q[j] < q[k]
  /\ \A i \in DOMAIN s :
       s[i].via = via => In(i, q) \/ (\A j \in DOMAIN q : i < q[j])

(* What a message of the client, with its stream and its tab, may be. *)
MessageOK(m) ==
  /\ m.via \in {"ctrl", "input", "dgram"}
  /\ m.via # "ctrl" => kind = "quic" /\ m.type \in Inputs
  /\ m.via = "dgram" => m.type = "InputPointer"
  /\ m.via = "ctrl" /\ kind = "quic" => m.type \notin Inputs
  /\ m.front \in Tabs
  /\ kind # "ws" => ~m.skip
  /\ m.type \in {"CreateTab", "SwitchTab"} => m.tab_id \in Tabs
  /\ m.type = "Hello" =>
       m \in [type : {"Hello"}, version : Nat, size : Nat, via : {"ctrl"}, front : Tabs,
              skip : BOOLEAN]

Streams ==
  /\ \E S : sent \in Seq(S)
  /\ \A i \in DOMAIN sent : MessageOK(sent[i])
  /\ OnStream(sent, ctrl, "ctrl") /\ OnStream(sent, input, "input")
  /\ \A i \in dgrams : i \in DOMAIN sent /\ sent[i].via = "dgram"
  /\ active \in Tabs /\ kind \in Transports

-----------------------------------------------------------------------------
(* Queues. *)

LEMMA TailFacts ==
  ASSUME NEW S, NEW q \in Seq(S), q # <<>>
  PROVE  /\ Tail(q) \in Seq(S) /\ Head(q) \in S /\ 1 \in DOMAIN q /\ q[1] = Head(q)
         /\ \A j \in DOMAIN Tail(q) : j + 1 \in DOMAIN q /\ Tail(q)[j] = q[j + 1] /\ 1 < j + 1
         /\ \A j \in DOMAIN q : j = 1 \/ \E k \in DOMAIN Tail(q) : Tail(q)[k] = q[j]
<1>1. /\ Len(q) \in Nat /\ Len(q) >= 1 /\ DOMAIN q = 1 .. Len(q) /\ Head(q) = q[1]
      /\ Tail(q) \in Seq(S) /\ Len(Tail(q)) = Len(q) - 1
      /\ \A j \in 1 .. Len(q) - 1 : Tail(q)[j] = q[j + 1]
  OBVIOUS
<1>2. DOMAIN Tail(q) = 1 .. Len(q) - 1
  BY <1>1
<1>3. ASSUME NEW j \in DOMAIN q, j # 1
      PROVE  \E k \in DOMAIN Tail(q) : Tail(q)[k] = q[j]
  <2>1. j - 1 \in DOMAIN Tail(q) /\ Tail(q)[j - 1] = q[j]
    BY <1>1, <1>2, <1>3
  <2>2. QED
    BY <2>1
<1>4. QED
  BY <1>1, <1>2, <1>3

LEMMA AppendFacts ==
  ASSUME NEW S, NEW q \in Seq(S), NEW x
  PROVE  /\ Append(q, x) \in Seq(S \cup {x})
         /\ DOMAIN Append(q, x) = DOMAIN q \cup {Len(q) + 1} /\ Len(q) + 1 \notin DOMAIN q
         /\ \A j \in DOMAIN q : Append(q, x)[j] = q[j] /\ j < Len(q) + 1
         /\ Append(q, x)[Len(q) + 1] = x /\ Len(q) + 1 \in Nat
  OBVIOUS

(* The head of a queue is read. *)
LEMMA ReadOne ==
  ASSUME NEW s, NEW q, NEW via, OnStream(s, q, via), q # <<>>
  PROVE  /\ OnStream(s, Tail(q), via)
         /\ Head(q) \in DOMAIN s /\ s[Head(q)].via = via /\ Head(q) \in Nat
         /\ \A j \in DOMAIN Tail(q) : Head(q) < Tail(q)[j]
         /\ \A i : In(i, q) <=> i = Head(q) \/ In(i, Tail(q))
<1>1. q \in Seq(Nat)
  BY DEF OnStream
<1> DEFINE r == Tail(q)
<1>2. /\ r \in Seq(Nat) /\ Head(q) \in Nat /\ 1 \in DOMAIN q /\ q[1] = Head(q)
      /\ \A j \in DOMAIN r : j + 1 \in DOMAIN q /\ r[j] = q[j + 1] /\ 1 < j + 1
      /\ \A j \in DOMAIN q : j = 1 \/ \E k \in DOMAIN r : r[k] = q[j]
      /\ \A j \in DOMAIN r : j \in Nat
  BY <1>1, TailFacts
<1> HIDE DEF r
<1>3. \A j \in DOMAIN r : Head(q) < r[j]
  BY <1>2 DEF OnStream
<1>4. \A j, k \in DOMAIN r : j < k => r[j] < r[k]
  <2>1. ASSUME NEW j \in DOMAIN r, NEW k \in DOMAIN r, j < k
        PROVE  r[j] < r[k]
    <3>1. j + 1 < k + 1
      BY <1>2, <2>1
    <3>2. QED
      BY <1>2, <3>1 DEF OnStream
  <2>2. QED
    BY <2>1
<1>5. \A j \in DOMAIN r : r[j] \in DOMAIN s /\ s[r[j]].via = via
  BY <1>2 DEF OnStream
<1>6. ASSUME NEW i \in DOMAIN s, s[i].via = via
      PROVE  In(i, r) \/ (\A j \in DOMAIN r : i < r[j])
  <2>1. In(i, q) \/ (\A j \in DOMAIN q : i < q[j])
    BY <1>6 DEF OnStream
  <2>2. QED
    BY <1>2, <1>3, <2>1 DEF In
<1>7. OnStream(s, r, via)
  BY <1>2, <1>4, <1>5, <1>6 DEF OnStream
<1>8. Head(q) \in DOMAIN s /\ s[Head(q)].via = via
  BY <1>2 DEF OnStream
<1>9. \A i : In(i, q) <=> i = Head(q) \/ In(i, r)
  BY <1>2 DEF In
<1>10. QED
  BY <1>2, <1>3, <1>7, <1>8, <1>9 DEF r

(* A message is sent: by this stream or by another. *)
LEMMA SendOne ==
  ASSUME NEW S, NEW s \in Seq(S), NEW q, NEW via, OnStream(s, q, via), NEW x
  PROVE  /\ x.via # via => OnStream(Append(s, x), q, via)
         /\ x.via = via => OnStream(Append(s, x), Append(q, Len(s) + 1), via)
<1> DEFINE n == Len(s) + 1
           t == Append(s, x)
           r == Append(q, n)
<1>1. /\ DOMAIN t = DOMAIN s \cup {n} /\ n \notin DOMAIN s /\ t[n] = x /\ n \in Nat
      /\ \A i \in DOMAIN s : t[i] = s[i] /\ i < n /\ i \in Nat
  BY AppendFacts
<1>2. /\ q \in Seq(Nat) /\ \A j \in DOMAIN q : q[j] \in Nat
  BY DEF OnStream
<1>3. /\ r \in Seq(Nat) /\ DOMAIN r = DOMAIN q \cup {Len(q) + 1} /\ r[Len(q) + 1] = n
      /\ \A j \in DOMAIN q : r[j] = q[j] /\ j < Len(q) + 1
      /\ Len(q) + 1 \in Nat /\ \A j \in DOMAIN q : j \in Nat
  BY <1>1, <1>2, AppendFacts
<1> HIDE DEF n, t, r
<1>4. ASSUME x.via # via PROVE OnStream(t, q, via)
  BY <1>1, <1>2, <1>4 DEF OnStream
<1>5. ASSUME x.via = via PROVE OnStream(t, r, via)
  <2>1. \A j \in DOMAIN r : r[j] \in DOMAIN t /\ t[r[j]].via = via
    BY <1>1, <1>3, <1>5 DEF OnStream
  <2>2. \A j, k \in DOMAIN r : j < k => r[j] < r[k]
    <3>1. ASSUME NEW j \in DOMAIN r, NEW k \in DOMAIN r, j < k PROVE r[j] < r[k]
      <4>1. j \in DOMAIN q
        BY <1>3, <3>1
      <4>2. CASE k \in DOMAIN q
        BY <1>3, <3>1, <4>1, <4>2 DEF OnStream
      <4>3. CASE k = Len(q) + 1
        BY <1>1, <1>3, <4>1, <4>3 DEF OnStream
      <4>4. QED
        BY <1>3, <4>2, <4>3
    <3>2. QED
      BY <3>1
  <2>3. ASSUME NEW i \in DOMAIN t, t[i].via = via
        PROVE  In(i, r) \/ (\A j \in DOMAIN r : i < r[j])
    <3>1. CASE i = n
      BY <1>3, <3>1 DEF In
    <3>2. CASE i \in DOMAIN s
      <4>1. In(i, q) \/ (\A j \in DOMAIN q : i < q[j])
        BY <1>1, <2>3, <3>2 DEF OnStream
      <4>2. i < n
        BY <1>1, <3>2
      <4>3. QED
        BY <1>3, <4>1, <4>2 DEF In
    <3>3. QED
      BY <1>1, <3>1, <3>2
  <2>4. QED
    BY <1>3, <2>1, <2>2, <2>3 DEF OnStream
<1>6. QED
  BY <1>4, <1>5 DEF n, t, r

-----------------------------------------------------------------------------
(* The streams. *)

(* A message of type m with its stream, the tab in front and whether it is lost. *)
Stamped(m, v, t, k) ==
  LET stamp == [via |-> v, front |-> t, skip |-> k]
  IN  [f \in DOMAIN m \cup DOMAIN stamp |-> IF f \in DOMAIN stamp THEN stamp[f] ELSE m[f]]

LEMMA StampedSays ==
  ASSUME NEW m \in Messages, NEW v, NEW t, NEW k
  PROVE  /\ Stamped(m, v, t, k).via = v /\ Stamped(m, v, t, k).front = t
         /\ Stamped(m, v, t, k).skip = k
         /\ Stamped(m, v, t, k).type = m.type
         /\ m.type \in {"CreateTab", "SwitchTab"} => Stamped(m, v, t, k).tab_id = m.tab_id
<1> DEFINE x == Stamped(m, v, t, k)
<1>1. /\ "type" \in DOMAIN m
      /\ "via" \notin DOMAIN m /\ "front" \notin DOMAIN m /\ "skip" \notin DOMAIN m
      /\ m.type \in {"CreateTab", "SwitchTab"} => "tab_id" \in DOMAIN m
  BY MessageAssumption
<1>2. x.via = v /\ x.front = t /\ x.skip = k /\ \A f \in DOMAIN m : x[f] = m[f]
  BY <1>1 DEF Stamped
<1> HIDE DEF x
<1>3. x.type = m.type /\ (m.type \in {"CreateTab", "SwitchTab"} => x.tab_id = m.tab_id)
  BY <1>1, <1>2
<1>4. QED
  BY <1>2, <1>3 DEF x

LEMMA StampedIsOK ==
  ASSUME kind \in Transports, NEW m \in Messages, NEW v \in Routes(m), NEW t \in Tabs,
         NEW k \in BOOLEAN, kind # "ws" => ~k
  PROVE  MessageOK(Stamped(m, v, t, k))
<1> DEFINE x == Stamped(m, v, t, k)
<1>1. /\ "via" \notin DOMAIN m /\ "front" \notin DOMAIN m /\ "skip" \notin DOMAIN m
      /\ m.type = "Hello" => m \in [type : {"Hello"}, version : Nat, size : Nat]
      /\ m.type \in {"CreateTab", "SwitchTab"} => m.tab_id \in Tabs
  BY MessageAssumption
<1>2. /\ x.via = v /\ x.front = t /\ x.skip = k /\ x.type = m.type
      /\ m.type \in {"CreateTab", "SwitchTab"} => x.tab_id = m.tab_id
  BY StampedSays
<1>4. /\ v \in {"ctrl", "input", "dgram"}
      /\ v # "ctrl" => kind = "quic" /\ m.type \in Inputs
      /\ v = "dgram" => m.type = "InputPointer"
      /\ v = "ctrl" /\ kind = "quic" => m.type \notin Inputs
  BY DEF Routes, Inputs, Motions
<1>5. m.type = "Hello" =>
        x \in [type : {"Hello"}, version : Nat, size : Nat, via : {"ctrl"}, front : Tabs,
               skip : BOOLEAN]
  <2>1. m.type = "Hello" => v = "ctrl"
    BY <1>4 DEF Inputs
  <2>2. QED
    BY <1>1, <2>1 DEF Stamped
<1> HIDE DEF x
<1>6. MessageOK(x)
  BY <1>1, <1>2, <1>4, <1>5 DEF MessageOK
<1>7. QED
  BY <1>6 DEF x

(* What is sent: one more message, at the end of one stream. *)
LEMMA SendIs ==
  ASSUME Streams, ClientSends
  PROVE  \E m \in Messages, v \in {"ctrl", "input", "dgram"}, t \in Tabs, k \in BOOLEAN :
           LET x == Stamped(m, v, t, k)
           IN  /\ v \in Routes(m) /\ t = InFront(m, k)
               /\ sent' = Append(sent, x) /\ MessageOK(x) /\ x.via = v
               /\ ctrl' = (IF v = "ctrl" THEN Append(ctrl, Len(sent) + 1) ELSE ctrl)
               /\ input' = (IF v = "input" THEN Append(input, Len(sent) + 1) ELSE input)
               /\ dgrams' = (IF v = "dgram" THEN dgrams \cup {Len(sent) + 1} ELSE dgrams)
<1>1. PICK m \in Messages, v \in {"ctrl", "input", "dgram"}, k \in BOOLEAN : Send(m, v, k)
  BY DEF ClientSends
<1>2. InFront(m, k) \in Tabs
  <2>1. CASE sent = <<>>
    BY <2>1, MessageAssumption DEF InFront, Streams
  <2>2. CASE sent # <<>>
    <3>1. PICK S : sent \in Seq(S)
      BY DEF Streams
    <3>2. Len(sent) \in DOMAIN sent /\ Last(sent) = sent[Len(sent)]
      BY <2>2, <3>1 DEF Last
    <3>3. Last(sent).front \in Tabs
      BY <3>2 DEF Streams, MessageOK
    <3>4. QED
      BY <2>2, <3>3, MessageAssumption DEF InFront
  <2>3. QED
    BY <2>1, <2>2
<1>3. v \in Routes(m) /\ (kind # "ws" => ~k)
  BY <1>1 DEF Send, Skips
<1>4. MessageOK(Stamped(m, v, InFront(m, k), k)) /\ Stamped(m, v, InFront(m, k), k).via = v
  BY <1>2, <1>3, StampedIsOK, StampedSays DEF Streams
<1>5. /\ sent' = Append(sent, Stamped(m, v, InFront(m, k), k))
      /\ ctrl' = (IF v = "ctrl" THEN Append(ctrl, Len(sent) + 1) ELSE ctrl)
      /\ input' = (IF v = "input" THEN Append(input, Len(sent) + 1) ELSE input)
      /\ dgrams' = (IF v = "dgram" THEN dgrams \cup {Len(sent) + 1} ELSE dgrams)
  BY <1>1 DEF Send, Stamped
<1>6. QED
  BY <1>2, <1>3, <1>4, <1>5

Running == handler \in {"hello", "serve"}

(* The tab in front after message m, if a was before. *)
After(m, a) == IF m.type \in {"CreateTab", "SwitchTab"} /\ ~m.skip THEN m.tab_id ELSE a

(* The moves of the pointer, and where it is after message m. *)
IsMove(m) == m.type \in {"InputPointer", "InputButton"} /\ ~m.skip

MovesTo(m, p) == IF IsMove(m) THEN m.at ELSE p

(* The next message of the control stream is read. *)
ReadsCtrl ==
  /\ Running /\ ctrl # <<>> /\ ctrl' = Tail(ctrl)
  /\ \E p : /\ p = pointer.ctrl \/ sent[Head(ctrl)].type = "Hello"
            /\ \/ done' = done
               \/ /\ done' = done \o Call(Head(ctrl), p)
                  /\ ~sent[Head(ctrl)].skip \/ sent[Head(ctrl)].type = "Hello"
  /\ active' = active \/ active' = After(sent[Head(ctrl)], active)
  /\ Running' => active' = After(sent[Head(ctrl)], active)
  /\ Running' =>
       \/ pointer' = [pointer EXCEPT !.ctrl = MovesTo(sent[Head(ctrl)], @)]
       \/ /\ pointer' = pointer
          /\ \/ MovesTo(sent[Head(ctrl)], pointer.ctrl) = pointer.ctrl
             \/ kind = "quic" /\ sent[Head(ctrl)].type \in Inputs
  /\ pointer' = pointer \/ pointer' = [pointer EXCEPT !.ctrl = MovesTo(sent[Head(ctrl)], @)]
  /\ UNCHANGED <<sent, kind, open, input, dgrams, meddled>>

ReadsInput ==
  /\ kind = "quic" /\ input # <<>> /\ input' = Tail(input)
  /\ done' = done \o Call(Head(input), pointer.input)
  /\ pointer' = [pointer EXCEPT !.input = Moves(sent[Head(input)], @)]
  /\ UNCHANGED <<sent, kind, open, ctrl, dgrams, handler, writer, owed, replies, got, active, meddled>>

ReadsDatagram ==
  /\ \E i \in dgrams : /\ dgrams' = dgrams \ {i}
                       /\ done' = done \/ done' = done \o Call(i, 0)
  /\ UNCHANGED <<sent, kind, open, ctrl, input, handler, writer, owed, replies, got, active, pointer,
                 meddled>>

ReadsNothing ==
  /\ \/ active' = active /\ meddled' = meddled
     \/ active' \in Tabs /\ meddled' = TRUE
  /\ Running' => Running
  /\ UNCHANGED <<sent, kind, ctrl, input, dgrams, pointer, done>>

LEMMA StepIs ==
  ASSUME [Next]_vars
  PROVE  \/ ClientSends /\ UNCHANGED <<kind, handler, active, pointer, done, meddled>>
         \/ ReadsCtrl \/ ReadsInput \/ ReadsDatagram \/ ReadsNothing
<1>1. CASE ClientSends
  <2>1. UNCHANGED <<kind, handler, active, pointer, done, meddled>>
    BY <1>1 DEF ClientSends, Send
  <2>2. QED
    BY <1>1, <2>1
<1>2. CASE Handshake
  <2>1. CASE /\ Accepts(sent[Head(ctrl)]) /\ done' = done \o Call(Head(ctrl), 0)
    <3>1. /\ sent[Head(ctrl)].type = "Hello" /\ After(sent[Head(ctrl)], active) = active
          /\ MovesTo(sent[Head(ctrl)], pointer.ctrl) = pointer.ctrl
      BY <2>1 DEF Accepts, After, MovesTo, IsMove
    <3>2. QED
      BY <1>2, <2>1, <3>1 DEF Handshake, ReadsCtrl, client, Running
  <2>2. CASE handler' = "failed" /\ done' = done
    BY <1>2, <2>2 DEF Handshake, ReadsCtrl, client, Running
  <2>3. QED
    BY <1>2, <2>1, <2>2 DEF Handshake
<1>3. CASE Serve
  <2> DEFINE m == sent[Head(ctrl)]
  <2>1. CASE Bad(Head(ctrl))
    <3>1. After(m, active) = active /\ MovesTo(m, pointer.ctrl) = pointer.ctrl
      BY <2>1 DEF Bad, After, MovesTo, IsMove
    <3>2. QED
      BY <1>3, <2>1, <3>1 DEF Serve, ReadsCtrl, client, Running
  <2>2. CASE ~Bad(Head(ctrl)) /\ ~Takes(m)
    <3>1. After(m, active) = active
      BY <2>2 DEF Takes, After, Inputs
    <3>2. MovesTo(m, pointer.ctrl) = pointer.ctrl \/ (kind = "quic" /\ m.type \in Inputs)
      BY <2>2 DEF Takes, MovesTo, IsMove, Inputs
    <3>3. QED
      BY <1>3, <2>2, <3>1, <3>2 DEF Serve, ReadsCtrl, client, Running
  <2>3. CASE ~Bad(Head(ctrl)) /\ Takes(m)
    <3>1. ~m.skip /\ Activates(m) = After(m, active)
      BY <2>3 DEF Takes, Activates, After
    <3>2. \A p : Moves(m, p) = MovesTo(m, p)
      BY <3>1 DEF Moves, MovesTo, IsMove
    <3>3. /\ Running /\ ctrl # <<>> /\ ctrl' = Tail(ctrl)
          /\ done' = done \o Call(Head(ctrl), pointer.ctrl) /\ active' = After(m, active)
          /\ pointer' = [pointer EXCEPT !.ctrl = MovesTo(m, @)]
          /\ UNCHANGED <<sent, kind, open, input, dgrams, meddled>>
      BY <1>3, <2>3, <3>1, <3>2 DEF Serve, client, Running
    <3>4. QED
      BY <3>1, <3>3 DEF ReadsCtrl
  <2>4. QED
    BY <2>1, <2>2, <2>3
<1>4. CASE ServeInput
  BY <1>4 DEF ServeInput, ReadsInput, ReadsNothing, client, back, Running
<1>5. CASE Datagram
  BY <1>5 DEF Datagram, ReadsDatagram, client, back, Running
<1>6. CASE Disconnects \/ OtherSwitches
  BY <1>6 DEF Disconnects, OtherSwitches, ReadsNothing, client, Running
<1>7. CASE Answer
  BY <1>7 DEF Answer, ReadsNothing, client, Running
<1>8. CASE StreamEnds
  BY <1>8 DEF StreamEnds, ReadsNothing, client, Running
<1>9. CASE Write
  BY <1>9 DEF Write, ReadsNothing, client, Running
<1>10. CASE WriterNotices
  BY <1>10 DEF WriterNotices, ReadsNothing, client, Running
<1>11. CASE UNCHANGED vars
  BY <1>11 DEF vars, ReadsNothing, Running
<1>12. QED
  BY <1>1, <1>2, <1>3, <1>4, <1>5, <1>6, <1>7, <1>8, <1>9, <1>10, <1>11 DEF Next

LEMMA StreamsInit == Init => Streams
<1> SUFFICES ASSUME Init PROVE Streams
  OBVIOUS
<1>1. sent \in Seq({}) /\ ctrl \in Seq(Nat) /\ input \in Seq(Nat)
  BY DEF Init
<1>2. DOMAIN sent = {} /\ DOMAIN ctrl = {} /\ DOMAIN input = {} /\ dgrams = {}
  BY DEF Init
<1>3. active \in Tabs /\ kind \in Transports
  BY SessionAssumption DEF Init, Transports
<1>4. QED
  BY <1>1, <1>2, <1>3 DEF Streams, OnStream

LEMMA StreamsStep ==
  ASSUME Streams, [Next]_vars
  PROVE  Streams'
<1>1. PICK S : sent \in Seq(S)
  BY DEF Streams
<1>2. CASE ClientSends /\ UNCHANGED <<kind, handler, active, pointer, done, meddled>>
  <2>1. PICK m \in Messages, v \in {"ctrl", "input", "dgram"}, t \in Tabs, k \in BOOLEAN :
          LET x == Stamped(m, v, t, k)
          IN  /\ sent' = Append(sent, x) /\ MessageOK(x) /\ x.via = v
              /\ ctrl' = (IF v = "ctrl" THEN Append(ctrl, Len(sent) + 1) ELSE ctrl)
              /\ input' = (IF v = "input" THEN Append(input, Len(sent) + 1) ELSE input)
              /\ dgrams' = (IF v = "dgram" THEN dgrams \cup {Len(sent) + 1} ELSE dgrams)
    BY <1>2, SendIs
  <2> DEFINE x == Stamped(m, v, t, k)
             n == Len(sent) + 1
  <2>2. sent' = Append(sent, x) /\ MessageOK(x) /\ x.via = v
    BY <2>1
  <2> HIDE DEF x
  <2>3. /\ sent' \in Seq(S \cup {x}) /\ DOMAIN sent' = DOMAIN sent \cup {n} /\ n \notin DOMAIN sent
        /\ sent'[n] = x /\ \A i \in DOMAIN sent : sent'[i] = sent[i]
    BY <1>1, <2>2, AppendFacts
  <2>4. OnStream(sent', ctrl', "ctrl")
    <3>1. CASE v = "ctrl"
      BY <1>1, <2>1, <2>2, <3>1, SendOne DEF Streams
    <3>2. CASE v # "ctrl"
      BY <1>1, <2>1, <2>2, <3>2, SendOne DEF Streams
    <3>3. QED
      BY <3>1, <3>2
  <2>5. OnStream(sent', input', "input")
    <3>1. CASE v = "input"
      BY <1>1, <2>1, <2>2, <3>1, SendOne DEF Streams
    <3>2. CASE v # "input"
      BY <1>1, <2>1, <2>2, <3>2, SendOne DEF Streams
    <3>3. QED
      BY <3>1, <3>2
  <2>6. \A i \in dgrams' : i \in DOMAIN sent' /\ sent'[i].via = "dgram"
    BY <2>1, <2>2, <2>3 DEF Streams
  <2>7. \A i \in DOMAIN sent' : MessageOK(sent'[i])
    BY <2>2, <2>3 DEF Streams
  <2>8. kind' = kind /\ active' = active
    BY <1>2
  <2>9. \A i \in DOMAIN sent' : MessageOK(sent[i])'
    BY <2>7, <2>8 DEF MessageOK
  <2>10. QED
    BY <2>3, <2>4, <2>5, <2>6, <2>8, <2>9 DEF Streams
<1>3. CASE ReadsCtrl
  <2>1. OnStream(sent, Tail(ctrl), "ctrl") /\ Head(ctrl) \in DOMAIN sent
    BY <1>3, ReadOne DEF Streams, ReadsCtrl
  <2>2. active' \in Tabs
    BY <1>3, <2>1 DEF Streams, ReadsCtrl, After, MessageOK
  <2>3. QED
    BY <1>3, <2>1, <2>2 DEF Streams, ReadsCtrl, MessageOK
<1>4. CASE ReadsInput
  <2>1. OnStream(sent, Tail(input), "input")
    BY <1>4, ReadOne DEF Streams, ReadsInput
  <2>2. QED
    BY <1>4, <2>1 DEF Streams, ReadsInput, MessageOK
<1>5. CASE ReadsDatagram
  BY <1>5 DEF Streams, ReadsDatagram, MessageOK
<1>6. CASE ReadsNothing
  BY <1>6 DEF Streams, ReadsNothing, MessageOK
<1>7. QED
  BY <1>2, <1>3, <1>4, <1>5, <1>6, StepIs

-----------------------------------------------------------------------------
(* Each message is acted on once, and over one stream in order. *)

(* Message i has been read, or is a lost datagram. *)
Past(i) ==
  /\ i \in DOMAIN sent
  /\ sent[i].via = "ctrl" => \A j \in DOMAIN ctrl : i < ctrl[j]
  /\ sent[i].via = "input" => \A j \in DOMAIN input : i < input[j]
  /\ sent[i].via = "dgram" => i \notin dgrams

Order ==
  /\ \E S : done \in Seq(S)
  /\ \A k \in DOMAIN done : Past(done[k].i)
  /\ \A k, l \in DOMAIN done : k < l =>
       /\ done[k].i # done[l].i
       /\ sent[done[k].i].via = "ctrl" /\ sent[done[l].i].via = "ctrl" => done[k].i < done[l].i

LEMMA SentKept ==
  ASSUME Streams, [Next]_vars
  PROVE  /\ \A i \in DOMAIN sent : i \in DOMAIN sent' /\ sent'[i] = sent[i] /\ i \in Nat
         /\ kind' = kind
<1>1. PICK S : sent \in Seq(S)
  BY DEF Streams
<1>2. \A i \in DOMAIN sent : i \in Nat
  BY <1>1
<1>3. CASE ClientSends /\ UNCHANGED <<kind, handler, active, pointer, done, meddled>>
  <2>1. PICK x : sent' = Append(sent, x)
    BY <1>3, SendIs
  <2>2. QED
    BY <1>1, <1>2, <1>3, <2>1, AppendFacts
<1>4. CASE ReadsCtrl \/ ReadsInput \/ ReadsDatagram \/ ReadsNothing
  BY <1>2, <1>4 DEF ReadsCtrl, ReadsInput, ReadsDatagram, ReadsNothing
<1>5. QED
  BY <1>3, <1>4, StepIs

LEMMA PastKept ==
  ASSUME Streams, [Next]_vars, NEW i, Past(i)
  PROVE  Past(i)'
<1>1. PICK S : sent \in Seq(S)
  BY DEF Streams
<1>2. i \in DOMAIN sent /\ i \in DOMAIN sent' /\ sent'[i] = sent[i]
  BY SentKept DEF Past
<1>3. CASE ClientSends /\ UNCHANGED <<kind, handler, active, pointer, done, meddled>>
  <2>1. PICK v \in {"ctrl", "input", "dgram"} :
          /\ ctrl' = (IF v = "ctrl" THEN Append(ctrl, Len(sent) + 1) ELSE ctrl)
          /\ input' = (IF v = "input" THEN Append(input, Len(sent) + 1) ELSE input)
          /\ dgrams' = (IF v = "dgram" THEN dgrams \cup {Len(sent) + 1} ELSE dgrams)
    BY <1>3, SendIs
  <2>2. i < Len(sent) + 1
    BY <1>1, <1>2
  <2>3. ctrl \in Seq(Nat) /\ input \in Seq(Nat) /\ Len(sent) + 1 \in Nat
    BY <1>1 DEF Streams, OnStream
  <2>4. ASSUME sent[i].via = "ctrl", NEW j \in DOMAIN ctrl' PROVE i < ctrl'[j]
    BY <2>1, <2>2, <2>3, <2>4, AppendFacts DEF Past
  <2>5. ASSUME sent[i].via = "input", NEW j \in DOMAIN input' PROVE i < input'[j]
    BY <2>1, <2>2, <2>3, <2>5, AppendFacts DEF Past
  <2>6. sent[i].via = "dgram" => i \notin dgrams'
    BY <2>1, <2>2 DEF Past
  <2>7. QED
    BY <1>2, <2>4, <2>5, <2>6 DEF Past
<1>4. CASE ReadsCtrl
  <2>1. \A k : In(k, ctrl') => In(k, ctrl)
    <3>1. OnStream(sent, ctrl, "ctrl") /\ ctrl # <<>> /\ ctrl' = Tail(ctrl)
      BY <1>4 DEF Streams, ReadsCtrl
    <3>2. QED
      BY <3>1, ReadOne
  <2>2. QED
    BY <1>2, <1>4, <2>1 DEF Past, ReadsCtrl, In
<1>5. CASE ReadsInput
  <2>1. \A k : In(k, input') => In(k, input)
    <3>1. OnStream(sent, input, "input") /\ input # <<>> /\ input' = Tail(input)
      BY <1>5 DEF Streams, ReadsInput
    <3>2. QED
      BY <3>1, ReadOne
  <2>2. QED
    BY <1>2, <1>5, <2>1 DEF Past, ReadsInput, In
<1>6. CASE ReadsDatagram \/ ReadsNothing
  BY <1>2, <1>6 DEF Past, ReadsDatagram, ReadsNothing
<1>7. QED
  BY <1>3, <1>4, <1>5, <1>6, StepIs

(* Message i is read by this step and was not before. *)
IsRead(i) ==
  /\ i \in DOMAIN sent /\ Past(i)'
  /\ \A l : Past(l) => l # i /\ (sent[l].via = sent[i].via /\ sent[i].via = "ctrl" => l < i)

LEMMA HeadIsRead ==
  ASSUME Streams, NEW i
  PROVE  /\ ReadsCtrl /\ i = Head(ctrl) => IsRead(i) /\ sent[i].via = "ctrl"
         /\ ReadsInput /\ i = Head(input) => IsRead(i) /\ sent[i].via = "input"
         /\ i \in dgrams /\ dgrams' = dgrams \ {i} /\ UNCHANGED sent =>
              IsRead(i) /\ sent[i].via = "dgram"
<1>1. ASSUME ReadsCtrl, i = Head(ctrl) PROVE IsRead(i) /\ sent[i].via = "ctrl"
  <2>1. /\ i \in DOMAIN sent /\ sent[i].via = "ctrl" /\ sent' = sent
        /\ \A j \in DOMAIN ctrl' : i < ctrl'[j]
    BY <1>1, ReadOne DEF Streams, ReadsCtrl
  <2>2. 1 \in DOMAIN ctrl /\ ctrl[1] = i /\ i \in Nat
    BY <1>1, TailFacts DEF Streams, OnStream, ReadsCtrl
  <2>3. Past(i)'
    BY <2>1 DEF Past
  <2>4. \A l : Past(l) /\ sent[l].via = "ctrl" => l < i
    BY <2>2 DEF Past
  <2>5. ~Past(i)
    BY <2>1, <2>2 DEF Past
  <2>6. QED
    BY <2>1, <2>3, <2>4, <2>5 DEF IsRead
<1>2. ASSUME ReadsInput, i = Head(input) PROVE IsRead(i) /\ sent[i].via = "input"
  <2>1. /\ i \in DOMAIN sent /\ sent[i].via = "input" /\ sent' = sent
        /\ \A j \in DOMAIN input' : i < input'[j]
    BY <1>2, ReadOne DEF Streams, ReadsInput
  <2>2. 1 \in DOMAIN input /\ input[1] = i /\ i \in Nat
    BY <1>2, TailFacts DEF Streams, OnStream, ReadsInput
  <2>3. Past(i)'
    BY <2>1 DEF Past
  <2>4. \A l : Past(l) /\ sent[l].via = "input" => l < i
    BY <2>2 DEF Past
  <2>5. ~Past(i)
    BY <2>1, <2>2 DEF Past
  <2>6. QED
    BY <2>1, <2>3, <2>4, <2>5 DEF IsRead
<1>3. ASSUME i \in dgrams, dgrams' = dgrams \ {i}, UNCHANGED sent
      PROVE  IsRead(i) /\ sent[i].via = "dgram"
  BY <1>3 DEF Streams, IsRead, Past
<1>4. QED
  BY <1>1, <1>2, <1>3

(* A call on HostState made for message i. *)
CallFor(c, i, p) ==
  /\ c.i = i /\ c.op = sent[i].type
  /\ c.op = "InputScroll" => c.at = p
  /\ c.op \in Inputs => c.tab = active

LEMMA CallIs ==
  ASSUME NEW i, NEW p
  PROVE  Call(i, p) = <<>> \/ \E c : Call(i, p) = <<c>> /\ CallFor(c, i, p)
  BY DEF Call, CallFor, Target, Inputs

LEMMA DoneOne ==
  ASSUME NEW S, done \in Seq(S), NEW i, NEW p, done' = done \o Call(i, p)
  PROVE  done' = done \/ \E c : CallFor(c, i, p) /\ done' = Append(done, c)
<1>1. CASE Call(i, p) = <<>>
  BY <1>1
<1>2. ASSUME NEW c, Call(i, p) = <<c>>, CallFor(c, i, p)
      PROVE  done' = Append(done, c)
  <2> DEFINE d == done
             T == S \cup {c}
  <2>1. \A q \in Seq(T) : q \o <<c>> = Append(q, c)
    OBVIOUS
  <2>2. QED
    BY <1>2, <2>1
<1>3. QED
  BY <1>1, <1>2, CallIs

(* What a step adds to done. *)
LEMMA DoneIs ==
  ASSUME Streams, Order, [Next]_vars
  PROVE  \/ done' = done
         \/ \E i, p, c : /\ IsRead(i) /\ CallFor(c, i, p) /\ done' = Append(done, c)
                         /\ UNCHANGED <<sent, kind>>
                         /\ \/ /\ ReadsCtrl /\ i = Head(ctrl)
                               /\ p = pointer.ctrl \/ sent[i].type = "Hello"
                            \/ ReadsInput /\ i = Head(input) /\ p = pointer.input
                            \/ ReadsDatagram /\ i \in dgrams
<1>1. PICK S : done \in Seq(S)
  BY DEF Order
<1>2. CASE ReadsCtrl
  <2>1. PICK p : /\ p = pointer.ctrl \/ sent[Head(ctrl)].type = "Hello"
                 /\ done' = done \/ done' = done \o Call(Head(ctrl), p)
    BY <1>2 DEF ReadsCtrl
  <2>2. \A i : i = Head(ctrl) => IsRead(i) /\ UNCHANGED <<sent, kind>>
    BY <1>2, HeadIsRead DEF ReadsCtrl
  <2>3. ASSUME NEW i, i = Head(ctrl), done' = done \o Call(i, p)
        PROVE  done' = done \/ \E c : CallFor(c, i, p) /\ done' = Append(done, c)
    BY <1>1, <2>3, DoneOne
  <2>4. QED
    BY <1>2, <2>1, <2>2, <2>3
<1>3. CASE ReadsInput
  <2>1. \A i : i = Head(input) => IsRead(i) /\ UNCHANGED <<sent, kind>>
    BY <1>3, HeadIsRead DEF ReadsInput
  <2>2. ASSUME NEW i, i = Head(input)
        PROVE  done' = done \/ \E c : CallFor(c, i, pointer.input) /\ done' = Append(done, c)
    BY <1>1, <1>3, <2>2, DoneOne DEF ReadsInput
  <2>3. QED
    BY <1>3, <2>1, <2>2
<1>4. CASE ReadsDatagram
  <2>1. PICK i \in dgrams : /\ dgrams' = dgrams \ {i}
                            /\ done' = done \/ done' = done \o Call(i, 0)
    BY <1>4 DEF ReadsDatagram
  <2>2. IsRead(i) /\ UNCHANGED <<sent, kind>>
    BY <1>4, <2>1, HeadIsRead DEF ReadsDatagram
  <2>3. QED
    BY <1>1, <1>4, <2>1, <2>2, DoneOne
<1>5. CASE ReadsNothing \/ (ClientSends /\ UNCHANGED done)
  BY <1>5 DEF ReadsNothing
<1>6. QED
  BY <1>2, <1>3, <1>4, <1>5, StepIs

LEMMA OrderStep ==
  ASSUME Streams, Order, [Next]_vars
  PROVE  Order'
<1>1. PICK S : done \in Seq(S)
  BY DEF Order
<1>2. \A i : Past(i) => Past(i)' /\ i \in DOMAIN sent /\ sent'[i] = sent[i]
  BY PastKept, SentKept DEF Past
<1>3. CASE done' = done
  BY <1>2, <1>3 DEF Order
<1>4. ASSUME NEW i, NEW p, NEW c, IsRead(i), CallFor(c, i, p), done' = Append(done, c),
             UNCHANGED sent
      PROVE  Order'
  <2>1. /\ done' \in Seq(S \cup {c}) /\ DOMAIN done' = DOMAIN done \cup {Len(done) + 1}
        /\ \A k \in DOMAIN done : done'[k] = done[k] /\ k < Len(done) + 1 /\ k \in Nat
        /\ done'[Len(done) + 1] = c /\ Len(done) + 1 \in Nat
    BY <1>1, <1>4, AppendFacts
  <2>2. c.i = i
    BY <1>4 DEF CallFor
  <2>3. ASSUME NEW k \in DOMAIN done' PROVE Past(done[k].i)'
    <3>1. \A j : done'[k].i = j => Past(j)'
      BY <1>2, <1>4, <2>1, <2>2 DEF IsRead, Order
    <3>2. QED
      BY <3>1 DEF Past
  <2>4. ASSUME NEW k \in DOMAIN done', NEW l \in DOMAIN done', k < l
        PROVE  /\ done'[k].i # done'[l].i
               /\ sent'[done'[k].i].via = "ctrl" /\ sent'[done'[l].i].via = "ctrl" =>
                    done'[k].i < done'[l].i
    <3>1. k \in DOMAIN done
      BY <2>1, <2>4
    <3>2. CASE l \in DOMAIN done
      BY <1>4, <2>1, <2>4, <3>1, <3>2 DEF Order
    <3>3. CASE l = Len(done) + 1
      <4>1. Past(done[k].i)
        BY <3>1 DEF Order
      <4>2. QED
        BY <1>4, <2>1, <2>2, <3>1, <3>3, <4>1 DEF IsRead
    <3>4. QED
      BY <2>1, <3>2, <3>3
  <2>5. \A k, l \in DOMAIN done' : k < l =>
          /\ done'[k].i # done'[l].i
          /\ sent'[done'[k].i].via = "ctrl" /\ sent'[done'[l].i].via = "ctrl" =>
               done'[k].i < done'[l].i
    BY <2>4
  <2>6. QED
    BY <2>1, <2>3, <2>5 DEF Order
<1>5. QED
  BY <1>3, <1>4, DoneIs

LEMMA OrderMeans == Streams /\ Order => ActedOnce
<1> SUFFICES ASSUME Streams, Order PROVE ActedOnce
  OBVIOUS
<1>1. \A k \in DOMAIN done : k \in Nat /\ done[k].i \in DOMAIN sent
  <2>1. PICK S : done \in Seq(S)
    BY DEF Order
  <2>2. QED
    BY <2>1 DEF Order, Past
<1>2. ASSUME NEW k \in DOMAIN done, NEW l \in DOMAIN done, done[k].i = done[l].i
      PROVE  k = l
  BY <1>1, <1>2 DEF Order
<1>3. ASSUME NEW k \in DOMAIN done, NEW l \in DOMAIN done, kind # "quic", k < l
      PROVE  done[k].i < done[l].i
  BY <1>1, <1>3 DEF Order, Streams, MessageOK
<1>4. QED
  BY <1>2, <1>3 DEF ActedOnce

-----------------------------------------------------------------------------
(* A scroll is where the pointer was last. *)

(* The moves that have been read from a stream, and those sent before i. *)
Moved(s, via, q) ==
  {j \in DOMAIN s : /\ s[j].via = via /\ IsMove(s[j])
                    /\ \A k \in DOMAIN q : j < q[k]}

MovedBefore(s, via, i) == {j \in DOMAIN s : s[j].via = via /\ IsMove(s[j]) /\ j < i}

(* p is where the last of these moves goes. *)
At(s, moves, p) ==
  \/ moves = {} /\ p = 0
  \/ \E j \in moves : (\A l \in moves : l <= j) /\ p = s[j].at

PointerInv ==
  /\ DOMAIN pointer = {"ctrl", "input"}
  /\ Running => At(sent, Moved(sent, "ctrl", ctrl), pointer.ctrl)
  /\ At(sent, Moved(sent, "input", input), pointer.input)
  /\ \A k \in DOMAIN done :
       done[k].op = "InputScroll" => At(sent, MovedBefore(sent, sent[done[k].i].via, done[k].i), done[k].at)

LEMMA MovesRead ==
  ASSUME Streams, NEW q, NEW via, OnStream(sent, q, via), q # <<>>, NEW h, h = Head(q),
         NEW p, At(sent, Moved(sent, via, q), p)
  PROVE  At(sent, Moved(sent, via, Tail(q)), MovesTo(sent[h], p)) /\ At(sent, MovedBefore(sent, via, h), p)
<1> DEFINE r == Tail(q)
<1>1. /\ h \in DOMAIN sent /\ sent[h].via = via /\ h \in Nat
      /\ \A j \in DOMAIN q : q[j] \in Nat
      /\ \A j \in DOMAIN r : h < r[j] /\ r[j] \in Nat
      /\ \A i : In(i, q) <=> i = h \/ In(i, r)
  <2>1. q \in Seq(Nat) /\ \A j \in DOMAIN q : q[j] \in Nat
    BY DEF OnStream
  <2>2. \A j \in DOMAIN r : r[j] \in Nat
    BY <2>1, TailFacts
  <2>3. QED
    BY <2>1, <2>2, ReadOne
<1>2. DOMAIN sent \subseteq Nat
  BY DEF Streams
<1> HIDE DEF r
<1>3. \A j \in DOMAIN sent : sent[j].via = via =>
        /\ (\A k \in DOMAIN q : j < q[k]) <=> j < h
        /\ (\A k \in DOMAIN r : j < r[k]) <=> j <= h
  <2>1. ASSUME NEW j \in DOMAIN sent, sent[j].via = via
        PROVE  (\A k \in DOMAIN q : j < q[k]) <=> j < h
    <3>1. ASSUME NEW k \in DOMAIN q PROVE h <= q[k]
      <4>1. q[k] = h \/ In(q[k], r)
        BY <1>1 DEF In
      <4>2. QED
        BY <1>1, <4>1 DEF In
    <3>2. \E k \in DOMAIN q : q[k] = h
      BY <1>1 DEF In
    <3>3. QED
      BY <1>1, <1>2, <3>1, <3>2
  <2>2. ASSUME NEW j \in DOMAIN sent, sent[j].via = via
        PROVE  (\A k \in DOMAIN r : j < r[k]) <=> j <= h
    <3>1. In(j, q) \/ (\A k \in DOMAIN q : j < q[k])
      BY <2>2 DEF OnStream
    <3>2. CASE j <= h
      BY <1>1, <1>2, <3>2
    <3>3. CASE ~(j <= h)
      <4>1. In(j, q)
        <5>1. \E k \in DOMAIN q : q[k] = h
          BY <1>1 DEF In
        <5>2. QED
          BY <1>1, <1>2, <3>1, <3>3, <5>1
      <4>2. In(j, r)
        BY <1>1, <1>2, <3>3, <4>1
      <4>3. QED
        BY <1>1, <1>2, <3>3, <4>2 DEF In
    <3>4. QED
      BY <3>2, <3>3
  <2>3. QED
    BY <2>1, <2>2
<1>4. MovedBefore(sent, via, h) = Moved(sent, via, q)
  BY <1>3 DEF Moved, MovedBefore
<1>5. Moved(sent, via, r) = Moved(sent, via, q) \cup (IF IsMove(sent[h]) THEN {h} ELSE {})
  BY <1>1, <1>2, <1>3 DEF Moved
<1>6. \A j \in Moved(sent, via, q) : j < h
  BY <1>3 DEF Moved
<1>7. MovesTo(sent[h], p) = IF IsMove(sent[h]) THEN sent[h].at ELSE p
  BY DEF MovesTo
<1>8. At(sent, Moved(sent, via, r), MovesTo(sent[h], p))
  <2>1. CASE IsMove(sent[h])
    <3>1. \A l \in Moved(sent, via, r) : l <= h
      BY <1>1, <1>2, <1>5, <1>6, <2>1 DEF Moved
    <3>2. h \in Moved(sent, via, r)
      BY <1>5, <2>1
    <3>3. QED
      BY <1>7, <2>1, <3>1, <3>2 DEF At
  <2>2. CASE ~IsMove(sent[h])
    BY <1>5, <1>7, <2>2
  <2>3. QED
    BY <2>1, <2>2
<1>9. QED
  BY <1>4, <1>8 DEF r

(* What is sent changes nothing of this. *)
LEMMA MovesSent ==
  ASSUME Streams, ClientSends
  PROVE  /\ \A p : At(sent, Moved(sent, "ctrl", ctrl), p) => At(sent', Moved(sent', "ctrl", ctrl'), p)
         /\ \A p : At(sent, Moved(sent, "input", input), p) =>
                     At(sent', Moved(sent', "input", input'), p)
         /\ \A v, i, p : i \in DOMAIN sent /\ At(sent, MovedBefore(sent, v, i), p) =>
                           At(sent', MovedBefore(sent', v, i), p)
<1>1. PICK S : sent \in Seq(S)
  BY DEF Streams
<1> DEFINE n == Len(sent) + 1
<1>2. PICK x, v :
        /\ sent' = Append(sent, x) /\ x.via = v
        /\ ctrl' = (IF v = "ctrl" THEN Append(ctrl, n) ELSE ctrl)
        /\ input' = (IF v = "input" THEN Append(input, n) ELSE input)
  BY SendIs
<1>3. /\ DOMAIN sent' = DOMAIN sent \cup {n} /\ n \notin DOMAIN sent /\ sent'[n] = x /\ n \in Nat
      /\ \A i \in DOMAIN sent : sent'[i] = sent[i] /\ i < n /\ i \in Nat
  BY <1>1, <1>2, AppendFacts
<1>4. ctrl \in Seq(Nat) /\ input \in Seq(Nat)
  BY DEF Streams, OnStream
<1> HIDE DEF n
<1>5. Moved(sent', "ctrl", ctrl') = Moved(sent, "ctrl", ctrl)
  <2>1. CASE v = "ctrl"
    <3>1. /\ DOMAIN ctrl' = DOMAIN ctrl \cup {Len(ctrl) + 1} /\ ctrl'[Len(ctrl) + 1] = n
          /\ \A j \in DOMAIN ctrl : ctrl'[j] = ctrl[j]
      BY <1>2, <1>3, <1>4, <2>1, AppendFacts
    <3>2. \A j \in DOMAIN sent : (\A k \in DOMAIN ctrl' : j < ctrl'[k])
                                   <=> \A k \in DOMAIN ctrl : j < ctrl[k]
      BY <1>3, <3>1
    <3>3. ~(\A k \in DOMAIN ctrl' : n < ctrl'[k])
      BY <1>3, <3>1
    <3>4. QED
      BY <1>3, <3>2, <3>3 DEF Moved, IsMove
  <2>2. CASE v # "ctrl"
    BY <1>2, <1>3, <2>2 DEF Moved, IsMove
  <2>3. QED
    BY <2>1, <2>2
<1>6. Moved(sent', "input", input') = Moved(sent, "input", input)
  <2>1. CASE v = "input"
    <3>1. /\ DOMAIN input' = DOMAIN input \cup {Len(input) + 1} /\ input'[Len(input) + 1] = n
          /\ \A j \in DOMAIN input : input'[j] = input[j]
      BY <1>2, <1>3, <1>4, <2>1, AppendFacts
    <3>2. \A j \in DOMAIN sent : (\A k \in DOMAIN input' : j < input'[k])
                                   <=> \A k \in DOMAIN input : j < input[k]
      BY <1>3, <3>1
    <3>3. ~(\A k \in DOMAIN input' : n < input'[k])
      BY <1>3, <3>1
    <3>4. QED
      BY <1>3, <3>2, <3>3 DEF Moved, IsMove
  <2>2. CASE v # "input"
    BY <1>2, <1>3, <2>2 DEF Moved, IsMove
  <2>3. QED
    BY <2>1, <2>2
<1>7. \A w, i : i \in DOMAIN sent => MovedBefore(sent', w, i) = MovedBefore(sent, w, i)
  <2>1. \A i \in DOMAIN sent : ~(n < i)
    BY <1>3
  <2>2. QED
    BY <1>3, <2>1 DEF MovedBefore, IsMove
<1>8. \A M \in SUBSET DOMAIN sent : \A p : At(sent, M, p) => At(sent', M, p)
  BY <1>3 DEF At
<1>9. /\ Moved(sent, "ctrl", ctrl) \subseteq DOMAIN sent
      /\ Moved(sent, "input", input) \subseteq DOMAIN sent
      /\ \A w, i : MovedBefore(sent, w, i) \subseteq DOMAIN sent
  BY DEF Moved, MovedBefore
<1>10. QED
  BY <1>5, <1>6, <1>7, <1>8, <1>9

LEMMA PointerStep ==
  ASSUME Streams, Order, PointerInv, [Next]_vars
  PROVE  PointerInv'
<1>1. PICK S : done \in Seq(S)
  BY DEF Order
<1>2. \A i \in DOMAIN sent : i \in DOMAIN sent' /\ sent'[i] = sent[i]
  BY SentKept
<1>3. \A k \in DOMAIN done : done[k].i \in DOMAIN sent
  BY DEF Order, Past
<1>4. \A v, i, p : i \in DOMAIN sent /\ At(sent, MovedBefore(sent, v, i), p) =>
                     At(sent', MovedBefore(sent', v, i), p)
  <2>1. CASE ClientSends
    BY <2>1, MovesSent
  <2>2. CASE sent' = sent
    BY <2>2
  <2>3. QED
    BY <2>1, <2>2, StepIs DEF ReadsCtrl, ReadsInput, ReadsDatagram, ReadsNothing
<1>5. DOMAIN pointer' = {"ctrl", "input"}
  BY StepIs DEF PointerInv, ReadsCtrl, ReadsInput, ReadsDatagram, ReadsNothing
<1>6. Running' => At(sent', Moved(sent', "ctrl", ctrl'), pointer'.ctrl)
  <2>1. CASE ClientSends /\ UNCHANGED <<kind, handler, active, pointer, done, meddled>>
    BY <2>1, MovesSent DEF PointerInv, Running
  <2>2. CASE ReadsCtrl
    <3> SUFFICES ASSUME Running'
                 PROVE  At(sent', Moved(sent', "ctrl", ctrl'), pointer'.ctrl)
      OBVIOUS
    <3>1. Head(ctrl) \in DOMAIN sent /\ sent[Head(ctrl)].via = "ctrl"
      BY <2>2, HeadIsRead DEF IsRead
    <3>2. ~(kind = "quic" /\ sent[Head(ctrl)].type \in Inputs)
      BY <3>1 DEF Streams, MessageOK
    <3>3. pointer'.ctrl = MovesTo(sent[Head(ctrl)], pointer.ctrl)
      BY <2>2, <3>2 DEF ReadsCtrl, PointerInv
    <3>4. At(sent, Moved(sent, "ctrl", Tail(ctrl)), MovesTo(sent[Head(ctrl)], pointer.ctrl))
      BY <2>2, MovesRead DEF ReadsCtrl, Streams, PointerInv
    <3>5. QED
      BY <2>2, <3>3, <3>4 DEF ReadsCtrl
  <2>3. CASE ReadsInput
    BY <2>3 DEF ReadsInput, PointerInv, Running
  <2>4. CASE ReadsDatagram \/ ReadsNothing
    BY <2>4 DEF ReadsDatagram, ReadsNothing, PointerInv, Running
  <2>5. QED
    BY <2>1, <2>2, <2>3, <2>4, StepIs
<1>7. At(sent', Moved(sent', "input", input'), pointer'.input)
  <2>1. CASE ClientSends /\ UNCHANGED <<kind, handler, active, pointer, done, meddled>>
    BY <2>1, MovesSent DEF PointerInv
  <2>2. CASE ReadsInput
    <3>1. pointer'.input = MovesTo(sent[Head(input)], pointer.input)
      <4>1. Head(input) \in DOMAIN sent /\ kind = "quic"
        BY <2>2, HeadIsRead DEF IsRead, ReadsInput
      <4>2. ~sent[Head(input)].skip
        BY <4>1 DEF Streams, MessageOK
      <4>3. QED
        BY <2>2, <4>2 DEF ReadsInput, PointerInv, Moves, MovesTo, IsMove
    <3>2. At(sent, Moved(sent, "input", Tail(input)), MovesTo(sent[Head(input)], pointer.input))
      BY <2>2, MovesRead DEF ReadsInput, Streams, PointerInv
    <3>3. QED
      BY <2>2, <3>1, <3>2 DEF ReadsInput
  <2>3. CASE ReadsCtrl
    BY <2>3 DEF ReadsCtrl, PointerInv
  <2>4. CASE ReadsDatagram \/ ReadsNothing
    BY <2>4 DEF ReadsDatagram, ReadsNothing, PointerInv
  <2>5. QED
    BY <2>1, <2>2, <2>3, <2>4, StepIs
<1>8. ASSUME NEW k \in DOMAIN done', done'[k].op = "InputScroll"
      PROVE  At(sent', MovedBefore(sent', sent'[done'[k].i].via, done'[k].i), done'[k].at)
  <2>1. ASSUME NEW l \in DOMAIN done, done[l].op = "InputScroll"
        PROVE  At(sent', MovedBefore(sent', sent'[done[l].i].via, done[l].i), done[l].at)
    <3>1. At(sent, MovedBefore(sent, sent[done[l].i].via, done[l].i), done[l].at)
      BY <2>1 DEF PointerInv
    <3>2. QED
      BY <1>2, <1>3, <1>4, <3>1
  <2>2. CASE done' = done
    BY <1>8, <2>1, <2>2
  <2>3. ASSUME NEW i, NEW p, NEW c, IsRead(i), CallFor(c, i, p), done' = Append(done, c),
               UNCHANGED <<sent, kind>>,
               \/ /\ ReadsCtrl /\ i = Head(ctrl)
                  /\ p = pointer.ctrl \/ sent[i].type = "Hello"
               \/ ReadsInput /\ i = Head(input) /\ p = pointer.input
               \/ ReadsDatagram /\ i \in dgrams
        PROVE  At(sent', MovedBefore(sent', sent'[done'[k].i].via, done'[k].i), done'[k].at)
    <3>1. CASE k \in DOMAIN done
      BY <1>1, <1>8, <2>1, <2>3, <3>1, AppendFacts
    <3>2. CASE k = Len(done) + 1
      <4>1. done'[k] = c
        BY <1>1, <2>3, <3>2, AppendFacts
      <4>2. c.i = i /\ sent[i].type = "InputScroll" /\ c.at = p /\ i \in DOMAIN sent
        BY <1>8, <2>3, <4>1 DEF CallFor, IsRead
      <4>3. CASE ReadsCtrl /\ i = Head(ctrl) /\ p = pointer.ctrl
        <5>1. At(sent, MovedBefore(sent, "ctrl", i), p) /\ sent[i].via = "ctrl"
          BY <4>3, MovesRead, HeadIsRead DEF ReadsCtrl, Streams, PointerInv
        <5>2. QED
          BY <2>3, <4>1, <4>2, <5>1
      <4>4. CASE ReadsInput /\ i = Head(input) /\ p = pointer.input
        <5>1. At(sent, MovedBefore(sent, "input", i), p) /\ sent[i].via = "input"
          BY <4>4, MovesRead, HeadIsRead DEF ReadsInput, Streams, PointerInv
        <5>2. QED
          BY <2>3, <4>1, <4>2, <5>1
      <4>5. CASE i \in dgrams
        BY <4>2, <4>5 DEF Streams, MessageOK
      <4>6. QED
        BY <2>3, <4>2, <4>3, <4>4, <4>5
    <3>3. QED
      BY <1>1, <2>3, <3>1, <3>2, AppendFacts
  <2>4. QED
    BY <2>2, <2>3, DoneIs
<1>9. QED
  BY <1>5, <1>6, <1>7, <1>8 DEF PointerInv

(* The last of these moves is the maximum of their set. *)
LEMMA PointerMeans == Streams /\ Order /\ PointerInv => ScrollAtPointer
<1> SUFFICES ASSUME Streams, Order, PointerInv,
                    NEW k \in DOMAIN done, done[k].op = "InputScroll"
             PROVE  LET c == done[k]
                        moves == {j \in 1..(c.i - 1) : /\ sent[j].type \in {"InputPointer", "InputButton"}
                                                       /\ sent[j].via = sent[c.i].via
                                                       /\ ~sent[j].skip}
                    IN  c.at = IF moves = {} THEN 0 ELSE sent[Max(moves)].at
  BY DEF ScrollAtPointer, Calls
<1> DEFINE c == done[k]
           moves == {j \in 1..(c.i - 1) : /\ sent[j].type \in {"InputPointer", "InputButton"}
                                          /\ sent[j].via = sent[c.i].via /\ ~sent[j].skip}
<1>1. c.i \in DOMAIN sent /\ At(sent, MovedBefore(sent, sent[c.i].via, c.i), c.at)
  BY DEF Order, Past, PointerInv
<1>2. moves = MovedBefore(sent, sent[c.i].via, c.i) /\ moves \subseteq Nat
  <2>1. PICK S : sent \in Seq(S)
    BY DEF Streams
  <2>2. DOMAIN sent = 1 .. Len(sent) /\ Len(sent) \in Nat
    BY <2>1
  <2>3. QED
    BY <1>1, <2>2 DEF MovedBefore, IsMove
<1> HIDE DEF moves, c
<1>3. At(sent, moves, c.at)
  BY <1>1, <1>2
<1>4. \A j \in moves : (\A l \in moves : l <= j) => Max(moves) = j
  BY <1>2 DEF Max
<1>5. c.at = IF moves = {} THEN 0 ELSE sent[Max(moves)].at
  BY <1>3, <1>4 DEF At
<1>6. QED
  BY <1>5 DEF moves, c

-----------------------------------------------------------------------------
(* An input event goes to the tab its user had in front. *)

(* The messages that wait are a chain: each has the tab its predecessor had,  *)
(* unless it asks for another, and the first one has the active tab.           *)
Chain(s, q, a) ==
  /\ q # <<>> => /\ s[q[1]].front = After(s[q[1]], a)
                 /\ q[Len(q)] = Len(s)
  /\ \A j \in DOMAIN q : j + 1 \in DOMAIN q =>
       s[q[j + 1]].front = After(s[q[j + 1]], s[q[j]].front)
  /\ q = <<>> /\ s # <<>> => s[Len(s)].front = a

FrontInv ==
  /\ meddled \in BOOLEAN
  /\ kind # "quic" /\ meddled = FALSE =>
       /\ Running => Chain(sent, ctrl, active)
       /\ \A k \in DOMAIN done : done[k].op \in Inputs => done[k].tab = sent[done[k].i].front

LEMMA ChainRead ==
  ASSUME Streams, ctrl # <<>>, Chain(sent, ctrl, active), NEW h, h = Head(ctrl)
  PROVE  /\ Chain(sent, Tail(ctrl), After(sent[h], active))
         /\ sent[h].type \in Inputs => sent[h].front = active
<1>1. /\ ctrl \in Seq(Nat) /\ Len(ctrl) \in Nat /\ Len(ctrl) >= 1 /\ DOMAIN ctrl = 1 .. Len(ctrl)
      /\ h = ctrl[1]
  BY DEF Streams, OnStream
<1> DEFINE r == Tail(ctrl)
<1>2. /\ Len(r) = Len(ctrl) - 1 /\ DOMAIN r = 1 .. Len(ctrl) - 1
      /\ \A j \in 1 .. Len(ctrl) - 1 : r[j] = ctrl[j + 1]
      /\ r = <<>> <=> Len(ctrl) = 1
  BY <1>1
<1> HIDE DEF r
<1>3. sent[h].front = After(sent[h], active)
  BY <1>1 DEF Chain, After
<1>4. ASSUME r # <<>>
      PROVE  /\ sent[r[1]].front = After(sent[r[1]], sent[h].front)
             /\ r[Len(r)] = Len(sent)
  <2>1. Len(ctrl) > 1 /\ r[1] = ctrl[2] /\ r[Len(r)] = ctrl[Len(ctrl)]
    BY <1>1, <1>2, <1>4
  <2>2. 1 \in DOMAIN ctrl /\ 1 + 1 \in DOMAIN ctrl /\ 1 + 1 = 2
    BY <1>1, <2>1
  <2>3. sent[ctrl[2]].front = After(sent[ctrl[2]], sent[ctrl[1]].front)
    BY <2>2 DEF Chain
  <2>4. ctrl[Len(ctrl)] = Len(sent)
    BY DEF Chain
  <2>5. QED
    BY <1>1, <2>1, <2>3, <2>4
<1>5. ASSUME NEW j \in DOMAIN r, j + 1 \in DOMAIN r
      PROVE  sent[r[j + 1]].front = After(sent[r[j + 1]], sent[r[j]].front)
  <2>1. /\ j + 1 \in DOMAIN ctrl /\ (j + 1) + 1 \in DOMAIN ctrl
        /\ r[j] = ctrl[j + 1] /\ r[j + 1] = ctrl[(j + 1) + 1]
    BY <1>1, <1>2, <1>5
  <2>2. QED
    BY <2>1 DEF Chain
<1>6. r = <<>> => sent[Len(sent)].front = sent[h].front
  BY <1>1, <1>2 DEF Chain
<1>7. Chain(sent, r, After(sent[h], active))
  BY <1>3, <1>4, <1>5, <1>6 DEF Chain
<1>8. sent[h].type \in Inputs => sent[h].front = active
  BY <1>3 DEF After, Inputs
<1>9. QED
  BY <1>7, <1>8 DEF r

LEMMA ChainSend ==
  ASSUME Streams, ClientSends, kind # "quic", Chain(sent, ctrl, active)
  PROVE  Chain(sent', ctrl', active)
<1>1. PICK S : sent \in Seq(S)
  BY DEF Streams
<1>2. PICK m \in Messages, v \in {"ctrl", "input", "dgram"}, t \in Tabs, k \in BOOLEAN :
        LET x == Stamped(m, v, t, k)
        IN  /\ v \in Routes(m) /\ t = InFront(m, k)
            /\ sent' = Append(sent, x)
            /\ ctrl' = (IF v = "ctrl" THEN Append(ctrl, Len(sent) + 1) ELSE ctrl)
  BY SendIs
<1> DEFINE x == Stamped(m, v, t, k)
           n == Len(sent) + 1
           prev == IF sent = <<>> THEN active ELSE sent[Len(sent)].front
<1>3. v = "ctrl" /\ ctrl' = Append(ctrl, n) /\ sent' = Append(sent, x)
  BY <1>2 DEF Routes
<1>4. x.front = After(x, prev)
  <2>1. x.front = t /\ x.skip = k /\ x.type = m.type /\ (m.type \in {"CreateTab", "SwitchTab"} => x.tab_id = m.tab_id)
    BY <1>2, StampedSays DEF Streams
  <2>2. t = IF m.type \in {"CreateTab", "SwitchTab"} /\ ~k THEN m.tab_id ELSE prev
    BY <1>2 DEF InFront, Last
  <2> HIDE DEF x, prev
  <2>3. QED
    BY <2>1, <2>2 DEF After
<1> HIDE DEF x
<1>5. /\ DOMAIN sent' = DOMAIN sent \cup {n} /\ n \notin DOMAIN sent /\ sent'[n] = x
      /\ \A i \in DOMAIN sent : sent'[i] = sent[i]
      /\ Len(sent) \in Nat /\ n \in Nat
      /\ sent # <<>> => Len(sent) \in DOMAIN sent
  BY <1>1, <1>3, AppendFacts
<1>6. Len(sent') = n /\ sent' # <<>>
  BY <1>1, <1>3
<1>7. /\ ctrl \in Seq(Nat) /\ Len(ctrl) \in Nat /\ DOMAIN ctrl = 1 .. Len(ctrl)
      /\ \A j \in DOMAIN ctrl : ctrl[j] \in DOMAIN sent
  BY DEF Streams, OnStream
<1>8. /\ DOMAIN ctrl' = 1 .. Len(ctrl) + 1 /\ Len(ctrl') = Len(ctrl) + 1 /\ ctrl' # <<>>
      /\ ctrl'[Len(ctrl) + 1] = n /\ \A j \in DOMAIN ctrl : ctrl'[j] = ctrl[j]
  BY <1>3, <1>5, <1>7
<1> HIDE DEF n, prev
<1>9. ctrl # <<>> => sent # <<>> /\ 1 \in DOMAIN ctrl /\ Len(ctrl) \in DOMAIN ctrl
  BY <1>7
<1>10. sent'[ctrl'[1]].front = After(sent'[ctrl'[1]], active)
  <2>1. CASE ctrl = <<>>
    <3>1. prev = active
      BY <2>1 DEF Chain, prev
    <3>2. ctrl'[1] = n
      BY <1>8, <2>1
    <3>3. QED
      BY <1>4, <1>5, <3>1, <3>2
  <2>2. CASE ctrl # <<>>
    BY <1>5, <1>7, <1>8, <1>9, <2>2 DEF Chain
  <2>3. QED
    BY <2>1, <2>2
<1>11. ASSUME NEW j \in DOMAIN ctrl', j + 1 \in DOMAIN ctrl'
       PROVE  sent'[ctrl'[j + 1]].front = After(sent'[ctrl'[j + 1]], sent'[ctrl'[j]].front)
  <2>1. CASE j + 1 \in DOMAIN ctrl
    <3>1. j \in DOMAIN ctrl
      BY <1>7, <1>8, <1>11, <2>1
    <3>2. sent[ctrl[j + 1]].front = After(sent[ctrl[j + 1]], sent[ctrl[j]].front)
      BY <2>1, <3>1 DEF Chain
    <3>3. QED
      BY <1>5, <1>7, <1>8, <2>1, <3>1, <3>2
  <2>2. CASE j = Len(ctrl)
    <3>1. ctrl # <<>> /\ j \in DOMAIN ctrl
      BY <1>7, <1>8, <1>11, <2>2
    <3>2. ctrl'[j] = Len(sent) /\ ctrl'[j + 1] = n
      BY <1>8, <2>2, <3>1 DEF Chain
    <3>3. prev = sent'[ctrl'[j]].front
      BY <1>5, <1>9, <3>1, <3>2 DEF prev
    <3>4. QED
      BY <1>4, <1>5, <3>2, <3>3
  <2>3. QED
    BY <1>7, <1>8, <1>11, <2>1, <2>2
<1>12. QED
  BY <1>6, <1>8, <1>10, <1>11 DEF Chain, n

LEMMA FrontStep ==
  ASSUME Streams, Order, FrontInv, [Next]_vars
  PROVE  FrontInv'
<1>1. PICK S : done \in Seq(S)
  BY DEF Order
<1>2. kind' = kind /\ \A i \in DOMAIN sent : i \in DOMAIN sent' /\ sent'[i] = sent[i]
  BY SentKept
<1>3. \A k \in DOMAIN done : done[k].i \in DOMAIN sent
  BY DEF Order, Past
<1>4. meddled' \in BOOLEAN /\ (meddled' = FALSE => meddled = FALSE /\ (~ReadsCtrl => active' = active))
  BY StepIs DEF FrontInv, ReadsCtrl, ReadsInput, ReadsDatagram, ReadsNothing
<1> SUFFICES ASSUME kind # "quic", meddled' = FALSE
             PROVE  /\ Running' => Chain(sent', ctrl', active')
                    /\ \A k \in DOMAIN done' :
                         done'[k].op \in Inputs => done'[k].tab = sent'[done'[k].i].front
  BY <1>2, <1>4 DEF FrontInv
<1>5. meddled = FALSE /\ (Running => Chain(sent, ctrl, active))
  BY <1>4 DEF FrontInv
<1>6. Running' => Chain(sent', ctrl', active')
  <2>1. CASE ClientSends /\ UNCHANGED <<kind, handler, active, pointer, done, meddled>>
    BY <1>5, <2>1, ChainSend DEF Running
  <2>2. CASE ReadsCtrl
    BY <1>5, <2>2, ChainRead DEF ReadsCtrl
  <2>3. CASE ReadsInput \/ ReadsDatagram \/ ReadsNothing
    BY <1>4, <1>5, <2>3 DEF ReadsInput, ReadsDatagram, ReadsNothing, Running
  <2>4. QED
    BY <2>1, <2>2, <2>3, StepIs
<1>7. \A k \in DOMAIN done : done[k].op \in Inputs => done[k].tab = sent'[done[k].i].front
  BY <1>2, <1>3, <1>5 DEF FrontInv
<1>8. ASSUME NEW i, NEW p, NEW c, IsRead(i), CallFor(c, i, p), done' = Append(done, c),
             UNCHANGED <<sent, kind>>,
             \/ ReadsCtrl /\ i = Head(ctrl)
             \/ ReadsInput
             \/ i \in dgrams
      PROVE  \A k \in DOMAIN done' :
               done'[k].op \in Inputs => done'[k].tab = sent'[done'[k].i].front
  <2>1. c.op \in Inputs => c.tab = sent'[c.i].front
    <3>1. CASE ReadsCtrl /\ i = Head(ctrl)
      <4>1. c.i = i /\ c.op = sent[i].type /\ (c.op \in Inputs => c.tab = active)
        BY <1>8 DEF CallFor
      <4>2. sent[i].type \in Inputs => sent[i].front = active
        BY <1>5, <3>1, ChainRead DEF ReadsCtrl
      <4>3. QED
        BY <1>8, <4>1, <4>2
    <3>2. CASE ReadsInput
      BY <3>2 DEF ReadsInput
    <3>3. CASE i \in dgrams
      BY <3>3 DEF Streams, MessageOK
    <3>4. QED
      BY <1>8, <3>1, <3>2, <3>3
  <2>2. QED
    BY <1>1, <1>7, <1>8, <2>1, AppendFacts
<1>9. \A k \in DOMAIN done' : done'[k].op \in Inputs => done'[k].tab = sent'[done'[k].i].front
  BY <1>7, <1>8, DoneIs
<1>10. QED
  BY <1>6, <1>9

LEMMA FrontMeans == Order /\ FrontInv => InputHitsTab
  BY DEF FrontInv, InputHitsTab, Calls

-----------------------------------------------------------------------------
(* A writer outlives its reader only after an error. *)

OrphanInv ==
  /\ kind = "ws" => handler \in {"serve", "done"}
  /\ handler = "hello" => writer = "off"
  /\ handler \in {"hello", "serve", "done", "failed"}
  /\ open \in {"yes", "eof", "reset", "error"}
  /\ OrphanOnlyAfterError

(* What was acted on so far came before the message that is read. *)
LEMMA CallsBehind ==
  ASSUME Streams, Order, ctrl # <<>>, kind # "quic", NEW c \in Calls
  PROVE  c.i < Head(ctrl)
<1>1. PICK k \in DOMAIN done : c = done[k]
  BY DEF Calls
<1>2. c.i \in DOMAIN sent /\ sent[c.i].via = "ctrl" /\ Past(c.i)
  BY <1>1 DEF Order, Past, Streams, MessageOK
<1>3. 1 \in DOMAIN ctrl /\ ctrl[1] = Head(ctrl)
  BY TailFacts DEF Streams, OnStream
<1>4. QED
  BY <1>2, <1>3 DEF Past

(* A step that leaves what a TCP session has done, and its handler unless it   *)
(* goes on, leaves no orphan that was not one.                                 *)
LEMMA OrphanKept ==
  ASSUME OrphanInv, UNCHANGED <<kind, sent, handler>>,
         open' = open \/ (open = "yes" /\ open' \in {"eof", "reset", "error"}),
         writer' = writer \/ (writer = "run" /\ writer' = "ended"),
         handler \in {"done", "failed"} /\ kind # "quic" => done' = done
  PROVE  OrphanInv'
<1>1. open' \in {"yes", "eof", "reset", "error"}
  BY DEF OrphanInv
<1>2. ASSUME writer' = "run", handler \in {"done", "failed"}, kind # "quic"
      PROVE  OrphanOnlyAfterError'
  <2>1. writer = "run" /\ done' = done
    BY <1>2
  <2>2. /\ kind = "tcp" /\ handler = "failed"
        /\ open = "error" \/ \E i \in DOMAIN sent : Bad(i) /\ \A c \in Calls : c.i < i
    BY <1>2, <2>1 DEF OrphanInv, OrphanOnlyAfterError
  <2>3. Calls' = Calls /\ \A i : sent'[i].type = sent[i].type
    BY <2>1 DEF Calls
  <2>4. QED
    BY <2>2, <2>3 DEF OrphanOnlyAfterError, Bad
<1>3. OrphanOnlyAfterError'
  BY <1>2 DEF OrphanOnlyAfterError
<1>4. QED
  BY <1>1, <1>3 DEF OrphanInv

LEMMA OrphanStep ==
  ASSUME Streams, Order, OrphanInv, [Next]_vars
  PROVE  OrphanInv'
<1>1. CASE ClientSends
  <2>1. /\ open = "yes" /\ UNCHANGED <<kind, open, handler, writer, done>>
        /\ \A i \in DOMAIN sent : i \in DOMAIN sent' /\ sent'[i] = sent[i]
    BY <1>1, SentKept DEF ClientSends, Send, back
  <2>2. QED
    BY <2>1 DEF OrphanInv, OrphanOnlyAfterError, Bad, Calls
<1>2. CASE Disconnects
  BY <1>2, OrphanKept DEF Disconnects, back
<1>3. CASE OtherSwitches
  BY <1>3, OrphanKept DEF OtherSwitches, client, back
<1>4. CASE Handshake
  <2>1. handler' = "serve" \/ (handler' = "failed" /\ writer' = "off")
    BY <1>4 DEF Handshake, OrphanInv
  <2>2. kind' = kind /\ kind # "ws" /\ open' = open
    BY <1>4 DEF Handshake, OrphanInv, client
  <2>3. QED
    BY <2>1, <2>2 DEF OrphanInv, OrphanOnlyAfterError
<1>5. CASE Serve
  <2>1. CASE handler' = "serve"
    BY <1>5, <2>1 DEF Serve, client, OrphanInv, OrphanOnlyAfterError
  <2>2. CASE Bad(Head(ctrl)) /\ kind # "ws"
    <3>1. Head(ctrl) \in DOMAIN sent
      BY <1>5, ReadOne DEF Serve, Streams
    <3>2. /\ handler' = "failed" /\ UNCHANGED <<kind, open, sent, done>>
      BY <1>5, <2>2 DEF Serve, client
    <3>3. kind # "quic" => \A c \in Calls : c.i < Head(ctrl)
      BY <1>5, CallsBehind DEF Serve
    <3>4. kind # "quic" => \A c \in Calls' : c.i < Head(ctrl)
      BY <3>2, <3>3 DEF Calls
    <3>5. kind \in Transports
      BY DEF Streams
    <3>6. sent'[Head(ctrl)].type = "Bad"
      BY <2>2, <3>2 DEF Bad
    <3>7. kind # "quic" => kind' = "tcp" /\ \E i \in DOMAIN sent' : sent'[i].type = "Bad" /\ \A c \in Calls' : c.i < i
      BY <2>2, <3>1, <3>2, <3>4, <3>5, <3>6 DEF Transports
    <3>8. QED
      BY <2>2, <3>2, <3>7 DEF OrphanInv, OrphanOnlyAfterError, Bad
  <2>3. QED
    BY <1>5, <2>1, <2>2 DEF Serve
<1>6. CASE Answer
  <2>1. CASE handler' = handler
    BY <1>6, <2>1, OrphanKept DEF Answer, client
  <2>2. CASE kind = "quic" /\ handler' = "failed"
    <3>1. kind' = "quic" /\ open' = open
      BY <1>6, <2>2 DEF Answer, client
    <3>2. QED
      BY <2>2, <3>1 DEF OrphanInv, OrphanOnlyAfterError
  <2>3. QED
    BY <1>6, <2>1, <2>2 DEF Answer
<1>7. CASE StreamEnds
  <2>1. /\ open # "yes" /\ handler \in {"hello", "serve"} /\ UNCHANGED <<kind, open>>
        /\ handler' = (IF handler = "serve" /\ (Clean \/ kind = "ws") THEN "done" ELSE "failed")
        /\ writer' = (IF handler' = "done" /\ kind # "quic" /\ writer = "run" THEN "ended" ELSE writer)
    BY <1>7 DEF StreamEnds, client, AtEnd
  <2>2. CASE handler' = "done"
    BY <2>1, <2>2 DEF OrphanInv, OrphanOnlyAfterError
  <2>3. CASE handler' = "failed"
    <3>1. kind # "ws" /\ (writer' = "run" => ~Clean)
      BY <2>1, <2>3 DEF OrphanInv
    <3>2. QED
      <4>1. writer' = "run" => open' \notin {"yes", "eof", "reset"}
        BY <2>1, <3>1 DEF Clean
      <4>2. open \in {"yes", "eof", "reset", "error"}
        BY DEF OrphanInv
      <4>3. kind \in Transports
        BY DEF Streams
      <4>4. QED
        BY <2>1, <2>3, <3>1, <4>1, <4>2, <4>3 DEF OrphanInv, OrphanOnlyAfterError, Transports
  <2>4. QED
    BY <2>1, <2>2, <2>3
<1>8. CASE Write
  BY <1>8, OrphanKept DEF Write, client
<1>9. CASE WriterNotices
  BY <1>9, OrphanKept DEF WriterNotices, client
<1>10. CASE ServeInput
  BY <1>10, OrphanKept DEF ServeInput, client, back
<1>11. CASE Datagram
  <2>1. kind = "quic"
    BY <1>11 DEF Datagram, Streams, MessageOK
  <2>2. QED
    BY <1>11, <2>1, OrphanKept DEF Datagram, client, back
<1>12. CASE UNCHANGED vars
  BY <1>12, OrphanKept DEF vars
<1>13. QED
  BY <1>1, <1>2, <1>3, <1>4, <1>5, <1>6, <1>7, <1>8, <1>9, <1>10, <1>11, <1>12 DEF Next

-----------------------------------------------------------------------------
(* Nothing is done for a client that has not said HELLO. *)

Spoken(s) == {i \in DOMAIN s : s[i].via = "ctrl"}

Hellos == [type : {"Hello"}, version : {1}, size : Nat, via : {"ctrl"}, front : Tabs,
           skip : BOOLEAN]

FirstIsHello(s) == \E i \in Spoken(s) : (\A j \in Spoken(s) : i <= j) /\ s[i] \in Hellos

(* A message that is sent comes after those spoken so far, and waits. *)
LEMMA SpokenSend ==
  ASSUME Streams, ClientSends
  PROVE  /\ \A i \in Spoken(sent) : i \in Spoken(sent') /\ sent'[i] = sent[i] /\ i \in Nat
         /\ \A i \in Spoken(sent') :
              \/ i \in Spoken(sent)
              \/ In(i, ctrl') /\ i \in Nat /\ \A j \in Spoken(sent) : j <= i
         /\ \A i : In(i, ctrl) => In(i, ctrl')
<1>1. PICK S : sent \in Seq(S)
  BY DEF Streams
<1>2. PICK x, v :
        /\ sent' = Append(sent, x) /\ x.via = v
        /\ ctrl' = (IF v = "ctrl" THEN Append(ctrl, Len(sent) + 1) ELSE ctrl)
  BY SendIs
<1> DEFINE n == Len(sent) + 1
<1>3. /\ DOMAIN sent' = DOMAIN sent \cup {n} /\ sent'[n] = x /\ n \in Nat
      /\ \A i \in DOMAIN sent : sent'[i] = sent[i] /\ i < n /\ i \in Nat
  BY <1>1, <1>2, AppendFacts
<1>4. /\ \A i : In(i, ctrl) => In(i, ctrl')
      /\ v = "ctrl" => In(n, ctrl')
  <2>1. CASE v = "ctrl"
    <3>1. ctrl \in Seq(Nat)
      BY DEF Streams, OnStream
    <3>2. /\ DOMAIN ctrl' = DOMAIN ctrl \cup {Len(ctrl) + 1} /\ ctrl'[Len(ctrl) + 1] = n
          /\ \A j \in DOMAIN ctrl : ctrl'[j] = ctrl[j]
      BY <1>2, <2>1, <3>1, AppendFacts
    <3>3. QED
      BY <3>2 DEF In
  <2>2. CASE v # "ctrl"
    BY <1>2, <2>2
  <2>3. QED
    BY <2>1, <2>2
<1> HIDE DEF n
<1>5. Spoken(sent') = Spoken(sent) \cup (IF v = "ctrl" THEN {n} ELSE {})
  BY <1>2, <1>3 DEF Spoken
<1>6. \A i \in Spoken(sent) : i < n /\ i \in Nat /\ sent'[i] = sent[i]
  BY <1>3 DEF Spoken
<1>7. QED
  BY <1>3, <1>4, <1>5, <1>6

Silent ==
  /\ handler \in {"hello", "failed"}
  /\ handler = "hello" => \A i \in Spoken(sent) : In(i, ctrl)
  /\ got = <<>> /\ replies = <<>> /\ owed = <<>>
  /\ \A k \in DOMAIN done : kind = "quic" /\ done[k].op \in Inputs

GreetInv == kind # "ws" => FirstIsHello(sent) \/ Silent

LEMMA GreetStep ==
  ASSUME Streams, Order, GreetInv, [Next]_vars
  PROVE  GreetInv'
<1> SUFFICES ASSUME kind # "ws" PROVE FirstIsHello(sent') \/ Silent'
  BY SentKept DEF GreetInv
<1>1. PICK S : sent \in Seq(S)
  BY DEF Streams
<1>2. PICK D : done \in Seq(D)
  BY DEF Order
<1>3. /\ \A i \in DOMAIN sent : i \in DOMAIN sent' /\ sent'[i] = sent[i] /\ i \in Nat
      /\ kind' = kind
  BY SentKept
<1>4. ASSUME ClientSends
      PROVE  /\ FirstIsHello(sent) => FirstIsHello(sent')
             /\ Silent => Silent'
  <2>1. FirstIsHello(sent) => FirstIsHello(sent')
    BY <1>4, SpokenSend DEF FirstIsHello
  <2>2. UNCHANGED <<handler, got, replies, owed, done>>
    BY <1>4 DEF ClientSends, Send, back
  <2>3. Silent => Silent'
    BY <1>3, <1>4, <2>2, SpokenSend DEF Silent
  <2>4. QED
    BY <2>1, <2>3
<1>5. sent' = sent \/ ClientSends
  BY StepIs DEF ReadsCtrl, ReadsInput, ReadsDatagram, ReadsNothing
<1>6. CASE FirstIsHello(sent)
  BY <1>4, <1>5, <1>6
<1>7. ASSUME Silent, ~ClientSends
      PROVE  FirstIsHello(sent') \/ Silent'
  <2>1. CASE Handshake
    <3>1. CASE Accepts(sent[Head(ctrl)])
      <4> DEFINE h == Head(ctrl)
      <4>1. /\ h \in DOMAIN sent /\ sent[h].via = "ctrl" /\ h \in Nat
            /\ \A j \in DOMAIN Tail(ctrl) : h < Tail(ctrl)[j]
            /\ \A i : In(i, ctrl) <=> i = h \/ In(i, Tail(ctrl))
        BY <2>1, ReadOne DEF Handshake, Streams
      <4>2. MessageOK(sent[h])
        BY <4>1 DEF Streams
      <4> HIDE DEF h
      <4>3. \A j \in Spoken(sent) : h <= j
        <5>1. \A j : In(j, Tail(ctrl)) => h < j
          BY <4>1 DEF In
        <5>2. \A j \in Spoken(sent) : j = h \/ In(j, Tail(ctrl))
          BY <1>7, <2>1, <4>1 DEF Silent, Handshake
        <5>3. QED
          BY <1>3, <4>1, <5>1, <5>2 DEF Spoken
      <4>4. sent[h] \in Hellos
        BY <3>1, <4>2 DEF MessageOK, Accepts, Hellos, h
      <4>5. FirstIsHello(sent)
        BY <4>1, <4>3, <4>4 DEF FirstIsHello, Spoken
      <4>6. QED
        BY <1>5, <1>7, <4>5
    <3>2. CASE ~Accepts(sent[Head(ctrl)])
      BY <1>3, <1>7, <2>1, <3>2 DEF Handshake, Silent, client
    <3>3. QED
      BY <3>1, <3>2
  <2>2. CASE Serve \/ Answer \/ Write
    BY <1>7, <2>2 DEF Serve, Answer, Write, Silent
  <2>3. CASE StreamEnds
    BY <1>3, <1>7, <2>3 DEF StreamEnds, Silent, client
  <2>4. CASE ServeInput \/ Datagram
    <3>1. UNCHANGED <<sent, ctrl, handler, got, replies, owed>>
      BY <2>4 DEF ServeInput, Datagram, client, back
    <3>2. ASSUME NEW i, NEW p, NEW c, IsRead(i), CallFor(c, i, p), done' = Append(done, c),
                 (ReadsInput /\ i = Head(input)) \/ i \in dgrams
          PROVE  \A k \in DOMAIN done' : kind = "quic" /\ done'[k].op \in Inputs
      <4>1. kind = "quic" /\ sent[i].type \in Inputs
        <5>1. i \in DOMAIN sent /\ sent[i].via # "ctrl"
          BY <3>2, HeadIsRead DEF IsRead, Streams
        <5>2. QED
          BY <5>1 DEF Streams, MessageOK
      <4>2. c.op \in Inputs
        BY <3>2, <4>1 DEF CallFor
      <4>3. QED
        BY <1>2, <1>7, <3>2, <4>1, <4>2, AppendFacts DEF Silent
    <3>3. ~ReadsCtrl
      BY <3>1, <1>1 DEF ReadsCtrl, Streams, OnStream
    <3>4. \A k \in DOMAIN done' : kind = "quic" /\ done'[k].op \in Inputs
      BY <1>7, <3>2, <3>3, DoneIs DEF Silent
    <3>5. QED
      BY <1>3, <1>7, <3>1, <3>4 DEF Silent
  <2>5. CASE Disconnects \/ OtherSwitches
    BY <1>3, <1>7, <2>5 DEF Disconnects, OtherSwitches, Silent, client, back
  <2>6. CASE WriterNotices
    BY <1>3, <1>7, <2>6 DEF WriterNotices, Silent, client
  <2>7. CASE UNCHANGED vars
    BY <1>3, <1>7, <2>7 DEF vars, Silent
  <2>8. QED
    BY <1>7, <2>1, <2>2, <2>3, <2>4, <2>5, <2>6, <2>7 DEF Next
<1>8. QED
  BY <1>4, <1>6, <1>7 DEF GreetInv

LEMMA GreetMeans == Streams /\ GreetInv => HelloFirst
<1> SUFFICES ASSUME Streams, GreetInv PROVE HelloFirst
  OBVIOUS
<1>1. Spoken(sent) \subseteq Nat
  BY DEF Streams, Spoken
<1>2. \A i \in Spoken(sent) : (\A j \in Spoken(sent) : i <= j) => Min(Spoken(sent)) = i
  BY <1>1 DEF Min
<1>3. FirstIsHello(sent) => Spoken(sent) # {} /\ sent[Min(Spoken(sent))] \in Hellos
  BY <1>2 DEF FirstIsHello
<1>4. QED
  BY <1>3 DEF GreetInv, Silent, HelloFirst, Spoken, Hellos, Calls

-----------------------------------------------------------------------------
(* Replies are given once and in order. *)

ReplyTypes == {"Welcome", "Heartbeat", "TabCreated", "TabClosed", "TabActivated"}

ReplyTo == [re : Nat, type : ReplyTypes]

(* The messages these replies answer. *)
Res(q) == {q[k].re : k \in DOMAIN q}

Rise(q) == q \in Seq(ReplyTo) /\ \A k, l \in DOMAIN q : k < l => q[k].re < q[l].re

Below(A, B) == \A a \in A, b \in B : a < b

LEMMA RiseNat ==
  ASSUME NEW q, Rise(q)
  PROVE  Res(q) \subseteq Nat /\ \A k \in DOMAIN q : k \in Nat
<1>1. \A k \in DOMAIN q : q[k] \in ReplyTo /\ k \in Nat
  BY DEF Rise
<1>2. QED
  BY <1>1 DEF Res, ReplyTo

LEMMA RiseNone == Rise(<<>>) /\ Res(<<>>) = {}
  BY DEF Rise, Res

LEMMA RiseAppend ==
  ASSUME NEW q, Rise(q), NEW x \in ReplyTo, Below(Res(q), {x.re})
  PROVE  Rise(Append(q, x)) /\ Res(Append(q, x)) = Res(q) \cup {x.re}
<1> DEFINE r == Append(q, x)
<1>1. /\ r \in Seq(ReplyTo) /\ DOMAIN r = DOMAIN q \cup {Len(q) + 1}
      /\ \A k \in DOMAIN q : r[k] = q[k] /\ k < Len(q) + 1 /\ k \in Nat
      /\ r[Len(q) + 1] = x /\ Len(q) + 1 \in Nat
  <2>1. ReplyTo \cup {x} = ReplyTo
    OBVIOUS
  <2>2. q \in Seq(ReplyTo) /\ r \in Seq(ReplyTo)
    BY DEF Rise
  <2>3. QED
    BY <2>1, <2>2, AppendFacts
<1>2. \A k \in DOMAIN q : q[k].re < x.re
  BY DEF Res, Below
<1> HIDE DEF r
<1>3. ASSUME NEW k \in DOMAIN r, NEW l \in DOMAIN r, k < l PROVE r[k].re < r[l].re
  <2>1. k \in DOMAIN q
    BY <1>1, <1>3
  <2>2. CASE l \in DOMAIN q
    BY <1>1, <1>3, <2>1, <2>2 DEF Rise
  <2>3. CASE l = Len(q) + 1
    BY <1>1, <1>2, <2>1, <2>3
  <2>4. QED
    BY <1>1, <2>2, <2>3
<1>4. Rise(r)
  BY <1>1, <1>3 DEF Rise
<1>5. Res(r) = Res(q) \cup {x.re}
  BY <1>1 DEF Res
<1>6. QED
  BY <1>4, <1>5 DEF r

LEMMA RiseTail ==
  ASSUME NEW q, Rise(q), q # <<>>
  PROVE  /\ Rise(Tail(q)) /\ Head(q) \in ReplyTo
         /\ Res(q) = Res(Tail(q)) \cup {Head(q).re}
         /\ Below({Head(q).re}, Res(Tail(q)))
<1> DEFINE r == Tail(q)
<1>1. /\ r \in Seq(ReplyTo) /\ Head(q) \in ReplyTo /\ 1 \in DOMAIN q /\ q[1] = Head(q)
      /\ \A j \in DOMAIN r : j + 1 \in DOMAIN q /\ r[j] = q[j + 1] /\ 1 < j + 1 /\ j \in Nat
      /\ \A j \in DOMAIN q : j = 1 \/ \E k \in DOMAIN r : r[k] = q[j]
  BY TailFacts DEF Rise
<1> HIDE DEF r
<1>2. ASSUME NEW j \in DOMAIN r, NEW k \in DOMAIN r, j < k PROVE r[j].re < r[k].re
  <2>1. j + 1 < k + 1
    BY <1>1, <1>2
  <2>2. QED
    BY <1>1, <2>1 DEF Rise
<1>3. Rise(r)
  BY <1>1, <1>2 DEF Rise
<1>4. \A j \in DOMAIN r : Head(q).re < r[j].re
  BY <1>1 DEF Rise
<1>5. Below({Head(q).re}, Res(r))
  BY <1>4 DEF Below, Res
<1>6. Res(q) = Res(r) \cup {Head(q).re}
  BY <1>1 DEF Res
<1>7. QED
  BY <1>1, <1>3, <1>5, <1>6 DEF r

LEMMA RiseConcat ==
  ASSUME NEW p, Rise(p), NEW q, Rise(q), Below(Res(p), Res(q))
  PROVE  Rise(p \o q) /\ Res(p \o q) = Res(p) \cup Res(q)
<1> DEFINE r == p \o q
<1>1. p \in Seq(ReplyTo) /\ q \in Seq(ReplyTo) /\ r \in Seq(ReplyTo)
  BY DEF Rise
<1>2. /\ Len(p) \in Nat /\ DOMAIN p = 1 .. Len(p) /\ Len(q) \in Nat /\ DOMAIN q = 1 .. Len(q)
      /\ DOMAIN r = 1 .. Len(p) + Len(q)
      /\ \A k \in 1 .. Len(p) + Len(q) : r[k] = IF k <= Len(p) THEN p[k] ELSE q[k - Len(p)]
  BY <1>1
<1> HIDE DEF r
<1>3. ASSUME NEW k \in DOMAIN r
      PROVE  \/ k \in DOMAIN p /\ r[k] = p[k]
             \/ k - Len(p) \in DOMAIN q /\ r[k] = q[k - Len(p)] /\ ~(k \in DOMAIN p)
  BY <1>2
<1>4. \A a \in DOMAIN p, b \in DOMAIN q : p[a].re < q[b].re
  BY DEF Below, Res
<1>5. ASSUME NEW k \in DOMAIN r, NEW l \in DOMAIN r, k < l PROVE r[k].re < r[l].re
  <2>1. CASE k \in DOMAIN p /\ l \in DOMAIN p
    BY <1>3, <1>5, <2>1 DEF Rise
  <2>2. CASE k \in DOMAIN p /\ l \notin DOMAIN p
    BY <1>3, <1>4, <2>2
  <2>3. CASE k \notin DOMAIN p /\ l \notin DOMAIN p
    <3>1. k - Len(p) < l - Len(p)
      BY <1>2, <1>5
    <3>2. /\ k - Len(p) \in DOMAIN q /\ r[k] = q[k - Len(p)]
          /\ l - Len(p) \in DOMAIN q /\ r[l] = q[l - Len(p)]
      BY <1>3, <2>3
    <3>3. QED
      BY <3>1, <3>2 DEF Rise
  <2>4. CASE k \notin DOMAIN p /\ l \in DOMAIN p
    BY <1>2, <1>5, <2>4
  <2>5. QED
    BY <2>1, <2>2, <2>3, <2>4
<1>6. Rise(r)
  BY <1>1, <1>5 DEF Rise
<1>7. Res(r) = Res(p) \cup Res(q)
  <2>1. Res(r) \subseteq Res(p) \cup Res(q)
    BY <1>3 DEF Res
  <2>2. \A k \in DOMAIN p : k \in DOMAIN r /\ r[k] = p[k]
    BY <1>2
  <2>3. \A k \in DOMAIN q : Len(p) + k \in DOMAIN r /\ r[Len(p) + k] = q[k]
    BY <1>2
  <2>4. ASSUME NEW k \in DOMAIN p PROVE p[k].re \in Res(r)
    BY <2>2 DEF Res
  <2>5. ASSUME NEW k \in DOMAIN q PROVE q[k].re \in Res(r)
    BY <2>3 DEF Res
  <2>6. QED
    BY <2>1, <2>4, <2>5 DEF Res
<1>8. QED
  BY <1>6, <1>7 DEF r

LEMMA ReplyIs ==
  ASSUME NEW i \in Nat
  PROVE  /\ Reply(i) = <<>> \/ \E x \in ReplyTo : x.re = i /\ Reply(i) = <<x>>
         /\ sent[i].type \in Requests => Reply(i) # <<>>
<1>1. \/ Reply(i) = <<>> /\ sent[i].type \notin Requests
      \/ \E T \in ReplyTypes : Reply(i) = <<[re |-> i, type |-> T]>>
  BY DEF Reply, ReplyTypes, Requests
<1>2. \A T \in ReplyTypes : [re |-> i, type |-> T] \in ReplyTo
  BY DEF ReplyTo
<1>3. \A x : <<x>> # <<>>
  OBVIOUS
<1>4. QED
  BY <1>1, <1>2, <1>3

LEMMA RiseOne ==
  ASSUME NEW x \in ReplyTo
  PROVE  Rise(<<x>>) /\ Res(<<x>>) = {x.re}
  BY DEF Rise, Res

(* Everything up to message a has been read from the control stream. *)
ReadTill(a) == a \in DOMAIN sent /\ \A j \in DOMAIN ctrl : a < ctrl[j]

Replies == Res(got) \cup Res(replies) \cup Res(owed)

ReplyInv ==
  /\ Rise(got) /\ Rise(replies)
  /\ owed = <<>> \/ \E x \in ReplyTo : owed = <<x>>
  /\ Below(Res(got), Res(replies)) /\ Below(Res(got), Res(owed)) /\ Below(Res(replies), Res(owed))
  /\ \A a \in Replies : ReadTill(a)
  /\ kind = "quic" => replies = <<>>
  /\ handler = "hello" => /\ got = <<>> /\ replies = <<>> /\ owed = <<>>
                          /\ \A i \in Spoken(sent) : In(i, ctrl)
  /\ open = "yes" /\ handler = "serve" =>
       /\ writer = "run"
       /\ \A i \in Spoken(sent) : sent[i].type \in Requests /\ ~sent[i].skip /\ ReadTill(i) => i \in Replies

LEMMA TillSend ==
  ASSUME Streams, ClientSends
  PROVE  /\ \A a : ReadTill(a) => ReadTill(a)'
         /\ \A a \in Spoken(sent') : ReadTill(a)' => a \in Spoken(sent) /\ ReadTill(a)
<1>1. PICK S : sent \in Seq(S)
  BY DEF Streams
<1>2. PICK x, v :
        /\ sent' = Append(sent, x) /\ x.via = v
        /\ ctrl' = (IF v = "ctrl" THEN Append(ctrl, Len(sent) + 1) ELSE ctrl)
  BY SendIs
<1> DEFINE n == Len(sent) + 1
<1>3. /\ DOMAIN sent' = DOMAIN sent \cup {n} /\ n \in Nat
      /\ \A i \in DOMAIN sent : i < n /\ i \in Nat
  BY <1>1, <1>2, AppendFacts
<1>4. \A a \in DOMAIN sent : (\A j \in DOMAIN ctrl' : a < ctrl'[j]) <=> \A j \in DOMAIN ctrl : a < ctrl[j]
  <2>1. CASE v = "ctrl"
    <3>1. ctrl \in Seq(Nat)
      BY DEF Streams, OnStream
    <3>2. /\ DOMAIN ctrl' = DOMAIN ctrl \cup {Len(ctrl) + 1} /\ ctrl'[Len(ctrl) + 1] = n
          /\ \A j \in DOMAIN ctrl : ctrl'[j] = ctrl[j]
      BY <1>2, <2>1, <3>1, AppendFacts
    <3> HIDE DEF n
    <3>3. QED
      BY <1>3, <3>2
  <2>2. CASE v # "ctrl"
    BY <1>2, <2>2
  <2>3. QED
    BY <2>1, <2>2
<1> HIDE DEF n
<1>5. \A a : ReadTill(a) => ReadTill(a)'
  BY <1>3, <1>4 DEF ReadTill
<1>6. ASSUME NEW a \in Spoken(sent'), ReadTill(a)'
      PROVE  a \in Spoken(sent) /\ ReadTill(a)
  <2>1. ~(In(a, ctrl') /\ a \in Nat)
    BY <1>6 DEF ReadTill, In
  <2>2. a \in Spoken(sent)
    BY <2>1, SpokenSend
  <2>3. QED
    BY <1>4, <1>6, <2>2 DEF ReadTill, Spoken
<1>7. QED
  BY <1>5, <1>6

LEMMA TillRead ==
  ASSUME Streams, ctrl # <<>>, ctrl' = Tail(ctrl), sent' = sent, NEW h, h = Head(ctrl)
  PROVE  /\ h \in Spoken(sent) /\ h \in Nat /\ ReadTill(h)'
         /\ \A a : ReadTill(a) => a < h /\ ReadTill(a)'
         /\ \A i \in Spoken(sent) : ReadTill(i)' => i = h \/ ReadTill(i)
         /\ \A i \in Spoken(sent) : In(i, ctrl) /\ ReadTill(i)' => i = h
<1> DEFINE r == Tail(ctrl)
<1>1. OnStream(sent, ctrl, "ctrl")
  BY DEF Streams
<1>2. /\ h \in DOMAIN sent /\ sent[h].via = "ctrl" /\ h \in Nat
      /\ \A j \in DOMAIN r : h < r[j]
      /\ \A i : In(i, ctrl) <=> i = h \/ In(i, r)
  BY <1>1, ReadOne
<1>3. 1 \in DOMAIN ctrl /\ ctrl[1] = h /\ DOMAIN sent \subseteq Nat
  BY <1>1, TailFacts DEF OnStream, Streams
<1> HIDE DEF r
<1>4. ctrl' = r
  BY DEF r
<1>5. h \in Spoken(sent) /\ ReadTill(h)'
  BY <1>2, <1>4 DEF Spoken, ReadTill
<1>6. ASSUME NEW a, ReadTill(a) PROVE a < h /\ ReadTill(a)'
  <2>1. a < h /\ a \in DOMAIN sent
    BY <1>3, <1>6 DEF ReadTill
  <2>2. ASSUME NEW j \in DOMAIN r PROVE a < r[j]
    <3>1. In(r[j], r)
      BY DEF In
    <3>2. In(r[j], ctrl)
      BY <1>2, <3>1
    <3>3. QED
      BY <1>6, <3>2 DEF ReadTill, In
  <2>3. QED
    BY <1>4, <2>1, <2>2 DEF ReadTill
<1>7. ASSUME NEW i \in Spoken(sent), In(i, ctrl), ReadTill(i)' PROVE i = h
  <2>1. i \in Nat
    BY <1>3 DEF Spoken
  <2>2. ~In(i, r)
    BY <1>4, <1>7, <2>1 DEF ReadTill, In
  <2>3. QED
    BY <1>2, <1>7, <2>2
<1>8. ASSUME NEW i \in Spoken(sent), ReadTill(i)' PROVE i = h \/ ReadTill(i)
  <2>1. In(i, ctrl) \/ ReadTill(i)
    BY <1>1 DEF OnStream, Spoken, ReadTill
  <2>2. QED
    BY <1>7, <1>8, <2>1
<1>9. QED
  BY <1>2, <1>5, <1>6, <1>7, <1>8

LEMMA SameRequests == kind' = kind => Requests' = Requests
  BY DEF Requests

(* A step that neither replies nor reads. *)
LEMMA ReplyKept ==
  ASSUME ReplyInv, UNCHANGED <<sent, kind, ctrl, owed, replies, got>>,
         open' = "yes" => open = "yes" /\ writer' = writer,
         handler' = handler \/ handler' \in {"done", "failed"}
  PROVE  ReplyInv'
<1>1. \A a : ReadTill(a)' <=> ReadTill(a)
  BY DEF ReadTill
<1>2. QED
  BY <1>1 DEF ReplyInv, Replies, Requests

LEMMA ReplyStep ==
  ASSUME Streams, ReplyInv, [Next]_vars
  PROVE  ReplyInv'
<1>1. CASE ClientSends
  <2>1. UNCHANGED <<kind, open, handler, writer, owed, replies, got>>
    BY <1>1 DEF ClientSends, Send, back
  <2>2. \A a \in Replies' : ReadTill(a)'
    BY <1>1, <2>1, TillSend DEF ReplyInv, Replies
  <2>3. ASSUME handler = "hello", NEW i \in Spoken(sent') PROVE In(i, ctrl')
    BY <1>1, <2>3, SpokenSend DEF ReplyInv
  <2>4. ASSUME open = "yes", handler = "serve", NEW i \in Spoken(sent'),
               sent'[i].type \in Requests, ~sent'[i].skip, ReadTill(i)'
        PROVE  i \in Replies'
    <3>1. i \in Spoken(sent) /\ ReadTill(i) /\ sent'[i] = sent[i]
      BY <1>1, <2>4, TillSend, SpokenSend
    <3>2. QED
      BY <2>1, <2>4, <3>1 DEF ReplyInv, Replies
  <2>5. QED
    BY <2>1, <2>2, <2>3, <2>4, SameRequests DEF ReplyInv
<1>2. CASE Handshake
  <2> DEFINE h == Head(ctrl)
  <2>1. /\ ctrl # <<>> /\ ctrl' = Tail(ctrl) /\ sent' = sent
        /\ UNCHANGED <<kind, open, owed, replies>>
        /\ got = <<>> /\ replies = <<>> /\ owed = <<>> /\ \A i \in Spoken(sent) : In(i, ctrl)
    BY <1>2 DEF Handshake, ReplyInv, client
  <2>2. /\ h \in Nat /\ \A i : i = h => ReadTill(i)'
        /\ \A i \in Spoken(sent) : In(i, ctrl) /\ ReadTill(i)' => i = h
    BY <2>1, TillRead
  <2>3. CASE handler' = "failed" /\ got' = got
    BY <2>1, <2>3, RiseNone DEF ReplyInv, Replies, Below
  <2>4. CASE /\ handler' \in {"serve", "failed"} /\ (handler' = "serve" => writer' = "run")
             /\ got' = (IF open = "yes" THEN got \o Reply(h) ELSE got)
             /\ Accepts(sent[h])
    <3>1. Reply(h) = <<>> \/ \E x \in ReplyTo : x.re = h /\ Reply(h) = <<x>>
      BY <2>2, ReplyIs
    <3>2. got' = <<>> \/ \E x \in ReplyTo : x.re = h /\ got' = <<x>>
      BY <2>1, <2>4, <3>1
    <3>3. Rise(got') /\ Res(got') \subseteq {h}
      BY <3>2, RiseNone, RiseOne
    <3>4. \A a \in Replies' : ReadTill(a)'
      BY <2>1, <2>2, <3>3, RiseNone DEF Replies
    <3>5. \A i \in Spoken(sent) : ReadTill(i)' => sent[i].type \notin Requests
      BY <2>1, <2>2, <2>4 DEF Accepts, Requests
    <3>6. QED
      BY <2>1, <2>4, <3>3, <3>4, <3>5, RiseNone, SameRequests DEF ReplyInv, Below
  <2>5. QED
    BY <1>2, <2>3, <2>4 DEF Handshake
<1>3. CASE Serve
  <2> DEFINE h == Head(ctrl)
  <2>1. /\ ctrl # <<>> /\ ctrl' = Tail(ctrl) /\ sent' = sent /\ handler = "serve" /\ owed = <<>>
        /\ UNCHANGED <<kind, open, replies, got, writer>>
    BY <1>3 DEF Serve, client, back
  <2>2. /\ h \in Spoken(sent) /\ h \in Nat /\ \A i : i = h => ReadTill(i)'
        /\ \A a : ReadTill(a) => a < h /\ ReadTill(a)'
        /\ \A i \in Spoken(sent) : ReadTill(i)' => i = h \/ ReadTill(i)
    BY <2>1, TillRead
  <2>3. \/ /\ handler' \in {"serve", "failed"} /\ owed' = <<>>
           /\ sent[h].type \notin Requests \/ sent[h].skip
        \/ handler' \in {"serve", "failed"} /\ owed' = Reply(h)
    BY <1>3, <2>1 DEF Serve, Bad, Takes, Requests, Inputs
  <2>4. /\ Reply(h) = <<>> \/ \E x \in ReplyTo : x.re = h /\ Reply(h) = <<x>>
        /\ sent[h].type \in Requests => Reply(h) # <<>>
    BY <2>2, ReplyIs
  <2> HIDE DEF h
  <2>5. /\ owed' = <<>> \/ \E x \in ReplyTo : owed' = <<x>>
        /\ Res(owed') \subseteq {h}
        /\ sent[h].type \in Requests /\ ~sent[h].skip => h \in Res(owed')
    <3>1. CASE owed' = <<>> /\ (sent[h].type \notin Requests \/ sent[h].skip)
      BY <3>1, RiseNone
    <3>2. CASE owed' = Reply(h)
      BY <2>4, <3>2, RiseNone, RiseOne
    <3>3. QED
      BY <2>3, <3>1, <3>2
  <2>6. Below(Res(got), Res(owed')) /\ Below(Res(replies), Res(owed'))
    BY <2>2, <2>5 DEF Below, ReplyInv, Replies
  <2>7. \A a \in Replies' : ReadTill(a)'
    BY <2>1, <2>2, <2>5 DEF ReplyInv, Replies
  <2>8. ASSUME open = "yes", NEW i \in Spoken(sent), sent[i].type \in Requests, ~sent[i].skip,
               ReadTill(i)'
        PROVE  i \in Replies'
    <3>1. CASE i = h
      BY <2>5, <2>8, <3>1 DEF Replies
    <3>2. CASE ReadTill(i)
      BY <2>1, <2>8, <3>2, RiseNone DEF ReplyInv, Replies
    <3>3. QED
      BY <2>2, <2>8, <3>1, <3>2
  <2>9. handler' # "hello" /\ (open = "yes" => writer = "run")
    BY <2>1, <2>3 DEF ReplyInv
  <2>10. QED
    BY <2>1, <2>5, <2>6, <2>7, <2>8, <2>9, SameRequests DEF ReplyInv
<1>4. CASE Answer
  <2>1. /\ UNCHANGED <<sent, kind, open, ctrl, writer>> /\ owed # <<>> /\ owed' = <<>>
        /\ handler' = handler \/ handler' = "failed"
    BY <1>4 DEF Answer, client
  <2>2. \A a : ReadTill(a)' <=> ReadTill(a)
    BY <2>1 DEF ReadTill
  <2>3. PICK x \in ReplyTo : owed = <<x>> /\ Res(owed) = {x.re}
    BY <2>1, RiseOne DEF ReplyInv
  <2>4. \A q : Rise(q) => q \o owed = Append(q, x)
    BY <2>3 DEF Rise
  <2>5. CASE kind = "quic"
    <3>1. replies' = replies /\ replies = <<>> /\ got' = (IF open = "yes" THEN Append(got, x) ELSE got)
      BY <1>4, <2>4, <2>5 DEF Answer, ReplyInv
    <3>2. Rise(Append(got, x)) /\ Res(Append(got, x)) = Res(got) \cup {x.re}
      BY <2>3, RiseAppend DEF ReplyInv
    <3>3. /\ Rise(got') /\ Replies' \subseteq Replies /\ (open = "yes" => Replies' = Replies)
          /\ Res(replies') = {} /\ Res(owed') = {}
      BY <2>1, <2>3, <3>1, <3>2, RiseNone DEF ReplyInv, Replies
    <3>4. QED
      BY <2>1, <2>2, <3>1, <3>3, SameRequests DEF ReplyInv, Below
  <2>6. CASE kind # "quic"
    <3>1. got' = got /\ replies' = (IF writer = "run" THEN Append(replies, x) ELSE replies)
      BY <1>4, <2>4, <2>6 DEF Answer, ReplyInv
    <3>2. Rise(Append(replies, x)) /\ Res(Append(replies, x)) = Res(replies) \cup {x.re}
      BY <2>3, RiseAppend DEF ReplyInv
    <3>3. /\ Rise(replies') /\ Replies' \subseteq Replies /\ (writer = "run" => Replies' = Replies)
          /\ Res(replies') \subseteq Res(replies) \cup Res(owed) /\ Res(owed') = {}
      BY <2>1, <2>3, <3>1, <3>2, RiseNone DEF ReplyInv, Replies
    <3>4. QED
      BY <2>1, <2>2, <2>6, <3>1, <3>3, SameRequests DEF ReplyInv, Below
  <2>7. QED
    BY <2>5, <2>6
<1>5. CASE Write
  <2>1. /\ UNCHANGED <<sent, kind, open, ctrl, handler, owed>>
        /\ writer = "run" /\ kind # "quic" /\ replies # <<>> /\ replies' = Tail(replies)
        /\ \/ open = "yes" /\ got' = Append(got, Head(replies)) /\ writer' = writer
           \/ open # "yes" /\ got' = got
    BY <1>5 DEF Write, client
  <2>2. \A a : ReadTill(a)' <=> ReadTill(a)
    BY <2>1 DEF ReadTill
  <2>3. /\ Rise(replies') /\ Head(replies) \in ReplyTo
        /\ Res(replies) = Res(replies') \cup {Head(replies).re}
        /\ Below({Head(replies).re}, Res(replies'))
    BY <2>1, RiseTail DEF ReplyInv
  <2>4. Below(Res(got), {Head(replies).re})
    BY <2>3 DEF ReplyInv, Below
  <2>5. /\ Rise(Append(got, Head(replies)))
        /\ Res(Append(got, Head(replies))) = Res(got) \cup {Head(replies).re}
    BY <2>3, <2>4, RiseAppend DEF ReplyInv
  <2>6. /\ Rise(got') /\ Res(got') \subseteq Res(got) \cup {Head(replies).re}
        /\ Replies' \subseteq Replies /\ (open = "yes" => Replies' = Replies)
        /\ \/ Res(got') = Res(got)
           \/ Res(got') = Res(got) \cup {Head(replies).re}
    BY <2>1, <2>3, <2>5 DEF ReplyInv, Replies
  <2>7. Below(Res(got'), Res(replies')) /\ Below(Res(got'), Res(owed')) /\ Below(Res(replies'), Res(owed'))
    BY <2>1, <2>3, <2>6 DEF ReplyInv, Below
  <2>8. handler # "hello"
    BY <2>1 DEF ReplyInv
  <2>9. QED
    BY <2>1, <2>2, <2>3, <2>6, <2>7, <2>8, SameRequests DEF ReplyInv
<1>6. CASE Disconnects
  BY <1>6, ReplyKept DEF Disconnects, back
<1>7. CASE OtherSwitches
  BY <1>7, ReplyKept DEF OtherSwitches, client, back
<1>8. CASE StreamEnds
  BY <1>8, ReplyKept DEF StreamEnds, client, AtEnd
<1>9. CASE WriterNotices
  BY <1>9, ReplyKept DEF WriterNotices, client
<1>10. CASE ServeInput
  BY <1>10, ReplyKept DEF ServeInput, client, back
<1>11. CASE Datagram
  BY <1>11, ReplyKept DEF Datagram, client, back
<1>12. CASE UNCHANGED vars
  BY <1>12, ReplyKept DEF vars
<1>13. QED
  BY <1>1, <1>2, <1>3, <1>4, <1>5, <1>6, <1>7, <1>8, <1>9, <1>10, <1>11, <1>12 DEF Next

LEMMA ReplyMeans == Streams /\ Order /\ ReplyInv => RepliesInOrder
<1> SUFFICES ASSUME Streams, Order, ReplyInv PROVE RepliesInOrder
  OBVIOUS
<1> DEFINE all == got \o replies \o owed
<1>1. Rise(got \o replies) /\ Res(got \o replies) = Res(got) \cup Res(replies)
  BY RiseConcat DEF ReplyInv
<1>2. Rise(owed) /\ Below(Res(got \o replies), Res(owed))
  BY <1>1, RiseNone, RiseOne DEF ReplyInv, Below
<1>3. Rise(all) /\ Res(all) = Replies
  BY <1>1, <1>2, RiseConcat DEF Replies
<1> HIDE DEF all
<1>4. \A k, l \in DOMAIN all : k < l => all[k].re < all[l].re
  BY <1>3 DEF Rise
<1>5. ASSUME open = "yes", handler = "serve", NEW i \in DOMAIN sent, sent[i].via = "ctrl",
             sent[i].type \in Requests, ~sent[i].skip, \A j \in DOMAIN ctrl : ctrl[j] > i
      PROVE  \E k \in DOMAIN all : all[k].re = i
  <2>1. i \in Spoken(sent) /\ i \in Nat /\ \A j \in DOMAIN ctrl : ctrl[j] \in Nat
    BY <1>5 DEF Spoken, Streams, OnStream
  <2>2. ReadTill(i)
    BY <1>5, <2>1 DEF ReadTill
  <2>3. i \in Res(all)
    BY <1>3, <1>5, <2>1, <2>2 DEF ReplyInv
  <2>4. QED
    BY <2>3 DEF Res
<1>6. ActedOnce
  BY OrderMeans
<1>7. QED
  BY <1>4, <1>5, <1>6 DEF RepliesInOrder, all

-----------------------------------------------------------------------------
(* The theorems. *)

SessionInv == Streams /\ Order /\ PointerInv /\ FrontInv /\ OrphanInv /\ GreetInv /\ ReplyInv

LEMMA SessionInit == Init => SessionInv
<1> SUFFICES ASSUME Init PROVE SessionInv
  OBVIOUS
<1>1. Streams
  BY StreamsInit
<1>2. /\ sent = <<>> /\ ctrl = <<>> /\ input = <<>> /\ done = <<>>
      /\ got = <<>> /\ replies = <<>> /\ owed = <<>>
      /\ DOMAIN sent = {} /\ DOMAIN ctrl = {} /\ DOMAIN done = {} /\ done \in Seq({})
  BY DEF Init
<1>3. Order
  BY <1>2 DEF Order
<1>4. PointerInv
  BY <1>2 DEF PointerInv, At, Moved, Init
<1>5. FrontInv
  BY <1>2 DEF FrontInv, Chain, Init
<1>6. OrphanInv
  BY DEF OrphanInv, OrphanOnlyAfterError, Init
<1>7. Spoken(sent) = {}
  BY <1>2 DEF Spoken
<1>8. GreetInv
  BY <1>2, <1>7 DEF GreetInv, Silent, Init
<1>9. ReplyInv
  <2>1. handler = "serve" => writer = "run"
    BY DEF Init
  <2>2. QED
    BY <1>2, <1>7, <2>1, RiseNone DEF ReplyInv, Replies, Below
<1>10. QED
  BY <1>1, <1>3, <1>4, <1>5, <1>6, <1>8, <1>9 DEF SessionInv

LEMMA SessionStep == SessionInv /\ [Next]_vars => SessionInv'
<1> SUFFICES ASSUME SessionInv, [Next]_vars PROVE SessionInv'
  OBVIOUS
<1>1. Streams /\ Order /\ PointerInv /\ FrontInv /\ OrphanInv /\ GreetInv /\ ReplyInv
  BY DEF SessionInv
<1>2. Streams' /\ Order'
  BY <1>1, StreamsStep, OrderStep
<1>3. PointerInv' /\ FrontInv'
  BY <1>1, PointerStep, FrontStep
<1>4. OrphanInv' /\ GreetInv' /\ ReplyInv'
  BY <1>1, OrphanStep, GreetStep, ReplyStep
<1>5. QED
  BY <1>2, <1>3, <1>4 DEF SessionInv

LEMMA SessionIsInvariant == Spec => []SessionInv
  BY SessionInit, SessionStep, PTL DEF Spec

(* Every message of the client is acted on at most once and over one stream in *)
(* order, its reply is given once and in order, and no reply is missing while *)
(* the session lasts: the handlers and the writers of main.rs:490-1068        *)
(* and web.rs:110-368.  A WebSocket answers no heartbeat (web.rs:366) and     *)
(* nothing that shares a frame with a message before it that does not decode  *)
(* (web.rs:209).                                                              *)
THEOREM RepliesAreInOrder == Spec => []RepliesInOrder
<1>1. SessionInv => RepliesInOrder
  BY ReplyMeans DEF SessionInv
<1>2. QED
  BY <1>1, SessionIsInvariant, PTL

(* Over one stream an input event reaches the tab its user had in front, as   *)
(* long as no other client switches.                                          *)
THEOREM InputsHitTheirTab == Spec => []InputHitsTab
<1>1. SessionInv => InputHitsTab
  BY FrontMeans DEF SessionInv
<1>2. QED
  BY <1>1, SessionIsInvariant, PTL

(* A scroll is made where the last move on its stream put the pointer.        *)
THEOREM ScrollsAreAtPointer == Spec => []ScrollAtPointer
<1>1. SessionInv => ScrollAtPointer
  BY PointerMeans DEF SessionInv
<1>2. QED
  BY <1>1, SessionIsInvariant, PTL

(* A TCP or QUIC client that has not said HELLO gets no reply and reaches     *)
(* nothing, but for QUIC's input.                                             *)
THEOREM HelloComesFirst == Spec => []HelloFirst
<1>1. SessionInv => HelloFirst
  BY GreetMeans DEF SessionInv
<1>2. QED
  BY <1>1, SessionIsInvariant, PTL

(* The writer of a TCP connection outlives its reader only if reading failed  *)
(* (main.rs:842-873, 992 and 1065): other than by a reset between messages,   *)
(* or on a message that does not decode, the last one that was read.  That of *)
(* a WebSocket never outlives its reader (web.rs:204-222).                    *)
THEOREM OrphansNeedAnError == Spec => []OrphanOnlyAfterError
<1>1. SessionInv => OrphanOnlyAfterError
  BY DEF SessionInv, OrphanInv
<1>2. QED
  BY <1>1, SessionIsInvariant, PTL

=============================================================================
