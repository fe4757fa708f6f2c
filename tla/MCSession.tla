----------------------------- MODULE MCSession -----------------------------
(* The messages a client may send, for TLC. *)
EXTENDS Session

AllKinds == {"tcp", "ws", "quic"}

Hello == [type |-> "Hello", version |-> 1, size |-> 1]

Talk ==
    {Hello, [type |-> "Hello", version |-> 2, size |-> 0], [type |-> "Bad"],
     [type |-> "Heartbeat"],
     [type |-> "InputPointer", at |-> 1], [type |-> "InputButton", at |-> 2],
     [type |-> "InputScroll"]}
    \cup [type : {"SwitchTab", "CreateTab", "CloseTab"}, tab_id : {2}]

=============================================================================
