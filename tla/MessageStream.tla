---------------------------- MODULE MessageStream ----------------------------
(***************************************************************************)
(* What a SPICE channel promises the code above it, whatever the WebSocket *)
(* makes of the bytes: messages are handled one by one, in the order the   *)
(* server posted them, each once and none before it was posted; a request  *)
(* is answered when it is handled.                                         *)
(***************************************************************************)
EXTENDS Naturals, Sequences

CONSTANT Types  \* message types; "ping" and "set_ack" ask for an answer

VARIABLES posted,   \* types of the messages the server has sent
          handled,  \* numbers of the messages the channel has handled
          answers   \* what the client has sent back

vars == <<posted, handled, answers>>

Init == posted = <<>> /\ handled = <<>> /\ answers = <<>>

Answer(type) ==
  CASE type = "ping" -> <<"pong">>
    [] type = "set_ack" -> <<"sync">>
    [] OTHER -> <<>>

Post ==
  /\ \E type \in Types : posted' = Append(posted, type)
  /\ UNCHANGED <<handled, answers>>

(* An acknowledgement may follow the answer. *)
Handle ==
  LET n == Len(handled) + 1 IN
  /\ n <= Len(posted)
  /\ handled' = Append(handled, n)
  /\ answers' \in {answers \o Answer(posted[n]), answers \o Answer(posted[n]) \o <<"ack">>}
  /\ UNCHANGED posted

Next == Post \/ Handle
Spec == Init /\ [][Next]_vars
=============================================================================
