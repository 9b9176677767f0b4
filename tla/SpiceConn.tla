------------------------------ MODULE SpiceConn ------------------------------
(***************************************************************************)
(* One SPICE connection of the browser client: the WebSocket, the wire     *)
(* reader that cuts its chunks into messages (wire.js), the link handshake,*)
(* acknowledgements, the connect timer and error reports (spiceconn.js).   *)
(*                                                                         *)
(* A byte is its position in the stream the server writes, so a chunk or a *)
(* buffer is a stretch [at, len] of that stream.  JavaScript runs a        *)
(* callback to its end: while an inbound() call is cutting a chunk (busy), *)
(* no other event is handled.                                              *)
(***************************************************************************)
EXTENDS Naturals, Sequences, FiniteSets

CONSTANTS HeaderLen, AuthLen, MiniLen,  \* sizes of the fixed-size parts
          ReplyLens,    \* sizes a server may announce for its link reply
          PayloadLens,  \* sizes of a message's payload
          Windows,      \* acknowledgement windows
          MaxMessages   \* bound: messages the server sends

ASSUME ConnAssumption ==
  /\ {HeaderLen, AuthLen, MiniLen} \subseteq Nat \ {0}
  /\ ReplyLens \subseteq Nat /\ PayloadLens \subseteq Nat /\ Windows \subseteq Nat
  /\ MaxMessages \in Nat

VARIABLES
  sent,     \* the frames the server has written: what its bytes mean
  posted,   \* the types of the messages among them
  arrived,  \* number of bytes delivered to inbound()
  buffers, needed, saved,  \* SpiceWireReader; saved is the saved header or NoFrame
  busy,     \* an inbound() call is running
  state,    \* SpiceConn.state
  ws,       \* the WebSocket; "aborting": close() was called before it opened
  timer,    \* is the connect timer armed?
  owner,    \* who gets errors: "page" (main channel) or "none" (its subchannels)
  window, until,  \* ack_window (0 also for undefined), msgs_until_ack
  handled,  \* numbers of the messages process_message() has handled
  answers,  \* protocol messages sent from process_common_messages() and as acks
  errors    \* errors reported

wire == <<buffers, needed, saved, busy>>
ack == <<window, until, handled, answers>>
server == <<sent, posted>>
vars == <<server, arrived, wire, state, ws, timer, owner, ack, errors>>

-----------------------------------------------------------------------------
(* What the server writes *)

Types == {"data", "ping", "set_ack"}
Kinds == {"header", "reply", "auth", "mini", "payload"}

(* size: the size announced for the next frame; msg: the message's number.   *)
Frame == [kind: Kinds, at: Nat, len: Nat, size: Nat, good: BOOLEAN,
          msg: Nat, type: Types, window: Nat]
NoFrame == [kind |-> "reply", at |-> 0, len |-> 0, size |-> 0, good |-> FALSE,
            msg |-> 0, type |-> "data", window |-> 0]

Written == IF sent = <<>> THEN 0 ELSE sent[Len(sent)].at + sent[Len(sent)].len
HasSent(kind) == \E k \in DOMAIN sent : sent[k].kind = kind

Part(kind, at, len, size, good) ==
  [NoFrame EXCEPT !.kind = kind, !.at = at, !.len = len, !.size = size, !.good = good]

(* External: the link header and, with it, the link reply it announces. *)
ServerLinks(magic, size, accepted) ==
  /\ ws = "open" /\ sent = <<>> /\ ~busy
  /\ LET reply == Part("reply", HeaderLen, size, 0, accepted)
         header == Part("header", 0, HeaderLen, size, magic)
     IN  sent' = IF size = 0 THEN <<header>> ELSE <<header, reply>>
  /\ UNCHANGED <<posted, arrived, wire, state, ws, timer, owner, ack, errors>>

(* External: the ticket is answered. *)
ServerAuthorizes(accepted) ==
  /\ ws = "open" /\ state = "ticket" /\ ~HasSent("auth") /\ ~busy
  /\ sent' = Append(sent, Part("auth", Written, AuthLen, 0, accepted))
  /\ UNCHANGED <<posted, arrived, wire, state, ws, timer, owner, ack, errors>>

(* External: a message, as soon as the ticket was accepted. *)
ServerPosts(type, len, w) ==
  /\ ws = "open" /\ Len(posted) < MaxMessages /\ ~busy
  /\ \E k \in DOMAIN sent : sent[k].kind = "auth" /\ sent[k].good
  /\ type # "data" => len > 0
  /\ type # "set_ack" => w = 0
  /\ posted' = Append(posted, type)
  /\ LET message == [NoFrame EXCEPT !.good = TRUE, !.msg = Len(posted) + 1,
                                    !.type = type, !.window = w]
         mini == [message EXCEPT !.kind = "mini", !.at = Written, !.len = MiniLen, !.size = len]
         payload == [message EXCEPT !.kind = "payload", !.at = Written + MiniLen, !.len = len]
     IN  sent' = IF len = 0 THEN Append(sent, mini) ELSE sent \o <<mini, payload>>
  /\ UNCHANGED <<arrived, wire, state, ws, timer, owner, ack, errors>>

-----------------------------------------------------------------------------
(* The reader never asks for a negative number of bytes and keeps whole frames *)
(* as saved headers; states and sockets are those spiceconn.js names.        *)
TypeOK ==
  /\ sent \in Seq(Frame) /\ posted \in Seq(Types)
  /\ arrived \in Nat
  /\ buffers \in Seq([at: Nat, len: Nat]) /\ needed \in Nat /\ saved \in Frame /\ busy \in BOOLEAN
  /\ state \in {"connecting", "start", "link", "ticket", "ready", "error", "closing"}
  /\ ws \in {"connecting", "open", "closing", "aborting", "closed"}
  /\ timer \in BOOLEAN /\ owner \in {"page", "none"}
  /\ window \in Nat /\ until \in Nat
  /\ handled \in Seq(Nat) /\ answers \in Seq({"pong", "sync", "ack"})
  /\ errors \in Nat

Init ==
  /\ sent = <<>> /\ posted = <<>> /\ arrived = 0
  /\ buffers = <<>> /\ needed = 0 /\ saved = NoFrame /\ busy = FALSE
  /\ state = "connecting" /\ ws = "connecting" /\ timer = TRUE
  /\ owner \in {"page", "none"}
  /\ window = 0 /\ until = 0 /\ handled = <<>> /\ answers = <<>>
  /\ errors = 0

-----------------------------------------------------------------------------
(* Errors *)

(* cleanup(): no message event follows close().                              *)
Closing == CASE ws = "connecting" -> "aborting"
             [] ws = "open" -> "closing"
             [] OTHER -> ws

(* report_error(): the page's handler stops the session, which closes this   *)
(* connection; a subchannel has no handler, so the error is thrown and the   *)
(* callback ends.                                                            *)
Report(status, running) ==
  /\ errors' = errors + 1
  /\ IF owner = "page"
     THEN state' = "closing" /\ ws' = Closing /\ timer' = FALSE /\ busy' = running
     ELSE state' = status /\ busy' = FALSE /\ UNCHANGED <<ws, timer>>

-----------------------------------------------------------------------------
(* The wire reader *)

(* Mutant: the fragment that just came is put before the one that waited. *)
CombineSwapped(bs) ==
  IF Len(bs) = 2 /\ bs[1].len < needed
  THEN <<[at |-> bs[2].at, len |-> bs[1].len + bs[2].len]>> ELSE bs

(* At most one buffer waits while something is needed, so the loop that      *)
(* combines fragments runs at most once.                                     *)
Combine(bs) ==
  IF Len(bs) = 2 /\ bs[1].len < needed
  THEN <<[at |-> bs[1].at, len |-> bs[1].len + bs[2].len]>> ELSE bs

(* A chunk of n bytes comes in. *)
Inbound(n) ==
  /\ ws = "open" /\ ~busy
  /\ arrived + n <= Written
  /\ arrived' = arrived + n
  /\ LET chunks == Append(buffers, [at |-> arrived, len |-> n])
     IN  IF needed = 0 THEN buffers' = chunks /\ UNCHANGED busy
                       ELSE buffers' = Combine(chunks) /\ busy' = TRUE
  /\ UNCHANGED <<server, needed, saved, state, ws, timer, owner, ack, errors>>

Enough == buffers # <<>> /\ Head(buffers).len >= needed

(* What is left when the needed bytes have been cut off the first buffer.    *)
Rest ==
  LET b == Head(buffers) IN
  IF b.len = needed THEN Tail(buffers)
  ELSE <<[at |-> b.at + needed, len |-> b.len - needed]>> \o Tail(buffers)

(* The callback is given the bytes of frame f. *)
Take(kind, f) ==
  /\ busy /\ Enough
  /\ f.kind = kind /\ f.at = Head(buffers).at /\ f.len = needed
  /\ buffers' = Rest

(* Nothing more to cut: inbound() returns. *)
Return ==
  /\ busy /\ ~Enough
  /\ busy' = FALSE
  /\ UNCHANGED <<server, arrived, buffers, needed, saved, state, ws, timer, owner, ack, errors>>

(* process_inbound() ignores what comes in after an error or a stop. *)
Discard ==
  /\ busy /\ Enough /\ state \in {"error", "closing"}
  /\ buffers' = Rest
  /\ UNCHANGED <<server, arrived, needed, saved, busy, state, ws, timer, owner, ack, errors>>

-----------------------------------------------------------------------------
(* The handshake *)

(* Mutant: an open WebSocket is taken for a connection. *)
OpenUntimed ==
  /\ ws = "connecting"
  /\ ws' = "open" /\ state' = "start" /\ needed' = HeaderLen /\ timer' = FALSE
  /\ UNCHANGED <<server, arrived, buffers, saved, busy, owner, ack, errors>>

Open ==
  /\ ws = "connecting"
  /\ ws' = "open" /\ state' = "start" /\ needed' = HeaderLen
  /\ UNCHANGED <<server, arrived, buffers, saved, busy, timer, owner, ack, errors>>

LinkHeader(f) ==
  /\ state = "start" /\ Take("header", f)
  /\ \/ /\ f.good
        /\ state' = "link" /\ needed' = f.size
        /\ UNCHANGED <<busy, ws, timer, errors>>
     \/ ~f.good /\ Report("error", TRUE) /\ UNCHANGED needed
  /\ UNCHANGED <<server, arrived, saved, owner, ack>>

(* A reply announced with no bytes is never cut: the connect timer ends that. *)
LinkReply(f) ==
  /\ state = "link" /\ Take("reply", f)
  /\ \/ /\ f.good
        /\ state' = "ticket" /\ needed' = AuthLen
        /\ UNCHANGED <<busy, ws, timer, errors>>
     \/ ~f.good /\ Report("error", TRUE) /\ UNCHANGED needed
  /\ UNCHANGED <<server, arrived, saved, owner, ack>>

AuthReply(f) ==
  /\ state = "ticket" /\ Take("auth", f)
  /\ \/ /\ f.good
        /\ state' = "ready" /\ needed' = MiniLen /\ timer' = FALSE
        /\ UNCHANGED <<busy, ws, errors>>
     \/ ~f.good /\ Report("error", TRUE) /\ UNCHANGED needed
  /\ UNCHANGED <<server, arrived, saved, owner, ack>>

-----------------------------------------------------------------------------
(* Messages *)

Answer(type) ==
  CASE type = "ping" -> <<"pong">>
    [] type = "set_ack" -> <<"sync">>
    [] OTHER -> <<>>

(* Mutant: a new window does not restart the count. *)
ProcessMessageCounting(f) ==
  LET w == IF f.type = "set_ack" THEN f.window ELSE window
      u == IF f.type = "set_ack" /\ window = 0 THEN f.window ELSE until
      due == w > 0 /\ u <= 1
  IN  /\ handled' = Append(handled, f.msg)
      /\ window' = w
      /\ until' = IF due THEN w ELSE IF w > 0 THEN u - 1 ELSE u
      /\ answers' = answers \o Answer(f.type) \o (IF due THEN <<"ack">> ELSE <<>>)

(* process_message(): common messages, the channel's own handler, the count  *)
(* that decides about an acknowledgement; SET_ACK itself is counted.         *)
ProcessMessage(f) ==
  LET w == IF f.type = "set_ack" THEN f.window ELSE window
      u == IF f.type = "set_ack" THEN f.window ELSE until
      due == w > 0 /\ u <= 1
  IN  /\ handled' = Append(handled, f.msg)
      /\ window' = w
      /\ until' = IF due THEN w ELSE IF w > 0 THEN u - 1 ELSE u
      /\ answers' = answers \o Answer(f.type) \o (IF due THEN <<"ack">> ELSE <<>>)

(* Mutant: a message is handled when its header is read, too. *)
MiniHeaderEarly(f) ==
  /\ state = "ready" /\ saved = NoFrame /\ Take("mini", f)
  /\ ProcessMessage(f)
  /\ IF f.size = 0 THEN needed' = MiniLen /\ UNCHANGED saved ELSE needed' = f.size /\ saved' = f
  /\ UNCHANGED <<server, arrived, busy, state, ws, timer, owner, errors>>

(* Mutant: the size is taken to include the header. *)
MiniHeaderIncluded(f) ==
  /\ state = "ready" /\ saved = NoFrame /\ Take("mini", f)
  /\ IF f.size = 0 THEN ProcessMessage(f) /\ needed' = MiniLen /\ UNCHANGED saved
     ELSE needed' = f.size - MiniLen /\ saved' = f /\ UNCHANGED ack
  /\ UNCHANGED <<server, arrived, busy, state, ws, timer, owner, errors>>

MiniHeader(f) ==
  /\ state = "ready" /\ saved = NoFrame /\ Take("mini", f)
  /\ \/ f.size = 0 /\ ProcessMessage(f) /\ needed' = MiniLen /\ UNCHANGED saved
     \/ f.size > 0 /\ needed' = f.size /\ saved' = f /\ UNCHANGED ack
  /\ UNCHANGED <<server, arrived, busy, state, ws, timer, owner, errors>>

(* The type comes from the saved header, the data from these bytes. *)
Payload(f) ==
  /\ state = "ready" /\ saved # NoFrame /\ Take("payload", f)
  /\ ProcessMessage([saved EXCEPT !.window = f.window])
  /\ needed' = MiniLen /\ saved' = NoFrame
  /\ UNCHANGED <<server, arrived, busy, state, ws, timer, owner, errors>>

-----------------------------------------------------------------------------
(* Timer and end of the connection *)

Timeout ==
  /\ timer /\ ~busy
  /\ errors' = errors + 1 /\ timer' = FALSE
  /\ IF owner = "page" THEN state' = "closing" /\ ws' = Closing ELSE UNCHANGED <<state, ws>>
  /\ UNCHANGED <<server, arrived, wire, owner, ack>>

(* Mutant: a session that was ready is not reported as closed. *)
CloseQuiet(failed) ==
  /\ ws # "closed" /\ ~busy
  /\ failed => ws # "closing"
  /\ ws \in {"connecting", "aborting"} => failed
  /\ ws' = "closed"
  /\ LET told == failed \/ (owner = "page" /\ state \notin {"closing", "error", "ready"})
     IN  /\ errors' = IF told THEN errors + 1 ELSE errors
         /\ IF told /\ owner = "page" THEN state' = "closing" /\ timer' = FALSE
                                      ELSE UNCHANGED <<state, timer>>
  /\ UNCHANGED <<server, arrived, wire, owner, ack>>

(* The close event; a connection that failed or was given up before it opened *)
(* fires an error event first.  What has not come in by then is lost.         *)
Close(failed) ==
  /\ ws # "closed" /\ ~busy
  /\ failed => ws # "closing"
  /\ ws \in {"connecting", "aborting"} => failed
  /\ ws' = "closed"
  /\ LET told == failed \/ (owner = "page" /\ state \notin {"closing", "error"})
     IN  /\ errors' = IF told THEN errors + 1 ELSE errors
         /\ IF told /\ owner = "page" THEN state' = "closing" /\ timer' = FALSE
                                      ELSE UNCHANGED <<state, timer>>
  /\ UNCHANGED <<server, arrived, wire, owner, ack>>

(* The main channel's stop() cleans its subchannels up. *)
ParentStops ==
  /\ owner = "none" /\ ~busy /\ ws \in {"connecting", "open"}
  /\ ws' = Closing /\ timer' = FALSE
  /\ UNCHANGED <<server, arrived, wire, state, owner, ack, errors>>

-----------------------------------------------------------------------------
HandleFrame ==
  \/ \E k \in DOMAIN sent : LinkHeader(sent[k])
  \/ \E k \in DOMAIN sent : LinkReply(sent[k])
  \/ \E k \in DOMAIN sent : AuthReply(sent[k])
  \/ \E k \in DOMAIN sent : MiniHeader(sent[k])
  \/ \E k \in DOMAIN sent : Payload(sent[k])
  \/ Discard
  \/ Return

Next ==
  \/ \E magic \in BOOLEAN, size \in ReplyLens, accepted \in BOOLEAN :
       ServerLinks(magic, size, accepted)
  \/ \E accepted \in BOOLEAN : ServerAuthorizes(accepted)
  \/ \E type \in Types, len \in PayloadLens, w \in Windows : ServerPosts(type, len, w)
  \/ Open
  \/ \E n \in 1 .. Written - arrived : Inbound(n)
  \/ HandleFrame
  \/ Timeout
  \/ \E failed \in BOOLEAN : Close(failed)
  \/ ParentStops

Spec == Init /\ [][Next]_vars

(* A running callback ends, a chunk that was sent comes in as long as the     *)
(* connection lasts, and an armed timer fires.                                *)
FairSpec ==
  /\ Spec
  /\ WF_vars(HandleFrame) /\ WF_vars(Timeout)
  /\ WF_vars(\E n \in 1 .. Written - arrived : Inbound(n))

-----------------------------------------------------------------------------
(* Properties *)

Live == state \in {"start", "link", "ticket", "ready"}

(* However the WebSocket cuts and joins the bytes, the channel handles the   *)
(* server's messages one by one, in order, each once, and answers each       *)
(* request when it handles it.                                               *)
Stream == INSTANCE MessageStream
InOrder == Stream!Spec

(* The bytes given to process_inbound() are exactly the frame the state      *)
(* expects: a header is never read from the middle of a payload, whatever    *)
(* chunks it came in.                                                        *)
Expected ==
  CASE state = "start" -> "header"
    [] state = "link" -> "reply"
    [] state = "ticket" -> "auth"
    [] OTHER -> IF saved = NoFrame THEN "mini" ELSE "payload"
Aligned ==
  busy /\ Enough /\ Live /\ needed > 0 =>
    \E k \in DOMAIN sent :
      sent[k].kind = Expected /\ sent[k].at = Head(buffers).at /\ sent[k].len = needed

(* Between two chunks no complete message waits in the buffers: what is left *)
(* is one stretch, shorter than the part that is needed next.                *)
NothingWaits ==
  ~busy /\ Live /\ needed > 0 =>
    buffers = <<>> \/ (Len(buffers) = 1 /\ buffers[1].len < needed)

(* Both at once: chunks are cut where the frames are, and as soon as they     *)
(* can be, although fragments are combined only while something is needed.    *)
Framing == Aligned /\ NothingWaits

(* Acknowledgements: since the last SET_ACK, which counts itself, one for    *)
(* every window messages handled, so that a server that waits after a window *)
(* is never kept waiting.                                                    *)
Acks(from) == Cardinality({i \in from .. Len(answers) : answers[i] = "ack"})
AcksDue ==
  window > 0 =>
    \E n \in 1 .. Len(handled), i \in 1 .. Len(answers) :
      /\ posted[n] = "set_ack" /\ \A m \in n + 1 .. Len(handled) : posted[m] # "set_ack"
      /\ answers[i] = "sync" /\ \A j \in i + 1 .. Len(answers) : answers[j] # "sync"
      /\ Acks(i) = (Len(handled) - n + 1) \div window

(* A page that has stopped the session is not told of an error once more,    *)
(* except for a WebSocket given up before it opened (the timeout, then the   *)
(* error event of the abort); and a session that got through is not reported *)
(* as timed out.                                                             *)
ToldOnce ==
  errors' > errors => /\ state = "closing" => ws = "aborting"
                      /\ state = "ready" => ws' = "closed"

(* The page's connection never dies unreported. *)
LossReported == owner = "page" /\ ws \in {"closing", "aborting", "closed"} => errors > 0

(* However timer, error and close events follow each other, a connection that *)
(* is lost is told to the page, and what the page was told is not told again. *)
LossTold == [][LossReported' /\ ToldOnce]_vars

(* Whatever the server does, connecting ends: the session is ready or the    *)
(* page is told.                                                             *)
ConnectsOrTells ==
  owner = "page" /\ state \in {"connecting", "start", "link", "ticket"}
    ~> state = "ready" \/ errors > 0
=============================================================================
