-------------------------- MODULE SpiceChannelProofs --------------------------
(***************************************************************************)
(* Proofs about the channels of the browser client: that a connection cuts *)
(* the server's bytes into the messages they are made of, acknowledges     *)
(* them and reports its loss once (SpiceConn), implementing a stream of    *)
(* messages (MessageStream); and that the main channel keeps its tokens,   *)
(* its messages to the agent and its file transfers in order (SpiceAgent). *)
(***************************************************************************)
EXTENDS SpiceConn, SpiceAgent, FiniteSetTheorems, SequenceTheorems, WellFoundedInduction, TLAPS

(* The connection *)

(* What the server writes: frames that abut, in the order of the handshake and *)
(* then one or two for each message, whose numbers count up.                   *)
EndOf(s) == IF s = <<>> THEN 0 ELSE s[Len(s)].at + s[Len(s)].len
Announces(f) == f.kind = "mini" /\ f.size > 0

Abut(s) ==
  /\ \A k \in DOMAIN s : s[k].len > 0
  /\ s # <<>> => s[1].at = 0
  /\ \A k \in DOMAIN s : k > 1 => s[k].at = s[k - 1].at + s[k - 1].len
  /\ \A k, j \in DOMAIN s : k < j => s[k].at + s[k].len <= s[j].at

LinkFrames(s) ==
  /\ \A k \in DOMAIN s :
       /\ k = 1 => s[k].kind = "header" /\ s[k].len = HeaderLen
       /\ k = 2 => s[k].kind = "reply" /\ s[k].len = s[1].size
       /\ k = 3 => s[k].kind = "auth" /\ s[k].len = AuthLen /\ s[k].msg = 0
  /\ s # <<>> => (s[1].size > 0 <=> Len(s) > 1)

MiniFrame(s, k) ==
  /\ s[k].kind = "mini" /\ s[k].len = MiniLen
  /\ ~Announces(s[k - 1]) /\ s[k].msg = s[k - 1].msg + 1
  /\ Announces(s[k]) => k < Len(s)
PayloadFrame(s, k) ==
  /\ s[k].kind = "payload" /\ Announces(s[k - 1])
  /\ s[k].len = s[k - 1].size /\ s[k].msg = s[k - 1].msg
MessageFrames(s, p) ==
  \A k \in DOMAIN s : k > 3 =>
    /\ s[k].msg \in DOMAIN p /\ s[k].type = p[s[k].msg]
    /\ MiniFrame(s, k) \/ PayloadFrame(s, k)

AllSent(s, p) ==
  /\ Len(s) < 3 => p = <<>>
  /\ Len(s) >= 3 => s[Len(s)].msg = Len(p) /\ ~Announces(s[Len(s)])

SentWell == Abut(sent) /\ LinkFrames(sent) /\ MessageFrames(sent, posted) /\ AllSent(sent, posted)

(* Where the reader is: at the start of the frame the state expects, with one *)
(* stretch of bytes at most, up to the last byte that has arrived; between two *)
(* chunks it is too short.                                                     *)
StartsAt(s, k) == IF k <= Len(s) THEN s[k].at ELSE EndOf(s)
Place == IF buffers = <<>> THEN arrived ELSE buffers[1].at
IsNext(k) ==
  \/ state = "start" /\ k = 1 /\ needed = HeaderLen
  \/ state = "link" /\ k = 2 /\ Len(sent) >= 2 /\ needed = sent[1].size
  \/ state = "ticket" /\ k = 3 /\ Len(sent) >= 2 /\ needed = AuthLen
  \/ /\ state = "ready" /\ k > 3 /\ saved = NoFrame /\ needed = MiniLen
     /\ ~Announces(sent[k - 1]) /\ Len(handled) = sent[k - 1].msg
  \/ /\ state = "ready" /\ k > 3 /\ saved = sent[k - 1] /\ Announces(saved)
     /\ needed = saved.size /\ Len(handled) + 1 = saved.msg
OneStretch ==
  /\ Len(buffers) <= 1
  /\ buffers # <<>> => buffers[1].len > 0 /\ buffers[1].at + buffers[1].len = arrived
InPlace ==
  Live /\ needed > 0 =>
    /\ OneStretch
    /\ ~busy => buffers = <<>> \/ buffers[1].len < needed
    /\ \E k \in 1 .. Len(sent) + 1 : StartsAt(sent, k) = Place /\ IsNext(k)

(* Before the WebSocket is open nothing came, before the ticket is answered    *)
(* nothing was handled, and nothing arrives or is handled before it was sent.  *)
NotBefore ==
  /\ ws = "connecting" => state = "connecting" /\ sent = <<>> /\ arrived = 0 /\ buffers = <<>> /\ ~busy
  /\ state \in {"connecting", "start", "link", "ticket"} => saved = NoFrame /\ handled = <<>>
  /\ state = "ticket" => needed = AuthLen
  /\ arrived <= EndOf(sent)
  /\ Len(handled) <= Len(posted)

(* Since the last SET_ACK: q acknowledgements, each for a whole window, and    *)
(* the messages that the count still lacks.                                    *)
LastSetAck(n) == posted[n] = "set_ack" /\ \A m \in n + 1 .. Len(handled) : posted[m] # "set_ack"
LastSync(i) == answers[i] = "sync" /\ \A j \in i + 1 .. Len(answers) : answers[j] # "sync"
AcksCounted ==
  window > 0 =>
    \E n \in 1 .. Len(handled), i \in 1 .. Len(answers) :
      /\ LastSetAck(n) /\ LastSync(i)
      /\ until \in 1 .. window
      /\ Len(handled) - n + 1 = Acks(i) * window + (window - until)

(* A connection that ended was reported, and then no timer is left to report   *)
(* it again; nor once the session is ready.                                    *)
Losses ==
  /\ owner = "page" /\ state \in {"closing", "error"} => errors > 0
  /\ LossReported
  /\ state \in {"closing", "ready"} => ~timer
  /\ state = "closing" => ws \in {"closing", "aborting", "closed"}

ConnInv == TypeOK /\ SentWell /\ InPlace /\ NotBefore /\ AcksCounted /\ Losses

LEMMA ConnStart == Init => ConnInv
<1> SUFFICES ASSUME Init PROVE ConnInv
  OBVIOUS
<1> USE DEF Init
<1>1. TypeOK
  <2>1. NoFrame \in Frame
    BY DEF NoFrame, Frame, Kinds, Types
  <2>2. sent \in Seq(Frame) /\ posted \in Seq(Types) /\ buffers \in Seq([at : Nat, len : Nat])
    OBVIOUS
  <2>3. handled \in Seq(Nat) /\ answers \in Seq({"pong", "sync", "ack"})
    OBVIOUS
  <2>4. arrived \in Nat /\ needed \in Nat /\ busy \in BOOLEAN /\ window \in Nat /\ until \in Nat /\ errors \in Nat
    OBVIOUS
  <2>5. /\ state \in {"connecting", "start", "link", "ticket", "ready", "error", "closing"}
        /\ ws \in {"connecting", "open", "closing", "aborting", "closed"}
        /\ timer \in BOOLEAN /\ owner \in {"page", "none"}
    OBVIOUS
  <2>6. saved \in Frame
    BY <2>1
  <2> HIDE DEF Init
  <2> QED
    BY <2>2, <2>3, <2>4, <2>5, <2>6 DEF TypeOK
<1>2. SentWell
  BY DEF SentWell, Abut, LinkFrames, MessageFrames, AllSent
<1>3. InPlace
  BY DEF InPlace, Live
<1>4. NotBefore
  BY DEF NotBefore, EndOf
<1>5. AcksCounted
  BY DEF AcksCounted
<1>6. Losses
  BY DEF Losses, LossReported
<1> QED
  BY <1>1, <1>2, <1>3, <1>4, <1>5, <1>6 DEF ConnInv

-----------------------------------------------------------------------------
(* What the server writes *)

LEMMA OneMoreFrame ==
  ASSUME NEW s \in Seq(Frame), Abut(s), NEW f \in Frame, f.len > 0, f.at = EndOf(s)
  PROVE  /\ Append(s, f) \in Seq(Frame) /\ Len(Append(s, f)) = Len(s) + 1
         /\ \A k \in 1 .. Len(s) : Append(s, f)[k] = s[k]
         /\ Append(s, f)[Len(s) + 1] = f
         /\ Abut(Append(s, f)) /\ EndOf(Append(s, f)) = EndOf(s) + f.len
<1> DEFINE t == Append(s, f)
           n == Len(s)
<1>1. /\ t \in Seq(Frame) /\ Len(t) = n + 1 /\ DOMAIN t = 1 .. n + 1 /\ DOMAIN s = 1 .. n /\ n \in Nat
      /\ t[n + 1] = f /\ t # <<>>
  OBVIOUS
<1>2. \A k \in 1 .. n : t[k] = s[k]
  OBVIOUS
<1>3. f.at \in Nat /\ f.len \in Nat
  BY DEF Frame
<1>4. \A k \in 1 .. n : s[k].at \in Nat /\ s[k].len \in Nat
  <2>1. \A k \in 1 .. n : s[k] \in Frame
    BY <1>1, ElementOfSeq
  <2> QED
    BY <2>1 DEF Frame
<1> HIDE DEF t
<1>5. EndOf(t) = EndOf(s) + f.len
  BY <1>1 DEF EndOf
<1>6. \A k \in 1 .. n : s[k].at + s[k].len <= f.at
  <2> SUFFICES ASSUME NEW k \in 1 .. n PROVE s[k].at + s[k].len <= f.at
    OBVIOUS
  <2>1. s # <<>> /\ n \in DOMAIN s /\ f.at = s[n].at + s[n].len
    BY <1>1 DEF EndOf
  <2>2. CASE k = n
    BY <1>4, <2>1, <2>2
  <2>3. CASE k < n
    <3>1. s[k].at + s[k].len <= s[n].at
      BY <1>1, <2>1, <2>3 DEF Abut
    <3>2. s[k].at \in Nat /\ s[k].len \in Nat /\ s[n].at \in Nat /\ s[n].len \in Nat
      BY <1>1, <1>4, <2>1
    <3> QED
      BY <2>1, <3>1, <3>2
  <2>4. n \in Nat
    BY <1>1
  <2>5. k = n \/ k < n
    BY <2>4
  <2> QED
    BY <2>2, <2>3, <2>5
<1>7. \A k \in DOMAIN t : t[k].len > 0
  BY <1>1, <1>2 DEF Abut
<1>8. t[1].at = 0
  <2>1. CASE n = 0
    BY <1>1, <2>1 DEF EndOf
  <2>2. CASE n > 0
    BY <1>1, <1>2, <2>2 DEF Abut
  <2> QED
    BY <1>1, <2>1, <2>2
<1>9. \A k \in DOMAIN t : k > 1 => t[k].at = t[k - 1].at + t[k - 1].len
  <2> SUFFICES ASSUME NEW k \in 2 .. n + 1 PROVE t[k].at = t[k - 1].at + t[k - 1].len
    BY <1>1
  <2>1. CASE k = n + 1
    <3>1. n \in 1 .. n /\ s # <<>>
      BY <1>1, <2>1
    <3>2. t[n] = s[n]
      BY <1>2, <3>1
    <3> QED
      BY <1>1, <2>1, <3>1, <3>2 DEF EndOf
  <2>2. CASE k <= n
    <3>1. k \in 1 .. n /\ k - 1 \in 1 .. n /\ k > 1
      BY <1>1, <2>2
    <3> QED
      BY <1>1, <1>2, <3>1 DEF Abut
  <2> QED
    BY <1>1, <2>1, <2>2
<1>10. \A k, j \in DOMAIN t : k < j => t[k].at + t[k].len <= t[j].at
  <2> SUFFICES ASSUME NEW k \in 1 .. n + 1, NEW j \in 1 .. n + 1, k < j
               PROVE  t[k].at + t[k].len <= t[j].at
    BY <1>1
  <2>1. k \in 1 .. n
    BY <1>1
  <2>2. CASE j = n + 1
    BY <1>1, <1>2, <1>6, <2>1, <2>2
  <2>3. CASE j \in 1 .. n
    BY <1>1, <1>2, <2>1, <2>3 DEF Abut
  <2> QED
    BY <1>1, <2>2, <2>3
<1>11. Abut(t)
  BY <1>7, <1>8, <1>9, <1>10 DEF Abut
<1> QED
  BY <1>1, <1>2, <1>5, <1>11 DEF t

LEMMA EndIsNat == ASSUME NEW s \in Seq(Frame) PROVE EndOf(s) \in Nat
<1>1. CASE s = <<>>
  BY <1>1 DEF EndOf
<1>2. CASE s # <<>>
  <2>1. Len(s) \in 1 .. Len(s)
    BY <1>2
  <2>2. s[Len(s)] \in Frame
    BY <2>1, ElementOfSeq
  <2> QED
    BY <1>2, <2>2 DEF EndOf, Frame
<1> QED
  BY <1>1, <1>2

(* The rest of the invariant only needs that what was sent stays sent. *)
LEMMA SentMore ==
  ASSUME ConnInv, ws = "open",
         sent' \in Seq(Frame), Len(sent') >= Len(sent), \A k \in 1 .. Len(sent) : sent'[k] = sent[k],
         StartsAt(sent', Len(sent) + 1) = EndOf(sent), EndOf(sent') \in Nat, EndOf(sent') >= EndOf(sent),
         posted' \in Seq(Types), Len(posted') >= Len(posted),
         \A k \in 1 .. Len(posted) : posted'[k] = posted[k],
         SentWell', UNCHANGED <<arrived, wire, state, ws, timer, owner, ack, errors>>
  PROVE  ConnInv'
<1>1. UNCHANGED <<arrived, buffers, needed, saved, busy, state, ws, timer, owner, window, until,
                  handled, answers, errors>>
  BY DEF wire, ack
<1>2. TypeOK'
  BY <1>1 DEF ConnInv, TypeOK
<1>3. Len(sent) \in Nat /\ Len(sent') \in Nat /\ Len(handled) \in Nat /\ Len(posted) \in Nat /\ Len(posted') \in Nat
      /\ arrived \in Nat
  BY DEF ConnInv, TypeOK
<1>4. InPlace'
  <2> SUFFICES ASSUME Live, needed > 0 PROVE InPlace'
    BY <1>1 DEF InPlace, Live
  <2>1. OneStretch' /\ (~busy => buffers = <<>> \/ buffers[1].len < needed)'
    BY <1>1 DEF ConnInv, InPlace, OneStretch
  <2>2. PICK k \in 1 .. Len(sent) + 1 : StartsAt(sent, k) = Place /\ IsNext(k)
    BY DEF ConnInv, InPlace
  <2>3. k \in 1 .. Len(sent') + 1
    BY <1>3
  <2>4. StartsAt(sent', k) = StartsAt(sent, k)
    BY <1>3 DEF StartsAt
  <2>5. IsNext(k)'
    <3>1. k > 3 => k - 1 \in 1 .. Len(sent)
      BY <1>3
    <3>2. Len(sent) >= 2 => Len(sent') >= 2 /\ sent'[1] = sent[1]
      BY <1>3
    <3>3. k > 3 => sent'[k - 1] = sent[k - 1]
      BY <3>1
    <3> QED
      BY <1>1, <2>2, <3>2, <3>3 DEF IsNext, Announces
  <2>6. Place' = Place
    BY <1>1 DEF Place
  <2> QED
    BY <2>1, <2>2, <2>3, <2>4, <2>5, <2>6 DEF InPlace
<1>5. NotBefore'
  <2>1. EndOf(sent) \in Nat
    BY EndIsNat DEF ConnInv, TypeOK
  <2>2. arrived <= EndOf(sent') /\ Len(handled) <= Len(posted')
    BY <1>3, <2>1 DEF ConnInv, NotBefore
  <2> QED
    BY <1>1, <2>2 DEF ConnInv, NotBefore
<1>6. AcksCounted'
  <2> SUFFICES ASSUME window > 0 PROVE AcksCounted'
    BY <1>1 DEF AcksCounted
  <2>1. PICK n \in 1 .. Len(handled), i \in 1 .. Len(answers) :
          /\ LastSetAck(n) /\ LastSync(i) /\ until \in 1 .. window
          /\ Len(handled) - n + 1 = Acks(i) * window + (window - until)
    BY DEF ConnInv, AcksCounted
  <2>2. \A m \in 1 .. Len(handled) : posted'[m] = posted[m]
    BY <1>3 DEF ConnInv, NotBefore
  <2>3. LastSetAck(n)'
    <3>1. \A m \in n + 1 .. Len(handled) : m \in 1 .. Len(handled)
      BY <1>3
    <3> QED
      BY <1>1, <2>1, <2>2, <3>1 DEF LastSetAck
  <2>4. LastSync(i)' /\ Acks(i)' = Acks(i)
    BY <1>1, <2>1 DEF LastSync, Acks
  <2> QED
    BY <1>1, <2>1, <2>3, <2>4 DEF AcksCounted
<1>7. Losses'
  BY <1>1 DEF ConnInv, Losses, LossReported
<1> QED
  BY <1>2, <1>4, <1>5, <1>6, <1>7 DEF ConnInv

LEMMA LinksStep ==
  ASSUME ConnInv, NEW magic \in BOOLEAN, NEW z \in ReplyLens, NEW accepted \in BOOLEAN,
         ServerLinks(magic, z, accepted)
  PROVE  ConnInv'
<1> DEFINE header == Part("header", 0, HeaderLen, z, magic)
           reply == Part("reply", HeaderLen, z, 0, accepted)
<1>1. /\ ws = "open" /\ sent = <<>> /\ posted' = posted
      /\ UNCHANGED <<arrived, wire, state, ws, timer, owner, ack, errors>>
      /\ sent' = IF z = 0 THEN <<header>> ELSE <<header, reply>>
  BY DEF ServerLinks
<1>2. z \in Nat /\ HeaderLen \in Nat /\ HeaderLen > 0
  BY ConnAssumption
<1>3. /\ header \in Frame /\ header.kind = "header" /\ header.at = 0 /\ header.len = HeaderLen /\ header.size = z
      /\ reply \in Frame /\ reply.kind = "reply" /\ reply.at = HeaderLen /\ reply.len = z
  BY <1>2 DEF Part, NoFrame, Frame, Kinds, Types
<1> HIDE DEF header, reply
<1>4. posted = <<>> /\ Len(posted) = 0 /\ posted \in Seq(Types)
  BY <1>1 DEF ConnInv, SentWell, AllSent, TypeOK
<1>5. ASSUME z = 0
      PROVE  /\ sent' \in Seq(Frame) /\ Abut(sent') /\ EndOf(sent') \in Nat /\ EndOf(sent') >= 0
             /\ Len(sent') = (IF z = 0 THEN 1 ELSE 2) /\ sent'[1] = header /\ (z # 0 => sent'[2] = reply)
             /\ DOMAIN sent' = 1 .. Len(sent') /\ sent' # <<>>
  <2>1. sent' = <<header>>
    BY <1>1, <1>5
  <2>2. sent' \in Seq(Frame) /\ Len(sent') = 1 /\ DOMAIN sent' = 1 .. 1 /\ sent'[1] = header /\ sent' # <<>>
    BY <1>3, <2>1
  <2>3. Abut(sent') /\ EndOf(sent') = HeaderLen
    BY <1>2, <1>3, <2>2 DEF Abut, EndOf
  <2> QED
    BY <1>2, <1>5, <2>2, <2>3
<1>6. ASSUME z # 0
      PROVE  /\ sent' \in Seq(Frame) /\ Abut(sent') /\ EndOf(sent') \in Nat /\ EndOf(sent') >= 0
             /\ Len(sent') = (IF z = 0 THEN 1 ELSE 2) /\ sent'[1] = header /\ (z # 0 => sent'[2] = reply)
             /\ DOMAIN sent' = 1 .. Len(sent') /\ sent' # <<>>
  <2>1. sent' = <<header, reply>>
    BY <1>1, <1>6
  <2>2. /\ sent' \in Seq(Frame) /\ Len(sent') = 2 /\ DOMAIN sent' = 1 .. 2 /\ sent' # <<>>
        /\ sent'[1] = header /\ sent'[2] = reply
    BY <1>3, <2>1
  <2>3. Abut(sent')
    BY <1>2, <1>3, <1>6, <2>2 DEF Abut
  <2>4. EndOf(sent') = HeaderLen + z
    BY <1>2, <1>3, <2>2 DEF EndOf
  <2> QED
    BY <1>2, <1>6, <2>2, <2>3, <2>4
<1>7. /\ sent' \in Seq(Frame) /\ Abut(sent') /\ EndOf(sent') \in Nat /\ EndOf(sent') >= 0
      /\ Len(sent') = (IF z = 0 THEN 1 ELSE 2) /\ sent'[1] = header /\ (z # 0 => sent'[2] = reply)
      /\ DOMAIN sent' = 1 .. Len(sent') /\ sent' # <<>>
  BY <1>5, <1>6
<1>8. LinkFrames(sent')
  BY <1>2, <1>3, <1>7 DEF LinkFrames
<1>9. MessageFrames(sent', posted') /\ AllSent(sent', posted')
  BY <1>1, <1>4, <1>7 DEF MessageFrames, AllSent
<1>10. SentWell'
  BY <1>7, <1>8, <1>9 DEF SentWell
<1>11. StartsAt(sent', 1) = 0 /\ Len(sent) = 0 /\ EndOf(sent) = 0
  BY <1>1, <1>3, <1>7 DEF StartsAt, EndOf
<1> QED
  BY <1>1, <1>4, <1>7, <1>10, <1>11, SentMore

LEMMA AuthorizesStep ==
  ASSUME ConnInv, NEW accepted \in BOOLEAN, ServerAuthorizes(accepted)
  PROVE  ConnInv'
<1> DEFINE f == Part("auth", Written, AuthLen, 0, accepted)
<1>1. /\ ws = "open" /\ state = "ticket" /\ ~HasSent("auth") /\ posted' = posted
      /\ UNCHANGED <<arrived, wire, state, ws, timer, owner, ack, errors>>
      /\ sent' = Append(sent, f)
  BY DEF ServerAuthorizes
<1>2. /\ sent \in Seq(Frame) /\ posted \in Seq(Types) /\ Len(sent) \in Nat /\ DOMAIN sent = 1 .. Len(sent)
      /\ EndOf(sent) \in Nat /\ Written = EndOf(sent)
  BY EndIsNat DEF ConnInv, TypeOK, EndOf, Written
<1>3. AuthLen \in Nat /\ AuthLen > 0
  BY ConnAssumption
<1>4. f \in Frame /\ f.kind = "auth" /\ f.at = EndOf(sent) /\ f.len = AuthLen /\ f.msg = 0
  BY <1>2, <1>3 DEF Part, NoFrame, Frame, Kinds, Types
<1> HIDE DEF f
<1>5. Len(sent) = 2
  <2>1. needed > 0 /\ Live
    BY <1>1, <1>3 DEF ConnInv, NotBefore, Live
  <2>2. \E k \in 1 .. Len(sent) + 1 : IsNext(k)
    BY <2>1 DEF ConnInv, InPlace
  <2>3. Len(sent) >= 2
    BY <1>1, <2>2 DEF IsNext
  <2>4. ~(Len(sent) >= 3)
    BY <1>1, <1>2 DEF ConnInv, SentWell, LinkFrames, HasSent
  <2> QED
    BY <1>2, <2>3, <2>4
<1>6. Abut(sent)
  BY DEF ConnInv, SentWell
<1>7. f.len > 0
  BY <1>3, <1>4
<1>8. /\ sent' \in Seq(Frame) /\ Len(sent') = 3 /\ \A k \in 1 .. 2 : sent'[k] = sent[k]
      /\ sent'[3] = f /\ Abut(sent') /\ EndOf(sent') = EndOf(sent) + AuthLen
  <2>1. /\ sent' \in Seq(Frame) /\ Len(sent') = Len(sent) + 1
        /\ \A k \in 1 .. Len(sent) : sent'[k] = sent[k]
        /\ sent'[Len(sent) + 1] = f
        /\ Abut(sent') /\ EndOf(sent') = EndOf(sent) + f.len
    BY <1>1, <1>2, <1>4, <1>6, <1>7, OneMoreFrame
  <2> QED
    BY <1>4, <1>5, <2>1
<1>9. LinkFrames(sent')
  <2>1. DOMAIN sent' = 1 .. 3
    BY <1>8
  <2>2. sent' # <<>> /\ sent # <<>>
    <3>1. \A s : Len(s) \in {2, 3} => s # <<>>
      OBVIOUS
    <3> QED
      BY <1>5, <1>8, <3>1
  <2> QED
    BY <1>2, <1>4, <1>5, <1>8, <2>1, <2>2 DEF ConnInv, SentWell, LinkFrames
<1>10. posted = <<>> /\ Len(posted) = 0
  BY <1>5 DEF ConnInv, SentWell, AllSent
<1>11. MessageFrames(sent', posted') /\ AllSent(sent', posted')
  <2>1. DOMAIN sent' = 1 .. 3
    BY <1>8
  <2> QED
    BY <1>1, <1>4, <1>8, <1>10, <2>1 DEF MessageFrames, AllSent, Announces
<1>12. SentWell'
  BY <1>8, <1>9, <1>11 DEF SentWell
<1>13. StartsAt(sent', 3) = EndOf(sent) /\ EndOf(sent') \in Nat /\ EndOf(sent') >= EndOf(sent)
  BY <1>2, <1>3, <1>4, <1>8 DEF StartsAt
<1>14. Len(sent') >= Len(sent) /\ Len(posted') >= Len(posted) /\ posted' \in Seq(Types)
       /\ (\A k \in 1 .. Len(posted) : posted'[k] = posted[k]) /\ (\A k \in 1 .. Len(sent) : sent'[k] = sent[k])
       /\ StartsAt(sent', Len(sent) + 1) = EndOf(sent)
  BY <1>1, <1>2, <1>5, <1>8, <1>10, <1>13
<1> QED
  BY <1>1, <1>8, <1>12, <1>13, <1>14, SentMore

(* The records ServerPosts builds, two fields at a time. *)
Numbered(n, t, w) == [NoFrame EXCEPT !.good = TRUE, !.msg = n, !.type = t, !.window = w]
PlacedMini(f, a, n, z) == [f EXCEPT !.kind = "mini", !.at = a, !.len = n, !.size = z]
PlacedPayload(f, a, n) == [f EXCEPT !.kind = "payload", !.at = a, !.len = n]

LEMMA NumberedFrame ==
  ASSUME NEW n \in Nat, NEW t \in Types, NEW w \in Nat
  PROVE  Numbered(n, t, w) \in Frame /\ Numbered(n, t, w).msg = n /\ Numbered(n, t, w).type = t
<1> DEFINE f == [NoFrame EXCEPT !.good = TRUE, !.msg = n]
<1>1. f \in Frame /\ f.msg = n
  BY DEF NoFrame, Frame, Kinds, Types
<1>2. Numbered(n, t, w) = [f EXCEPT !.type = t, !.window = w]
  BY DEF Numbered
<1> HIDE DEF f
<1> QED
  BY <1>1, <1>2 DEF Frame

IsMini(g, f, a, n, z) ==
  /\ g \in Frame /\ g.kind = "mini" /\ g.at = a /\ g.len = n /\ g.size = z
  /\ g.msg = f.msg /\ g.type = f.type

LEMMA PlacedFrame ==
  ASSUME NEW f \in Frame, NEW a \in Nat, NEW n \in Nat, NEW z \in Nat
  PROVE  IsMini(PlacedMini(f, a, n, z), f, a, n, z)
<1> DEFINE g == PlacedMini(f, a, n, z)
           h == [f EXCEPT !.kind = "mini", !.at = a]
<1>1. h \in Frame /\ h.kind = "mini" /\ h.at = a /\ h.msg = f.msg /\ h.type = f.type
  BY DEF Frame, Kinds
<1>2. g = [h EXCEPT !.len = n, !.size = z]
  BY DEF PlacedMini
<1> HIDE DEF h
<1>3. g \in Frame /\ g.kind = h.kind /\ g.at = h.at /\ g.len = n /\ g.size = z /\ g.msg = h.msg /\ g.type = h.type
  BY <1>1, <1>2 DEF Frame
<1> QED
  BY <1>1, <1>3 DEF IsMini

LEMMA PlacedPart ==
  ASSUME NEW f \in Frame, NEW a \in Nat, NEW n \in Nat
  PROVE  /\ PlacedPayload(f, a, n) \in Frame /\ PlacedPayload(f, a, n).kind = "payload"
         /\ PlacedPayload(f, a, n).at = a /\ PlacedPayload(f, a, n).len = n
         /\ PlacedPayload(f, a, n).msg = f.msg /\ PlacedPayload(f, a, n).type = f.type
<1> DEFINE g == PlacedPayload(f, a, n)
           h == [f EXCEPT !.kind = "payload", !.at = a]
<1>1. h \in Frame /\ h.kind = "payload" /\ h.at = a /\ h.msg = f.msg /\ h.type = f.type
  BY DEF Frame, Kinds
<1>2. g = [h EXCEPT !.len = n]
  BY DEF PlacedPayload
<1> HIDE DEF h
<1>3. g \in Frame /\ g.kind = h.kind /\ g.at = h.at /\ g.len = n /\ g.msg = h.msg /\ g.type = h.type
  BY <1>1, <1>2 DEF Frame
<1> QED
  BY <1>1, <1>3

LEMMA PostsStep ==
  ASSUME ConnInv, NEW type \in Types, NEW len \in PayloadLens, NEW w \in Windows, ServerPosts(type, len, w)
  PROVE  ConnInv'
<1> DEFINE message == [NoFrame EXCEPT !.good = TRUE, !.msg = Len(posted) + 1, !.type = type, !.window = w]
           mini == [message EXCEPT !.kind = "mini", !.at = Written, !.len = MiniLen, !.size = len]
           payload == [message EXCEPT !.kind = "payload", !.at = Written + MiniLen, !.len = len]
           n == Len(sent)
<1>1. /\ ws = "open" /\ (\E k \in DOMAIN sent : sent[k].kind = "auth" /\ sent[k].good)
      /\ posted' = Append(posted, type)
      /\ UNCHANGED <<arrived, wire, state, ws, timer, owner, ack, errors>>
      /\ sent' = IF len = 0 THEN Append(sent, mini) ELSE sent \o <<mini, payload>>
  BY DEF ServerPosts
<1>2. /\ sent \in Seq(Frame) /\ posted \in Seq(Types) /\ n \in Nat /\ DOMAIN sent = 1 .. n
      /\ EndOf(sent) \in Nat /\ Written = EndOf(sent) /\ Len(posted) \in Nat
  BY EndIsNat DEF ConnInv, TypeOK, EndOf, Written
<1>3. len \in Nat /\ w \in Nat /\ MiniLen \in Nat /\ MiniLen > 0
  BY ConnAssumption
<1>4. message \in Frame /\ message.msg = Len(posted) + 1 /\ message.type = type
  <2>1. Len(posted) + 1 \in Nat
    BY <1>2
  <2>2. message = Numbered(Len(posted) + 1, type, w)
    BY DEF Numbered
  <2> HIDE DEF message
  <2> QED
    BY <1>3, <2>1, <2>2, NumberedFrame
<1>5. Written \in Nat /\ Written + MiniLen \in Nat
  BY <1>2, <1>3
<1>6. /\ mini \in Frame /\ mini.kind = "mini" /\ mini.at = EndOf(sent) /\ mini.len = MiniLen
      /\ mini.size = len /\ mini.msg = Len(posted) + 1 /\ mini.type = type
  <2> HIDE DEF message
  <2>1. mini = PlacedMini(message, Written, MiniLen, len)
    BY DEF PlacedMini
  <2> HIDE DEF mini
  <2>2. /\ mini \in Frame /\ mini.kind = "mini" /\ mini.at = Written /\ mini.len = MiniLen
        /\ mini.size = len /\ mini.msg = message.msg /\ mini.type = message.type
    <3> DEFINE a == Written
    <3>1. message \in Frame /\ a \in Nat /\ MiniLen \in Nat /\ len \in Nat
      BY <1>3, <1>4, <1>5
    <3>2. mini = PlacedMini(message, a, MiniLen, len)
      BY <2>1
    <3> HIDE DEF a
    <3>3. IsMini(mini, message, a, MiniLen, len)
      BY <3>1, <3>2, PlacedFrame
    <3> QED
      BY <3>3 DEF a, IsMini
  <2> QED
    BY <1>2, <1>4, <2>2
<1>7. /\ payload \in Frame /\ payload.kind = "payload" /\ payload.at = EndOf(sent) + MiniLen /\ payload.len = len
      /\ payload.msg = Len(posted) + 1 /\ payload.type = type
  <2> HIDE DEF message
  <2>1. payload = PlacedPayload(message, Written + MiniLen, len)
    BY DEF PlacedPayload
  <2> HIDE DEF payload
  <2>2. /\ payload \in Frame /\ payload.kind = "payload" /\ payload.at = Written + MiniLen /\ payload.len = len
        /\ payload.msg = message.msg /\ payload.type = message.type
    <3> DEFINE a == Written + MiniLen
    <3>1. message \in Frame /\ a \in Nat /\ len \in Nat
      BY <1>3, <1>4, <1>5
    <3>2. payload = PlacedPayload(message, a, len)
      BY <2>1
    <3> HIDE DEF a
    <3>3. /\ payload \in Frame /\ payload.kind = "payload" /\ payload.at = a /\ payload.len = len
          /\ payload.msg = message.msg /\ payload.type = message.type
      BY <3>1, <3>2, PlacedPart
    <3> QED
      BY <3>3 DEF a
  <2> QED
    BY <1>2, <1>4, <2>2
<1> HIDE DEF mini, payload, message
<1>8. n >= 3
  <2>1. PICK k \in DOMAIN sent : sent[k].kind = "auth"
    BY <1>1
  <2>2. LinkFrames(sent) /\ MessageFrames(sent, posted)
    BY DEF ConnInv, SentWell
  <2>3. k # 1 /\ k # 2
    BY <2>1, <2>2 DEF LinkFrames
  <2> QED
    BY <1>2, <2>1, <2>3
<1>9. /\ posted' \in Seq(Types) /\ Len(posted') = Len(posted) + 1 /\ posted'[Len(posted) + 1] = type
      /\ DOMAIN posted' = 1 .. Len(posted) + 1 /\ \A m \in 1 .. Len(posted) : posted'[m] = posted[m]
  BY <1>1, <1>2
<1>10. Abut(sent) /\ sent[n].msg = Len(posted) /\ ~Announces(sent[n]) /\ sent # <<>>
  BY <1>2, <1>8 DEF ConnInv, SentWell, AllSent
<1> DEFINE t == Append(sent, mini)
<1>11. /\ t \in Seq(Frame) /\ Len(t) = n + 1 /\ \A k \in 1 .. n : t[k] = sent[k]
       /\ t[n + 1] = mini /\ Abut(t) /\ EndOf(t) = EndOf(sent) + MiniLen
  BY <1>2, <1>3, <1>6, <1>10, OneMoreFrame
<1>12. len # 0 =>
         /\ Append(t, payload) \in Seq(Frame) /\ Len(Append(t, payload)) = n + 2
         /\ \A k \in 1 .. n + 1 : Append(t, payload)[k] = t[k]
         /\ Append(t, payload)[n + 2] = payload /\ Abut(Append(t, payload))
         /\ EndOf(Append(t, payload)) = EndOf(t) + len
  <2> SUFFICES ASSUME len # 0
               PROVE  /\ Append(t, payload) \in Seq(Frame) /\ Len(Append(t, payload)) = n + 2
                      /\ \A k \in 1 .. n + 1 : Append(t, payload)[k] = t[k]
                      /\ Append(t, payload)[n + 2] = payload /\ Abut(Append(t, payload))
                      /\ EndOf(Append(t, payload)) = EndOf(t) + len
    OBVIOUS
  <2>1. payload.at = EndOf(t) /\ payload.len > 0
    BY <1>2, <1>3, <1>7, <1>11
  <2> HIDE DEF t
  <2>2. /\ Append(t, payload) \in Seq(Frame) /\ Len(Append(t, payload)) = Len(t) + 1
        /\ \A k \in 1 .. Len(t) : Append(t, payload)[k] = t[k]
        /\ Append(t, payload)[Len(t) + 1] = payload /\ Abut(Append(t, payload))
        /\ EndOf(Append(t, payload)) = EndOf(t) + payload.len
    BY <1>7, <1>11, <2>1, OneMoreFrame
  <2>3. Len(t) = n + 1 /\ Len(t) + 1 = n + 2
    BY <1>2, <1>11
  <2> QED
    BY <1>7, <2>2, <2>3
<1>13. sent' = IF len = 0 THEN t ELSE Append(t, payload)
  <2>1. sent \o <<mini, payload>> = Append(Append(sent, mini), payload)
    BY <1>2, <1>6, <1>7
  <2> QED
    BY <1>1, <2>1
<1> HIDE DEF t
<1>14. /\ sent' \in Seq(Frame) /\ Len(sent') = (IF len = 0 THEN n + 1 ELSE n + 2)
       /\ DOMAIN sent' = 1 .. Len(sent')
       /\ sent'[n + 1] = mini /\ (len # 0 => sent'[n + 2] = payload)
       /\ Abut(sent')
  BY <1>2, <1>11, <1>12, <1>13
<1>15. \A k \in 1 .. n : sent'[k] = sent[k]
  BY <1>2, <1>11, <1>12, <1>13
<1>16. EndOf(sent') \in Nat /\ EndOf(sent') >= EndOf(sent)
  BY <1>2, <1>3, <1>11, <1>12, <1>13
<1>17. LinkFrames(sent')
  <2>1. LinkFrames(sent)
    BY DEF ConnInv, SentWell
  <2>2. \A k \in DOMAIN sent' : k <= 3 => k \in 1 .. n /\ sent'[k] = sent[k]
    BY <1>2, <1>8, <1>14, <1>15
  <2>3. 1 \in 1 .. n /\ sent'[1] = sent[1] /\ sent' # <<>> /\ Len(sent') > 1 /\ n > 1
    BY <1>2, <1>8, <1>14, <1>15
  <2> QED
    BY <1>2, <1>10, <2>1, <2>2, <2>3 DEF LinkFrames
<1>18. MessageFrames(sent', posted')
  <2> SUFFICES ASSUME NEW k \in DOMAIN sent', k > 3
               PROVE  /\ sent'[k].msg \in DOMAIN posted' /\ sent'[k].type = posted'[sent'[k].msg]
                      /\ MiniFrame(sent', k) \/ PayloadFrame(sent', k)
    BY DEF MessageFrames
  <2>1. CASE k \in 1 .. n
    <3>1. /\ sent[k].msg \in DOMAIN posted /\ sent[k].type = posted[sent[k].msg]
          /\ MiniFrame(sent, k) \/ PayloadFrame(sent, k)
      BY <1>2, <2>1 DEF ConnInv, SentWell, MessageFrames
    <3>2. k - 1 \in 1 .. n
      BY <1>2, <2>1
    <3>3. sent'[k] = sent[k] /\ sent'[k - 1] = sent[k - 1]
      BY <1>15, <2>1, <3>2
    <3>4. sent[k].msg \in 1 .. Len(posted)
      BY <1>2, <3>1
    <3>5. sent'[k].msg \in DOMAIN posted' /\ sent'[k].type = posted'[sent'[k].msg]
      BY <1>2, <1>9, <3>1, <3>3, <3>4
    <3>6. k < Len(sent) => k < Len(sent')
      BY <1>2, <1>14
    <3> QED
      BY <3>1, <3>3, <3>5, <3>6 DEF MiniFrame, PayloadFrame
  <2>2. CASE k = n + 1
    <3>1. sent'[k] = mini /\ sent'[k - 1] = sent[n]
      BY <1>2, <1>8, <1>14, <1>15, <2>2
    <3>2. sent'[k].msg \in DOMAIN posted' /\ sent'[k].type = posted'[sent'[k].msg]
      BY <1>2, <1>6, <1>9, <3>1
    <3>3. len > 0 => k < Len(sent')
      BY <1>2, <1>14, <2>2
    <3>4. MiniFrame(sent', k)
      BY <1>6, <1>10, <3>1, <3>3 DEF MiniFrame, Announces
    <3> QED
      BY <3>2, <3>4
  <2>3. CASE len # 0 /\ k = n + 2
    <3>1. sent'[k] = payload /\ sent'[k - 1] = mini
      BY <1>2, <1>14, <2>3
    <3>2. sent'[k].msg \in DOMAIN posted' /\ sent'[k].type = posted'[sent'[k].msg]
      BY <1>2, <1>7, <1>9, <3>1
    <3>3. PayloadFrame(sent', k)
      BY <1>3, <1>6, <1>7, <2>3, <3>1 DEF PayloadFrame, Announces
    <3> QED
      BY <3>2, <3>3
  <2>4. k \in 1 .. n \/ k = n + 1 \/ (len # 0 /\ k = n + 2)
    BY <1>2, <1>14
  <2> QED
    BY <2>1, <2>2, <2>3, <2>4
<1>19. AllSent(sent', posted')
  <2>1. CASE len = 0
    BY <1>2, <1>6, <1>8, <1>9, <1>14, <2>1 DEF AllSent, Announces
  <2>2. CASE len # 0
    BY <1>2, <1>7, <1>8, <1>9, <1>14, <2>2 DEF AllSent, Announces
  <2> QED
    BY <2>1, <2>2
<1>20. SentWell'
  BY <1>14, <1>17, <1>18, <1>19 DEF SentWell
<1>21. StartsAt(sent', n + 1) = EndOf(sent)
  BY <1>2, <1>6, <1>14 DEF StartsAt
<1>22. Len(sent') >= Len(sent) /\ Len(posted') >= Len(posted)
  BY <1>2, <1>9, <1>14
<1> QED
  BY <1>1, <1>9, <1>14, <1>15, <1>16, <1>20, <1>21, <1>22, SentMore

-----------------------------------------------------------------------------
(* The reader *)

(* Nothing changes but what has come in and how it is cut. *)
LEMMA ReaderKeeps ==
  ASSUME ConnInv, UNCHANGED <<server, needed, saved, state, ws, timer, owner, ack, errors>>,
         ws # "connecting", buffers' \in Seq([at : Nat, len : Nat]), busy' \in BOOLEAN,
         arrived' \in Nat, arrived' <= EndOf(sent), InPlace'
  PROVE  ConnInv'
<1>1. UNCHANGED <<sent, posted, needed, saved, state, ws, timer, owner, window, until, handled, answers, errors>>
  BY DEF server, ack
<1>2. TypeOK'
  BY <1>1 DEF ConnInv, TypeOK
<1>3. SentWell'
  BY <1>1 DEF ConnInv, SentWell
<1>4. NotBefore'
  BY <1>1 DEF ConnInv, NotBefore
<1>5. AcksCounted'
  BY <1>1 DEF ConnInv, AcksCounted, LastSetAck, LastSync, Acks
<1>6. Losses'
  BY <1>1 DEF ConnInv, Losses, LossReported
<1> QED
  BY <1>2, <1>3, <1>4, <1>5, <1>6 DEF ConnInv

LEMMA Stretches ==
  ASSUME NEW s \in Seq([at : Nat, len : Nat])
  PROVE  /\ \A i \in 1 .. Len(s) : s[i] \in [at : Nat, len : Nat] /\ s[i].at \in Nat /\ s[i].len \in Nat
         /\ s # <<>> => /\ 1 \in 1 .. Len(s) /\ Len(s) > 0 /\ Head(s) = s[1]
                       /\ Tail(s) \in Seq([at : Nat, len : Nat])
<1>1. \A i \in 1 .. Len(s) : s[i] \in [at : Nat, len : Nat]
  BY ElementOfSeq
<1>2. s # <<>> => 1 \in 1 .. Len(s) /\ Len(s) > 0 /\ Head(s) = s[1]
  OBVIOUS
<1>3. s # <<>> => Tail(s) \in Seq([at : Nat, len : Nat])
  BY HeadTailProperties
<1> QED
  BY <1>1, <1>2, <1>3

LEMMA InboundStep ==
  ASSUME ConnInv, NEW b \in 1 .. Written - arrived, Inbound(b)
  PROVE  ConnInv'
<1> DEFINE B == [at : Nat, len : Nat]
           chunk == [at |-> arrived, len |-> b]
<1>1. /\ ws = "open" /\ ~busy /\ arrived + b <= Written /\ arrived' = arrived + b
      /\ UNCHANGED <<server, needed, saved, state, ws, timer, owner, ack, errors>>
      /\ needed = 0 => buffers' = Append(buffers, chunk) /\ busy' = busy
      /\ needed # 0 => buffers' = Combine(Append(buffers, chunk)) /\ busy' = TRUE
  BY DEF Inbound
<1>2. /\ buffers \in Seq(B) /\ arrived \in Nat /\ needed \in Nat /\ busy \in BOOLEAN /\ sent \in Seq(Frame)
      /\ EndOf(sent) \in Nat /\ Written = EndOf(sent) /\ b \in Nat /\ b > 0
  <2>1. Written = EndOf(sent) /\ EndOf(sent) \in Nat /\ arrived \in Nat
    BY EndIsNat DEF ConnInv, TypeOK, EndOf, Written
  <2> QED
    BY <2>1 DEF ConnInv, TypeOK
<1>3. chunk \in B /\ chunk.at = arrived /\ chunk.len = b
  BY <1>2
<1>4. Append(buffers, chunk) \in Seq(B) /\ Len(Append(buffers, chunk)) = Len(buffers) + 1
      /\ Append(buffers, chunk)[Len(buffers) + 1] = chunk
      /\ \A i \in 1 .. Len(buffers) : Append(buffers, chunk)[i] = buffers[i]
  BY <1>2, <1>3
<1>5. arrived' \in Nat /\ arrived' <= EndOf(sent)
  BY <1>1, <1>2
<1>6. CASE needed = 0
  <2>1. buffers' \in Seq(B) /\ busy' \in BOOLEAN
    BY <1>1, <1>2, <1>4, <1>6
  <2>2. InPlace'
    BY <1>1, <1>6 DEF InPlace
  <2> QED
    BY <1>1, <1>5, <2>1, <2>2, ReaderKeeps
<1>7. CASE needed # 0
  <2> DEFINE c == Append(buffers, chunk)
  <2>1. buffers' = Combine(c) /\ busy'
    BY <1>1, <1>7
  <2>2. c \in Seq(B) /\ Len(c) \in Nat
    BY <1>4
  <2>3. buffers' \in Seq(B)
    <3>1. CASE Len(c) = 2 /\ c[1].len < needed
      <4>1. c[1] \in B /\ c[2] \in B
        <5>1. 1 \in 1 .. Len(c) /\ 2 \in 1 .. Len(c)
          BY <3>1
        <5> HIDE DEF c
        <5> QED
          BY <2>2, <5>1, Stretches
      <4>2. [at |-> c[1].at, len |-> c[1].len + c[2].len] \in B
        <5> HIDE DEF c
        <5> QED
          BY <4>1
      <4>3. buffers' = <<[at |-> c[1].at, len |-> c[1].len + c[2].len]>>
        BY <2>1, <3>1 DEF Combine
      <4> HIDE DEF c
      <4> QED
        BY <4>2, <4>3
    <3>2. CASE ~(Len(c) = 2 /\ c[1].len < needed)
      BY <2>1, <2>2, <3>2 DEF Combine
    <3> QED
      BY <3>1, <3>2
  <2>4. ASSUME Live
        PROVE  Len(buffers') = 1 /\ buffers'[1].at = Place /\ buffers'[1].len > 0
               /\ buffers'[1].at + buffers'[1].len = arrived'
    <3>1. OneStretch /\ (buffers = <<>> \/ buffers[1].len < needed)
      BY <1>1, <1>2, <1>7, <2>4 DEF ConnInv, InPlace
    <3>2. CASE buffers = <<>>
      <4>1. Len(c) = 1 /\ c[1] = chunk
        BY <1>4, <3>2
      <4>2. buffers' = c
        BY <2>1, <4>1 DEF Combine
      <4> QED
        BY <1>1, <1>2, <1>3, <3>2, <4>1, <4>2 DEF Place
    <3>3. CASE buffers # <<>>
      <4>1. 1 \in 1 .. Len(buffers) /\ Len(buffers) > 0 /\ buffers[1] \in B
        BY <1>2, <3>3, Stretches
      <4>2. Len(buffers) = 1 /\ buffers[1] \in B
        <5>1. Len(buffers) \in Nat
          BY <1>2
        <5>2. Len(buffers) \in Nat /\ Len(buffers) <= 1
          BY <3>1, <5>1 DEF OneStretch
        <5>3. Len(buffers) > 0
          BY <4>1
        <5>4. Len(buffers) = 1
          <6> DEFINE m == Len(buffers)
          <6>1. m \in Nat /\ m <= 1 /\ m > 0
            BY <5>2, <5>3
          <6> HIDE DEF m
          <6>2. m = 1
            BY <6>1
          <6> QED
            BY <6>2 DEF m
        <5> QED
          BY <4>1, <5>4
      <4>3. Len(c) = 2 /\ c[1] = buffers[1] /\ c[2] = chunk
        BY <1>4, <4>2
      <4>4. buffers' = <<[at |-> buffers[1].at, len |-> buffers[1].len + b]>>
        BY <1>3, <2>1, <3>1, <3>3, <4>3 DEF Combine
      <4>5. buffers[1].len > 0 /\ buffers[1].at + buffers[1].len = arrived
        BY <3>1, <3>3 DEF OneStretch
      <4>6. Len(buffers') = 1 /\ buffers'[1].at = buffers[1].at /\ buffers'[1].len = buffers[1].len + b
        BY <4>4
      <4>7. buffers[1].at \in Nat /\ buffers[1].len \in Nat
        BY <4>2
      <4>8. Place = buffers[1].at
        BY <3>3 DEF Place
      <4>9. buffers'[1].len > 0 /\ buffers'[1].at + buffers'[1].len = arrived'
        <5>1. arrived' = arrived + b /\ b \in Nat /\ b > 0 /\ arrived \in Nat
          BY <1>1, <1>2
        <5> HIDE DEF B, chunk, c
        <5> QED
          BY <4>5, <4>6, <4>7, <5>1
      <4> QED
        BY <4>6, <4>8, <4>9
    <3> QED
      BY <3>2, <3>3
  <2>5. InPlace'
    <3> SUFFICES ASSUME Live PROVE InPlace'
      BY <1>1 DEF InPlace, Live
    <3>1. PICK k \in 1 .. Len(sent) + 1 : StartsAt(sent, k) = Place /\ IsNext(k)
      <4>1. Live /\ needed > 0 /\ InPlace
        BY <1>2, <1>7 DEF ConnInv, Live
      <4> QED
        BY <4>1 DEF InPlace
    <3>2. Place' = Place
      <4>1. buffers' # <<>>
        BY <2>4
      <4> QED
        BY <2>4, <4>1 DEF Place
    <3>3. IsNext(k)' /\ sent' = sent
      BY <1>1, <3>1 DEF IsNext, server, ack
    <3>4. OneStretch'
      <4>1. Len(buffers') = 1 /\ buffers'[1].len > 0 /\ buffers'[1].at + buffers'[1].len = arrived'
        BY <2>4
      <4> QED
        BY <4>1 DEF OneStretch
    <3> QED
      BY <2>1, <3>1, <3>2, <3>3, <3>4 DEF InPlace
  <2> QED
    BY <1>1, <1>5, <2>1, <2>3, <2>5, ReaderKeeps
<1> QED
  BY <1>6, <1>7

LEMMA ReturnStep ==
  ASSUME ConnInv, Return
  PROVE  ConnInv'
<1>1. /\ busy /\ ~Enough /\ busy' = FALSE /\ ws # "connecting"
      /\ UNCHANGED <<server, arrived, buffers, needed, saved, state, ws, timer, owner, ack, errors>>
  BY DEF Return, ConnInv, NotBefore
<1>2. /\ buffers \in Seq([at : Nat, len : Nat]) /\ arrived \in Nat /\ needed \in Nat /\ arrived <= EndOf(sent)
  BY DEF ConnInv, TypeOK, NotBefore
<1>3. buffers = <<>> \/ buffers[1].len < needed
  <2> SUFFICES ASSUME buffers # <<>> PROVE buffers[1].len < needed
    OBVIOUS
  <2>1. Head(buffers) = buffers[1] /\ buffers[1].len \in Nat
    BY <1>2, Stretches
  <2>2. ~(buffers[1].len >= needed)
    BY <1>1, <2>1 DEF Enough
  <2> QED
    BY <1>2, <2>1, <2>2
<1>4. InPlace'
  <2> SUFFICES ASSUME Live, needed > 0 PROVE InPlace'
    BY <1>1 DEF InPlace, Live
  <2>1. PICK k \in 1 .. Len(sent) + 1 : StartsAt(sent, k) = Place /\ IsNext(k)
    BY DEF ConnInv, InPlace
  <2>2. IsNext(k)' /\ sent' = sent /\ Place' = Place
    BY <1>1, <2>1 DEF IsNext, server, ack, Place
  <2>3. OneStretch' /\ (buffers = <<>> \/ buffers[1].len < needed)'
    BY <1>1, <1>3 DEF ConnInv, InPlace, OneStretch
  <2> QED
    BY <2>1, <2>2, <2>3 DEF InPlace
<1> QED
  BY <1>1, <1>2, <1>4, ReaderKeeps

(* What is left of the buffers is what was behind the needed bytes. *)
LEMMA CutTyped ==
  ASSUME ConnInv, Enough
  PROVE  Rest \in Seq([at : Nat, len : Nat])
<1> DEFINE B == [at : Nat, len : Nat]
           h == buffers[1]
<1>1. buffers \in Seq(B) /\ needed \in Nat /\ buffers # <<>>
  BY DEF ConnInv, TypeOK, Enough
<1>2. Head(buffers) = h /\ h \in B /\ Tail(buffers) \in Seq(B)
  BY <1>1, Stretches
<1>3. h.len >= needed
  BY <1>2 DEF Enough
<1>4. h.len # needed => [at |-> h.at + needed, len |-> h.len - needed] \in B
  BY <1>1, <1>2, <1>3
<1>5. Rest = IF h.len = needed THEN Tail(buffers)
             ELSE <<[at |-> h.at + needed, len |-> h.len - needed]>> \o Tail(buffers)
  BY <1>2 DEF Rest
<1> HIDE DEF h
<1>6. CASE h.len = needed
  BY <1>2, <1>5, <1>6
<1>7. CASE h.len # needed
  <2> DEFINE r == [at |-> h.at + needed, len |-> h.len - needed]
  <2>1. r \in B
    BY <1>4, <1>7
  <2>2. Rest = <<r>> \o Tail(buffers)
    BY <1>5, <1>7
  <2>3. Tail(buffers) \in Seq(B)
    BY <1>2
  <2> HIDE DEF r, B
  <2>4. <<r>> \in Seq(B)
    BY <2>1
  <2>5. <<r>> \o Tail(buffers) \in Seq(B)
    BY <2>3, <2>4, ConcatProperties
  <2> QED
    BY <2>2, <2>5 DEF B
<1> QED
  BY <1>6, <1>7

LEMMA DiscardStep ==
  ASSUME ConnInv, Discard
  PROVE  ConnInv'
<1>1. /\ busy /\ Enough /\ state \in {"error", "closing"} /\ buffers' = Rest
      /\ UNCHANGED <<server, arrived, needed, saved, busy, state, ws, timer, owner, ack, errors>>
  BY DEF Discard
<1>2. ws # "connecting" /\ arrived \in Nat /\ arrived <= EndOf(sent) /\ busy \in BOOLEAN
  BY <1>1 DEF ConnInv, TypeOK, NotBefore
<1>3. InPlace'
  BY <1>1 DEF InPlace, Live
<1>4. buffers' \in Seq([at : Nat, len : Nat])
  BY <1>1, CutTyped
<1> QED
  BY <1>1, <1>2, <1>3, <1>4, ReaderKeeps

-----------------------------------------------------------------------------
(* Cutting a frame *)

(* Frames that abut start at different places, none of them at the end. *)
LEMMA OnePlace ==
  ASSUME ConnInv, NEW k \in 1 .. Len(sent) + 1, NEW i \in 1 .. Len(sent), StartsAt(sent, k) = sent[i].at
  PROVE  k = i
<1>1. /\ sent \in Seq(Frame) /\ Len(sent) \in Nat /\ DOMAIN sent = 1 .. Len(sent) /\ Abut(sent)
  BY DEF ConnInv, TypeOK, SentWell
<1>2. \A j \in 1 .. Len(sent) : sent[j].at \in Nat /\ sent[j].len \in Nat /\ sent[j].len > 0
  <2>1. \A j \in 1 .. Len(sent) : sent[j] \in Frame
    BY <1>1, ElementOfSeq
  <2> QED
    BY <1>1, <2>1 DEF Abut, Frame
<1>3. CASE k \in 1 .. Len(sent)
  <2>1. sent[k].at = sent[i].at
    BY <1>1, <1>3 DEF StartsAt
  <2>2. ~(k < i)
    BY <1>1, <1>2, <1>3, <2>1 DEF Abut
  <2>3. ~(i < k)
    BY <1>1, <1>2, <1>3, <2>1 DEF Abut
  <2> QED
    BY <2>2, <2>3
<1>4. CASE k = Len(sent) + 1
  <2>1. Len(sent) \in 1 .. Len(sent) /\ sent # <<>>
    BY <1>1
  <2>2. sent[Len(sent)].at + sent[Len(sent)].len = sent[i].at
    BY <1>1, <1>4, <2>1 DEF StartsAt, EndOf
  <2>3. i = Len(sent) \/ i < Len(sent)
    <3> DEFINE m == Len(sent)
    <3>1. m \in Nat /\ i \in 1 .. m
      BY <1>1
    <3> HIDE DEF m
    <3>2. i = m \/ i < m
      BY <3>1
    <3> QED
      BY <3>2 DEF m
  <2>4. i # Len(sent)
    BY <1>2, <2>1, <2>2
  <2>5. sent[i].at + sent[i].len <= sent[Len(sent)].at
    BY <1>1, <2>1, <2>3, <2>4 DEF Abut
  <2> QED
    BY <1>2, <2>1, <2>2, <2>5
<1> QED
  BY <1>1, <1>3, <1>4

LEMMA CutsNext ==
  ASSUME ConnInv, Live, NEW kind, NEW i \in DOMAIN sent, Take(kind, sent[i]), arrived' = arrived
  PROVE  /\ busy /\ sent[i].kind = kind /\ i \in 1 .. Len(sent) /\ needed = sent[i].len /\ needed > 0
         /\ IsNext(i)
         /\ buffers' \in Seq([at : Nat, len : Nat]) /\ OneStretch' /\ Place' = StartsAt(sent, i + 1)
<1> DEFINE h == buffers[1]
           f == sent[i]
<1>1. /\ busy /\ Enough /\ f.kind = kind /\ f.at = Head(buffers).at /\ f.len = needed /\ buffers' = Rest
  BY DEF Take
<1>2. /\ sent \in Seq(Frame) /\ Len(sent) \in Nat /\ i \in 1 .. Len(sent) /\ Abut(sent)
      /\ buffers \in Seq([at : Nat, len : Nat]) /\ buffers # <<>> /\ needed \in Nat /\ arrived \in Nat
  BY <1>1 DEF ConnInv, TypeOK, SentWell, Enough
<1>3. Head(buffers) = h /\ h.at \in Nat /\ h.len \in Nat /\ 1 \in 1 .. Len(buffers)
  BY <1>2, Stretches
<1>4. needed > 0
  BY <1>1, <1>2 DEF Abut
<1>5. PICK k \in 1 .. Len(sent) + 1 : StartsAt(sent, k) = Place /\ IsNext(k)
  BY <1>4 DEF ConnInv, InPlace
<1>6. Place = f.at
  BY <1>1, <1>2, <1>3 DEF Place
<1>7. k = i
  BY <1>2, <1>5, <1>6, OnePlace
<1>8. Len(buffers) = 1 /\ h.at + h.len = arrived
  <2> DEFINE m == Len(buffers)
  <2>1. m \in Nat /\ m <= 1 /\ h.at + h.len = arrived
    BY <1>2, <1>4 DEF ConnInv, InPlace, OneStretch
  <2>2. m >= 1
    BY <1>3
  <2> HIDE DEF m
  <2>3. m = 1
    BY <2>1, <2>2
  <2> QED
    BY <2>1, <2>3 DEF m
<1>9. h.len >= needed
  BY <1>1, <1>3 DEF Enough
<1>10. StartsAt(sent, i + 1) = f.at + f.len
  <2>1. DOMAIN sent = 1 .. Len(sent)
    BY <1>2
  <2>2. CASE i = Len(sent)
    BY <1>2, <2>2 DEF StartsAt, EndOf
  <2>3. CASE i < Len(sent)
    <3>1. i + 1 \in DOMAIN sent /\ i + 1 > 1 /\ (i + 1) - 1 = i /\ i + 1 <= Len(sent)
      BY <1>2, <2>1, <2>3
    <3> QED
      BY <1>2, <3>1 DEF StartsAt, Abut
  <2> QED
    BY <1>2, <2>2, <2>3
<1>11. Tail(buffers) = <<>>
  <2>1. Tail(buffers) \in Seq([at : Nat, len : Nat]) /\ Len(Tail(buffers)) = 0
    BY <1>2, <1>8, HeadTailProperties
  <2> QED
    BY <2>1, EmptySeq
<1>12. CASE h.len = needed
  <2>1. buffers' = <<>>
    BY <1>1, <1>3, <1>11, <1>12 DEF Rest
  <2>2. OneStretch' /\ Place' = arrived
    BY <2>1 DEF OneStretch, Place
  <2> QED
    BY <1>1, <1>2, <1>3, <1>4, <1>5, <1>7, <1>8, <1>10, <1>12, <2>1, <2>2
<1>13. CASE h.len # needed
  <2> DEFINE r == [at |-> h.at + needed, len |-> h.len - needed]
  <2>1. r.at = h.at + needed /\ r.len = h.len - needed /\ r \in [at : Nat, len : Nat]
    <3>1. h.at + needed \in Nat /\ h.len - needed \in Nat
      <4>1. h.at \in Nat /\ h.len \in Nat /\ needed \in Nat /\ h.len >= needed
        BY <1>2, <1>3, <1>9
      <4> HIDE DEF h
      <4> QED
        BY <4>1
    <3> HIDE DEF h
    <3> QED
      BY <3>1
  <2>2. buffers' = <<r>> \o <<>>
    BY <1>1, <1>3, <1>11, <1>13 DEF Rest
  <2> HIDE DEF r
  <2>3. buffers' = <<r>> /\ Len(buffers') = 1 /\ buffers'[1] = r /\ buffers' # <<>>
    BY <2>1, <2>2
  <2>4. r.len > 0 /\ r.at + r.len = arrived /\ r.at = f.at + f.len
    <3> DEFINE a == h.at
               l == h.len
    <3>1. a \in Nat /\ l \in Nat /\ needed \in Nat /\ l >= needed /\ l # needed /\ a + l = arrived
      BY <1>2, <1>3, <1>8, <1>9, <1>13
    <3>2. r.at = a + needed /\ r.len = l - needed /\ f.at = a /\ f.len = needed
      BY <1>1, <1>3, <2>1
    <3> HIDE DEF a, l, h, f
    <3> QED
      BY <3>1, <3>2
  <2>5. OneStretch' /\ Place' = r.at
    BY <2>3, <2>4 DEF OneStretch, Place
  <2> QED
    BY <1>1, <1>2, <1>4, <1>5, <1>7, <1>10, <2>1, <2>3, <2>4, <2>5
<1> QED
  BY <1>12, <1>13

-----------------------------------------------------------------------------
(* The handshake *)

LEMMA HandshakeKeeps ==
  ASSUME ConnInv, state \in {"start", "link", "ticket"}, busy,
         UNCHANGED <<server, arrived, saved, owner, ack, ws, errors, busy>>,
         buffers' \in Seq([at : Nat, len : Nat]), needed' \in Nat,
         state' \in {"link", "ticket", "ready"}, timer' \in BOOLEAN, state' = "ready" => ~timer',
         state' = "ticket" => needed' = AuthLen, InPlace'
  PROVE  ConnInv'
<1>1. UNCHANGED <<sent, posted, arrived, saved, owner, window, until, handled, answers, ws, errors, busy>>
  BY DEF server, ack
<1>2. TypeOK'
  BY <1>1 DEF ConnInv, TypeOK
<1>3. SentWell'
  BY <1>1 DEF ConnInv, SentWell
<1>4. NotBefore'
  BY <1>1 DEF ConnInv, NotBefore
<1>5. AcksCounted'
  BY <1>1 DEF ConnInv, AcksCounted, LastSetAck, LastSync, Acks
<1>6. Losses'
  BY <1>1 DEF ConnInv, Losses, LossReported
<1> QED
  BY <1>2, <1>3, <1>4, <1>5, <1>6 DEF ConnInv

(* The link or the ticket is refused. *)
LEMMA RefusedKeeps ==
  ASSUME ConnInv, state \in {"start", "link", "ticket"}, Report("error", TRUE),
         UNCHANGED <<server, arrived, saved, owner, ack, needed>>, buffers' \in Seq([at : Nat, len : Nat])
  PROVE  ConnInv'
<1>1. UNCHANGED <<sent, posted, arrived, saved, owner, window, until, handled, answers, needed>>
  BY DEF server, ack
<1>2. /\ errors' = errors + 1 /\ errors \in Nat /\ ws # "connecting"
      /\ ws \in {"connecting", "open", "closing", "aborting", "closed"} /\ timer \in BOOLEAN
  BY DEF Report, ConnInv, TypeOK, NotBefore
<1>3. /\ owner = "page" => state' = "closing" /\ ws' = Closing /\ timer' = FALSE /\ busy' = TRUE
      /\ owner # "page" => state' = "error" /\ busy' = FALSE /\ UNCHANGED <<ws, timer>>
  BY DEF Report
<1>4. ws' \in {"closing", "aborting", "closed", "open"} /\ (owner = "page" => ws' # "open")
  BY <1>2, <1>3 DEF Closing
<1>5. TypeOK'
  <2>1. /\ state' \in {"connecting", "start", "link", "ticket", "ready", "error", "closing"}
        /\ ws' \in {"connecting", "open", "closing", "aborting", "closed"}
        /\ errors' \in Nat
    BY <1>2, <1>3, <1>4
  <2>2. timer' \in BOOLEAN /\ busy' \in BOOLEAN
    <3>1. CASE owner = "page"
      BY <1>3, <3>1
    <3>2. CASE owner # "page"
      BY <1>2, <1>3, <3>2
    <3> QED
      BY <3>1, <3>2
  <2> QED
    BY <1>1, <2>1, <2>2 DEF ConnInv, TypeOK
<1>6. SentWell'
  BY <1>1 DEF ConnInv, SentWell
<1>7. NotBefore' /\ InPlace'
  BY <1>1, <1>3, <1>4 DEF ConnInv, NotBefore, InPlace, Live
<1>8. AcksCounted'
  BY <1>1 DEF ConnInv, AcksCounted, LastSetAck, LastSync, Acks
<1>9. Losses'
  BY <1>1, <1>2, <1>3, <1>4 DEF ConnInv, Losses, LossReported
<1> QED
  BY <1>5, <1>6, <1>7, <1>8, <1>9 DEF ConnInv

(* The frames the handshake cuts are the first three. *)
LEMMA LinkHeaderStep ==
  ASSUME ConnInv, NEW i \in DOMAIN sent, LinkHeader(sent[i])
  PROVE  ConnInv'
<1>1. /\ state = "start" /\ Take("header", sent[i])
      /\ UNCHANGED <<server, arrived, saved, owner, ack>>
      /\ \/ sent[i].good /\ state' = "link" /\ needed' = sent[i].size /\ UNCHANGED <<busy, ws, timer, errors>>
         \/ ~sent[i].good /\ Report("error", TRUE) /\ UNCHANGED needed
  BY DEF LinkHeader
<1>2. Live /\ state \in {"start", "link", "ticket"}
  BY <1>1 DEF Live
<1>3. /\ busy /\ i \in 1 .. Len(sent) /\ IsNext(i) /\ buffers' \in Seq([at : Nat, len : Nat])
      /\ OneStretch' /\ Place' = StartsAt(sent, i + 1)
  BY <1>1, <1>2, CutsNext
<1>4. CASE Report("error", TRUE) /\ UNCHANGED needed
  BY <1>1, <1>2, <1>3, <1>4, RefusedKeeps
<1>5. CASE state' = "link" /\ needed' = sent[i].size /\ UNCHANGED <<busy, ws, timer, errors>>
  <2>1. i = 1
    BY <1>1, <1>3 DEF IsNext
  <2>2. sent[1] \in Frame /\ sent[1].size \in Nat /\ sent # <<>> /\ Len(sent) \in Nat
    <3>1. sent \in Seq(Frame)
      BY DEF ConnInv, TypeOK
    <3>2. sent[1] \in Frame
      <4>1. 1 \in 1 .. Len(sent)
        BY <1>3, <2>1
      <4> QED
        BY <3>1, <4>1, ElementOfSeq
    <3>3. sent # <<>> /\ Len(sent) \in Nat
      BY <1>3, <3>1
    <3>4. sent[1].size \in Nat
      BY <3>2 DEF Frame
    <3> QED
      BY <3>2, <3>3, <3>4
  <2>3. needed' > 0 => Len(sent) >= 2
    BY <1>5, <2>1, <2>2 DEF ConnInv, SentWell, LinkFrames
  <2>4. sent' = sent /\ busy' /\ timer' \in BOOLEAN
    BY <1>1, <1>3, <1>5 DEF server, ConnInv, TypeOK
  <2>5. needed' > 0 => IsNext(2)' /\ 2 \in 1 .. Len(sent) + 1
    BY <1>5, <2>1, <2>2, <2>3, <2>4 DEF IsNext
  <2>6. InPlace'
    BY <1>3, <2>1, <2>4, <2>5 DEF InPlace
  <2> QED
    BY <1>1, <1>2, <1>3, <1>5, <2>1, <2>2, <2>4, <2>6, HandshakeKeeps
<1> QED
  BY <1>1, <1>4, <1>5

LEMMA LinkReplyStep ==
  ASSUME ConnInv, NEW i \in DOMAIN sent, LinkReply(sent[i])
  PROVE  ConnInv'
<1>1. /\ state = "link" /\ Take("reply", sent[i])
      /\ UNCHANGED <<server, arrived, saved, owner, ack>>
      /\ \/ sent[i].good /\ state' = "ticket" /\ needed' = AuthLen /\ UNCHANGED <<busy, ws, timer, errors>>
         \/ ~sent[i].good /\ Report("error", TRUE) /\ UNCHANGED needed
  BY DEF LinkReply
<1>2. Live /\ state \in {"start", "link", "ticket"}
  BY <1>1 DEF Live
<1>3. /\ busy /\ i \in 1 .. Len(sent) /\ IsNext(i) /\ buffers' \in Seq([at : Nat, len : Nat])
      /\ OneStretch' /\ Place' = StartsAt(sent, i + 1)
  BY <1>1, <1>2, CutsNext
<1>4. CASE Report("error", TRUE) /\ UNCHANGED needed
  BY <1>1, <1>2, <1>3, <1>4, RefusedKeeps
<1>5. CASE state' = "ticket" /\ needed' = AuthLen /\ UNCHANGED <<busy, ws, timer, errors>>
  <2>1. i = 2 /\ Len(sent) >= 2 /\ Len(sent) \in Nat /\ AuthLen \in Nat
    BY <1>1, <1>3, ConnAssumption DEF IsNext, ConnInv, TypeOK
  <2>2. sent' = sent /\ busy' /\ timer' \in BOOLEAN
    BY <1>1, <1>3, <1>5 DEF server, ConnInv, TypeOK
  <2>3. IsNext(3)' /\ 3 \in 1 .. Len(sent) + 1
    BY <1>5, <2>1, <2>2 DEF IsNext
  <2>4. InPlace'
    BY <1>3, <2>1, <2>2, <2>3 DEF InPlace
  <2> QED
    BY <1>1, <1>2, <1>3, <1>5, <2>1, <2>2, <2>4, HandshakeKeeps
<1> QED
  BY <1>1, <1>4, <1>5

LEMMA AuthReplyStep ==
  ASSUME ConnInv, NEW i \in DOMAIN sent, AuthReply(sent[i])
  PROVE  ConnInv'
<1>1. /\ state = "ticket" /\ Take("auth", sent[i])
      /\ UNCHANGED <<server, arrived, saved, owner, ack>>
      /\ \/ /\ sent[i].good /\ state' = "ready" /\ needed' = MiniLen /\ timer' = FALSE
            /\ UNCHANGED <<busy, ws, errors>>
         \/ ~sent[i].good /\ Report("error", TRUE) /\ UNCHANGED needed
  BY DEF AuthReply
<1>2. Live /\ state \in {"start", "link", "ticket"}
  BY <1>1 DEF Live
<1>3. /\ busy /\ i \in 1 .. Len(sent) /\ IsNext(i) /\ buffers' \in Seq([at : Nat, len : Nat])
      /\ OneStretch' /\ Place' = StartsAt(sent, i + 1) /\ sent[i].kind = "auth"
  BY <1>1, <1>2, CutsNext
<1>4. CASE Report("error", TRUE) /\ UNCHANGED needed
  BY <1>1, <1>2, <1>3, <1>4, RefusedKeeps
<1>5. CASE state' = "ready" /\ needed' = MiniLen /\ timer' = FALSE /\ UNCHANGED <<busy, ws, errors>>
  <2>1. i = 3 /\ Len(sent) \in Nat /\ MiniLen \in Nat
    BY <1>1, <1>3, ConnAssumption DEF IsNext, ConnInv, TypeOK
  <2>2. sent' = sent /\ busy' /\ saved' = NoFrame /\ handled' = <<>>
    BY <1>1, <1>3, <1>5 DEF server, ack, ConnInv, NotBefore
  <2>3. sent[3].msg = 0 /\ ~Announces(sent[3])
    BY <1>3, <2>1 DEF ConnInv, SentWell, LinkFrames, Announces
  <2>4. IsNext(4)' /\ 4 \in 1 .. Len(sent) + 1
    <3>1. Len(handled') = sent'[3].msg /\ ~Announces(sent'[3])
      BY <2>2, <2>3
    <3>2. 4 > 3 /\ 4 - 1 = 3 /\ 4 \in 1 .. Len(sent) + 1
      BY <1>3, <2>1
    <3> QED
      BY <1>5, <2>2, <3>1, <3>2 DEF IsNext
  <2>5. InPlace'
    BY <1>3, <2>1, <2>2, <2>4 DEF InPlace
  <2> QED
    BY <1>1, <1>2, <1>3, <1>5, <2>1, <2>2, <2>5, HandshakeKeeps
<1> QED
  BY <1>1, <1>4, <1>5

-----------------------------------------------------------------------------
(* Messages and acknowledgements *)

Replies == {"pong", "sync", "ack"}
AcksOf(s, i) == Cardinality({j \in i .. Len(s) : s[j] = "ack"})
SyncAt(s, i) == s[i] = "sync" /\ \A j \in i + 1 .. Len(s) : s[j] # "sync"
Ones(b) == IF b THEN 1 ELSE 0

LEMMA AcksCount ==
  ASSUME NEW s \in Seq(Replies), NEW i \in 1 .. Len(s) + 1
  PROVE  IsFiniteSet({j \in i .. Len(s) : s[j] = "ack"}) /\ AcksOf(s, i) \in Nat
<1>1. i \in Int /\ Len(s) \in Int
  OBVIOUS
<1>2. IsFiniteSet(i .. Len(s))
  BY <1>1, FS_Interval
<1>3. IsFiniteSet({j \in i .. Len(s) : s[j] = "ack"})
  BY <1>2, FS_Subset
<1> QED
  BY <1>3, FS_CardinalityType DEF AcksOf

(* One more answer is one more acknowledgement or none. *)
LEMMA OneMoreAnswer ==
  ASSUME NEW s \in Seq(Replies), NEW r \in Replies, NEW i \in 1 .. Len(s) + 1
  PROVE  /\ Append(s, r) \in Seq(Replies) /\ Len(Append(s, r)) = Len(s) + 1
         /\ AcksOf(Append(s, r), i) = AcksOf(s, i) + Ones(r = "ack")
<1> DEFINE t == Append(s, r)
           A == {j \in i .. Len(s) : s[j] = "ack"}
           B == {j \in i .. Len(t) : t[j] = "ack"}
           n == Len(s)
<1>1. /\ t \in Seq(Replies) /\ Len(t) = n + 1 /\ n \in Nat /\ t[n + 1] = r
      /\ \A j \in 1 .. n : t[j] = s[j]
  OBVIOUS
<1>2. IsFiniteSet(A) /\ AcksOf(s, i) = Cardinality(A) /\ Cardinality(A) \in Nat /\ AcksOf(t, i) = Cardinality(B)
  BY AcksCount DEF AcksOf
<1>3. i \in 1 .. n + 1
  OBVIOUS
<1> HIDE DEF t, n
<1>4. \A j \in i .. n : j \in 1 .. n
  BY <1>1, <1>3
<1>5. n + 1 \notin A
  BY <1>1, <1>3 DEF n
<1>6. i .. n + 1 = (i .. n) \cup {n + 1}
  BY <1>1, <1>3
<1>7. CASE r = "ack"
  <2>1. B = A \cup {n + 1}
    BY <1>1, <1>4, <1>6, <1>7 DEF n
  <2>2. Cardinality(B) = Cardinality(A) + 1
    BY <1>2, <1>5, <2>1, FS_AddElement
  <2> QED
    <3>1. Ones(r = "ack") = 1
      BY <1>7 DEF Ones
    <3>2. AcksOf(t, i) = AcksOf(s, i) + 1
      BY <1>2, <2>2
    <3> QED
      BY <1>1, <3>1, <3>2 DEF t, n
<1>8. CASE r # "ack"
  <2>1. B = A
    BY <1>1, <1>4, <1>6, <1>8 DEF n
  <2> QED
    <3>1. Ones(r = "ack") = 0
      BY <1>8 DEF Ones
    <3> HIDE DEF A, B
    <3>2. AcksOf(t, i) = AcksOf(s, i) + 0
      BY <1>2, <2>1
    <3> QED
      BY <1>1, <3>1, <3>2 DEF t, n
<1> QED
  BY <1>7, <1>8

LEMMA SyncStays ==
  ASSUME NEW s \in Seq(Replies), NEW r \in Replies, r # "sync", NEW i \in 1 .. Len(s), SyncAt(s, i)
  PROVE  SyncAt(Append(s, r), i)
<1> DEFINE t == Append(s, r)
           n == Len(s)
<1>1. /\ Len(t) = n + 1 /\ n \in Nat /\ t[n + 1] = r /\ \A j \in 1 .. n : t[j] = s[j]
  OBVIOUS
<1> HIDE DEF t
<1>2. t[i] = "sync"
  BY <1>1 DEF SyncAt
<1>3. ASSUME NEW j \in i + 1 .. n + 1 PROVE t[j] # "sync"
  <2>1. CASE j = n + 1
    BY <1>1, <2>1
  <2>2. CASE j \in i + 1 .. n
    <3>1. j \in 1 .. n
      BY <1>1, <2>2
    <3> QED
      BY <1>1, <2>2, <3>1 DEF SyncAt
  <2> QED
    BY <1>1, <2>1, <2>2
<1>4. SyncAt(t, i)
  BY <1>1, <1>2, <1>3 DEF SyncAt
<1> QED
  BY <1>4 DEF t

LEMMA SyncNow ==
  ASSUME NEW s \in Seq(Replies)
  PROVE  SyncAt(Append(s, "sync"), Len(s) + 1) /\ AcksOf(Append(s, "sync"), Len(s) + 1) = 0
<1> DEFINE t == Append(s, "sync")
           n == Len(s)
<1>1. Len(t) = n + 1 /\ n \in Nat /\ t[n + 1] = "sync"
  OBVIOUS
<1> HIDE DEF t
<1>2. SyncAt(t, n + 1)
  BY <1>1 DEF SyncAt
<1>3. {j \in n + 1 .. Len(t) : t[j] = "ack"} = {}
  BY <1>1
<1>4. AcksOf(t, n + 1) = 0
  BY <1>3, FS_EmptySet DEF AcksOf
<1> QED
  BY <1>2, <1>4 DEF t

(* What was answered to the request, then perhaps an acknowledgement. *)
LEMMA AnswersAdd ==
  ASSUME NEW s \in Seq(Replies), NEW t \in Types, NEW due \in BOOLEAN
  PROVE  LET a == s \o Answer(t)
             b == a \o (IF due THEN <<"ack">> ELSE <<>>)
         IN  /\ a = (IF t = "ping" THEN Append(s, "pong") ELSE IF t = "set_ack" THEN Append(s, "sync") ELSE s)
             /\ b = (IF due THEN Append(a, "ack") ELSE a)
             /\ a \in Seq(Replies) /\ b \in Seq(Replies)
<1> DEFINE a == s \o Answer(t)
           b == a \o (IF due THEN <<"ack">> ELSE <<>>)
<1>1. /\ a = (IF t = "ping" THEN Append(s, "pong") ELSE IF t = "set_ack" THEN Append(s, "sync") ELSE s)
      /\ a \in Seq(Replies)
  <2>1. CASE t = "ping"
    BY <2>1 DEF Answer, Replies
  <2>2. CASE t = "set_ack"
    BY <2>2 DEF Answer, Replies
  <2>3. CASE t = "data"
    BY <2>3 DEF Answer, Replies
  <2> QED
    BY <2>1, <2>2, <2>3 DEF Types
<1> HIDE DEF a
<1>2. b = (IF due THEN Append(a, "ack") ELSE a) /\ b \in Seq(Replies)
  <2>1. "ack" \in Replies
    BY DEF Replies
  <2>2. CASE due
    BY <1>1, <2>1, <2>2
  <2>3. CASE ~due
    BY <1>1, <2>3
  <2> QED
    BY <2>2, <2>3
<1> QED
  BY <1>1, <1>2 DEF a

(* Handling a message answers it and counts it. *)
LEMMA ProcessesStep ==
  ASSUME ConnInv, NEW g, g.type \in Types, g.window \in Nat, g.msg = Len(handled) + 1,
         g.msg \in DOMAIN posted, g.type = posted[g.msg], ProcessMessage(g), UNCHANGED posted
  PROVE  /\ handled' \in Seq(Nat) /\ Len(handled') = Len(handled) + 1
         /\ handled' = Append(handled, Len(handled) + 1)
         /\ window' \in Nat /\ until' \in Nat /\ answers' \in Seq(Replies)
         /\ answers' \in {answers \o Answer(g.type), answers \o Answer(g.type) \o <<"ack">>}
         /\ AcksCounted'
<1> DEFINE w == IF g.type = "set_ack" THEN g.window ELSE window
           u == IF g.type = "set_ack" THEN g.window ELSE until
           due == w > 0 /\ u <= 1
           a == answers \o Answer(g.type)
           m == Len(handled)
<1>1. /\ handled' = Append(handled, g.msg) /\ window' = w
      /\ until' = (IF due THEN w ELSE IF w > 0 THEN u - 1 ELSE u)
      /\ answers' = a \o (IF due THEN <<"ack">> ELSE <<>>)
  BY DEF ProcessMessage
<1>2. /\ handled \in Seq(Nat) /\ answers \in Seq(Replies) /\ window \in Nat /\ until \in Nat
      /\ posted \in Seq(Types) /\ m \in Nat /\ due \in BOOLEAN
  BY DEF ConnInv, TypeOK, Replies
<1>3. /\ a = (IF g.type = "ping" THEN Append(answers, "pong")
              ELSE IF g.type = "set_ack" THEN Append(answers, "sync") ELSE answers)
      /\ answers' = (IF due THEN Append(a, "ack") ELSE a)
      /\ a \in Seq(Replies) /\ answers' \in Seq(Replies)
  <2>1. \A s \in Seq(Replies), t \in Types, d \in BOOLEAN :
          LET x == s \o Answer(t)
              y == x \o (IF d THEN <<"ack">> ELSE <<>>)
          IN  /\ x = (IF t = "ping" THEN Append(s, "pong") ELSE IF t = "set_ack" THEN Append(s, "sync") ELSE s)
              /\ y = (IF d THEN Append(x, "ack") ELSE x)
              /\ x \in Seq(Replies) /\ y \in Seq(Replies)
    BY AnswersAdd
  <2> HIDE DEF due
  <2> QED
    BY <1>1, <1>2, <2>1
<1>4. answers' \in {a, a \o <<"ack">>}
  <2> HIDE DEF a, due
  <2>1. CASE due
    BY <1>1, <2>1
  <2>2. CASE ~due
    BY <1>3, <2>2
  <2> QED
    BY <2>1, <2>2
<1>5. answers' \in {answers \o Answer(g.type), answers \o Answer(g.type) \o <<"ack">>}
  BY <1>4
<1> HIDE DEF a
<1>6. w \in Nat /\ u \in Nat
  BY <1>2
<1>7. window' \in Nat /\ until' \in Nat
  <2> HIDE DEF w, u
  <2> QED
    BY <1>1, <1>6
<1>8. handled' \in Seq(Nat) /\ Len(handled') = m + 1 /\ handled' = Append(handled, m + 1)
  BY <1>1, <1>2
<1> HIDE DEF m
<1>9. posted' = posted /\ posted[m + 1] = g.type
  BY DEF m
(* A SET_ACK starts the count, with itself. *)
<1>10. ASSUME g.type = "set_ack", window' > 0 PROVE AcksCounted'
  <2>1. w = g.window /\ u = g.window /\ a = Append(answers, "sync") /\ g.window > 0
    BY <1>1, <1>3, <1>10
  <2>2. PICK i \in Nat : i = Len(answers) + 1
    BY <1>2
  <2>3. PICK n \in Nat : n = m + 1
    BY <1>2 DEF m
  <2>4. Len(handled') = n /\ n >= 1 /\ posted[n] = g.type
    BY <1>2, <1>8, <1>9, <2>3 DEF m
  <2>5. SyncAt(a, i) /\ AcksOf(a, i) = 0 /\ Len(a) = i /\ i >= 1
    BY <1>2, <2>1, <2>2, SyncNow
  <2>6. LastSetAck(n)'
    <3>1. \A j \in n + 1 .. Len(handled') : posted'[j] # "set_ack"
      BY <2>4
    <3> QED
      BY <1>9, <1>10, <2>4, <3>1 DEF LastSetAck
  <2>7. CASE due
    <3>1. w = 1 /\ until' = 1 /\ window' = 1
      BY <1>1, <1>6, <2>1, <2>7
    <3>2. answers' = Append(a, "ack")
      BY <1>3, <2>7
    <3>3. i \in 1 .. Len(a) /\ i \in 1 .. Len(a) + 1
      BY <2>5
    <3>4. SyncAt(answers', i)
      BY <1>3, <2>5, <3>2, <3>3, SyncStays DEF Replies
    <3>5. AcksOf(answers', i) = 1 /\ Len(answers') = i + 1
      <4>1. "ack" \in Replies
        BY DEF Replies
      <4>2. AcksOf(Append(a, "ack"), i) = AcksOf(a, i) + Ones("ack" = "ack") /\ Len(Append(a, "ack")) = Len(a) + 1
        BY <1>3, <3>3, <4>1, OneMoreAnswer
      <4>3. Ones("ack" = "ack") = 1
        BY DEF Ones
      <4> QED
        BY <2>5, <3>2, <4>2, <4>3
    <3>6. LastSync(i)' /\ Acks(i)' = 1
      BY <3>4, <3>5 DEF LastSync, SyncAt, Acks, AcksOf
    <3>7. i \in 1 .. Len(answers') /\ n \in 1 .. Len(handled')
      BY <2>5, <2>4, <3>5
    <3>8. Len(handled') - n + 1 = 1 * window' + (window' - until') /\ until' \in 1 .. window'
      BY <2>4, <3>1
    <3> QED
      BY <2>6, <3>6, <3>7, <3>8 DEF AcksCounted
  <2>8. CASE ~due
    <3>1. window' = w /\ until' = w - 1 /\ w > 1
      BY <1>1, <1>6, <2>1, <2>8
    <3>2. answers' = a
      BY <1>3, <2>8
    <3>3. LastSync(i)' /\ Acks(i)' = 0
      BY <2>5, <3>2 DEF LastSync, SyncAt, Acks, AcksOf
    <3>4. i \in 1 .. Len(answers') /\ n \in 1 .. Len(handled')
      BY <2>5, <2>4, <3>2
    <3>5. Len(handled') - n + 1 = 0 * window' + (window' - until') /\ until' \in 1 .. window'
      <4> HIDE DEF w
      <4> QED
        BY <1>6, <2>4, <3>1
    <3> QED
      BY <2>6, <3>3, <3>4, <3>5 DEF AcksCounted
  <2> QED
    BY <2>7, <2>8
(* Any other message counts one more, and is acknowledged when it fills the window. *)
<1>11. ASSUME g.type # "set_ack", window' > 0 PROVE AcksCounted'
  <2>1. w = window /\ u = until /\ window > 0 /\ window' = window
    BY <1>1, <1>11
  <2>2. PICK n \in 1 .. Len(handled), i \in 1 .. Len(answers) :
          /\ LastSetAck(n) /\ LastSync(i) /\ until \in 1 .. window
          /\ Len(handled) - n + 1 = Acks(i) * window + (window - until)
    BY <2>1 DEF ConnInv, AcksCounted
  <2>3. SyncAt(answers, i) /\ Acks(i) = AcksOf(answers, i) /\ AcksOf(answers, i) \in Nat
    <3>1. i \in 1 .. Len(answers) + 1
      BY <1>2
    <3> QED
      BY <1>2, <2>2, <3>1, AcksCount DEF SyncAt, LastSync, Acks, AcksOf
  <2>4. SyncAt(a, i) /\ AcksOf(a, i) = AcksOf(answers, i) /\ i \in 1 .. Len(a)
    <3>1. CASE g.type = "ping"
      <4>1. a = Append(answers, "pong") /\ "pong" \in Replies /\ i \in 1 .. Len(answers) + 1
        BY <1>2, <1>3, <3>1 DEF Replies
      <4>2. AcksOf(a, i) = AcksOf(answers, i) + Ones("pong" = "ack") /\ Len(a) = Len(answers) + 1
        BY <1>2, <4>1, OneMoreAnswer
      <4>3. Ones("pong" = "ack") = 0
        BY DEF Ones
      <4>4. SyncAt(a, i)
        BY <1>2, <2>3, <4>1, SyncStays
      <4> QED
        BY <1>2, <2>3, <4>2, <4>3, <4>4
    <3>2. CASE g.type # "ping"
      BY <1>3, <1>11, <2>3, <3>2
    <3> QED
      BY <3>1, <3>2
  <2>5. LastSetAck(n)'
    <3>1. \A j \in n + 1 .. m + 1 : j = m + 1 \/ j \in n + 1 .. m
      BY <1>2 DEF m
    <3> QED
      BY <1>8, <1>9, <1>11, <2>2, <3>1 DEF LastSetAck, m
  <2>6. m \in Nat /\ n \in 1 .. m /\ n \in 1 .. m + 1
    BY <1>2 DEF m
  <2> DEFINE k == AcksOf(answers, i)
  <2>7. m - n + 1 = k * window + (window - until) /\ k \in Nat /\ until \in 1 .. window
    BY <2>2, <2>3 DEF m
  <2>8. CASE due
    <3>1. until = 1 /\ until' = window
      <4>1. until <= 1 /\ until' = w
        BY <1>1, <2>1, <2>8
      <4> QED
        BY <1>2, <2>1, <2>7, <4>1
    <3>2. answers' = Append(a, "ack") /\ "ack" \in Replies /\ i \in 1 .. Len(a) + 1 /\ Len(a) \in Nat
      BY <1>3, <2>4, <2>8 DEF Replies
    <3>3. AcksOf(answers', i) = AcksOf(a, i) + Ones("ack" = "ack") /\ Len(answers') = Len(a) + 1
      <4>1. a \in Seq(Replies) /\ i \in 1 .. Len(a) + 1
        BY <1>3, <3>2
      <4>2. AcksOf(Append(a, "ack"), i) = AcksOf(a, i) + Ones("ack" = "ack") /\ Len(Append(a, "ack")) = Len(a) + 1
        BY <3>2, <4>1, OneMoreAnswer
      <4> QED
        BY <3>2, <4>2
    <3>4. Ones("ack" = "ack") = 1
      BY DEF Ones
    <3>5. SyncAt(answers', i)
      BY <1>3, <2>4, <3>2, SyncStays
    <3>6. LastSync(i)' /\ Acks(i)' = k + 1
      BY <2>4, <3>3, <3>4, <3>5 DEF LastSync, SyncAt, Acks, AcksOf
    <3>7. i \in 1 .. Len(answers') /\ n \in 1 .. Len(handled')
      BY <1>8, <2>4, <2>6, <3>2, <3>3
    <3>8. Len(handled') - n + 1 = (k + 1) * window' + (window' - until') /\ until' \in 1 .. window'
      <4> HIDE DEF k
      <4>1. (k + 1) * window = k * window + window /\ k * window \in Nat
        BY <1>2, <2>7
      <4> DEFINE p == k * window
                 q == (k + 1) * window
      <4>2. p \in Nat /\ q = p + window /\ m - n + 1 = p + (window - until)
        BY <2>7, <4>1
      <4>3. q = (k + 1) * window'
        BY <2>1
      <4> HIDE DEF p, q
      <4>4. (m + 1) - n + 1 = q + (window - window)
        BY <1>2, <2>6, <3>1, <4>2
      <4>5. Len(handled') - n + 1 = q + (window' - until') /\ until' \in 1 .. window'
        BY <1>2, <1>8, <2>1, <3>1, <4>4
      <4> QED
        BY <4>3, <4>5
    <3> HIDE DEF k
    <3> QED
      BY <2>5, <3>6, <3>7, <3>8 DEF AcksCounted
  <2>9. CASE ~due
    <3>1. until > 1 /\ until' = until - 1
      <4>1. ~(until <= 1) /\ until' = until - 1
        BY <1>1, <2>1, <2>9
      <4> QED
        BY <1>2, <4>1
    <3>2. answers' = a
      BY <1>3, <2>9
    <3>3. LastSync(i)' /\ Acks(i)' = k
      BY <2>4, <3>2 DEF LastSync, SyncAt, Acks, AcksOf
    <3>4. i \in 1 .. Len(answers') /\ n \in 1 .. Len(handled')
      BY <1>8, <2>4, <2>6, <3>2
    <3>5. Len(handled') - n + 1 = k * window' + (window' - until') /\ until' \in 1 .. window'
      <4> DEFINE p == k * window
      <4>1. p \in Nat /\ m - n + 1 = p + (window - until)
        <5> HIDE DEF k
        <5> QED
          BY <1>2, <2>7
      <4>2. p = k * window'
        BY <2>1
      <4> HIDE DEF p, k
      <4>3. (m + 1) - n + 1 = p + (window - (until - 1))
        <5>1. m \in Nat /\ n \in Nat /\ window \in Nat /\ until \in Nat
          BY <1>2, <2>6
        <5> HIDE DEF m
        <5> QED
          BY <4>1, <5>1
      <4>4. until' \in 1 .. window'
        BY <1>2, <2>1, <2>7, <3>1
      <4> QED
        BY <1>8, <2>1, <3>1, <4>2, <4>3, <4>4
    <3> HIDE DEF k
    <3> QED
      BY <2>5, <3>3, <3>4, <3>5 DEF AcksCounted
  <2> QED
    BY <2>8, <2>9
<1>12. AcksCounted'
  <2>1. CASE ~(window' > 0)
    BY <2>1 DEF AcksCounted
  <2> QED
    BY <1>10, <1>11, <2>1
<1> QED
  BY <1>3, <1>7, <1>8, <1>12, <1>5 DEF m

LEMMA MessageKeeps ==
  ASSUME ConnInv, state = "ready", busy,
         UNCHANGED <<server, arrived, busy, state, ws, timer, owner, errors>>,
         buffers' \in Seq([at : Nat, len : Nat]), needed' \in Nat, saved' \in Frame,
         handled' \in Seq(Nat), Len(handled') <= Len(posted), window' \in Nat, until' \in Nat,
         answers' \in Seq(Replies), AcksCounted', InPlace'
  PROVE  ConnInv'
<1>1. UNCHANGED <<sent, posted, arrived, busy, state, ws, timer, owner, errors>>
  BY DEF server
<1>2. TypeOK'
  BY <1>1 DEF ConnInv, TypeOK, Replies
<1>3. SentWell'
  BY <1>1 DEF ConnInv, SentWell
<1>4. NotBefore'
  BY <1>1 DEF ConnInv, NotBefore
<1>5. Losses'
  BY <1>1 DEF ConnInv, Losses, LossReported
<1> QED
  BY <1>2, <1>3, <1>4, <1>5 DEF ConnInv

(* A frame behind the ticket, and the message it belongs to. *)
LEMMA MessageFrame ==
  ASSUME ConnInv, NEW i \in 1 .. Len(sent), i > 3
  PROVE  /\ sent[i] \in Frame /\ sent[i].msg \in DOMAIN posted /\ sent[i].type = posted[sent[i].msg]
         /\ sent[i].msg <= Len(posted) /\ sent[i].type \in Types /\ sent[i].window \in Nat /\ sent[i].size \in Nat
         /\ MiniFrame(sent, i) \/ PayloadFrame(sent, i)
<1>1. sent \in Seq(Frame) /\ posted \in Seq(Types) /\ i \in DOMAIN sent
  BY DEF ConnInv, TypeOK
<1>2. sent[i] \in Frame
  BY <1>1, ElementOfSeq
<1>3. /\ sent[i].msg \in DOMAIN posted /\ sent[i].type = posted[sent[i].msg]
      /\ MiniFrame(sent, i) \/ PayloadFrame(sent, i)
  BY <1>1 DEF ConnInv, SentWell, MessageFrames
<1>4. sent[i].type \in Types /\ sent[i].window \in Nat /\ sent[i].size \in Nat
  BY <1>2 DEF Frame
<1> QED
  BY <1>1, <1>2, <1>3, <1>4

(* Handled in the abstract stream: the next message, with its answer. *)
LEMMA HandlesNext ==
  ASSUME ConnInv, NEW m, NEW t, m = Len(handled) + 1, m <= Len(posted), t = posted[m], posted' = posted,
         handled' = Append(handled, Len(handled) + 1),
         answers' \in {answers \o Answer(t), answers \o Answer(t) \o <<"ack">>}
  PROVE  Stream!Handle
<1>1. Stream!Answer(t) = Answer(t)
  BY DEF Stream!Answer, Answer
<1> QED
  BY <1>1 DEF Stream!Handle

LEMMA MiniHeaderStep ==
  ASSUME ConnInv, NEW i \in DOMAIN sent, MiniHeader(sent[i])
  PROVE  ConnInv' /\ (Stream!Handle \/ UNCHANGED <<posted, handled, answers>>)
<1> DEFINE f == sent[i]
<1>1. /\ state = "ready" /\ saved = NoFrame /\ Take("mini", f)
      /\ UNCHANGED <<server, arrived, busy, state, ws, timer, owner, errors>>
      /\ \/ f.size = 0 /\ ProcessMessage(f) /\ needed' = MiniLen /\ saved' = saved
         \/ f.size > 0 /\ needed' = f.size /\ saved' = f /\ UNCHANGED ack
  BY DEF MiniHeader
<1>2. Live /\ sent' = sent /\ posted' = posted /\ state' = state /\ arrived' = arrived
  BY <1>1 DEF Live, server
<1>3. /\ busy /\ i \in 1 .. Len(sent) /\ IsNext(i) /\ buffers' \in Seq([at : Nat, len : Nat])
      /\ OneStretch' /\ Place' = StartsAt(sent, i + 1) /\ f.kind = "mini"
  BY <1>1, <1>2, CutsNext
<1>4. i > 3 /\ ~Announces(sent[i - 1]) /\ Len(handled) = sent[i - 1].msg
  <2>1. ~Announces(NoFrame)
    BY DEF Announces, NoFrame
  <2> QED
    BY <1>1, <1>3, <2>1 DEF IsNext
<1>5. /\ f \in Frame /\ f.msg \in DOMAIN posted /\ f.type = posted[f.msg] /\ f.msg <= Len(posted)
      /\ f.type \in Types /\ f.window \in Nat /\ f.size \in Nat
      /\ MiniFrame(sent, i) \/ PayloadFrame(sent, i)
  BY <1>3, <1>4, MessageFrame
<1>6. f.msg = Len(handled) + 1
  BY <1>3, <1>4, <1>5 DEF MiniFrame, PayloadFrame
<1>7. /\ MiniLen \in Nat /\ NoFrame \in Frame /\ Len(handled) \in Nat /\ Len(posted) \in Nat
      /\ Len(sent) \in Nat /\ busy'
  <2>1. NoFrame \in Frame
    BY DEF NoFrame, Frame, Kinds, Types
  <2>2. Len(handled) \in Nat /\ Len(posted) \in Nat /\ Len(sent) \in Nat
    BY DEF ConnInv, TypeOK
  <2> QED
    BY <1>1, <1>3, <2>1, <2>2, ConnAssumption
<1>8. i + 1 \in 1 .. Len(sent) + 1 /\ i + 1 > 3 /\ (i + 1) - 1 = i
  BY <1>3, <1>4, <1>7
<1>9. ASSUME IsNext(i + 1)' PROVE InPlace'
  BY <1>2, <1>3, <1>7, <1>8, <1>9 DEF InPlace
<1>10. CASE f.size = 0 /\ ProcessMessage(f) /\ needed' = MiniLen /\ saved' = saved
  <2>1. /\ handled' \in Seq(Nat) /\ Len(handled') = Len(handled) + 1
        /\ handled' = Append(handled, Len(handled) + 1)
        /\ answers' \in {answers \o Answer(f.type), answers \o Answer(f.type) \o <<"ack">>}
        /\ window' \in Nat /\ until' \in Nat /\ answers' \in Seq(Replies) /\ AcksCounted'
    BY <1>2, <1>5, <1>6, <1>10, ProcessesStep
  <2>2. ~Announces(f)
    BY <1>10 DEF Announces
  <2>3. IsNext(i + 1)'
    BY <1>1, <1>2, <1>6, <1>8, <1>10, <2>1, <2>2 DEF IsNext
  <2>4. InPlace'
    BY <1>9, <2>3
  <2>5. Len(handled') <= Len(posted)
    BY <1>5, <1>6, <2>1
  <2>6. saved' \in Frame /\ needed' \in Nat
    BY <1>1, <1>7, <1>10
  <2>7. Stream!Handle
    BY <1>2, <1>5, <1>6, <2>1, HandlesNext
  <2> QED
    BY <1>1, <1>3, <2>1, <2>4, <2>5, <2>6, <2>7, MessageKeeps
<1>11. CASE f.size > 0 /\ needed' = f.size /\ saved' = f /\ UNCHANGED ack
  <2>1. UNCHANGED <<window, until, handled, answers>>
    BY <1>11 DEF ack
  <2>2. Announces(f)
    BY <1>3, <1>11 DEF Announces
  <2>3. IsNext(i + 1)'
    BY <1>1, <1>2, <1>6, <1>8, <1>11, <2>1, <2>2 DEF IsNext
  <2>4. InPlace'
    BY <1>9, <2>3
  <2>5. AcksCounted'
    BY <1>2, <2>1 DEF ConnInv, AcksCounted, LastSetAck, LastSync, Acks
  <2>6. /\ saved' \in Frame /\ needed' \in Nat /\ handled' \in Seq(Nat) /\ Len(handled') <= Len(posted)
        /\ window' \in Nat /\ until' \in Nat /\ answers' \in Seq(Replies)
    BY <1>5, <1>11, <2>1 DEF ConnInv, TypeOK, NotBefore, Replies
  <2> QED
    BY <1>1, <1>2, <1>3, <2>1, <2>4, <2>5, <2>6, MessageKeeps
<1> QED
  BY <1>1, <1>10, <1>11

(* What the payload of the announced message needs to know of its header. *)
LEMMA PayloadFacts ==
  ASSUME ConnInv, NEW i \in DOMAIN sent, Payload(sent[i])
  PROVE  /\ busy /\ i \in 1 .. Len(sent) /\ i > 3 /\ buffers' \in Seq([at : Nat, len : Nat])
         /\ OneStretch' /\ Place' = StartsAt(sent, i + 1) /\ ~Announces(sent[i])
         /\ sent[i].msg = Len(handled) + 1 /\ saved.msg = Len(handled) + 1
         /\ sent[i].msg \in DOMAIN posted /\ sent[i].msg <= Len(posted) /\ saved.type = posted[sent[i].msg]
         /\ saved \in Frame /\ saved.type \in Types /\ sent[i].window \in Nat
<1> DEFINE f == sent[i]
<1>1. /\ state = "ready" /\ saved # NoFrame /\ Take("payload", f) /\ arrived' = arrived
  BY DEF Payload
<1>2. Live
  BY <1>1 DEF Live
<1>3. /\ busy /\ i \in 1 .. Len(sent) /\ IsNext(i) /\ buffers' \in Seq([at : Nat, len : Nat])
      /\ OneStretch' /\ Place' = StartsAt(sent, i + 1) /\ f.kind = "payload"
  BY <1>1, <1>2, CutsNext
<1>4. i > 3 /\ saved = sent[i - 1] /\ Announces(saved) /\ Len(handled) + 1 = saved.msg
  BY <1>1, <1>3 DEF IsNext
<1>5. /\ f \in Frame /\ f.msg \in DOMAIN posted /\ f.type = posted[f.msg] /\ f.msg <= Len(posted)
      /\ f.window \in Nat
      /\ MiniFrame(sent, i) \/ PayloadFrame(sent, i)
  BY <1>3, <1>4, MessageFrame
<1>6. f.msg = saved.msg
  BY <1>3, <1>4, <1>5 DEF MiniFrame, PayloadFrame
<1>7. Len(sent) \in Nat /\ DOMAIN sent = 1 .. Len(sent)
  BY DEF ConnInv, TypeOK
<1>8. i - 1 \in 1 .. Len(sent) /\ i - 1 >= 3
  BY <1>3, <1>4, <1>7
<1>9. i - 1 # 3
  BY <1>4, <1>7, <1>8 DEF ConnInv, SentWell, LinkFrames, Announces
<1>10. i - 1 > 3
  BY <1>3, <1>8, <1>9
<1>11. saved.type = posted[saved.msg] /\ saved \in Frame /\ saved.type \in Types
  BY <1>4, <1>8, <1>10, MessageFrame
<1>12. ~Announces(f)
  BY <1>3 DEF Announces
<1> QED
  BY <1>3, <1>4, <1>5, <1>6, <1>11, <1>12

LEMMA PayloadStep ==
  ASSUME ConnInv, NEW i \in DOMAIN sent, Payload(sent[i])
  PROVE  ConnInv' /\ Stream!Handle
<1> DEFINE f == sent[i]
           g == [saved EXCEPT !.window = f.window]
<1>1. /\ state = "ready" /\ ProcessMessage(g) /\ needed' = MiniLen /\ saved' = NoFrame
      /\ UNCHANGED <<server, arrived, busy, state, ws, timer, owner, errors>>
  BY DEF Payload
<1>2. sent' = sent /\ posted' = posted /\ state' = state /\ arrived' = arrived
  BY <1>1 DEF server
<1>3. /\ busy /\ i \in 1 .. Len(sent) /\ i > 3 /\ buffers' \in Seq([at : Nat, len : Nat])
      /\ OneStretch' /\ Place' = StartsAt(sent, i + 1) /\ ~Announces(f)
      /\ f.msg = Len(handled) + 1 /\ saved.msg = Len(handled) + 1
      /\ f.msg \in DOMAIN posted /\ f.msg <= Len(posted) /\ saved.type = posted[f.msg]
      /\ saved \in Frame /\ saved.type \in Types /\ f.window \in Nat
  BY PayloadFacts
<1>4. g.type = saved.type /\ g.msg = saved.msg /\ g.window = f.window
  BY <1>3 DEF Frame
<1> HIDE DEF g
<1>5. /\ handled' \in Seq(Nat) /\ Len(handled') = Len(handled) + 1 /\ handled' = Append(handled, Len(handled) + 1)
      /\ answers' \in {answers \o Answer(g.type), answers \o Answer(g.type) \o <<"ack">>}
      /\ window' \in Nat /\ until' \in Nat /\ answers' \in Seq(Replies) /\ AcksCounted'
  BY <1>1, <1>2, <1>3, <1>4, ProcessesStep
<1>6. /\ MiniLen \in Nat /\ NoFrame \in Frame /\ Len(sent) \in Nat /\ busy'
  BY <1>1, <1>3, ConnAssumption DEF NoFrame, Frame, Kinds, Types, ConnInv, TypeOK
<1>7. i + 1 \in 1 .. Len(sent) + 1 /\ i + 1 > 3 /\ (i + 1) - 1 = i
  BY <1>3, <1>6
<1>8. IsNext(i + 1)'
  BY <1>1, <1>2, <1>3, <1>5, <1>7 DEF IsNext
<1>9. InPlace'
  BY <1>2, <1>3, <1>6, <1>7, <1>8 DEF InPlace
<1>10. Len(handled') <= Len(posted) /\ saved' \in Frame /\ needed' \in Nat
  BY <1>1, <1>3, <1>5, <1>6
<1>11. Stream!Handle
  BY <1>2, <1>3, <1>4, <1>5, HandlesNext
<1> QED
  BY <1>1, <1>3, <1>5, <1>9, <1>10, <1>11, MessageKeeps

-----------------------------------------------------------------------------
(* Timer and end of the connection *)

LEMMA OpenStep == ASSUME ConnInv, Open PROVE ConnInv'
<1>1. /\ ws = "connecting" /\ ws' = "open" /\ state' = "start" /\ needed' = HeaderLen
      /\ UNCHANGED <<server, arrived, buffers, saved, busy, timer, owner, ack, errors>>
      /\ UNCHANGED <<sent, posted, arrived, buffers, saved, busy, timer, owner,
                     window, until, handled, answers, errors>>
  BY DEF Open, server, ack
<1>2. sent = <<>> /\ arrived = 0 /\ buffers = <<>> /\ ~busy /\ saved = NoFrame /\ handled = <<>> /\ HeaderLen \in Nat
  BY <1>1, ConnAssumption DEF ConnInv, NotBefore
<1>3. TypeOK'
  BY <1>1, <1>2 DEF ConnInv, TypeOK
<1>4. SentWell'
  BY <1>1 DEF ConnInv, SentWell
<1>5. InPlace'
  <2>1. StartsAt(sent', 1) = 0 /\ Place' = 0 /\ 1 \in 1 .. Len(sent') + 1
    BY <1>1, <1>2 DEF StartsAt, EndOf, Place
  <2>2. IsNext(1)'
    BY <1>1 DEF IsNext
  <2>3. OneStretch'
    BY <1>1, <1>2 DEF OneStretch
  <2> QED
    BY <1>1, <1>2, <2>1, <2>2, <2>3 DEF InPlace
<1>6. NotBefore'
  BY <1>1, <1>2 DEF ConnInv, NotBefore
<1>7. AcksCounted'
  BY <1>1 DEF ConnInv, AcksCounted, LastSetAck, LastSync, Acks
<1>8. Losses'
  BY <1>1 DEF ConnInv, Losses, LossReported
<1> QED
  BY <1>3, <1>4, <1>5, <1>6, <1>7, <1>8 DEF ConnInv

(* The session, its socket, its timer and the errors change, nothing else. *)
LEMMA EndKeeps ==
  ASSUME ConnInv, ~busy, UNCHANGED <<server, arrived, wire, owner, ack>>,
         state' \in {state, "closing"}, ws' \in {"connecting", "open", "closing", "aborting", "closed"},
         ws' = "connecting" => ws = "connecting" /\ state' = state,
         timer' \in BOOLEAN, errors' \in Nat, Losses'
  PROVE  ConnInv'
<1>1. UNCHANGED <<sent, posted, arrived, buffers, needed, saved, busy, owner, window, until, handled, answers>>
  BY DEF server, wire, ack
<1>2. TypeOK'
  BY <1>1 DEF ConnInv, TypeOK
<1>3. SentWell'
  BY <1>1 DEF ConnInv, SentWell
<1>4. InPlace'
  <2>1. CASE state' = state
    <3>1. \A k \in Nat : IsNext(k)' <=> IsNext(k)
      BY <1>1, <2>1 DEF IsNext
    <3>2. Place' = Place /\ (OneStretch' <=> OneStretch)
      BY <1>1 DEF Place, OneStretch
    <3>3. \A k \in 1 .. Len(sent) + 1 : k \in Nat
      OBVIOUS
    <3> QED
      BY <1>1, <2>1, <3>1, <3>2, <3>3 DEF ConnInv, InPlace, Live
  <2>2. CASE state' = "closing"
    BY <2>2 DEF InPlace, Live
  <2> QED
    BY <2>1, <2>2
<1>5. NotBefore'
  BY <1>1 DEF ConnInv, NotBefore
<1>6. AcksCounted'
  BY <1>1 DEF ConnInv, AcksCounted, LastSetAck, LastSync, Acks
<1> QED
  BY <1>2, <1>3, <1>4, <1>5, <1>6 DEF ConnInv

LEMMA Ends ==
  ASSUME ConnInv
  PROVE  /\ ws \in {"connecting", "open", "closing", "aborting", "closed"} /\ timer \in BOOLEAN /\ errors \in Nat
         /\ ws = "connecting" => state = "connecting"
         /\ Closing \in {"closing", "aborting", "closed"}
  BY DEF ConnInv, TypeOK, NotBefore, Closing

LEMMA TimeoutStep == ASSUME ConnInv, Timeout PROVE ConnInv'
<1>1. /\ timer /\ ~busy /\ errors' = errors + 1 /\ timer' = FALSE
      /\ UNCHANGED <<server, arrived, wire, owner, ack>> /\ owner' = owner
      /\ owner = "page" => state' = "closing" /\ ws' = Closing
      /\ owner # "page" => state' = state /\ ws' = ws
  BY DEF Timeout
<1>2. Losses'
  BY <1>1, Ends DEF ConnInv, Losses, LossReported
<1>3. state' \in {state, "closing"} /\ errors' \in Nat
  BY <1>1, Ends
<1>4. timer' \in BOOLEAN
  BY <1>1
<1>5. ws' \in {"connecting", "open", "closing", "aborting", "closed"} /\ (ws' = "connecting" => ws = "connecting" /\ state' = state)
  BY <1>1, Ends
<1> QED
  BY <1>1, <1>2, <1>3, <1>5, <1>4, EndKeeps

LEMMA CloseStep == ASSUME ConnInv, NEW failed \in BOOLEAN, Close(failed) PROVE ConnInv'
<1> DEFINE told == failed \/ (owner = "page" /\ state \notin {"closing", "error"})
<1>1. /\ ~busy /\ ws' = "closed" /\ UNCHANGED <<server, arrived, wire, owner, ack>> /\ owner' = owner
      /\ errors' = (IF told THEN errors + 1 ELSE errors)
      /\ told /\ owner = "page" => state' = "closing" /\ timer' = FALSE
  BY DEF Close
<1>2. ~(told /\ owner = "page") => state' = state /\ timer' = timer
  BY DEF Close
<1>3. Losses'
  <2>1. CASE told /\ owner = "page"
    BY <1>1, <2>1, Ends DEF Losses, LossReported
  <2>2. CASE ~(told /\ owner = "page")
    <3>1. errors' >= errors /\ errors' \in Nat
      BY <1>1, Ends
    <3>2. owner = "page" => state \in {"closing", "error"} /\ errors > 0
      BY <2>2 DEF ConnInv, Losses
    <3> QED
      BY <1>1, <1>2, <2>2, <3>1, <3>2, Ends DEF ConnInv, Losses, LossReported
  <2> QED
    BY <2>1, <2>2
<1>4. state' \in {state, "closing"} /\ timer' \in BOOLEAN
  <2>1. CASE told /\ owner = "page"
    BY <1>1, <2>1
  <2>2. CASE ~(told /\ owner = "page")
    BY <1>2, <2>2, Ends
  <2> QED
    BY <2>1, <2>2
<1>5. errors' \in Nat
  BY <1>1, Ends
<1> QED
  BY <1>1, <1>3, <1>4, <1>5, EndKeeps

LEMMA ParentStopsStep == ASSUME ConnInv, ParentStops PROVE ConnInv'
<1>1. /\ owner = "none" /\ ~busy /\ ws' = Closing /\ timer' = FALSE /\ state' = state /\ errors' = errors
      /\ UNCHANGED <<server, arrived, wire, owner, ack>> /\ owner' = owner
  BY DEF ParentStops
<1>2. Losses'
  BY <1>1, Ends DEF ConnInv, Losses, LossReported
<1> QED
  BY <1>1, <1>2, Ends, EndKeeps

-----------------------------------------------------------------------------
(* The theorems of the connection *)

LEMMA ConnStep == ConnInv /\ [Next]_vars => ConnInv'
<1> SUFFICES ASSUME ConnInv, [Next]_vars PROVE ConnInv'
  OBVIOUS
<1>1. CASE Next
  <2>1. ASSUME NEW magic \in BOOLEAN, NEW z \in ReplyLens, NEW accepted \in BOOLEAN,
               ServerLinks(magic, z, accepted)
        PROVE  ConnInv'
    BY <2>1, LinksStep
  <2>2. ASSUME NEW accepted \in BOOLEAN, ServerAuthorizes(accepted) PROVE ConnInv'
    BY <2>2, AuthorizesStep
  <2>3. ASSUME NEW type \in Types, NEW len \in PayloadLens, NEW w \in Windows, ServerPosts(type, len, w)
        PROVE  ConnInv'
    BY <2>3, PostsStep
  <2>4. ASSUME NEW b \in 1 .. Written - arrived, Inbound(b) PROVE ConnInv'
    BY <2>4, InboundStep
  <2>5. CASE HandleFrame
    <3>1. ASSUME NEW i \in DOMAIN sent, LinkHeader(sent[i]) PROVE ConnInv'
      BY <3>1, LinkHeaderStep
    <3>2. ASSUME NEW i \in DOMAIN sent, LinkReply(sent[i]) PROVE ConnInv'
      BY <3>2, LinkReplyStep
    <3>3. ASSUME NEW i \in DOMAIN sent, AuthReply(sent[i]) PROVE ConnInv'
      BY <3>3, AuthReplyStep
    <3>4. ASSUME NEW i \in DOMAIN sent, MiniHeader(sent[i]) PROVE ConnInv'
      BY <3>4, MiniHeaderStep
    <3>5. ASSUME NEW i \in DOMAIN sent, Payload(sent[i]) PROVE ConnInv'
      BY <3>5, PayloadStep
    <3> QED
      BY <2>5, <3>1, <3>2, <3>3, <3>4, <3>5, DiscardStep, ReturnStep DEF HandleFrame
  <2>6. ASSUME NEW failed \in BOOLEAN, Close(failed) PROVE ConnInv'
    BY <2>6, CloseStep
  <2> QED
    BY <1>1, <2>1, <2>2, <2>3, <2>4, <2>5, <2>6, OpenStep, TimeoutStep, ParentStopsStep DEF Next
<1>2. CASE UNCHANGED vars
  <2>1. UNCHANGED <<sent, posted, arrived, buffers, needed, saved, busy, state, ws, timer, owner,
                    window, until, handled, answers, errors>>
    BY <1>2 DEF vars, server, wire, ack
  <2>2. TypeOK' /\ SentWell' /\ NotBefore' /\ Losses'
    BY <2>1 DEF ConnInv, TypeOK, SentWell, NotBefore, Losses, LossReported
  <2>3. AcksCounted'
    BY <2>1 DEF ConnInv, AcksCounted, LastSetAck, LastSync, Acks
  <2>4. InPlace'
    <3>1. \A k \in Nat : IsNext(k)' <=> IsNext(k)
      BY <2>1 DEF IsNext
    <3>2. Place' = Place /\ (OneStretch' <=> OneStretch)
      BY <2>1 DEF Place, OneStretch
    <3>3. \A k \in 1 .. Len(sent) + 1 : k \in Nat
      OBVIOUS
    <3> QED
      BY <2>1, <3>1, <3>2, <3>3 DEF ConnInv, InPlace, Live
  <2> QED
    BY <2>2, <2>3, <2>4 DEF ConnInv
<1> QED
  BY <1>1, <1>2

LEMMA ConnAlways == Spec => []ConnInv
  BY ConnStart, ConnStep, PTL DEF Spec

(* Every reachable state of a connection is of its types: the reader never   *)
(* asks for a negative number of bytes and never runs past what it was given.  *)
THEOREM ConnTyped == Spec => []TypeOK
<1>1. ConnInv => TypeOK
  BY DEF ConnInv
<1> QED
  BY <1>1, ConnAlways, PTL

(* Chunks are cut where the server's frames are, and as soon as they can be, *)
(* whatever the sizes, the windows and the number of messages.               *)
THEOREM FramesAreCut == Spec => []Framing
<1>1. ConnInv => Framing
  <2> SUFFICES ASSUME ConnInv PROVE Framing
    OBVIOUS
  <2>1. Aligned
    <3> SUFFICES ASSUME busy, Enough, Live, needed > 0
                 PROVE  \E k \in DOMAIN sent :
                          sent[k].kind = Expected /\ sent[k].at = Head(buffers).at /\ sent[k].len = needed
      BY DEF Aligned
    <3>1. /\ sent \in Seq(Frame) /\ Len(sent) \in Nat /\ DOMAIN sent = 1 .. Len(sent) /\ Abut(sent)
          /\ buffers \in Seq([at : Nat, len : Nat]) /\ buffers # <<>> /\ arrived \in Nat /\ needed \in Nat
          /\ EndOf(sent) \in Nat /\ arrived <= EndOf(sent)
      BY EndIsNat DEF ConnInv, TypeOK, SentWell, Enough, NotBefore
    <3>2. PICK k \in 1 .. Len(sent) + 1 : StartsAt(sent, k) = Place /\ IsNext(k)
      BY DEF ConnInv, InPlace
    <3>3. /\ Head(buffers) = buffers[1] /\ Place = buffers[1].at /\ buffers[1].at \in Nat
          /\ buffers[1].len \in Nat /\ buffers[1].len > 0 /\ buffers[1].at + buffers[1].len = arrived
      BY <3>1, Stretches DEF Place, ConnInv, InPlace, OneStretch
    (* Bytes have come beyond the place, so a frame begins there. *)
    <3>4. k \in 1 .. Len(sent)
      <4>1. CASE k = Len(sent) + 1
        <5>1. StartsAt(sent, k) = EndOf(sent)
          BY <3>1, <4>1 DEF StartsAt
        <5> QED
          BY <3>1, <3>2, <3>3, <5>1
      <4> DEFINE m == Len(sent)
      <4>2. m \in Nat /\ k \in 1 .. m + 1
        BY <3>1
      <4>3. k \in 1 .. m \/ k = m + 1
        <5> HIDE DEF m
        <5> QED
          BY <4>2
      <4> QED
        BY <4>1, <4>3
    <3>5. sent[k].at = Head(buffers).at
      BY <3>1, <3>2, <3>3, <3>4 DEF StartsAt
    <3>6. sent[k].kind = Expected /\ sent[k].len = needed
      <4>1. LinkFrames(sent) /\ (k > 3 => MiniFrame(sent, k) \/ PayloadFrame(sent, k))
        BY <3>4, MessageFrame DEF ConnInv, SentWell
      <4>2. state \in {"start", "link", "ticket"} => saved = NoFrame
        BY DEF ConnInv, NotBefore
      <4>3. ~Announces(NoFrame)
        BY DEF Announces, NoFrame
      <4>4. CASE k <= 3
        BY <3>1, <3>2, <3>4, <4>1, <4>2, <4>4 DEF LinkFrames, IsNext, Expected
      <4>5. CASE k > 3
        BY <3>2, <4>1, <4>3, <4>5 DEF MiniFrame, PayloadFrame, IsNext, Expected
      <4> QED
        BY <3>4, <4>4, <4>5
    <3> QED
      BY <3>1, <3>4, <3>5, <3>6
  <2>2. NothingWaits
    <3> SUFFICES ASSUME ~busy, Live, needed > 0, buffers # <<>>
                 PROVE  Len(buffers) = 1 /\ buffers[1].len < needed
      BY DEF NothingWaits
    <3> DEFINE m == Len(buffers)
    <3>1. m \in Nat /\ m <= 1 /\ m # 0 /\ buffers[1].len < needed
      BY EmptySeq DEF ConnInv, TypeOK, InPlace, OneStretch
    <3> HIDE DEF m
    <3>2. m = 1
      BY <3>1
    <3> QED
      BY <3>1, <3>2 DEF m
  <2> QED
    BY <2>1, <2>2 DEF Framing
<1> QED
  BY <1>1, ConnAlways, PTL

(* Whole windows are what the acknowledgements count. *)
LEMMA Quotient ==
  ASSUME NEW w \in Nat, w > 0, NEW k \in Nat, NEW r \in Nat, r < w
  PROVE  (k * w + r) \div w = k
<1> DEFINE x == k * w + r
           q == x \div w
<1>1. k * w \in Nat
  OBVIOUS
<1>2. x \in Nat
  BY <1>1
<1>3. q \in Nat /\ x = w * q + (x % w) /\ x % w \in 0 .. w - 1
  <2> HIDE DEF x
  <2> QED
    BY <1>2
<1>4. PICK s \in 0 .. w - 1 : x = w * q + s
  BY <1>3
<1> HIDE DEF q, x
<1>5. w * q + s = w * k + r
  BY <1>4 DEF x
<1>6. w * (q - k) = r - s
  BY <1>3, <1>5
<1>7. q = k
  BY <1>3, <1>6
<1> QED
  BY <1>7 DEF q, x

(* A server that waits after a window is never kept waiting: since the last  *)
(* SET_ACK there is one acknowledgement for every window, for every window.  *)
THEOREM WindowsAreAcknowledged == Spec => []AcksDue
<1>1. ConnInv => AcksDue
  <2> SUFFICES ASSUME ConnInv, window > 0
               PROVE  \E n \in 1 .. Len(handled), i \in 1 .. Len(answers) :
                        /\ posted[n] = "set_ack" /\ \A m \in n + 1 .. Len(handled) : posted[m] # "set_ack"
                        /\ answers[i] = "sync" /\ \A j \in i + 1 .. Len(answers) : answers[j] # "sync"
                        /\ Acks(i) = (Len(handled) - n + 1) \div window
    BY DEF AcksDue
  <2>1. PICK n \in 1 .. Len(handled), i \in 1 .. Len(answers) :
          /\ LastSetAck(n) /\ LastSync(i) /\ until \in 1 .. window
          /\ Len(handled) - n + 1 = Acks(i) * window + (window - until)
    BY DEF ConnInv, AcksCounted
  <2>2. Acks(i) \in Nat
    <3>1. answers \in Seq(Replies) /\ i \in 1 .. Len(answers) + 1
      BY DEF ConnInv, TypeOK, Replies
    <3> QED
      BY <3>1, AcksCount DEF Acks, AcksOf
  <2>3. window \in Nat /\ window - until \in Nat /\ window - until < window
    BY <2>1 DEF ConnInv, TypeOK
  <2>4. (Acks(i) * window + (window - until)) \div window = Acks(i)
    <3> DEFINE k == Acks(i)
               r == window - until
    <3>1. k \in Nat /\ r \in Nat /\ r < window
      BY <2>2, <2>3
    <3> HIDE DEF k, r
    <3>2. (k * window + r) \div window = k
      BY <2>3, <3>1, Quotient
    <3> QED
      BY <3>2 DEF k, r
  <2> QED
    BY <2>1, <2>4 DEF LastSetAck, LastSync
<1> QED
  BY <1>1, ConnAlways, PTL

(* However timer, error and close events follow each other, a connection that *)
(* is lost is told to the page, and what the page was told is not told again. *)
THEOREM LossIsToldOnce == Spec => LossTold
<1>1. ConnInv /\ ConnInv' /\ [Next]_vars => [LossReported' /\ ToldOnce]_vars
  <2> SUFFICES ASSUME ConnInv, ConnInv', Next PROVE LossReported' /\ ToldOnce
    OBVIOUS
  <2>1. LossReported'
    BY DEF ConnInv, Losses
  <2> SUFFICES ASSUME errors' > errors
               PROVE  (state = "closing" => ws = "aborting") /\ (state = "ready" => ws' = "closed")
    BY <2>1 DEF ToldOnce
  <2>2. errors \in Nat /\ errors' # errors
    BY DEF ConnInv, TypeOK
  <2>3. CASE HandleFrame
    <3>1. state \in {"start", "link", "ticket"} \/ errors' = errors
      BY <2>3 DEF HandleFrame, LinkHeader, LinkReply, AuthReply, MiniHeader, Payload, Discard, Return
    <3> QED
      BY <2>2, <3>1
  <2>4. CASE Timeout
    BY <2>4 DEF Timeout, ConnInv, Losses
  <2>5. CASE \E failed \in BOOLEAN : Close(failed)
    <3>1. PICK failed \in BOOLEAN : Close(failed)
      BY <2>5
    <3>2. ws' = "closed" /\ ws # "closed" /\ (failed => ws # "closing")
      BY <3>1 DEF Close
    <3>3. state = "closing" => failed
      BY <2>2, <3>1 DEF Close
    <3>4. state = "closing" => ws \in {"closing", "aborting", "closed"}
      BY DEF ConnInv, Losses
    <3> QED
      BY <3>2, <3>3, <3>4
  <2>6. CASE ~HandleFrame /\ ~Timeout /\ ~(\E failed \in BOOLEAN : Close(failed))
    BY <2>2, <2>6 DEF Next, ServerLinks, ServerAuthorizes, ServerPosts, Open, Inbound, ParentStops
  <2> QED
    BY <2>3, <2>4, <2>5, <2>6
<1> QED
  BY <1>1, ConnStart, ConnStep, PTL DEF Spec, LossTold

(* A connection implements the stream of messages: what the channel handles  *)
(* are the server's messages, one by one, in order, each once, and what it   *)
(* answers are its requests, however the bytes were cut.                     *)
THEOREM StreamIsKept == Spec => InOrder
<1>1. Init => Stream!Init
  BY DEF Init, Stream!Init
<1>2. ConnInv /\ [Next]_vars => [Stream!Next]_(Stream!vars)
  <2> SUFFICES ASSUME ConnInv, [Next]_vars
               PROVE  Stream!Next \/ UNCHANGED <<posted, handled, answers>>
    BY DEF Stream!vars
  <2>1. CASE UNCHANGED vars
    BY <2>1 DEF vars, server, ack
  <2>2. ASSUME NEW type \in Types, NEW len \in PayloadLens, NEW w \in Windows, ServerPosts(type, len, w)
        PROVE  Stream!Next
    <3>1. posted' = Append(posted, type) /\ UNCHANGED <<handled, answers>>
      BY <2>2 DEF ServerPosts, ack
    <3>2. Stream!Post
      BY <3>1 DEF Stream!Post
    <3> QED
      BY <3>2 DEF Stream!Next
  <2>3. ASSUME NEW i \in DOMAIN sent, MiniHeader(sent[i])
        PROVE  Stream!Next \/ UNCHANGED <<posted, handled, answers>>
    BY <2>3, MiniHeaderStep DEF Stream!Next
  <2>4. ASSUME NEW i \in DOMAIN sent, Payload(sent[i]) PROVE Stream!Next
    BY <2>4, PayloadStep DEF Stream!Next
  <2>5. CASE HandleFrame
    <3>1. \/ UNCHANGED <<posted, handled, answers>>
          \/ \E i \in DOMAIN sent : MiniHeader(sent[i]) \/ Payload(sent[i])
      BY <2>5 DEF HandleFrame, LinkHeader, LinkReply, AuthReply, Discard, Return, server, ack
    <3> QED
      BY <2>3, <2>4, <3>1
  <2>6. ASSUME Next, ~HandleFrame
        PROVE  \/ UNCHANGED <<posted, handled, answers>>
               \/ \E type \in Types, len \in PayloadLens, w \in Windows : ServerPosts(type, len, w)
    BY <2>6 DEF Next, ServerLinks, ServerAuthorizes, Open, Inbound, Timeout, Close, ParentStops, server, ack
  <2> QED
    BY <2>1, <2>2, <2>5, <2>6
<1> QED
  BY <1>1, <1>2, ConnStart, ConnStep, PTL DEF Spec, InOrder, Stream!Spec

-----------------------------------------------------------------------------
(* The agent's line *)

MsgKinds == {"caps", "reply", "monitors", "start", "data", "status"}
Msgs == [kind : MsgKinds, about : Files \cup {"agent", "window"}, at : Nat]
Chunk == {c \in [msg : Msgs, part : Nat] : c.part \in 1 .. Parts(c.msg)}

(* Everything the present agent was sent or is to be sent. *)
Told == heard \o queue

(* Whole messages, part by part. *)
Whole(s) ==
  \A i \in DOMAIN s :
    /\ s[i].part > 1 => i > 1 /\ s[i - 1] = [s[i] EXCEPT !.part = @ - 1]
    /\ s[i].part < Parts(s[i].msg) => i < Len(s) /\ s[i + 1] = [s[i] EXCEPT !.part = @ + 1]

(* The start of a transfer, its pieces and how many there are. *)
Starts(c, f) == c.msg = MessageOf("start", f, 0)
Tells(s, f) == \E i \in DOMAIN s : Starts(s[i], f)
StartsOnce(s, f) == \A i, j \in DOMAIN s : Starts(s[i], f) /\ Starts(s[j], f) => i = j
Before(s, f, i) == {j \in Pieces(s, f) : j < i}
Ordered(s, f) == \A i \in Pieces(s, f) : s[i].msg.at = Cardinality(Before(s, f, i))
Count(s, f) == Cardinality(Pieces(s, f))

(* Messages that are neither starts nor data nor sizes. *)
Plain(s) ==
  /\ s \in Seq(Chunk) /\ Whole(s)
  /\ \A i \in DOMAIN s : s[i].msg.kind \in {"caps", "reply", "status"}

LEMMA ChunkFacts ==
  ASSUME NEW s \in Seq(Chunk)
  PROVE  /\ Len(s) \in Nat /\ DOMAIN s = 1 .. Len(s)
         /\ \A i \in DOMAIN s : /\ s[i] \in Chunk /\ s[i].msg \in Msgs /\ s[i].part \in Nat
                                /\ s[i].part \in 1 .. Parts(s[i].msg) /\ s[i].msg.at \in Nat
<1>1. Len(s) \in Nat /\ DOMAIN s = 1 .. Len(s)
  OBVIOUS
<1>2. \A i \in DOMAIN s : s[i] \in Chunk
  BY <1>1, ElementOfSeq
<1>3. \A c \in Chunk : c.msg \in Msgs /\ c.part \in Nat /\ c.part \in 1 .. Parts(c.msg) /\ c.msg.at \in Nat
  BY DEF Chunk, Msgs
<1> QED
  BY <1>1, <1>2, <1>3

LEMMA PartsPositive ==
  ASSUME NEW m \in Msgs
  PROVE  Parts(m) \in Nat /\ Parts(m) > 0 /\ (m.kind # "data" => Parts(m) = 1)
<1>1. DataParts \in Nat /\ DataParts > 0
  BY AgentAssumption
<1> QED
  BY <1>1 DEF Parts

LEMMA CutIsWhole ==
  ASSUME NEW m \in Msgs
  PROVE  /\ Cut(m) \in Seq(Chunk) /\ Len(Cut(m)) = Parts(m) /\ DOMAIN Cut(m) = 1 .. Parts(m)
         /\ \A p \in 1 .. Parts(m) : Cut(m)[p] = [msg |-> m, part |-> p]
         /\ Whole(Cut(m))
<1> DEFINE n == Parts(m)
           s == Cut(m)
<1>1. n \in Nat /\ n > 0
  BY PartsPositive
<1>2. s = [p \in 1 .. n |-> [msg |-> m, part |-> p]]
  BY DEF Cut
<1>3. \A p \in 1 .. n : [msg |-> m, part |-> p] \in Chunk
  BY <1>1 DEF Chunk
<1> HIDE DEF n, s
<1>4. s \in Seq(Chunk) /\ Len(s) = n /\ DOMAIN s = 1 .. n
  BY <1>1, <1>2, <1>3, IsASeq
<1>5. \A p \in 1 .. n : s[p] = [msg |-> m, part |-> p]
  BY <1>2
<1>6. ASSUME NEW i \in 1 .. n
      PROVE  /\ s[i].part > 1 => i > 1 /\ s[i - 1] = [s[i] EXCEPT !.part = @ - 1]
             /\ s[i].part < Parts(s[i].msg) => i < Len(s) /\ s[i + 1] = [s[i] EXCEPT !.part = @ + 1]
  <2>1. s[i] = [msg |-> m, part |-> i] /\ s[i].part = i /\ s[i].msg = m
    BY <1>5
  <2>2. ASSUME i > 1 PROVE s[i - 1] = [s[i] EXCEPT !.part = @ - 1]
    <3>1. i - 1 \in 1 .. n
      BY <1>1, <2>2
    <3> QED
      BY <1>5, <2>1, <3>1
  <2>3. ASSUME i < n PROVE s[i + 1] = [s[i] EXCEPT !.part = @ + 1]
    <3>1. i + 1 \in 1 .. n
      BY <1>1, <2>3
    <3> QED
      BY <1>5, <2>1, <3>1
  <2> QED
    BY <1>4, <2>1, <2>2, <2>3 DEF n
<1>7. Whole(s)
  BY <1>4, <1>6 DEF Whole
<1> QED
  BY <1>4, <1>5, <1>7 DEF n, s

(* Joining two sequences of chunks. *)
LEMMA Joined ==
  ASSUME NEW s \in Seq(Chunk), NEW p \in Seq(Chunk)
  PROVE  /\ s \o p \in Seq(Chunk) /\ Len(s \o p) = Len(s) + Len(p) /\ DOMAIN (s \o p) = 1 .. Len(s) + Len(p)
         /\ \A i \in 1 .. Len(s) : (s \o p)[i] = s[i]
         /\ \A i \in 1 .. Len(p) : (s \o p)[Len(s) + i] = p[i]
         /\ \A i \in 1 .. Len(s) + Len(p) : i \in 1 .. Len(s) \/ \E k \in 1 .. Len(p) : i = Len(s) + k
<1>1. s \o p \in Seq(Chunk) /\ Len(s \o p) = Len(s) + Len(p)
  BY ConcatProperties
<1>2. \A i \in 1 .. Len(s) + Len(p) : (s \o p)[i] = IF i <= Len(s) THEN s[i] ELSE p[i - Len(s)]
  BY ConcatProperties
<1> DEFINE n == Len(s)
           k == Len(p)
<1>3. n \in Nat /\ k \in Nat
  OBVIOUS
<1>4. DOMAIN (s \o p) = 1 .. n + k
  BY <1>1
<1> HIDE DEF n, k
<1>5. \A i \in 1 .. n : i \in 1 .. n + k /\ i <= n
  BY <1>3
<1>6. \A i \in 1 .. k : n + i \in 1 .. n + k /\ ~(n + i <= n) /\ (n + i) - n = i
  BY <1>3
<1>7. ASSUME NEW i \in 1 .. n + k PROVE i \in 1 .. n \/ \E j \in 1 .. k : i = n + j
  <2>1. CASE i <= n
    BY <1>3, <2>1
  <2>2. CASE ~(i <= n)
    <3>1. i - n \in 1 .. k /\ i = n + (i - n)
      BY <1>3, <2>2
    <3> QED
      BY <3>1
  <2> QED
    BY <2>1, <2>2
<1> QED
  BY <1>1, <1>2, <1>4, <1>5, <1>6, <1>7 DEF n, k

LEMMA WholeJoined ==
  ASSUME NEW s \in Seq(Chunk), NEW p \in Seq(Chunk), Whole(s), Whole(p)
  PROVE  Whole(s \o p)
<1> DEFINE a == s \o p
           n == Len(s)
           k == Len(p)
<1>1. /\ Len(a) = n + k /\ DOMAIN a = 1 .. n + k
      /\ \A i \in 1 .. n : a[i] = s[i]
      /\ \A i \in 1 .. k : a[n + i] = p[i]
      /\ \A i \in 1 .. n + k : i \in 1 .. n \/ \E j \in 1 .. k : i = n + j
  BY Joined
<1>2. n \in Nat /\ k \in Nat /\ DOMAIN s = 1 .. n /\ DOMAIN p = 1 .. k
  OBVIOUS
<1> HIDE DEF a, n, k
<1> SUFFICES ASSUME NEW i \in 1 .. n + k
             PROVE  /\ a[i].part > 1 => i > 1 /\ a[i - 1] = [a[i] EXCEPT !.part = @ - 1]
                    /\ a[i].part < Parts(a[i].msg) => i < Len(a) /\ a[i + 1] = [a[i] EXCEPT !.part = @ + 1]
  BY <1>1 DEF Whole, a
<1>3. CASE i \in 1 .. n
  <2>1. a[i] = s[i]
    BY <1>1, <1>3
  <2>2. /\ s[i].part > 1 => i > 1 /\ s[i - 1] = [s[i] EXCEPT !.part = @ - 1]
        /\ s[i].part < Parts(s[i].msg) => i < n /\ s[i + 1] = [s[i] EXCEPT !.part = @ + 1]
    BY <1>2, <1>3 DEF Whole, n
  <2>3. i > 1 => i - 1 \in 1 .. n
    BY <1>2, <1>3
  <2>4. i < n => i + 1 \in 1 .. n /\ i < n + k
    BY <1>2, <1>3
  <2> QED
    BY <1>1, <2>1, <2>2, <2>3, <2>4
<1>4. ASSUME NEW j \in 1 .. k, i = n + j
      PROVE  /\ a[i].part > 1 => i > 1 /\ a[i - 1] = [a[i] EXCEPT !.part = @ - 1]
             /\ a[i].part < Parts(a[i].msg) => i < Len(a) /\ a[i + 1] = [a[i] EXCEPT !.part = @ + 1]
  <2>1. a[i] = p[j]
    BY <1>1, <1>4
  <2>2. /\ p[j].part > 1 => j > 1 /\ p[j - 1] = [p[j] EXCEPT !.part = @ - 1]
        /\ p[j].part < Parts(p[j].msg) => j < k /\ p[j + 1] = [p[j] EXCEPT !.part = @ + 1]
    BY <1>2 DEF Whole, k
  <2>3. j > 1 => i > 1 /\ j - 1 \in 1 .. k /\ i - 1 = n + (j - 1)
    BY <1>2, <1>4
  <2>4. j < k => j + 1 \in 1 .. k /\ i + 1 = n + (j + 1) /\ i < n + k
    BY <1>2, <1>4
  <2>5. j > 1 => a[i - 1] = p[j - 1]
    BY <1>1, <2>3
  <2>6. j < k => a[i + 1] = p[j + 1]
    BY <1>1, <2>4
  <2> QED
    BY <1>1, <2>1, <2>2, <2>3, <2>4, <2>5, <2>6
<1> QED
  BY <1>1, <1>3, <1>4

LEMMA TellsJoined ==
  ASSUME NEW s \in Seq(Chunk), NEW p \in Seq(Chunk), NEW f
  PROVE  /\ Tells(s \o p, f) <=> Tells(s, f) \/ Tells(p, f)
         /\ StartsOnce(s, f) /\ ~Tells(p, f) => StartsOnce(s \o p, f)
         /\ StartsOnce(p, f) /\ ~Tells(s, f) => StartsOnce(s \o p, f)
         /\ StartsOnce(s \o p, f) => StartsOnce(p, f) /\ ~(Tells(s, f) /\ Tells(p, f))
<1> DEFINE a == s \o p
           n == Len(s)
           k == Len(p)
<1>1. /\ DOMAIN a = 1 .. n + k /\ DOMAIN s = 1 .. n /\ DOMAIN p = 1 .. k
      /\ \A i \in 1 .. n : a[i] = s[i]
      /\ \A i \in 1 .. k : a[n + i] = p[i]
      /\ \A i \in 1 .. n + k : i \in 1 .. n \/ \E j \in 1 .. k : i = n + j
  BY Joined
<1>2. n \in Nat /\ k \in Nat
  OBVIOUS
<1> HIDE DEF a, n, k
<1>3. (\A i \in 1 .. n : i \in 1 .. n + k) /\ (\A i \in 1 .. k : n + i \in 1 .. n + k)
  BY <1>2
<1>4. Tells(a, f) <=> Tells(s, f) \/ Tells(p, f)
  <2>1. ASSUME Tells(a, f) PROVE Tells(s, f) \/ Tells(p, f)
    BY <1>1, <2>1 DEF Tells
  <2>2. ASSUME Tells(s, f) PROVE Tells(a, f)
    BY <1>1, <1>3, <2>2 DEF Tells
  <2>3. ASSUME Tells(p, f) PROVE Tells(a, f)
    BY <1>1, <1>3, <2>3 DEF Tells
  <2> QED
    BY <2>1, <2>2, <2>3
<1>5. ASSUME StartsOnce(s, f), ~Tells(p, f) PROVE StartsOnce(a, f)
  <2> SUFFICES ASSUME NEW i \in 1 .. n + k, NEW j \in 1 .. n + k, Starts(a[i], f), Starts(a[j], f)
               PROVE  i = j
    BY <1>1 DEF StartsOnce
  <2>1. i \in 1 .. n /\ j \in 1 .. n
    BY <1>1, <1>5 DEF Tells
  <2> QED
    BY <1>1, <1>5, <2>1 DEF StartsOnce
<1>6. ASSUME StartsOnce(p, f), ~Tells(s, f) PROVE StartsOnce(a, f)
  <2> SUFFICES ASSUME NEW i \in 1 .. n + k, NEW j \in 1 .. n + k, Starts(a[i], f), Starts(a[j], f)
               PROVE  i = j
    BY <1>1 DEF StartsOnce
  <2>1. PICK x \in 1 .. k : i = n + x
    BY <1>1, <1>6 DEF Tells
  <2>2. PICK y \in 1 .. k : j = n + y
    BY <1>1, <1>6 DEF Tells
  <2>3. Starts(p[x], f) /\ Starts(p[y], f)
    BY <1>1, <2>1, <2>2
  <2> QED
    BY <1>1, <1>6, <2>1, <2>2, <2>3 DEF StartsOnce
<1>7. ASSUME StartsOnce(a, f) PROVE StartsOnce(p, f) /\ ~(Tells(s, f) /\ Tells(p, f))
  <2>1. StartsOnce(p, f)
    <3> SUFFICES ASSUME NEW i \in 1 .. k, NEW j \in 1 .. k, Starts(p[i], f), Starts(p[j], f)
                 PROVE  i = j
      BY <1>1 DEF StartsOnce
    <3>1. n + i = n + j
      BY <1>1, <1>3, <1>7 DEF StartsOnce
    <3> QED
      BY <1>2, <3>1
  <2>2. ASSUME Tells(s, f), Tells(p, f) PROVE FALSE
    <3>1. PICK i \in 1 .. n : Starts(s[i], f)
      BY <1>1, <2>2 DEF Tells
    <3>2. PICK j \in 1 .. k : Starts(p[j], f)
      BY <1>1, <2>2 DEF Tells
    <3>3. i = n + j
      BY <1>1, <1>3, <1>7, <3>1, <3>2 DEF StartsOnce
    <3> QED
      BY <1>2, <3>3
  <2> QED
    BY <2>1, <2>2
<1> QED
  BY <1>4, <1>5, <1>6, <1>7 DEF a

(* The pieces of a prefix are where they were. *)
LEMMA PiecesJoined ==
  ASSUME NEW s \in Seq(Chunk), NEW p \in Seq(Chunk), NEW f
  PROVE  /\ IsFiniteSet(Pieces(s, f)) /\ Count(s, f) \in Nat
         /\ \A i \in Pieces(s, f) : i \in Pieces(s \o p, f) /\ Before(s \o p, f, i) = Before(s, f, i)
                                   /\ (s \o p)[i] = s[i]
         /\ Pieces(p, f) = {} => Pieces(s \o p, f) = Pieces(s, f)
         /\ Pieces(p, f) = {1} => /\ Pieces(s \o p, f) = Pieces(s, f) \cup {Len(s) + 1}
                                  /\ Before(s \o p, f, Len(s) + 1) = Pieces(s, f)
                                  /\ (s \o p)[Len(s) + 1] = p[1] /\ Len(s) + 1 \notin Pieces(s, f)
<1> DEFINE a == s \o p
           n == Len(s)
           k == Len(p)
<1>1. /\ DOMAIN a = 1 .. n + k /\ DOMAIN s = 1 .. n /\ DOMAIN p = 1 .. k
      /\ \A i \in 1 .. n : a[i] = s[i]
      /\ \A i \in 1 .. k : a[n + i] = p[i]
      /\ \A i \in 1 .. n + k : i \in 1 .. n \/ \E j \in 1 .. k : i = n + j
  BY Joined
<1>2. n \in Nat /\ k \in Nat
  OBVIOUS
<1> HIDE DEF a, n, k
<1>3. (\A i \in 1 .. n : i \in 1 .. n + k) /\ (\A i \in 1 .. k : n + i \in 1 .. n + k)
  BY <1>2
<1>4. IsFiniteSet(Pieces(s, f)) /\ Count(s, f) \in Nat
  <2>1. IsFiniteSet(1 .. n)
    BY <1>2, FS_Interval
  <2>2. Pieces(s, f) \subseteq 1 .. n
    BY <1>1 DEF Pieces
  <2> QED
    BY <2>1, <2>2, FS_Subset, FS_CardinalityType DEF Count
<1>5. \A i \in 1 .. n : i \in Pieces(a, f) <=> i \in Pieces(s, f)
  BY <1>1, <1>3 DEF Pieces
<1>6. \A j \in 1 .. k : n + j \in Pieces(a, f) <=> j \in Pieces(p, f)
  BY <1>1, <1>3 DEF Pieces
<1>7. Pieces(s, f) \subseteq 1 .. n /\ Pieces(a, f) \subseteq 1 .. n + k /\ Pieces(p, f) \subseteq 1 .. k
  BY <1>1 DEF Pieces
<1>8. ASSUME NEW i \in Pieces(s, f)
      PROVE  i \in Pieces(a, f) /\ Before(a, f, i) = Before(s, f, i) /\ a[i] = s[i]
  <2>1. i \in 1 .. n
    BY <1>7
  <2>2. \A j \in 1 .. n + k : j < i => j \in 1 .. n
    BY <1>2, <2>1
  <2>3. \A j : j \in Before(a, f, i) <=> j \in Before(s, f, i)
    BY <1>2, <1>3, <1>5, <1>7, <2>2 DEF Before
  <2> QED
    BY <1>1, <1>5, <2>1, <2>3
<1>9. ASSUME Pieces(p, f) = {} PROVE Pieces(a, f) = Pieces(s, f)
  BY <1>1, <1>3, <1>5, <1>6, <1>7, <1>9
<1>10. ASSUME Pieces(p, f) = {1}
       PROVE  /\ Pieces(a, f) = Pieces(s, f) \cup {n + 1} /\ Before(a, f, n + 1) = Pieces(s, f)
              /\ a[n + 1] = p[1] /\ n + 1 \notin Pieces(s, f)
  <2>1. 1 \in 1 .. k
    BY <1>7, <1>10
  <2>2. \A i : i \in Pieces(a, f) <=> i \in Pieces(s, f) \/ i = n + 1
    <3>1. n + 1 \in Pieces(a, f)
      BY <1>6, <1>10, <2>1
    <3>2. ASSUME NEW i \in Pieces(a, f) PROVE i \in Pieces(s, f) \/ i = n + 1
      BY <1>1, <1>5, <1>6, <1>7, <1>10
    <3> QED
      BY <1>8, <3>1, <3>2
  <2>3. n + 1 \notin Pieces(s, f)
    BY <1>2, <1>7
  <2>4. \A i \in Pieces(s, f) : i < n + 1
    BY <1>2, <1>7
  <2>5. \A i : i \in Before(a, f, n + 1) <=> i \in Pieces(s, f)
    BY <1>2, <2>2, <2>4 DEF Before
  <2> QED
    BY <1>1, <2>1, <2>2, <2>3, <2>5
<1> QED
  BY <1>4, <1>8, <1>9, <1>10 DEF a, n

LEMMA OrderedJoined ==
  ASSUME NEW s \in Seq(Chunk), NEW p \in Seq(Chunk), NEW f
  PROVE  /\ Ordered(s \o p, f) => Ordered(s, f)
         /\ Pieces(p, f) = {} => Count(s \o p, f) = Count(s, f) /\ (Ordered(s, f) => Ordered(s \o p, f))
         /\ Pieces(p, f) = {1} /\ p[1].msg.at = Count(s, f) =>
              Count(s \o p, f) = Count(s, f) + 1 /\ (Ordered(s, f) => Ordered(s \o p, f))
<1> DEFINE a == s \o p
           n == Len(s)
<1>1. IsFiniteSet(Pieces(s, f)) /\ Count(s, f) \in Nat
  BY PiecesJoined
<1>2. \A i \in Pieces(s, f) : i \in Pieces(a, f) /\ Before(a, f, i) = Before(s, f, i)
  BY PiecesJoined
<1>3. \A i \in Pieces(s, f) : a[i] = s[i]
  <2>1. \A i \in Pieces(s, f) : i \in 1 .. n
    BY DEF Pieces
  <2>2. \A i \in 1 .. n : a[i] = s[i]
    BY Joined
  <2> QED
    BY <2>1, <2>2
<1>4. Pieces(p, f) = {} => Pieces(a, f) = Pieces(s, f)
  BY PiecesJoined
<1>5. Pieces(p, f) = {1} => Pieces(a, f) = Pieces(s, f) \cup {n + 1} /\ Before(a, f, n + 1) = Pieces(s, f)
  BY PiecesJoined
<1>6. Pieces(p, f) = {1} => a[n + 1] = p[1] /\ n + 1 \notin Pieces(s, f)
  BY PiecesJoined
<1> HIDE DEF a, n
<1>7. ASSUME Ordered(a, f) PROVE Ordered(s, f)
  BY <1>7, <1>2, <1>3 DEF Ordered
<1>8. ASSUME Pieces(p, f) = {} PROVE Count(a, f) = Count(s, f) /\ (Ordered(s, f) => Ordered(a, f))
  BY <1>8, <1>4, <1>2, <1>3 DEF Ordered, Count
<1>9. ASSUME Pieces(p, f) = {1}, p[1].msg.at = Count(s, f)
      PROVE  Count(a, f) = Count(s, f) + 1 /\ (Ordered(s, f) => Ordered(a, f))
  <2>1. Count(a, f) = Count(s, f) + 1
    BY <1>1, <1>9, <1>5, <1>6, FS_AddElement DEF Count
  <2>2. Ordered(s, f) => Ordered(a, f)
    BY <1>9, <1>5, <1>6, <1>2, <1>3 DEF Ordered, Count
  <2> QED
    BY <2>1, <2>2
<1> QED
  BY <1>7, <1>8, <1>9 DEF a

LEMMA SizeJoined ==
  ASSUME NEW s \in Seq(Chunk), NEW p \in Seq(Chunk), NEW z, LastSize(s, z),
         \A i \in DOMAIN p : p[i].msg.kind # "monitors"
  PROVE  LastSize(s \o p, z)
<1> DEFINE a == s \o p
           n == Len(s)
           k == Len(p)
<1>1. /\ Len(a) = n + k /\ DOMAIN a = 1 .. n + k /\ DOMAIN s = 1 .. n /\ DOMAIN p = 1 .. k
      /\ \A i \in 1 .. n : a[i] = s[i]
      /\ \A i \in 1 .. k : a[n + i] = p[i]
      /\ \A i \in 1 .. n + k : i \in 1 .. n \/ \E j \in 1 .. k : i = n + j
      /\ n \in Nat /\ k \in Nat
  <2>1. n \in Nat /\ k \in Nat /\ DOMAIN s = 1 .. n /\ DOMAIN p = 1 .. k
    OBVIOUS
  <2> QED
    BY <2>1, Joined
<1>2. PICK i \in 1 .. n : s[i].msg = MessageOf("monitors", "window", z)
                          /\ \A j \in i + 1 .. n : s[j].msg.kind # "monitors"
  BY <1>1 DEF LastSize
<1> HIDE DEF a, n, k
<1>3. i \in 1 .. n + k /\ a[i] = s[i]
  BY <1>1
<1>4. ASSUME NEW j \in i + 1 .. n + k PROVE a[j].msg.kind # "monitors"
  <2>1. j \in 1 .. n + k
    BY <1>1, <1>3
  <2>2. CASE j \in 1 .. n
    <3>1. j \in i + 1 .. n
      BY <1>1, <2>2
    <3> QED
      BY <1>1, <1>2, <2>2, <3>1
  <2>3. ASSUME NEW x \in 1 .. k, j = n + x PROVE a[j].msg.kind # "monitors"
    BY <1>1, <2>3
  <2> QED
    BY <1>1, <2>1, <2>2, <2>3
<1>5. LastSize(a, z)
  BY <1>1, <1>2, <1>3, <1>4 DEF LastSize
<1> QED
  BY <1>5 DEF a

(* What each message says. *)
LEMMA CutSays ==
  ASSUME NEW m \in Msgs
  PROVE  /\ Cut(m) \in Seq(Chunk) /\ Whole(Cut(m)) /\ \A i \in DOMAIN Cut(m) : Cut(m)[i].msg = m
         /\ Len(Cut(m)) \in Nat /\ Len(Cut(m)) > 0 /\ DOMAIN Cut(m) = 1 .. Len(Cut(m))
         /\ \A i \in DOMAIN Cut(m) : Cut(m)[i].part = i
         /\ m.kind # "data" => Len(Cut(m)) = 1
<1>1. /\ Cut(m) \in Seq(Chunk) /\ Len(Cut(m)) = Parts(m) /\ DOMAIN Cut(m) = 1 .. Parts(m)
      /\ \A p \in 1 .. Parts(m) : Cut(m)[p] = [msg |-> m, part |-> p]
      /\ Whole(Cut(m))
  BY CutIsWhole
<1>2. Parts(m) \in Nat /\ Parts(m) > 0 /\ (m.kind # "data" => Parts(m) = 1)
  BY PartsPositive
<1>3. \A i \in DOMAIN Cut(m) : Cut(m)[i].msg = m /\ Cut(m)[i].part = i
  BY <1>1
<1> QED
  BY <1>1, <1>2, <1>3

LEMMA PlainSays ==
  ASSUME NEW p, Plain(p)
  PROVE  /\ p \in Seq(Chunk) /\ Whole(p) /\ \A i \in DOMAIN p : p[i].msg.kind # "monitors"
         /\ \A f : ~Tells(p, f) /\ Pieces(p, f) = {}
BY DEF Plain, Tells, Starts, MessageOf, Pieces

LEMMA PlainMessages ==
  /\ Plain(<<>>) /\ Plain(Caps) /\ Plain(Reply)
  /\ \A f \in Files : Plain(Cancel(f))
<1>1. ASSUME NEW kind \in {"caps", "reply", "status"}, NEW about \in Files \cup {"agent", "window"}
      PROVE  Plain(Cut(MessageOf(kind, about, 0)))
  <2> DEFINE m == MessageOf(kind, about, 0)
  <2>1. m \in Msgs /\ m.kind \in {"caps", "reply", "status"}
    BY DEF MessageOf, Msgs, MsgKinds
  <2> HIDE DEF m
  <2> QED
    BY <2>1, CutSays DEF Plain, m
<1>2. Plain(<<>>)
  BY DEF Plain, Whole
<1> QED
  BY <1>1, <1>2 DEF Caps, Reply, Cancel

LEMMA DataSays ==
  ASSUME NEW f \in Files, NEW k \in Nat
  PROVE  /\ Data(f, k) \in Seq(Chunk) /\ Whole(Data(f, k))
         /\ \A i \in DOMAIN Data(f, k) : Data(f, k)[i].msg.kind # "monitors"
         /\ \A g : ~Tells(Data(f, k), g) /\ (g # f => Pieces(Data(f, k), g) = {})
         /\ Pieces(Data(f, k), f) = {1} /\ Data(f, k)[1].msg.at = k
<1> DEFINE m == MessageOf("data", f, k)
           p == Cut(m)
<1>1. m \in Msgs /\ m.kind = "data" /\ m.about = f /\ m.at = k
  BY DEF MessageOf, Msgs, MsgKinds
<1>2. Data(f, k) = p
  BY DEF Data
<1> HIDE DEF m
<1>3. /\ p \in Seq(Chunk) /\ Whole(p) /\ \A i \in DOMAIN p : p[i].msg = m
      /\ Len(p) \in Nat /\ Len(p) > 0 /\ DOMAIN p = 1 .. Len(p)
      /\ \A i \in DOMAIN p : p[i].part = i
  BY <1>1, CutSays
<1> HIDE DEF p
<1>4. 1 \in DOMAIN p
  BY <1>3
<1>5. Pieces(p, f) = {1}
  BY <1>1, <1>3, <1>4 DEF Pieces
<1>6. \A g : ~Tells(p, g) /\ (g # f => Pieces(p, g) = {})
  BY <1>1, <1>3 DEF Tells, Starts, MessageOf, Pieces
<1> QED
  BY <1>1, <1>2, <1>3, <1>4, <1>5, <1>6

LEMMA StartSays ==
  ASSUME NEW f \in Files
  PROVE  /\ StartOf(f) \in Seq(Chunk) /\ Whole(StartOf(f))
         /\ \A i \in DOMAIN StartOf(f) : StartOf(f)[i].msg.kind # "monitors"
         /\ \A g : (Tells(StartOf(f), g) <=> g = f) /\ StartsOnce(StartOf(f), g) /\ Pieces(StartOf(f), g) = {}
<1> DEFINE m == MessageOf("start", f, 0)
           p == Cut(m)
<1>1. m \in Msgs /\ m.kind = "start" /\ m.about = f /\ \A g : m = MessageOf("start", g, 0) <=> g = f
  BY DEF MessageOf, Msgs, MsgKinds
<1>2. StartOf(f) = p
  BY DEF StartOf
<1> HIDE DEF m
<1>3. /\ p \in Seq(Chunk) /\ Whole(p) /\ \A i \in DOMAIN p : p[i].msg = m
      /\ DOMAIN p = 1 .. Len(p) /\ Len(p) = 1
  BY <1>1, CutSays
<1> HIDE DEF p
<1>4. \A g : (Tells(p, g) <=> g = f) /\ StartsOnce(p, g) /\ Pieces(p, g) = {}
  <2> SUFFICES ASSUME NEW g PROVE (Tells(p, g) <=> g = f) /\ StartsOnce(p, g) /\ Pieces(p, g) = {}
    OBVIOUS
  <2>1. Tells(p, g) <=> g = f
    BY <1>1, <1>3 DEF Tells, Starts
  <2>2. StartsOnce(p, g)
    BY <1>3 DEF StartsOnce
  <2>3. Pieces(p, g) = {}
    BY <1>1, <1>3 DEF Pieces
  <2> QED
    BY <2>1, <2>2, <2>3
<1> QED
  BY <1>1, <1>2, <1>3, <1>4

LEMMA MonitorsSays ==
  ASSUME NEW z \in Nat
  PROVE  /\ Monitors(z) \in Seq(Chunk) /\ Whole(Monitors(z))
         /\ \A f : ~Tells(Monitors(z), f) /\ Pieces(Monitors(z), f) = {}
         /\ \A s \in Seq(Chunk) : LastSize(s \o Monitors(z), z)
<1> DEFINE m == MessageOf("monitors", "window", z)
           p == Cut(m)
<1>1. m \in Msgs /\ m.kind = "monitors"
  BY DEF MessageOf, Msgs, MsgKinds
<1>2. Monitors(z) = p
  BY DEF Monitors
<1>3. \A f : m # MessageOf("start", f, 0)
  BY DEF MessageOf
<1> HIDE DEF m
<1>4. /\ p \in Seq(Chunk) /\ Whole(p) /\ \A i \in DOMAIN p : p[i].msg = m
      /\ DOMAIN p = 1 .. Len(p) /\ Len(p) = 1
  BY <1>1, CutSays
<1> HIDE DEF p
<1>5. \A f : ~Tells(p, f) /\ Pieces(p, f) = {}
  BY <1>1, <1>4, <1>3 DEF Tells, Starts, Pieces
<1>6. ASSUME NEW s \in Seq(Chunk) PROVE LastSize(s \o p, z)
  <2> DEFINE a == s \o p
             n == Len(s)
  <2>1. n \in Nat /\ Len(a) = n + 1 /\ DOMAIN a = 1 .. n + 1 /\ 1 \in 1 .. Len(p)
    <3>1. n \in Nat /\ Len(a) = n + Len(p) /\ DOMAIN a = 1 .. n + Len(p)
      <4>1. n \in Nat
        OBVIOUS
      <4>2. Len(a) = n + Len(p) /\ DOMAIN a = 1 .. n + Len(p)
        BY <1>4, Joined, Zenon
      <4> QED
        BY <4>1, <4>2
    <3> HIDE DEF a, n
    <3> QED
      BY <1>4, <3>1
  <2>2. a[n + 1] = p[1]
    BY <1>4, <2>1, Joined
  <2>3. p[1].msg = m
    BY <1>4
  <2> HIDE DEF a, n
  <2>4. n + 1 \in DOMAIN a /\ \A j \in (n + 1) + 1 .. Len(a) : a[j].msg.kind # "monitors"
    BY <2>1
  <2>5. LastSize(a, z)
    BY <2>2, <2>3, <2>4 DEF LastSize, m
  <2> QED
    BY <2>5 DEF a
<1> QED
  BY <1>2, <1>4, <1>5, <1>6

LEMMA Regroup ==
  ASSUME NEW a \in Seq(Chunk), NEW b \in Seq(Chunk), NEW c \in Seq(Chunk)
  PROVE  (a \o b) \o c = a \o (b \o c)
<1> DEFINE C == Chunk
<1>1. a \in Seq(C) /\ b \in Seq(C) /\ c \in Seq(C)
  OBVIOUS
<1> HIDE DEF C
<1> QED
  BY <1>1, ConcatAssociative

LEMMA Adjoin ==
  ASSUME NEW a \in Seq(Chunk), NEW i \in 0 .. Len(a)
  PROVE  SubSeq(a, 1, i) \o SubSeq(a, i + 1, Len(a)) = a
<1>1. 1 \in 1 .. Len(a) + 1 /\ i \in 1 - 1 .. Len(a) /\ Len(a) \in i .. Len(a)
  OBVIOUS
<1>2. SubSeq(a, 1, i) \o SubSeq(a, i + 1, Len(a)) = SubSeq(a, 1, Len(a))
  BY <1>1, ConcatAdjacentSubSeq, Zenon
<1> QED
  BY <1>2, SubSeqFull

(* Sending moves the boundary between what was sent and what waits, as far as *)
(* the tokens allow, and loses nothing.                                       *)
LEMMA SendsOn ==
  ASSUME queue \in Seq(Chunk), NEW p \in Seq(Chunk), NEW h \in Seq(Chunk), NEW t \in Nat, NEW u \in Nat,
         Send(p, t, u, h)
  PROVE  /\ queue' \in Seq(Chunk) /\ heard' \in Seq(Chunk) /\ Told' = (h \o queue) \o p
         /\ tokens' \in Nat /\ spent' \in Nat /\ tokens' + spent' = t + u
         /\ tokens' > 0 => queue' = <<>>
         /\ \A f : Tells(queue', f) => Tells(queue, f) \/ Tells(p, f)
<1> DEFINE all == queue \o p
           n == IF t < Len(all) THEN t ELSE Len(all)
           k == Len(all)
<1>1. /\ queue' = SubSeq(all, n + 1, k) /\ heard' = h \o SubSeq(all, 1, n)
      /\ tokens' = t - n /\ spent' = u + n
  BY DEF Send
<1>2. all \in Seq(Chunk) /\ k \in Nat
  BY ConcatProperties
<1> HIDE DEF all
<1>3. n \in 0 .. k /\ n <= t /\ (n < t => n = k) /\ n \in Nat
  BY <1>2
<1> HIDE DEF n
<1>4. tokens' \in Nat /\ spent' \in Nat /\ tokens' + spent' = t + u
  BY <1>1, <1>3
<1>5. /\ SubSeq(all, 1, n) \in Seq(Chunk) /\ SubSeq(all, n + 1, k) \in Seq(Chunk)
      /\ SubSeq(all, 1, n) \o SubSeq(all, n + 1, k) = all
  <2>1. /\ \A i \in 1 .. n : i \in DOMAIN all
        /\ \A i \in n + 1 .. k : i \in DOMAIN all
    BY <1>2, <1>3
  <2>2. SubSeq(all, 1, n) \in Seq(Chunk) /\ SubSeq(all, n + 1, k) \in Seq(Chunk)
    BY <1>2, <1>3, SubSeqProperties
  <2>3. SubSeq(all, 1, n) \o SubSeq(all, n + 1, k) = all
    BY <1>2, <1>3, Adjoin
  <2> QED
    BY <2>2, <2>3
<1>6. queue' \in Seq(Chunk) /\ heard' \in Seq(Chunk)
  BY <1>1, <1>5, ConcatProperties
<1>7. Told' = (h \o queue) \o p
  <2> DEFINE first == SubSeq(all, 1, n)
             second == SubSeq(all, n + 1, k)
  <2>1. first \in Seq(Chunk) /\ second \in Seq(Chunk) /\ first \o second = all
    BY <1>5
  <2>2. Told' = (h \o first) \o second
    BY <1>1 DEF Told
  <2> HIDE DEF first, second
  <2>3. (h \o first) \o second = h \o all
    BY <2>1, Regroup
  <2>4. h \o (queue \o p) = (h \o queue) \o p
    BY Regroup
  <2> QED
    BY <2>2, <2>3, <2>4 DEF all
<1>8. tokens' > 0 => queue' = <<>>
  <2> SUFFICES ASSUME tokens' > 0 PROVE queue' = <<>>
    OBVIOUS
  <2>1. n = k
    BY <1>1, <1>3, <1>4
  <2>2. Len(SubSeq(all, k + 1, k)) = 0
    BY <1>2
  <2> QED
    BY <1>1, <1>6, <2>1, <2>2, EmptySeq
<1>9. \A f : Tells(queue', f) => Tells(queue, f) \/ Tells(p, f)
  <2> SUFFICES ASSUME NEW f, Tells(queue', f) PROVE Tells(queue, f) \/ Tells(p, f)
    OBVIOUS
  <2>1. Tells(SubSeq(all, 1, n) \o SubSeq(all, n + 1, k), f)
    BY <1>1, <1>5, TellsJoined
  <2>2. Tells(all, f)
    BY <1>5, <2>1
  <2> QED
    BY <2>2, TellsJoined DEF all
<1> QED
  BY <1>4, <1>6, <1>7, <1>8, <1>9

-----------------------------------------------------------------------------
(* The inductive invariant *)

(* A place at which file f is being read, or will be when tokens come. *)
Reader(f, k) ==
  \/ \E r \in reads : r.f = f /\ r.from = k
  \/ \E i \in DOMAIN readQueue : readQueue[i] = f /\ resume[f] = k

(* Tokens, what waits for them and what was sent. *)
LineInv ==
  /\ queue \in Seq(Chunk) /\ heard \in Seq(Chunk)
  /\ tokens \in Nat /\ spent \in Nat /\ tokens + spent = Window
  /\ QueueDrained
  /\ ~connected => heard = <<>>
  /\ agents = 0 => ~connected /\ queue = <<>>

RestInv ==
  /\ connected \in BOOLEAN /\ resizing \in BOOLEAN
  /\ size \in Nat /\ asked \in Nat /\ size + asked <= MaxOther
  /\ agents \in 0 .. MaxAgents
  /\ agents = 0 => ~resizing

FilesTyped ==
  /\ dropped \subseteq Files /\ tasks \subseteq dropped /\ cancelled \subseteq dropped
  /\ allowed \subseteq dropped /\ ended \subseteq dropped
  /\ ~connected => allowed = {}
  /\ agents = 0 => dropped = {}

(* No file is read in two places, and every reader is inside its file. *)
ReadersInv ==
  /\ readQueue \in Seq(Files) /\ resume \in [Files -> Nat] /\ reads \subseteq Tasks
  /\ \A r, q \in reads : r.f = q.f => r = q
  /\ \A i, j \in DOMAIN readQueue : readQueue[i] = readQueue[j] => i = j
  /\ \A r \in reads, i \in DOMAIN readQueue : readQueue[i] # r.f
  /\ \A f, k : Reader(f, k) => f \in dropped /\ k < Reads[f]

(* The start of a transfer reaches an agent once, and a file is not read     *)
(* while its start is still to be sent.                                      *)
StartsInv ==
  \A f \in Files :
    /\ StartsOnce(Told, f)
    /\ Tells(queue, f) => f \in dropped /\ f \notin allowed /\ \A k : ~Reader(f, k)
    /\ Tells(heard, f) => f \in dropped /\ (f \notin allowed => \A k : ~Reader(f, k))

(* The first agent: whole messages, and each file read on where the pieces   *)
(* that were sent, or wait to be sent, end.                                  *)
ProgressInv ==
  agents <= 1 /\ connected =>
    /\ Whole(Told)
    /\ \A f \in Files : /\ Ordered(Told, f)
                        /\ f \notin allowed => Count(Told, f) = 0
                        /\ \A k : Reader(f, k) => f \in allowed /\ k = Count(Told, f)

AgentInv ==
  LineInv /\ RestInv /\ FilesTyped /\ ReadersInv /\ StartsInv /\ ProgressInv /\ SizeKnown

-----------------------------------------------------------------------------
(* Saying something *)

LEMMA ToldTyped ==
  ASSUME LineInv
  PROVE  Told \in Seq(Chunk)
<1>1. queue \in Seq(Chunk) /\ heard \in Seq(Chunk)
  BY DEF LineInv
<1> QED
  BY <1>1, Joined DEF Told

(* What an agent is told of starts it was sent or is to be sent. *)
LEMMA ToldStarts ==
  ASSUME LineInv, NEW f
  PROVE  /\ Tells(Told, f) <=> Tells(heard, f) \/ Tells(queue, f)
         /\ StartsOnce(Told, f) => StartsOnce(queue, f) /\ ~(Tells(heard, f) /\ Tells(queue, f))
<1>1. queue \in Seq(Chunk) /\ heard \in Seq(Chunk)
  BY DEF LineInv
<1> QED
  BY <1>1, TellsJoined DEF Told

LEMMA Speaks ==
  ASSUME LineInv, NEW p \in Seq(Chunk), Say(p), UNCHANGED <<connected, agents>>
  PROVE  /\ LineInv'
         /\ Told' = IF connected THEN Told \o p ELSE Told
         /\ \A f : Tells(queue', f) => Tells(queue, f) \/ Tells(p, f)
<1>1. /\ queue \in Seq(Chunk) /\ heard \in Seq(Chunk) /\ tokens \in Nat /\ spent \in Nat
      /\ tokens + spent = Window
  BY DEF LineInv
<1>2. CASE connected
  <2>1. Send(p, tokens, spent, heard)
    BY <1>2 DEF Say
  <2>2. /\ queue' \in Seq(Chunk) /\ heard' \in Seq(Chunk) /\ Told' = (heard \o queue) \o p
        /\ tokens' \in Nat /\ spent' \in Nat /\ tokens' + spent' = tokens + spent
        /\ tokens' > 0 => queue' = <<>>
        /\ \A f : Tells(queue', f) => Tells(queue, f) \/ Tells(p, f)
    BY <1>1, <2>1, SendsOn
  <2>3. LineInv'
    BY <1>1, <1>2, <2>2 DEF LineInv, QueueDrained
  <2> QED
    BY <1>2, <2>2, <2>3 DEF Told
<1>3. CASE ~connected
  <2>1. UNCHANGED line
    BY <1>3 DEF Say
  <2>2. UNCHANGED <<queue, tokens, spent, heard>>
    BY <2>1 DEF line
  <2>3. LineInv'
    BY <2>2 DEF LineInv, QueueDrained
  <2> QED
    BY <1>3, <2>2, <2>3 DEF Told
<1> QED
  BY <1>2, <1>3

(* Messages that leave the starts, the pieces and the size alone. *)
Quiet(p) ==
  /\ p \in Seq(Chunk) /\ Whole(p)
  /\ \A i \in DOMAIN p : p[i].msg.kind # "monitors"
  /\ \A f : ~Tells(p, f)

LEMMA StartsKept ==
  ASSUME LineInv, StartsInv, NEW p \in Seq(Chunk), \A f : ~Tells(p, f),
         LineInv', Told' = IF connected THEN Told \o p ELSE Told,
         \A f : Tells(queue', f) => Tells(queue, f),
         UNCHANGED dropped, allowed \subseteq allowed',
         \A f \in Files : Tells(queue, f) => f \notin allowed' /\ \A k : ~Reader(f, k)',
         \A f \in Files : \A k : Reader(f, k)' => f \in allowed' \/ \E j : Reader(f, j)
  PROVE  StartsInv'
<1> SUFFICES ASSUME NEW f \in Files
             PROVE  /\ StartsOnce(Told', f)
                    /\ Tells(queue', f) => f \in dropped' /\ f \notin allowed' /\ \A k : ~Reader(f, k)'
                    /\ Tells(heard', f) => f \in dropped' /\ (f \notin allowed' => \A k : ~Reader(f, k)')
  BY DEF StartsInv
<1>1. Told \in Seq(Chunk)
  BY ToldTyped
<1>2. /\ StartsOnce(Told, f)
      /\ Tells(queue, f) => f \in dropped /\ f \notin allowed /\ \A k : ~Reader(f, k)
      /\ Tells(heard, f) => f \in dropped /\ (f \notin allowed => \A k : ~Reader(f, k))
  BY DEF StartsInv
<1>3. StartsOnce(Told', f) /\ (Tells(Told', f) => Tells(Told, f))
  BY <1>1, <1>2, TellsJoined
<1>4. Tells(Told, f) => Tells(heard, f) \/ Tells(queue, f)
  BY ToldStarts
<1>5. Tells(heard', f) => Tells(Told', f)
  <2>1. queue' \in Seq(Chunk) /\ heard' \in Seq(Chunk) /\ Told' = heard' \o queue'
    BY DEF LineInv, Told
  <2>2. \A s, q \in Seq(Chunk) : Tells(s, f) => Tells(s \o q, f)
    BY TellsJoined
  <2> QED
    BY <2>1, <2>2
<1> QED
  BY <1>2, <1>3, <1>4, <1>5

LEMMA SizeKept ==
  ASSUME LineInv, SizeKnown, NEW p \in Seq(Chunk), \A i \in DOMAIN p : p[i].msg.kind # "monitors",
         Told' = IF connected THEN Told \o p ELSE Told, UNCHANGED <<connected, size, resizing>>
  PROVE  SizeKnown'
<1>1. Told \in Seq(Chunk)
  BY ToldTyped
<1>2. connected /\ ~resizing => LastSize(Told, size)
  BY DEF SizeKnown, Told
<1>3. connected /\ ~resizing => LastSize(Told \o p, size)
  BY <1>1, <1>2, SizeJoined
<1> QED
  BY <1>3 DEF SizeKnown, Told

-----------------------------------------------------------------------------
(* Steps that read no file *)

LEMMA ReadersUntouched ==
  ASSUME ReadersInv, UNCHANGED <<readQueue, resume, reads>>
  PROVE  /\ \A f, k : Reader(f, k)' <=> Reader(f, k)
         /\ dropped \subseteq dropped' => ReadersInv'
<1>1. \A f, k : Reader(f, k)' <=> Reader(f, k)
  BY DEF Reader
<1>2. ASSUME dropped \subseteq dropped' PROVE ReadersInv'
  BY <1>1, <1>2 DEF ReadersInv
<1> QED
  BY <1>1, <1>2

(* Nothing that the readers do and nothing that the agent is told changes. *)
LEMMA ProgressUntouched ==
  ASSUME ProgressInv, UNCHANGED <<agents, connected, allowed>>, Told' = Told,
         \A f, k : Reader(f, k)' => Reader(f, k)
  PROVE  ProgressInv'
BY DEF ProgressInv

LEMMA ProgressTold ==
  ASSUME LineInv, ProgressInv, NEW p, Quiet(p), \A f : Pieces(p, f) = {},
         UNCHANGED <<agents, connected>>, allowed \subseteq allowed',
         Told' = IF connected THEN Told \o p ELSE Told,
         \A f \in Files : \A k : Reader(f, k)' => Reader(f, k) \/ (f \in allowed' \ allowed /\ k = 0)
  PROVE  ProgressInv'
<1>1. Told \in Seq(Chunk) /\ p \in Seq(Chunk)
  BY ToldTyped DEF Quiet
<1> SUFFICES ASSUME agents <= 1, connected
             PROVE  /\ Whole(Told')
                    /\ \A f \in Files : /\ Ordered(Told', f)
                                        /\ f \notin allowed' => Count(Told', f) = 0
                                        /\ \A k : Reader(f, k)' => f \in allowed' /\ k = Count(Told', f)
  BY DEF ProgressInv
<1>2. /\ Whole(Told)
      /\ \A f \in Files : /\ Ordered(Told, f)
                          /\ f \notin allowed => Count(Told, f) = 0
                          /\ \A k : Reader(f, k) => f \in allowed /\ k = Count(Told, f)
  BY DEF ProgressInv
<1>3. Whole(Told')
  BY <1>1, <1>2, WholeJoined DEF Quiet
<1>4. ASSUME NEW f \in Files PROVE Ordered(Told', f) /\ Count(Told', f) = Count(Told, f)
  BY <1>1, <1>2, OrderedJoined
<1> QED
  BY <1>2, <1>3, <1>4

LEMMA QuietPlain ==
  ASSUME NEW p, Plain(p)
  PROVE  Quiet(p) /\ \A f : Pieces(p, f) = {}
BY PlainSays DEF Quiet

(* Without a word, and with no file read, only the agent's answers change. *)
LEMMA StutterStep ==
  ASSUME AgentInv, UNCHANGED agentVars
  PROVE  AgentInv'
<1>1. /\ UNCHANGED <<queue, tokens, spent, heard>> /\ UNCHANGED <<dropped, tasks, cancelled, readQueue, resume, reads>>
      /\ UNCHANGED <<agents, allowed, ended, asked>> /\ UNCHANGED <<connected, size, resizing>>
  BY DEF agentVars, line, files, agent
<1>2. Told' = Told
  BY <1>1 DEF Told
<1>3. (\A f, k : Reader(f, k)' <=> Reader(f, k)) /\ ReadersInv'
  BY <1>1, ReadersUntouched DEF AgentInv
<1>4. LineInv' /\ RestInv' /\ FilesTyped' /\ SizeKnown'
  BY <1>1 DEF AgentInv, LineInv, RestInv, FilesTyped, SizeKnown, QueueDrained
<1>5. StartsInv'
  BY <1>1, <1>2, <1>3 DEF AgentInv, StartsInv
<1>6. ProgressInv'
  BY <1>1, <1>2, <1>3, ProgressUntouched DEF AgentInv
<1> QED
  BY <1>3, <1>4, <1>5, <1>6 DEF AgentInv

LEMMA UserCancelsStep ==
  ASSUME AgentInv, NEW f \in Files, UserCancels(f)
  PROVE  AgentInv'
<1>1. /\ f \in tasks /\ cancelled' = cancelled \cup {f}
      /\ UNCHANGED <<queue, tokens, spent, heard>> /\ UNCHANGED <<dropped, tasks, readQueue, resume, reads>>
      /\ UNCHANGED <<agents, allowed, ended, asked>> /\ UNCHANGED <<connected, size, resizing>>
  BY DEF UserCancels, line, agent
<1>2. Told' = Told
  BY <1>1 DEF Told
<1>3. (\A g, k : Reader(g, k)' <=> Reader(g, k)) /\ ReadersInv'
  BY <1>1, ReadersUntouched DEF AgentInv
<1>4. LineInv' /\ RestInv' /\ FilesTyped' /\ SizeKnown'
  BY <1>1 DEF AgentInv, LineInv, RestInv, FilesTyped, SizeKnown, QueueDrained
<1>5. StartsInv'
  BY <1>1, <1>2, <1>3 DEF AgentInv, StartsInv
<1>6. ProgressInv'
  BY <1>1, <1>2, <1>3, ProgressUntouched DEF AgentInv
<1> QED
  BY <1>3, <1>4, <1>5, <1>6 DEF AgentInv

LEMMA AgentEndsStep ==
  ASSUME AgentInv, NEW f \in Files, NEW success \in BOOLEAN, AgentEnds(f, success)
  PROVE  AgentInv'
<1>1. /\ StartHeard(f) /\ ended' = ended \cup {f} /\ tasks' = tasks \ {f}
      /\ UNCHANGED <<queue, tokens, spent, heard>> /\ UNCHANGED <<dropped, cancelled, readQueue, resume, reads>>
      /\ UNCHANGED <<agents, allowed, asked>> /\ UNCHANGED <<connected, size, resizing>>
  BY DEF AgentEnds, line
<1>2. Told' = Told /\ f \in dropped
  <2>1. Tells(heard, f)
    BY <1>1 DEF StartHeard, Tells, Starts
  <2> QED
    BY <1>1, <2>1 DEF Told, AgentInv, StartsInv
<1>3. (\A g, k : Reader(g, k)' <=> Reader(g, k)) /\ ReadersInv'
  BY <1>1, ReadersUntouched DEF AgentInv
<1>4. LineInv' /\ RestInv' /\ FilesTyped' /\ SizeKnown'
  BY <1>1, <1>2 DEF AgentInv, LineInv, RestInv, FilesTyped, SizeKnown, QueueDrained
<1>5. StartsInv'
  BY <1>1, <1>2, <1>3 DEF AgentInv, StartsInv
<1>6. ProgressInv'
  BY <1>1, <1>2, <1>3, ProgressUntouched DEF AgentInv
<1> QED
  BY <1>3, <1>4, <1>5, <1>6 DEF AgentInv

LEMMA HandleResizeStep ==
  ASSUME AgentInv, HandleResize
  PROVE  AgentInv'
<1>1. /\ asked + size < MaxOther /\ size' = size + 1 /\ resizing' = (agents > 0)
      /\ UNCHANGED <<queue, tokens, spent, heard>> /\ UNCHANGED <<dropped, tasks, cancelled, readQueue, resume, reads>>
      /\ UNCHANGED <<agents, allowed, ended, asked>> /\ UNCHANGED connected
  BY DEF HandleResize, line, files, agent
<1>2. Told' = Told
  BY <1>1 DEF Told
<1>3. (\A f, k : Reader(f, k)' <=> Reader(f, k)) /\ ReadersInv'
  BY <1>1, ReadersUntouched DEF AgentInv
<1>4. LineInv' /\ FilesTyped'
  BY <1>1 DEF AgentInv, LineInv, FilesTyped, QueueDrained
<1>5. RestInv' /\ SizeKnown'
  <2>1. size \in Nat /\ asked \in Nat /\ agents \in Nat /\ (agents = 0 => ~connected) /\ MaxOther \in Nat
    BY AgentAssumption DEF AgentInv, RestInv, LineInv
  <2>2. resizing' \in BOOLEAN /\ (agents = 0 => ~resizing') /\ (connected => resizing')
    <3>1. ASSUME agents > 0 PROVE resizing' = TRUE
      BY <1>1, <3>1, Zenon
    <3>2. ASSUME ~(agents > 0) PROVE resizing' = FALSE
      <4>1. (agents > 0) = FALSE
        BY <3>2
      <4> QED
        BY <1>1, <4>1, Zenon
    <3>3. agents > 0 \/ agents = 0
      BY <2>1
    <3>4. agents = 0 => ~(agents > 0)
      OBVIOUS
    <3> QED
      BY <2>1, <3>1, <3>2, <3>3, <3>4
  <2>3. size + 1 \in Nat /\ size + 1 + asked <= MaxOther
    BY <1>1, <2>1
  <2>4. RestInv'
    BY <1>1, <2>2, <2>3 DEF AgentInv, RestInv
  <2> QED
    BY <1>1, <2>2, <2>4 DEF SizeKnown
<1>6. StartsInv'
  BY <1>1, <1>2, <1>3 DEF AgentInv, StartsInv
<1>7. ProgressInv'
  BY <1>1, <1>2, <1>3, ProgressUntouched DEF AgentInv
<1> QED
  BY <1>3, <1>4, <1>5, <1>6, <1>7 DEF AgentInv

(* A plain message is sent, by the agent's request or to one that left. *)
LEMMA AgentAsksStep ==
  ASSUME AgentInv, AgentAsks
  PROVE  AgentInv'
<1>1. /\ asked + size < MaxOther /\ asked' = asked + 1 /\ Say(Reply)
      /\ UNCHANGED <<dropped, tasks, cancelled, readQueue, resume, reads>>
      /\ UNCHANGED <<agents, allowed, ended>> /\ UNCHANGED <<connected, size, resizing>>
  BY DEF AgentAsks, files
<1>2. /\ Plain(Reply) /\ Reply \in Seq(Chunk) /\ Quiet(Reply) /\ \A f : Pieces(Reply, f) = {} /\ ~Tells(Reply, f)
  BY PlainMessages, PlainSays, QuietPlain
<1>3. /\ LineInv' /\ Told' = (IF connected THEN Told \o Reply ELSE Told)
      /\ \A f : Tells(queue', f) => Tells(queue, f)
  BY <1>1, <1>2, Speaks DEF AgentInv
<1>4. (\A f, k : Reader(f, k)' <=> Reader(f, k)) /\ ReadersInv'
  BY <1>1, ReadersUntouched DEF AgentInv
<1>5. FilesTyped' /\ RestInv'
  <2>1. asked \in Nat /\ size \in Nat /\ MaxOther \in Nat
    BY AgentAssumption DEF AgentInv, RestInv
  <2> QED
    BY <1>1, <2>1 DEF AgentInv, FilesTyped, RestInv
<1>6. StartsInv'
  <2>1. \A f \in Files : Tells(queue, f) => f \notin allowed' /\ \A k : ~Reader(f, k)'
    BY <1>1, <1>4 DEF AgentInv, StartsInv
  <2> QED
    BY <1>1, <1>2, <1>3, <1>4, <2>1, StartsKept DEF AgentInv
<1>7. ProgressInv'
  BY <1>1, <1>2, <1>3, <1>4, ProgressTold DEF AgentInv
<1>8. SizeKnown'
  BY <1>1, <1>2, <1>3, SizeKept DEF AgentInv, Quiet
<1> QED
  BY <1>3, <1>4, <1>5, <1>6, <1>7, <1>8 DEF AgentInv

LEMMA ResizeHelperStep ==
  ASSUME AgentInv, ResizeHelper
  PROVE  AgentInv'
<1> DEFINE p == Monitors(size)
<1>1. /\ resizing' = FALSE /\ Say(p)
      /\ UNCHANGED <<dropped, tasks, cancelled, readQueue, resume, reads>>
      /\ UNCHANGED <<agents, allowed, ended, asked>> /\ UNCHANGED <<connected, size>>
  BY DEF ResizeHelper, files, agent
<1>2. /\ p \in Seq(Chunk) /\ Whole(p) /\ \A f : ~Tells(p, f) /\ Pieces(p, f) = {}
      /\ \A s \in Seq(Chunk) : LastSize(s \o p, size)
  BY MonitorsSays DEF AgentInv, RestInv
<1> HIDE DEF p
<1>3. /\ LineInv' /\ Told' = (IF connected THEN Told \o p ELSE Told)
      /\ \A f : Tells(queue', f) => Tells(queue, f)
  BY <1>1, <1>2, Speaks DEF AgentInv
<1>4. (\A f, k : Reader(f, k)' <=> Reader(f, k)) /\ ReadersInv'
  BY <1>1, ReadersUntouched DEF AgentInv
<1>5. FilesTyped' /\ RestInv'
  BY <1>1 DEF AgentInv, FilesTyped, RestInv
<1>6. StartsInv'
  <2>1. \A f \in Files : Tells(queue, f) => f \notin allowed' /\ \A k : ~Reader(f, k)'
    BY <1>1, <1>4 DEF AgentInv, StartsInv
  <2> QED
    BY <1>1, <1>2, <1>3, <1>4, <2>1, StartsKept DEF AgentInv
<1>7. ProgressInv'
  <2>1. Told \in Seq(Chunk)
    BY ToldTyped DEF AgentInv
  <2>2. ASSUME connected, Whole(Told) PROVE Whole(Told')
    BY <1>2, <1>3, <2>1, <2>2, WholeJoined
  <2>3. ASSUME NEW f \in Files, connected
        PROVE  (Ordered(Told, f) => Ordered(Told', f)) /\ Count(Told', f) = Count(Told, f)
    BY <1>2, <1>3, <2>1, <2>3, OrderedJoined
  <2> QED
    BY <1>1, <1>4, <2>2, <2>3 DEF AgentInv, ProgressInv
<1>8. SizeKnown'
  <2>1. Told \in Seq(Chunk)
    BY ToldTyped DEF AgentInv
  <2> QED
    BY <1>1, <1>2, <1>3, <2>1 DEF SizeKnown, Told
<1> QED
  BY <1>3, <1>4, <1>5, <1>6, <1>7, <1>8 DEF AgentInv

LEMMA AgentDisconnectedStep ==
  ASSUME AgentInv, AgentDisconnected
  PROVE  AgentInv'
<1>1. /\ connected /\ connected' = FALSE /\ heard' = <<>> /\ allowed' = {} /\ ended' = {}
      /\ UNCHANGED <<queue, tokens, spent, size, resizing, agents, asked>>
      /\ UNCHANGED <<dropped, tasks, cancelled, readQueue, resume, reads>>
  BY DEF AgentDisconnected, files
<1>2. LineInv'
  <2>1. heard' \in Seq(Chunk)
    BY <1>1
  <2>2. agents # 0
    BY <1>1 DEF AgentInv, LineInv
  <2> QED
    BY <1>1, <2>1, <2>2 DEF AgentInv, LineInv, QueueDrained
<1>3. (\A f, k : Reader(f, k)' <=> Reader(f, k)) /\ ReadersInv'
  BY <1>1, ReadersUntouched DEF AgentInv
<1>4. RestInv' /\ FilesTyped' /\ SizeKnown' /\ ProgressInv'
  BY <1>1 DEF AgentInv, RestInv, FilesTyped, SizeKnown, ProgressInv
<1>5. StartsInv'
  <2>1. Told' = queue /\ queue' = queue
    <3>1. queue \in Seq(Chunk)
      BY DEF AgentInv, LineInv
    <3>2. <<>> \o queue = queue
      BY <3>1, ConcatEmptySeq
    <3> QED
      BY <1>1, <3>2 DEF Told
  <2>2. \A f \in Files : StartsOnce(queue, f)
    BY ToldStarts DEF AgentInv, StartsInv
  <2>3. \A f \in Files : Tells(queue, f) => f \in dropped /\ \A k : ~Reader(f, k)
    BY DEF AgentInv, StartsInv
  <2>4. \A f : ~Tells(heard', f)
    BY <1>1 DEF Tells
  <2> QED
    BY <1>1, <1>3, <2>1, <2>2, <2>3, <2>4 DEF StartsInv
<1> QED
  BY <1>2, <1>3, <1>4, <1>5 DEF AgentInv

LEMMA ConnectStep ==
  ASSUME AgentInv, ~connected, agents < MaxAgents, NEW t \in Nat, NEW u \in Nat, t + u = Window,
         ConnectAgent(t, u)
  PROVE  AgentInv'
<1> DEFINE p == Caps \o Monitors(size)
           none == <<>>
<1>1. /\ connected' = TRUE /\ Send(p, t, u, none) /\ agents' = agents + 1
      /\ UNCHANGED <<dropped, tasks, cancelled, readQueue, resume, reads>>
      /\ UNCHANGED <<size, resizing, allowed, ended, asked>>
  BY DEF ConnectAgent, files
<1>2. /\ size \in Nat /\ agents \in Nat /\ queue \in Seq(Chunk) /\ none \in Seq(Chunk) /\ none \o queue = queue
  <2>1. queue \in Seq(Chunk) /\ size \in Nat /\ agents \in Nat
    BY DEF AgentInv, RestInv, LineInv
  <2> QED
    BY <2>1, ConcatEmptySeq
<1>3. /\ p \in Seq(Chunk) /\ Whole(p) /\ \A f : ~Tells(p, f) /\ Pieces(p, f) = {}
      /\ LastSize(queue \o p, size)
  <2> DEFINE a == Caps
             b == Monitors(size)
  <2>1. a \in Seq(Chunk) /\ Whole(a) /\ \A f : ~Tells(a, f) /\ Pieces(a, f) = {}
    BY PlainMessages, PlainSays
  <2>2. /\ b \in Seq(Chunk) /\ Whole(b) /\ \A f : ~Tells(b, f) /\ Pieces(b, f) = {}
        /\ \A s \in Seq(Chunk) : LastSize(s \o b, size)
    BY <1>2, MonitorsSays
  <2>3. p = a \o b
    OBVIOUS
  <2> HIDE DEF a, b, p
  <2>4. p \in Seq(Chunk)
    BY <2>1, <2>2, <2>3, Joined
  <2>5. Whole(p)
    BY <2>1, <2>2, <2>3, WholeJoined
  <2>6. ASSUME NEW f PROVE ~Tells(p, f) /\ Pieces(p, f) = {}
    <3>1. Tells(p, f) <=> Tells(a, f) \/ Tells(b, f)
      BY <2>1, <2>2, <2>3, TellsJoined
    <3>2. Pieces(b, f) = {} => Pieces(p, f) = Pieces(a, f)
      BY <2>1, <2>2, <2>3, PiecesJoined
    <3> QED
      BY <2>1, <2>2, <3>1, <3>2
  <2>7. LastSize(queue \o p, size)
    <3>1. (queue \o a) \o b = queue \o p
      BY <1>2, <2>1, <2>2, <2>3, Regroup
    <3>2. queue \o a \in Seq(Chunk)
      BY <1>2, <2>1, Joined
    <3>3. LastSize((queue \o a) \o b, size)
      BY <2>2, <3>2
    <3> QED
      BY <3>1, <3>3
  <2> QED
    BY <2>4, <2>5, <2>6, <2>7
<1> HIDE DEF p, none
<1>4. /\ queue' \in Seq(Chunk) /\ heard' \in Seq(Chunk) /\ Told' = queue \o p
      /\ tokens' \in Nat /\ spent' \in Nat /\ tokens' + spent' = Window
      /\ tokens' > 0 => queue' = <<>>
      /\ \A f : Tells(queue', f) => Tells(queue, f)
  <2>1. /\ queue' \in Seq(Chunk) /\ heard' \in Seq(Chunk) /\ Told' = (none \o queue) \o p
        /\ tokens' \in Nat /\ spent' \in Nat /\ tokens' + spent' = t + u
        /\ tokens' > 0 => queue' = <<>>
        /\ \A f : Tells(queue', f) => Tells(queue, f) \/ Tells(p, f)
    BY <1>1, <1>2, <1>3, SendsOn
  <2> QED
    BY <1>2, <1>3, <2>1
<1>5. LineInv' /\ RestInv' /\ FilesTyped'
  <2>1. MaxAgents \in Nat /\ agents + 1 \in 0 .. MaxAgents /\ agents + 1 # 0
    BY <1>2, AgentAssumption
  <2>2. LineInv'
    BY <1>1, <1>4, <2>1 DEF LineInv, QueueDrained
  <2> QED
    BY <1>1, <2>1, <2>2 DEF AgentInv, RestInv, FilesTyped
<1>6. (\A f, k : Reader(f, k)' <=> Reader(f, k)) /\ ReadersInv'
  BY <1>1, ReadersUntouched DEF AgentInv
<1>7. StartsInv'
  <2> SUFFICES ASSUME NEW f \in Files
               PROVE  /\ StartsOnce(Told', f)
                      /\ Tells(queue', f) => f \in dropped' /\ f \notin allowed' /\ \A k : ~Reader(f, k)'
                      /\ Tells(heard', f) => f \in dropped' /\ (f \notin allowed' => \A k : ~Reader(f, k)')
    BY DEF StartsInv
  <2>1. StartsOnce(queue, f)
    BY ToldStarts DEF AgentInv, StartsInv
  <2>2. StartsOnce(queue \o p, f) /\ (Tells(queue \o p, f) => Tells(queue, f))
    BY <1>2, <1>3, <2>1, TellsJoined
  <2>3. Tells(heard', f) => Tells(queue, f)
    <3>1. Told' = heard' \o queue'
      BY DEF Told
    <3>2. \A s, q \in Seq(Chunk) : Tells(s, f) => Tells(s \o q, f)
      BY TellsJoined
    <3> QED
      BY <1>4, <2>2, <3>1, <3>2
  <2>4. Tells(queue, f) => f \in dropped /\ f \notin allowed /\ \A k : ~Reader(f, k)
    BY DEF AgentInv, StartsInv
  <2> QED
    BY <1>1, <1>4, <1>6, <2>2, <2>3, <2>4
<1>8. ProgressInv'
  <2> SUFFICES ASSUME agents' <= 1
               PROVE  /\ Whole(Told')
                      /\ \A f \in Files : /\ Ordered(Told', f)
                                          /\ f \notin allowed' => Count(Told', f) = 0
                                          /\ \A k : Reader(f, k)' => f \in allowed' /\ k = Count(Told', f)
    BY DEF ProgressInv
  <2>1. agents = 0
    BY <1>1, <1>2
  <2>2. queue = <<>> /\ dropped = {}
    BY <2>1 DEF AgentInv, LineInv, FilesTyped
  <2>3. Told' = p
    BY <1>3, <1>4, <2>2, ConcatEmptySeq
  <2>4. \A f, k : ~Reader(f, k)
    BY <2>2 DEF AgentInv, ReadersInv
  <2>5. \A f : Ordered(p, f) /\ Count(p, f) = 0
    BY <1>3, FS_EmptySet DEF Ordered, Count
  <2> QED
    BY <1>3, <1>6, <2>3, <2>4, <2>5
<1>9. SizeKnown'
  BY <1>1, <1>3, <1>4 DEF SizeKnown, Told
<1> QED
  BY <1>5, <1>6, <1>7, <1>8, <1>9 DEF AgentInv

LEMMA AgentConnectedStep ==
  ASSUME AgentInv, AgentConnected
  PROVE  AgentInv'
BY ConnectStep DEF AgentConnected, AgentInv, LineInv

LEMMA AgentConnectedTokensStep ==
  ASSUME AgentInv, AgentConnectedTokens
  PROVE  AgentInv'
<1>1. Window \in Nat /\ Window + 0 = Window /\ MaxAgents \in Nat
  BY AgentAssumption
<1>2. ~connected /\ agents < MaxAgents /\ ConnectAgent(Window, 0)
  BY <1>1 DEF AgentConnectedTokens
<1> QED
  BY <1>1, <1>2, ConnectStep

-----------------------------------------------------------------------------
(* Reading files *)

(* f is in no other place when file_xfer_read() decides on its next read. *)
Free(f, others) ==
  /\ f \in dropped /\ others \subseteq reads
  /\ \A r \in others : r.f # f
  /\ \A i \in DOMAIN readQueue : readQueue[i] # f

LEMMA ReadEnds ==
  ASSUME ReadersInv, NEW f, NEW others, Free(f, others), reads' = others, UNCHANGED <<readQueue, resume, dropped>>
  PROVE  ReadersInv' /\ \A g, k : Reader(g, k)' => g # f /\ Reader(g, k)
<1>1. \A g, k : Reader(g, k)' => g # f /\ Reader(g, k)
  BY DEF Reader, Free
<1>2. reads' \subseteq reads
  BY DEF Free
<1>3. ReadersInv'
  BY <1>1, <1>2 DEF ReadersInv
<1> QED
  BY <1>1, <1>3

LEMMA ReadGoesOn ==
  ASSUME ReadersInv, dropped \subseteq Files, NEW f, NEW from \in Nat, NEW others, Free(f, others),
         from < Reads[f], reads' = others \cup {[f |-> f, from |-> from]},
         UNCHANGED <<readQueue, resume, dropped>>
  PROVE  ReadersInv' /\ \A g, k : Reader(g, k)' => (g # f /\ Reader(g, k)) \/ (g = f /\ k = from)
<1> DEFINE new == [f |-> f, from |-> from]
<1>1. new \in Tasks /\ new.f = f /\ new.from = from
  BY DEF Free, Tasks
<1>2. reads' = others \cup {new}
  OBVIOUS
<1> HIDE DEF new
<1>3. \A g, k : Reader(g, k)' => (g # f /\ Reader(g, k)) \/ (g = f /\ k = from)
  BY <1>1, <1>2 DEF Reader, Free
<1>4. reads' \subseteq Tasks
  BY <1>1, <1>2 DEF ReadersInv, Free
<1>5. \A r, q \in reads' : r.f = q.f => r = q
  BY <1>1, <1>2 DEF ReadersInv, Free
<1>6. \A r \in reads', i \in DOMAIN readQueue : readQueue[i] # r.f
  BY <1>1, <1>2 DEF ReadersInv, Free
<1>7. \A g, k : Reader(g, k)' => g \in dropped' /\ k < Reads[g]
  BY <1>3 DEF ReadersInv, Free
<1>8. ReadersInv'
  BY <1>4, <1>5, <1>6, <1>7 DEF ReadersInv
<1> QED
  BY <1>3, <1>8

LEMMA ReadWaits ==
  ASSUME ReadersInv, dropped \subseteq Files, NEW f, NEW from \in Nat, NEW others, Free(f, others),
         from < Reads[f], reads' = others, Wait(f, from), UNCHANGED dropped
  PROVE  ReadersInv' /\ \A g, k : Reader(g, k)' => (g # f /\ Reader(g, k)) \/ (g = f /\ k = from)
<1> DEFINE n == Len(readQueue)
<1>1. f \in Files /\ readQueue \in Seq(Files) /\ resume \in [Files -> Nat]
  BY DEF Free, ReadersInv
<1>2. n \in Nat /\ DOMAIN readQueue = 1 .. n
  BY <1>1
<1>3. /\ readQueue' \in Seq(Files) /\ DOMAIN readQueue' = 1 .. n + 1
      /\ readQueue'[n + 1] = f /\ \A i \in 1 .. n : readQueue'[i] = readQueue[i]
  BY <1>1 DEF Wait
<1>4. resume' \in [Files -> Nat] /\ resume'[f] = from /\ \A g : g # f => resume'[g] = resume[g]
  BY <1>1 DEF Wait
<1> HIDE DEF n
<1>5. \A i \in 1 .. n + 1 : i \in 1 .. n \/ i = n + 1
  BY <1>2
<1>6. \A i \in 1 .. n : readQueue[i] # f
  BY <1>2 DEF Free
<1>7. \A g, k : Reader(g, k)' => (g # f /\ Reader(g, k)) \/ (g = f /\ k = from)
  <2> SUFFICES ASSUME NEW g, NEW k, Reader(g, k)'
               PROVE  (g # f /\ Reader(g, k)) \/ (g = f /\ k = from)
    OBVIOUS
  <2>1. CASE \E r \in reads' : r.f = g /\ r.from = k
    BY <2>1 DEF Reader, Free
  <2>2. ASSUME NEW i \in DOMAIN readQueue', readQueue'[i] = g, resume'[g] = k
        PROVE  (g # f /\ Reader(g, k)) \/ (g = f /\ k = from)
    BY <1>2, <1>3, <1>4, <1>5, <1>6, <2>2 DEF Reader
  <2> QED
    BY <2>1, <2>2 DEF Reader
<1>8. reads' \subseteq Tasks /\ \A r, q \in reads' : r.f = q.f => r = q
  BY DEF ReadersInv, Free
<1>9. \A i, j \in DOMAIN readQueue' : readQueue'[i] = readQueue'[j] => i = j
  BY <1>2, <1>3, <1>5, <1>6 DEF ReadersInv
<1>10. \A r \in reads', i \in DOMAIN readQueue' : readQueue'[i] # r.f
  BY <1>2, <1>3, <1>5 DEF ReadersInv, Free
<1>11. \A g, k : Reader(g, k)' => g \in dropped' /\ k < Reads[g]
  BY <1>7 DEF ReadersInv, Free
<1>12. ReadersInv'
  BY <1>3, <1>4, <1>8, <1>9, <1>10, <1>11 DEF ReadersInv
<1> QED
  BY <1>7, <1>12

(* file_xfer_read(): it sends what it was given, perhaps with a cancellation *)
(* after it, and f is read at most where the caller said.                    *)
LEMMA ReadDecided ==
  ASSUME ReadersInv, dropped \subseteq Files, NEW f, NEW from \in Nat, NEW p, NEW others, Free(f, others),
         FileXferRead(f, from, p, others), UNCHANGED dropped
  PROVE  /\ ReadersInv' /\ tasks' \subseteq tasks /\ (Say(p) \/ Say(p \o Cancel(f)))
         /\ \A g, k : Reader(g, k)' => (g # f /\ Reader(g, k)) \/ (g = f /\ k = from)
<1>1. CASE Say(p) /\ reads' = others /\ UNCHANGED <<tasks, readQueue, resume>>
  <2>1. ReadersInv' /\ \A g, k : Reader(g, k)' => g # f /\ Reader(g, k)
    BY <1>1, ReadEnds
  <2> QED
    BY <1>1, <2>1
<1>2. CASE Say(p \o Cancel(f)) /\ tasks' = tasks \ {f} /\ reads' = others /\ UNCHANGED <<readQueue, resume>>
  <2>1. ReadersInv' /\ \A g, k : Reader(g, k)' => g # f /\ Reader(g, k)
    BY <1>2, ReadEnds
  <2> QED
    BY <1>2, <2>1
<1>3. CASE from < Reads[f] /\ Say(p) /\ Wait(f, from) /\ reads' = others /\ UNCHANGED tasks
  BY <1>3, ReadWaits
<1>4. CASE /\ from < Reads[f] /\ Say(p) /\ reads' = others \cup {[f |-> f, from |-> from]}
           /\ UNCHANGED <<readQueue, resume, tasks>>
  BY <1>4, ReadGoesOn
<1> QED
  BY <1>1, <1>2, <1>3, <1>4 DEF FileXferRead

(* Parts that carry file f on to place k, and nothing else that counts. *)
Advances(p, f, k) ==
  /\ Quiet(p)
  /\ \A g : g # f => Pieces(p, g) = {}
  /\ agents <= 1 /\ connected => Ordered(Told \o p, f) /\ Count(Told \o p, f) = k

LEMMA AdvancesPlain ==
  ASSUME LineInv, NEW f, NEW k, NEW p, Advances(p, f, k), NEW c, Plain(c)
  PROVE  Advances(p \o c, f, k)
<1>1. Told \in Seq(Chunk) /\ p \in Seq(Chunk) /\ Whole(p)
  BY ToldTyped DEF Advances, Quiet
<1>2. c \in Seq(Chunk) /\ Whole(c)
  BY PlainSays
<1>3. \A i \in DOMAIN c : c[i].msg.kind # "monitors"
  BY PlainSays
<1>4. \A g : ~Tells(c, g) /\ Pieces(c, g) = {}
  BY PlainSays
<1>5. Quiet(p \o c)
  <2>1. p \o c \in Seq(Chunk)
    BY <1>1, <1>2, Joined
  <2>2. Whole(p \o c)
    BY <1>1, <1>2, WholeJoined
  <2>3. \A g : ~Tells(p \o c, g)
    BY <1>1, <1>2, <1>4, TellsJoined DEF Advances, Quiet
  <2>4. ASSUME NEW i \in DOMAIN (p \o c) PROVE (p \o c)[i].msg.kind # "monitors"
    <3> DEFINE n == Len(p)
               m == Len(c)
               a == p \o c
    <3>1. /\ DOMAIN a = 1 .. n + m
          /\ \A x \in 1 .. n : a[x] = p[x]
          /\ \A x \in 1 .. m : a[n + x] = c[x]
          /\ \A x \in 1 .. n + m : x \in 1 .. n \/ \E y \in 1 .. m : x = n + y
      BY <1>1, <1>2, Joined
    <3>2. DOMAIN p = 1 .. n /\ DOMAIN c = 1 .. m
      BY <1>1, <1>2
    <3>3. \A x \in 1 .. n : p[x].msg.kind # "monitors"
      BY <3>2 DEF Advances, Quiet
    <3>4. i \in DOMAIN a
      OBVIOUS
    <3> HIDE DEF n, m, a
    <3>5. a[i].msg.kind # "monitors"
      BY <1>3, <3>1, <3>2, <3>3, <3>4
    <3> QED
      BY <3>5 DEF a
  <2> QED
    BY <2>1, <2>2, <2>3, <2>4 DEF Quiet
<1>6. \A g : g # f => Pieces(p \o c, g) = {}
  BY <1>1, <1>2, <1>4, PiecesJoined DEF Advances
<1>7. ASSUME agents <= 1, connected
      PROVE  Ordered(Told \o (p \o c), f) /\ Count(Told \o (p \o c), f) = k
  <2>1. Told \o p \in Seq(Chunk)
    BY <1>1, Joined
  <2>2. Ordered(Told \o p, f) /\ Count(Told \o p, f) = k
    BY <1>7 DEF Advances
  <2>3. Ordered((Told \o p) \o c, f) /\ Count((Told \o p) \o c, f) = k
    BY <1>2, <1>4, <2>1, <2>2, OrderedJoined
  <2>4. (Told \o p) \o c = Told \o (p \o c)
    BY <1>1, <1>2, Regroup
  <2> QED
    BY <2>3, <2>4
<1> QED
  BY <1>5, <1>6, <1>7 DEF Advances

LEMMA ReadStep ==
  ASSUME AgentInv, NEW f, NEW from \in Nat, NEW p, NEW others,
         Free(f, others), Advances(p, f, from), FileXferRead(f, from, p, others),
         UNCHANGED <<connected, dropped, cancelled, size, resizing, agents, ended, asked>>,
         allowed' = allowed \/ (connected /\ allowed' = allowed \cup {f}),
         ~Tells(queue, f),
         f \in allowed' \/ \E k : Reader(f, k),
         agents <= 1 /\ connected => f \in allowed'
  PROVE  AgentInv'
<1>1. /\ LineInv /\ RestInv /\ FilesTyped /\ ReadersInv /\ StartsInv /\ ProgressInv /\ SizeKnown
  BY DEF AgentInv
<1>2. dropped \subseteq Files /\ f \in Files /\ f \in dropped
  BY <1>1 DEF FilesTyped, Free
<1>3. /\ ReadersInv' /\ tasks' \subseteq tasks /\ (Say(p) \/ Say(p \o Cancel(f)))
      /\ \A g, k : Reader(g, k)' => (g # f /\ Reader(g, k)) \/ (g = f /\ k = from)
  BY <1>1, <1>2, ReadDecided
<1>4. \E q : Say(q) /\ Advances(q, f, from)
  <2>1. CASE Say(p)
    BY <2>1
  <2>2. CASE Say(p \o Cancel(f))
    BY <1>1, <1>2, <2>2, PlainMessages, AdvancesPlain
  <2> QED
    BY <1>3, <2>1, <2>2
<1>5. PICK q : Say(q) /\ Advances(q, f, from)
  BY <1>4
<1>6. /\ q \in Seq(Chunk) /\ Whole(q) /\ \A i \in DOMAIN q : q[i].msg.kind # "monitors"
      /\ \A g : ~Tells(q, g)
      /\ \A g : g # f => Pieces(q, g) = {}
      /\ agents <= 1 /\ connected => Ordered(Told \o q, f) /\ Count(Told \o q, f) = from
  BY <1>5 DEF Advances, Quiet
<1>7. LineInv' /\ Told' = IF connected THEN Told \o q ELSE Told
  BY <1>1, <1>5, <1>6, Speaks
<1>8. \A g : Tells(queue', g) => Tells(queue, g)
  BY <1>1, <1>5, <1>6, Speaks
<1>9. RestInv'
  BY <1>1 DEF RestInv
<1>10. FilesTyped'
  BY <1>1, <1>2, <1>3 DEF FilesTyped
<1>11. StartsInv'
  <2>1. \A g \in Files : Tells(queue, g) => g \notin allowed /\ \A k : ~Reader(g, k)
    BY <1>1 DEF StartsInv
  <2>2. \A g \in Files : Tells(queue, g) => g \notin allowed' /\ \A k : ~Reader(g, k)'
    BY <1>3, <2>1
  <2>3. \A g \in Files : \A k : Reader(g, k)' => g \in allowed' \/ \E j : Reader(g, j)
    BY <1>3
  <2>4. allowed \subseteq allowed' /\ UNCHANGED dropped
    OBVIOUS
  <2> QED
    BY <1>1, <1>6, <1>7, <1>8, <2>2, <2>3, <2>4, StartsKept
<1>12. ProgressInv'
  <2>1. Told \in Seq(Chunk)
    BY <1>1, ToldTyped
  <2> SUFFICES ASSUME agents <= 1, connected
               PROVE  /\ Whole(Told')
                      /\ \A g \in Files : /\ Ordered(Told', g)
                                          /\ g \notin allowed' => Count(Told', g) = 0
                                          /\ \A k : Reader(g, k)' => g \in allowed' /\ k = Count(Told', g)
    BY DEF ProgressInv
  <2>2. /\ Whole(Told)
        /\ \A g \in Files : /\ Ordered(Told, g)
                            /\ g \notin allowed => Count(Told, g) = 0
                            /\ \A k : Reader(g, k) => g \in allowed /\ k = Count(Told, g)
    BY <1>1 DEF ProgressInv
  <2>3. Told' = Told \o q /\ f \in allowed' /\ allowed \subseteq allowed'
    BY <1>7
  <2>4. Whole(Told')
    BY <1>6, <2>1, <2>2, <2>3, WholeJoined
  <2>5. Ordered(Told', f) /\ Count(Told', f) = from
    BY <1>6, <2>3
  <2>6. ASSUME NEW g \in Files, g # f PROVE Ordered(Told', g) /\ Count(Told', g) = Count(Told, g)
    BY <1>6, <2>1, <2>2, <2>3, <2>6, OrderedJoined
  <2>7. ASSUME NEW g \in Files
        PROVE  /\ Ordered(Told', g)
               /\ g \notin allowed' => Count(Told', g) = 0
               /\ \A k : Reader(g, k)' => g \in allowed' /\ k = Count(Told', g)
    <3>1. CASE g = f
      BY <1>3, <2>3, <2>5, <3>1
    <3>2. CASE g # f
      BY <1>3, <2>2, <2>3, <2>6, <3>2
    <3> QED
      BY <3>1, <3>2
  <2> QED
    BY <2>4, <2>7
<1>13. SizeKnown'
  BY <1>1, <1>6, <1>7, SizeKept
<1> QED
  BY <1>3, <1>7, <1>9, <1>10, <1>11, <1>12, <1>13 DEF AgentInv

LEMMA CanSendDataStep ==
  ASSUME AgentInv, NEW f \in Files, CanSendData(f)
  PROVE  AgentInv'
<1>1. /\ connected /\ f \notin allowed /\ allowed' = allowed \cup {f}
      /\ [msg |-> MessageOf("start", f, 0), part |-> 1] \in {heard[i] : i \in DOMAIN heard}
      /\ FileXferRead(f, 0, <<>>, reads)
      /\ UNCHANGED <<connected, dropped, cancelled, size, resizing, agents, ended, asked>>
  BY DEF CanSendData, StartHeard
<1>2. Tells(heard, f)
  BY <1>1 DEF Tells, Starts
<1>3. f \in dropped /\ \A k : ~Reader(f, k)
  BY <1>1, <1>2 DEF AgentInv, StartsInv
<1>4. ~Tells(queue, f)
  BY <1>2, ToldStarts DEF AgentInv, StartsInv
<1>5. Free(f, reads)
  BY <1>3 DEF Free, Reader
<1>6. Advances(<<>>, f, 0)
  <2>1. Quiet(<<>>) /\ \A g : Pieces(<<>>, g) = {}
    BY PlainMessages, QuietPlain
  <2>2. Told \in Seq(Chunk)
    BY ToldTyped DEF AgentInv
  <2>3. Told \o <<>> = Told
    BY <2>2, ConcatEmptySeq
  <2>4. agents <= 1 /\ connected => Ordered(Told, f) /\ Count(Told, f) = 0
    BY <1>1 DEF AgentInv, ProgressInv
  <2> QED
    BY <2>1, <2>3, <2>4 DEF Advances
<1>7. 0 \in Nat /\ f \in allowed'
  BY <1>1
<1>8. allowed' = allowed \/ (connected /\ allowed' = allowed \cup {f})
  BY <1>1
<1> QED
  BY <1>1, <1>4, <1>5, <1>6, <1>7, <1>8, ReadStep

LEMMA OnLoadStep ==
  ASSUME AgentInv, NEW r \in reads, OnLoad(r)
  PROVE  AgentInv'
<1> DEFINE f == r.f
           k == r.from
           p == Data(f, k)
<1>1. /\ FileXferRead(f, k + 1, p, reads \ {r})
      /\ UNCHANGED <<connected, dropped, cancelled, size, resizing, agents, ended, asked>>
      /\ allowed' = allowed
  BY DEF OnLoad, agent
<1>2. k \in Nat /\ k + 1 \in Nat /\ f \in Files
  BY DEF AgentInv, ReadersInv, Tasks
<1>3. Reader(f, k)
  BY DEF Reader
<1>4. f \in dropped /\ ~Tells(queue, f)
  BY <1>2, <1>3 DEF AgentInv, ReadersInv, StartsInv
<1>5. Free(f, reads \ {r})
  BY <1>4 DEF AgentInv, ReadersInv, Free
<1>6. /\ p \in Seq(Chunk) /\ Whole(p)
      /\ \A i \in DOMAIN p : p[i].msg.kind # "monitors"
      /\ \A g : ~Tells(p, g) /\ (g # f => Pieces(p, g) = {})
      /\ Pieces(p, f) = {1} /\ p[1].msg.at = k
  BY <1>2, DataSays
<1> HIDE DEF p, f, k
<1>7. agents <= 1 /\ connected => f \in allowed /\ Ordered(Told, f) /\ k = Count(Told, f)
  BY <1>2, <1>3 DEF AgentInv, ProgressInv
<1>8. Advances(p, f, k + 1)
  <2>1. Told \in Seq(Chunk)
    BY ToldTyped DEF AgentInv
  <2>2. agents <= 1 /\ connected => Ordered(Told \o p, f) /\ Count(Told \o p, f) = k + 1
    BY <1>6, <1>7, <2>1, OrderedJoined
  <2> QED
    BY <1>6, <2>2 DEF Advances, Quiet
<1>9. f \in allowed' \/ \E j : Reader(f, j)
  BY <1>3
<1>10. agents <= 1 /\ connected => f \in allowed'
  BY <1>1, <1>7
<1> QED
  BY <1>1, <1>2, <1>4, <1>5, <1>8, <1>9, <1>10, ReadStep

LEMMA DropStep ==
  ASSUME AgentInv, NEW f \in Files, Drop(f)
  PROVE  AgentInv'
<1> DEFINE p == StartOf(f)
<1>1. /\ agents > 0 /\ f \notin dropped /\ dropped' = dropped \cup {f} /\ tasks' = tasks \cup {f}
      /\ Say(p)
      /\ UNCHANGED <<cancelled, readQueue, resume, reads>> /\ UNCHANGED <<connected, size, resizing>>
      /\ UNCHANGED <<agents, allowed, ended, asked>>
  BY DEF Drop, agent
<1>2. /\ p \in Seq(Chunk) /\ Whole(p)
      /\ \A i \in DOMAIN p : p[i].msg.kind # "monitors"
      /\ \A g : (Tells(p, g) <=> g = f) /\ StartsOnce(p, g) /\ Pieces(p, g) = {}
  BY StartSays
<1> HIDE DEF p
<1>3. /\ LineInv /\ RestInv /\ FilesTyped /\ ReadersInv /\ StartsInv /\ ProgressInv /\ SizeKnown
  BY DEF AgentInv
<1>4. /\ LineInv' /\ Told' = (IF connected THEN Told \o p ELSE Told)
      /\ \A g : Tells(queue', g) => Tells(queue, g) \/ Tells(p, g)
  BY <1>1, <1>2, <1>3, Speaks
<1>5. (\A g, k : Reader(g, k)' <=> Reader(g, k)) /\ ReadersInv'
  BY <1>1, <1>3, ReadersUntouched
<1>6. RestInv' /\ FilesTyped' /\ SizeKnown'
  <2>1. agents # 0
    BY <1>1
  <2>2. RestInv' /\ FilesTyped'
    BY <1>1, <1>3, <2>1 DEF RestInv, FilesTyped
  <2>3. SizeKnown'
    BY <1>1, <1>2, <1>3, <1>4, SizeKept
  <2> QED
    BY <2>2, <2>3
<1>7. Told \in Seq(Chunk) /\ (\A g : Tells(Told, g) <=> Tells(heard, g) \/ Tells(queue, g))
  BY <1>3, ToldTyped, ToldStarts
<1>8. f \notin allowed /\ (\A k : ~Reader(f, k)) /\ ~Tells(Told, f)
  BY <1>1, <1>3, <1>7 DEF FilesTyped, ReadersInv, StartsInv
<1>9. StartsInv'
  <2> SUFFICES ASSUME NEW g \in Files
               PROVE  /\ StartsOnce(Told', g)
                      /\ Tells(queue', g) => g \in dropped' /\ g \notin allowed' /\ \A k : ~Reader(g, k)'
                      /\ Tells(heard', g) => g \in dropped' /\ (g \notin allowed' => \A k : ~Reader(g, k)')
    BY DEF StartsInv
  <2>1. /\ StartsOnce(Told, g)
        /\ Tells(queue, g) => g \in dropped /\ g \notin allowed /\ \A k : ~Reader(g, k)
        /\ Tells(heard, g) => g \in dropped /\ (g \notin allowed => \A k : ~Reader(g, k))
    BY <1>3 DEF StartsInv
  <2>2. StartsOnce(Told \o p, g) /\ (Tells(Told \o p, g) => Tells(Told, g) \/ g = f)
    <3>1. CASE g = f
      BY <1>2, <1>7, <1>8, <2>1, <3>1, TellsJoined
    <3>2. CASE g # f
      BY <1>2, <1>7, <2>1, <3>2, TellsJoined
    <3> QED
      BY <3>1, <3>2
  <2>3. StartsOnce(Told', g) /\ (Tells(Told', g) => Tells(Told, g) \/ g = f)
    BY <1>4, <2>1, <2>2
  <2>4. Tells(heard', g) => Tells(Told', g)
    <3>1. queue' \in Seq(Chunk) /\ heard' \in Seq(Chunk) /\ Told' = heard' \o queue'
      BY <1>4 DEF LineInv, Told
    <3>2. \A s, q \in Seq(Chunk) : Tells(s, g) => Tells(s \o q, g)
      BY TellsJoined
    <3> QED
      BY <3>1, <3>2
  <2> QED
    BY <1>1, <1>2, <1>4, <1>5, <1>7, <1>8, <2>1, <2>3, <2>4
<1>10. ProgressInv'
  <2> SUFFICES ASSUME agents <= 1, connected
               PROVE  /\ Whole(Told')
                      /\ \A g \in Files : /\ Ordered(Told', g)
                                          /\ g \notin allowed' => Count(Told', g) = 0
                                          /\ \A k : Reader(g, k)' => g \in allowed' /\ k = Count(Told', g)
    BY <1>1 DEF ProgressInv
  <2>1. /\ Whole(Told)
        /\ \A g \in Files : /\ Ordered(Told, g)
                            /\ g \notin allowed => Count(Told, g) = 0
                            /\ \A k : Reader(g, k) => g \in allowed /\ k = Count(Told, g)
    BY <1>3 DEF ProgressInv
  <2>2. Told' = Told \o p
    BY <1>4
  <2>3. Whole(Told')
    BY <1>2, <1>7, <2>1, <2>2, WholeJoined
  <2>4. ASSUME NEW g \in Files PROVE Ordered(Told', g) /\ Count(Told', g) = Count(Told, g)
    BY <1>2, <1>7, <2>1, <2>2, OrderedJoined
  <2> QED
    BY <1>1, <1>5, <2>1, <2>3, <2>4
<1> QED
  BY <1>4, <1>5, <1>6, <1>9, <1>10 DEF AgentInv

-----------------------------------------------------------------------------
(* AGENT_TOKEN *)

LEMMA LeastElement ==
  ASSUME NEW T, T \subseteq Nat, T # {}
  PROVE  \E i \in T : \A j \in T : ~(j < i)
<1> DEFINE R == OpToRel(<, Nat)
<1>1. \A k, m \in Nat : <<k, m>> \in R <=> k < m
  BY DEF OpToRel
<1>2. IsWellFoundedOn(R, Nat)
  BY NatLessThanWellFounded
<1> HIDE DEF R
<1>3. \E i \in T : \A j \in T : ~(<<j, i>> \in R)
  BY <1>2, WFMin
<1> QED
  BY <1>1, <1>3

(* The place of i among the members of S. *)
RankIn(S, i) == Cardinality({j \in S : j <= i})

(* A finite set of positions has a first, a second, ... a last element. *)
LEMMA RankIsTaken ==
  ASSUME NEW n \in Nat, NEW S, S \subseteq 1 .. n, NEW k \in 1 .. Cardinality(S)
  PROVE  \E i \in S : RankIn(S, i) = k
<1> DEFINE Upto(i) == {j \in S : j <= i}
           T == {i \in 0 .. n : k <= Cardinality(Upto(i))}
<1>1. IsFiniteSet(S)
  <2>1. IsFiniteSet(1 .. n)
    BY FS_Interval
  <2> QED
    BY <2>1, FS_Subset
<1>2. ASSUME NEW i PROVE IsFiniteSet(Upto(i)) /\ Cardinality(Upto(i)) \in Nat
  <2>1. Upto(i) \in SUBSET S
    OBVIOUS
  <2> QED
    BY <1>1, <2>1, FS_Subset, FS_CardinalityType
<1>3. k \in Nat /\ k > 0 /\ k <= Cardinality(S)
  BY <1>1, FS_CardinalityType
<1>4. Upto(n) = S /\ Upto(0) = {}
  <2>1. \A j \in S : j \in Nat /\ j <= n /\ ~(j <= 0)
    OBVIOUS
  <2> QED
    BY <2>1
<1>5. n \in T /\ T \subseteq Nat
  BY <1>3, <1>4
<1>6. PICK i \in T : \A j \in T : ~(j < i)
  BY <1>5, LeastElement
<1>7. i \in 0 .. n /\ k <= Cardinality(Upto(i)) /\ i # 0
  <2>1. i \in 0 .. n /\ k <= Cardinality(Upto(i))
    OBVIOUS
  <2>2. Cardinality(Upto(0)) = 0
    BY <1>4, FS_EmptySet
  <2> HIDE DEF Upto
  <2>3. i # 0
    BY <1>3, <2>1, <2>2
  <2> QED
    BY <2>1, <2>3
<1>8. PICK m \in Nat : m = i - 1
  BY <1>7
<1>9. m \in 0 .. n /\ m < i /\ i = m + 1
  BY <1>7, <1>8
<1>10. m \notin T
  BY <1>6, <1>9
<1>11. Cardinality(Upto(m)) < k
  BY <1>2, <1>3, <1>9, <1>10
<1>12. Upto(i) = IF i \in S THEN Upto(m) \cup {i} ELSE Upto(m)
  <2>1. \A j \in S : j <= i <=> j <= m \/ j = i
    BY <1>9
  <2>2. \A j : j \in Upto(i) <=> j \in Upto(m) \/ (i \in S /\ j = i)
    BY <2>1
  <2> HIDE DEF Upto
  <2> QED
    BY <2>2
<1>13. i \notin Upto(m)
  BY <1>9
<1> HIDE DEF Upto, T
<1>14. i \in S
  BY <1>2, <1>3, <1>7, <1>11, <1>12
<1>15. Cardinality(Upto(i)) = Cardinality(Upto(m)) + 1
  BY <1>2, <1>12, <1>13, <1>14, FS_AddElement
<1>16. Cardinality(Upto(i)) = k
  BY <1>2, <1>3, <1>7, <1>11, <1>15
<1> QED
  BY <1>14, <1>16 DEF Upto, RankIn

(* The reads that are stopped are told of in messages of one part. *)
NthOf(S, k) == CHOOSE i \in S : RankIn(S, i) = k

LEMMA StatusesPlain ==
  ASSUME readQueue \in Seq(Files), NEW n \in 0 .. Len(readQueue), NEW S, S \subseteq 1 .. n
  PROVE  Plain([k \in 1 .. Cardinality(S) |-> Cancel(readQueue[NthOf(S, k)])[1]])
<1> DEFINE m == Cardinality(S)
           p == [k \in 1 .. m |-> Cancel(readQueue[NthOf(S, k)])[1]]
<1>1. n \in Nat /\ \A i \in S : readQueue[i] \in Files
  BY ElementOfSeq
<1>2. m \in Nat
  <2>1. IsFiniteSet(1 .. n)
    BY <1>1, FS_Interval
  <2>2. IsFiniteSet(S)
    BY <2>1, FS_Subset
  <2> QED
    BY <2>2, FS_CardinalityType
<1>3. ASSUME NEW k \in 1 .. m PROVE NthOf(S, k) \in S
  <2>1. \E i \in S : RankIn(S, i) = k
    <3>1. n \in Nat /\ S \subseteq 1 .. n /\ k \in 1 .. Cardinality(S)
      BY <1>1, <1>3
    <3> HIDE DEF m, p
    <3> QED
      BY <3>1, RankIsTaken
  <2> QED
    BY <2>1 DEF NthOf
<1>4. ASSUME NEW f \in Files
      PROVE  Cancel(f)[1] \in Chunk /\ Cancel(f)[1].part = 1 /\ Cancel(f)[1].msg \in Msgs
             /\ Cancel(f)[1].msg.kind = "status"
  <2> DEFINE c == MessageOf("status", f, 0)
  <2>1. c \in Msgs /\ c.kind = "status"
    BY DEF MessageOf, Msgs, MsgKinds
  <2>2. Cancel(f) = Cut(c)
    BY DEF Cancel
  <2> HIDE DEF c
  <2>3. /\ Cut(c) \in Seq(Chunk) /\ DOMAIN Cut(c) = 1 .. Len(Cut(c)) /\ Len(Cut(c)) \in Nat /\ Len(Cut(c)) > 0
        /\ \A i \in DOMAIN Cut(c) : Cut(c)[i].msg = c /\ Cut(c)[i].part = i
    BY <2>1, CutSays
  <2>4. 1 \in DOMAIN Cut(c)
    BY <2>3
  <2>5. Cut(c)[1] \in Chunk
    BY <2>3, <2>4, ElementOfSeq
  <2> QED
    BY <2>1, <2>2, <2>3, <2>4, <2>5
<1>5. \A k \in 1 .. m : p[k] = Cancel(readQueue[NthOf(S, k)])[1]
  OBVIOUS
<1>6. DOMAIN p = 1 .. m
  OBVIOUS
<1>7. \A k \in 1 .. m : /\ p[k] \in Chunk /\ p[k].part = 1 /\ p[k].msg \in Msgs
                        /\ p[k].msg.kind = "status"
  BY <1>1, <1>3, <1>4, <1>5
<1>8. p \in Seq(Chunk)
  <2>1. \A k \in 1 .. m : Cancel(readQueue[NthOf(S, k)])[1] \in Chunk
    BY <1>5, <1>7
  <2> QED
    BY <1>2, <2>1, IsASeq
<1> HIDE DEF p, m
<1>9. Whole(p)
  <2>1. \A k \in 1 .. m : Parts(p[k].msg) = 1
    BY <1>7, PartsPositive
  <2> QED
    BY <1>6, <1>7, <2>1 DEF Whole
<1>10. Plain(p)
  BY <1>6, <1>7, <1>8, <1>9 DEF Plain
<1> QED
  BY <1>10 DEF p, m

(* Reads that go on leave the queue for the readers. *)
LEMMA ReadsTaken ==
  ASSUME ReadersInv, NEW n \in 0 .. Len(readQueue), NEW P, P \subseteq {readQueue[i] : i \in 1 .. n},
         readQueue' = SubSeq(readQueue, n + 1, Len(readQueue)),
         reads' = reads \cup {[f |-> f, from |-> resume[f]] : f \in P}, UNCHANGED <<resume, dropped>>
  PROVE  ReadersInv' /\ \A g, k : Reader(g, k)' => Reader(g, k)
<1> DEFINE m == Len(readQueue)
<1>1. readQueue \in Seq(Files) /\ m \in Nat /\ n \in Nat /\ n <= m /\ DOMAIN readQueue = 1 .. m
  BY DEF ReadersInv
<1>2. /\ readQueue' \in Seq(Files) /\ DOMAIN readQueue' = 1 .. m - n
      /\ \A i \in 1 .. m - n : readQueue'[i] = readQueue[n + i]
  <2>1. /\ Len(readQueue') = m - n /\ readQueue' \in Seq(Files)
        /\ \A i \in 1 .. m - n : readQueue'[i] = readQueue[n + i]
    <3>1. \A i \in n + 1 .. m : i \in DOMAIN readQueue
      BY <1>1
    <3>2. SubSeq(readQueue, n + 1, m) \in Seq(Files)
      BY <1>1, <3>1, SubSeqProperties
    <3>3. Len(SubSeq(readQueue, n + 1, m)) = m - n
      BY <1>1
    <3>4. \A i \in 1 .. m - n : SubSeq(readQueue, n + 1, m)[i] = readQueue[n + i]
      BY <1>1
    <3> QED
      BY <3>2, <3>3, <3>4
  <2>2. DOMAIN readQueue' = 1 .. Len(readQueue')
    BY <2>1
  <2> QED
    BY <2>1, <2>2
<1> HIDE DEF m
<1>3. \A i \in 1 .. m - n : n + i \in 1 .. m /\ n + i \notin 1 .. n
  BY <1>1
<1>4. \A i \in 1 .. n : i \in 1 .. m
  BY <1>1
<1>5. \A f \in P : \E i \in 1 .. n : readQueue[i] = f
  OBVIOUS
<1>6. \A f \in P : f \in Files /\ resume[f] \in Nat
  <2>1. \A i \in 1 .. m : readQueue[i] \in Files
    BY <1>1, ElementOfSeq
  <2>2. \A f \in Files : resume[f] \in Nat
    BY DEF ReadersInv
  <2> QED
    BY <1>4, <1>5, <2>1, <2>2
<1>7. ASSUME NEW r \in reads'
      PROVE  \/ r \in reads
             \/ /\ r.f \in P /\ r.from = resume[r.f] /\ r = [f |-> r.f, from |-> resume[r.f]]
                /\ r \in Tasks
  <2>1. CASE r \in reads
    BY <2>1
  <2>2. ASSUME NEW f \in P, r = [f |-> f, from |-> resume[f]]
        PROVE  /\ r.f \in P /\ r.from = resume[r.f] /\ r = [f |-> r.f, from |-> resume[r.f]]
               /\ r \in Tasks
    BY <1>6, <2>2 DEF Tasks
  <2> QED
    BY <2>1, <2>2
<1>8. \A g, k : Reader(g, k)' => Reader(g, k)
  <2> SUFFICES ASSUME NEW g, NEW k, Reader(g, k)' PROVE Reader(g, k)
    OBVIOUS
  <2>1. ASSUME NEW r \in reads', r.f = g, r.from = k PROVE Reader(g, k)
    <3>1. CASE r \in reads
      BY <2>1, <3>1 DEF Reader
    <3>2. CASE r.f \in P /\ r.from = resume[r.f]
      BY <1>1, <1>4, <1>5, <2>1, <3>2 DEF Reader
    <3> QED
      BY <1>7, <3>1, <3>2
  <2>2. ASSUME NEW i \in DOMAIN readQueue', readQueue'[i] = g, resume'[g] = k PROVE Reader(g, k)
    BY <1>1, <1>2, <1>3, <2>2 DEF Reader
  <2> QED
    BY <2>1, <2>2 DEF Reader
<1>9. reads' \subseteq Tasks
  BY <1>7 DEF ReadersInv
<1>10. ASSUME NEW r \in reads', NEW q \in reads', r.f = q.f PROVE r = q
  <2>1. CASE r \in reads /\ q \in reads
    BY <1>10, <2>1 DEF ReadersInv
  <2>2. CASE r \notin reads /\ q \notin reads
    BY <1>7, <1>10, <2>2
  <2>3. ASSUME NEW a \in reads, NEW b \in reads', b \notin reads PROVE a.f # b.f
    <3>1. b.f \in P
      BY <1>7, <2>3
    <3>2. PICK i \in 1 .. n : readQueue[i] = b.f
      BY <1>5, <3>1
    <3> QED
      BY <1>1, <1>4, <3>2 DEF ReadersInv
  <2> QED
    BY <1>10, <2>1, <2>2, <2>3
<1>11. \A i, j \in DOMAIN readQueue' : readQueue'[i] = readQueue'[j] => i = j
  <2> SUFFICES ASSUME NEW i \in 1 .. m - n, NEW j \in 1 .. m - n, readQueue'[i] = readQueue'[j]
               PROVE  i = j
    BY <1>2
  <2>1. readQueue[n + i] = readQueue[n + j] /\ n + i \in 1 .. m /\ n + j \in 1 .. m
    BY <1>2, <1>3
  <2>2. n + i = n + j
    BY <1>1, <2>1 DEF ReadersInv
  <2> QED
    BY <1>1, <2>2
<1>12. ASSUME NEW r \in reads', NEW i \in DOMAIN readQueue' PROVE readQueue'[i] # r.f
  <2>1. i \in 1 .. m - n /\ readQueue'[i] = readQueue[n + i] /\ n + i \in 1 .. m /\ n + i \notin 1 .. n
    BY <1>2, <1>3
  <2>2. CASE r \in reads
    BY <1>1, <2>1, <2>2 DEF ReadersInv
  <2>3. CASE r \notin reads
    <3>1. PICK j \in 1 .. n : readQueue[j] = r.f
      BY <1>5, <1>7, <2>3
    <3> QED
      BY <1>1, <1>4, <2>1, <3>1 DEF ReadersInv
  <2> QED
    BY <2>2, <2>3
<1>13. ReadersInv'
  BY <1>2, <1>8, <1>9, <1>10, <1>11, <1>12 DEF ReadersInv
<1> QED
  BY <1>8, <1>13

LEMMA AgentTokenStep ==
  ASSUME AgentInv, AgentToken
  PROVE  AgentInv'
<1> DEFINE waiting == IF connected THEN Len(queue) ELSE 0
           left == IF tokens + Batch > waiting THEN tokens + Batch - waiting ELSE 0
           n == IF left < Len(readQueue) THEN left ELSE Len(readQueue)
           picked == {readQueue[i] : i \in 1 .. n} \cap tasks
           stopped == {i \in 1 .. n : readQueue[i] \in tasks \cap cancelled}
           nth(k) == CHOOSE i \in stopped : Cardinality({j \in stopped : j <= i}) = k
           p == [k \in 1 .. Cardinality(stopped) |-> Cancel(readQueue[nth(k)])[1]]
           P == picked \ cancelled
<1>1. /\ spent >= Batch
      /\ IF connected THEN Send(p, tokens + Batch, spent - Batch, heard)
         ELSE tokens' = tokens + Batch /\ spent' = spent - Batch /\ UNCHANGED <<queue, heard>>
      /\ readQueue' = SubSeq(readQueue, n + 1, Len(readQueue))
      /\ reads' = reads \cup {[f |-> f, from |-> resume[f]] : f \in P}
      /\ tasks' = tasks \ (picked \cap cancelled)
      /\ UNCHANGED <<connected, dropped, cancelled, resume, size, resizing>>
      /\ UNCHANGED <<agents, allowed, ended, asked>>
  BY DEF AgentToken, agent
<1>2. /\ queue \in Seq(Chunk) /\ heard \in Seq(Chunk) /\ readQueue \in Seq(Files)
      /\ tokens \in Nat /\ spent \in Nat /\ Batch \in Nat /\ tokens + spent = Window
      /\ Len(queue) \in Nat /\ Len(readQueue) \in Nat
  BY AgentAssumption DEF AgentInv, LineInv, ReadersInv
<1>3. n \in 0 .. Len(readQueue)
  <2>1. waiting \in Nat
    BY <1>2
  <2> HIDE DEF waiting
  <2>2. left \in Nat
    BY <1>2, <2>1
  <2> HIDE DEF left
  <2> QED
    BY <1>2, <2>2
<1> HIDE DEF n
<1>4. Plain(p)
  <2>1. stopped \subseteq 1 .. n
    OBVIOUS
  <2>2. p = [k \in 1 .. Cardinality(stopped) |-> Cancel(readQueue[NthOf(stopped, k)])[1]]
    BY DEF NthOf, RankIn
  <2> HIDE DEF stopped, nth, p
  <2>3. Plain([k \in 1 .. Cardinality(stopped) |-> Cancel(readQueue[NthOf(stopped, k)])[1]])
    BY <1>2, <1>3, <2>1, StatusesPlain
  <2> QED
    BY <2>2, <2>3
<1>5. P \subseteq {readQueue[i] : i \in 1 .. n} /\ tasks' \subseteq tasks
  BY <1>1
<1> HIDE DEF p, P, picked, stopped, nth
<1>6. /\ p \in Seq(Chunk) /\ Quiet(p) /\ \A f : Pieces(p, f) = {}
      /\ \A i \in DOMAIN p : p[i].msg.kind # "monitors"
      /\ \A f : ~Tells(p, f)
  BY <1>4, PlainSays, QuietPlain
<1>7. /\ LineInv' /\ Told' = (IF connected THEN Told \o p ELSE Told)
      /\ \A f : Tells(queue', f) => Tells(queue, f)
  <2>1. /\ tokens + Batch \in Nat /\ spent - Batch \in Nat
        /\ (tokens + Batch) + (spent - Batch) = Window
    BY <1>1, <1>2
  <2>2. CASE connected
    <3>1. Send(p, tokens + Batch, spent - Batch, heard)
      BY <1>1, <2>2
    <3>2. /\ queue' \in Seq(Chunk) /\ heard' \in Seq(Chunk) /\ Told' = (heard \o queue) \o p
          /\ tokens' \in Nat /\ spent' \in Nat
          /\ tokens' + spent' = (tokens + Batch) + (spent - Batch)
          /\ tokens' > 0 => queue' = <<>>
          /\ \A f : Tells(queue', f) => Tells(queue, f) \/ Tells(p, f)
      <4>1. PICK t \in Nat : t = tokens + Batch
        BY <2>1
      <4>2. PICK u \in Nat : u = spent - Batch
        BY <2>1
      <4>3. Send(p, t, u, heard)
        BY <3>1, <4>1, <4>2
      <4>4. /\ queue' \in Seq(Chunk) /\ heard' \in Seq(Chunk) /\ Told' = (heard \o queue) \o p
            /\ tokens' \in Nat /\ spent' \in Nat /\ tokens' + spent' = t + u
            /\ tokens' > 0 => queue' = <<>>
            /\ \A f : Tells(queue', f) => Tells(queue, f) \/ Tells(p, f)
        BY <1>2, <1>6, <4>3, SendsOn
      <4> QED
        BY <4>1, <4>2, <4>4
    <3>3. LineInv'
      BY <1>1, <2>1, <2>2, <3>2 DEF AgentInv, LineInv, QueueDrained
    <3> QED
      BY <1>6, <2>2, <3>2, <3>3 DEF Told
  <2>3. CASE ~connected
    <3>1. tokens' = tokens + Batch /\ spent' = spent - Batch /\ UNCHANGED <<queue, heard>>
      BY <1>1, <2>3
    <3>2. LineInv'
      BY <1>1, <2>1, <2>3, <3>1 DEF AgentInv, LineInv, QueueDrained
    <3> QED
      BY <2>3, <3>1, <3>2 DEF Told
  <2> QED
    BY <2>2, <2>3
<1>8. ReadersInv' /\ \A g, k : Reader(g, k)' => Reader(g, k)
  BY <1>1, <1>3, <1>5, ReadsTaken DEF AgentInv
<1>9. RestInv' /\ FilesTyped'
  BY <1>1, <1>5 DEF AgentInv, RestInv, FilesTyped
<1>10. StartsInv'
  <2>1. \A f \in Files : Tells(queue, f) => f \notin allowed' /\ \A k : ~Reader(f, k)'
    BY <1>1, <1>8 DEF AgentInv, StartsInv
  <2> QED
    BY <1>1, <1>6, <1>7, <1>8, <2>1, StartsKept DEF AgentInv
<1>11. ProgressInv'
  BY <1>1, <1>6, <1>7, <1>8, ProgressTold DEF AgentInv
<1>12. SizeKnown'
  BY <1>1, <1>6, <1>7, SizeKept DEF AgentInv
<1> QED
  BY <1>7, <1>8, <1>9, <1>10, <1>11, <1>12 DEF AgentInv

-----------------------------------------------------------------------------
(* The invariant holds, and what follows from it *)

LEMMA AgentInitInv ==
  ASSUME AgentInit
  PROVE  AgentInv
<1>1. /\ connected = FALSE /\ tokens = Window /\ spent = 0 /\ queue = <<>> /\ heard = <<>>
      /\ dropped = {} /\ tasks = {} /\ cancelled = {} /\ readQueue = <<>> /\ reads = {}
      /\ resume = [f \in Files |-> 0] /\ size = 0 /\ resizing = FALSE
      /\ agents = 0 /\ allowed = {} /\ ended = {} /\ asked = 0
  BY DEF AgentInit
<1>2. Window \in Nat /\ MaxAgents \in Nat /\ MaxOther \in Nat
  BY AgentAssumption
<1>3. LineInv
  BY <1>1, <1>2 DEF LineInv, QueueDrained
<1>4. RestInv /\ FilesTyped
  <2>1. 0 \in 0 .. MaxAgents /\ 0 + 0 <= MaxOther /\ 0 \in Nat
    BY <1>2
  <2>2. RestInv
    BY <1>1, <2>1 DEF RestInv
  <2>3. FilesTyped
    BY <1>1 DEF FilesTyped
  <2> QED
    BY <2>2, <2>3
<1>5. \A f, k : ~Reader(f, k)
  BY <1>1 DEF Reader
<1>6. ReadersInv
  BY <1>1, <1>5 DEF ReadersInv
<1>7. Told = <<>>
  <2>1. <<>> \o <<>> = <<>>
    OBVIOUS
  <2> QED
    BY <1>1, <2>1 DEF Told
<1>8. StartsInv
  BY <1>1, <1>7 DEF StartsInv, StartsOnce, Tells
<1>9. ProgressInv /\ SizeKnown
  BY <1>1 DEF ProgressInv, SizeKnown
<1> QED
  BY <1>3, <1>4, <1>6, <1>8, <1>9 DEF AgentInv

LEMMA AgentStep ==
  ASSUME AgentInv, [AgentNext]_agentVars
  PROVE  AgentInv'
<1>1. CASE AgentConnected
  BY <1>1, AgentConnectedStep
<1>2. CASE AgentConnectedTokens
  BY <1>2, AgentConnectedTokensStep
<1>3. CASE AgentDisconnected
  BY <1>3, AgentDisconnectedStep
<1>4. ASSUME NEW f \in Files, Drop(f) PROVE AgentInv'
  BY <1>4, DropStep
<1>5. ASSUME NEW f \in Files, UserCancels(f) PROVE AgentInv'
  BY <1>5, UserCancelsStep
<1>6. ASSUME NEW f \in Files, CanSendData(f) PROVE AgentInv'
  BY <1>6, CanSendDataStep
<1>7. ASSUME NEW r \in reads, OnLoad(r) PROVE AgentInv'
  BY <1>7, OnLoadStep
<1>8. ASSUME NEW f \in Files, NEW success \in BOOLEAN, AgentEnds(f, success) PROVE AgentInv'
  BY <1>8, AgentEndsStep
<1>9. CASE AgentToken
  BY <1>9, AgentTokenStep
<1>10. CASE AgentAsks
  BY <1>10, AgentAsksStep
<1>11. CASE HandleResize
  BY <1>11, HandleResizeStep
<1>12. CASE ResizeHelper
  BY <1>12, ResizeHelperStep
<1>13. CASE UNCHANGED agentVars
  BY <1>13, StutterStep
<1> QED
  BY <1>1, <1>2, <1>3, <1>4, <1>5, <1>6, <1>7, <1>8, <1>9, <1>10, <1>11, <1>12, <1>13 DEF AgentNext

LEMMA AgentInvariant == AgentSpec => []AgentInv
<1>1. AgentInit => AgentInv
  BY AgentInitInv
<1>2. AgentInv /\ [AgentNext]_agentVars => AgentInv'
  BY AgentStep
<1> QED
  BY <1>1, <1>2, PTL DEF AgentSpec

LEMMA InvTyped ==
  ASSUME AgentInv
  PROVE  AgentTypeOK
<1>1. /\ queue \in Seq(Chunk) /\ tokens \in Nat /\ spent \in Nat /\ tokens + spent = Window /\ Window \in Nat
  BY AgentAssumption DEF AgentInv, LineInv
<1>2. tokens \in 0 .. Window /\ spent \in 0 .. Window
  BY <1>1
<1>3. \A i \in DOMAIN queue : queue[i].part \in 1 .. Parts(queue[i].msg)
  BY <1>1, ChunkFacts
<1>4. ASSUME NEW i \in DOMAIN readQueue
      PROVE  readQueue[i] \in Files /\ resume[readQueue[i]] < Reads[readQueue[i]]
  <2>1. Reader(readQueue[i], resume[readQueue[i]])
    BY DEF Reader
  <2> QED
    BY <2>1 DEF AgentInv, ReadersInv, FilesTyped
<1>5. ASSUME NEW r \in reads PROVE r \in Tasks /\ r.from < Reads[r.f]
  <2>1. Reader(r.f, r.from)
    BY DEF Reader
  <2> QED
    BY <2>1 DEF AgentInv, ReadersInv
<1>6. size \in 0 .. MaxOther /\ asked \in 0 .. MaxOther
  BY AgentAssumption DEF AgentInv, RestInv
<1>7. /\ dropped \subseteq Files /\ tasks \subseteq dropped /\ cancelled \subseteq dropped
      /\ allowed \subseteq Files /\ ended \subseteq Files
  BY DEF AgentInv, FilesTyped
<1>8. connected \in BOOLEAN /\ resizing \in BOOLEAN /\ agents \in 0 .. MaxAgents
  BY DEF AgentInv, RestInv
<1> QED
  BY <1>2, <1>3, <1>4, <1>5, <1>6, <1>7, <1>8 DEF AgentTypeOK

LEMMA InvWhole ==
  ASSUME AgentInv
  PROVE  WholeMessages
<1> SUFFICES ASSUME agents <= 1, NEW i \in DOMAIN heard
             PROVE  /\ heard[i].part > 1 => i > 1 /\ heard[i - 1] = [heard[i] EXCEPT !.part = @ - 1]
                    /\ heard[i].part < Parts(heard[i].msg) /\ i < Len(heard) =>
                         heard[i + 1] = [heard[i] EXCEPT !.part = @ + 1]
  BY DEF WholeMessages
<1>1. queue \in Seq(Chunk) /\ heard \in Seq(Chunk)
  BY DEF AgentInv, LineInv
<1>2. connected
  BY DEF AgentInv, LineInv
<1>3. Whole(heard \o queue)
  BY <1>2 DEF AgentInv, ProgressInv, Told
<1> DEFINE a == heard \o queue
           n == Len(heard)
           m == Len(queue)
<1>4. DOMAIN a = 1 .. n + m /\ \A j \in 1 .. n : a[j] = heard[j]
  BY <1>1, Joined
<1>5. n \in Nat /\ m \in Nat /\ DOMAIN heard = 1 .. n
  BY <1>1
<1>6. Whole(a)
  BY <1>3
<1> HIDE DEF a, n, m
<1>7. i \in 1 .. n /\ i \in DOMAIN a /\ a[i] = heard[i]
  BY <1>4, <1>5
<1>8. /\ a[i].part > 1 => i > 1 /\ a[i - 1] = [a[i] EXCEPT !.part = @ - 1]
      /\ a[i].part < Parts(a[i].msg) => a[i + 1] = [a[i] EXCEPT !.part = @ + 1]
  BY <1>6, <1>7 DEF Whole
<1>9. (i > 1 => i - 1 \in 1 .. n) /\ (i < n => i + 1 \in 1 .. n)
  BY <1>5, <1>7
<1> QED
  BY <1>4, <1>7, <1>8, <1>9 DEF n

LEMMA InvRead ==
  ASSUME AgentInv
  PROVE  FilesRead
<1>1. FilesInOrder
  <2> SUFFICES ASSUME agents <= 1, NEW f \in Files
               PROVE  Ordered(heard, f)
    BY DEF FilesInOrder, Ordered, Before
  <2>1. queue \in Seq(Chunk) /\ heard \in Seq(Chunk)
    BY DEF AgentInv, LineInv
  <2>2. CASE connected
    <3>1. Ordered(heard \o queue, f)
      BY <2>2 DEF AgentInv, ProgressInv, Told
    <3> QED
      BY <2>1, <3>1, OrderedJoined
  <2>3. CASE ~connected
    BY <2>3 DEF AgentInv, LineInv, Ordered, Pieces
  <2> QED
    BY <2>2, <2>3
<1>2. OneReader
  <2> SUFFICES ASSUME NEW f \in Files
               PROVE  Cardinality({r \in reads : r.f = f})
                      + Cardinality({i \in DOMAIN readQueue : readQueue[i] = f}) <= 1
    BY DEF OneReader
  <2> DEFINE A == {r \in reads : r.f = f}
             B == {i \in DOMAIN readQueue : readQueue[i] = f}
  <2>1. \A r, q \in A : r = q
    BY DEF AgentInv, ReadersInv
  <2>2. \A i, j \in B : i = j
    BY DEF AgentInv, ReadersInv
  <2>3. A = {} \/ B = {}
    BY DEF AgentInv, ReadersInv
  <2> HIDE DEF A, B
  <2>4. A = {} \/ \E r : A = {r}
    BY <2>1
  <2>5. B = {} \/ \E i : B = {i}
    BY <2>2
  <2>6. Cardinality(A) = 0 \/ Cardinality(A) = 1
    BY <2>4, FS_EmptySet, FS_Singleton
  <2>7. Cardinality(B) = 0 \/ Cardinality(B) = 1
    BY <2>5, FS_EmptySet, FS_Singleton
  <2>8. Cardinality(A) = 0 \/ Cardinality(B) = 0
    BY <2>3, FS_EmptySet
  <2>9. Cardinality(A) + Cardinality(B) <= 1
    BY <2>6, <2>7, <2>8
  <2> QED
    BY <2>9 DEF A, B
<1> QED
  BY <1>1, <1>2 DEF FilesRead

(* Type correctness of the main channel's way to the agent: tokens stay      *)
(* within the window, what is queued are parts of messages, and every read   *)
(* that is under way or waits is inside a file the user dropped.             *)
THEOREM AgentTyped == AgentSpec => []AgentTypeOK
<1>1. AgentInv => AgentTypeOK
  BY InvTyped
<1> QED
  BY <1>1, AgentInvariant, PTL

(* Flow control (main.js, send_agent_message_queue()): whatever agents come  *)
(* and go, client and server agree about the tokens, and nothing that may be *)
(* sent to an agent is left in the queue.                                    *)
THEOREM TokensAreKept == AgentSpec => []FlowControl
<1>1. AgentInv => FlowControl
  BY DEF AgentInv, LineInv, FlowControl, TokensAddUp
<1> QED
  BY <1>1, AgentInvariant, PTL

(* The first agent is sent whole messages, wherever the tokens cut the queue *)
(* of parts (main.js, agent_msg_queue).                                      *)
THEOREM MessagesAreWhole == AgentSpec => []WholeMessages
<1>1. AgentInv => WholeMessages
  BY InvWhole
<1> QED
  BY <1>1, AgentInvariant, PTL

(* File transfers (main.js, file_xfer_read() and the token handler): a file  *)
(* is read in one place at a time, and the first agent gets its pieces in    *)
(* order, each once, although reads wait, end late or are cancelled.         *)
THEOREM FilesAreRead == AgentSpec => []FilesRead
<1>1. AgentInv => FilesRead
  BY InvRead
<1> QED
  BY <1>1, AgentInvariant, PTL

(* Resizes (resize.js): unless the timer is armed, the last size that a      *)
(* connected agent was told, or is about to be, is the size of the window.   *)
THEOREM SizeIsKnown == AgentSpec => []SizeKnown
<1>1. AgentInv => SizeKnown
  BY DEF AgentInv
<1> QED
  BY <1>1, AgentInvariant, PTL
=============================================================================
