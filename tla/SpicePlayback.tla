---------------------------- MODULE SpicePlayback ----------------------------
(***************************************************************************)
(* The playback channel of the browser client (playback.js): packets from  *)
(* the server become a header, clusters and blocks of a WebM stream, which *)
(* wait in a queue while the media source's buffer is busy.  Media events  *)
(* come when they come, also those of a buffer that is no longer used.     *)
(***************************************************************************)
EXTENDS Integers, Sequences

CONSTANTS Step,        \* EXPECTED_PACKET_DURATION
          MaxCluster,  \* MAX_CLUSTER_TIME
          Wrap,        \* values of a block's 16-bit time code
          Times,       \* times the server gives packets
          MaxPackets,  \* bound: packets
          MaxStarts    \* bound: starts of playback

ASSUME PlaybackAssumption ==
  /\ Step \in Nat \ {0} /\ MaxCluster \in Nat \ {0} /\ Wrap \in Nat /\ 2 * MaxCluster <= Wrap
  /\ Times \subseteq Nat /\ MaxPackets \in Nat /\ MaxStarts \in Nat

VARIABLES
  opening,    \* media sources that have not opened yet
  buffer,     \* is there a source_buffer?
  sink,       \* it and what waits for it: appended, queue, append_okay, updating
  stale,      \* updateend events to come from buffers that were given up
  startTime, clusterTime, lastTime,  \* start_time (0: none), cluster_time, last_data_time
  made,       \* what was made of the packets of this playback, with true times
  upset,      \* the playback met one of the cases named at NothingLost
  packets, starts  \* counters for the bounds

times == <<startTime, clusterTime, lastTime>>
playbackVars == <<opening, buffer, sink, stale, times, made, upset, packets, starts>>

-----------------------------------------------------------------------------
Unused == [appended |-> <<>>, queue |-> <<>>, okay |-> FALSE, updating |-> FALSE]

(* time, of a cluster or a block: its true time; code: what is written.      *)
Header == [kind |-> "header", code |-> 0, time |-> 0]
Cluster(t, start) == [kind |-> "cluster", code |-> t - start, time |-> t - start]

(* playback_append_buffer(): an append to a busy or missing buffer throws,   *)
(* which is logged, and what was to be appended is lost.                     *)
AppendBuffer(s, items) ==
  IF buffer /\ ~s.updating
  THEN [s EXCEPT !.appended = @ \o items, !.updating = TRUE, !.okay = FALSE] ELSE s

Put(s, item) ==
  IF s.okay THEN AppendBuffer(s, <<item>>) ELSE [s EXCEPT !.queue = Append(@, item)]

(* Times do not become negative and at most MaxStarts sources are opening.   *)
PlaybackTypeOK ==
  /\ opening \in 0 .. MaxStarts /\ buffer \in BOOLEAN /\ stale \in 0 .. MaxStarts
  /\ DOMAIN sink = DOMAIN Unused /\ {sink.okay, sink.updating, upset} \subseteq BOOLEAN
  /\ startTime \in Nat /\ clusterTime \in Nat /\ lastTime \in Nat
  /\ packets \in 0 .. MaxPackets /\ starts \in 0 .. MaxStarts

PlaybackInit ==
  /\ opening = 0 /\ buffer = FALSE /\ sink = Unused /\ stale = 0
  /\ startTime = 0 /\ clusterTime = 0 /\ lastTime = 0
  /\ made = <<>> /\ upset = FALSE /\ packets = 0 /\ starts = 0

-----------------------------------------------------------------------------
(* SPICE_MSG_PLAYBACK_START with a format the player handles: a media source *)
(* unless there is a buffer; it may be the second that opens.                *)
PlaybackStart ==
  /\ starts < MaxStarts /\ starts' = starts + 1
  /\ IF buffer THEN UNCHANGED <<opening, upset>>
     ELSE opening' = opening + 1 /\ upset' = (upset \/ opening > 0)
  /\ UNCHANGED <<buffer, sink, stale, times, made, packets>>

(* handle_source_open() *)
SourceOpen ==
  /\ opening > 0 /\ opening' = opening - 1
  /\ buffer' = TRUE
  /\ sink' = IF buffer THEN sink ELSE [sink EXCEPT !.appended = <<>>, !.updating = FALSE]
  /\ UNCHANGED <<stale, times, made, upset, packets, starts>>

(* Packets are taken to be Step apart, except for an obvious gap. *)
EvenTime(t) ==
  LET expected == lastTime + Step
      off == IF t < expected THEN expected - t ELSE t - expected
  IN  IF startTime # 0 /\ off < MaxCluster THEN expected ELSE t

SimpleBlock(t, start, cluster) ==
  [kind |-> "block", code |-> (t - cluster) % Wrap, time |-> t - start]

(* SPICE_MSG_PLAYBACK_DATA: start_playback() writes the header at once,      *)
(* new_cluster() and simple_block() write or queue.                          *)
PlaybackData(time) ==
  /\ packets < MaxPackets /\ packets' = packets + 1
  /\ IF ~buffer THEN UNCHANGED <<sink, times, made, upset>>
     ELSE LET t == EvenTime(time)
              first == startTime = 0
              start == IF first THEN t ELSE startTime
              cuts == first \/ t - clusterTime >= MaxCluster
              cluster == IF cuts THEN t ELSE clusterTime
              headed == IF first THEN AppendBuffer(sink, <<Header>>) ELSE sink
              clustered == IF cuts THEN Put(headed, Cluster(t, start)) ELSE headed
          IN  /\ lastTime' = t /\ startTime' = start /\ clusterTime' = cluster
              /\ sink' = Put(clustered, SimpleBlock(t, start, cluster))
              /\ made' = made \o (IF first THEN <<Header>> ELSE <<>>)
                              \o (IF cuts THEN <<Cluster(t, start)>> ELSE <<>>)
                              \o <<SimpleBlock(t, start, cluster)>>
              /\ upset' = (upset \/ (first /\ t = 0))
  /\ UNCHANGED <<opening, buffer, stale, starts>>

(* Mutant: after an append the next one may go on at once. *)
DoneAtOnce(s) ==
  IF s.queue # <<>> THEN [AppendBuffer([s EXCEPT !.queue = <<>>], s.queue) EXCEPT !.okay = TRUE]
  ELSE [s EXCEPT !.okay = TRUE]

(* handle_append_buffer_done(): all that waits goes out in one piece. *)
Done(s) ==
  IF s.queue # <<>> THEN AppendBuffer([s EXCEPT !.queue = <<>>], s.queue)
  ELSE [s EXCEPT !.okay = TRUE]

UpdateEnd ==
  /\ buffer /\ sink.updating
  /\ sink' = Done([sink EXCEPT !.updating = FALSE])
  /\ UNCHANGED <<opening, buffer, stale, times, made, upset, packets, starts>>

(* The same handler, called for a buffer that was given up: it acts on the   *)
(* present one.                                                              *)
StaleUpdateEnd ==
  /\ stale > 0 /\ stale' = stale - 1
  /\ sink' = Done(sink)
  /\ upset' = (upset \/ buffer)
  /\ UNCHANGED <<opening, buffer, times, made, packets, starts>>

(* SPICE_MSG_PLAYBACK_MODE with another mode than Opus: the buffer is given  *)
(* up and nothing else.                                                      *)
OtherMode ==
  /\ buffer /\ buffer' = FALSE
  /\ stale' = IF sink.updating /\ stale < MaxStarts THEN stale + 1 ELSE stale
  /\ sink' = [sink EXCEPT !.appended = <<>>, !.updating = FALSE]
  /\ upset' = TRUE
  /\ UNCHANGED <<opening, times, made, packets, starts>>

(* SPICE_MSG_PLAYBACK_STOP; before the media source opened it does nothing.  *)
PlaybackStop ==
  /\ buffer /\ buffer' = FALSE
  /\ stale' = IF sink.updating /\ stale < MaxStarts THEN stale + 1 ELSE stale
  /\ sink' = Unused /\ startTime' = 0 /\ made' = <<>>
  /\ upset' = (opening > 0)
  /\ UNCHANGED <<opening, clusterTime, lastTime, packets, starts>>

-----------------------------------------------------------------------------
PlaybackNext ==
  \/ PlaybackStart \/ SourceOpen \/ UpdateEnd \/ StaleUpdateEnd \/ OtherMode \/ PlaybackStop
  \/ \E t \in Times : PlaybackData(t)
PlaybackSpec == PlaybackInit /\ [][PlaybackNext]_playbackVars

-----------------------------------------------------------------------------
(* Properties *)

(* What the buffer was given, and what waits, is all that was made of the    *)
(* packets, in order; and something waits, or is held back, only while the   *)
(* buffer is busy, so that an event will fetch it.  The handlers do lose     *)
(* data, or write to a buffer without a header, when upset: by a start while *)
(* another media source opens, by a late event of a buffer that was given    *)
(* up, by a change of the mode, or by a first packet of time 0.              *)
NothingLost ==
  ~upset =>
    /\ sink.appended \o sink.queue = made
    /\ made # <<>> => sink.okay = ~sink.updating
    /\ sink.queue # <<>> => sink.updating

(* Packets follow each other at the expected distance unless there is a gap, *)
(* and a player that adds a block's signed time code to its cluster's gets   *)
(* the packet's time back, unless time jumped back by more than the code can *)
(* say.                                                                      *)
Signed(code) == IF code < Wrap \div 2 THEN code ELSE code - Wrap
TimesKept ==
  ~upset =>
    \A b \in {i \in DOMAIN made : made[i].kind = "block"} :
      LET clusters == {i \in 1 .. b : made[i].kind = "cluster"}
          base == made[CHOOSE c \in clusters : \A d \in clusters : d <= c]
          before == {i \in 1 .. b - 1 : made[i].kind = "block"}
          last == made[CHOOSE i \in before : \A j \in before : j <= i].time
          away == made[b].time - (last + Step)
      IN  /\ made[b].time - base.time >= -(Wrap \div 2) =>
               base.code + Signed(made[b].code) = made[b].time
          /\ before # {} => away = 0 \/ away >= MaxCluster \/ away <= -MaxCluster

SoundKept == NothingLost /\ TimesKept
=============================================================================
