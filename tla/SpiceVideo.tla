------------------------------ MODULE SpiceVideo ------------------------------
(***************************************************************************)
(* Video streams of the browser client (display.js): MJPEG frames, each an *)
(* image the browser loads, and VP8 frames, put into a media source's      *)
(* buffer one piece after the other; and the reports the server asks for.  *)
(* Streams share nothing but their id, so the model has the one id.        *)
(***************************************************************************)
EXTENDS Integers, Sequences

CONSTANTS MaxWindow,   \* max_window_size of reports
          MaxStreams,  \* bound: streams with the id, one after the other
          MaxFrames    \* bound: frames the server sends

ASSUME VideoAssumption == MaxWindow \in Nat /\ MaxStreams \in Nat /\ MaxFrames \in Nat

VARIABLES
  codec,          \* of the stream: "none", "mjpeg" or "vp8"
  framesLoading,  \* frames_loading
  loading,        \* MJPEG frames with the id that are loading
  reporting,      \* has the stream a report?
  report,         \* its num_frames and num_drops
  opened,         \* the stream has a source_buffer
  feed,           \* appended, queue, append_okay, updating; current: is there a current_frame?
  produced,           \* what was made of the frames of a VP8 stream
  stuck,          \* the buffer once refused an append
  lost,           \* frames with the id that could not be loaded, since frames_loading was set
  inherited,      \* frames with the id that were loading then
  due,            \* what the reports since the activation have to account for
  told,           \* what they have accounted for
  streams, frames \* counters for the bounds

mjpeg == <<framesLoading, loading, lost, inherited>>
vp8 == <<opened, feed, produced, stuck>>
reports == <<reporting, report, due, told>>
videoVars == <<codec, mjpeg, vp8, reports, streams, frames>>

Unfed == [appended |-> <<>>, queue |-> <<>>, okay |-> FALSE, updating |-> FALSE, current |-> FALSE]
NoReport == [frames |-> 0, drops |-> 0]
VideoHeader == "header"  \* of a WebM file with the one video track

(* frames_loading and the report's counters stay within the frames there were. *)
VideoTypeOK ==
  /\ codec \in {"none", "mjpeg", "vp8"} /\ {reporting, opened, stuck} \subseteq BOOLEAN
  /\ framesLoading \in -MaxFrames .. MaxFrames /\ loading \in 0 .. MaxFrames
  /\ lost \in 0 .. MaxFrames /\ inherited \in 0 .. MaxFrames
  /\ report \in [frames : 0 .. MaxWindow, drops : 0 .. MaxFrames]
  /\ due \in 0 .. 2 * MaxFrames /\ told \in 0 .. 2 * MaxFrames
  /\ DOMAIN feed = DOMAIN Unfed /\ {feed.okay, feed.updating, feed.current} \subseteq BOOLEAN
  /\ streams \in 0 .. MaxStreams /\ frames \in 0 .. MaxFrames

VideoInit ==
  /\ codec = "none" /\ framesLoading = 0 /\ loading = 0 /\ lost = 0 /\ inherited = 0
  /\ reporting = FALSE /\ report = NoReport /\ due = 0 /\ told = 0
  /\ opened = FALSE /\ feed = Unfed /\ produced = <<>> /\ stuck = FALSE
  /\ streams = 0 /\ frames = 0

-----------------------------------------------------------------------------
(* SPICE_MSG_DISPLAY_STREAM_CREATE; the server gives an id anew only after   *)
(* destroying its stream, but frames of that one may still be loading.       *)
StreamCreate(c) ==
  /\ codec = "none" /\ streams < MaxStreams
  /\ streams' = streams + 1
  /\ codec' = c
  /\ framesLoading' = 0 /\ lost' = 0 /\ inherited' = loading
  /\ UNCHANGED <<loading, vp8, reports, frames>>

(* SPICE_MSG_DISPLAY_STREAM_DESTROY; the events of the buffer find the old   *)
(* stream, not one that has its id.                                          *)
StreamDestroy ==
  /\ codec # "none" /\ codec' = "none"
  /\ opened' = FALSE /\ feed' = Unfed /\ produced' = <<>> /\ stuck' = FALSE
  /\ reporting' = FALSE /\ report' = NoReport /\ due' = 0 /\ told' = 0
  /\ UNCHANGED <<mjpeg, streams, frames>>

(* SPICE_MSG_DISPLAY_STREAM_ACTIVATE_REPORT, perhaps anew: what is on its    *)
(* way is accounted for in the new report.                                   *)
Unaccounted == loading + lost + (IF feed.current /\ (feed.updating \/ stuck) THEN 1 ELSE 0)
ActivateReport ==
  /\ codec # "none"
  /\ reporting' = TRUE /\ report' = NoReport
  /\ due' = Unaccounted /\ told' = 0
  /\ UNCHANGED <<codec, mjpeg, vp8, streams, frames>>

(* process_stream_data_report(): a report goes out when the window is full   *)
(* or timeout_ms have passed.                                                *)
FrameReported(overdue) ==
  IF ~reporting THEN UNCHANGED <<report, told>>
  ELSE IF report.frames + 1 > MaxWindow \/ (overdue /\ report.frames > 0)
  THEN report' = NoReport /\ told' = told + report.frames + 1 + report.drops
  ELSE report' = [report EXCEPT !.frames = @ + 1] /\ UNCHANGED told

Due(n) == due' = IF reporting THEN due + n ELSE due

-----------------------------------------------------------------------------
Frame(c) == codec = c /\ frames < MaxFrames /\ frames' = frames + 1

(* process_mjpeg_stream_data(): a late frame is dropped while others load.   *)
MjpegFrame(late) ==
  /\ Frame("mjpeg") /\ Due(1)
  /\ IF late /\ framesLoading > 0
     THEN /\ report' = IF reporting THEN [report EXCEPT !.drops = @ + 1] ELSE report
          /\ UNCHANGED mjpeg
     ELSE /\ framesLoading' = framesLoading + 1 /\ loading' = loading + 1
          /\ UNCHANGED <<report, lost, inherited>>
  /\ UNCHANGED <<codec, vp8, reporting, told, streams>>

(* Mutant: the frame is counted as loaded only if it is reported. *)
MjpegLoadedIfReported(overdue) ==
  /\ loading > 0 /\ loading' = loading - 1
  /\ framesLoading' = IF reporting THEN framesLoading - 1 ELSE framesLoading
  /\ FrameReported(overdue)
  /\ UNCHANGED <<codec, lost, inherited, vp8, reporting, due, streams, frames>>

(* handle_draw_jpeg_onload() of a frame: it counts for the stream that has   *)
(* the id now.                                                               *)
MjpegLoaded(overdue) ==
  /\ loading > 0 /\ loading' = loading - 1
  /\ framesLoading' = IF codec = "mjpeg" THEN framesLoading - 1 ELSE framesLoading
  /\ FrameReported(overdue)
  /\ UNCHANGED <<codec, lost, inherited, vp8, reporting, due, streams, frames>>

(* A frame the browser cannot load: no handler is told. *)
MjpegFails ==
  /\ loading > 0 /\ loading' = loading - 1
  /\ lost' = lost + 1
  /\ UNCHANGED <<codec, framesLoading, inherited, vp8, reports, streams, frames>>

-----------------------------------------------------------------------------
(* append_video_buffer(); refused: the buffer is full, which is logged. *)
AppendVideo(f, item, refused) ==
  IF refused THEN [f EXCEPT !.okay = FALSE]
  ELSE [f EXCEPT !.okay = FALSE, !.updating = TRUE, !.appended = Append(@, item)]

(* handle_video_source_open(): a header goes first. *)
VideoSourceOpen ==
  /\ codec = "vp8" /\ ~opened /\ opened' = TRUE
  /\ feed' = AppendVideo(feed, VideoHeader, FALSE)
  /\ UNCHANGED <<codec, mjpeg, produced, stuck, reports, streams, frames>>

(* push_or_queue(), of one piece *)
Push(f, item, refused) ==
  IF f.okay THEN AppendVideo([f EXCEPT !.current = TRUE], item, refused)
  ELSE [f EXCEPT !.queue = Append(@, item)]

(* process_video_stream_data(): the first frame and one after a gap open a   *)
(* cluster, a piece of its own.                                              *)
Vp8Frame(gap, refused) ==
  /\ Frame("vp8") /\ (refused => feed.okay)
  /\ LET n == frames'
         pieces == IF produced = <<>> \/ gap THEN <<<<"cluster", n>>, <<"block", n>>>> ELSE <<<<"block", n>>>>
         first == Push(feed, pieces[1], refused)
     IN  /\ produced' = produced \o pieces
         /\ feed' = IF Len(pieces) = 2 THEN Push(first, pieces[2], FALSE) ELSE first
         /\ Due(IF feed.okay THEN 1 ELSE 0)
  /\ stuck' = (stuck \/ refused)
  /\ UNCHANGED <<codec, mjpeg, opened, reporting, report, told, streams>>

(* Mutant: the next piece is taken before the end of the present one is      *)
(* waited for.                                                               *)
VideoUpdateEndTwice(overdue, refused) ==
  /\ opened /\ feed.updating /\ (refused => feed.queue # <<>>)
  /\ IF feed.current THEN FrameReported(overdue) ELSE UNCHANGED <<report, told>>
  /\ IF feed.queue = <<>>
     THEN feed' = [feed EXCEPT !.updating = FALSE, !.okay = TRUE] /\ Due(0)
     ELSE /\ feed' = [AppendVideo([feed EXCEPT !.updating = FALSE, !.queue = Tail(@), !.current = TRUE],
                                 Head(feed.queue), refused) EXCEPT !.okay = TRUE]
          /\ Due(1)
  /\ stuck' = (stuck \/ refused)
  /\ UNCHANGED <<codec, mjpeg, opened, produced, reporting, streams, frames>>

(* handle_append_video_buffer_done() *)
VideoUpdateEnd(overdue, refused) ==
  /\ opened /\ feed.updating /\ (refused => feed.queue # <<>>)
  /\ IF feed.current THEN FrameReported(overdue) ELSE UNCHANGED <<report, told>>
  /\ IF feed.queue = <<>>
     THEN feed' = [feed EXCEPT !.updating = FALSE, !.okay = TRUE] /\ Due(0)
     ELSE /\ feed' = AppendVideo([feed EXCEPT !.updating = FALSE, !.queue = Tail(@), !.current = TRUE],
                                 Head(feed.queue), refused)
          /\ Due(1)
  /\ stuck' = (stuck \/ refused)
  /\ UNCHANGED <<codec, mjpeg, opened, produced, reporting, streams, frames>>

VideoNext ==
  \/ \E c \in {"mjpeg", "vp8"} : StreamCreate(c)
  \/ StreamDestroy \/ ActivateReport \/ MjpegFails \/ VideoSourceOpen
  \/ \E late \in BOOLEAN : MjpegFrame(late)
  \/ \E overdue \in BOOLEAN : MjpegLoaded(overdue)
  \/ \E gap, refused \in BOOLEAN : Vp8Frame(gap, refused)
  \/ \E overdue, refused \in BOOLEAN : VideoUpdateEnd(overdue, refused)
VideoSpec == VideoInit /\ [][VideoNext]_videoVars

-----------------------------------------------------------------------------
(* Properties *)

(* frames_loading, by which late frames are dropped, counts the frames that  *)
(* are loading; it is too small by those of an earlier stream with the id,   *)
(* and too large, for good, by those that could not be loaded.               *)
LoadingCounted == codec = "mjpeg" => framesLoading = loading + lost - inherited

(* Each frame (each piece, of VP8) since the activation has been reported as *)
(* shown or dropped, once, or will be in the next report, or is on its way.  *)
ReportsAddUp == reporting => due = told + report.frames + report.drops + Unaccounted

FramesAccounted == LoadingCounted /\ ReportsAddUp

(* The buffer is given the header, then what was made of the frames, in      *)
(* order, a cluster first; and a frame waits only while an event is to come  *)
(* that fetches it: the source's opening or the end of an append.  When the  *)
(* buffer once refuses an append, that never ends, and all that follows      *)
(* waits for good.                                                           *)
VideoFed ==
  codec = "vp8" =>
    /\ produced # <<>> => produced[1][1] = "cluster"
    /\ opened => Head(feed.appended) = VideoHeader
    /\ ~stuck => (IF opened THEN Tail(feed.appended) ELSE <<>>) \o feed.queue = produced
    /\ feed.okay = (opened /\ ~feed.updating /\ ~stuck)
    /\ stuck => ~feed.updating
=============================================================================
