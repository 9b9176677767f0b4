------------------------------- MODULE Browser -------------------------------
(***************************************************************************)
(* The parts of the portal's page and of its SPICE client that share no    *)
(* state with each other, checked together.  Their interleavings would add *)
(* nothing, so in each behaviour one part moves and the others keep still. *)
(***************************************************************************)
EXTENDS SpiceKeyboard, SpiceMouse, SpicePlayback, SpiceDisplay, SpiceVideo,
        PortalPage, PortalConsole

VARIABLE part  \* the part that moves

browserVars == <<part, keyboardVars, mouseVars, playbackVars, displayVars, videoVars,
                 pageVars, consoleVars>>

BrowserInit ==
  /\ part \in {"keyboard", "mouse", "playback", "display", "video", "page", "console"}
  /\ KeyboardInit /\ MouseInit /\ PlaybackInit /\ DisplayInit /\ VideoInit /\ PageInit /\ ConsoleInit

KeyboardMoves ==
  /\ part = "keyboard"
  /\ UNCHANGED <<part, mouseVars, playbackVars, displayVars, videoVars, pageVars, consoleVars>>
MouseMoves ==
  /\ part = "mouse"
  /\ UNCHANGED <<part, keyboardVars, playbackVars, displayVars, videoVars, pageVars, consoleVars>>
PlaybackMoves ==
  /\ part = "playback"
  /\ UNCHANGED <<part, keyboardVars, mouseVars, displayVars, videoVars, pageVars, consoleVars>>
DisplayMoves ==
  /\ part = "display"
  /\ UNCHANGED <<part, keyboardVars, mouseVars, playbackVars, videoVars, pageVars, consoleVars>>
VideoMoves ==
  /\ part = "video"
  /\ UNCHANGED <<part, keyboardVars, mouseVars, playbackVars, displayVars, pageVars, consoleVars>>
PageMoves ==
  /\ part = "page"
  /\ UNCHANGED <<part, keyboardVars, mouseVars, playbackVars, displayVars, videoVars, consoleVars>>
ConsoleMoves ==
  /\ part = "console"
  /\ UNCHANGED <<part, keyboardVars, mouseVars, playbackVars, displayVars, videoVars, pageVars>>

BrowserNext ==
  \/ KeyboardMoves /\ InputsReady
  \/ KeyboardMoves /\ Away
  \/ KeyboardMoves /\ SendCtrlAltDel
  \/ \E k \in UserKeys : KeyboardMoves /\ KeyDown(k)
  \/ \E k \in UserKeys : KeyboardMoves /\ KeyUp(k)
  \/ \E p \in Pastes : KeyboardMoves /\ StartPaste(p)
  \/ \E p \in Pastes : KeyboardMoves /\ NextCharacter(p)
  \/ \E p \in Pastes : KeyboardMoves /\ PressShifted(p)
  \/ \E p \in Pastes : KeyboardMoves /\ ReleaseCharacter(p)
  \/ \E p \in Pastes : KeyboardMoves /\ Unshift(p)
  \/ MouseMoves /\ MouseReady
  \/ MouseMoves /\ Move
  \/ MouseMoves /\ MotionAck
  \/ MouseMoves /\ Wheel
  \/ \E b \in Buttons : MouseMoves /\ Down(b)
  \/ \E b \in Buttons : MouseMoves /\ Up(b)
  \/ PlaybackMoves /\ PlaybackStart
  \/ PlaybackMoves /\ SourceOpen
  \/ PlaybackMoves /\ UpdateEnd
  \/ PlaybackMoves /\ StaleUpdateEnd
  \/ PlaybackMoves /\ OtherMode
  \/ PlaybackMoves /\ PlaybackStop
  \/ \E t \in Times : PlaybackMoves /\ PlaybackData(t)
  \/ \E s \in Surfaces, p \in BOOLEAN : DisplayMoves /\ SurfaceCreate(s, p)
  \/ \E s \in Surfaces : DisplayMoves /\ SurfaceDestroy(s)
  \/ DisplayMoves /\ DisplayStop
  \/ \E s \in Surfaces, i \in Images \cup {0} : DisplayMoves /\ DrawNow(s, i)
  \/ \E s \in Surfaces, i \in Images \cup {0} : DisplayMoves /\ DrawUnread(s, i)
  \/ \E s \in Surfaces, i \in Images : DisplayMoves /\ DrawCached(s, i)
  \/ \E s \in Surfaces, i \in Images \cup {0} : DisplayMoves /\ DrawJpeg(s, i)
  \/ \E l \in jpegs : DisplayMoves /\ JpegLoaded(l)
  \/ \E ids \in SUBSET Images : DisplayMoves /\ InvalList(ids)
  \/ DisplayMoves /\ InvalAllPixmaps
  \/ \E c \in {"mjpeg", "vp8"} : VideoMoves /\ StreamCreate(c)
  \/ VideoMoves /\ StreamDestroy
  \/ VideoMoves /\ ActivateReport
  \/ VideoMoves /\ MjpegFails
  \/ VideoMoves /\ VideoSourceOpen
  \/ \E tardy \in BOOLEAN : VideoMoves /\ MjpegFrame(tardy)
  \/ \E overdue \in BOOLEAN : VideoMoves /\ MjpegLoaded(overdue)
  \/ \E gap, refused \in BOOLEAN : VideoMoves /\ Vp8Frame(gap, refused)
  \/ \E overdue, refused \in BOOLEAN : VideoMoves /\ VideoUpdateEnd(overdue, refused)
  \/ \E also \in BOOLEAN : PageMoves /\ OthersChange(also)
  \/ PageMoves /\ TogglePanel
  \/ \E l \in Slots : PageMoves /\ Tick(l)
  \/ \E l \in Slots : PageMoves /\ UserRefresh(l)
  \/ \E l \in Slots : PageMoves /\ AnswerList(l)
  \/ \E l \in Slots : PageMoves /\ ListArrives(l)
  \/ \E l \in Slots : PageMoves /\ ListFails(l)
  \/ \E f \in Flows, k \in {"operate", "delete"} : PageMoves /\ Click(f, k)
  \/ \E f \in Flows : PageMoves /\ AnswerPlan(f)
  \/ \E f \in Flows : PageMoves /\ PlanArrives(f)
  \/ \E f \in Flows : PageMoves /\ Confirm(f)
  \/ \E f \in Flows : PageMoves /\ Refrain(f)
  \/ \E f \in Flows, done, also \in BOOLEAN : PageMoves /\ Operated(f, done, also)
  \/ \E f \in Flows : PageMoves /\ Deleted(f)
  \/ \E f \in Flows, l \in Slots : PageMoves /\ DoneArrives(f, l)
  \/ \E f \in Flows : PageMoves /\ RefusedArrives(f)
  \/ ConsoleMoves /\ CloseConsole
  \/ \E vm \in VMs : ConsoleMoves /\ PowerChanges(vm)
  \/ \E vm \in VMs : ConsoleMoves /\ OpenConsole(vm)
  \/ \E o \in Calls : ConsoleMoves /\ AnswerTicket(o)
  \/ \E o \in Calls : ConsoleMoves /\ TicketArrives(o)
  \/ \E o \in Calls : ConsoleMoves /\ ErrorArrives(o)

(* A timer that is due while a dialog is open runs when it is closed; the     *)
(* portal answers, and does not fail for ever; the user closes dialogs.       *)
PageFairness ==
  /\ SF_pageVars(part = "page" /\ \E l \in Slots : Tick(l))
  /\ \A l \in Slots :
       /\ WF_pageVars(part = "page" /\ AnswerList(l))
       /\ SF_pageVars(part = "page" /\ ListArrives(l))
  /\ \A f \in Flows : WF_pageVars(part = "page" /\ (Confirm(f) \/ Refrain(f)))

BrowserSpec == BrowserInit /\ [][BrowserNext]_browserVars /\ PageFairness

(* Every part's variables keep their types: counters stay in their windows and *)
(* references name surfaces, images, frames and requests that exist.         *)
BrowserTypeOK ==
  /\ KeyboardTypeOK /\ MouseTypeOK /\ PlaybackTypeOK /\ DisplayTypeOK /\ VideoTypeOK
  /\ PageTypeOK /\ ConsoleTypeOK
=============================================================================
