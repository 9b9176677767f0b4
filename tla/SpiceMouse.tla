----------------------------- MODULE SpiceMouse -----------------------------
(***************************************************************************)
(* The mouse of the browser client (inputs.js and the messages it builds): *)
(* motions are counted until the server acknowledges them in bunches, and  *)
(* every message tells the guest a state of the buttons.                   *)
(***************************************************************************)
EXTENDS Naturals, FiniteSets

CONSTANTS Bunch,   \* SPICE_INPUT_MOTION_ACK_BUNCH
          Buttons  \* buttons of the mouse

ASSUME MouseAssumption == Bunch \in Nat \ {0}

VARIABLES
  mouseReady,      \* the inputs channel is ready
  waitingForAck,   \* waiting_for_ack
  counted,         \* motions the server has had since its last acknowledgement
  acks,            \* acknowledgements on their way to the client
  pressed,         \* buttons the user holds
  buttonsState,    \* buttons_state, which the next motion reports
  guestButtons,    \* what the last message told the guest
  mixed            \* buttons were mixed in this gesture, see MouseInStep

motion == <<waitingForAck, counted, acks>>
buttons == <<pressed, buttonsState, guestButtons, mixed>>
mouseVars == <<mouseReady, motion, buttons>>

(* waiting_for_ack stays within two bunches and never becomes negative.      *)
MouseTypeOK ==
  /\ mouseReady \in BOOLEAN /\ mixed \in BOOLEAN
  /\ waitingForAck \in 0 .. 2 * Bunch /\ counted \in 0 .. Bunch - 1 /\ acks \in 0 .. 2
  /\ {pressed, buttonsState, guestButtons} \subseteq SUBSET Buttons

MouseInit ==
  /\ mouseReady = FALSE
  /\ waitingForAck = 0 /\ counted = 0 /\ acks = 0
  /\ pressed = {} /\ buttonsState = {} /\ guestButtons = {} /\ mixed = FALSE

Tell(state) == guestButtons' = IF mouseReady THEN state ELSE guestButtons

-----------------------------------------------------------------------------
MouseReady ==
  /\ ~mouseReady /\ mouseReady' = TRUE
  /\ UNCHANGED <<motion, buttons>>

(* Mutant: one motion more than the window goes out. *)
MoveOneMore ==
  /\ IF mouseReady /\ waitingForAck <= 2 * Bunch
     THEN /\ waitingForAck' = waitingForAck + 1
          /\ counted' = (counted + 1) % Bunch
          /\ acks' = IF counted + 1 = Bunch THEN acks + 1 ELSE acks
          /\ guestButtons' = buttonsState
     ELSE UNCHANGED <<motion, guestButtons>>
  /\ UNCHANGED <<mouseReady, pressed, buttonsState, mixed>>

(* handle_mousemove(): a position or a motion, as the mouse mode has it; it  *)
(* is discarded while two bunches are unanswered.  The server counts it.     *)
Move ==
  /\ IF mouseReady /\ waitingForAck < 2 * Bunch
     THEN /\ waitingForAck' = waitingForAck + 1
          /\ counted' = (counted + 1) % Bunch
          /\ acks' = IF counted + 1 = Bunch THEN acks + 1 ELSE acks
          /\ guestButtons' = buttonsState
     ELSE UNCHANGED <<motion, guestButtons>>
  /\ UNCHANGED <<mouseReady, pressed, buttonsState, mixed>>

(* SPICE_MSG_INPUTS_MOUSE_MOTION_ACK *)
MotionAck ==
  /\ acks > 0
  /\ acks' = acks - 1 /\ waitingForAck' = waitingForAck - Bunch
  /\ UNCHANGED <<mouseReady, counted, buttons>>

(* A press reports its own button alone ... *)
Down(b) ==
  /\ b \notin pressed
  /\ pressed' = pressed \cup {b}
  /\ buttonsState' = {b} /\ Tell({b})
  /\ mixed' = (mixed \/ pressed # {} \/ ~mouseReady)
  /\ UNCHANGED <<mouseReady, motion>>

(* Mutant: only the message says that the button is up. *)
UpForgotten(b) ==
  /\ b \in pressed
  /\ pressed' = pressed \ {b}
  /\ Tell({}) /\ UNCHANGED buttonsState
  /\ mixed' = (pressed' # {} \/ ~mouseReady)
  /\ UNCHANGED <<mouseReady, motion>>

(* ... and a release none. *)
Up(b) ==
  /\ b \in pressed
  /\ pressed' = pressed \ {b}
  /\ buttonsState' = {} /\ Tell({})
  /\ mixed' = (pressed' # {} \/ ~mouseReady)
  /\ UNCHANGED <<mouseReady, motion>>

(* handle_mousewheel(): a press and a release that report no button. *)
Wheel ==
  /\ Tell({})
  /\ mixed' = (mixed \/ pressed # {})
  /\ UNCHANGED <<mouseReady, motion, pressed, buttonsState>>

MouseNext ==
  \/ MouseReady \/ Move \/ MotionAck \/ Wheel
  \/ \E b \in Buttons : Down(b)
  \/ \E b \in Buttons : Up(b)
MouseSpec == MouseInit /\ [][MouseNext]_mouseVars

-----------------------------------------------------------------------------
(* The motions in the window are those the server counts and those of the    *)
(* acknowledgements on their way; so the server never owes more than two     *)
(* bunches, and while motions are discarded an answer is coming.             *)
MotionWindow ==
  /\ waitingForAck = counted + Bunch * acks
  /\ waitingForAck <= 2 * Bunch
  /\ waitingForAck = 2 * Bunch => acks > 0

(* The guest has the buttons the user holds; with several buttons, or the    *)
(* wheel turned while one is held, it is told less than that, but the mistake *)
(* ends with the gesture: when all are up, the guest knows and no later       *)
(* motion says otherwise.                                                    *)
ButtonsAgree ==
  ~mixed => guestButtons = pressed /\ buttonsState = pressed

MouseInStep == MotionWindow /\ ButtonsAgree
=============================================================================
