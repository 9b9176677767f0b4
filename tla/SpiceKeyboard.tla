---------------------------- MODULE SpiceKeyboard ----------------------------
(***************************************************************************)
(* The keyboard of the browser client (inputs.js): the modifiers it        *)
(* believes the guest has, key events, Ctrl-Alt-Del, and texts typed into  *)
(* the guest one scan code at a time, with timers between the codes.       *)
(***************************************************************************)
EXTENDS Naturals, Sequences, FiniteSets

CONSTANTS Pastes,  \* calls of sendText()
          Text,    \* the text of each: "a" plain, "A" with Shift, "?" no key
          MaxKeys, \* bound: what the user does with keys
          MaxKeysBefore  \* bound: the same before a text is begun

ASSUME KeyboardAssumption == Text \in Seq({"a", "A", "?"}) /\ MaxKeys \in Nat /\ MaxKeysBefore \in Nat

Mods == {"shift", "ctrl", "alt"}  \* meta is treated like these by key events
UserKeys == Mods \cup {"key"}

VARIABLES
  inputsReady,  \* the inputs channel is ready
  known,        \* have Shift_state and the others left -1?
  believed,     \* modifiers with a true state
  held,         \* modifiers the user holds
  away,         \* the user changed them where no event is seen
  down,         \* keys that are down in the guest
  typed,        \* what the guest has made of the text keys
  paste,        \* progress of each sendText(): [at, step]
  clean,        \* nothing has yet upset the modifiers, see ModifiersFollow
  disturbed,    \* the user typed into a running paste
  strokes       \* what the user did with keys so far

modifiers == <<known, believed, held, away>>
keyboardVars == <<inputsReady, modifiers, down, typed, paste, clean, disturbed, strokes>>

Idle == [at |-> 0, step |-> "idle"]
Running(p) == paste[p].step \notin {"idle", "done"}

(* Keys and modifiers are those the keyboard has, a text is inside its length. *)
KeyboardTypeOK ==
  /\ {inputsReady, known, away, clean, disturbed} \subseteq BOOLEAN
  /\ believed \subseteq Mods /\ held \subseteq Mods
  /\ down \subseteq UserKeys \cup {"a", "delete"}
  /\ typed \in Seq({"a", "A", "^"}) /\ strokes \in 0 .. MaxKeys
  /\ paste \in [Pastes -> [at : 0 .. Len(Text) + 1,
                           step : {"idle", "next", "press", "release", "unshift", "done"}]]

KeyboardInit ==
  /\ inputsReady = FALSE
  /\ known = FALSE /\ believed = {} /\ held = {} /\ away = FALSE
  /\ down = {} /\ typed = <<>> /\ paste = [p \in Pastes |-> Idle]
  /\ clean = TRUE /\ disturbed = FALSE /\ strokes = 0

(* A message of an inputs channel that is not ready is not sent. *)
Press(k, keys) == IF inputsReady THEN keys \cup {k} ELSE keys
Release(ks, keys) == IF inputsReady THEN keys \ ks ELSE keys

-----------------------------------------------------------------------------
InputsReady ==
  /\ ~inputsReady /\ inputsReady' = TRUE
  /\ UNCHANGED <<modifiers, down, typed, paste, clean, disturbed, strokes>>

(* Bound: no more strokes once a text is disturbed; no property speaks of     *)
(* what follows.                                                             *)
Stroke == strokes < MaxKeys /\ ~disturbed /\ strokes' = strokes + 1

(* The user presses or releases modifiers while the console has no focus. *)
Away ==
  /\ Stroke
  /\ held' \in SUBSET Mods \ {held} /\ away' = TRUE
  /\ UNCHANGED <<inputsReady, known, believed, down, typed, paste, clean, disturbed>>

(* Mutant: a modifier that was let go elsewhere stays down. *)
SyncPressed(before, flags, keys) == keys \cup (flags \ before)

(* The modifiers of which the event's flags differ from what is believed.    *)
Sync(before, flags, keys) == (keys \cup (flags \ before)) \ (before \ flags)

(* check_and_update_modifiers() with the flags of the event, then the key:   *)
(* handle_keydown() and handle_keyup().                                      *)
Key(k, pressed) ==
  LET flags == IF k \notin Mods THEN held ELSE IF pressed THEN held \cup {k} ELSE held \ {k}
      first == IF known THEN believed ELSE flags
      before == IF k \notin Mods THEN first ELSE IF pressed THEN first \cup {k} ELSE first \ {k}
      synced == IF inputsReady THEN Sync(before, flags, down) ELSE down
  IN  /\ Stroke
      /\ held' = flags /\ away' = FALSE
      /\ known' = TRUE
      /\ believed' = IF inputsReady THEN flags ELSE before
      /\ down' = IF pressed THEN Press(k, synced) ELSE Release({k}, synced)
      /\ clean' = (clean /\ inputsReady /\ (~known => flags \subseteq {k}))
      /\ disturbed' = (disturbed \/ \E p \in Pastes : paste[p] # Idle)
      /\ UNCHANGED <<inputsReady, typed, paste>>

KeyDown(k) == k \notin held /\ Key(k, TRUE)
KeyUp(k) == (k \in Mods => k \in held) /\ Key(k, FALSE)

(* Ctrl and Alt are released only if they are believed to be up, not while   *)
(* nothing is known (-1); the code for "key up" of delete lacks the release  *)
(* bit.                                                                      *)
SendCtrlAltDel ==
  /\ inputsReady /\ Stroke
  /\ down' = (down \cup {"ctrl", "alt", "delete"})
               \ (IF known THEN {"ctrl", "alt"} \ believed ELSE {})
  /\ clean' = (clean /\ known)
  /\ disturbed' = (disturbed \/ \E p \in Pastes : paste[p] # Idle)
  /\ UNCHANGED <<inputsReady, modifiers, typed, paste>>

-----------------------------------------------------------------------------
(* sendText() *)

(* The guest's reading of the text key. *)
Typed == IF down \cap {"ctrl", "alt"} # {} THEN "^" ELSE IF "shift" \in down THEN "A" ELSE "a"
Type == IF inputsReady THEN Append(typed, Typed) ELSE typed

(* Ctrl, Shift and Alt are released; what is believed of them stays.         *)
StartPaste(p) ==
  /\ paste[p] = Idle /\ strokes <= MaxKeysBefore
  /\ paste' = [paste EXCEPT ![p] = [at |-> 1, step |-> "next"]]
  /\ down' = Release(Mods, down)
  /\ clean' = FALSE
  /\ disturbed' = (disturbed \/ ~inputsReady)
  /\ UNCHANGED <<inputsReady, modifiers, typed, strokes>>

(* The next character that has a key; the others are counted and skipped.    *)
NextAt(at) ==
  LET rest == {i \in at .. Len(Text) : Text[i] # "?"}
  IN  IF rest = {} THEN Len(Text) + 1 ELSE CHOOSE i \in rest : \A j \in rest : i <= j
NextCharacter(p) ==
  LET at == NextAt(paste[p].at) IN
  /\ paste[p].step = "next"
  /\ \/ /\ at > Len(Text)
        /\ paste' = [paste EXCEPT ![p] = [at |-> at, step |-> "done"]]
        /\ UNCHANGED <<down, typed>>
     \/ /\ at <= Len(Text) /\ Text[at] = "A"
        /\ down' = Press("shift", down)
        /\ paste' = [paste EXCEPT ![p] = [at |-> at, step |-> "press"]]
        /\ UNCHANGED typed
     \/ /\ at <= Len(Text) /\ Text[at] = "a"
        /\ down' = Press("a", down) /\ typed' = Type
        /\ paste' = [paste EXCEPT ![p] = [at |-> at, step |-> "release"]]
  /\ UNCHANGED <<inputsReady, modifiers, clean, disturbed, strokes>>

PressShifted(p) ==
  /\ paste[p].step = "press"
  /\ down' = Press("a", down) /\ typed' = Type
  /\ paste' = [paste EXCEPT ![p].step = "release"]
  /\ UNCHANGED <<inputsReady, modifiers, clean, disturbed, strokes>>

(* Mutant: Shift stays down after a shifted character. *)
ReleaseCharacterOnly(p) ==
  /\ paste[p].step = "release"
  /\ down' = Release({"a"}, down)
  /\ paste' = [paste EXCEPT ![p] = [at |-> @.at + 1, step |-> "next"]]
  /\ UNCHANGED <<inputsReady, modifiers, typed, clean, disturbed, strokes>>

ReleaseCharacter(p) ==
  /\ paste[p].step = "release"
  /\ down' = Release({"a"}, down)
  /\ paste' = [paste EXCEPT ![p] = IF Text[@.at] = "A" THEN [@ EXCEPT !.step = "unshift"]
                                   ELSE [at |-> @.at + 1, step |-> "next"]]
  /\ UNCHANGED <<inputsReady, modifiers, typed, clean, disturbed, strokes>>

Unshift(p) ==
  /\ paste[p].step = "unshift"
  /\ down' = Release({"shift"}, down)
  /\ paste' = [paste EXCEPT ![p] = [at |-> @.at + 1, step |-> "next"]]
  /\ UNCHANGED <<inputsReady, modifiers, typed, clean, disturbed, strokes>>

-----------------------------------------------------------------------------
KeyboardNext ==
  \/ InputsReady \/ Away \/ SendCtrlAltDel
  \/ \E k \in UserKeys : KeyDown(k)
  \/ \E k \in UserKeys : KeyUp(k)
  \/ \E p \in Pastes : StartPaste(p)
  \/ \E p \in Pastes : NextCharacter(p)
  \/ \E p \in Pastes : PressShifted(p)
  \/ \E p \in Pastes : ReleaseCharacter(p)
  \/ \E p \in Pastes : Unshift(p)
KeyboardSpec == KeyboardInit /\ [][KeyboardNext]_keyboardVars

-----------------------------------------------------------------------------
(* Properties *)

(* After a key event the guest has the modifiers the user holds, although    *)
(* they may have been changed without the console's focus -- unless          *)
(* something upset it: an event on a channel that is not ready, a first event *)
(* with other modifiers held, Ctrl-Alt-Del before any event (Ctrl and Alt    *)
(* then stay down in the guest), or a pasted text.                           *)
ModifiersFollow ==
  clean /\ known /\ ~away => down \cap Mods = held

(* A text that nobody disturbs is typed as it is, however long the timers    *)
(* take and whatever modifiers were down before; what has no key is left out: *)
(* each character that has one appears, after those before it, and no more.   *)
Keyed == {i \in DOMAIN Text : Text[i] # "?"}
Before(i) == Cardinality({j \in Keyed : j < i})
TextTyped ==
  \A p \in Pastes :
    (\A q \in Pastes \ {p} : paste[q] = Idle) /\ ~disturbed =>
      /\ Len(typed) <= Cardinality(Keyed)
      /\ \A i \in Keyed : Before(i) < Len(typed) => typed[Before(i) + 1] = Text[i]
      /\ paste[p].step = "done" => Len(typed) = Cardinality(Keyed)

(* Texts leave no key down, even when two of them are typed at once and spoil *)
(* each other's capitals.                                                    *)
PasteReleases ==
  ~disturbed /\ (\A p \in Pastes : ~Running(p)) /\ (\E p \in Pastes : paste[p] # Idle) =>
    down \cap (Mods \cup {"a"}) = {}

TextsTyped == TextTyped /\ PasteReleases
=============================================================================
