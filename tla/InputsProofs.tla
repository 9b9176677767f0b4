----------------------------- MODULE InputsProofs -----------------------------
(***************************************************************************)
(* Proofs about the mouse and the keyboard of the browser client, for every *)
(* size of a bunch, every set of buttons and every set of texts.            *)
(***************************************************************************)
EXTENDS SpiceMouse, SpiceKeyboard, FiniteSetTheorems, WellFoundedInduction, TLAPS

(* Counting modulo a bunch starts again at zero. *)
LEMMA NextInBunch ==
  ASSUME NEW c \in 0 .. Bunch - 1
  PROVE  (c + 1) % Bunch = IF c + 1 = Bunch THEN 0 ELSE c + 1
BY MouseAssumption

(* What the window can hold: at most two bunches are on their way. *)
LEMMA Bunches ==
  ASSUME NEW a \in 0 .. 2
  PROVE  Bunch * a = IF a = 0 THEN 0 ELSE IF a = 1 THEN Bunch ELSE Bunch + Bunch
BY MouseAssumption

-----------------------------------------------------------------------------
(* The mouse *)

(* The window, and the buttons of a gesture that mixes none, are inductive as *)
(* they stand; the types are with them.                                      *)
MouseInv == MouseTypeOK /\ MouseInStep

LEMMA MouseStart == MouseInit => MouseInv
<1> SUFFICES ASSUME MouseInit PROVE MouseInv
  OBVIOUS
<1>1. MouseTypeOK
  <2>1. 0 \in 0 .. 2 * Bunch /\ 0 \in 0 .. Bunch - 1 /\ 0 \in 0 .. 2
    BY MouseAssumption
  <2>2. pressed \subseteq Buttons /\ buttonsState \subseteq Buttons /\ guestButtons \subseteq Buttons
    BY DEF MouseInit
  <2>3. mouseReady \in BOOLEAN /\ mixed \in BOOLEAN
    BY DEF MouseInit
  <2> QED
    BY <2>1, <2>2, <2>3 DEF MouseInit, MouseTypeOK
<1>2. acks = 0 /\ waitingForAck = 0 /\ counted = 0 /\ Bunch * 0 = 0
  BY Bunches DEF MouseInit
<1>3. MotionWindow
  BY <1>2, MouseAssumption DEF MotionWindow
<1>4. ButtonsAgree
  BY DEF MouseInit, ButtonsAgree
<1> QED
  BY <1>1, <1>3, <1>4 DEF MouseInv, MouseInStep

LEMMA MouseStep == MouseInv /\ [MouseNext]_mouseVars => MouseInv'
<1> SUFFICES ASSUME MouseInv, [MouseNext]_mouseVars PROVE MouseInv'
  OBVIOUS
<1> USE MouseAssumption DEF MouseInv
<1>1. /\ mouseReady \in BOOLEAN /\ mixed \in BOOLEAN
      /\ waitingForAck \in 0 .. 2 * Bunch /\ counted \in 0 .. Bunch - 1 /\ acks \in 0 .. 2
      /\ pressed \subseteq Buttons /\ buttonsState \subseteq Buttons /\ guestButtons \subseteq Buttons
  BY DEF MouseTypeOK
<1>2. ASSUME UNCHANGED motion PROVE MotionWindow'
  BY <1>2 DEF MouseInStep, MotionWindow, motion
<1>3. CASE Move
  <2>1. CASE mouseReady /\ waitingForAck < 2 * Bunch
    <3>1. /\ waitingForAck' = waitingForAck + 1
          /\ counted' = IF counted + 1 = Bunch THEN 0 ELSE counted + 1
          /\ acks' = IF counted + 1 = Bunch THEN acks + 1 ELSE acks
          /\ guestButtons' = buttonsState
          /\ UNCHANGED <<mouseReady, pressed, buttonsState, mixed>>
      BY <1>1, <1>3, <2>1, NextInBunch DEF Move
    <3>2. waitingForAck = counted + Bunch * acks
      BY DEF MouseInStep, MotionWindow
    <3>3. counted + 1 = Bunch => acks \in 0 .. 1
      BY <1>1, <2>1, <3>2, Bunches
    <3>4. acks' \in 0 .. 2 /\ counted' \in 0 .. Bunch - 1 /\ waitingForAck' \in 0 .. 2 * Bunch
      BY <1>1, <2>1, <3>1, <3>3
    <3>5. MotionWindow'
      BY <1>1, <2>1, <3>1, <3>2, <3>3, <3>4, Bunches DEF MotionWindow
    <3>6. ButtonsAgree'
      BY <3>1 DEF MouseInStep, ButtonsAgree
    <3> QED
      BY <1>1, <3>1, <3>4, <3>5, <3>6 DEF MouseTypeOK, MouseInStep
  <2>2. CASE ~(mouseReady /\ waitingForAck < 2 * Bunch)
    BY <1>2, <1>3, <2>2 DEF Move, motion, MouseTypeOK, MouseInStep, ButtonsAgree
  <2> QED
    BY <2>1, <2>2
<1>4. CASE MotionAck
  <2>1. /\ acks > 0 /\ acks' = acks - 1 /\ waitingForAck' = waitingForAck - Bunch
        /\ UNCHANGED <<mouseReady, counted, pressed, buttonsState, guestButtons, mixed>>
    BY <1>4 DEF MotionAck, buttons
  <2>2. waitingForAck = counted + Bunch * acks
    BY DEF MouseInStep, MotionWindow
  <2>3. acks' \in 0 .. 2 /\ waitingForAck' \in 0 .. 2 * Bunch /\ waitingForAck' = counted + Bunch * acks'
    BY <1>1, <2>1, <2>2, Bunches
  <2>4. MotionWindow'
    BY <1>1, <2>1, <2>3, Bunches DEF MotionWindow
  <2> QED
    BY <1>1, <2>1, <2>3, <2>4 DEF MouseTypeOK, MouseInStep, ButtonsAgree
<1>5. CASE MouseReady
  BY <1>2, <1>5 DEF MouseReady, motion, buttons, MouseTypeOK, MouseInStep, ButtonsAgree
<1>6. CASE Wheel
  BY <1>1, <1>2, <1>6 DEF Wheel, Tell, motion, MouseTypeOK, MouseInStep, ButtonsAgree
<1>7. ASSUME NEW b \in Buttons, Down(b) PROVE MouseInv'
  <2>1. pressed' \subseteq Buttons /\ buttonsState' \subseteq Buttons /\ guestButtons' \subseteq Buttons
    BY <1>1, <1>7 DEF Down, Tell
  <2>2. ButtonsAgree'
    BY <1>1, <1>7 DEF Down, Tell, ButtonsAgree
  <2> QED
    BY <1>1, <1>2, <1>7, <2>1, <2>2 DEF Down, motion, MouseTypeOK, MouseInStep
<1>8. ASSUME NEW b \in Buttons, Up(b) PROVE MouseInv'
  <2>1. pressed' \subseteq Buttons /\ buttonsState' \subseteq Buttons /\ guestButtons' \subseteq Buttons
    BY <1>1, <1>8 DEF Up, Tell
  <2>2. ButtonsAgree'
    BY <1>1, <1>8 DEF Up, Tell, ButtonsAgree
  <2> QED
    BY <1>1, <1>2, <1>8, <2>1, <2>2 DEF Up, motion, MouseTypeOK, MouseInStep
<1>9. CASE UNCHANGED mouseVars
  BY <1>9 DEF mouseVars, motion, buttons, MouseTypeOK, MouseInStep, MotionWindow, ButtonsAgree
<1> QED
  BY <1>3, <1>4, <1>5, <1>6, <1>7, <1>8, <1>9 DEF MouseNext

(* For every bunch size the motions in flight are those the server counts and *)
(* those it has acknowledged, never more than two bunches, and the guest's     *)
(* buttons are the user's as soon as a mixed gesture is over.                  *)
THEOREM MouseStaysInStep == MouseSpec => [](MouseTypeOK /\ MouseInStep)
<1> QED
  BY MouseStart, MouseStep, PTL DEF MouseSpec, MouseInv

-----------------------------------------------------------------------------
(* The keyboard *)

(* Until something upsets them, the modifiers that are down in the guest are  *)
(* those the client believes in, none before the first key event; and that    *)
(* event's are the user's.                                                    *)
BeliefTrue ==
  clean =>
    /\ down \cap Mods = IF known THEN believed ELSE {}
    /\ known /\ ~away => believed = held
    /\ \A p \in Pastes : paste[p] = Idle

(* While nobody disturbs a text, what it holds down is held by one of its     *)
(* steps: Shift between "press" and "unshift" of a capital, the key until     *)
(* "release".                                                                 *)
HoldsShift(p) == paste[p].step \in {"press", "release", "unshift"} /\ Text[paste[p].at] = "A"
PasteHolds ==
  ~disturbed =>
    /\ "a" \in down => \E p \in Pastes : paste[p].step = "release"
    /\ (\E p \in Pastes : paste[p] # Idle) =>
         /\ inputsReady /\ down \cap {"ctrl", "alt"} = {}
         /\ "shift" \in down => \E p \in Pastes : HoldsShift(p)

(* A step that types is at a character, and Shift is only used for a capital. *)
AtCharacter ==
  \A p \in Pastes :
    /\ paste[p].step \in {"press", "release", "unshift"} => paste[p].at <= Len(Text)
    /\ paste[p].step \in {"press", "unshift"} => Text[paste[p].at] = "A"

KeyboardInv == KeyboardTypeOK /\ BeliefTrue /\ PasteHolds /\ AtCharacter

LEMMA KeyboardStart == KeyboardInit => KeyboardInv
<1> SUFFICES ASSUME KeyboardInit PROVE KeyboardInv
  OBVIOUS
<1>1. Len(Text) \in Nat /\ MaxKeys \in Nat
  BY KeyboardAssumption
<1>2. KeyboardTypeOK
  <2>1. Idle \in [at : 0 .. Len(Text) + 1,
                  step : {"idle", "next", "press", "release", "unshift", "done"}]
    BY <1>1 DEF Idle
  <2>2. typed \in Seq({"a", "A", "^"}) /\ strokes \in 0 .. MaxKeys
    BY <1>1 DEF KeyboardInit
  <2>3. {inputsReady, known, away, clean, disturbed} \subseteq BOOLEAN
    BY DEF KeyboardInit
  <2>4. believed = {} /\ held = {} /\ down = {} /\ paste = [p \in Pastes |-> Idle]
    BY DEF KeyboardInit
  <2> QED
    BY <2>1, <2>2, <2>3, <2>4 DEF KeyboardTypeOK
<1>3. BeliefTrue /\ PasteHolds /\ AtCharacter
  BY DEF KeyboardInit, BeliefTrue, PasteHolds, AtCharacter, Idle
<1> QED
  BY <1>2, <1>3 DEF KeyboardInv

(* What a key event leaves down: the flags of the event, and the key itself.  *)
LEMMA KeyStep ==
  ASSUME KeyboardInv, NEW k \in UserKeys, NEW isDown \in BOOLEAN, Key(k, isDown)
  PROVE  KeyboardInv'
<1> DEFINE flags == IF k \notin Mods THEN held ELSE IF isDown THEN held \cup {k} ELSE held \ {k}
           first == IF known THEN believed ELSE flags
           before == IF k \notin Mods THEN first ELSE IF isDown THEN first \cup {k} ELSE first \ {k}
           synced == IF inputsReady THEN Sync(before, flags, down) ELSE down
<1>1. /\ held' = flags /\ away' = FALSE /\ known' = TRUE
      /\ believed' = IF inputsReady THEN flags ELSE before
      /\ down' = IF isDown THEN Press(k, synced) ELSE Release({k}, synced)
      /\ clean' = (clean /\ inputsReady /\ (~known => flags \subseteq {k}))
      /\ disturbed' = (disturbed \/ \E p \in Pastes : paste[p] # Idle)
      /\ strokes < MaxKeys /\ strokes' = strokes + 1
      /\ UNCHANGED <<inputsReady, typed, paste>>
  BY DEF Key, Stroke
<1>2. /\ KeyboardTypeOK /\ BeliefTrue /\ PasteHolds
      /\ k \in UserKeys /\ Mods \subseteq UserKeys /\ "a" \notin UserKeys
      /\ held \subseteq Mods /\ believed \subseteq Mods /\ down \subseteq UserKeys \cup {"a", "delete"}
  BY DEF KeyboardInv, KeyboardTypeOK, UserKeys, Mods
<1>3. flags \subseteq Mods /\ before \subseteq Mods
  BY <1>2
<1>4. /\ synced \subseteq UserKeys \cup {"a", "delete"}
      /\ "a" \in synced => "a" \in down
  BY <1>2, <1>3 DEF Sync
<1>5. /\ down' \subseteq UserKeys \cup {"a", "delete"}
      /\ "a" \in down' => "a" \in down
  <2> HIDE DEF synced
  <2> QED
    BY <1>1, <1>2, <1>4 DEF Press, Release
<1>6. KeyboardTypeOK'
  <2>1. strokes' \in 0 .. MaxKeys
    BY <1>1, <1>2, KeyboardAssumption DEF KeyboardTypeOK
  <2>2. held' \subseteq Mods /\ believed' \subseteq Mods
    BY <1>1, <1>3
  <2>3. disturbed' \in BOOLEAN /\ clean' \in BOOLEAN /\ away' \in BOOLEAN /\ known' \in BOOLEAN
    BY <1>1
  <2> HIDE DEF flags, before, synced
  <2> QED
    BY <1>1, <1>2, <1>5, <2>1, <2>2, <2>3 DEF KeyboardTypeOK
<1>7. BeliefTrue'
  <2> SUFFICES ASSUME clean' PROVE down' \cap Mods = flags
    <3> HIDE DEF flags, before, synced
    <3>1. clean' => inputsReady' /\ believed' = flags /\ \A p \in Pastes : paste'[p] = Idle
      BY <1>1, <1>2 DEF BeliefTrue
    <3> QED
      BY <1>1, <3>1 DEF BeliefTrue
  <2>1. clean /\ inputsReady /\ (~known => flags \subseteq {k})
    BY <1>1
  <2>2. down \cap Mods = IF known THEN believed ELSE {}
    BY <1>2, <2>1 DEF BeliefTrue
  <2>3. synced = (down \cup (flags \ before)) \ (before \ flags)
    BY <2>1 DEF Sync
  <2>4. ASSUME NEW m \in Mods PROVE m \in down' <=> m \in flags
    <3>1. m \in down <=> (known /\ m \in believed)
      BY <2>2
    <3>2. m \in synced <=> (m \in down \/ (m \in flags /\ m \notin before)) /\ (m \in before => m \in flags)
      BY <2>3
    <3>3. m \in down' <=> IF isDown THEN m \in synced \/ m = k ELSE m \in synced /\ m # k
      BY <1>1, <2>1 DEF Press, Release
    <3>4. known => (m \in before <=> IF k \notin Mods THEN m \in believed
                                     ELSE IF isDown THEN m \in believed \/ m = k ELSE m \in believed /\ m # k)
      OBVIOUS
    <3>5. m \in flags <=> IF k \notin Mods THEN m \in held
                          ELSE IF isDown THEN m \in held \/ m = k ELSE m \in held /\ m # k
      OBVIOUS
    <3>6. ~known => (m \in before <=> m \in flags) /\ (m \in flags => m = k)
      BY <2>1
    <3>7. k \in Mods \/ m # k
      OBVIOUS
    <3> HIDE DEF flags, before, synced
    <3>8. CASE known
      BY <3>1, <3>2, <3>3, <3>4, <3>5, <3>7, <3>8
    <3>9. CASE ~known
      BY <3>1, <3>2, <3>3, <3>5, <3>6, <3>7, <3>9
    <3> QED
      BY <3>8, <3>9
  <2> HIDE DEF flags
  <2> QED
    BY <1>3, <2>4
<1>8. PasteHolds'
  <2> HIDE DEF flags, before, synced
  <2>1. ASSUME ~disturbed' PROVE ~disturbed /\ \A p \in Pastes : paste[p] = Idle
    BY <1>1, <2>1
  <2> QED
    BY <1>1, <1>2, <1>5, <2>1 DEF PasteHolds
<1>9. AtCharacter'
  <2> HIDE DEF flags, before, synced
  <2> QED
    BY <1>1 DEF KeyboardInv, AtCharacter
<1> QED
  BY <1>6, <1>7, <1>8, <1>9 DEF KeyboardInv

(* The steps of a text *)

LEMMA PasteTypes ==
  ASSUME KeyboardTypeOK, NEW p \in Pastes,
         NEW at \in 0 .. Len(Text) + 1,
         NEW step \in {"idle", "next", "press", "release", "unshift", "done"},
         paste' = [paste EXCEPT ![p] = [at |-> at, step |-> step]]
  PROVE  /\ paste' \in [Pastes -> [at : 0 .. Len(Text) + 1,
                                  step : {"idle", "next", "press", "release", "unshift", "done"}]]
         /\ paste'[p].at = at /\ paste'[p].step = step
         /\ \A q \in Pastes \ {p} : paste'[q] = paste[q]
BY DEF KeyboardTypeOK

(* A set of naturals has a least element. *)
LEMMA Least ==
  ASSUME NEW T \in SUBSET Nat, T # {}
  PROVE  \E m \in T : \A j \in T : m <= j
<1> DEFINE R == OpToRel(<, Nat)
<1>1. IsWellFoundedOn(R, Nat)
  BY NatLessThanWellFounded
<1>2. \A x, y \in Nat : x < y => <<x, y>> \in R
  BY DEF OpToRel
<1> HIDE DEF R
<1>3. PICK m \in T : \A j \in T : ~(<<j, m>> \in R)
  BY <1>1, WFMin
<1>4. m \in Nat /\ \A j \in T : j \in Nat /\ ~(j < m)
  BY <1>2, <1>3
<1>5. \A i, j \in Nat : i <= j \/ j < i
  OBVIOUS
<1> QED
  BY <1>4, <1>5

(* The character a text goes on with is one of its own, or its end is next.   *)
LEMMA NextIsThere ==
  ASSUME NEW at \in 0 .. Len(Text) + 1
  PROVE  /\ NextAt(at) \in 0 .. Len(Text) + 1
         /\ NextAt(at) >= at
         /\ NextAt(at) <= Len(Text) => Text[NextAt(at)] # "?"
<1> DEFINE rest == {i \in at .. Len(Text) : Text[i] # "?"}
<1>1. Len(Text) \in Nat
  BY KeyboardAssumption
<1>2. CASE rest = {}
  BY <1>1, <1>2 DEF NextAt
<1>3. CASE rest # {}
  <2>1. rest \subseteq Nat
    BY <1>1
  <2>2. \E m \in rest : \A j \in rest : m <= j
    BY <1>3, <2>1, Least
  <2>3. NextAt(at) = CHOOSE m \in rest : \A j \in rest : m <= j
    BY <1>3 DEF NextAt
  <2>4. NextAt(at) \in rest
    BY <2>2, <2>3
  <2> QED
    BY <1>1, <2>4
<1> QED
  BY <1>2, <1>3

(* What the steps of a text have in common: they are taken by a text that was *)
(* begun, and leave everything but the keys and their own progress.           *)
LEMMA PasteStep ==
  ASSUME KeyboardInv, NEW p \in Pastes, paste[p] # Idle,
         NEW at \in 0 .. Len(Text) + 1,
         NEW step \in {"next", "press", "release", "unshift", "done"},
         paste' = [paste EXCEPT ![p] = [at |-> at, step |-> step]],
         UNCHANGED <<inputsReady, modifiers, clean, disturbed, strokes>>,
         typed' \in Seq({"a", "A", "^"}),
         down' \subseteq down \cup {"a", "shift"},
         ~disturbed => ("a" \in down' => step = "release" \/ ("a" \in down /\ paste[p].step # "release")),
         ~disturbed => ("shift" \in down' =>
                          \/ step \in {"press", "release", "unshift"} /\ Text[at] = "A"
                          \/ "shift" \in down /\ ~HoldsShift(p)),
         step \in {"press", "release", "unshift"} => at <= Len(Text),
         step \in {"press", "unshift"} => Text[at] = "A"
  PROVE  KeyboardInv'
<1>1. KeyboardTypeOK /\ BeliefTrue /\ PasteHolds
  BY DEF KeyboardInv
<1>2. /\ paste' \in [Pastes -> [at : 0 .. Len(Text) + 1,
                               step : {"idle", "next", "press", "release", "unshift", "done"}]]
      /\ paste'[p].at = at /\ paste'[p].step = step
      /\ \A q \in Pastes \ {p} : paste'[q] = paste[q]
  BY <1>1, PasteTypes
<1>3. ~clean /\ ~clean'
  BY <1>1 DEF BeliefTrue
<1>4. KeyboardTypeOK'
  <2>1. down' \subseteq UserKeys \cup {"a", "delete"}
    BY <1>1 DEF KeyboardTypeOK, UserKeys, Mods
  <2> QED
    BY <1>1, <1>2, <2>1 DEF KeyboardTypeOK, modifiers
<1>5. PasteHolds'
  <2> SUFFICES ASSUME ~disturbed
               PROVE  /\ "a" \in down' => \E q \in Pastes : paste'[q].step = "release"
                      /\ inputsReady /\ down' \cap {"ctrl", "alt"} = {}
                      /\ "shift" \in down' => \E q \in Pastes : HoldsShift(q)'
    BY DEF PasteHolds
  <2>1. /\ "a" \in down => \E q \in Pastes : paste[q].step = "release"
        /\ inputsReady /\ down \cap {"ctrl", "alt"} = {}
        /\ "shift" \in down => \E q \in Pastes : HoldsShift(q)
    BY <1>1 DEF PasteHolds
  <2>2. ASSUME "a" \in down' PROVE \E q \in Pastes : paste'[q].step = "release"
    BY <1>2, <2>1, <2>2
  <2>3. ASSUME "shift" \in down' PROVE \E q \in Pastes : HoldsShift(q)'
    <3>1. \A q \in Pastes \ {p} : HoldsShift(q)' <=> HoldsShift(q)
      BY <1>2 DEF HoldsShift
    <3>2. HoldsShift(p)' \/ ("shift" \in down /\ ~HoldsShift(p))
      BY <1>2, <2>3 DEF HoldsShift
    <3> QED
      BY <2>1, <3>1, <3>2
  <2> QED
    BY <2>1, <2>2, <2>3
<1>6. AtCharacter'
  BY <1>2 DEF KeyboardInv, AtCharacter
<1> QED
  BY <1>3, <1>4, <1>5, <1>6 DEF KeyboardInv, BeliefTrue

LEMMA TypingStep ==
  ASSUME KeyboardInv, NEW p \in Pastes,
         NextCharacter(p) \/ PressShifted(p) \/ ReleaseCharacter(p) \/ Unshift(p)
  PROVE  KeyboardInv'
<1>1. KeyboardTypeOK /\ BeliefTrue /\ PasteHolds /\ AtCharacter
  BY DEF KeyboardInv
<1>2. /\ paste[p].at \in 0 .. Len(Text) + 1 /\ Len(Text) \in Nat
      /\ paste[p] = [at |-> paste[p].at, step |-> paste[p].step]
  BY <1>1, KeyboardAssumption DEF KeyboardTypeOK
<1>3. paste[p] # Idle /\ inputsReady' = inputsReady
      /\ UNCHANGED <<inputsReady, modifiers, clean, disturbed, strokes>>
  BY DEF NextCharacter, PressShifted, ReleaseCharacter, Unshift, Idle
<1>4. typed \in Seq({"a", "A", "^"}) /\ Type \in Seq({"a", "A", "^"})
  BY <1>1 DEF KeyboardTypeOK, Type, Typed
<1>5. ~disturbed => inputsReady
  BY <1>1, <1>3 DEF PasteHolds
<1>6. CASE NextCharacter(p)
  <2> DEFINE at == NextAt(paste[p].at)
  <2>1. at \in 0 .. Len(Text) + 1 /\ (at <= Len(Text) => Text[at] # "?")
    BY <1>2, NextIsThere
  <2>2. paste[p].step = "next"
    BY <1>6 DEF NextCharacter
  <2>3. ~HoldsShift(p)
    BY <2>2 DEF HoldsShift
  <2>4. \/ /\ paste' = [paste EXCEPT ![p] = [at |-> at, step |-> "done"]]
           /\ UNCHANGED <<down, typed>>
        \/ /\ at <= Len(Text) /\ Text[at] = "A"
           /\ down' = Press("shift", down)
           /\ paste' = [paste EXCEPT ![p] = [at |-> at, step |-> "press"]]
           /\ UNCHANGED typed
        \/ /\ at <= Len(Text) /\ Text[at] = "a"
           /\ down' = Press("a", down) /\ typed' = Type
           /\ paste' = [paste EXCEPT ![p] = [at |-> at, step |-> "release"]]
    BY <1>6 DEF NextCharacter
  <2> HIDE DEF at
  <2>5. CASE paste' = [paste EXCEPT ![p] = [at |-> at, step |-> "done"]] /\ UNCHANGED <<down, typed>>
    BY <1>3, <1>4, <2>1, <2>2, <2>3, <2>5, PasteStep
  <2>6. CASE /\ at <= Len(Text) /\ Text[at] = "A"
             /\ down' = Press("shift", down)
             /\ paste' = [paste EXCEPT ![p] = [at |-> at, step |-> "press"]]
             /\ UNCHANGED typed
    <3>1. down' \subseteq down \cup {"a", "shift"} /\ ("a" \in down' => "a" \in down)
      BY <2>6 DEF Press
    <3> QED
      BY <1>3, <1>4, <2>1, <2>2, <2>6, <3>1, PasteStep
  <2>7. CASE /\ at <= Len(Text) /\ Text[at] = "a"
             /\ down' = Press("a", down) /\ typed' = Type
             /\ paste' = [paste EXCEPT ![p] = [at |-> at, step |-> "release"]]
    <3>1. down' \subseteq down \cup {"a", "shift"} /\ ("shift" \in down' => "shift" \in down)
      BY <2>7 DEF Press
    <3> QED
      BY <1>3, <1>4, <2>1, <2>3, <2>7, <3>1, PasteStep
  <2> QED
    BY <2>4, <2>5, <2>6, <2>7
<1>7. /\ paste[p].step \in {"press", "release", "unshift"} => paste[p].at + 1 \in 0 .. Len(Text) + 1
      /\ [paste[p] EXCEPT !.step = "release"] = [at |-> paste[p].at, step |-> "release"]
      /\ [paste[p] EXCEPT !.step = "unshift"] = [at |-> paste[p].at, step |-> "unshift"]
  BY <1>1, <1>2 DEF AtCharacter
<1>8. CASE PressShifted(p)
  <2>1. /\ paste[p].step = "press" /\ down' = Press("a", down) /\ typed' = Type
        /\ paste' = [paste EXCEPT ![p] = [at |-> paste[p].at, step |-> "release"]]
    BY <1>7, <1>8 DEF PressShifted
  <2>2. Text[paste[p].at] = "A" /\ paste[p].at <= Len(Text)
    BY <1>1, <2>1 DEF AtCharacter
  <2>3. down' \subseteq down \cup {"a", "shift"}
    BY <2>1 DEF Press
  <2> QED
    BY <1>2, <1>3, <1>4, <2>1, <2>2, <2>3, PasteStep
<1>9. CASE ReleaseCharacter(p)
  <2>1. paste[p].step = "release" /\ down' = Release({"a"}, down) /\ UNCHANGED typed
    BY <1>9 DEF ReleaseCharacter
  <2>2. /\ down' \subseteq down \cup {"a", "shift"} /\ down' \subseteq down
        /\ ~disturbed => "a" \notin down'
    BY <1>5, <2>1 DEF Release
  <2>3. CASE Text[paste[p].at] = "A"
    <3>1. paste' = [paste EXCEPT ![p] = [at |-> paste[p].at, step |-> "unshift"]]
      BY <1>7, <1>9, <2>3 DEF ReleaseCharacter
    <3>2. paste[p].at <= Len(Text)
      BY <1>1, <2>1 DEF AtCharacter
    <3> QED
      BY <1>2, <1>3, <1>4, <2>1, <2>2, <2>3, <3>1, <3>2, PasteStep
  <2>4. CASE Text[paste[p].at] # "A"
    <3>1. paste' = [paste EXCEPT ![p] = [at |-> paste[p].at + 1, step |-> "next"]]
      BY <1>9, <2>4 DEF ReleaseCharacter
    <3>2. ~HoldsShift(p) /\ ("shift" \in down' => "shift" \in down)
      BY <2>2, <2>4 DEF HoldsShift
    <3> QED
      BY <1>3, <1>4, <1>7, <2>1, <2>2, <3>1, <3>2, PasteStep
  <2> QED
    BY <2>3, <2>4
<1>10. CASE Unshift(p)
  <2>1. /\ paste[p].step = "unshift" /\ down' = Release({"shift"}, down) /\ UNCHANGED typed
        /\ paste' = [paste EXCEPT ![p] = [at |-> paste[p].at + 1, step |-> "next"]]
    BY <1>10 DEF Unshift
  <2>2. /\ down' \subseteq down \cup {"a", "shift"} /\ ("a" \in down' => "a" \in down)
        /\ ~disturbed => "shift" \notin down'
    BY <1>5, <2>1 DEF Release
  <2> QED
    BY <1>3, <1>4, <1>7, <2>1, <2>2, PasteStep
<1> QED
  BY <1>6, <1>8, <1>9, <1>10

LEMMA StartPasteStep ==
  ASSUME KeyboardInv, NEW p \in Pastes, StartPaste(p)
  PROVE  KeyboardInv'
<1>1. KeyboardTypeOK /\ BeliefTrue /\ PasteHolds /\ AtCharacter
  BY DEF KeyboardInv
<1>2. 1 \in 0 .. Len(Text) + 1
  BY KeyboardAssumption
<1>3. /\ paste[p] = Idle /\ paste' = [paste EXCEPT ![p] = [at |-> 1, step |-> "next"]]
      /\ down' = Release(Mods, down) /\ ~clean' /\ clean' \in BOOLEAN
      /\ disturbed' = (disturbed \/ ~inputsReady)
      /\ UNCHANGED <<inputsReady, modifiers, typed, strokes>>
  BY DEF StartPaste
<1>4. /\ paste' \in [Pastes -> [at : 0 .. Len(Text) + 1,
                               step : {"idle", "next", "press", "release", "unshift", "done"}]]
      /\ paste'[p].step = "next" /\ \A q \in Pastes \ {p} : paste'[q] = paste[q]
  BY <1>1, <1>2, <1>3, PasteTypes
<1>5. down' \subseteq down /\ (inputsReady => down' \cap Mods = {})
  BY <1>3 DEF Release
<1>6. KeyboardTypeOK'
  <2>1. disturbed' \in BOOLEAN
    BY <1>3
  <2> QED
    BY <1>1, <1>3, <1>4, <1>5, <2>1 DEF KeyboardTypeOK, modifiers
<1>7. PasteHolds'
  <2> SUFFICES ASSUME ~disturbed'
               PROVE  /\ "a" \in down' => \E q \in Pastes : paste'[q].step = "release"
                      /\ inputsReady' /\ down' \cap {"ctrl", "alt"} = {} /\ "shift" \notin down'
    BY DEF PasteHolds
  <2>1. ~disturbed /\ inputsReady /\ inputsReady'
    BY <1>3
  <2>2. down' \cap {"ctrl", "alt"} = {} /\ "shift" \notin down'
    BY <1>5, <2>1 DEF Mods
  <2>3. ASSUME "a" \in down' PROVE \E q \in Pastes : paste'[q].step = "release"
    <3>1. PICK q \in Pastes : paste[q].step = "release"
      BY <1>1, <1>5, <2>1, <2>3 DEF PasteHolds
    <3>2. q # p
      BY <1>3, <3>1 DEF Idle
    <3> QED
      BY <1>4, <3>1, <3>2
  <2> QED
    BY <2>1, <2>2, <2>3
<1>8. AtCharacter'
  BY <1>1, <1>4 DEF AtCharacter
<1> QED
  BY <1>3, <1>6, <1>7, <1>8 DEF KeyboardInv, BeliefTrue

LEMMA KeyboardStep == KeyboardInv /\ [KeyboardNext]_keyboardVars => KeyboardInv'
<1> SUFFICES ASSUME KeyboardInv, [KeyboardNext]_keyboardVars PROVE KeyboardInv'
  OBVIOUS
<1>1. KeyboardTypeOK /\ BeliefTrue /\ PasteHolds /\ AtCharacter
  BY DEF KeyboardInv
<1>2. ASSUME Stroke PROVE strokes' \in 0 .. MaxKeys
  BY <1>1, <1>2, KeyboardAssumption DEF Stroke, KeyboardTypeOK
<1>3. CASE InputsReady
  BY <1>1, <1>3 DEF InputsReady, modifiers, KeyboardInv, KeyboardTypeOK, BeliefTrue, PasteHolds,
                    AtCharacter, HoldsShift
<1>4. CASE Away
  <2>1. /\ held' \subseteq Mods /\ away' = TRUE /\ strokes' \in 0 .. MaxKeys
        /\ UNCHANGED <<inputsReady, known, believed, down, typed, paste, clean, disturbed>>
    BY <1>2, <1>4 DEF Away
  <2> QED
    BY <1>1, <2>1 DEF KeyboardInv, KeyboardTypeOK, BeliefTrue, PasteHolds, AtCharacter, HoldsShift
<1>5. CASE SendCtrlAltDel
  <2>1. /\ down' = (down \cup {"ctrl", "alt", "delete"})
                     \ (IF known THEN {"ctrl", "alt"} \ believed ELSE {})
        /\ clean' = (clean /\ known) /\ strokes' \in 0 .. MaxKeys
        /\ disturbed' = (disturbed \/ \E p \in Pastes : paste[p] # Idle)
        /\ UNCHANGED <<inputsReady, known, believed, held, away, typed, paste>>
    BY <1>2, <1>5 DEF SendCtrlAltDel, modifiers
  <2>2. down' \subseteq UserKeys \cup {"a", "delete"} /\ ("a" \in down' => "a" \in down)
    BY <1>1, <2>1 DEF KeyboardTypeOK, UserKeys, Mods
  <2>3. KeyboardTypeOK'
    <3>1. clean' \in BOOLEAN /\ disturbed' \in BOOLEAN
      BY <2>1
    <3> QED
      BY <1>1, <2>1, <2>2, <3>1 DEF KeyboardTypeOK
  <2>4. BeliefTrue'
    <3>1. clean /\ known /\ down \cap Mods = believed => down' \cap Mods = believed
      BY <2>1 DEF Mods
    <3> QED
      BY <1>1, <2>1, <3>1 DEF BeliefTrue
  <2>5. PasteHolds'
    BY <1>1, <2>1, <2>2 DEF PasteHolds
  <2>6. AtCharacter'
    BY <1>1, <2>1 DEF AtCharacter
  <2> QED
    BY <2>3, <2>4, <2>5, <2>6 DEF KeyboardInv
<1>6. ASSUME NEW k \in UserKeys, KeyDown(k) \/ KeyUp(k) PROVE KeyboardInv'
  BY <1>6, KeyStep DEF KeyDown, KeyUp
<1>7. ASSUME NEW p \in Pastes, StartPaste(p) PROVE KeyboardInv'
  BY <1>7, StartPasteStep
<1>8. ASSUME NEW p \in Pastes,
             NextCharacter(p) \/ PressShifted(p) \/ ReleaseCharacter(p) \/ Unshift(p)
      PROVE KeyboardInv'
  BY <1>8, TypingStep
<1>9. CASE UNCHANGED keyboardVars
  BY <1>1, <1>9 DEF keyboardVars, modifiers, KeyboardInv, KeyboardTypeOK, BeliefTrue, PasteHolds,
                    AtCharacter, HoldsShift
<1> QED
  BY <1>3, <1>4, <1>5, <1>6, <1>7, <1>8, <1>9 DEF KeyboardNext

LEMMA KeyboardInductive == KeyboardSpec => []KeyboardInv
<1> QED
  BY KeyboardStart, KeyboardStep, PTL DEF KeyboardSpec

(* The keys and modifiers stay those a keyboard has, for every text. *)
THEOREM KeyboardTyped == KeyboardSpec => []KeyboardTypeOK
<1>1. KeyboardInv => KeyboardTypeOK
  BY DEF KeyboardInv
<1> QED
  BY <1>1, KeyboardInductive, PTL

(* After a key event the guest has the modifiers the user holds, whatever was *)
(* pressed and released where no event was seen, as long as nothing has upset *)
(* what the client believes.                                                  *)
THEOREM ModifiersAreFollowed == KeyboardSpec => []ModifiersFollow
<1>1. KeyboardInv => ModifiersFollow
  BY DEF KeyboardInv, BeliefTrue, ModifiersFollow
<1> QED
  BY <1>1, KeyboardInductive, PTL

(* However many texts are typed at once, and however their timers interleave, *)
(* they leave neither a modifier nor the text key down.                       *)
THEOREM PastesRelease == KeyboardSpec => []PasteReleases
<1>1. KeyboardInv => PasteReleases
  <2> SUFFICES ASSUME KeyboardInv, ~disturbed, \A p \in Pastes : ~Running(p),
                      NEW q \in Pastes, paste[q] # Idle
               PROVE  down \cap (Mods \cup {"a"}) = {}
    BY DEF PasteReleases
  <2>1. \A p \in Pastes : paste[p].step \notin {"press", "release", "unshift"}
    BY DEF Running, KeyboardInv, KeyboardTypeOK
  <2> QED
    BY <2>1 DEF KeyboardInv, PasteHolds, HoldsShift, Mods
<1> QED
  BY <1>1, KeyboardInductive, PTL

-----------------------------------------------------------------------------
(* What a text has typed *)

LEMMA KeyedFinite ==
  /\ IsFiniteSet(Keyed) /\ Cardinality(Keyed) \in Nat /\ Len(Text) \in Nat
  /\ \A i \in Keyed : i \in Nat /\ 1 <= i /\ i <= Len(Text)
<1>1. Len(Text) \in Nat /\ DOMAIN Text = 1 .. Len(Text)
  BY KeyboardAssumption
<1>2. Keyed \subseteq 1 .. Len(Text)
  BY <1>1 DEF Keyed
<1>3. IsFiniteSet(1 .. Len(Text))
  BY <1>1, FS_Interval
<1>4. IsFiniteSet(Keyed) /\ Cardinality(Keyed) \in Nat
  BY <1>2, <1>3, FS_Subset, FS_CardinalityType
<1>5. \A i \in 1 .. Len(Text) : i \in Nat /\ 1 <= i /\ i <= Len(Text)
  BY <1>1
<1> QED
  BY <1>1, <1>2, <1>4, <1>5

(* The characters with a key are numbered without gaps.                       *)
LEMMA BeforeTyped ==
  ASSUME NEW n \in Nat
  PROVE  /\ IsFiniteSet({j \in Keyed : j < n})
         /\ Before(n) \in Nat /\ Before(n) <= Cardinality(Keyed)
         /\ n > Len(Text) => Before(n) = Cardinality(Keyed)
         /\ n <= 1 => Before(n) = 0
<1>1. IsFiniteSet({j \in Keyed : j < n}) /\ Before(n) \in Nat /\ Before(n) <= Cardinality(Keyed)
  <2>1. {j \in Keyed : j < n} \in SUBSET Keyed
    OBVIOUS
  <2> QED
    BY <2>1, KeyedFinite, FS_Subset, FS_CardinalityType DEF Before
<1>2. ASSUME n > Len(Text) PROVE Before(n) = Cardinality(Keyed)
  <2>1. \A j \in Keyed : j < n
    BY <1>2, KeyedFinite
  <2>2. {j \in Keyed : j < n} = Keyed
    BY <2>1
  <2> QED
    BY <2>2 DEF Before
<1>3. ASSUME n <= 1 PROVE Before(n) = 0
  <2>1. \A j \in Keyed : ~(j < n)
    BY <1>3, KeyedFinite
  <2>2. {j \in Keyed : j < n} = {}
    BY <2>1
  <2> QED
    BY <2>2, FS_EmptySet DEF Before
<1> QED
  BY <1>1, <1>2, <1>3

LEMMA BeforeNext ==
  ASSUME NEW i \in Keyed
  PROVE  Before(i + 1) = Before(i) + 1
<1>1. i \in Nat
  BY KeyedFinite
<1>2. {j \in Keyed : j < i + 1} = {j \in Keyed : j < i} \cup {i}
  <2>1. \A j \in Keyed : j < i + 1 <=> j < i \/ j = i
    BY <1>1, KeyedFinite
  <2> QED
    BY <2>1
<1>3. i \notin {j \in Keyed : j < i} /\ IsFiniteSet({j \in Keyed : j < i})
  BY <1>1, BeforeTyped
<1> QED
  BY <1>2, <1>3, FS_AddElement DEF Before

LEMMA BeforeGrows ==
  ASSUME NEW m \in Nat, NEW n \in Nat, m <= n
  PROVE  Before(m) <= Before(n)
<1>1. {j \in Keyed : j < m} \in SUBSET {j \in Keyed : j < n}
  <2>1. \A j \in Keyed : j < m => j < n
    BY KeyedFinite
  <2> QED
    BY <2>1
<1> QED
  BY <1>1, BeforeTyped, FS_Subset DEF Before

LEMMA BeforeDiffers ==
  ASSUME NEW i \in Keyed, NEW j \in Keyed, Before(i) = Before(j)
  PROVE  i = j
<1>1. i \in Nat /\ j \in Nat /\ Before(i) \in Nat
  BY KeyedFinite, BeforeTyped
<1>2. ASSUME i < j PROVE FALSE
  <2>1. Before(i + 1) <= Before(j)
    BY <1>1, <1>2, BeforeGrows
  <2> QED
    BY <1>1, <2>1, BeforeNext
<1>3. ASSUME j < i PROVE FALSE
  <2>1. Before(j + 1) <= Before(i)
    BY <1>1, <1>3, BeforeGrows
  <2> QED
    BY <1>1, <2>1, BeforeNext
<1> QED
  BY <1>1, <1>2, <1>3

(* Going on to the next character with a key passes none.                     *)
LEMMA NextPassesNone ==
  ASSUME NEW at \in 0 .. Len(Text) + 1
  PROVE  /\ Before(NextAt(at)) = Before(at)
         /\ at >= 1 /\ NextAt(at) <= Len(Text) => NextAt(at) \in Keyed
<1> DEFINE rest == {i \in at .. Len(Text) : Text[i] # "?"}
<1>1. Len(Text) \in Nat /\ at \in Nat /\ NextAt(at) \in Nat /\ NextAt(at) >= at
  BY KeyboardAssumption, NextIsThere
<1>2. \A j \in Keyed : j >= at => j \in rest
  BY <1>1, KeyedFinite DEF Keyed
<1>3. \A j \in rest : NextAt(at) <= j
  <2>1. CASE rest = {}
    BY <2>1
  <2>2. CASE rest # {}
    <3>1. rest \subseteq Nat
      BY <1>1
    <3>2. \E m \in rest : \A j \in rest : m <= j
      BY <2>2, <3>1, Least
    <3>3. NextAt(at) = CHOOSE m \in rest : \A j \in rest : m <= j
      BY <2>2 DEF NextAt
    <3> QED
      BY <3>2, <3>3
  <2> QED
    BY <2>1, <2>2
<1>4. \A j \in Keyed : j < NextAt(at) <=> j < at
  <2> HIDE DEF rest
  <2>1. SUFFICES ASSUME NEW j \in Keyed PROVE j < NextAt(at) <=> j < at
    OBVIOUS
  <2>2. j \in Nat /\ (j >= at => NextAt(at) <= j)
    BY <1>2, <1>3, KeyedFinite
  <2> QED
    BY <1>1, <2>2
<1>5. {j \in Keyed : j < NextAt(at)} = {j \in Keyed : j < at}
  BY <1>4
<1>6. Before(NextAt(at)) = Before(at)
  BY <1>5 DEF Before
<1>7. at >= 1 /\ NextAt(at) <= Len(Text) => NextAt(at) \in Keyed
  BY <1>1, NextIsThere, KeyboardAssumption DEF Keyed
<1> QED
  BY <1>6, <1>7

(* A text alone on the keyboard: the guest has all the characters up to where *)
(* it is, with the one it is at from "release" on, and Shift is down while a  *)
(* capital is typed.                                                          *)
Alone(p) == (\A q \in Pastes \ {p} : paste[q] = Idle) /\ ~disturbed
Reached(p) == Before(paste[p].at) + (IF paste[p].step \in {"release", "unshift"} THEN 1 ELSE 0)
TextInPlace(p) ==
  /\ Len(typed) = Reached(p)
  /\ \A i \in Keyed : Before(i) < Len(typed) => typed[Before(i) + 1] = Text[i]
  /\ paste[p].step # "idle" => paste[p].at >= 1
  /\ paste[p].step = "done" => paste[p].at > Len(Text)
  /\ paste[p].step \in {"press", "release", "unshift"} => paste[p].at \in Keyed
  /\ HoldsShift(p) => "shift" \in down
TextInv == \A p \in Pastes : Alone(p) => TextInPlace(p)

LEMMA TextStart == KeyboardInit => TextInv
<1> SUFFICES ASSUME KeyboardInit, NEW p \in Pastes PROVE TextInPlace(p)
  BY DEF TextInv
<1>1. typed = <<>> /\ paste[p] = [at |-> 0, step |-> "idle"]
  BY DEF KeyboardInit, Idle
<1>2. Len(typed) = 0 /\ Reached(p) = 0
  <2>1. Before(0) = 0
    BY BeforeTyped, KeyedFinite
  <2> QED
    BY <1>1, <2>1 DEF Reached
<1>3. \A i \in Keyed : ~(Before(i) < Len(typed))
  <2>1. SUFFICES ASSUME NEW i \in Keyed PROVE ~(Before(i) < Len(typed))
    OBVIOUS
  <2>2. Before(i) \in Nat
    BY BeforeTyped, KeyedFinite
  <2> QED
    BY <1>2, <2>2
<1> QED
  BY <1>1, <1>2, <1>3 DEF TextInPlace, HoldsShift

(* Nothing but the steps of texts matters to a text alone.                    *)
LEMMA TextUntouched ==
  ASSUME TextInv, UNCHANGED <<typed, paste>>, disturbed => disturbed',
         (\E p \in Pastes : paste[p] # Idle) /\ "shift" \in down => "shift" \in down' \/ disturbed'
  PROVE  TextInv'
<1> SUFFICES ASSUME NEW p \in Pastes, Alone(p)' PROVE TextInPlace(p)'
  BY DEF TextInv
<1>1. Alone(p) /\ TextInPlace(p)
  BY DEF Alone, TextInv
<1>2. HoldsShift(p)' => "shift" \in down'
  BY <1>1 DEF HoldsShift, Idle, TextInPlace, Alone
<1>3. Reached(p)' = Reached(p)
  BY DEF Reached
<1> QED
  BY <1>1, <1>2, <1>3 DEF TextInPlace

(* A step of one text leaves no other alone.                                  *)
LEMMA TextMoves ==
  ASSUME KeyboardTypeOK, TextInv, NEW p \in Pastes,
         NEW at \in 0 .. Len(Text) + 1,
         NEW step \in {"next", "press", "release", "unshift", "done"},
         paste' = [paste EXCEPT ![p] = [at |-> at, step |-> step]],
         disturbed => disturbed',
         Alone(p) /\ ~disturbed' /\ TextInPlace(p) =>
           /\ at >= 1 /\ (step = "done" => at > Len(Text))
           /\ step \in {"press", "release", "unshift"} => at \in Keyed
           /\ Len(typed') = Before(at) + (IF step \in {"release", "unshift"} THEN 1 ELSE 0)
           /\ \A i \in Keyed : Before(i) < Len(typed') => typed'[Before(i) + 1] = Text[i]
           /\ step \in {"press", "release", "unshift"} /\ Text[at] = "A" => "shift" \in down'
  PROVE  TextInv'
<1> SUFFICES ASSUME NEW q \in Pastes, Alone(q)' PROVE TextInPlace(q)'
  BY DEF TextInv
<1>1. /\ paste'[p].at = at /\ paste'[p].step = step
      /\ \A r \in Pastes \ {p} : paste'[r] = paste[r]
  BY PasteTypes
<1>2. q = p
  BY <1>1 DEF Alone, Idle
<1>3. Alone(p) /\ ~disturbed' /\ TextInPlace(p)
  BY <1>1, <1>2 DEF Alone, TextInv
<1>4. Reached(p)' = Before(at) + (IF step \in {"release", "unshift"} THEN 1 ELSE 0)
  BY <1>1 DEF Reached
<1>5. HoldsShift(p)' <=> step \in {"press", "release", "unshift"} /\ Text[at] = "A"
  BY <1>1 DEF HoldsShift
<1> QED
  BY <1>1, <1>2, <1>3, <1>4, <1>5 DEF TextInPlace

(* The guest gets the next character of the text.                             *)
LEMMA TextGrows ==
  ASSUME NEW s \in Seq({"a", "A", "^"}), NEW at \in Keyed, Len(s) = Before(at),
         \A i \in Keyed : Before(i) < Len(s) => s[Before(i) + 1] = Text[i]
  PROVE  /\ Len(Append(s, Text[at])) = Before(at) + 1
         /\ \A i \in Keyed : Before(i) < Before(at) + 1 => Append(s, Text[at])[Before(i) + 1] = Text[i]
<1>1. Before(at) \in Nat /\ Len(Append(s, Text[at])) = Before(at) + 1
  BY BeforeTyped, KeyedFinite
<1>2. ASSUME NEW i \in Keyed, Before(i) < Before(at) + 1
      PROVE  Append(s, Text[at])[Before(i) + 1] = Text[i]
  <2>1. Before(i) \in Nat
    BY BeforeTyped, KeyedFinite
  <2>2. CASE Before(i) < Before(at)
    <3>1. Before(i) + 1 \in 1 .. Len(s)
      BY <1>1, <2>1, <2>2
    <3>2. PICK k \in 1 .. Len(s) : k = Before(i) + 1
      BY <3>1
    <3>3. Append(s, Text[at])[k] = s[k]
      BY <3>2
    <3> QED
      BY <2>2, <3>2, <3>3
  <2>3. CASE Before(i) = Before(at)
    <3>1. i = at
      BY <2>3, BeforeDiffers
    <3>2. Append(s, Text[at])[Len(s) + 1] = Text[at]
      OBVIOUS
    <3> QED
      BY <3>1, <3>2
  <2> QED
    BY <1>1, <1>2, <2>1, <2>2, <2>3
<1> QED
  BY <1>1, <1>2

LEMMA TextTypingStep ==
  ASSUME KeyboardInv, TextInv, NEW p \in Pastes,
         NextCharacter(p) \/ PressShifted(p) \/ ReleaseCharacter(p) \/ Unshift(p)
  PROVE  TextInv'
<1>1. KeyboardTypeOK /\ PasteHolds /\ AtCharacter
  BY DEF KeyboardInv
<1>2. /\ paste[p].at \in 0 .. Len(Text) + 1 /\ Len(Text) \in Nat
      /\ typed \in Seq({"a", "A", "^"}) /\ Len(typed) \in Nat
      /\ paste[p] = [at |-> paste[p].at, step |-> paste[p].step]
  BY <1>1, KeyboardAssumption DEF KeyboardTypeOK
<1>3. paste[p] # Idle /\ paste[p].step # "idle" /\ disturbed' = disturbed
  BY DEF NextCharacter, PressShifted, ReleaseCharacter, Unshift, Idle
(* A text alone: the channel is ready and only Shift may be down. *)
<1>4. ASSUME Alone(p)
      PROVE  /\ inputsReady /\ down \cap {"ctrl", "alt"} = {}
             /\ "shift" \in down => HoldsShift(p)
  <2>1. \A q \in Pastes : HoldsShift(q) => q = p
    BY <1>4 DEF Alone, HoldsShift, Idle
  <2> QED
    BY <1>1, <1>3, <1>4, <2>1 DEF PasteHolds, Alone
<1>5. ASSUME Alone(p), TextInPlace(p)
      PROVE  /\ Len(typed) = Reached(p)
             /\ \A i \in Keyed : Before(i) < Len(typed) => typed[Before(i) + 1] = Text[i]
             /\ paste[p].at >= 1
             /\ paste[p].step \in {"press", "release", "unshift"} => paste[p].at \in Keyed
             /\ HoldsShift(p) => "shift" \in down
  BY <1>3, <1>5 DEF TextInPlace
<1>6. \A i \in Keyed : Text[i] \in {"a", "A"}
  BY KeyboardAssumption DEF Keyed
<1>7. \A n \in 0 .. Len(Text) + 1 : Before(n) \in Nat /\ Before(n) + 0 = Before(n)
  <2>1. \A n \in 0 .. Len(Text) + 1 : n \in Nat
    BY <1>2
  <2>2. \A n \in Nat : Before(n) \in Nat
    BY BeforeTyped
  <2> QED
    BY <2>1, <2>2
<1>8. CASE NextCharacter(p)
  <2>1. paste[p].step = "next" /\ ~HoldsShift(p)
    BY <1>8 DEF NextCharacter, HoldsShift
  <2>2. PICK at \in 0 .. Len(Text) + 1 : at = NextAt(paste[p].at)
    BY <1>2, NextIsThere
  <2>3. at >= paste[p].at /\ Before(at) = Before(paste[p].at)
    BY <1>2, <2>2, NextIsThere, NextPassesNone
  <2>4. paste[p].at >= 1 /\ at <= Len(Text) => at \in Keyed
    BY <1>2, <2>2, NextPassesNone
  <2>5. \/ /\ at > Len(Text)
           /\ paste' = [paste EXCEPT ![p] = [at |-> at, step |-> "done"]]
           /\ UNCHANGED <<down, typed>>
        \/ /\ at <= Len(Text) /\ Text[at] = "A"
           /\ down' = Press("shift", down)
           /\ paste' = [paste EXCEPT ![p] = [at |-> at, step |-> "press"]]
           /\ UNCHANGED typed
        \/ /\ at <= Len(Text) /\ Text[at] = "a"
           /\ down' = Press("a", down) /\ typed' = Type
           /\ paste' = [paste EXCEPT ![p] = [at |-> at, step |-> "release"]]
    BY <1>8, <2>2 DEF NextCharacter
  <2>6. ASSUME Alone(p), TextInPlace(p)
        PROVE  /\ at >= 1 /\ (at <= Len(Text) => at \in Keyed) /\ Len(typed) = Before(at)
               /\ \A i \in Keyed : Before(i) < Len(typed) => typed[Before(i) + 1] = Text[i]
    <3>1. Reached(p) = Before(paste[p].at) + 0 /\ Before(paste[p].at) \in Nat
      BY <1>2, <1>7, <2>1 DEF Reached
    <3> QED
      BY <1>2, <1>5, <2>3, <2>4, <2>6, <3>1
  <2>7. CASE /\ at > Len(Text)
             /\ paste' = [paste EXCEPT ![p] = [at |-> at, step |-> "done"]]
             /\ UNCHANGED <<down, typed>>
    <3>1. Before(at) + 0 = Before(at)
      BY <1>7
    <3> QED
      BY <1>1, <1>3, <2>6, <2>7, <3>1, TextMoves
  <2>8. CASE /\ at <= Len(Text) /\ Text[at] = "A"
             /\ down' = Press("shift", down)
             /\ paste' = [paste EXCEPT ![p] = [at |-> at, step |-> "press"]]
             /\ UNCHANGED typed
    <3>1. Before(at) + 0 = Before(at)
      BY <1>7
    <3>2. Alone(p) => "shift" \in down'
      BY <1>4, <2>8 DEF Press
    <3> QED
      BY <1>1, <1>3, <2>6, <2>8, <3>1, <3>2, TextMoves
  <2>9. CASE /\ at <= Len(Text) /\ Text[at] = "a"
             /\ down' = Press("a", down) /\ typed' = Type
             /\ paste' = [paste EXCEPT ![p] = [at |-> at, step |-> "release"]]
    <3>1. Alone(p) => typed' = Append(typed, Text[at])
      BY <1>4, <2>1, <2>9 DEF Type, Typed
    <3>2. ASSUME Alone(p), TextInPlace(p)
          PROVE  /\ Len(typed') = Before(at) + 1
                 /\ \A i \in Keyed : Before(i) < Len(typed') => typed'[Before(i) + 1] = Text[i]
      <4>1. at \in Keyed /\ Len(typed) = Before(at)
            /\ \A i \in Keyed : Before(i) < Len(typed) => typed[Before(i) + 1] = Text[i]
        BY <2>6, <2>9, <3>2
      <4>2. typed' = Append(typed, Text[at])
        BY <3>1, <3>2
      <4>3. /\ Len(Append(typed, Text[at])) = Before(at) + 1
            /\ \A i \in Keyed : Before(i) < Before(at) + 1 => Append(typed, Text[at])[Before(i) + 1] = Text[i]
        BY <1>2, <4>1, TextGrows
      <4> QED
        BY <4>2, <4>3
    <3> QED
      BY <1>1, <1>3, <2>6, <2>9, <3>2, TextMoves
  <2> QED
    BY <2>5, <2>7, <2>8, <2>9
<1>9. /\ paste[p].step \in {"press", "release", "unshift"} => paste[p].at + 1 \in 0 .. Len(Text) + 1
      /\ [paste[p] EXCEPT !.step = "release"] = [at |-> paste[p].at, step |-> "release"]
      /\ [paste[p] EXCEPT !.step = "unshift"] = [at |-> paste[p].at, step |-> "unshift"]
  BY <1>1, <1>2 DEF AtCharacter
<1>10. CASE PressShifted(p)
  <2>1. /\ paste[p].step = "press" /\ down' = Press("a", down) /\ typed' = Type
        /\ paste' = [paste EXCEPT ![p] = [at |-> paste[p].at, step |-> "release"]]
    BY <1>9, <1>10 DEF PressShifted
  <2>2. Text[paste[p].at] = "A" /\ HoldsShift(p)
    BY <1>1, <2>1 DEF AtCharacter, HoldsShift
  <2>3. ASSUME Alone(p), TextInPlace(p)
        PROVE  /\ paste[p].at \in Keyed /\ paste[p].at >= 1 /\ "shift" \in down'
               /\ Len(typed') = Before(paste[p].at) + 1
               /\ \A i \in Keyed : Before(i) < Len(typed') => typed'[Before(i) + 1] = Text[i]
    <3>1. Reached(p) = Before(paste[p].at) + 0 /\ Before(paste[p].at) \in Nat
      BY <1>2, <1>7, <2>1 DEF Reached
    <3>2. Len(typed) = Before(paste[p].at) /\ paste[p].at \in Keyed /\ paste[p].at >= 1
      BY <1>5, <2>1, <2>3, <3>1
    <3>3. typed' = Append(typed, Text[paste[p].at])
      BY <1>4, <1>5, <2>1, <2>2, <2>3 DEF Type, Typed
    <3>4. "shift" \in down'
      BY <1>5, <2>1, <2>2, <2>3 DEF Press
    <3> QED
      BY <1>2, <1>5, <2>3, <3>2, <3>3, <3>4, TextGrows
  <2> QED
    BY <1>1, <1>2, <1>3, <2>1, <2>3, TextMoves
<1>11. CASE ReleaseCharacter(p)
  <2>1. paste[p].step = "release" /\ down' = Release({"a"}, down) /\ UNCHANGED typed
    BY <1>11 DEF ReleaseCharacter
  <2>2. "shift" \in down => "shift" \in down'
    BY <2>1 DEF Release
  <2>3. ASSUME Alone(p), TextInPlace(p)
        PROVE  /\ paste[p].at \in Keyed /\ paste[p].at >= 1
               /\ Len(typed) = Before(paste[p].at) + 1
               /\ \A i \in Keyed : Before(i) < Len(typed) => typed[Before(i) + 1] = Text[i]
               /\ HoldsShift(p) => "shift" \in down
    BY <1>5, <2>1, <2>3 DEF Reached
  <2>4. CASE Text[paste[p].at] = "A"
    <3>1. paste' = [paste EXCEPT ![p] = [at |-> paste[p].at, step |-> "unshift"]]
      BY <1>9, <1>11, <2>4 DEF ReleaseCharacter
    <3>2. HoldsShift(p)
      BY <2>1, <2>4 DEF HoldsShift
    <3> QED
      BY <1>1, <1>2, <1>3, <2>1, <2>2, <2>3, <3>1, <3>2, TextMoves
  <2>5. CASE Text[paste[p].at] # "A"
    <3>1. PICK at \in 0 .. Len(Text) + 1 : at = paste[p].at + 1
      BY <1>9, <2>1
    <3>2. paste' = [paste EXCEPT ![p] = [at |-> at, step |-> "next"]]
      BY <1>11, <2>5, <3>1 DEF ReleaseCharacter
    <3>3. ASSUME Alone(p), TextInPlace(p) PROVE at >= 1 /\ Len(typed) = Before(at) + 0
      <4>1. Before(at) = Before(paste[p].at) + 1 /\ Before(at) \in Nat
        BY <2>3, <3>1, <3>3, BeforeNext, BeforeTyped
      <4> QED
        BY <1>2, <2>3, <3>1, <3>3, <4>1
    <3> QED
      BY <1>1, <1>3, <2>1, <2>3, <3>2, <3>3, TextMoves
  <2> QED
    BY <2>4, <2>5
<1>12. CASE Unshift(p)
  <2>1. paste[p].step = "unshift" /\ UNCHANGED typed
    BY <1>12 DEF Unshift
  <2>2. PICK at \in 0 .. Len(Text) + 1 : at = paste[p].at + 1
    BY <1>9, <2>1
  <2>3. paste' = [paste EXCEPT ![p] = [at |-> at, step |-> "next"]]
    BY <1>12, <2>2 DEF Unshift
  <2>4. ASSUME Alone(p), TextInPlace(p)
        PROVE  /\ at >= 1 /\ Len(typed) = Before(at) + 0
               /\ \A i \in Keyed : Before(i) < Len(typed) => typed[Before(i) + 1] = Text[i]
    <3>1. paste[p].at \in Keyed /\ paste[p].at >= 1 /\ Len(typed) = Before(paste[p].at) + 1
      BY <1>5, <2>1, <2>4 DEF Reached
    <3>2. Before(at) = Before(paste[p].at) + 1 /\ Before(at) \in Nat
      BY <2>2, <3>1, BeforeNext, BeforeTyped
    <3> QED
      BY <1>2, <1>5, <2>2, <2>4, <3>1, <3>2
  <2> QED
    BY <1>1, <1>3, <2>1, <2>3, <2>4, TextMoves
<1> QED
  BY <1>8, <1>10, <1>11, <1>12

LEMMA TextStep == KeyboardInv /\ TextInv /\ [KeyboardNext]_keyboardVars => TextInv'
<1> SUFFICES ASSUME KeyboardInv, TextInv, [KeyboardNext]_keyboardVars PROVE TextInv'
  OBVIOUS
<1>1. CASE InputsReady \/ Away
  BY <1>1, TextUntouched DEF InputsReady, Away
<1>2. CASE SendCtrlAltDel
  BY <1>2, TextUntouched DEF SendCtrlAltDel
<1>3. ASSUME NEW k \in UserKeys, KeyDown(k) \/ KeyUp(k) PROVE TextInv'
  <2>1. /\ disturbed' = (disturbed \/ \E p \in Pastes : paste[p] # Idle)
        /\ UNCHANGED <<typed, paste>>
    BY <1>3 DEF KeyDown, KeyUp, Key
  <2> QED
    BY <2>1, TextUntouched
<1>4. ASSUME NEW p \in Pastes, StartPaste(p) PROVE TextInv'
  <2>1. /\ paste[p] = Idle /\ paste' = [paste EXCEPT ![p] = [at |-> 1, step |-> "next"]]
        /\ (disturbed => disturbed') /\ typed' = typed
    BY <1>4 DEF StartPaste
  <2>2. 1 \in 0 .. Len(Text) + 1 /\ Before(1) = 0 /\ Before(0) = 0
    <3>1. Len(Text) \in Nat /\ 0 \in Nat /\ 1 \in Nat
      BY KeyboardAssumption
    <3>2. \A n \in Nat : n <= 1 => Before(n) = 0
      BY BeforeTyped
    <3>3. Before(1) = 0 /\ Before(0) = 0
      BY <3>2
    <3> QED
      BY <3>1, <3>3
  <2>3. TextInPlace(p) => Len(typed) = 0 /\ \A i \in Keyed : Before(i) < Len(typed) => typed[Before(i) + 1] = Text[i]
    BY <2>1, <2>2 DEF TextInPlace, Reached, Idle
  <2>4. PICK at \in 0 .. Len(Text) + 1 : at = 1
    BY <2>2
  <2>5. /\ paste' = [paste EXCEPT ![p] = [at |-> at, step |-> "next"]]
        /\ at >= 1 /\ Before(at) = 0 /\ Before(at) + 0 = 0
    BY <2>1, <2>2, <2>4
  <2>6. ASSUME TextInPlace(p)
        PROVE  /\ Len(typed') = Before(at) + 0
               /\ \A i \in Keyed : Before(i) < Len(typed') => typed'[Before(i) + 1] = Text[i]
    BY <2>1, <2>3, <2>5, <2>6
  <2>7. KeyboardTypeOK
    BY DEF KeyboardInv
  <2> QED
    BY <2>1, <2>5, <2>6, <2>7, TextMoves
<1>5. ASSUME NEW p \in Pastes,
             NextCharacter(p) \/ PressShifted(p) \/ ReleaseCharacter(p) \/ Unshift(p)
      PROVE TextInv'
  BY <1>5, TextTypingStep
<1>6. CASE UNCHANGED keyboardVars
  BY <1>6, TextUntouched DEF keyboardVars
<1> QED
  BY <1>1, <1>2, <1>3, <1>4, <1>5, <1>6 DEF KeyboardNext

(* A text that nobody disturbs is typed as it is: every character the keyboard *)
(* has, in order, capitals as capitals, and nothing else, whatever was held    *)
(* down before; and texts leave no key down.                                   *)
THEOREM TextsAreTyped == KeyboardSpec => []TextsTyped
<1>1. KeyboardInv /\ TextInv => TextTyped
  <2> SUFFICES ASSUME KeyboardInv, TextInv, NEW p \in Pastes, Alone(p)
               PROVE  /\ Len(typed) <= Cardinality(Keyed)
                      /\ \A i \in Keyed : Before(i) < Len(typed) => typed[Before(i) + 1] = Text[i]
                      /\ paste[p].step = "done" => Len(typed) = Cardinality(Keyed)
    BY DEF TextTyped, Alone
  <2>1. TextInPlace(p) /\ paste[p].at \in Nat /\ Cardinality(Keyed) \in Nat
    BY KeyedFinite, KeyboardAssumption DEF TextInv, KeyboardInv, KeyboardTypeOK
  <2>2. Before(paste[p].at) \in Nat /\ Before(paste[p].at) <= Cardinality(Keyed)
    BY <2>1, BeforeTyped
  <2>3. CASE paste[p].step \in {"release", "unshift"}
    <3>1. paste[p].at \in Keyed /\ Len(typed) = Before(paste[p].at) + 1
      BY <2>1, <2>3 DEF TextInPlace, Reached
    <3>2. PICK n \in Nat : n = paste[p].at + 1
      BY <2>1
    <3>3. Before(n) = Before(paste[p].at) + 1
      BY <3>1, <3>2, BeforeNext
    <3>4. Before(n) <= Cardinality(Keyed)
      BY BeforeTyped
    <3> QED
      BY <2>1, <2>3, <3>1, <3>3, <3>4 DEF TextInPlace
  <2>4. CASE paste[p].step \notin {"release", "unshift"}
    <3>1. Len(typed) = Before(paste[p].at)
      BY <2>1, <2>2, <2>4 DEF TextInPlace, Reached
    <3>2. paste[p].step = "done" => Before(paste[p].at) = Cardinality(Keyed)
      BY <2>1, BeforeTyped DEF TextInPlace
    <3> QED
      BY <2>1, <2>2, <3>1, <3>2 DEF TextInPlace
  <2> QED
    BY <2>3, <2>4
<1> QED
  BY <1>1, KeyboardInductive, PastesRelease, TextStart, TextStep, PTL DEF KeyboardSpec, TextsTyped
=============================================================================
