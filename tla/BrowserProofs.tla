---------------------------- MODULE BrowserProofs ----------------------------
(***************************************************************************)
(* Proofs about the portal's page -- the list of requests and the console  *)
(* window -- and about the browser as a whole: each of its parts behaves as *)
(* its own specification says, so that what is proved of the part holds of  *)
(* the page that contains them.                                             *)
(***************************************************************************)
EXTENDS Browser, InputsProofs, MediaProofs

(* The console window *)

(* Until calls cross, at most one is under way: for the VM in the title of a *)
(* window that is open.                                                      *)
OneCall ==
  ~crossed => \A o \in Waiting : opens[o].vm = title /\ visible /\ \A q \in Waiting : q = o
ConsoleInv == ConsoleTypeOK /\ OneCall /\ ConsoleTitled

LEMMA ConsoleStart == ConsoleInit => ConsoleInv
<1> SUFFICES ASSUME ConsoleInit PROVE ConsoleInv
  OBVIOUS
<1>1. opens = <<>> /\ Len(opens) = 0 /\ opens \in Seq([vm : VMs, step : {"asked", "ticket", "error", "over"}])
  BY DEF ConsoleInit
<1>2. ConsoleTypeOK
  <2>1. up \subseteq VMs /\ visible \in BOOLEAN /\ crossed \in BOOLEAN /\ title = "none" /\ frame = "none"
    BY DEF ConsoleInit
  <2>2. Len(opens) <= MaxOpens
    BY <1>1, ConsoleAssumption
  <2> QED
    BY <1>1, <2>1, <2>2 DEF ConsoleTypeOK
<1>3. Waiting = {}
  BY <1>1 DEF Waiting, Calls
<1> QED
  BY <1>2, <1>3 DEF ConsoleInit, ConsoleInv, OneCall, ConsoleTitled

LEMMA OpenConsoleStep ==
  ASSUME ConsoleInv, NEW vm \in VMs, OpenConsole(vm)
  PROVE  ConsoleInv'
<1> DEFINE C == [vm : VMs, step : {"asked", "ticket", "error", "over"}]
           n == Len(opens)
<1>1. opens \in Seq(C) /\ n \in Nat /\ DOMAIN opens = 1 .. n
  BY DEF ConsoleInv, ConsoleTypeOK
<1>2. [vm |-> vm, step |-> "asked"] \in C
  OBVIOUS
<1>3. opens' = Append(opens, [vm |-> vm, step |-> "asked"])
  BY DEF OpenConsole
<1>4. /\ opens' \in Seq(C) /\ Len(opens') = n + 1 /\ DOMAIN opens' = 1 .. n + 1
      /\ opens'[n + 1] = [vm |-> vm, step |-> "asked"]
      /\ \A i \in 1 .. n : opens'[i] = opens[i]
  BY <1>1, <1>2, <1>3
<1>5. Waiting' = Waiting \cup {n + 1}
  <2>1. n + 1 \in Waiting'
    BY <1>1, <1>4 DEF Waiting, Calls
  <2>2. ASSUME NEW o PROVE o \in Waiting' <=> o \in Waiting \/ o = n + 1
    <3>1. CASE o \in 1 .. n
      <4>1. opens'[o] = opens[o] /\ o \in DOMAIN opens /\ o \in DOMAIN opens' /\ o # n + 1
        BY <1>1, <1>4, <3>1
      <4> QED
        BY <4>1 DEF Waiting, Calls
    <3>2. CASE o \notin 1 .. n
      <4>1. o \notin Waiting
        BY <1>1, <3>2 DEF Waiting, Calls
      <4>2. o \in Waiting' => o = n + 1
        <5>1. o \in Waiting' => o \in 1 .. n + 1
          BY <1>4 DEF Waiting, Calls
        <5> QED
          BY <1>1, <3>2, <5>1
      <4> QED
        BY <2>1, <4>1, <4>2
    <3> QED
      BY <3>1, <3>2
  <2> QED
    BY <2>2
<1>6. ConsoleTypeOK'
  <2>1. n + 1 <= MaxOpens
    BY <1>1, ConsoleAssumption DEF OpenConsole
  <2>2. up' \subseteq VMs /\ visible' \in BOOLEAN /\ crossed' \in BOOLEAN
    BY DEF OpenConsole, ConsoleInv, ConsoleTypeOK
  <2>3. title' \in VMs \cup {"none"} /\ frame' \in VMs \cup {"none"}
    BY DEF OpenConsole
  <2> QED
    BY <1>4, <2>1, <2>2, <2>3 DEF ConsoleTypeOK
<1>7. OneCall'
  <2> SUFFICES ASSUME ~crossed' PROVE \A o \in Waiting' : opens'[o].vm = title' /\ visible' /\ \A q \in Waiting' : q = o
    BY DEF OneCall
  <2>1. Waiting' = {n + 1}
    BY <1>5 DEF OpenConsole
  <2>2. opens'[n + 1].vm = title' /\ visible'
    BY <1>4 DEF OpenConsole
  <2> QED
    BY <2>1, <2>2
<1>8. ConsoleTitled'
  <2>1. frame' = "none" /\ visible' /\ Waiting' # {}
    BY <1>5 DEF OpenConsole
  <2> QED
    BY <2>1 DEF ConsoleTitled
<1> QED
  BY <1>6, <1>7, <1>8 DEF ConsoleInv

(* A call takes its next step. *)
LEMMA CallStep ==
  ASSUME ConsoleInv, NEW o \in Calls, NEW s \in {"ticket", "error", "over"}, opens[o].step # "over",
         opens' = [opens EXCEPT ![o].step = s]
  PROVE  /\ opens' \in Seq([vm : VMs, step : {"asked", "ticket", "error", "over"}])
         /\ Len(opens') = Len(opens)
         /\ \A q \in Calls : opens'[q].vm = opens[q].vm
         /\ o \in Waiting
         /\ Waiting' = IF s = "over" THEN Waiting \ {o} ELSE Waiting
<1> DEFINE C == [vm : VMs, step : {"asked", "ticket", "error", "over"}]
<1>1. opens \in Seq(C) /\ Len(opens) \in Nat /\ DOMAIN opens = 1 .. Len(opens) /\ o \in 1 .. Len(opens)
  BY DEF ConsoleInv, ConsoleTypeOK, Calls
<1>2. opens[o] \in C
  BY <1>1, ElementOfSeq
<1>3. [opens[o] EXCEPT !.step = s] \in C /\ [opens[o] EXCEPT !.step = s].vm = opens[o].vm
      /\ [opens[o] EXCEPT !.step = s].step = s
  BY <1>2
<1>4. /\ opens' \in Seq(C) /\ Len(opens') = Len(opens) /\ DOMAIN opens' = DOMAIN opens
      /\ opens'[o].vm = opens[o].vm /\ opens'[o].step = s
      /\ \A q \in Calls : q # o => opens'[q] = opens[q]
  BY <1>1, <1>3 DEF Calls
<1>5. ASSUME NEW q
      PROVE  q \in Waiting' <=> IF s = "over" THEN q \in Waiting /\ q # o ELSE q \in Waiting
  BY <1>4 DEF Waiting, Calls
<1> QED
  BY <1>4, <1>5 DEF Waiting

LEMMA ConsoleStep == ConsoleInv /\ [ConsoleNext]_consoleVars => ConsoleInv'
<1> SUFFICES ASSUME ConsoleInv, [ConsoleNext]_consoleVars PROVE ConsoleInv'
  OBVIOUS
<1>1. /\ up \subseteq VMs /\ visible \in BOOLEAN /\ crossed \in BOOLEAN
      /\ title \in VMs \cup {"none"} /\ frame \in VMs \cup {"none"}
      /\ opens \in Seq([vm : VMs, step : {"asked", "ticket", "error", "over"}])
      /\ Len(opens) <= MaxOpens /\ DOMAIN opens = 1 .. Len(opens)
  BY DEF ConsoleInv, ConsoleTypeOK
<1>2. CASE CloseConsole
  <2>1. opens' = opens /\ title' = title /\ ~visible' /\ frame' = "none" /\ up' = up /\ Waiting' = Waiting
        /\ visible' \in BOOLEAN /\ crossed' \in BOOLEAN
    BY <1>2 DEF CloseConsole, Waiting, Calls
  <2>2. ~crossed' => Waiting' = {}
    BY <1>2, <2>1 DEF CloseConsole
  <2>3. ConsoleTypeOK'
    BY <1>1, <2>1 DEF ConsoleTypeOK
  <2> QED
    BY <2>1, <2>2, <2>3 DEF ConsoleInv, OneCall, ConsoleTitled
<1>3. ASSUME NEW vm \in VMs, PowerChanges(vm) PROVE ConsoleInv'
  <2>1. up' \subseteq VMs /\ UNCHANGED <<opens, title, visible, frame, crossed>> /\ Waiting' = Waiting
    BY <1>1, <1>3 DEF PowerChanges, window, Waiting, Calls
  <2>2. ConsoleTypeOK'
    BY <1>1, <2>1 DEF ConsoleTypeOK
  <2> QED
    BY <2>1, <2>2 DEF ConsoleInv, OneCall, ConsoleTitled
<1>4. ASSUME NEW o \in Calls, AnswerTicket(o) PROVE ConsoleInv'
  <2>1. PICK s \in {"ticket", "error"} : opens' = [opens EXCEPT ![o].step = s]
    BY <1>4 DEF AnswerTicket
  <2>2. UNCHANGED <<up, title, visible, frame, crossed>> /\ opens[o].step # "over"
    BY <1>4 DEF AnswerTicket, window
  <2>3. /\ opens' \in Seq([vm : VMs, step : {"asked", "ticket", "error", "over"}])
        /\ Len(opens') = Len(opens) /\ \A q \in Calls : opens'[q].vm = opens[q].vm /\ Waiting' = Waiting
    BY <2>1, <2>2, CallStep
  <2>4. Waiting' = Waiting
    BY <2>3
  <2>5. ConsoleTypeOK'
    BY <1>1, <2>2, <2>3 DEF ConsoleTypeOK
  <2> QED
    BY <2>2, <2>3, <2>4, <2>5 DEF ConsoleInv, OneCall, ConsoleTitled, Waiting
<1>5. ASSUME NEW o \in Calls, TicketArrives(o) PROVE ConsoleInv'
  <2>1. opens' = [opens EXCEPT ![o].step = "over"] /\ opens[o].step # "over"
        /\ UNCHANGED <<up, title, visible, crossed>> /\ frame' = opens[o].vm
    BY <1>5 DEF TicketArrives
  <2>2. /\ opens' \in Seq([vm : VMs, step : {"asked", "ticket", "error", "over"}])
        /\ Len(opens') = Len(opens) /\ o \in Waiting /\ Waiting' = Waiting \ {o}
    BY <2>1, CallStep
  <2>3. opens[o].vm \in VMs
    <3>1. opens[o] \in [vm : VMs, step : {"asked", "ticket", "error", "over"}]
      BY <1>1, ElementOfSeq DEF Calls
    <3> QED
      BY <3>1
  <2>4. ~crossed => Waiting' = {} /\ visible /\ opens[o].vm = title
    BY <2>2 DEF ConsoleInv, OneCall
  <2>5. ConsoleTypeOK'
    BY <1>1, <2>1, <2>2, <2>3 DEF ConsoleTypeOK
  <2> QED
    BY <2>1, <2>4, <2>5 DEF ConsoleInv, OneCall, ConsoleTitled
<1>6. ASSUME NEW o \in Calls, ErrorArrives(o) PROVE ConsoleInv'
  <2>1. opens' = [opens EXCEPT ![o].step = "over"] /\ opens[o].step # "over"
        /\ UNCHANGED <<up, title, crossed>> /\ frame' = "none" /\ ~visible' /\ visible' \in BOOLEAN
    BY <1>6 DEF ErrorArrives
  <2>2. /\ opens' \in Seq([vm : VMs, step : {"asked", "ticket", "error", "over"}])
        /\ Len(opens') = Len(opens) /\ o \in Waiting /\ Waiting' = Waiting \ {o}
    BY <2>1, CallStep
  <2>3. ~crossed => Waiting' = {}
    BY <2>2 DEF ConsoleInv, OneCall
  <2>4. ConsoleTypeOK'
    BY <1>1, <2>1, <2>2 DEF ConsoleTypeOK
  <2> QED
    BY <2>1, <2>3, <2>4 DEF ConsoleInv, OneCall, ConsoleTitled
<1>7. CASE UNCHANGED consoleVars
  <2>1. UNCHANGED <<up, opens, title, visible, frame, crossed>> /\ Waiting' = Waiting
    BY <1>7 DEF consoleVars, window, Waiting, Calls
  <2> QED
    BY <1>1, <2>1 DEF ConsoleInv, ConsoleTypeOK, OneCall, ConsoleTitled
<1> QED
  BY <1>2, <1>3, <1>4, <1>5, <1>6, <1>7, OpenConsoleStep DEF ConsoleNext

LEMMA ConsoleInductive == ConsoleSpec => []ConsoleInv
<1> QED
  BY ConsoleStart, ConsoleStep, PTL DEF ConsoleSpec

(* The console window's title, its frame and its openings keep their types. *)
THEOREM ConsoleTyped == ConsoleSpec => []ConsoleTypeOK
<1>1. ConsoleInv => ConsoleTypeOK
  BY DEF ConsoleInv
<1> QED
  BY <1>1, ConsoleInductive, PTL

(* For any number of VMs and of openings: until the window is closed or opened *)
(* anew while a ticket is to come, its frame shows the VM in its title or,     *)
(* while that ticket is to come, nothing; and nothing when it is closed.       *)
THEOREM TitleNamesTheConsole == ConsoleSpec => []ConsoleTitled
<1>1. ConsoleInv => ConsoleTitled
  BY DEF ConsoleInv
<1> QED
  BY <1>1, ConsoleInductive, PTL
-----------------------------------------------------------------------------
(* The list of requests *)

LoadNames == {"none", "asked", "answered"}
FlowNames == {"none", "plan", "planned", "asked", "sent", "done", "refused", "reload"}
Loads == [step : LoadNames, version : 0 .. version, open : BOOLEAN, flow : Flows \cup {0}]
FlowRecords == [step : FlowNames, kind : {"operate", "delete"}, seen : 0 .. MaxChanges + 1, fresh : BOOLEAN]

PageTypes ==
  /\ version \in 0 .. MaxChanges + 1 /\ shown \in 0 .. version
  /\ targets \in 0 .. MaxChanges + 1 /\ tickets \in [Flows -> 0 .. MaxChanges + 1]
  /\ panel \in BOOLEAN
  /\ loads \in [Slots -> Loads] /\ flows \in [Flows -> FlowRecords]
  /\ disabled \subseteq {"operate", "delete"}
  /\ removed \subseteq Flows \X (1 .. MaxChanges + 1) \X (1 .. MaxChanges + 1)

(* While the VM is there its deletion is still to come, so one change is left *)
(* for it; a flow that has its plan and has not spent its token yet saw what  *)
(* the token stands for.                                                      *)
ChangesLeft == targets # 0 => version <= MaxChanges
HasPlan(f) == flows[f].step \in {"planned", "asked", "sent"} /\ flows[f].kind = "delete"
TicketsStandForPlans == \A f \in Flows : HasPlan(f) => tickets[f] \in {0, flows[f].seen}
PageInv == PageTypes /\ ChangesLeft /\ TicketsStandForPlans /\ DeletesWhatWasConfirmed

LEMMA PageStart == PageInit => PageInv
<1> SUFFICES ASSUME PageInit PROVE PageInv
  OBVIOUS
<1>1. /\ version = 0 /\ targets = 1 /\ shown = 0 /\ removed = {} /\ panel \in BOOLEAN /\ disabled = {}
      /\ tickets = [f \in Flows |-> 0] /\ MaxChanges \in Nat
      /\ loads = [l \in Slots |-> NoLoad] /\ flows = [f \in Flows |-> NoFlow]
  BY PageAssumption DEF PageInit
<1>2. NoLoad \in Loads /\ NoFlow \in FlowRecords
  <2>1. 0 \in 0 .. version /\ 0 \in 0 .. MaxChanges + 1
    BY <1>1
  <2> QED
    BY <2>1 DEF NoLoad, NoFlow, Loads, FlowRecords, LoadNames, FlowNames
<1>3. PageTypes
  BY <1>1, <1>2 DEF PageTypes
<1>4. ChangesLeft
  BY <1>1 DEF ChangesLeft
<1>5. TicketsStandForPlans
  BY <1>1 DEF TicketsStandForPlans
<1>6. DeletesWhatWasConfirmed
  BY <1>1 DEF DeletesWhatWasConfirmed
<1> QED
  BY <1>3, <1>4, <1>5, <1>6 DEF PageInv

LEMMA Blanks ==
  ASSUME PageInv
  PROVE  NoLoad \in Loads /\ NoFlow \in FlowRecords
<1>1. 0 \in 0 .. version /\ 0 \in 0 .. MaxChanges + 1
  BY PageAssumption DEF PageInv, PageTypes
<1> QED
  BY <1>1 DEF NoLoad, NoFlow, Loads, FlowRecords, LoadNames, FlowNames

(* The page alone: what the portal has stays, and no flow gets a plan by it.  *)
LEMMA PageAlone ==
  ASSUME PageInv, UNCHANGED portal, shown' \in 0 .. version, panel' \in BOOLEAN,
         loads' \in [Slots -> Loads], flows' \in [Flows -> FlowRecords],
         disabled' \subseteq {"operate", "delete"},
         \A f \in Flows : HasPlan(f)' => HasPlan(f) /\ flows[f].seen = flows'[f].seen
  PROVE  PageInv'
<1>1. UNCHANGED <<version, targets, tickets, removed>> /\ Loads' = Loads
  BY DEF portal, Loads
<1>2. PageTypes'
  BY <1>1 DEF PageTypes, PageInv
<1>3. ChangesLeft' /\ DeletesWhatWasConfirmed'
  BY <1>1 DEF PageInv, ChangesLeft, DeletesWhatWasConfirmed
<1>4. TicketsStandForPlans'
  BY <1>1 DEF PageInv, TicketsStandForPlans
<1> QED
  BY <1>2, <1>3, <1>4 DEF PageInv

(* What the portal's page does with its loads *)
LEMMA LoadSteps ==
  ASSUME PageInv, NEW l \in Slots,
         \/ Tick(l) \/ UserRefresh(l) \/ AnswerList(l) \/ ListArrives(l) \/ ListFails(l)
  PROVE  PageInv'
<1>1. /\ version \in Nat /\ shown \in 0 .. version /\ panel \in BOOLEAN
      /\ loads \in [Slots -> Loads] /\ flows \in [Flows -> FlowRecords]
      /\ disabled \subseteq {"operate", "delete"}
  BY PageAssumption DEF PageInv, PageTypes
<1>2. NoLoad \in Loads /\ NoFlow \in FlowRecords
  BY Blanks, <1>1
<1>3. loads[l] \in Loads
  BY <1>1
<1>4. ASSUME BeginLoad(l, 0), UNCHANGED <<portal, shown, panel, flows, disabled>> PROVE PageInv'
  <2>1. [step |-> "asked", version |-> 0, open |-> panel, flow |-> 0] \in Loads
    BY <1>1 DEF Loads, LoadNames
  <2>2. loads' \in [Slots -> Loads]
    BY <1>1, <1>4, <2>1 DEF BeginLoad
  <2>3. \A f \in Flows : HasPlan(f)' => HasPlan(f) /\ flows[f].seen = flows'[f].seen
    BY <1>4 DEF HasPlan
  <2> QED
    BY <1>1, <1>4, <2>2, <2>3, PageAlone
<1>6. CASE AnswerList(l)
  <2>1. [loads[l] EXCEPT !.step = "answered", !.version = version] \in Loads
    <3> DEFINE V == 0 .. version
    <3>1. version \in V
      BY <1>1
    <3>2. loads[l] \in [step : LoadNames, version : V, open : BOOLEAN, flow : Flows \cup {0}]
      BY <1>3 DEF Loads
    <3> HIDE DEF V
    <3>3. "answered" \in LoadNames
      BY DEF LoadNames
    <3>4. [loads[l] EXCEPT !.step = "answered", !.version = version]
            \in [step : LoadNames, version : V, open : BOOLEAN, flow : Flows \cup {0}]
      BY <3>1, <3>2, <3>3
    <3> QED
      BY <3>4 DEF V, Loads
  <2>2. loads' = [loads EXCEPT ![l] = [loads[l] EXCEPT !.step = "answered", !.version = version]]
    BY <1>1, <1>6 DEF AnswerList
  <2>3. loads' \in [Slots -> Loads]
    BY <1>1, <2>1, <2>2
  <2>4. UNCHANGED <<portal, shown, panel, flows, disabled>>
    BY <1>6 DEF AnswerList
  <2>5. \A f \in Flows : HasPlan(f)' => HasPlan(f) /\ flows[f].seen = flows'[f].seen
    BY <2>4 DEF HasPlan
  <2> QED
    BY <1>1, <2>3, <2>4, <2>5, PageAlone
<1>7. CASE ListArrives(l)
  <2>1. shown' \in 0 .. version /\ panel' \in BOOLEAN
    BY <1>3, <1>7 DEF ListArrives, Loads
  <2>2. loads' \in [Slots -> Loads]
    BY <1>1, <1>2, <1>7 DEF ListArrives
  <2>3. ASSUME NEW f \in Flows
        PROVE  /\ flows'[f] \in FlowRecords
               /\ HasPlan(f)' => HasPlan(f) /\ flows[f].seen = flows'[f].seen
    <3>1. flows[f] \in FlowRecords
      BY <1>1
    <3>2. CASE f = loads[l].flow \/ flows[f].step = "none"
      <4>1. flows'[f] = NoFlow
        BY <1>7, <3>2 DEF ListArrives
      <4> QED
        BY <1>2, <4>1 DEF HasPlan, NoFlow
    <3>3. CASE ~(f = loads[l].flow \/ flows[f].step = "none")
      <4>1. flows'[f] = [flows[f] EXCEPT !.fresh = FALSE]
        BY <1>7, <3>3 DEF ListArrives
      <4> QED
        BY <3>1, <4>1 DEF HasPlan, FlowRecords
    <3> QED
      BY <3>2, <3>3
  <2>4. flows' \in [Flows -> FlowRecords]
    <3>1. flows' = [f \in Flows |-> flows'[f]]
      BY <1>7 DEF ListArrives
    <3> QED
      BY <2>3, <3>1
  <2>5. UNCHANGED portal /\ disabled' \subseteq {"operate", "delete"}
    BY <1>7 DEF ListArrives
  <2> QED
    BY <2>1, <2>2, <2>3, <2>4, <2>5, PageAlone
<1>8. CASE ListFails(l)
  <2>1. loads' \in [Slots -> Loads]
    BY <1>1, <1>2, <1>8 DEF ListFails
  <2>2. UNCHANGED <<portal, shown, panel>>
    BY <1>8 DEF ListFails
  <2>3. CASE loads[l].flow = 0
    <3>1. UNCHANGED <<flows, disabled>>
      BY <1>8, <2>3 DEF ListFails
    <3>2. \A f \in Flows : HasPlan(f)' => HasPlan(f) /\ flows[f].seen = flows'[f].seen
      BY <3>1 DEF HasPlan
    <3> QED
      BY <1>1, <2>1, <2>2, <3>1, <3>2, PageAlone
  <2>4. CASE loads[l].flow # 0
    <3>1. flows' = [flows EXCEPT ![loads[l].flow] = NoFlow] /\ EnableAgain(loads[l].flow)
      BY <1>8, <2>4 DEF ListFails
    <3>2. flows' \in [Flows -> FlowRecords]
      BY <1>1, <1>2, <3>1
    <3>3. disabled' \subseteq {"operate", "delete"}
      BY <1>1, <3>1 DEF EnableAgain
    <3>4. ASSUME NEW f \in Flows PROVE HasPlan(f)' => HasPlan(f) /\ flows[f].seen = flows'[f].seen
      <4>1. flows'[f] = IF f = loads[l].flow THEN NoFlow ELSE flows[f]
        BY <1>1, <3>1
      <4> QED
        BY <4>1 DEF HasPlan, NoFlow
    <3> QED
      BY <1>1, <2>1, <2>2, <3>2, <3>3, <3>4, PageAlone
  <2> QED
    BY <2>3, <2>4
<1> QED
  BY <1>4, <1>6, <1>7, <1>8 DEF Tick, UserRefresh

(* A flow goes on, and gets no plan by that, or keeps the one it has. *)
LEMMA FlowGoesOn ==
  ASSUME PageInv, UNCHANGED <<portal, shown, panel>>, loads' \in [Slots -> Loads],
         disabled' \subseteq {"operate", "delete"},
         NEW f \in Flows, NEW r \in FlowRecords, flows' = [flows EXCEPT ![f] = r],
         r.step \in {"planned", "asked", "sent"} /\ r.kind = "delete" => HasPlan(f) /\ flows[f].seen = r.seen
  PROVE  PageInv'
<1>1. /\ version \in Nat /\ shown \in 0 .. version /\ panel \in BOOLEAN
      /\ flows \in [Flows -> FlowRecords]
  BY PageAssumption DEF PageInv, PageTypes
<1>2. flows' \in [Flows -> FlowRecords] /\ \A g \in Flows : flows'[g] = IF g = f THEN r ELSE flows[g]
  BY <1>1
<1>3. \A g \in Flows : HasPlan(g)' => HasPlan(g) /\ flows[g].seen = flows'[g].seen
  BY <1>2 DEF HasPlan
<1> QED
  BY <1>1, <1>2, <1>3, PageAlone

LEMMA FlowSteps ==
  ASSUME PageInv, NEW f \in Flows,
         \/ \E k \in {"operate", "delete"} : Click(f, k)
         \/ \E l \in Slots : DoneArrives(f, l)
         \/ PlanArrives(f) \/ Confirm(f) \/ Refrain(f) \/ RefusedArrives(f)
  PROVE  PageInv'
<1>1. /\ version \in Nat /\ panel \in BOOLEAN
      /\ loads \in [Slots -> Loads] /\ flows \in [Flows -> FlowRecords]
      /\ disabled \subseteq {"operate", "delete"} /\ flows[f] \in FlowRecords
  BY PageAssumption DEF PageInv, PageTypes
<1>2. NoFlow \in FlowRecords /\ NoFlow.step = "none"
  BY Blanks, <1>1 DEF NoFlow
<1>3. ASSUME NEW k \in {"operate", "delete"}, Click(f, k) PROVE PageInv'
  <2> DEFINE r == [NoFlow EXCEPT !.kind = k, !.fresh = TRUE, !.step = IF k = "delete" THEN "plan" ELSE "sent"]
  <2>1. r \in FlowRecords /\ (k = "delete" => r.step = "plan") /\ r.kind = k
    BY <1>2 DEF NoFlow, FlowRecords, FlowNames
  <2>2. flows' = [flows EXCEPT ![f] = r] /\ UNCHANGED <<portal, shown, panel, loads>>
    BY <1>3 DEF Click, list
  <2>3. disabled' \subseteq {"operate", "delete"}
    BY <1>1, <1>3 DEF Click
  <2> HIDE DEF r
  <2> QED
    BY <1>1, <2>1, <2>2, <2>3, FlowGoesOn
<1>4. CASE PlanArrives(f)
  <2> DEFINE r == [flows[f] EXCEPT !.step = "asked"]
  <2>1. r \in FlowRecords /\ r.kind = flows[f].kind /\ r.seen = flows[f].seen
    BY <1>1 DEF FlowRecords, FlowNames
  <2>2. flows' = [flows EXCEPT ![f] = r] /\ UNCHANGED <<portal, shown, panel, loads, disabled>>
        /\ flows[f].step = "planned"
    BY <1>1, <1>4 DEF PlanArrives, list
  <2> HIDE DEF r
  <2>3. r.kind = "delete" => HasPlan(f)
    BY <2>1, <2>2 DEF HasPlan
  <2> QED
    BY <1>1, <2>1, <2>2, <2>3, FlowGoesOn
<1>5. CASE Confirm(f)
  <2> DEFINE r == [flows[f] EXCEPT !.step = "sent"]
  <2>1. r \in FlowRecords /\ r.kind = flows[f].kind /\ r.seen = flows[f].seen
    BY <1>1 DEF FlowRecords, FlowNames
  <2>2. flows' = [flows EXCEPT ![f] = r] /\ UNCHANGED <<portal, shown, panel, loads>>
        /\ flows[f].step = "asked" /\ disabled' \subseteq {"operate", "delete"}
    BY <1>1, <1>5 DEF Confirm, list
  <2> HIDE DEF r
  <2>3. r.kind = "delete" => HasPlan(f)
    BY <2>1, <2>2 DEF HasPlan
  <2> QED
    BY <1>1, <2>1, <2>2, <2>3, FlowGoesOn
<1>6. CASE Refrain(f)
  <2>1. flows' = [flows EXCEPT ![f] = NoFlow] /\ UNCHANGED <<portal, shown, panel, loads, disabled>>
    BY <1>6 DEF Refrain, list
  <2> QED
    BY <1>1, <1>2, <2>1, FlowGoesOn
<1>7. ASSUME NEW l \in Slots, DoneArrives(f, l) PROVE PageInv'
  <2> DEFINE r == [flows[f] EXCEPT !.step = "reload"]
  <2>1. r \in FlowRecords /\ r.step = "reload"
    BY <1>1 DEF FlowRecords, FlowNames
  <2>2. flows' = [flows EXCEPT ![f] = r] /\ UNCHANGED <<portal, shown, panel, disabled>>
    BY <1>1, <1>7 DEF DoneArrives, Reply
  <2>3. [step |-> "asked", version |-> 0, open |-> panel, flow |-> f] \in Loads
    BY <1>1 DEF Loads, LoadNames
  <2>4. loads' \in [Slots -> Loads]
    BY <1>1, <1>7, <2>3 DEF DoneArrives, BeginLoad
  <2> HIDE DEF r
  <2> QED
    BY <1>1, <2>1, <2>2, <2>4, FlowGoesOn
<1>8. CASE RefusedArrives(f)
  <2>1. flows' = [flows EXCEPT ![f] = NoFlow] /\ UNCHANGED <<portal, shown, panel, loads>>
        /\ EnableAgain(f)
    BY <1>8 DEF RefusedArrives, list
  <2>2. disabled' \subseteq {"operate", "delete"}
    BY <1>1, <2>1 DEF EnableAgain
  <2> QED
    BY <1>1, <1>2, <2>1, <2>2, FlowGoesOn
<1> QED
  BY <1>3, <1>4, <1>5, <1>6, <1>7, <1>8

-----------------------------------------------------------------------------
(* The portal changes the VM *)

(* The list keeps its type when the portal's version grows. *)
LEMMA NewerVersion ==
  ASSUME PageTypes, version' \in Nat, version' >= version, UNCHANGED list
  PROVE  shown' \in 0 .. version' /\ panel' \in BOOLEAN /\ loads' \in [Slots -> Loads']
<1>1. /\ version \in Nat /\ shown \in 0 .. version /\ panel \in BOOLEAN /\ loads \in [Slots -> Loads]
      /\ UNCHANGED <<shown, panel, loads>>
  BY PageAssumption DEF PageTypes, list
<1>2. 0 .. version \subseteq 0 .. version'
  BY <1>1
<1>3. ASSUME NEW l \in Loads PROVE l \in Loads'
  BY <1>2, <1>3 DEF Loads
<1> QED
  BY <1>1, <1>2, <1>3

LEMMA ChangeStep ==
  ASSUME PageInv, NEW also \in BOOLEAN, OthersChange(also)
  PROVE  PageInv'
<1>1. /\ version \in 0 .. MaxChanges + 1 /\ targets \in 0 .. MaxChanges + 1 /\ MaxChanges \in Nat
      /\ tickets \in [Flows -> 0 .. MaxChanges + 1] /\ flows \in [Flows -> FlowRecords]
      /\ disabled \subseteq {"operate", "delete"}
      /\ removed \subseteq Flows \X (1 .. MaxChanges + 1) \X (1 .. MaxChanges + 1)
  BY PageAssumption DEF PageInv, PageTypes
<1>2. /\ version < MaxChanges /\ version' = version + 1 /\ UNCHANGED <<tickets, removed, list, flows, disabled>>
      /\ targets' = IF also /\ targets # 0 THEN version' + 1 ELSE targets
  BY DEF OthersChange
<1>3. targets' \in 0 .. MaxChanges + 1 /\ version' \in 0 .. MaxChanges /\ (targets = 0 => targets' = 0)
  BY <1>1, <1>2
<1>4. shown' \in 0 .. version' /\ panel' \in BOOLEAN /\ loads' \in [Slots -> Loads']
  BY <1>1, <1>2, <1>3, NewerVersion DEF PageInv
<1>5. FlowRecords' = FlowRecords /\ version' \in 0 .. MaxChanges + 1
  BY <1>1, <1>3 DEF FlowRecords
<1>6. PageTypes'
  BY <1>1, <1>2, <1>3, <1>4, <1>5 DEF PageTypes
<1>7. ChangesLeft'
  BY <1>1, <1>3 DEF ChangesLeft
<1>8. TicketsStandForPlans'
  BY <1>2 DEF PageInv, TicketsStandForPlans, HasPlan
<1>9. DeletesWhatWasConfirmed'
  BY <1>2, <1>3 DEF PageInv, DeletesWhatWasConfirmed
<1> QED
  BY <1>6, <1>7, <1>8, <1>9 DEF PageInv

LEMMA PlanStep ==
  ASSUME PageInv, NEW f \in Flows, AnswerPlan(f)
  PROVE  PageInv'
<1>1. /\ version \in 0 .. MaxChanges + 1 /\ targets \in 0 .. MaxChanges + 1 /\ MaxChanges \in Nat
      /\ tickets \in [Flows -> 0 .. MaxChanges + 1] /\ flows \in [Flows -> FlowRecords]
      /\ panel \in BOOLEAN /\ shown \in 0 .. version
      /\ loads \in [Slots -> Loads]
      /\ disabled \subseteq {"operate", "delete"} /\ flows[f] \in FlowRecords
      /\ removed \subseteq Flows \X (1 .. MaxChanges + 1) \X (1 .. MaxChanges + 1)
  BY PageAssumption DEF PageInv, PageTypes
<1>2. UNCHANGED <<version, targets, removed, shown, panel, loads, disabled>>
  BY DEF AnswerPlan, list
<1>3. CASE targets = 0
  <2>1. flows' = [flows EXCEPT ![f] = NoFlow] /\ UNCHANGED tickets
    BY <1>3 DEF AnswerPlan
  <2>2. NoFlow \in FlowRecords /\ NoFlow.step = "none"
    BY Blanks DEF NoFlow
  <2>3. UNCHANGED portal
    BY <1>2, <2>1 DEF portal
  <2> QED
    BY <1>1, <1>2, <2>1, <2>2, <2>3, FlowGoesOn
<1>4. CASE targets # 0
  <2> DEFINE r == [flows[f] EXCEPT !.step = "planned", !.seen = targets]
  <2>1. flows' = [flows EXCEPT ![f] = r] /\ tickets' = [tickets EXCEPT ![f] = targets]
    BY <1>1, <1>4 DEF AnswerPlan
  <2>2. r \in FlowRecords /\ r.seen = targets
    BY <1>1 DEF FlowRecords, FlowNames
  <2> HIDE DEF r
  <2>3. /\ flows' \in [Flows -> FlowRecords] /\ tickets' \in [Flows -> 0 .. MaxChanges + 1]
        /\ flows'[f].seen = targets /\ tickets'[f] = targets
        /\ \A g \in Flows : g # f => flows'[g] = flows[g] /\ tickets'[g] = tickets[g]
    BY <1>1, <2>1, <2>2
  <2>4. FlowRecords' = FlowRecords /\ Loads' = Loads
    BY <1>2 DEF FlowRecords, Loads
  <2>5. PageTypes'
    BY <1>1, <1>2, <2>3, <2>4 DEF PageTypes
  <2>6. ChangesLeft' /\ DeletesWhatWasConfirmed'
    BY <1>2 DEF PageInv, ChangesLeft, DeletesWhatWasConfirmed
  <2>7. TicketsStandForPlans'
    BY <2>3 DEF PageInv, TicketsStandForPlans, HasPlan
  <2> QED
    BY <2>5, <2>6, <2>7 DEF PageInv
<1> QED
  BY <1>3, <1>4

LEMMA OperatedStep ==
  ASSUME PageInv, NEW f \in Flows, NEW done \in BOOLEAN, NEW also \in BOOLEAN, Operated(f, done, also)
  PROVE  PageInv'
<1>1. /\ version \in 0 .. MaxChanges + 1 /\ targets \in 0 .. MaxChanges + 1 /\ MaxChanges \in Nat
      /\ tickets \in [Flows -> 0 .. MaxChanges + 1] /\ flows \in [Flows -> FlowRecords]
      /\ loads \in [Slots -> Loads]
      /\ disabled \subseteq {"operate", "delete"} /\ flows[f] \in FlowRecords
      /\ removed \subseteq Flows \X (1 .. MaxChanges + 1) \X (1 .. MaxChanges + 1)
  BY PageAssumption DEF PageInv, PageTypes
<1>2. UNCHANGED <<tickets, removed, list, disabled>> /\ UNCHANGED <<shown, panel, loads>>
  BY DEF Operated, list
<1>3. CASE done /\ targets # 0
  <2> DEFINE r == [flows[f] EXCEPT !.step = "done"]
  <2>1. /\ version < MaxChanges /\ version' = version + 1
        /\ targets' = IF also THEN version' + 1 ELSE targets
        /\ flows' = [flows EXCEPT ![f] = r]
    BY <1>1, <1>3 DEF Operated, Reply
  <2>2. r \in FlowRecords /\ r.step = "done"
    BY <1>1 DEF FlowRecords, FlowNames
  <2> HIDE DEF r
  <2>3. /\ flows' \in [Flows -> FlowRecords] /\ flows'[f].step = "done"
        /\ \A g \in Flows : g # f => flows'[g] = flows[g]
    BY <1>1, <2>1, <2>2
  <2>4. targets' \in 0 .. MaxChanges + 1 /\ version' \in 0 .. MaxChanges /\ version' \in 0 .. MaxChanges + 1
        /\ version' \in Nat /\ version' >= version
    BY <1>1, <2>1
  <2>5. shown' \in 0 .. version' /\ panel' \in BOOLEAN /\ loads' \in [Slots -> Loads']
    BY <1>2, <2>4, NewerVersion DEF PageInv
  <2>6. FlowRecords' = FlowRecords
    BY DEF FlowRecords
  <2>7. PageTypes'
    BY <1>1, <1>2, <2>3, <2>4, <2>5, <2>6 DEF PageTypes
  <2>8. ChangesLeft'
    BY <1>1, <2>4 DEF ChangesLeft
  <2>9. TicketsStandForPlans'
    BY <1>2, <2>3 DEF PageInv, TicketsStandForPlans, HasPlan
  <2>10. DeletesWhatWasConfirmed'
    BY <1>2, <1>3 DEF PageInv, DeletesWhatWasConfirmed
  <2> QED
    BY <2>7, <2>8, <2>9, <2>10 DEF PageInv
<1>4. CASE ~(done /\ targets # 0)
  <2> DEFINE r == [flows[f] EXCEPT !.step = "refused"]
  <2>1. flows' = [flows EXCEPT ![f] = r] /\ UNCHANGED <<version, targets>>
    BY <1>1, <1>4 DEF Operated, Reply
  <2>2. r \in FlowRecords /\ r.step = "refused"
    BY <1>1 DEF FlowRecords, FlowNames
  <2>3. UNCHANGED portal
    BY <1>2, <2>1 DEF portal
  <2> HIDE DEF r
  <2> QED
    BY <1>1, <1>2, <2>1, <2>2, <2>3, FlowGoesOn
<1> QED
  BY <1>3, <1>4

LEMMA DeletedStep ==
  ASSUME PageInv, NEW f \in Flows, Deleted(f)
  PROVE  PageInv'
<1>1. /\ version \in 0 .. MaxChanges + 1 /\ targets \in 0 .. MaxChanges + 1 /\ MaxChanges \in Nat
      /\ tickets \in [Flows -> 0 .. MaxChanges + 1] /\ flows \in [Flows -> FlowRecords]
      /\ loads \in [Slots -> Loads] /\ shown \in 0 .. version /\ panel \in BOOLEAN
      /\ disabled \subseteq {"operate", "delete"} /\ flows[f] \in FlowRecords
      /\ removed \subseteq Flows \X (1 .. MaxChanges + 1) \X (1 .. MaxChanges + 1)
  BY PageAssumption DEF PageInv, PageTypes
<1>2. UNCHANGED <<list, disabled>> /\ UNCHANGED <<shown, panel, loads>> /\ HasPlan(f)
  BY DEF Deleted, list, HasPlan
<1>3. tickets' \in [Flows -> 0 .. MaxChanges + 1] /\ \A g \in Flows : g # f => tickets'[g] = tickets[g]
  <2>1. tickets' = [tickets EXCEPT ![f] = 0] /\ 0 \in 0 .. MaxChanges + 1
    BY <1>1 DEF Deleted
  <2> QED
    BY <1>1, <2>1
<1>4. PICK s \in {"done", "refused"} : flows' = [flows EXCEPT ![f] = [flows[f] EXCEPT !.step = s]]
  BY <1>1 DEF Deleted, Reply
<1>5. [flows[f] EXCEPT !.step = s] \in FlowRecords /\ [flows[f] EXCEPT !.step = s].step = s
  BY <1>1 DEF FlowRecords, FlowNames
<1>6. /\ flows' \in [Flows -> FlowRecords] /\ flows'[f].step = s
      /\ \A g \in Flows : g # f => flows'[g] = flows[g]
  BY <1>1, <1>4, <1>5
<1>7. TicketsStandForPlans'
  BY <1>3, <1>6 DEF PageInv, TicketsStandForPlans, HasPlan
<1>8. FlowRecords' = FlowRecords
  BY DEF FlowRecords
<1>9. CASE tickets[f] = targets /\ targets # 0
  <2>1. /\ version' = version + 1 /\ targets' = 0
        /\ removed' = removed \cup {<<f, flows[f].seen, targets>>}
    BY <1>9 DEF Deleted
  <2>2. flows[f].seen = targets /\ targets \in 1 .. MaxChanges + 1
    BY <1>1, <1>2, <1>9 DEF PageInv, TicketsStandForPlans
  <2>3. removed = {} /\ version <= MaxChanges
    BY <1>9 DEF PageInv, DeletesWhatWasConfirmed, ChangesLeft
  <2>4. removed' = {<<f, targets, targets>>}
    BY <2>1, <2>2, <2>3
  <2>5. removed' \subseteq Flows \X (1 .. MaxChanges + 1) \X (1 .. MaxChanges + 1)
    BY <2>2, <2>4
  <2>6. DeletesWhatWasConfirmed'
    BY <2>1, <2>4 DEF DeletesWhatWasConfirmed
  <2>7. version' \in 0 .. MaxChanges + 1 /\ version' \in Nat /\ version' >= version /\ targets' \in 0 .. MaxChanges + 1
    BY <1>1, <2>1, <2>3
  <2>8. shown' \in 0 .. version' /\ panel' \in BOOLEAN /\ loads' \in [Slots -> Loads']
    BY <1>2, <2>7, NewerVersion DEF PageInv
  <2>9. PageTypes'
    BY <1>1, <1>2, <1>3, <1>6, <1>8, <2>5, <2>7, <2>8 DEF PageTypes
  <2> QED
    BY <1>7, <2>1, <2>6, <2>9 DEF PageInv, ChangesLeft
<1>10. CASE ~(tickets[f] = targets /\ targets # 0)
  <2>1. UNCHANGED <<version, targets, removed>>
    BY <1>10 DEF Deleted
  <2>2. Loads' = Loads
    BY <2>1 DEF Loads
  <2>3. PageTypes'
    BY <1>1, <1>2, <1>3, <1>6, <1>8, <2>1, <2>2 DEF PageTypes
  <2>4. ChangesLeft' /\ DeletesWhatWasConfirmed'
    BY <2>1 DEF PageInv, ChangesLeft, DeletesWhatWasConfirmed
  <2> QED
    BY <1>7, <2>3, <2>4 DEF PageInv
<1> QED
  BY <1>9, <1>10

LEMMA PageStep == PageInv /\ [PageNext]_pageVars => PageInv'
<1> SUFFICES ASSUME PageInv, [PageNext]_pageVars PROVE PageInv'
  OBVIOUS
<1>1. CASE UNCHANGED pageVars
  <2>1. UNCHANGED <<portal, shown, panel, loads, flows, disabled>>
    BY <1>1 DEF pageVars, list
  <2>2. UNCHANGED <<version, targets, tickets, removed>> /\ Loads' = Loads
    BY <2>1 DEF portal, Loads
  <2> QED
    BY <2>1, <2>2 DEF PageInv, PageTypes, ChangesLeft, TicketsStandForPlans, HasPlan, DeletesWhatWasConfirmed
<1>2. CASE TogglePanel
  <2>1. UNCHANGED <<portal, shown, loads, flows, disabled>> /\ panel' \in BOOLEAN
    BY <1>2 DEF TogglePanel
  <2>2. \A f \in Flows : HasPlan(f)' => HasPlan(f) /\ flows[f].seen = flows'[f].seen
    BY <2>1 DEF HasPlan
  <2>3. /\ shown \in 0 .. version /\ loads \in [Slots -> Loads] /\ flows \in [Flows -> FlowRecords]
        /\ disabled \subseteq {"operate", "delete"}
    BY DEF PageInv, PageTypes
  <2> QED
    BY <2>1, <2>2, <2>3, PageAlone
<1>3. ASSUME NEW l \in Slots, \/ Tick(l) \/ UserRefresh(l) \/ AnswerList(l) \/ ListArrives(l) \/ ListFails(l)
      PROVE  PageInv'
  BY <1>3, LoadSteps
<1>4. ASSUME NEW f \in Flows, NEW k \in {"operate", "delete"}, Click(f, k) PROVE PageInv'
  BY <1>4, FlowSteps
<1>5. ASSUME NEW f \in Flows, PlanArrives(f) \/ Confirm(f) \/ Refrain(f) \/ RefusedArrives(f) PROVE PageInv'
  BY <1>5, FlowSteps
<1>6. ASSUME NEW f \in Flows, NEW l \in Slots, DoneArrives(f, l) PROVE PageInv'
  BY <1>6, FlowSteps
<1> QED
  BY <1>1, <1>2, <1>3, <1>4, <1>5, <1>6, ChangeStep, PlanStep, OperatedStep, DeletedStep DEF PageNext

LEMMA PageInductive == PageSpec => []PageInv
<1> QED
  BY PageStart, PageStep, PTL DEF PageSpec

(* What the page shows, and what replies carry, are versions the portal had. *)
THEOREM PageTyped == PageSpec => []PageTypeOK
<1>1. PageInv => PageTypeOK
  BY DEF PageInv, PageTypes, PageTypeOK, Loads, FlowRecords, LoadNames, FlowNames
<1> QED
  BY <1>1, PageInductive, PTL

(* For any number of loads, clicks and changes by others: the server deletes  *)
(* what the dialog told the user who confirmed, and it deletes once.          *)
THEOREM DeletedAsConfirmed == PageSpec => []DeletesWhatWasConfirmed
<1>1. PageInv => DeletesWhatWasConfirmed
  BY DEF PageInv
<1> QED
  BY <1>1, PageInductive, PTL

-----------------------------------------------------------------------------
(* The browser: one part moves and the others keep still *)

LEMMA EachPartMovesByItself ==
  [BrowserNext]_browserVars =>
    /\ [KeyboardNext]_keyboardVars /\ [MouseNext]_mouseVars /\ [PlaybackNext]_playbackVars
    /\ [DisplayNext]_displayVars /\ [VideoNext]_videoVars
    /\ [PageNext]_pageVars /\ [ConsoleNext]_consoleVars
<1> SUFFICES ASSUME [BrowserNext]_browserVars
             PROVE  /\ [KeyboardNext]_keyboardVars /\ [MouseNext]_mouseVars /\ [PlaybackNext]_playbackVars
                    /\ [DisplayNext]_displayVars /\ [VideoNext]_videoVars
                    /\ [PageNext]_pageVars /\ [ConsoleNext]_consoleVars
  OBVIOUS
<1>1. [KeyboardNext]_keyboardVars
  <2>1. MouseMoves \/ PlaybackMoves \/ DisplayMoves \/ VideoMoves \/ PageMoves \/ ConsoleMoves
          => UNCHANGED keyboardVars
    BY DEF MouseMoves, PlaybackMoves, DisplayMoves, VideoMoves, PageMoves, ConsoleMoves
  <2>2. UNCHANGED browserVars => UNCHANGED keyboardVars
    BY DEF browserVars
  <2> QED
    BY <2>1, <2>2 DEF BrowserNext, KeyboardNext
<1>2. [MouseNext]_mouseVars
  <2>1. KeyboardMoves \/ PlaybackMoves \/ DisplayMoves \/ VideoMoves \/ PageMoves \/ ConsoleMoves
          => UNCHANGED mouseVars
    BY DEF KeyboardMoves, PlaybackMoves, DisplayMoves, VideoMoves, PageMoves, ConsoleMoves
  <2>2. UNCHANGED browserVars => UNCHANGED mouseVars
    BY DEF browserVars
  <2> QED
    BY <2>1, <2>2 DEF BrowserNext, MouseNext
<1>3. [PlaybackNext]_playbackVars
  <2>1. KeyboardMoves \/ MouseMoves \/ DisplayMoves \/ VideoMoves \/ PageMoves \/ ConsoleMoves
          => UNCHANGED playbackVars
    BY DEF KeyboardMoves, MouseMoves, DisplayMoves, VideoMoves, PageMoves, ConsoleMoves
  <2>2. UNCHANGED browserVars => UNCHANGED playbackVars
    BY DEF browserVars
  <2> QED
    BY <2>1, <2>2 DEF BrowserNext, PlaybackNext
<1>4. [DisplayNext]_displayVars
  <2>1. KeyboardMoves \/ MouseMoves \/ PlaybackMoves \/ VideoMoves \/ PageMoves \/ ConsoleMoves
          => UNCHANGED displayVars
    BY DEF KeyboardMoves, MouseMoves, PlaybackMoves, VideoMoves, PageMoves, ConsoleMoves
  <2>2. UNCHANGED browserVars => UNCHANGED displayVars
    BY DEF browserVars
  <2> QED
    BY <2>1, <2>2 DEF BrowserNext, DisplayNext
<1>5. [VideoNext]_videoVars
  <2>1. KeyboardMoves \/ MouseMoves \/ PlaybackMoves \/ DisplayMoves \/ PageMoves \/ ConsoleMoves
          => UNCHANGED videoVars
    BY DEF KeyboardMoves, MouseMoves, PlaybackMoves, DisplayMoves, PageMoves, ConsoleMoves
  <2>2. UNCHANGED browserVars => UNCHANGED videoVars
    BY DEF browserVars
  <2> QED
    BY <2>1, <2>2 DEF BrowserNext, VideoNext
<1>6. [PageNext]_pageVars
  <2>1. KeyboardMoves \/ MouseMoves \/ PlaybackMoves \/ DisplayMoves \/ VideoMoves \/ ConsoleMoves
          => UNCHANGED pageVars
    BY DEF KeyboardMoves, MouseMoves, PlaybackMoves, DisplayMoves, VideoMoves, ConsoleMoves
  <2>2. UNCHANGED browserVars => UNCHANGED pageVars
    BY DEF browserVars
  <2> QED
    BY <2>1, <2>2 DEF BrowserNext, PageNext
<1>7. [ConsoleNext]_consoleVars
  <2>1. KeyboardMoves \/ MouseMoves \/ PlaybackMoves \/ DisplayMoves \/ VideoMoves \/ PageMoves
          => UNCHANGED consoleVars
    BY DEF KeyboardMoves, MouseMoves, PlaybackMoves, DisplayMoves, VideoMoves, PageMoves
  <2>2. UNCHANGED browserVars => UNCHANGED consoleVars
    BY DEF browserVars
  <2> QED
    BY <2>1, <2>2 DEF BrowserNext, ConsoleNext
<1> QED
  BY <1>1, <1>2, <1>3, <1>4, <1>5, <1>6, <1>7

(* The parts of the page share no state: the page behaves, towards each of    *)
(* them, as that part's own specification says.                               *)
THEOREM BrowserIsItsParts ==
  BrowserSpec =>
    /\ KeyboardSpec /\ MouseSpec /\ PlaybackSpec /\ DisplaySpec /\ VideoSpec
    /\ PageSpec /\ ConsoleSpec
<1>1. BrowserInit => /\ KeyboardInit /\ MouseInit /\ PlaybackInit /\ DisplayInit /\ VideoInit
                     /\ PageInit /\ ConsoleInit
  BY DEF BrowserInit
<1> QED
  BY <1>1, EachPartMovesByItself, PTL
     DEF BrowserSpec, KeyboardSpec, MouseSpec, PlaybackSpec, DisplaySpec, VideoSpec, PageSpec,
           ConsoleSpec

(* Every part's variables keep their types in the page as a whole. *)
THEOREM BrowserTyped == BrowserSpec => []BrowserTypeOK
<1>1. BrowserSpec =>
        /\ []KeyboardTypeOK /\ []MouseTypeOK /\ []PlaybackTypeOK /\ []DisplayTypeOK /\ []VideoTypeOK
        /\ []PageTypeOK /\ []ConsoleTypeOK
  BY BrowserIsItsParts, KeyboardTyped, MouseStaysInStep, PlaybackTyped, DisplayTyped, VideoTyped,
     PageTyped, ConsoleTyped, PTL
<1>2. KeyboardTypeOK /\ MouseTypeOK /\ PlaybackTypeOK /\ DisplayTypeOK /\ VideoTypeOK /\ PageTypeOK /\ ConsoleTypeOK
        => BrowserTypeOK
  BY DEF BrowserTypeOK
<1> QED
  BY <1>1, <1>2, PTL

(* What is proved of each part alone holds of the page that contains them. *)
THEOREM BrowserKeepsItsPromises ==
  BrowserSpec =>
    [](/\ ModifiersFollow /\ TextsTyped /\ MouseInStep /\ SoundKept
       /\ PicturesInPlace /\ CacheAgrees /\ FramesAccounted /\ VideoFed
       /\ DeletesWhatWasConfirmed /\ ConsoleTitled)
<1> QED
  BY BrowserIsItsParts, ModifiersAreFollowed, TextsAreTyped, MouseStaysInStep, SoundIsKept,
     PicturesArePlaced, CacheStaysTrue, FramesAddUp, VideoIsFed, DeletedAsConfirmed,
     TitleNamesTheConsole, PTL
=============================================================================
