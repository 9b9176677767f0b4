---------------------------- MODULE PortalConsole ----------------------------
(***************************************************************************)
(* The console window of the portal's page (app.js): each opening asks the *)
(* portal for a ticket and shows the console in the window's frame when it *)
(* comes.  Openings are not tied to their tickets, nor closing to either.  *)
(***************************************************************************)
EXTENDS Naturals, Sequences

CONSTANTS VMs,      \* virtual machines
          MaxOpens  \* bound: openings

ASSUME ConsoleAssumption == "none" \notin VMs /\ MaxOpens \in Nat

VARIABLES
  up,       \* VMs that are running
  opens,    \* openConsole() calls: [vm, step]
  title,    \* the VM the window's title names
  visible,  \* the window is not hidden
  frame,    \* the VM whose console the frame shows, or "none"
  crossed   \* a ticket was still to come when the window was closed or opened anew

window == <<title, visible, frame>>
consoleVars == <<up, opens, window, crossed>>

Calls == DOMAIN opens
Waiting == {o \in Calls : opens[o].step # "over"}

(* Title and frame name virtual machines, calls are in one of four steps.    *)
ConsoleTypeOK ==
  /\ up \subseteq VMs /\ visible \in BOOLEAN /\ crossed \in BOOLEAN
  /\ title \in VMs \cup {"none"} /\ frame \in VMs \cup {"none"}
  /\ opens \in Seq([vm : VMs, step : {"asked", "ticket", "error", "over"}]) /\ Len(opens) <= MaxOpens

ConsoleInit ==
  /\ up = VMs /\ opens = <<>>
  /\ title = "none" /\ visible = FALSE /\ frame = "none" /\ crossed = FALSE

PowerChanges(vm) ==
  /\ up' = IF vm \in up THEN up \ {vm} ELSE up \cup {vm}
  /\ UNCHANGED <<opens, window, crossed>>

(* Mutant: the frame keeps what it showed. *)
OpenConsoleOver(vm) ==
  /\ Len(opens) < MaxOpens /\ opens' = Append(opens, [vm |-> vm, step |-> "asked"])
  /\ title' = vm /\ visible' = TRUE
  /\ crossed' = (Waiting # {})
  /\ UNCHANGED <<up, frame>>

(* openConsole() begins by closing the window. *)
OpenConsole(vm) ==
  /\ Len(opens) < MaxOpens /\ opens' = Append(opens, [vm |-> vm, step |-> "asked"])
  /\ frame' = "none" /\ title' = vm /\ visible' = TRUE
  /\ crossed' = (Waiting # {})
  /\ UNCHANGED up

(* closeConsole(), by the user *)
CloseConsole ==
  /\ visible /\ visible' = FALSE /\ frame' = "none"
  /\ crossed' = (Waiting # {})
  /\ UNCHANGED <<up, opens, title>>

(* GET console-ticket: a VM that does not run has none. *)
AnswerTicket(o) ==
  /\ opens[o].step = "asked"
  /\ opens' = [opens EXCEPT ![o].step = IF opens[o].vm \in up THEN "ticket" ELSE "error"]
  /\ UNCHANGED <<up, window, crossed>>

TicketArrives(o) ==
  /\ opens[o].step = "ticket"
  /\ opens' = [opens EXCEPT ![o].step = "over"]
  /\ frame' = opens[o].vm
  /\ UNCHANGED <<up, title, visible, crossed>>

ErrorArrives(o) ==
  /\ opens[o].step = "error"
  /\ opens' = [opens EXCEPT ![o].step = "over"]
  /\ visible' = FALSE /\ frame' = "none"
  /\ UNCHANGED <<up, title, crossed>>

ConsoleNext ==
  \/ CloseConsole
  \/ \E vm \in VMs : PowerChanges(vm)
  \/ \E vm \in VMs : OpenConsole(vm)
  \/ \E o \in Calls : AnswerTicket(o)
  \/ \E o \in Calls : TicketArrives(o)
  \/ \E o \in Calls : ErrorArrives(o)
ConsoleSpec == ConsoleInit /\ [][ConsoleNext]_consoleVars

-----------------------------------------------------------------------------
(* The frame shows the console of the VM in the title, or nothing while its  *)
(* ticket is to come, and nothing when the window is closed -- unless the    *)
(* window was closed or opened for another VM before a ticket came: that     *)
(* ticket puts its VM into the frame, under whatever title, or into the      *)
(* closed window, and its refusal closes the window of the other VM.         *)
ConsoleTitled ==
  ~crossed =>
    /\ frame \in {"none", title}
    /\ visible => frame = title \/ Waiting # {}
    /\ ~visible => frame = "none"
=============================================================================
