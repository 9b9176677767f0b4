------------------------------ MODULE PortalPage ------------------------------
(***************************************************************************)
(* The list of requests in the portal's page (app.js): loads of the list,  *)
(* whose replies may come in any order, each of which builds all buttons   *)
(* and panels anew; operations on a VM and its deletion, which go on while *)
(* others change the VM; and the refresh every ten seconds.  One VM, while *)
(* the list is in view.                                                    *)
(***************************************************************************)
EXTENDS Naturals, FiniteSets

CONSTANTS MaxLoads,   \* bound: loads of the list at a time
          MaxFlows,   \* bound: operations of this page at a time
          MaxBusy,    \* bound: both together, when the user begins one more
          MaxChanges  \* bound: changes of the portal's state but the deletion

ASSUME PageAssumption ==
  MaxLoads \in Nat /\ MaxFlows \in Nat /\ MaxBusy \in Nat /\ MaxChanges \in Nat

Slots == 1 .. MaxLoads
Flows == 1 .. MaxFlows

VARIABLES
  version,    \* of the portal's requests
  targets,    \* what a deletion of the VM would remove, 0 once it is deleted
  tickets,    \* VM_DELETE_TICKETS: the targets each flow's token stands for, 0 when spent
  shown,      \* the version the page shows
  panel,      \* the resize panel is open
  loads,      \* loadRequests() calls: [step, version, open, flow]
  flows,      \* handlers of clicks: [step, kind, seen, fresh: is its button still on the page?]
  disabled,   \* kinds of buttons that are disabled
  removed     \* deletions the server has done: <<flow, what the user saw, what went>>

list == <<shown, panel, loads>>
portal == <<version, targets, tickets, removed>>
pageVars == <<portal, list, flows, disabled>>

NoLoad == [step |-> "none", version |-> 0, open |-> FALSE, flow |-> 0]
NoFlow == [step |-> "none", kind |-> "operate", seen |-> 0, fresh |-> FALSE]

(* What the page shows, and what replies carry, are versions the portal had. *)
PageTypeOK ==
  /\ version \in 0 .. MaxChanges + 1 /\ shown \in 0 .. version
  /\ targets \in 0 .. MaxChanges + 1
  /\ tickets \in [Flows -> 0 .. MaxChanges + 1]
  /\ panel \in BOOLEAN
  /\ loads \in [Slots -> [step : {"none", "asked", "answered"}, version : 0 .. version,
                          open : BOOLEAN, flow : Flows \cup {0}]]
  /\ flows \in [Flows -> [step : {"none", "plan", "planned", "asked", "sent", "done", "refused", "reload"},
                          kind : {"operate", "delete"}, seen : 0 .. MaxChanges + 1, fresh : BOOLEAN]]
  /\ disabled \subseteq {"operate", "delete"}
  /\ removed \subseteq Flows \X (1 .. MaxChanges + 1) \X (1 .. MaxChanges + 1)

PageInit ==
  /\ version = 0 /\ targets = 1 /\ tickets = [f \in Flows |-> 0] /\ removed = {}
  /\ shown = 0 /\ panel = FALSE
  /\ loads = [l \in Slots |-> NoLoad] /\ flows = [f \in Flows |-> NoFlow]
  /\ disabled = {}

Room == Cardinality({l \in Slots : loads[l].step # "none"})
        + Cardinality({f \in Flows : flows[f].step # "none"}) < MaxBusy
Timely == Room \/ \A l \in Slots : loads[l].step = "none"

(* A confirm() or prompt() is open: the page handles nothing else. *)
Dialog == \E f \in Flows : flows[f].step = "asked"

-----------------------------------------------------------------------------
(* Others change the VM, and perhaps what a deletion would remove. *)
OthersChange(alsoTargets) ==
  /\ version < MaxChanges /\ version' = version + 1
  /\ targets' = IF alsoTargets /\ targets # 0 THEN version' + 1 ELSE targets
  /\ UNCHANGED <<tickets, removed, list, flows, disabled>>

(* loadRequests(): which panels are open is noted before the list is asked   *)
(* for.                                                                      *)
BeginLoad(l, f) ==
  /\ loads[l].step = "none" /\ \A k \in 1 .. l - 1 : loads[k].step # "none"
  /\ loads' = [loads EXCEPT ![l] = [step |-> "asked", version |-> 0, open |-> panel, flow |-> f]]

(* Mutant: the refresh waits for an open panel. *)
TickEditing(l) ==
  /\ ~Dialog /\ Timely /\ panel /\ BeginLoad(l, 0)
  /\ UNCHANGED <<portal, shown, panel, flows, disabled>>

(* Every ten seconds, unless a resize panel is open. *)
Tick(l) ==
  /\ ~Dialog /\ Timely /\ ~panel /\ BeginLoad(l, 0)
  /\ UNCHANGED <<portal, shown, panel, flows, disabled>>

(* The refresh button and the navigation. *)
UserRefresh(l) ==
  /\ ~Dialog /\ Room /\ BeginLoad(l, 0)
  /\ UNCHANGED <<portal, shown, panel, flows, disabled>>
TogglePanel ==
  /\ ~Dialog /\ panel' = ~panel
  /\ UNCHANGED <<portal, shown, loads, flows, disabled>>

AnswerList(l) ==
  /\ loads[l].step = "asked"
  /\ loads' = [loads EXCEPT ![l].step = "answered", ![l].version = version]
  /\ UNCHANGED <<portal, shown, panel, flows, disabled>>

(* The list is built anew from the reply, however old that is; the buttons   *)
(* are new and enabled, and panels are as they were when it was asked for.   *)
ListArrives(l) ==
  /\ ~Dialog /\ loads[l].step = "answered"
  /\ shown' = loads[l].version /\ panel' = loads[l].open
  /\ disabled' = {}
  /\ flows' = [f \in Flows |-> IF f = loads[l].flow \/ flows[f].step = "none" THEN NoFlow
                              ELSE [flows[f] EXCEPT !.fresh = FALSE]]
  /\ loads' = [loads EXCEPT ![l] = NoLoad]
  /\ UNCHANGED portal

(* The button of the flow can be clicked again, if it is still on the page. *)
EnableAgain(f) == disabled' = IF flows[f].fresh THEN disabled \ {flows[f].kind} ELSE disabled

(* A load fails: a refresh is given up silently, an operation is said to     *)
(* have failed although it was done.                                         *)
ListFails(l) ==
  /\ ~Dialog /\ loads[l].step = "answered"
  /\ loads' = [loads EXCEPT ![l] = NoLoad]
  /\ LET f == loads[l].flow
     IN  IF f = 0 THEN UNCHANGED <<flows, disabled>>
         ELSE flows' = [flows EXCEPT ![f] = NoFlow] /\ EnableAgain(f)
  /\ UNCHANGED <<portal, shown, panel>>

-----------------------------------------------------------------------------
(* The click of an operation's button disables it; that of a deletion's asks *)
(* for a plan first and leaves it enabled.                                   *)
Click(f, kind) ==
  /\ ~Dialog /\ Room /\ kind \notin disabled
  /\ flows[f].step = "none" /\ \A g \in 1 .. f - 1 : flows[g].step # "none"
  /\ flows' = [flows EXCEPT ![f] = [NoFlow EXCEPT !.kind = kind, !.fresh = TRUE,
                                    !.step = IF kind = "delete" THEN "plan" ELSE "sent"]]
  /\ disabled' = IF kind = "delete" THEN disabled ELSE disabled \cup {kind}
  /\ UNCHANGED <<portal, list>>

(* GET delete-plan: a token for the targets of this moment *)
AnswerPlan(f) ==
  /\ flows[f].step = "plan"
  /\ IF targets = 0
     THEN flows' = [flows EXCEPT ![f] = NoFlow] /\ UNCHANGED tickets
     ELSE /\ flows' = [flows EXCEPT ![f].step = "planned", ![f].seen = targets]
          /\ tickets' = [tickets EXCEPT ![f] = targets]
  /\ UNCHANGED <<version, targets, removed, list, disabled>>

PlanArrives(f) ==
  /\ ~Dialog /\ flows[f].step = "planned"
  /\ flows' = [flows EXCEPT ![f].step = "asked"]
  /\ UNCHANGED <<portal, list, disabled>>

(* The user confirms what the plan says, and types the name, or does not. *)
Confirm(f) ==
  /\ flows[f].step = "asked"
  /\ flows' = [flows EXCEPT ![f].step = "sent"]
  /\ disabled' = IF flows[f].fresh THEN disabled \cup {"delete"} ELSE disabled
  /\ UNCHANGED <<portal, list>>
Refrain(f) ==
  /\ flows[f].step = "asked"
  /\ flows' = [flows EXCEPT ![f] = NoFlow]
  /\ UNCHANGED <<portal, list, disabled>>

Reply(f, step) == flows' = [flows EXCEPT ![f].step = step]

(* POST of an operation, which the server does or refuses *)
Operated(f, done, alsoTargets) ==
  /\ flows[f].step = "sent" /\ flows[f].kind = "operate"
  /\ IF done /\ targets # 0
     THEN /\ version < MaxChanges /\ version' = version + 1
          /\ targets' = IF alsoTargets THEN version' + 1 ELSE targets
          /\ Reply(f, "done")
     ELSE Reply(f, "refused") /\ UNCHANGED <<version, targets>>
  /\ UNCHANGED <<tickets, removed, list, disabled>>

(* Mutant: what is to be removed is not looked at again. *)
DeletedAsPlanned(f) ==
  /\ flows[f].step = "sent" /\ flows[f].kind = "delete"
  /\ tickets' = [tickets EXCEPT ![f] = 0]
  /\ IF tickets[f] # 0 /\ targets # 0
     THEN /\ version' = version + 1
          /\ targets' = 0 /\ removed' = removed \cup {<<f, flows[f].seen, targets>>}
          /\ Reply(f, "done")
     ELSE Reply(f, "refused") /\ UNCHANGED <<version, targets, removed>>
  /\ UNCHANGED <<list, disabled>>

(* DELETE: the token is spent, and the VM goes if a deletion would still     *)
(* remove what the token stands for.                                         *)
Deleted(f) ==
  /\ flows[f].step = "sent" /\ flows[f].kind = "delete"
  /\ tickets' = [tickets EXCEPT ![f] = 0]
  /\ IF tickets[f] = targets /\ targets # 0
     THEN /\ version' = version + 1
          /\ targets' = 0 /\ removed' = removed \cup {<<f, flows[f].seen, targets>>}
          /\ Reply(f, "done")
     ELSE Reply(f, "refused") /\ UNCHANGED <<version, targets, removed>>
  /\ UNCHANGED <<list, disabled>>

(* Done: the list is loaded; refused: the button is enabled again. *)
DoneArrives(f, l) ==
  /\ ~Dialog /\ flows[f].step = "done"
  /\ Reply(f, "reload") /\ BeginLoad(l, f)
  /\ UNCHANGED <<portal, shown, panel, disabled>>
RefusedArrives(f) ==
  /\ ~Dialog /\ flows[f].step = "refused"
  /\ flows' = [flows EXCEPT ![f] = NoFlow] /\ EnableAgain(f)
  /\ UNCHANGED <<portal, list>>

PageNext ==
  \/ \E also \in BOOLEAN : OthersChange(also)
  \/ TogglePanel
  \/ \E l \in Slots : Tick(l)
  \/ \E l \in Slots : UserRefresh(l)
  \/ \E l \in Slots : AnswerList(l)
  \/ \E l \in Slots : ListArrives(l)
  \/ \E l \in Slots : ListFails(l)
  \/ \E f \in Flows, k \in {"operate", "delete"} : Click(f, k)
  \/ \E f \in Flows : AnswerPlan(f)
  \/ \E f \in Flows : PlanArrives(f)
  \/ \E f \in Flows : Confirm(f)
  \/ \E f \in Flows : Refrain(f)
  \/ \E f \in Flows, done, also \in BOOLEAN : Operated(f, done, also)
  \/ \E f \in Flows : Deleted(f)
  \/ \E f \in Flows, l \in Slots : DoneArrives(f, l)
  \/ \E f \in Flows : RefusedArrives(f)
PageSpec == PageInit /\ [][PageNext]_pageVars

-----------------------------------------------------------------------------
(* Properties *)

(* What the server deletes is what the dialog told the user who confirmed    *)
(* it, whatever others did to the VM and however often the list was built    *)
(* anew since; and it goes once, also when two clicks asked for two plans.   *)
DeletesWhatWasConfirmed ==
  /\ \A r \in removed : r[2] = r[3]
  /\ \A r, q \in removed : r = q
  /\ removed # {} => targets = 0

(* Whatever loads overtake each other or fail, the page ends up showing the  *)
(* portal's state, unless the user leaves a panel open or keeps opening it.    *)
ListCatchesUp == <>[](shown = version) \/ []<>panel
=============================================================================
