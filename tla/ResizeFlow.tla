------------------------------ MODULE ResizeFlow ------------------------------
(***************************************************************************)
(* Online resize of one completed VM in portal/app.py: the sizes the       *)
(* portal records, the sizes libvirt really has, the resize that waits for *)
(* approval, the failed resize that can be retried, and the snapshots that *)
(* bring both kinds of sizes back.  Every handler runs under LOCK, so each *)
(* is one step; the playbook may stop after any of its changes, and going  *)
(* back may reach libvirt without reaching the record.  Which files hold   *)
(* which data is SnapshotChain's subject.                                  *)
(***************************************************************************)
EXTENDS Naturals, FiniteSets

CONSTANTS Hard,         \* the hard limit of every size
          SelfService,  \* up to this size nobody has to approve
          MaxManual     \* available manual snapshots the portal allows

ASSUME ResizeAssumption ==
  /\ Hard \in Nat /\ Hard >= 1
  /\ SelfService \in 1 .. Hard
  /\ MaxManual \in Nat

VARIABLES
  recorded,  \* request["resources"] and the sizes in request["additional_disks"]
  actual,    \* what libvirt has: domain definition and virtual disk sizes
  pending,   \* pending_resize; the request awaits approval while there is one
  failed,    \* last_failed_resize
  active,    \* the active resize snapshot: the sizes it can bring back
  manual,    \* the available manual snapshots
  power,     \* local_qemu_domain_state
  astray     \* history: libvirt went back without the record, and has stayed there

vars == <<recorded, actual, pending, failed, active, manual, power, astray>>

(* The vCPU count stands for memory too: the playbook treats them alike.      *)
(* "disk" is the OS disk, "data" a data disk.                                 *)
Dims == {"vcpu", "disk", "data"}
Sizes == [Dims -> 1 .. Hard]
(* A snapshot saves the sizes, and astray as it was then. *)
Saved == [recorded: Sizes, actual: Sizes, astray: BOOLEAN]
Now == [recorded |-> recorded, actual |-> actual, astray |-> astray]
AtMostOne(S) == {{}} \cup {{x} : x \in S}

AtLeast(big, small) == \A d \in Dims : big[d] >= small[d]

(* Sizes stay within the hard limits; at most one plan waits and one has failed. *)
TypeOK ==
  /\ recorded \in Sizes
  /\ actual \in Sizes
  /\ pending \in AtMostOne(Sizes)
  /\ failed \in AtMostOne(Sizes)
  /\ active \in AtMostOne(Saved)
  /\ manual \subseteq Saved
  /\ power \in {"running", "shut off"}
  /\ astray \in BOOLEAN

(* A VM as a clean provisioning leaves it. *)
Init ==
  /\ recorded \in Sizes
  /\ actual = recorded
  /\ pending = {} /\ failed = {} /\ active = {} /\ manual = {}
  /\ power = "running"
  /\ astray = FALSE

Completed == pending = {}

-----------------------------------------------------------------------------
(* The resize playbook *)

(* It insists on a running VM, and on not going below what libvirt has, but   *)
(* for data disks it asks nothing.                                            *)
PlaybookAccepts(target) ==
  /\ power = "running"
  /\ target["vcpu"] >= actual["vcpu"]
  /\ target["disk"] >= actual["disk"]

(* Disks are resized when the request is above the record, CPUs when it is    *)
(* above what libvirt has.                                                    *)
Touches(target, d) == IF d = "vcpu" THEN target[d] > actual[d] ELSE target[d] > recorded[d]

Applied(target, done) ==
  [d \in Dims |-> IF d \in done /\ Touches(target, d) THEN target[d] ELSE actual[d]]

(* The order of the playbook's changes *)
Progress == {{}, {"vcpu"}, {"vcpu", "disk"}, Dims}

-----------------------------------------------------------------------------
(* A VM that is astray may run on the very disks a snapshot froze: a resize    *)
(* without a new snapshot changes them, and what they bring back is unknown.   *)
Doubted(saved) == IF astray THEN {[s EXCEPT !.astray = TRUE] : s \in saved} ELSE saved

(* create_resize_snapshot replaces the active snapshot by a new one. *)
(* Mutant: the earlier snapshot is not superseded. *)
StillActive(withSnapshot) == IF withSnapshot THEN active \cup {Now} ELSE Doubted(active)

Snapshotted(withSnapshot) == IF withSnapshot THEN {Now} ELSE Doubted(active)

(* resize_local_qemu *)
SnapshotFails(target) ==
  /\ failed' = {target}
  /\ UNCHANGED <<recorded, actual, active>>

(* A task fails, or the 180 s run out, after the changes in done. *)
PlaybookFails(target, done, withSnapshot) ==
  /\ done # {} => PlaybookAccepts(target)
  /\ actual' = Applied(target, done)
  /\ active' = Snapshotted(withSnapshot)
  /\ failed' = {target}
  /\ UNCHANGED recorded

Succeeds(target, withSnapshot) ==
  /\ PlaybookAccepts(target)
  /\ actual' = Applied(target, Dims)
  /\ active' = Snapshotted(withSnapshot)
  /\ recorded' = target
  /\ failed' = {}

ResizeVM(target, withSnapshot) ==
  \/ withSnapshot /\ SnapshotFails(target)
  \/ \E done \in Progress : PlaybookFails(target, done, withSnapshot)
  \/ Succeeds(target, withSnapshot)

-----------------------------------------------------------------------------
(* Handlers *)

(* validate_resize *)
Valid(target) == AtLeast(target, recorded)
NeedsApproval(target) ==
  \E d \in Dims : target[d] > recorded[d] /\ target[d] > SelfService

(* POST .../resize by a user whose request needs approval *)
RequestResize(target) ==
  /\ Completed /\ Valid(target) /\ NeedsApproval(target)
  /\ pending' = {target}
  /\ UNCHANGED <<recorded, actual, failed, active, manual, power, astray>>

(* POST .../resize by an administrator, or within the self-service limit *)
Resize(target) ==
  /\ Completed /\ Valid(target)
  /\ ResizeVM(target, TRUE)
  /\ UNCHANGED <<pending, manual, power, astray>>

ApproveResize ==
  /\ \E target \in pending : ResizeVM(target, TRUE)
  /\ pending' = {}
  /\ UNCHANGED <<manual, power, astray>>

RejectResize ==
  /\ pending # {}
  /\ pending' = {}
  /\ UNCHANGED <<recorded, actual, failed, active, manual, power, astray>>

(* The failed sizes are used as they were stored, without a new snapshot. *)
RetryResize ==
  /\ Completed
  /\ \E target \in failed : ResizeVM(target, FALSE)
  /\ manual' = Doubted(manual)
  /\ UNCHANGED <<pending, power, astray>>

(* Mutant: rollback does not put the recorded sizes back. *)
RollbackKeepingRecord(s) ==
  /\ Completed /\ power = "shut off"
  /\ s \in active
  /\ actual' = s.actual /\ astray' = s.astray
  /\ active' = {} /\ failed' = {}
  /\ UNCHANGED <<recorded, pending, manual, power>>

(* rollback_resize_snapshot *)
Rollback(s) ==
  /\ Completed /\ power = "shut off"
  /\ s \in active
  /\ recorded' = s.recorded /\ actual' = s.actual /\ astray' = s.astray
  /\ active' = {} /\ failed' = {}
  /\ UNCHANGED <<pending, manual, power>>

(* The define of the old definition took effect, but it timed out or the       *)
(* portal died before the save: the snapshot stays active.                     *)
RollbackUnrecorded(s) ==
  /\ Completed /\ power = "shut off"
  /\ s \in active
  /\ actual' = s.actual /\ astray' = TRUE
  /\ UNCHANGED <<recorded, pending, failed, active, manual, power>>

(* The twelve hours are over; superseded, expired and cleaned snapshots bring *)
(* no size back.                                                              *)
Expire ==
  /\ active # {}
  /\ active' = {}
  /\ UNCHANGED <<recorded, actual, pending, failed, manual, power, astray>>

CreateManual ==
  /\ Completed
  /\ Cardinality(manual) < MaxManual
  /\ manual' = manual \cup {Now}
  /\ UNCHANGED <<recorded, actual, pending, failed, active, power, astray>>

DeleteManual(m) ==
  /\ Completed
  /\ m \in manual
  /\ manual' = manual \ {m}
  /\ UNCHANGED <<recorded, actual, pending, failed, active, power, astray>>

(* Mutant: a restore leaves the failed resize behind. *)
RestoreKeepingFailed(m) ==
  /\ Completed /\ power = "shut off"
  /\ m \in manual
  /\ recorded' = m.recorded /\ actual' = m.actual /\ astray' = m.astray
  /\ UNCHANGED <<pending, failed, active, manual, power>>

(* restore_manual_snapshot *)
Restore(m) ==
  /\ Completed /\ power = "shut off"
  /\ m \in manual
  /\ recorded' = m.recorded /\ actual' = m.actual /\ astray' = m.astray
  /\ failed' = {}
  /\ UNCHANGED <<pending, active, manual, power>>

(* The define took effect, and was not undone: it timed out, undoing it failed *)
(* after a later step had failed, or the portal died before the save.          *)
RestoreUnrecorded(m) ==
  /\ Completed /\ power = "shut off"
  /\ m \in manual
  /\ actual' = m.actual /\ astray' = TRUE
  /\ UNCHANGED <<recorded, pending, failed, active, manual, power>>

StartVM ==
  /\ Completed /\ power = "shut off"
  /\ power' = "running"
  /\ UNCHANGED <<recorded, actual, pending, failed, active, manual, astray>>

(* By lifecycle_action or by the guest itself *)
StopVM ==
  /\ power = "running"
  /\ power' = "shut off"
  /\ UNCHANGED <<recorded, actual, pending, failed, active, manual, astray>>

Next ==
  \/ \E target \in Sizes : RequestResize(target) \/ Resize(target)
  \/ ApproveResize \/ RejectResize \/ RetryResize
  \/ \E s \in active : Rollback(s) \/ RollbackUnrecorded(s)
  \/ Expire
  \/ CreateManual
  \/ \E m \in manual : DeleteManual(m) \/ Restore(m) \/ RestoreUnrecorded(m)
  \/ StartVM \/ StopVM

Spec == Init /\ [][Next]_vars

-----------------------------------------------------------------------------
(* Properties *)

(* The portal never shows more than the VM has, wherever a resize stopped    *)
(* and whichever snapshot was gone back to. The exception is a rollback or   *)
(* restore that reached libvirt and not the record, until a snapshot taken   *)
(* before it is gone back to with success.                                   *)
RecordNotAhead == ~ astray => AtLeast(actual, recorded)

(* While the VM runs, its record only grows: an approval or a retry of an    *)
(* older plan never undoes a resize made since.                              *)
RecordGrowsOnline == [][power = "running" => AtLeast(recorded', recorded)]_vars

(* The inductive invariant: what a snapshot brings back is consistent, and   *)
(* a stored plan is not below the record.                                    *)
SavedNotAhead == \A s \in active \cup manual : ~ s.astray => AtLeast(s.actual, s.recorded)
PlansNotBehind == \A target \in pending \cup failed : AtLeast(target, recorded)
IInv == TypeOK /\ RecordNotAhead /\ SavedNotAhead /\ PlansNotBehind

(* Claims of the documentation *)

(* The resize action "rejects decreases": a running VM is never made smaller. *)
NeverShrinks == [][power = "running" => AtLeast(actual', actual)]_vars

(* "Before each online resize, the portal creates an atomic external qcow2   *)
(* disk snapshot", which can be rolled back to.                              *)
ResizesUnderSnapshot == [][power = "running" /\ actual' # actual => active' # {}]_vars
=============================================================================
