---------------------------- MODULE SnapshotChain ----------------------------
(***************************************************************************)
(* The qcow2 chains of one completed local_qemu VM and the snapshots       *)
(* portal/app.py keeps about them: automatic snapshots before a resize     *)
(* (rollback, expiry, commit & cleanup) and manual snapshots (restore,     *)
(* metadata deletion).                                                     *)
(*                                                                         *)
(* All handlers run under LOCK, so the only other actor is the guest; a    *)
(* handler is one step, and the points where a command of it can fail,     *)
(* time out after taking effect, or the portal can die, are outcomes of    *)
(* their own, switched on by faults.                                       *)
(***************************************************************************)
EXTENDS Naturals, FiniteSets

CONSTANTS Disks,          \* virtual disks of the VM, e.g. vda and vdb
          MaxSerial,      \* bound: images ever created per disk, beyond the first two
          MaxManual,      \* available manual snapshots the portal allows
          FaultSets       \* the combinations of failures considered

FaultKinds == {"fail",    \* a command reports an error and had no effect
               "late",    \* a command times out after it took effect
               "double",  \* undoing a failed operation fails as well
               "crash",   \* the portal dies between two commands
               "bottom"}  \* "virsh blockcommit" may flatten the whole chain

ASSUME SnapshotAssumption ==
  /\ MaxSerial \in Nat /\ MaxSerial >= 1
  /\ MaxManual \in Nat
  /\ FaultSets \subseteq SUBSET FaultKinds

VARIABLES
  image,    \* the files: [Disks -> [Serial -> [where, under]]]
  current,  \* the source file of each disk in the domain definition
  snaps,    \* resize_snapshots, manual_snapshots, restores, snapshot_recovery_files
  next,     \* next serial; ids carry a timestamp and a uuid, so none is reused
  xmls,     \* serials whose saved domain XML exists
  aged,     \* resize snapshots older than RESIZE_SNAPSHOT_TTL
  power,    \* local_qemu_domain_state
  record,   \* is the request still in the table?
  spoiled,  \* snapshots whose frozen data was written to (history variable)
  astray,   \* did a define leave the domain on a snapshot's bases? (history variable)
  faults    \* the failures that can occur in this behaviour; never changes

vars == <<image, current, snaps, next, xmls, aged, power, record, spoiled, astray, faults>>

-----------------------------------------------------------------------------
(* Image 0 is the shared cloud image, image 1 the VM's own <hostname>.qcow2,  *)
(* an overlay of it; later serials are overlays made by snapshots.            *)
Serial == 0 .. MaxSerial
Template == 0
Own == 1

(* where: at its path, renamed to *.rolled-back-*, or not existing.           *)
(* under: every file its content depends on.                                  *)
Image == [where: {"live", "aside", "absent"}, under: SUBSET Serial]
NoImage == [where |-> "absent", under |-> {}]

Kinds == {"none", "resize", "manual", "restore", "recovery"}
SnapStatus == {"none", "active", "superseded", "expired", "cleaned", "rolled_back",
               "available", "deleted"}
Snap == [kind: Kinds, status: SnapStatus, base: [Disks -> Serial]]
NoSnap == [kind |-> "none", status |-> "none", base |-> [d \in Disks |-> Template]]

With(status) == {n \in Serial : snaps[n].status = status}

(* The files a disk reads when its source is f. *)
ChainOf(d, f) == {f} \cup image[d][f].under
Complete(d, f) == \A g \in ChainOf(d, f) : image[d][g].where = "live"

(* The frozen data of a snapshot: its base and everything below it. *)
ViewOf(n, d) == ChainOf(d, snaps[n].base[d])

(* Sources, bases and snapshots stay in range and have statuses the code knows. *)
TypeOK ==
  /\ image \in [Disks -> [Serial -> Image]]
  /\ current \in [Disks -> Serial]
  /\ snaps \in [Serial -> Snap]
  /\ next \in 2 .. MaxSerial + 1
  /\ xmls \subseteq Serial
  /\ aged \subseteq Serial
  /\ power \in {"running", "shut off"}
  /\ record \in {"completed", "deleted"}
  /\ spoiled \subseteq Serial
  /\ astray \in {"no", "bases", "used"}
  /\ faults \in FaultSets

Init ==
  /\ image = [d \in Disks |-> [n \in Serial |->
       CASE n = Template -> [where |-> "live", under |-> {}]
         [] n = Own -> [where |-> "live", under |-> {Template}]
         [] OTHER -> NoImage]]
  /\ current = [d \in Disks |-> Own]
  /\ snaps = [n \in Serial |-> NoSnap]
  /\ next = 2
  /\ xmls = {}
  /\ aged = {}
  /\ power = "running"
  /\ record = "completed"
  /\ spoiled = {}
  /\ astray = "no"
  /\ faults \in FaultSets

-----------------------------------------------------------------------------
(* External: what virsh does to the files *)

(* snapshot-create-as --disk-only --atomic: a new overlay on each disk. *)
PushOverlays(base) ==
  image' = [d \in Disks |-> [image[d] EXCEPT ![next] =
              [where |-> "live", under |-> ChainOf(d, base[d])]]]

SwitchTo(sources) == current' = sources
Overlays(n) == [d \in Disks |-> n]

(* How a define that left the domain on the bases of a snapshot is remembered: *)
(* it happened, a later define put the domain right, the domain was used.      *)
Strays == astray' = IF astray = "used" THEN "used" ELSE "bases"
Returns == astray' = IF astray = "used" THEN "used" ELSE "no"
UsesSources == astray' = IF astray = "bases" THEN "used" ELSE astray

(* A write to file f of disk d changes what every snapshot above it froze. *)
Spoils(d, f) == {n \in Serial : snaps[n].kind \in {"resize", "manual"} /\ f \in ViewOf(n, d)}

(* Where blockcommit may stop. *)
CommitTargets == {"base"} \cup (faults \cap {"bottom"})

(* blockcommit --active --pivot with neither --base nor --shallow: the code   *)
(* expects the immediate base; virsh's default is the bottom of the chain.    *)
CommittedInto(s, d, target) == IF target = "base" THEN snaps[s].base[d] ELSE Template

-----------------------------------------------------------------------------
(* create_resize_snapshot and create_manual_snapshot *)

MayCreate(kind) ==
  /\ record = "completed"
  /\ next \in Serial
  /\ kind = "manual" => Cardinality(With("available")) < MaxManual

(* Mutant: earlier snapshots stay active. *)
SupersedingNone(kind) == snaps

(* Mutant: a status that expiry, rollback and deletion do not know. *)
SupersedingUnknown(kind) ==
  [n \in Serial |-> IF kind = "resize" /\ snaps[n].status = "active"
                    THEN [snaps[n] EXCEPT !.status = "replaced"] ELSE snaps[n]]

(* A new resize snapshot supersedes the active one. *)
Superseding(kind) ==
  [n \in Serial |-> IF kind = "resize" /\ snaps[n].status = "active"
                    THEN [snaps[n] EXCEPT !.status = "superseded"] ELSE snaps[n]]

CreateSnapshot(kind) ==
  /\ MayCreate(kind)
  /\ \A d \in Disks : Complete(d, current[d])
  /\ PushOverlays(current)
  /\ SwitchTo(Overlays(next))
  /\ snaps' = [Superseding(kind) EXCEPT ![next] =
       [kind |-> kind, base |-> current,
        status |-> IF kind = "resize" THEN "active" ELSE "available"]]
  /\ xmls' = xmls \cup {next}
  /\ next' = next + 1
  /\ UsesSources
  /\ UNCHANGED <<aged, power, record, spoiled, faults>>

(* The XML was saved before virsh refused; nothing remembers the file. *)
CreateFails(kind) ==
  /\ "fail" \in faults
  /\ MayCreate(kind)
  /\ xmls' = xmls \cup {next}
  /\ next' = next + 1
  /\ UNCHANGED <<image, current, snaps, aged, power, record, spoiled, astray, faults>>

(* The 90 s timeout, or the portal's death, after virsh made the overlays. *)
CreateUnrecorded(kind) ==
  /\ faults \cap {"late", "crash"} # {}
  /\ MayCreate(kind)
  /\ \A d \in Disks : Complete(d, current[d])
  /\ PushOverlays(current)
  /\ SwitchTo(Overlays(next))
  /\ xmls' = xmls \cup {next}
  /\ next' = next + 1
  /\ UsesSources
  /\ UNCHANGED <<snaps, aged, power, record, spoiled, faults>>

-----------------------------------------------------------------------------
(* restore_manual_snapshot: define the saved XML over the base files, then let *)
(* virsh put new overlays on them. After an exception the previous definition  *)
(* is put back, but only if the first define reported success.                 *)

MayRestore(m) ==
  /\ record = "completed" /\ power = "shut off"
  /\ next \in Serial
  /\ snaps[m].status = "available" /\ m \in xmls
  /\ \A d \in Disks : image[d][snaps[m].base[d]].where = "live"

BasesComplete(m) == \A d \in Disks : Complete(d, snaps[m].base[d])

(* What the record keeps of the overlays: a branch, files for recovery, nothing. *)
Branch(m, kind) ==
  snaps' = IF kind = "none" THEN snaps
           ELSE [snaps EXCEPT ![next] = [kind |-> kind, status |-> "none", base |-> snaps[m].base]]

(* Mutant: the bases are defined as the disks and no overlay is put on them. *)
RestoreInPlace(m) ==
  /\ MayRestore(m) /\ BasesComplete(m)
  /\ SwitchTo(snaps[m].base)
  /\ Branch(m, "restore")
  /\ xmls' = xmls \cup {next}
  /\ next' = next + 1
  /\ Returns
  /\ UNCHANGED <<image, aged, power, record, spoiled, faults>>

Restore(m) ==
  /\ MayRestore(m) /\ BasesComplete(m)
  /\ PushOverlays(snaps[m].base)
  /\ SwitchTo(Overlays(next))
  /\ Branch(m, "restore")
  /\ xmls' = xmls \cup {next}
  /\ next' = next + 1
  /\ Returns
  /\ UNCHANGED <<aged, power, record, spoiled, faults>>

(* The overlays exist but the command timed out or the verification failed,    *)
(* and the previous definition was put back. The overlays are kept and listed, *)
(* unless that define timed out in its turn, which leaves the handler by an    *)
(* exception, or the portal dies before it saves.                              *)
RestoreUndone(m, kind) ==
  /\ \/ kind = "recovery" /\ faults \cap {"fail", "late"} # {}
     \/ kind = "none" /\ ("late" \in faults \/ {"fail", "crash"} \subseteq faults)
  /\ MayRestore(m) /\ BasesComplete(m)
  /\ PushOverlays(snaps[m].base)
  /\ Branch(m, kind)
  /\ next' = next + 1
  /\ UNCHANGED <<current, xmls, aged, power, record, spoiled, astray, faults>>

(* The domain is left on the bases: the define over them timed out after it    *)
(* took effect, so it is not undone; or no overlay was made and undoing it     *)
(* failed; or the portal died.                                                 *)
RestoreStranded(m) ==
  /\ faults \cap {"late", "double", "crash"} # {}
  /\ MayRestore(m)
  /\ SwitchTo(snaps[m].base)
  /\ next' = next + 1
  /\ Strays
  /\ UNCHANGED <<image, snaps, xmls, aged, power, record, spoiled, faults>>

(* The domain is on the overlays, but the restore was not recorded: undoing it *)
(* after a failure failed as well, or the portal died before the save.         *)
RestoreUnfinished(m, kind) ==
  /\ \/ kind = "recovery" /\ "double" \in faults
     \/ kind = "none" /\ faults \cap {"double", "crash"} # {}
  /\ MayRestore(m) /\ BasesComplete(m)
  /\ PushOverlays(snaps[m].base)
  /\ SwitchTo(Overlays(next))
  /\ Branch(m, kind)
  /\ \/ UNCHANGED xmls
     \/ kind = "none" /\ "crash" \in faults /\ xmls' = xmls \cup {next}
  /\ next' = next + 1
  /\ UNCHANGED <<aged, power, record, spoiled, astray, faults>>

-----------------------------------------------------------------------------
(* rollback_resize_snapshot: rename the overlays, define the saved XML. After  *)
(* an exception the overlays are renamed back; the definition is not put back, *)
(* whether or not the define took effect.                                      *)

MayRollback(s) ==
  /\ record = "completed" /\ power = "shut off"
  /\ snaps[s].status = "active" /\ s \in xmls
  /\ \A d \in Disks : image[d][s].where = "live"

SetAside(s, moved) ==
  image' = [d \in Disks |-> IF d \in moved
                            THEN [image[d] EXCEPT ![s].where = "aside"] ELSE image[d]]

(* Mutant: the overlays are renamed and the old definition is not loaded. *)
RollbackWithoutDefine(s) ==
  /\ MayRollback(s)
  /\ SetAside(s, Disks)
  /\ snaps' = [snaps EXCEPT ![s].status = "rolled_back"]
  /\ Returns
  /\ UNCHANGED <<current, next, xmls, aged, power, record, spoiled, faults>>

Rollback(s) ==
  /\ MayRollback(s)
  /\ SetAside(s, Disks)
  /\ SwitchTo(snaps[s].base)
  /\ snaps' = [snaps EXCEPT ![s].status = "rolled_back"]
  /\ Returns
  /\ UNCHANGED <<next, xmls, aged, power, record, spoiled, faults>>

(* The snapshot still reads "active". defined: the define took effect, although *)
(* it timed out or the portal died before the save. moved: the overlays that    *)
(* are not back in place, because renaming failed or was not reached.           *)
RollbackFails(s, moved, defined) ==
  /\ moved # {} \/ defined
  /\ \/ /\ defined => "late" \in faults
        /\ moved # {} => faults \cap {"double", "crash"} # {}
     \/ moved = Disks /\ "crash" \in faults
  /\ MayRollback(s)
  /\ SetAside(s, moved)
  /\ SwitchTo(IF defined THEN snaps[s].base ELSE current)
  /\ IF defined THEN Strays ELSE UNCHANGED astray
  /\ UNCHANGED <<snaps, next, xmls, aged, power, record, spoiled, faults>>

-----------------------------------------------------------------------------
(* Expiry and cleanup of resize snapshots *)

(* Twelve hours pass. *)
Age(s) ==
  /\ snaps[s].kind = "resize" /\ s \notin aged
  /\ aged' = aged \cup {s}
  /\ UNCHANGED <<image, current, snaps, next, xmls, power, record, spoiled, astray, faults>>

(* expire_resize_snapshots, from the worker or from GET /api/requests. *)
Expire ==
  /\ record = "completed"
  /\ With("active") \cap aged # {}
  /\ snaps' = [n \in Serial |-> IF snaps[n].status = "active" /\ n \in aged
                                THEN [snaps[n] EXCEPT !.status = "expired"] ELSE snaps[n]]
  /\ UNCHANGED <<image, current, next, xmls, aged, power, record, spoiled, astray, faults>>

(* resize_snapshot_cleanup_plan: every disk is on the overlay or already on   *)
(* the base.                                                                  *)
MayCleanUp(s) ==
  /\ record = "completed" /\ power = "running"
  /\ snaps[s].status = "expired"
  /\ \A d \in Disks : current[d] \in {s, snaps[s].base[d]}

PendingCommit(s) == {d \in Disks : current[d] = s}

(* The sources after the disks in done were committed and pivoted. *)
Pivoted(s, done, target) ==
  [d \in Disks |-> IF d \in done THEN CommittedInto(s, d, target) ELSE current[d]]

CommitSpoils(s, done, target) == UNION {Spoils(d, CommittedInto(s, d, target)) : d \in done}

Unlink(s, gone) ==
  image' = [d \in Disks |-> IF d \in gone THEN [image[d] EXCEPT ![s] = NoImage] ELSE image[d]]

(* Mutant: failed commits are not noticed and the sources are not verified. *)
CleanUpUnverified(s, target) ==
  /\ MayCleanUp(s)
  /\ \E done \in SUBSET PendingCommit(s) :
       /\ SwitchTo(Pivoted(s, done, target))
       /\ spoiled' = spoiled \cup CommitSpoils(s, done, target)
  /\ Unlink(s, Disks)
  /\ xmls' = xmls \ {s}
  /\ snaps' = [snaps EXCEPT ![s].status = "cleaned"]
  /\ UNCHANGED <<next, aged, power, record, astray, faults>>

(* All committed, the sources verified, the files deleted. *)
CleanUp(s, target) ==
  /\ MayCleanUp(s)
  /\ Pivoted(s, PendingCommit(s), target) = snaps[s].base
  /\ SwitchTo(snaps[s].base)
  /\ spoiled' = spoiled \cup CommitSpoils(s, PendingCommit(s), target)
  /\ Unlink(s, Disks)
  /\ xmls' = xmls \ {s}
  /\ snaps' = [snaps EXCEPT ![s].status = "cleaned"]
  /\ UNCHANGED <<next, aged, power, record, astray, faults>>

(* Verified, but only some of the files went away before a failure; the XML   *)
(* goes last.                                                                 *)
CleanUpPartly(s, target, gone) ==
  /\ faults \cap {"fail", "crash"} # {}
  /\ MayCleanUp(s)
  /\ Pivoted(s, PendingCommit(s), target) = snaps[s].base
  /\ SwitchTo(snaps[s].base)
  /\ spoiled' = spoiled \cup CommitSpoils(s, PendingCommit(s), target)
  /\ Unlink(s, gone)
  /\ \/ UNCHANGED xmls
     \/ "crash" \in faults /\ gone = Disks /\ xmls' = xmls \ {s}
  /\ UNCHANGED <<snaps, next, aged, power, record, astray, faults>>

(* A commit or the inspection after it fails, or the sources are not the      *)
(* bases: "Disk-chain verification failed; files retained".                   *)
CleanUpAborted(s, target, done) ==
  /\ MayCleanUp(s) /\ done \subseteq PendingCommit(s)
  /\ \/ faults \cap {"fail", "late", "crash"} # {}
     \/ done = PendingCommit(s) /\ Pivoted(s, done, target) # snaps[s].base
  /\ SwitchTo(Pivoted(s, done, target))
  /\ spoiled' = spoiled \cup CommitSpoils(s, done, target)
  /\ UNCHANGED <<image, snaps, next, xmls, aged, power, record, astray, faults>>

-----------------------------------------------------------------------------
(* Other operations on the VM *)

(* delete_manual_snapshot: the XML goes, every qcow2 file stays. *)
DeleteManual(m) ==
  /\ record = "completed"
  /\ snaps[m].status = "available"
  /\ snaps' = [snaps EXCEPT ![m].status = "deleted"]
  /\ xmls' = xmls \ {m}
  /\ UNCHANGED <<image, current, next, aged, power, record, spoiled, astray, faults>>

(* lifecycle_action start; qemu opens the whole chain. *)
StartVM ==
  /\ record = "completed" /\ power = "shut off"
  /\ \A d \in Disks : Complete(d, current[d])
  /\ power' = "running"
  /\ UsesSources
  /\ UNCHANGED <<image, current, snaps, next, xmls, aged, record, spoiled, faults>>

(* lifecycle_action stop, or the guest shutting itself down. *)
StopVM ==
  /\ record = "completed" /\ power = "running"
  /\ power' = "shut off"
  /\ UNCHANGED <<image, current, snaps, next, xmls, aged, record, spoiled, astray, faults>>

GuestWrites(d) ==
  /\ record = "completed" /\ power = "running"
  /\ spoiled' = spoiled \cup Spoils(d, current[d])
  /\ UNCHANGED <<image, current, snaps, next, xmls, aged, power, record, astray, faults>>

(* Mutant: the overlays of restores and failed restores are forgotten. *)
RecordedSnapshots(d) ==
  {Own} \cup UNION {{n, snaps[n].base[d]} : n \in {k \in Serial : snaps[k].kind \in {"resize", "manual"}}}

(* The paths vm_delete_plan finds in the record: the VM's own disks and every *)
(* base, overlay and recovery path stored with a snapshot.                    *)
Recorded(d) ==
  {Own} \cup {n \in Serial : snaps[n].kind # "none"}
        \cup {snaps[n].base[d] : n \in {k \in Serial : snaps[k].kind # "none"}}

Listed(d, n) ==
  \/ image[d][n].where = "live" /\ n \in Recorded(d) \ {Template}
  \/ image[d][n].where = "aside" /\ snaps[n].status = "rolled_back"

DeleteVM ==
  /\ record = "completed"
  /\ record' = "deleted"
  /\ power' = "shut off"
  /\ image' = [d \in Disks |-> [n \in Serial |-> IF Listed(d, n) THEN NoImage ELSE image[d][n]]]
  /\ xmls' = {n \in xmls : snaps[n].kind = "none"}
  /\ UNCHANGED <<current, snaps, next, aged, spoiled, astray, faults>>

-----------------------------------------------------------------------------
Next ==
  \/ \E kind \in {"resize", "manual"} :
       CreateSnapshot(kind) \/ CreateFails(kind) \/ CreateUnrecorded(kind)
  \/ \E m \in Serial :
       \/ Restore(m) \/ RestoreStranded(m)
       \/ \E kind \in {"recovery", "none"} : RestoreUndone(m, kind) \/ RestoreUnfinished(m, kind)
       \/ DeleteManual(m)
  \/ \E s \in Serial :
       \/ Rollback(s)
       \/ \E moved \in SUBSET Disks, defined \in BOOLEAN : RollbackFails(s, moved, defined)
       \/ Age(s)
       \/ \E target \in CommitTargets :
            \/ CleanUp(s, target)
            \/ \E some \in SUBSET Disks :
                 CleanUpPartly(s, target, some) \/ CleanUpAborted(s, target, some)
  \/ Expire
  \/ StartVM \/ StopVM
  \/ \E d \in Disks : GuestWrites(d)
  \/ DeleteVM

Spec == Init /\ [][Next]_vars

-----------------------------------------------------------------------------
(* Properties *)

(* Undoing a failed operation works, the portal stays alive, and commits go   *)
(* to the snapshot's base.                                                    *)
Benign == faults \subseteq {"fail", "late"}

(* The VM can always be started: each disk's chain is complete.  Rollback    *)
(* renames and cleanup deletes files that other snapshots were stacked on;   *)
(* the definition they leave must not depend on them.  Not claimed while a   *)
(* define that timed out has left the domain on a snapshot's own files.      *)
VMChainComplete ==
  Benign /\ record = "completed" /\ astray = "no" => \A d \in Disks : Complete(d, current[d])

(* An available manual snapshot keeps the data it froze: its files exist and *)
(* neither the guest nor a commit has written to them, also when a define    *)
(* that timed out left the domain on them and another restore or rollback    *)
(* put it right.  Two things break it: the rollback of a resize snapshot it  *)
(* was stacked on, and using a domain that was left on a snapshot's files.   *)
ManualIntact ==
  Benign /\ record = "completed" /\ astray # "used" => \A m \in With("available") :
    \/ m \notin spoiled /\ m \in xmls /\ BasesComplete(m)
    \/ \E s \in With("rolled_back"), d \in Disks : s \in ViewOf(m, d)

(* The snapshot offered for rollback really returns the VM to its state      *)
(* before the resize: its overlays and XML are there, its bases are complete *)
(* and unmodified, whatever was created, restored or cleaned up meanwhile,   *)
(* and a rollback or restore whose define timed out can simply be repeated   *)
(* as long as the VM was not used in between.                                *)
ActiveCanRollBack ==
  Benign /\ record = "completed" /\ astray # "used" =>
    \A s \in With("active") :
      /\ s \notin spoiled /\ s \in xmls
      /\ \A d \in Disks : image[d][s].where = "live" /\ Complete(d, snaps[s].base[d])

(* Cleanup removes a disk file only when the domain no longer reads it, even *)
(* if commands fail half-way or the portal dies.                             *)
RemovesOnlyUnused ==
  [][\A d \in Disks, n \in Serial :
       image[d][n].where # "absent" /\ image'[d][n].where = "absent" /\ record' = "completed"
       => n # current'[d] /\ n \notin image[d][current'[d]].under]_vars

(* The inductive invariant behind it: a file depends on older files only, and *)
(* what a snapshot keeps of a disk is older than the snapshot.                *)
FilesLayered == \A d \in Disks, n \in Serial : \A g \in image[d][n].under : g < n
SnapsLayered ==
  \A n \in Serial :
    /\ snaps[n].status # "none" => snaps[n].kind # "none"
    /\ snaps[n].kind # "none" => n < next /\ \A d \in Disks : snaps[n].base[d] < n
SourcesOld == \A d \in Disks : current[d] < next
IInv == TypeOK /\ FilesLayered /\ SnapsLayered /\ SourcesOld

(* Deleting the VM leaves no file that any record knew of: images kept by    *)
(* rollbacks, restores and failed restores go too.  What can stay behind is  *)
(* what a failed or interrupted command made before it was recorded.         *)
DeletionIsComplete ==
  Benign /\ record = "deleted" =>
    /\ \A n \in xmls : snaps[n].kind = "none"
    /\ \A d \in Disks, n \in Serial \ {Template} :
         image[d][n].where # "absent" => snaps[n].kind = "none" /\ n # Own

(* Claims of the documentation *)

(* "Cleanup commits each active overlay into its base disk": the cleanup of  *)
(* a snapshot leaves each disk on the overlay or on the snapshot's base.     *)
CommitsIntoBase ==
  [][\A s \in With("expired"), d \in Disks :
       current[d] = s /\ power = "running" /\ next' = next => current'[d] \in {s, snaps[s].base[d]}]_vars
=============================================================================
