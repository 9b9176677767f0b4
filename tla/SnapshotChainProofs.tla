-------------------------- MODULE SnapshotChainProofs --------------------------
(***************************************************************************)
(* Proofs about SnapshotChain for every set of disks, number of images and *)
(* combination of faults, wherever blockcommit stops.                      *)
(***************************************************************************)
EXTENDS SnapshotChain, TLAPS

LEMMA SerialFacts ==
  /\ Serial \subseteq Nat /\ Template \in Serial /\ Own \in Serial
  /\ \A k \in 2 .. MaxSerial + 1 : k \in Nat /\ (k \in Serial => k + 1 \in 2 .. MaxSerial + 1)
BY SnapshotAssumption DEF Serial, Template, Own

(* Files and snapshot records as their parts. *)
LEMMA ImageParts ==
  /\ \A w \in {"live", "aside", "absent"}, u \in SUBSET Serial :
       LET i == [where |-> w, under |-> u] IN i \in Image /\ i.where = w /\ i.under = u
  /\ \A i \in Image : /\ i.where \in {"live", "aside", "absent"} /\ i.under \in SUBSET Serial
                       /\ [i EXCEPT !.where = "aside"] = [where |-> "aside", under |-> i.under]
BY DEF Image

LEMMA SnapParts ==
  /\ \A k \in Kinds, st \in SnapStatus, b \in [Disks -> Serial] :
       LET i == [kind |-> k, status |-> st, base |-> b] IN
       i \in Snap /\ i.kind = k /\ i.status = st /\ i.base = b
  /\ \A i \in Snap :
       /\ i.kind \in Kinds /\ i.status \in SnapStatus /\ i.base \in [Disks -> Serial]
       /\ \A st : [i EXCEPT !.status = st] = [kind |-> i.kind, status |-> st, base |-> i.base]
BY DEF Snap

LEMMA InitialTypes ==
  /\ NoImage \in Image /\ NoSnap \in Snap
  /\ NoImage.where = "absent" /\ NoImage.under = {}
  /\ NoSnap.status = "none" /\ NoSnap.kind = "none"
BY SerialFacts DEF NoImage, Image, NoSnap, Snap, Kinds, SnapStatus

LEMMA InvInit == Init => IInv
<1> SUFFICES ASSUME Init PROVE IInv
  OBVIOUS
<1>1. \A d \in Disks, n \in Serial :
        image[d][n] = CASE n = Template -> [where |-> "live", under |-> {}]
                        [] n = Own -> [where |-> "live", under |-> {Template}]
                        [] OTHER -> NoImage
  BY DEF Init
<1>2. \A d \in Disks, n \in Serial :
        /\ image[d][n] \in Image
        /\ \A g \in image[d][n].under : g < n
  <2> TAKE d \in Disks, n \in Serial
  <2>1. CASE n = Template
    <3>1. image[d][n] = [where |-> "live", under |-> {}]
      BY <1>1, <2>1 DEF Own, Template
    <3> QED
      BY <3>1, ImageParts
  <2>2. CASE n = Own
    <3>1. image[d][n] = [where |-> "live", under |-> {Template}]
      BY <1>1, <2>2 DEF Own, Template
    <3>2. {Template} \in SUBSET Serial /\ Template < Own
      BY SerialFacts DEF Own, Template
    <3> QED
      BY <2>2, <3>1, <3>2, ImageParts
  <2>3. CASE n # Template /\ n # Own
    <3>1. image[d][n] = NoImage
      BY <1>1, <2>3
    <3> QED
      BY <3>1, InitialTypes
  <2> QED
    BY <2>1, <2>2, <2>3
<1>3. image \in [Disks -> [Serial -> Image]]
  BY <1>2 DEF Init
<1>4. snaps \in [Serial -> Snap] /\ SnapsLayered
  BY InitialTypes DEF Init, SnapsLayered
<1>5. current \in [Disks -> Serial] /\ SourcesOld
  BY SerialFacts DEF Init, SourcesOld, Own
<1>6. next \in 2 .. MaxSerial + 1 /\ FilesLayered
  BY <1>2, SnapshotAssumption DEF Init, FilesLayered
<1> QED
  BY <1>3, <1>4, <1>5, <1>6 DEF Init, IInv, TypeOK

-----------------------------------------------------------------------------
(* What the steps are made of *)

(* The files keep their types and their layers, and what disappears from its *)
(* place was not needed: the part of the invariant that image, current and   *)
(* the deletion of files are about.                                          *)
FilesKept == /\ image' \in [Disks -> [Serial -> Image]]
             /\ FilesLayered'
             /\ \A d \in Disks, n \in Serial : image'[d][n].where = "absent" => image[d][n].where = "absent"

LEMMA Pushing ==
  ASSUME IInv, next \in Serial, NEW base \in [Disks -> Serial],
         \A d \in Disks : base[d] < next, PushOverlays(base)
  PROVE  FilesKept
<1>0. /\ image \in [Disks -> [Serial -> Image]] /\ current \in [Disks -> Serial]
      /\ snaps \in [Serial -> Snap] /\ FilesLayered /\ SnapsLayered
  BY DEF IInv, TypeOK
<1> DEFINE overlay(d) == [where |-> "live", under |-> ChainOf(d, base[d])]
<1>1. image' = [d \in Disks |-> [image[d] EXCEPT ![next] = overlay(d)]]
  BY DEF PushOverlays
<1>2. \A d \in Disks : overlay(d) \in Image /\ overlay(d).where = "live"
                       /\ \A g \in overlay(d).under : g < next
  <2> TAKE d \in Disks
  <2>1. base[d] \in Serial /\ base[d] < next /\ image[d][base[d]] \in Image
    BY <1>0
  <2>2. image[d][base[d]].under \subseteq Serial
    BY <2>1, ImageParts
  <2>3. \A g \in image[d][base[d]].under : g < next
    <3> TAKE g \in image[d][base[d]].under
    <3>1. g \in Nat /\ base[d] \in Nat /\ next \in Nat
      BY <2>1, <2>2, SerialFacts
    <3>2. g < base[d]
      BY <1>0, <2>1 DEF FilesLayered
    <3> QED
      BY <2>1, <3>1, <3>2
  <2>4. /\ ChainOf(d, base[d]) \in SUBSET Serial
        /\ \A g \in ChainOf(d, base[d]) : g < next
    BY <2>1, <2>2, <2>3 DEF ChainOf
  <2> QED
    BY <2>4, ImageParts
<1> HIDE DEF overlay
<1>3. \A d \in Disks, n \in Serial :
        image'[d][n] = IF n = next THEN overlay(d) ELSE image[d][n]
  BY <1>0, <1>1
<1>4. image' \in [Disks -> [Serial -> Image]]
  BY <1>0, <1>1, <1>2
<1>5. \A d \in Disks, n \in Serial : n # next => image'[d][n] = image[d][n]
  BY <1>3
<1>6. \A d \in Disks : image'[d][next] = overlay(d)
  BY <1>0, <1>3
<1>7. FilesLayered'
  BY <1>0, <1>2, <1>5, <1>6 DEF FilesLayered
<1> QED
  BY <1>0, <1>2, <1>4, <1>5, <1>6, <1>7 DEF FilesKept

(* Renamed files stay files. *)
LEMMA Moving ==
  ASSUME IInv, NEW s \in Serial, NEW moved \in SUBSET Disks, SetAside(s, moved)
  PROVE  FilesKept
<1>0. /\ image \in [Disks -> [Serial -> Image]] /\ current \in [Disks -> Serial]
      /\ snaps \in [Serial -> Snap] /\ FilesLayered /\ SnapsLayered
  BY DEF IInv, TypeOK
<1> DEFINE new(d) == [image[d] EXCEPT ![s].where = "aside"]
<1>1. ASSUME NEW d \in Disks
      PROVE  /\ new(d) \in [Serial -> Image]
             /\ \A n \in Serial : /\ new(d)[n].under = image[d][n].under
                                  /\ new(d)[n].where = "absent" => image[d][n].where = "absent"
  <2>1. image[d] \in [Serial -> Image]
    BY <1>0
  <2>2. new(d) = [image[d] EXCEPT ![s] = [image[d][s] EXCEPT !.where = "aside"]]
    BY <2>1
  <2>3. [image[d][s] EXCEPT !.where = "aside"] = [where |-> "aside", under |-> image[d][s].under]
    BY <2>1, ImageParts
  <2>4. [image[d][s] EXCEPT !.where = "aside"] \in Image
    BY <2>1, <2>3, ImageParts
  <2>5. \A n \in Serial : new(d)[n] = IF n = s THEN [image[d][s] EXCEPT !.where = "aside"] ELSE image[d][n]
    BY <2>1, <2>2
  <2> QED
    BY <2>1, <2>2, <2>3, <2>4, <2>5
<1>2. \A d \in Disks : image'[d] = IF d \in moved THEN new(d) ELSE image[d]
  BY DEF SetAside
<1>3. image' = [d \in Disks |-> IF d \in moved THEN new(d) ELSE image[d]]
  BY DEF SetAside
<1> HIDE DEF new
<1>4. image' \in [Disks -> [Serial -> Image]]
  BY <1>0, <1>1, <1>3
<1>5. \A d \in Disks, n \in Serial :
        /\ image'[d][n].under = image[d][n].under
        /\ image'[d][n].where = "absent" => image[d][n].where = "absent"
  BY <1>1, <1>2
<1> QED
  BY <1>0, <1>4, <1>5 DEF FilesKept, FilesLayered

(* Clean-up removes overlay s of some disks and nothing else. *)
LEMMA Unlinking ==
  ASSUME IInv, NEW s \in Serial, NEW gone \in SUBSET Disks, Unlink(s, gone)
  PROVE  /\ image' \in [Disks -> [Serial -> Image]]
         /\ FilesLayered'
         /\ \A d \in Disks, n \in Serial : n # s => image'[d][n] = image[d][n]
<1>0. /\ image \in [Disks -> [Serial -> Image]] /\ current \in [Disks -> Serial]
      /\ snaps \in [Serial -> Snap] /\ FilesLayered /\ SnapsLayered
  BY DEF IInv, TypeOK
<1>1. image' \in [Disks -> [Serial -> Image]]
  BY <1>0, InitialTypes DEF Unlink
<1>2. \A d \in Disks, n \in Serial : image'[d][n] = image[d][n] \/ (n = s /\ image'[d][n] = NoImage)
  BY <1>0 DEF Unlink
<1> QED
  BY <1>0, <1>1, <1>2, InitialTypes DEF FilesLayered

(* Some recorded snapshots get another status. *)
Relabelled(changed, status) ==
  [n \in Serial |-> IF n \in changed THEN [snaps[n] EXCEPT !.status = status] ELSE snaps[n]]

LEMMA Restating ==
  ASSUME IInv, NEW changed \in SUBSET Serial, NEW status \in SnapStatus,
         \A n \in changed : snaps[n].kind # "none"
  PROVE  LET new == Relabelled(changed, status) IN
         /\ new \in [Serial -> Snap]
         /\ \A n \in Serial : /\ new[n].kind = snaps[n].kind /\ new[n].base = snaps[n].base
                              /\ new[n].status # "none" => new[n].kind # "none"
<1> DEFINE new == Relabelled(changed, status)
<1>0. snaps \in [Serial -> Snap] /\ SnapsLayered
  BY DEF IInv, TypeOK
<1>1. ASSUME NEW n \in Serial
      PROVE  /\ new[n] \in Snap /\ new[n].kind = snaps[n].kind /\ new[n].base = snaps[n].base
             /\ new[n].status # "none" => new[n].kind # "none"
  <2>1. snaps[n] \in Snap
    BY <1>0
  <2>2. CASE n \in changed
    <3>1. new[n] = [kind |-> snaps[n].kind, status |-> status, base |-> snaps[n].base]
      BY <2>1, <2>2, SnapParts DEF Relabelled
    <3>2. snaps[n].kind \in Kinds /\ snaps[n].base \in [Disks -> Serial]
      BY <2>1, SnapParts
    <3> QED
      BY <2>2, <3>1, <3>2, SnapParts
  <2>3. CASE n \notin changed
    <3>1. new[n] = snaps[n]
      BY <2>3 DEF Relabelled
    <3> QED
      BY <1>0, <2>1, <3>1 DEF SnapsLayered
  <2> QED
    BY <2>2, <2>3
<1>2. new \in [Serial -> Snap]
  BY <1>1 DEF Relabelled
<1> QED
  BY <1>1, <1>2

-----------------------------------------------------------------------------
(* The steps *)

(* What a step may remove: the body of RemovesOnlyUnused. *)
OnlyUnused ==
  \A d \in Disks, n \in Serial :
    image[d][n].where # "absent" /\ image'[d][n].where = "absent" /\ record' = "completed"
    => n # current'[d] /\ n \notin image[d][current'[d]].under

(* The invariant by parts. *)
LEMMA Parts ==
  ASSUME IInv
  PROVE  /\ image \in [Disks -> [Serial -> Image]] /\ current \in [Disks -> Serial]
         /\ snaps \in [Serial -> Snap] /\ next \in 2 .. MaxSerial + 1
         /\ next \in Nat /\ Serial \subseteq Nat
         /\ xmls \subseteq Serial /\ aged \subseteq Serial /\ spoiled \subseteq Serial
         /\ astray \in {"no", "bases", "used"} /\ faults \in FaultSets /\ FilesLayered /\ SnapsLayered /\ SourcesOld
BY SerialFacts DEF IInv, TypeOK

(* The next serial is used up; what was below it still is. *)
LEMMA NextSerial ==
  ASSUME IInv, next \in Serial, next' = next + 1
  PROVE  /\ next' \in 2 .. MaxSerial + 1 /\ next < next'
         /\ \A n \in Serial : n < next => n < next'
BY Parts, SerialFacts

(* The record of a new snapshot or branch, whose bases are below it. *)
LEMMA Recording ==
  ASSUME IInv, next \in Serial, next' = next + 1,
         NEW old \in [Serial -> Snap],
         \A n \in Serial : /\ old[n].kind = snaps[n].kind /\ old[n].base = snaps[n].base
                           /\ old[n].status # "none" => old[n].kind # "none",
         NEW kind \in Kinds \ {"none"}, NEW status \in SnapStatus,
         NEW base \in [Disks -> Serial], \A d \in Disks : base[d] < next,
         snaps' = [old EXCEPT ![next] = [kind |-> kind, status |-> status, base |-> base]]
  PROVE  snaps' \in [Serial -> Snap] /\ SnapsLayered'
<1> DEFINE new == [kind |-> kind, status |-> status, base |-> base]
<1>1. new \in Snap /\ new.kind = kind /\ new.base = base
  BY SnapParts
<1> HIDE DEF new
<1>2. \A n \in Serial : snaps'[n] = IF n = next THEN new ELSE old[n]
  BY DEF new
<1>3. snaps' \in [Serial -> Snap]
  BY <1>1 DEF new
<1>4. SnapsLayered /\ next < next' /\ \A n \in Serial : n < next => n < next'
  BY Parts, NextSerial
<1>5. ASSUME NEW n \in Serial
      PROVE  /\ snaps'[n].status # "none" => snaps'[n].kind # "none"
             /\ snaps'[n].kind # "none" => n < next' /\ \A d \in Disks : snaps'[n].base[d] < n
  <2>1. CASE n = next
    BY <1>1, <1>2, <1>4, <2>1
  <2>2. CASE n # next
    <3>1. /\ old[n].kind = snaps[n].kind /\ old[n].base = snaps[n].base
          /\ old[n].status # "none" => old[n].kind # "none"
      OBVIOUS
    <3>3. snaps'[n] = old[n]
      BY <1>2, <2>2
    <3>2. snaps[n].kind # "none" => n < next /\ \A d \in Disks : snaps[n].base[d] < n
      BY <1>4 DEF SnapsLayered
    <3> QED
      BY <1>4, <3>1, <3>2, <3>3
  <2> QED
    BY <2>1, <2>2
<1> QED
  BY <1>3, <1>5 DEF SnapsLayered

(* A step leaves the domain as it was, astray, put right or used. *)
AstrayStep == Strays \/ Returns \/ UsesSources \/ UNCHANGED astray

LEMMA AstrayTyped == IInv /\ AstrayStep => astray' \in {"no", "bases", "used"}
BY Parts DEF AstrayStep, Strays, Returns, UsesSources

LEMMA StepCreate ==
  ASSUME IInv, NEW kind \in {"resize", "manual"},
         CreateSnapshot(kind) \/ CreateFails(kind) \/ CreateUnrecorded(kind)
  PROVE  IInv' /\ OnlyUnused
<1>0. next \in Serial /\ next' = next + 1 /\ xmls' \subseteq Serial /\ AstrayStep
      /\ UNCHANGED <<aged, power, record, spoiled, faults>>
  BY Parts DEF CreateSnapshot, CreateFails, CreateUnrecorded, MayCreate, AstrayStep
<1>1. next' \in 2 .. MaxSerial + 1 /\ next < next' /\ \A n \in Serial : n < next => n < next'
  BY <1>0, NextSerial
<1>2. FilesKept
  <2>1. CASE CreateFails(kind)
    BY <2>1, Parts DEF CreateFails, FilesKept, FilesLayered
  <2>2. CASE CreateSnapshot(kind) \/ CreateUnrecorded(kind)
    BY <1>0, <2>2, Parts, Pushing DEF CreateSnapshot, CreateUnrecorded, SourcesOld
  <2> QED
    BY <2>1, <2>2
<1>3. current' \in [Disks -> Serial] /\ SourcesOld'
  BY <1>0, <1>1, Parts DEF CreateSnapshot, CreateFails, CreateUnrecorded, SwitchTo, Overlays, SourcesOld
<1>4. snaps' \in [Serial -> Snap] /\ SnapsLayered'
  <2>1. CASE UNCHANGED snaps
    BY <1>1, <2>1, Parts DEF SnapsLayered
  <2>2. CASE CreateSnapshot(kind)
    <3> DEFINE changed == {n \in Serial : kind = "resize" /\ snaps[n].status = "active"}
    <3>1. "superseded" \in SnapStatus /\ \A n \in changed : snaps[n].kind # "none"
      BY Parts DEF SnapStatus, SnapsLayered
    <3>2. Superseding(kind) = Relabelled(changed, "superseded") /\ changed \in SUBSET Serial
      BY DEF Superseding, Relabelled
    <3> HIDE DEF changed
    <3>3. /\ Superseding(kind) \in [Serial -> Snap]
          /\ \A n \in Serial :
               /\ Superseding(kind)[n].kind = snaps[n].kind /\ Superseding(kind)[n].base = snaps[n].base
               /\ Superseding(kind)[n].status # "none" => Superseding(kind)[n].kind # "none"
      BY <3>1, <3>2, Restating
    <3>4. PICK status \in SnapStatus :
            snaps' = [Superseding(kind) EXCEPT ![next] =
                        [kind |-> kind, status |-> status, base |-> current]]
      BY <2>2 DEF CreateSnapshot, SnapStatus
    <3>5. kind \in Kinds \ {"none"}
      BY DEF Kinds
    <3> QED
      BY <1>0, <3>3, <3>4, <3>5, Parts, Recording DEF SourcesOld
  <2> QED
    BY <2>1, <2>2 DEF CreateFails, CreateUnrecorded
<1> QED
  BY <1>0, <1>1, <1>2, <1>3, <1>4, Parts, AstrayTyped DEF IInv, TypeOK, FilesKept, OnlyUnused

(* The bases of a snapshot are files below it. *)
LEMMA Bases ==
  ASSUME IInv, NEW s \in Serial, snaps[s].status # "none"
  PROVE  /\ snaps[s].kind # "none" /\ s < next
         /\ snaps[s].base \in [Disks -> Serial]
         /\ \A d \in Disks : snaps[s].base[d] < s /\ snaps[s].base[d] < next
<1>1. snaps[s].kind # "none" /\ s < next /\ \A d \in Disks : snaps[s].base[d] < s
  BY Parts DEF SnapsLayered
<1>2. snaps[s].base \in [Disks -> Serial]
  BY Parts, SnapParts
<1>3. ASSUME NEW d \in Disks PROVE snaps[s].base[d] < next
  <2>1. snaps[s].base[d] \in Nat /\ s \in Nat /\ next \in Nat
    BY <1>2, Parts
  <2> QED
    BY <1>1, <2>1
<1> QED
  BY <1>1, <1>2, <1>3

LEMMA StepRestore ==
  ASSUME IInv, NEW m \in Serial,
         NEW kind \in {"restore", "recovery", "none"},
         \/ Restore(m) /\ kind = "restore"
         \/ RestoreStranded(m) \/ RestoreUndone(m, kind) \/ RestoreUnfinished(m, kind)
  PROVE  IInv' /\ OnlyUnused
<1>0. next \in Serial /\ next' = next + 1 /\ xmls' \subseteq Serial /\ AstrayStep /\ snaps[m].status # "none"
      /\ UNCHANGED <<aged, power, record, spoiled, faults>>
  BY Parts DEF Restore, RestoreUndone, RestoreStranded, RestoreUnfinished, MayRestore, AstrayStep
<1>1. next' \in 2 .. MaxSerial + 1 /\ next < next' /\ \A n \in Serial : n < next => n < next'
  BY <1>0, NextSerial
<1>2. snaps[m].base \in [Disks -> Serial] /\ \A d \in Disks : snaps[m].base[d] < next
  BY <1>0, Bases
<1>3. FilesKept
  <2>1. CASE RestoreStranded(m)
    BY <2>1, Parts DEF RestoreStranded, FilesKept, FilesLayered
  <2>2. CASE Restore(m) \/ RestoreUndone(m, kind) \/ RestoreUnfinished(m, kind)
    BY <1>0, <1>2, <2>2, Pushing DEF Restore, RestoreUndone, RestoreUnfinished
  <2> QED
    BY <2>1, <2>2
<1>4. current' \in [Disks -> Serial] /\ SourcesOld'
  <2>1. current' \in {current, Overlays(next), snaps[m].base}
    BY DEF Restore, RestoreUndone, RestoreStranded, RestoreUnfinished, SwitchTo
  <2> QED
    BY <1>0, <1>1, <1>2, <2>1, Parts DEF Overlays, SourcesOld
<1>5. snaps' \in [Serial -> Snap] /\ SnapsLayered'
  <2>1. CASE UNCHANGED snaps
    BY <1>1, <2>1, Parts DEF SnapsLayered
  <2>2. CASE kind # "none" /\ Branch(m, kind)
    <3>1. kind \in Kinds \ {"none"} /\ "none" \in SnapStatus
      BY <2>2 DEF Kinds, SnapStatus
    <3>2. \A n \in Serial : snaps[n].status # "none" => snaps[n].kind # "none"
      BY Parts DEF SnapsLayered
    <3>3. snaps' = [snaps EXCEPT ![next] = [kind |-> kind, status |-> "none", base |-> snaps[m].base]]
      BY <2>2 DEF Branch
    <3> QED
      BY <1>0, <1>2, <3>1, <3>2, <3>3, Parts, Recording
  <2> QED
    BY <2>1, <2>2 DEF Restore, RestoreUndone, RestoreStranded, RestoreUnfinished, Branch
<1> QED
  BY <1>0, <1>1, <1>3, <1>4, <1>5, Parts, AstrayTyped DEF IInv, TypeOK, FilesKept, OnlyUnused

(* A recorded snapshot s gets another status and nothing else is recorded. *)
LEMMA OneRelabelled ==
  ASSUME IInv, NEW s \in Serial, NEW status
  PROVE  [snaps EXCEPT ![s].status = status] = Relabelled({s}, status)
BY Parts DEF Relabelled

LEMMA Marking ==
  ASSUME IInv, NEW s \in Serial, snaps[s].status # "none", NEW status \in SnapStatus,
         snaps' = Relabelled({s}, status), next' = next
  PROVE  snaps' \in [Serial -> Snap] /\ SnapsLayered'
<1>1. {s} \in SUBSET Serial /\ \A n \in {s} : snaps[n].kind # "none"
  BY Bases
<1>2. /\ snaps' \in [Serial -> Snap]
      /\ \A n \in Serial : /\ snaps'[n].kind = snaps[n].kind /\ snaps'[n].base = snaps[n].base
                           /\ snaps'[n].status # "none" => snaps'[n].kind # "none"
  BY <1>1, Restating
<1> QED
  BY <1>2, Parts DEF SnapsLayered

LEMMA StepRollback ==
  ASSUME IInv, NEW s \in Serial,
         \/ Rollback(s)
         \/ \E moved \in SUBSET Disks, defined \in BOOLEAN : RollbackFails(s, moved, defined)
  PROVE  IInv' /\ OnlyUnused
<1>0. snaps[s].status # "none" /\ AstrayStep /\ UNCHANGED <<next, xmls, aged, power, record, spoiled, faults>>
  BY DEF Rollback, RollbackFails, MayRollback, AstrayStep
<1>1. FilesKept
  <2>1. PICK moved \in SUBSET Disks : SetAside(s, moved)
    BY DEF Rollback, RollbackFails
  <2> QED
    BY <2>1, Moving
<1>2. current' \in [Disks -> Serial] /\ SourcesOld'
  <2>1. current' \in {current, snaps[s].base}
    BY DEF Rollback, RollbackFails, SwitchTo
  <2> QED
    BY <1>0, <2>1, Parts, Bases DEF SourcesOld
<1>3. snaps' \in [Serial -> Snap] /\ SnapsLayered'
  <2>1. CASE Rollback(s)
    BY <1>0, <2>1, OneRelabelled, Marking DEF Rollback, SnapStatus
  <2>2. CASE UNCHANGED snaps
    BY <1>0, <2>2, Parts DEF SnapsLayered
  <2> QED
    BY <2>1, <2>2 DEF RollbackFails
<1> QED
  BY <1>0, <1>1, <1>2, <1>3, Parts, AstrayTyped DEF IInv, TypeOK, FilesKept, OnlyUnused

(* Clean-up: whatever was committed, the sources are files below next; the    *)
(* overlay is removed only when every source is a base, which is older than   *)
(* the overlay and so cannot depend on it.                                    *)
LEMMA StepCleanUp ==
  ASSUME IInv, NEW s \in Serial, NEW target \in CommitTargets, NEW some \in SUBSET Disks,
         CleanUp(s, target) \/ CleanUpPartly(s, target, some) \/ CleanUpAborted(s, target, some)
  PROVE  IInv' /\ OnlyUnused
<1>0. snaps[s].status # "none" /\ UNCHANGED <<next, aged, power, record, astray, faults>> /\ xmls' \subseteq xmls
  BY DEF CleanUp, CleanUpPartly, CleanUpAborted, MayCleanUp
<1>1. spoiled' \subseteq Serial
  BY Parts DEF CleanUp, CleanUpPartly, CleanUpAborted, CommitSpoils, Spoils
<1>2. current' \in [Disks -> Serial] /\ SourcesOld'
  <2>1. \A d \in Disks : snaps[s].base[d] \in Serial /\ snaps[s].base[d] < next
    BY <1>0, Bases
  <2>2. Template \in Serial /\ Template < next
    BY Parts, SerialFacts DEF Template
  <2>3. \A done : LET new == Pivoted(s, done, target) IN
          new \in [Disks -> Serial] /\ \A d \in Disks : new[d] < next
    BY <2>1, <2>2, Parts DEF Pivoted, CommittedInto, SourcesOld
  <2>4. current' = snaps[s].base \/ \E done : current' = Pivoted(s, done, target)
    BY DEF CleanUp, CleanUpPartly, CleanUpAborted, SwitchTo
  <2> QED
    BY <1>0, <2>3, <2>4, Bases DEF SourcesOld
<1>3. snaps' \in [Serial -> Snap] /\ SnapsLayered'
  <2>1. CASE CleanUp(s, target)
    BY <1>0, <2>1, OneRelabelled, Marking DEF CleanUp, SnapStatus
  <2>2. CASE UNCHANGED snaps
    BY <1>0, <2>2, Parts DEF SnapsLayered
  <2> QED
    BY <2>1, <2>2 DEF CleanUpPartly, CleanUpAborted
<1>4. CASE CleanUpAborted(s, target, some)
  <2>1. UNCHANGED image
    BY <1>4 DEF CleanUpAborted
  <2> QED
    BY <1>0, <1>1, <1>2, <1>3, <2>1, Parts DEF IInv, TypeOK, FilesLayered, OnlyUnused
<1>5. CASE CleanUp(s, target) \/ CleanUpPartly(s, target, some)
  <2>1. PICK gone \in SUBSET Disks : Unlink(s, gone)
    BY <1>5 DEF CleanUp, CleanUpPartly
  <2>2. /\ image' \in [Disks -> [Serial -> Image]] /\ FilesLayered'
        /\ \A d \in Disks, n \in Serial : n # s => image'[d][n] = image[d][n]
    BY <2>1, Unlinking
  <2>3. current' = snaps[s].base
    BY <1>5 DEF CleanUp, CleanUpPartly, SwitchTo
  <2>4. ASSUME NEW d \in Disks PROVE s # current'[d] /\ s \notin image[d][current'[d]].under
    <3> DEFINE base == snaps[s].base[d]
    <3>1. base \in Serial /\ base < s /\ base \in Nat /\ s \in Nat
      BY <1>0, Bases, Parts
    <3>2. \A g \in image[d][base].under : g < base
      BY <3>1, Parts DEF FilesLayered
    <3>3. s \notin image[d][base].under
      BY <3>1, <3>2
    <3> QED
      BY <2>3, <3>1, <3>3
  <2>5. OnlyUnused
    BY <2>2, <2>4 DEF OnlyUnused
  <2> QED
    BY <1>0, <1>1, <1>2, <1>3, <2>2, <2>5, Parts DEF IInv, TypeOK
<1> QED
  BY <1>4, <1>5

LEMMA StepExpire ==
  ASSUME IInv, Expire
  PROVE  IInv' /\ OnlyUnused
<1> DEFINE changed == {n \in Serial : snaps[n].status = "active" /\ n \in aged}
<1>1. "expired" \in SnapStatus /\ \A n \in changed : snaps[n].kind # "none"
  BY Parts DEF SnapStatus, SnapsLayered
<1>2. snaps' = Relabelled(changed, "expired")
  BY DEF Expire, Relabelled
<1> HIDE DEF changed
<1>3. changed \in SUBSET Serial
  BY DEF changed
<1>4. /\ snaps' \in [Serial -> Snap]
      /\ \A n \in Serial : /\ snaps'[n].kind = snaps[n].kind /\ snaps'[n].base = snaps[n].base
                           /\ snaps'[n].status # "none" => snaps'[n].kind # "none"
  BY <1>1, <1>2, <1>3, Restating
<1>5. UNCHANGED <<image, current, next, xmls, aged, power, record, spoiled, astray, faults>>
  BY DEF Expire
<1>6. SnapsLayered' /\ FilesLayered' /\ SourcesOld'
  BY <1>4, <1>5, Parts DEF SnapsLayered, FilesLayered, SourcesOld
<1> QED
  BY <1>4, <1>5, <1>6, Parts DEF IInv, TypeOK, OnlyUnused

(* Deleting the VM may remove what its definition named: the record is gone. *)
LEMMA StepDelete ==
  ASSUME IInv, DeleteVM
  PROVE  IInv' /\ OnlyUnused
<1>1. /\ record' = "deleted" /\ power' = "shut off" /\ xmls' \subseteq Serial
      /\ UNCHANGED <<current, snaps, next, aged, spoiled, astray, faults>>
  BY Parts DEF DeleteVM
<1>2. \A d \in Disks, n \in Serial : image'[d][n] \in {NoImage, image[d][n]}
  BY DEF DeleteVM
<1>3. image' \in [Disks -> [Serial -> Image]]
  BY Parts, InitialTypes DEF DeleteVM
<1>4. FilesLayered' /\ SnapsLayered' /\ SourcesOld'
  BY <1>1, <1>2, Parts, InitialTypes DEF FilesLayered, SnapsLayered, SourcesOld
<1> QED
  BY <1>1, <1>3, <1>4, Parts DEF IInv, TypeOK, OnlyUnused

LEMMA StepOther ==
  ASSUME IInv,
         \/ \E s \in Serial : Age(s) \/ DeleteManual(s)
         \/ StartVM \/ StopVM
         \/ \E d \in Disks : GuestWrites(d)
         \/ UNCHANGED vars
  PROVE  IInv' /\ OnlyUnused
<1>1. UNCHANGED <<image, current, next, faults>> /\ xmls' \subseteq Serial /\ aged' \subseteq Serial /\ AstrayStep
  BY Parts DEF Age, DeleteManual, StartVM, StopVM, GuestWrites, vars, AstrayStep
<1>2. /\ power' \in {"running", "shut off"} /\ record' \in {"completed", "deleted"}
      /\ spoiled' \subseteq Serial
  BY DEF IInv, TypeOK, Age, DeleteManual, StartVM, StopVM, GuestWrites, Spoils, vars
<1>3. snaps' \in [Serial -> Snap] /\ SnapsLayered'
  <2>1. ASSUME NEW s \in Serial, DeleteManual(s)
        PROVE  snaps' \in [Serial -> Snap] /\ SnapsLayered'
    <3>1. snaps[s].status # "none" /\ "deleted" \in SnapStatus
          /\ snaps' = [snaps EXCEPT ![s].status = "deleted"]
      BY <2>1 DEF DeleteManual, SnapStatus
    <3> QED
      BY <1>1, <3>1, OneRelabelled, Marking
  <2>2. CASE UNCHANGED snaps
    BY <1>1, <2>2, Parts DEF SnapsLayered
  <2> QED
    BY <2>1, <2>2 DEF Age, StartVM, StopVM, GuestWrites, vars
<1>4. FilesLayered' /\ SourcesOld'
  BY <1>1, Parts DEF FilesLayered, SourcesOld
<1> QED
  BY <1>1, <1>2, <1>3, <1>4, Parts, AstrayTyped DEF IInv, TypeOK, OnlyUnused

LEMMA InvStep == IInv /\ [Next]_vars => IInv' /\ OnlyUnused
BY StepCreate, StepRestore, StepRollback, StepCleanUp, StepExpire, StepDelete, StepOther DEF Next

LEMMA Inductive == Spec => []IInv
<1>1. IInv /\ [Next]_vars => IInv'
  BY InvStep
<1> QED
  BY <1>1, InvInit, PTL DEF Spec

(* Files, records and sources keep their types through every create, restore, *)
(* rollback, clean-up and deletion, whatever fails in them.                   *)
THEOREM TypeCorrect == Spec => []TypeOK
<1>1. IInv => TypeOK
  BY DEF IInv
<1> QED
  BY <1>1, Inductive, PTL

(* Commit & cleanup never removes a disk file the domain still reads, whether *)
(* blockcommit stops at the base or below it, and although commits, unlinks   *)
(* and the portal itself may fail half-way.                                   *)
THEOREM CleanUpSafe == Spec => RemovesOnlyUnused
<1>1. IInv /\ [Next]_vars => [OnlyUnused]_vars
  BY InvStep
<1> QED
  BY <1>1, Inductive, PTL DEF Spec, RemovesOnlyUnused, OnlyUnused
=============================================================================
