--------------------------- MODULE ResizeFlowProofs ---------------------------
(***************************************************************************)
(* Proofs about ResizeFlow for every hard limit, self-service limit and    *)
(* number of manual snapshots.                                             *)
(***************************************************************************)
EXTENDS ResizeFlow, TLAPS

(* Sizes and snapshots as their parts. *)
LEMMA SizeFacts ==
  /\ \A s \in Sizes, d \in Dims : s[d] \in 1 .. Hard /\ s[d] \in Nat
  /\ \A s \in Saved : s.recorded \in Sizes /\ s.actual \in Sizes /\ s.astray \in BOOLEAN
BY ResizeAssumption DEF Sizes, Saved

(* What a snapshot taken now saves. *)
LEMMA NowFacts ==
  ASSUME TypeOK, RecordNotAhead
  PROVE  /\ Now \in Saved
         /\ ~ Now.astray => AtLeast(Now.actual, Now.recorded)
BY DEF Now, Saved, TypeOK, RecordNotAhead

(* A doubted snapshot is the same but for the doubt. *)
LEMMA DoubtedFacts ==
  ASSUME NEW saved, saved \subseteq Saved,
         \A s \in saved : ~ s.astray => AtLeast(s.actual, s.recorded)
  PROVE  /\ Doubted(saved) \subseteq Saved
         /\ saved \in AtMostOne(Saved) => Doubted(saved) \in AtMostOne(Saved)
         /\ \A s \in Doubted(saved) : ~ s.astray => AtLeast(s.actual, s.recorded)
<1> DEFINE marked(s) == [s EXCEPT !.astray = TRUE]
<1>1. \A s \in Saved : marked(s) \in Saved /\ marked(s).astray
  BY DEF Saved
<1>2. Doubted(saved) = IF astray THEN {marked(s) : s \in saved} ELSE saved
  BY DEF Doubted
<1> HIDE DEF marked
<1>3. CASE ~ astray
  BY <1>2, <1>3
<1>4. CASE astray
  <2>1. Doubted(saved) = {marked(s) : s \in saved}
    BY <1>2, <1>4
  <2>2. saved \in AtMostOne(Saved) => Doubted(saved) \in AtMostOne(Saved)
    <3>1. CASE saved = {}
      BY <2>1, <3>1 DEF AtMostOne
    <3>2. ASSUME NEW s \in Saved, saved = {s} PROVE Doubted(saved) \in AtMostOne(Saved)
      <4>1. Doubted(saved) = {marked(s)}
        BY <2>1, <3>2
      <4> QED
        BY <1>1, <4>1 DEF AtMostOne
    <3> QED
      BY <3>1, <3>2 DEF AtMostOne
  <2> QED
    BY <1>1, <2>1, <2>2
<1> QED
  BY <1>3, <1>4

LEMMA AtLeastItself == \A s \in Sizes : AtLeast(s, s)
BY SizeFacts DEF AtLeast

(* A singleton or nothing. *)
LEMMA OneFacts ==
  ASSUME NEW S, NEW x \in S
  PROVE  {} \in AtMostOne(S) /\ {x} \in AtMostOne(S)
BY DEF AtMostOne

(* Whatever the playbook has applied, libvirt keeps at least the record, if   *)
(* the target was not below it.                                               *)
LEMMA AppliedAhead ==
  ASSUME TypeOK, RecordNotAhead, NEW target \in Sizes, NEW done
  PROVE  /\ Applied(target, done) \in Sizes
         /\ ~ astray => AtLeast(Applied(target, done), recorded)
<1> DEFINE new == Applied(target, done)
<1>1. \A d \in Dims : new[d] = IF d \in done /\ Touches(target, d) THEN target[d] ELSE actual[d]
  BY DEF Applied
<1>2. new \in Sizes
  BY DEF Applied, Sizes, TypeOK
<1>3. ASSUME ~ astray, NEW d \in Dims PROVE new[d] >= recorded[d]
  <2>1. target[d] \in Nat /\ actual[d] \in Nat /\ recorded[d] \in Nat /\ actual[d] >= recorded[d]
    BY <1>3, SizeFacts DEF TypeOK, RecordNotAhead, AtLeast
  <2>2. Touches(target, d) => target[d] >= recorded[d]
    BY <2>1 DEF Touches
  <2> QED
    BY <1>1, <2>1, <2>2
<1> QED
  BY <1>2, <1>3 DEF AtLeast

(* A playbook that reaches its end leaves libvirt with at least the target:   *)
(* what it does not touch was there before.                                   *)
LEMMA AppliedReaches ==
  ASSUME TypeOK, RecordNotAhead, ~ astray, NEW target \in Sizes, PlaybookAccepts(target)
  PROVE  AtLeast(Applied(target, Dims), target)
<1> DEFINE new == Applied(target, Dims)
<1>1. \A d \in Dims : new[d] = IF Touches(target, d) THEN target[d] ELSE actual[d]
  BY DEF Applied
<1>2. ASSUME NEW d \in Dims PROVE new[d] >= target[d]
  <2>1. target[d] \in Nat /\ actual[d] \in Nat /\ recorded[d] \in Nat /\ actual[d] >= recorded[d]
    BY SizeFacts DEF TypeOK, RecordNotAhead, AtLeast
  <2>2. ~ Touches(target, d) => actual[d] >= target[d]
    BY <2>1 DEF Touches
  <2> QED
    BY <1>1, <2>1, <2>2
<1> QED
  BY <1>2 DEF AtLeast

(* What resize_local_qemu does to the sizes, for a target the record has not  *)
(* overtaken.                                                                 *)
LEMMA ResizeKeeps ==
  ASSUME IInv, NEW target \in Sizes, AtLeast(target, recorded),
         NEW withSnapshot \in BOOLEAN, ResizeVM(target, withSnapshot)
  PROVE  /\ recorded' \in Sizes /\ actual' \in Sizes
         /\ failed' \in AtMostOne(Sizes) /\ active' \in AtMostOne(Saved)
         /\ ~ astray => AtLeast(actual', recorded')
         /\ AtLeast(recorded', recorded)
         /\ \A s \in active' : ~ s.astray => AtLeast(s.actual, s.recorded)
         /\ \A plan \in failed' : AtLeast(plan, recorded')
<1> USE DEF IInv
<1>1. AtLeast(recorded, recorded)
  BY AtLeastItself DEF TypeOK
<1>2. {target} \in AtMostOne(Sizes) /\ {} \in AtMostOne(Sizes)
  BY OneFacts
<1>3. /\ Snapshotted(withSnapshot) \in AtMostOne(Saved)
      /\ \A s \in Snapshotted(withSnapshot) : ~ s.astray => AtLeast(s.actual, s.recorded)
  <2>1. CASE withSnapshot
    <3>1. Snapshotted(withSnapshot) = {Now}
      BY <2>1 DEF Snapshotted
    <3> QED
      BY <3>1, NowFacts, OneFacts
  <2>2. CASE ~ withSnapshot
    <3>1. active \in AtMostOne(Saved) /\ active \subseteq Saved
      BY DEF TypeOK, AtMostOne
    <3> QED
      BY <2>2, <3>1, DoubtedFacts DEF Snapshotted, SavedNotAhead
  <2> QED
    BY <2>1, <2>2
<1>4. CASE SnapshotFails(target)
  BY <1>1, <1>2, <1>4 DEF SnapshotFails, TypeOK, RecordNotAhead, SavedNotAhead
<1>5. CASE \E done \in Progress : PlaybookFails(target, done, withSnapshot)
  <2> PICK done \in Progress : PlaybookFails(target, done, withSnapshot)
    BY <1>5
  <2>1. Applied(target, done) \in Sizes /\ (~ astray => AtLeast(Applied(target, done), recorded))
    BY AppliedAhead
  <2> QED
    BY <1>1, <1>2, <1>3, <2>1 DEF PlaybookFails, TypeOK
<1>6. CASE Succeeds(target, withSnapshot)
  <2>1. Applied(target, Dims) \in Sizes
    BY AppliedAhead
  <2>2. ~ astray => AtLeast(Applied(target, Dims), target)
    BY <1>6, AppliedReaches DEF Succeeds
  <2> QED
    BY <1>2, <1>3, <1>6, <2>1, <2>2 DEF Succeeds
<1> QED
  BY <1>4, <1>5, <1>6 DEF ResizeVM

(* The three handlers that call resize_local_qemu do so for a plan that is    *)
(* not below the record, and leave no approval pending.                       *)
LEMMA ResizePlans ==
  ASSUME IInv,
         (\E target \in Sizes : Resize(target)) \/ ApproveResize \/ RetryResize
  PROVE  /\ \E target \in Sizes, withSnapshot \in BOOLEAN :
              AtLeast(target, recorded) /\ ResizeVM(target, withSnapshot)
         /\ pending' = {}
         /\ manual' \in {manual, Doubted(manual)}
         /\ UNCHANGED <<power, astray>>
<1> USE DEF IInv
<1>1. pending \subseteq Sizes /\ failed \subseteq Sizes
  BY DEF TypeOK, AtMostOne
<1>2. CASE \E target \in Sizes : Resize(target)
  BY <1>2 DEF Resize, Completed, Valid
<1>3. CASE ApproveResize
  BY <1>1, <1>3 DEF ApproveResize, PlansNotBehind
<1>4. CASE RetryResize
  BY <1>1, <1>4 DEF RetryResize, Completed, PlansNotBehind
<1> QED
  BY <1>2, <1>3, <1>4

(* Going back to a snapshot: both sizes come from it, and no plan remains. *)
LEMMA GoingBack ==
  ASSUME IInv, NEW s \in active \cup manual, Rollback(s) \/ Restore(s)
  PROVE  /\ s \in Saved /\ (~ s.astray => AtLeast(s.actual, s.recorded))
         /\ recorded' = s.recorded /\ actual' = s.actual /\ astray' = s.astray
         /\ pending' = {} /\ failed' = {}
         /\ active' \in {{}, active} /\ UNCHANGED <<manual, power>>
         /\ power = "shut off"
<1>1. active \subseteq Saved /\ manual \subseteq Saved
  BY DEF IInv, TypeOK, AtMostOne
<1> QED
  BY <1>1 DEF Rollback, Restore, Completed, IInv, SavedNotAhead

(* Going back to a snapshot without the record: the sizes come from it, and    *)
(* nothing else but astray changes.                                            *)
LEMMA GoingAstray ==
  ASSUME IInv, NEW s \in active \cup manual, RollbackUnrecorded(s) \/ RestoreUnrecorded(s)
  PROVE  /\ actual' \in Sizes /\ astray' = TRUE
         /\ UNCHANGED <<recorded, pending, failed, active, manual, power>>
<1>1. s \in Saved
  BY DEF IInv, TypeOK, AtMostOne
<1>2. /\ actual' = s.actual /\ astray' = TRUE
      /\ UNCHANGED <<recorded, pending, failed, active, manual, power>>
  BY Zenon DEF RollbackUnrecorded, RestoreUnrecorded
<1> QED
  BY <1>1, <1>2, SizeFacts

LEMMA InvInit == Init => IInv
<1> SUFFICES ASSUME Init PROVE IInv
  OBVIOUS
<1>1. AtLeast(actual, recorded)
  BY SizeFacts DEF Init, AtLeast
<1> QED
  BY <1>1 DEF Init, IInv, TypeOK, RecordNotAhead, SavedNotAhead, PlansNotBehind, AtMostOne

(* Every step keeps the inductive invariant, and only a VM that is shut off   *)
(* gets a smaller record.                                                     *)
LEMMA InvStep ==
  IInv /\ [Next]_vars => IInv' /\ (power = "running" => AtLeast(recorded', recorded))
<1> SUFFICES ASSUME IInv, [Next]_vars
             PROVE  IInv' /\ (power = "running" => AtLeast(recorded', recorded))
  OBVIOUS
<1>1. AtLeast(recorded, recorded)
  BY AtLeastItself DEF IInv, TypeOK
<1> USE DEF IInv, TypeOK, RecordNotAhead, SavedNotAhead, PlansNotBehind
<1>2. CASE (\E target \in Sizes : Resize(target)) \/ ApproveResize \/ RetryResize
  <2>1. PICK target \in Sizes, withSnapshot \in BOOLEAN :
          AtLeast(target, recorded) /\ ResizeVM(target, withSnapshot)
    BY <1>2, ResizePlans
  <2>2. pending' = {} /\ manual' \in {manual, Doubted(manual)} /\ UNCHANGED <<power, astray>>
    BY <1>2, ResizePlans
  <2>3. manual' \subseteq Saved /\ \A s \in manual' : ~ s.astray => AtLeast(s.actual, s.recorded)
    BY <2>2, DoubtedFacts
  <2>4. /\ recorded' \in Sizes /\ actual' \in Sizes
        /\ failed' \in AtMostOne(Sizes) /\ active' \in AtMostOne(Saved)
        /\ ~ astray => AtLeast(actual', recorded')
        /\ AtLeast(recorded', recorded)
        /\ \A s \in active' : ~ s.astray => AtLeast(s.actual, s.recorded)
        /\ \A plan \in failed' : AtLeast(plan, recorded')
    BY <2>1, ResizeKeeps
  <2> QED
    BY <2>2, <2>4, <2>3 DEF AtMostOne
<1>3. ASSUME NEW target \in Sizes, RequestResize(target) PROVE IInv' /\ recorded' = recorded
  BY <1>3, OneFacts DEF RequestResize, Valid
<1>4. CASE RejectResize
  BY <1>1, <1>4 DEF RejectResize, AtMostOne
<1>5. ASSUME NEW s \in active \cup manual, Rollback(s) \/ Restore(s)
      PROVE  IInv' /\ (power = "running" => AtLeast(recorded', recorded))
  <2>1. /\ s \in Saved /\ (~ s.astray => AtLeast(s.actual, s.recorded))
        /\ recorded' = s.recorded /\ actual' = s.actual /\ astray' = s.astray
        /\ pending' = {} /\ failed' = {}
        /\ active' \in {{}, active} /\ UNCHANGED <<manual, power>>
        /\ power = "shut off"
    BY <1>5, GoingBack
  <2>2. s.recorded \in Sizes /\ s.actual \in Sizes /\ s.astray \in BOOLEAN
    BY <2>1, SizeFacts
  <2> QED
    BY <2>1, <2>2 DEF AtMostOne
<1>6. CASE Expire
  BY <1>1, <1>6 DEF Expire, AtMostOne
<1>7. CASE CreateManual
  <2>1. Now \in Saved /\ (~ Now.astray => AtLeast(Now.actual, Now.recorded))
    BY NowFacts
  <2> QED
    BY <1>1, <1>7, <2>1 DEF CreateManual
<1>8. ASSUME NEW m \in manual, DeleteManual(m) PROVE IInv' /\ recorded' = recorded
  BY <1>8 DEF DeleteManual
<1>9. CASE StartVM \/ StopVM
  BY <1>1, <1>9 DEF StartVM, StopVM
<1>10. CASE UNCHANGED vars
  BY <1>1, <1>10 DEF vars
<1>11. ASSUME NEW s \in active \cup manual, RollbackUnrecorded(s) \/ RestoreUnrecorded(s)
       PROVE  IInv' /\ recorded' = recorded
  BY <1>11, GoingAstray
<1> QED
  BY <1>1, <1>2, <1>3, <1>4, <1>5, <1>6, <1>7, <1>8, <1>9, <1>10, <1>11 DEF Next

LEMMA Inductive == Spec => []IInv
<1>1. Init => IInv
  BY InvInit
<1>2. IInv /\ [Next]_vars => IInv'
  BY InvStep
<1> QED
  BY <1>1, <1>2, PTL DEF Spec

(* There is never more than one active resize snapshot, one pending plan and  *)
(* one failed one: create_resize_snapshot supersedes before it adds, and      *)
(* resize_local_qemu overwrites last_failed_resize.                           *)
THEOREM TypeCorrect == Spec => []TypeOK
<1>1. IInv => TypeOK
  BY DEF IInv
<1> QED
  BY <1>1, Inductive, PTL

(* The portal never records a size the VM does not have, whatever playbook    *)
(* failed after whichever of its changes, and however often a snapshot was    *)
(* gone back to; but for a rollback or restore that reached libvirt and not   *)
(* the record, whose effect a later successful one takes back.                *)
THEOREM RecordSafe == Spec => []RecordNotAhead
<1>1. IInv => RecordNotAhead
  BY DEF IInv
<1> QED
  BY <1>1, Inductive, PTL

(* No approval, retry or resize of a running VM lowers what the portal        *)
(* records: only going back to a snapshot does, with the VM shut off.         *)
THEOREM OnlineGrowth == Spec => RecordGrowsOnline
<1>1. IInv /\ [Next]_vars => [power = "running" => AtLeast(recorded', recorded)]_vars
  BY InvStep
<1> QED
  BY <1>1, Inductive, PTL DEF Spec, RecordGrowsOnline
=============================================================================
