------------------------ MODULE RequestWorkflowProofs ------------------------
(***************************************************************************)
(* Proofs about RequestWorkflow for every set of requests and hostnames,   *)
(* every bound and every combination of faults.                            *)
(***************************************************************************)
EXTENDS RequestWorkflow, TLAPS

USE DEF FileKinds

(* A row with a new status and one more batch of events is still a row. *)
LEMMA LoggedType ==
  ASSUME NEW row \in Row, NEW status \in Statuses
  PROVE  /\ Logged(row, status) \in Row
         /\ Logged(row, status).host = row.host
         /\ Logged(row, status).status = status
         /\ Logged(row, status).events = row.events + 1
<1>1. row.host \in Names \cup {None} /\ row.events + 1 \in Nat
  BY DEF Row
<1> QED
  BY <1>1 DEF Logged, Row

(* A row with another status is still a row. *)
LEMMA RestatedType ==
  ASSUME NEW row \in Row, NEW status \in Statuses
  PROVE  /\ [row EXCEPT !.status = status] \in Row
         /\ [row EXCEPT !.status = status].host = row.host
         /\ [row EXCEPT !.status = status].events = row.events
<1>1. /\ row.host \in Names \cup {None} /\ row.events \in Nat
      /\ row = [host |-> row.host, status |-> row.status, events |-> row.events]
  BY DEF Row
<1>2. [row EXCEPT !.status = status] =
        [host |-> row.host, status |-> status, events |-> row.events]
  BY <1>1
<1> QED
  BY <1>1, <1>2 DEF Row

(* The values rows and workers are reset to have the right type. *)
LEMMA ConstantTypes ==
  /\ Blank \in Row /\ Erased \in Row /\ EmptyTable \in [Ids -> Row]
  /\ Idle \in [stage: Stages, row: Row]
  /\ NoErase \in [id: Ids \cup {None}, domain: BOOLEAN, files: SUBSET FileKinds]
BY DEF Blank, Erased, EmptyTable, Idle, NoErase, Row, Stages, Statuses

LEMMA TypeInit == Init => TypeOK
BY ConstantTypes DEF Init, TypeOK

(* Every step keeps the types: the steps are grouped by the handler they     *)
(* belong to.                                                                *)
LEMMA TypeStep == TypeOK /\ [Next]_vars => TypeOK'
<1> SUFFICES ASSUME TypeOK, [Next]_vars PROVE TypeOK'
  OBVIOUS
<1> USE DEF TypeOK
<1>1. ASSUME NEW r \in Ids, NEW h \in Names, NEW a \in BOOLEAN, Submit(r, h, a) PROVE TypeOK'
  <2> DEFINE row == [host |-> h, events |-> 1,
                     status |-> IF a THEN "awaiting_approval" ELSE "provisioning"]
  <2>1. row \in Row
    BY DEF Row, Statuses
  <2>2. [stage |-> "preflight", row |-> row] \in [stage: Stages, row: Row]
    BY <2>1 DEF Stages
  <2>3. table' = [table EXCEPT ![r] = row]
    BY <1>1 DEF Submit
  <2>4. worker' = worker \/ worker' = [worker EXCEPT ![r] = [stage |-> "preflight", row |-> row]]
    BY <1>1 DEF Submit
  <2> HIDE DEF row
  <2>5. table' \in [Ids -> Row]
    BY <2>1, <2>3
  <2>6. worker' \in [Ids -> [stage: Stages, row: Row]]
    BY <2>2, <2>4
  <2> QED
    BY <1>1, <2>5, <2>6 DEF Submit
<1>2. ASSUME NEW r \in Ids, Approve(r) PROVE TypeOK'
  <2>1. [table[r] EXCEPT !.status = "provisioning"] \in Row
    BY RestatedType DEF Statuses
  <2>2. worker' \in [Ids -> [stage: Stages, row: Row]]
    BY <1>2, <2>1 DEF Approve, Stages
  <2> QED
    BY <1>2, <2>2 DEF Approve
<1>3. ASSUME NEW r \in Ids, Reject(r) \/ OperateVM(r) \/ Annotate(r)
                              \/ RequestResize(r) \/ ApproveResize(r) \/ RejectResize(r)
      PROVE TypeOK'
  <2>1. PICK status \in Statuses : table' = [table EXCEPT ![r] = Logged(@, status)]
    BY <1>3 DEF Reject, OperateVM, Annotate, RequestResize, ApproveResize, RejectResize, Statuses
  <2>2. Logged(table[r], status) \in Row
    BY LoggedType
  <2>3. table' \in [Ids -> Row]
    BY <2>1, <2>2
  <2> QED
    BY <1>3, <2>3 DEF Reject, OperateVM, Annotate, RequestResize, ApproveResize, RejectResize
<1>4. ASSUME NEW r \in Ids, ProvisionStep(r) PROVE TypeOK'
  <2>1. ASSUME NEW from, NEW to \in Stages, Advance(r, from, to)
        PROVE worker' \in [Ids -> [stage: Stages, row: Row]]
    BY <2>1 DEF Advance
  <2>2. ASSUME NEW status \in Statuses, EndsAs(r, status)
        PROVE worker' \in [Ids -> [stage: Stages, row: Row]]
    <3>1. Logged(worker[r].row, status) \in Row
      BY LoggedType
    <3> QED
      BY <2>2, <3>1 DEF EndsAs, Stages
  <2>3. ASSUME NEW k \in FileKinds,
               Store(HostOf(r), k, IF files[HostOf(r)][k] = None THEN r ELSE files[HostOf(r)][k])
        PROVE files' \in [Names -> [FileKinds -> Ids \cup {None}]]
    <3>1. files \in [Names -> [FileKinds -> Ids \cup {None}]]
      OBVIOUS
    <3>2. PICK by : /\ by = IF files[HostOf(r)][k] = None THEN r ELSE files[HostOf(r)][k]
                    /\ files' = [files EXCEPT ![HostOf(r)][k] = by]
      BY <2>3 DEF Store
    <3>3. HostOf(r) \in Names => by \in Ids \cup {None}
      BY <3>1, <3>2
    <3> QED
      BY <3>1, <3>2, <3>3
  <2>4. CASE Preflight(r)
    BY <2>1, <2>4 DEF Preflight, Stages, PlaybookStages
  <2>5. CASE CheckExisting(r)
    BY <2>1, <2>5 DEF CheckExisting, Stages, PlaybookStages
  <2>6. CASE CreateDisk(r)
    BY <2>1, <2>3, <2>6 DEF CreateDisk, Stages, PlaybookStages
  <2>7. CASE CreateSeed(r)
    BY <2>1, <2>3, <2>7 DEF CreateSeed, Stages, PlaybookStages
  <2>8. CASE Define(r)
    BY <2>1, <2>8 DEF Define, Stages, PlaybookStages
  <2>9. CASE Start(r)
    BY <2>1, <2>9 DEF Start, Stages, PlaybookStages
  <2>10. CASE Verify(r)
    BY <2>1, <2>10 DEF Verify, Stages
  <2>11. CASE Complete(r)
    BY <2>2, <2>11 DEF Complete, Statuses
  <2>12. CASE ProvisionFails(r)
    BY <2>2, <2>12 DEF ProvisionFails, Statuses
  <2> QED
    BY <1>4, <2>4, <2>5, <2>6, <2>7, <2>8, <2>9, <2>10, <2>11, <2>12 DEF ProvisionStep
<1>5. ASSUME NEW r \in Ids, SaveOwn(r) \/ SaveAll(r) PROVE TypeOK'
  <2>1. worker' \in [Ids -> [stage: Stages, row: Row]]
    BY <1>5, ConstantTypes DEF SaveOwn, SaveAll
  <2>2. worker[r].row \in Row
    OBVIOUS
  <2>3. table' \in [Ids -> Row] /\ loaded' \in [Ids -> Row]
    BY <1>5, <2>2, ConstantTypes DEF SaveOwn, SaveAll
  <2> QED
    BY <1>5, <2>1, <2>3 DEF SaveOwn, SaveAll
<1>6. ASSUME NEW r \in Ids, IssueTicket(r) PROVE TypeOK'
  <2>1. PlanOf(r) \in Plan
    BY DEF PlanOf, Plan, Row
  <2>2. [id |-> r, plan |-> PlanOf(r)] \in Ticket
    BY <2>1 DEF Ticket
  <2> QED
    BY <1>6, <2>2 DEF IssueTicket
<1>7. ASSUME NEW t \in tickets, BeginDelete(t) \/ RefuseDelete(t) PROVE TypeOK'
  <2>1. t.id \in Ids /\ t.plan.domain \in BOOLEAN /\ t.plan.files \in SUBSET FileKinds
    BY DEF Ticket, Plan
  <2> QED
    BY <1>7, <2>1 DEF BeginDelete, RefuseDelete
<1>8. ASSUME NEW r \in Ids, DeleteStep(r) PROVE TypeOK'
  <2>1. CASE EraseDomain(r)
    BY <2>1 DEF EraseDomain
  <2>2. CASE \E k \in FileKinds : EraseFile(r, k)
    <3>1. PICK k \in FileKinds : EraseFile(r, k)
      BY <2>2
    <3>2. files' \in [Names -> [FileKinds -> Ids \cup {None}]]
      BY <3>1 DEF EraseFile, Store
    <3>3. erase' \in [id: Ids \cup {None}, domain: BOOLEAN, files: SUBSET FileKinds]
      BY <3>1 DEF EraseFile
    <3> QED
      BY <3>1, <3>2, <3>3 DEF EraseFile
  <2>3. CASE EraseRow(r)
    BY <2>3, ConstantTypes DEF EraseRow
  <2>4. CASE DeleteFails(r)
    BY <2>4, ConstantTypes DEF DeleteFails
  <2> QED
    BY <1>8, <2>1, <2>2, <2>3, <2>4 DEF DeleteStep
<1>9. CASE Crash
  BY <1>9, ConstantTypes DEF Crash
<1>10. CASE ToggleLibvirt
  BY <1>10 DEF ToggleLibvirt
<1>11. ASSUME NEW h \in Names, RemoveOutside(h) PROVE TypeOK'
  BY <1>11 DEF RemoveOutside
<1>12. CASE UNCHANGED vars
  BY <1>12 DEF vars
<1> QED
  BY <1>1, <1>2, <1>3, <1>4, <1>5, <1>6, <1>7, <1>8, <1>9, <1>10, <1>11, <1>12 DEF Next

(* The state of the portal, libvirt and the storage directory always has the *)
(* declared shape.                                                           *)
THEOREM TypeCorrect == Spec => []TypeOK
<1>1. Init => TypeOK
  BY TypeInit
<1>2. TypeOK /\ [Next]_vars => TypeOK'
  BY TypeStep
<1> QED
  BY <1>1, <1>2, PTL DEF Spec

-----------------------------------------------------------------------------
(* Facts about any state of the invariant *)

(* Nothing is being deleted while LOCK is free. *)
LEMMA FreeLock ==
  ASSUME IInv, lock = None
  PROVE  erase.id = None
BY DEF IInv, LockHolders

(* A running provision() call works for a pending request of the table, *)
(* and never for the request that is being deleted.                     *)
LEMMA WorkerPending ==
  ASSUME IInv, NEW r \in Ids, Busy(r)
  PROVE  /\ table[r].status \in Book!Pending
         /\ InTable(r)
         /\ table[r].host \in Names
         /\ HostOf(r) = table[r].host
         /\ erase.id # r
<1>1. table[r].status \in Book!Pending /\ HostOf(r) = table[r].host
  BY DEF IInv, WorkersOwnRows, OwnsRow, Book!Pending
<1>2. InTable(r)
  BY <1>1 DEF InTable, Statuses, Book!Pending
<1>3. table[r].host \in Names
  BY <1>2 DEF IInv, RowsWellFormed
<1>4. erase.id # r
  BY <1>1, WorkflowAssumption DEF IInv, LockHolders, Book!Pending, Book!Settled
<1> QED
  BY <1>1, <1>2, <1>3, <1>4

-----------------------------------------------------------------------------
(* The inductive invariant *)

LEMMA InvInit == Init => IInv
<1> SUFFICES ASSUME Init PROVE IInv
  OBVIOUS
<1>1. TypeOK
  BY TypeInit
<1>2. \A r \in Ids : ~InTable(r) /\ table[r] = Blank /\ ~Busy(r)
  BY DEF Init, EmptyTable, Blank, InTable, Statuses, Busy, Idle
<1>3. erase.id = None /\ lock = None
  BY DEF Init, NoErase
<1>4. RowsWellFormed /\ WorkersOwnRows
  BY <1>2 DEF RowsWellFormed, WorkersOwnRows
<1>5. LockHolders /\ ErasedDomainGone /\ CleanupAlone
  BY <1>3 DEF LockHolders, ErasedDomainGone, CleanupAlone
<1>6. ExclusiveNames
  BY <1>2 DEF ExclusiveNames, Blank, Book!Pending
<1>7. NoOrphanVM
  BY DEF Init, NoOrphanVM
<1> QED
  BY <1>1, <1>4, <1>5, <1>6, <1>7 DEF IInv

(* A step after which libvirt has no new domain, and nothing else has changed *)
(* that the invariant speaks of.                                              *)
LEMMA StepOutside ==
  ASSUME IInv, TypeOK',
         UNCHANGED <<table, worker, lock, loaded, erase>>,
         \A h \in Names : domain'[h] = domain[h] \/ domain'[h] = None
  PROVE  IInv'
<1>1. /\ \A r \in Ids : (Busy(r)' <=> Busy(r)) /\ (InTable(r)' <=> InTable(r))
      /\ \A r \in Ids : (OwnsRow(r)' <=> OwnsRow(r)) /\ HostOf(r)' = HostOf(r)
  BY DEF Busy, InTable, OwnsRow, HostOf
<1>2. RowsWellFormed' /\ WorkersOwnRows' /\ ExclusiveNames'
  BY <1>1 DEF IInv, RowsWellFormed, WorkersOwnRows, ExclusiveNames
<1>3. LockHolders'
  BY <1>1, WorkflowAssumption DEF IInv, LockHolders, TypeOK
<1>4. NoOrphanVM'
  BY <1>1 DEF IInv, NoOrphanVM
<1>5. erase.id # None => erase.id \in Ids /\ table[erase.id].host \in Names
  BY DEF IInv, TypeOK, LockHolders, RowsWellFormed, InTable, Statuses, Book!Settled
<1>6. ErasedDomainGone'
  BY <1>1, <1>5 DEF IInv, ErasedDomainGone
<1>7. CleanupAlone'
  BY <1>1, <1>5 DEF IInv, CleanupAlone
<1> QED
  BY <1>2, <1>3, <1>4, <1>6, <1>7 DEF IInv

(* A provision() call takes a step of its own. *)
LEMMA StepWorker ==
  ASSUME IInv, TypeOK', NEW r \in Ids,
         Busy(r), Busy(r)', OwnsRow(r)', HostOf(r)' = HostOf(r),
         \A s \in Ids \ {r} : worker'[s] = worker[s],
         UNCHANGED <<table, lock, loaded, erase>>,
         domain' = domain \/ domain' = [domain EXCEPT ![HostOf(r)] = r]
  PROVE  IInv'
<1>1. /\ \A s \in Ids : (Busy(s)' <=> Busy(s)) /\ (InTable(s)' <=> InTable(s))
      /\ \A s \in Ids : HostOf(s)' = HostOf(s)
      /\ \A s \in Ids \ {r} : OwnsRow(s)' <=> OwnsRow(s)
  BY DEF Busy, InTable, OwnsRow, HostOf
<1>2. RowsWellFormed' /\ WorkersOwnRows' /\ ExclusiveNames'
  BY <1>1 DEF IInv, RowsWellFormed, WorkersOwnRows, ExclusiveNames
<1>3. LockHolders'
  BY <1>1, WorkflowAssumption DEF IInv, LockHolders, TypeOK
<1>4. \A h \in Names : domain'[h] = domain[h] \/ h = HostOf(r)
  BY DEF IInv, TypeOK
<1>5. InTable(r) /\ HostOf(r) = table[r].host /\ erase.id # r
  BY WorkerPending
<1>6. NoOrphanVM'
  BY <1>1, <1>4, <1>5 DEF IInv, NoOrphanVM
<1>7. erase.id # None => erase.id \in Ids /\ table[erase.id].host \in Names
  BY DEF IInv, TypeOK, LockHolders, RowsWellFormed, InTable, Statuses, Book!Settled
<1>8. ErasedDomainGone'
  BY <1>1, <1>4, <1>5, <1>7 DEF IInv, ErasedDomainGone
<1>9. CleanupAlone'
  BY <1>1, <1>4, <1>5, <1>7 DEF IInv, CleanupAlone
<1> QED
  BY <1>2, <1>3, <1>6, <1>8, <1>9 DEF IInv

(* A handler, or the end of a provision() call, writes the row of a request  *)
(* nobody works for afterwards, and leaves LOCK free.                        *)
LEMMA StepRow ==
  ASSUME IInv, TypeOK', NEW r \in Ids, NEW row,
         InTable(r), erase.id = None, lock \in {None, r},
         row.host = table[r].host, row.status \in Statuses,
         row.status \in Book!Pending => table[r].status \in Book!Pending,
         ~Busy(r)', \A s \in Ids \ {r} : worker'[s] = worker[s],
         table' = [table EXCEPT ![r] = row],
         lock' = None, UNCHANGED <<erase, domain>>
  PROVE  IInv'
<1>1. table'[r] = row /\ \A s \in Ids \ {r} : table'[s] = table[s]
  BY DEF IInv, TypeOK
<1>2. /\ \A s \in Ids : (InTable(s)' <=> InTable(s)) /\ table'[s].host = table[s].host
      /\ \A s \in Ids \ {r} : (Busy(s)' <=> Busy(s)) /\ HostOf(s)' = HostOf(s)
  BY <1>1 DEF InTable, Busy, HostOf
<1>3. RowsWellFormed'
  BY <1>1, <1>2 DEF IInv, RowsWellFormed, Blank, Erased
<1>4. WorkersOwnRows'
  <2> SUFFICES ASSUME NEW s \in Ids \ {r}, Busy(s) PROVE OwnsRow(s)'
    BY <1>2 DEF WorkersOwnRows
  <2>1. OwnsRow(s)
    BY DEF IInv, WorkersOwnRows
  <2> QED
    BY <1>1, <1>2, <2>1, WorkflowAssumption DEF OwnsRow, HostOf
<1>5. ExclusiveNames'
  BY <1>1, <1>2 DEF IInv, ExclusiveNames
<1>6. NoOrphanVM'
  BY <1>2 DEF IInv, NoOrphanVM
<1>7. LockHolders' /\ ErasedDomainGone' /\ CleanupAlone'
  BY DEF LockHolders, ErasedDomainGone, CleanupAlone
<1> QED
  BY <1>3, <1>4, <1>5, <1>6, <1>7 DEF IInv

-----------------------------------------------------------------------------
(* The steps that need an argument of their own *)

LEMMA StepSubmit ==
  ASSUME IInv, TypeOK', NEW r \in Ids, NEW h \in Names, NEW a \in BOOLEAN, Submit(r, h, a)
  PROVE  IInv'
<1> DEFINE row == [host |-> h, events |-> 1,
                   status |-> IF a THEN "awaiting_approval" ELSE "provisioning"]
<1>1. /\ row.host = h /\ row.status \in Book!Pending /\ row.events = 1
      /\ ~a => row.status = "provisioning"
  BY DEF Book!Pending
<1> HIDE DEF row
<1>2. table' = [table EXCEPT ![r] = row]
  BY DEF Submit, row
<1>3. \/ a /\ worker' = worker
      \/ ~a /\ worker' = [worker EXCEPT ![r] = [stage |-> "preflight", row |-> row]]
  BY DEF Submit, row
<1>4. lock = None /\ lock' = None /\ erase.id = None /\ erase' = erase /\ domain' = domain
  BY FreeLock DEF Submit
<1>5. table \in [Ids -> Row] /\ worker \in [Ids -> [stage: Stages, row: Row]]
  BY DEF IInv, TypeOK
<1>6. ~InTable(r) /\ ~Busy(r)
  <2>1. table[r].status = "unborn"
    BY DEF Submit
  <2> QED
    BY <2>1, WorkerPending DEF InTable, Statuses
<1>7. table'[r] = row /\ \A s \in Ids \ {r} : table'[s] = table[s] /\ worker'[s] = worker[s]
  BY <1>2, <1>3, <1>5
<1>8. InTable(r)' /\ \A s \in Ids \ {r} : InTable(s)' <=> InTable(s)
  BY <1>1, <1>7 DEF InTable, Statuses, Book!Pending
<1>9. RowsWellFormed'
  BY <1>1, <1>7, <1>8 DEF IInv, RowsWellFormed
<1>10. WorkersOwnRows'
  <2> SUFFICES ASSUME NEW s \in Ids, Busy(s)' PROVE OwnsRow(s)'
    BY DEF WorkersOwnRows
  <2>1. CASE s # r
    <3>1. Busy(s) /\ OwnsRow(s)
      BY <1>7, <2>1 DEF IInv, WorkersOwnRows, Busy
    <3> QED
      BY <1>4, <1>7, <2>1, <3>1 DEF OwnsRow, HostOf
  <2>2. CASE s = r
    <3>1. ~a /\ worker'[r] = [stage |-> "preflight", row |-> row]
      BY <1>3, <1>5, <1>6, <2>2 DEF Busy
    <3> QED
      BY <1>1, <1>4, <1>7, <2>2, <3>1, WorkflowAssumption DEF OwnsRow, HostOf
  <2> QED
    BY <2>1, <2>2
<1>11. ExclusiveNames'
  <2>1. \A s \in Ids : table[s].status \in Book!Pending => table[s].host # h
    BY DEF Submit, Blocks, Book!Pending
  <2> QED
    BY <1>1, <1>7, <2>1 DEF IInv, ExclusiveNames
<1>12. NoOrphanVM'
  BY <1>4, <1>6, <1>7, <1>8 DEF IInv, NoOrphanVM
<1>13. LockHolders' /\ ErasedDomainGone' /\ CleanupAlone'
  BY <1>4 DEF LockHolders, ErasedDomainGone, CleanupAlone
<1> QED
  BY <1>9, <1>10, <1>11, <1>12, <1>13 DEF IInv

LEMMA StepApprove ==
  ASSUME IInv, TypeOK', NEW r \in Ids, Approve(r)
  PROVE  IInv'
<1>1. /\ lock = None /\ lock' = r /\ erase.id = None /\ erase' = erase
      /\ domain' = domain /\ table' = table /\ loaded' = table
  BY FreeLock DEF Approve
<1>2. table[r] \in Row /\ table[r].status = "awaiting_approval"
  BY DEF Approve, IInv, TypeOK
<1>3. /\ worker'[r].stage = "preflight" /\ worker'[r].row.host = table[r].host
      /\ worker'[r].row.events = table[r].events
  <2>1. worker'[r] = [stage |-> "preflight", row |-> [table[r] EXCEPT !.status = "provisioning"]]
    BY DEF Approve, IInv, TypeOK
  <2>2. /\ [table[r] EXCEPT !.status = "provisioning"].host = table[r].host
        /\ [table[r] EXCEPT !.status = "provisioning"].events = table[r].events
    BY <1>2, RestatedType DEF Statuses
  <2> DEFINE row == [table[r] EXCEPT !.status = "provisioning"]
  <2> HIDE DEF row
  <2>3. worker'[r] = [stage |-> "preflight", row |-> row]
    BY <2>1 DEF row
  <2>4. row.host = table[r].host /\ row.events = table[r].events
    BY <2>2 DEF row
  <2> QED
    BY <2>3, <2>4
<1>4. \A s \in Ids \ {r} : worker'[s] = worker[s]
  BY DEF Approve, IInv, TypeOK
<1>5. RowsWellFormed' /\ ExclusiveNames' /\ NoOrphanVM'
  BY <1>1 DEF IInv, RowsWellFormed, ExclusiveNames, NoOrphanVM, InTable
<1>6. WorkersOwnRows'
  <2> SUFFICES ASSUME NEW s \in Ids, Busy(s)' PROVE OwnsRow(s)'
    BY DEF WorkersOwnRows
  <2>1. CASE s # r
    <3>1. Busy(s) /\ OwnsRow(s)
      BY <1>4, <2>1 DEF IInv, WorkersOwnRows, Busy
    <3> QED
      BY <1>1, <1>4, <2>1, <3>1, WorkflowAssumption DEF OwnsRow, HostOf
  <2>2. CASE s = r
    <3>1. table[r].events \in Nat /\ "preflight" # "save"
      BY <1>2 DEF Row
    <3>2. HostOf(r)' = table'[r].host
      BY <1>1, <1>3 DEF HostOf
    <3> QED
      BY <1>1, <1>2, <1>3, <2>2, <3>1, <3>2 DEF OwnsRow
  <2> QED
    BY <2>1, <2>2
<1>7. LockHolders'
  BY <1>1, <1>3 DEF LockHolders, Busy
<1>8. ErasedDomainGone' /\ CleanupAlone'
  BY <1>1 DEF ErasedDomainGone, CleanupAlone
<1> QED
  BY <1>5, <1>6, <1>7, <1>8 DEF IInv

LEMMA StepProvision ==
  ASSUME IInv, TypeOK', NEW r \in Ids, ProvisionStep(r)
  PROVE  IInv'
<1>1. worker[r] \in [stage: Stages, row: Row] /\ worker \in [Ids -> [stage: Stages, row: Row]]
  BY DEF IInv, TypeOK
<1>2. UNCHANGED <<table, lock, loaded, erase>>
  BY DEF ProvisionStep, Preflight, CheckExisting, CreateDisk, CreateSeed, Define, Start,
         Verify, Complete, ProvisionFails
<1>3. domain' = domain \/ domain' = [domain EXCEPT ![HostOf(r)] = r]
  BY DEF ProvisionStep, Preflight, CheckExisting, CreateDisk, CreateSeed, Define, Start,
         Verify, Complete, ProvisionFails
<1>4. \/ \E from \in Stages \ {"idle", "save"}, to \in Stages \ {"idle", "save"} : Advance(r, from, to)
      \/ worker[r].stage \notin {"idle", "save"} /\ \E status \in {"completed", "failed"} : EndsAs(r, status)
  BY DEF ProvisionStep, Preflight, CheckExisting, CreateDisk, CreateSeed, Define, Start,
         Verify, Complete, ProvisionFails, Stages, PlaybookStages
<1>5. Busy(r) /\ worker[r].stage # "save"
  BY <1>4 DEF Busy, Advance
<1>6. OwnsRow(r)
  BY <1>5 DEF IInv, WorkersOwnRows
<1>7. \A s \in Ids \ {r} : worker'[s] = worker[s]
  BY <1>1, <1>4 DEF Advance, EndsAs
<1>8. CASE \E from \in Stages \ {"idle", "save"}, to \in Stages \ {"idle", "save"} : Advance(r, from, to)
  <2>1. worker'[r].stage \notin {"idle", "save"} /\ worker'[r].row = worker[r].row
    BY <1>1, <1>8 DEF Advance
  <2>2. Busy(r)' /\ OwnsRow(r)' /\ HostOf(r)' = HostOf(r)
    BY <1>2, <1>5, <1>6, <2>1 DEF Busy, OwnsRow, HostOf
  <2> QED
    BY <1>2, <1>3, <1>5, <1>7, <2>2, StepWorker
<1>9. CASE \E status \in {"completed", "failed"} : EndsAs(r, status)
  <2>1. PICK status \in {"completed", "failed"} : EndsAs(r, status)
    BY <1>9
  <2>2. worker'[r] = [stage |-> "save", row |-> Logged(worker[r].row, status)]
    BY <1>1, <2>1 DEF EndsAs
  <2>3. /\ worker'[r].stage = "save" /\ worker'[r].row.host = worker[r].row.host
        /\ worker'[r].row.status \in Book!Settled
        /\ worker'[r].row.events = worker[r].row.events + 1
    BY <2>2 DEF Logged, Book!Settled
  <2>4. table[r].events \in Nat /\ worker[r].row.events \in Nat
    BY <1>1 DEF IInv, TypeOK, Row
  <2>5. Busy(r)' /\ OwnsRow(r)' /\ HostOf(r)' = HostOf(r)
    BY <1>2, <1>5, <1>6, <2>3, <2>4 DEF Busy, OwnsRow, HostOf
  <2> QED
    BY <1>2, <1>3, <1>5, <1>7, <2>5, StepWorker
<1> QED
  BY <1>4, <1>8, <1>9

(* The saves: the approving handler writes back all rows it loaded, which    *)
(* are still the rows of the table.                                          *)
LEMMA StepSave ==
  ASSUME IInv, TypeOK', NEW r \in Ids, SaveOwn(r) \/ SaveAll(r)
  PROVE  IInv'
<1>1. worker \in [Ids -> [stage: Stages, row: Row]]
  BY DEF IInv, TypeOK
<1>2. worker[r].stage = "save" /\ Busy(r)
  BY DEF SaveOwn, SaveAll, Busy
<1>3. OwnsRow(r) /\ InTable(r)
  BY <1>2, WorkerPending DEF IInv, WorkersOwnRows
<1>4. lock \in {None, r} /\ lock' = None /\ UNCHANGED <<erase, domain>>
  BY DEF SaveOwn, SaveAll
<1>5. erase.id = None
  BY <1>2, <1>4, FreeLock, WorkerPending DEF IInv, LockHolders
<1>6. table' = [table EXCEPT ![r] = worker[r].row]
  <2>1. CASE SaveOwn(r)
    BY <2>1 DEF SaveOwn
  <2>2. CASE SaveAll(r)
    <3>1. loaded = table
      BY <1>5, <2>2, WorkflowAssumption DEF SaveAll, IInv, LockHolders
    <3> QED
      BY <2>2, <3>1 DEF SaveAll
  <2> QED
    BY <2>1, <2>2
<1>7. worker' = [worker EXCEPT ![r] = Idle]
  BY DEF SaveOwn, SaveAll
<1>8. ~Busy(r)' /\ \A s \in Ids \ {r} : worker'[s] = worker[s]
  BY <1>1, <1>7 DEF Busy, Idle
<1>9. /\ worker[r].row.host = table[r].host /\ worker[r].row.status \in Statuses
      /\ worker[r].row.status \notin Book!Pending
  BY <1>2, <1>3 DEF OwnsRow, HostOf, Statuses, Book!Settled, Book!Pending
<1> QED
  BY <1>3, <1>4, <1>5, <1>6, <1>8, <1>9, StepRow

(* Decisions about a request and the operations on its VM *)
LEMMA StepOperate ==
  ASSUME IInv, TypeOK', NEW r \in Ids,
         \/ Reject(r) \/ OperateVM(r) \/ Annotate(r)
         \/ RequestResize(r) \/ ApproveResize(r) \/ RejectResize(r)
  PROVE  IInv'
<1>1. PICK status \in Statuses \ Book!Pending : table' = [table EXCEPT ![r] = Logged(@, status)]
  BY DEF Reject, OperateVM, Annotate, RequestResize, ApproveResize, RejectResize, Statuses, Book!Pending
<1>2. lock = None /\ UNCHANGED <<worker, lock, erase, domain>>
  BY DEF Reject, OperateVM, Annotate, RequestResize, ApproveResize, RejectResize
<1>3. table[r].status \in {"awaiting_approval", "completed", "resize_awaiting_approval"}
  BY DEF Reject, OperateVM, Annotate, RequestResize, ApproveResize, RejectResize
<1>4. InTable(r) /\ ~Busy(r)
  BY <1>2, <1>3, WorkflowAssumption DEF InTable, Statuses, IInv, WorkersOwnRows, OwnsRow
<1>5. table' = [table EXCEPT ![r] = Logged(table[r], status)]
  BY <1>1
<1>6. Logged(table[r], status).host = table[r].host /\ Logged(table[r], status).status = status
  BY DEF Logged
<1>7. ~Busy(r)' /\ \A s \in Ids \ {r} : worker'[s] = worker[s]
  BY <1>2, <1>4 DEF Busy
<1> QED
  BY <1>1, <1>2, <1>4, <1>5, <1>6, <1>7, FreeLock, StepRow

(* The ticket is checked against a fresh plan: a failed request is only       *)
(* cleaned up while it has its hostname to itself, and a deletion that has no *)
(* domain to undefine found none.                                             *)
LEMMA StepBeginDelete ==
  ASSUME IInv, TypeOK', NEW t \in tickets, BeginDelete(t)
  PROVE  IInv'
<1> DEFINE r == t.id
           h == table[r].host
<1>1. r \in Ids
  BY DEF IInv, TypeOK, Ticket
<1>2. /\ lock = None /\ lock' = r
      /\ erase' = [id |-> r, domain |-> t.plan.domain, files |-> t.plan.files]
      /\ UNCHANGED <<table, worker, loaded, domain>>
  BY DEF BeginDelete
<1>3. table[r].status \in Book!Settled
  BY DEF BeginDelete, CanPlan, Book!Settled
<1>4. ~t.plan.domain => domain[h] = None
  <2>1. t.plan = PlanOf(r)
    BY DEF BeginDelete
  <2>2. PlanOf(r).domain = (domain[h] # None)
    BY DEF PlanOf
  <2> QED
    BY <2>1, <2>2
<1>5. table[r].status = "failed" => domain[h] = None /\ \A s \in Ids \ {r} : table[s].host # h
  BY DEF BeginDelete, CanPlan
<1> HIDE DEF r, h
<1>6. erase'.id = r /\ erase'.domain = t.plan.domain
  BY <1>2
<1>7. RowsWellFormed' /\ ExclusiveNames' /\ NoOrphanVM'
  BY <1>2 DEF IInv, RowsWellFormed, ExclusiveNames, NoOrphanVM, InTable
<1>8. WorkersOwnRows'
  <2> SUFFICES ASSUME NEW s \in Ids, Busy(s) PROVE OwnsRow(s)'
    BY <1>2 DEF WorkersOwnRows, Busy
  <2>1. OwnsRow(s) /\ s # r
    BY <1>3, WorkerPending DEF IInv, WorkersOwnRows, Book!Pending, Book!Settled
  <2> QED
    BY <1>2, <2>1, WorkflowAssumption DEF OwnsRow, HostOf
<1>9. LockHolders'
  BY <1>1, <1>2, <1>3, <1>6, WorkflowAssumption DEF LockHolders
<1>10. ErasedDomainGone'
  BY <1>2, <1>4, <1>6 DEF ErasedDomainGone, h
<1>11. CleanupAlone'
  <2> SUFFICES ASSUME table[r].status = "failed"
               PROVE  /\ domain[h] = None
                      /\ \A s \in Ids \ {r} : table[s].host # h /\ (Busy(s) => HostOf(s) # h)
    BY <1>2, <1>6 DEF CleanupAlone, InTable, Busy, HostOf, h
  <2> QED
    BY <1>5, WorkerPending
<1> QED
  BY <1>7, <1>8, <1>9, <1>10, <1>11 DEF IInv

LEMMA StepDelete ==
  ASSUME IInv, TypeOK', NEW r \in Ids, DeleteStep(r)
  PROVE  IInv'
<1>1. erase.id = r /\ lock = r /\ table[r].status \in Book!Settled /\ UNCHANGED <<worker, loaded>>
  <2>1. erase.id = r /\ UNCHANGED <<worker, loaded>>
    BY DEF DeleteStep, EraseDomain, EraseFile, EraseRow, DeleteFails
  <2> QED
    BY <2>1, WorkflowAssumption DEF IInv, LockHolders
<1>2. InTable(r) /\ table[r].host \in Names
  BY <1>1 DEF InTable, Statuses, Book!Settled, IInv, RowsWellFormed
<1>3. \A s \in Ids : Busy(s) => OwnsRow(s) /\ s # r
  BY <1>1, WorkerPending DEF IInv, WorkersOwnRows
<1>4. CASE EraseDomain(r)
  <2>1. /\ UNCHANGED <<table, worker, lock, loaded>> /\ erase'.id = r
        /\ domain' = [domain EXCEPT ![table[r].host] = None]
    BY <1>4 DEF EraseDomain, IInv, TypeOK
  <2>2. domain'[table[r].host] = None /\ \A h \in Names : domain'[h] = domain[h] \/ domain'[h] = None
    BY <1>2, <2>1 DEF IInv, TypeOK
  <2>3. RowsWellFormed' /\ ExclusiveNames' /\ WorkersOwnRows' /\ NoOrphanVM'
    BY <2>1, <2>2 DEF IInv, RowsWellFormed, ExclusiveNames, WorkersOwnRows, NoOrphanVM,
                      OwnsRow, Busy, HostOf, InTable
  <2>4. LockHolders'
    BY <1>1, <2>1, WorkflowAssumption DEF LockHolders
  <2>5. ErasedDomainGone'
    BY <2>1, <2>2 DEF ErasedDomainGone
  <2>6. CleanupAlone'
    BY <1>1, <2>1, <2>2 DEF IInv, CleanupAlone, InTable, Busy, HostOf
  <2> QED
    BY <2>3, <2>4, <2>5, <2>6 DEF IInv
<1>5. CASE \E k \in FileKinds : EraseFile(r, k)
  <2>1. /\ UNCHANGED <<table, worker, lock, loaded, domain>>
        /\ erase'.id = erase.id /\ erase'.domain = erase.domain
    BY <1>5 DEF EraseFile, IInv, TypeOK
  <2> QED
    BY <2>1 DEF IInv, RowsWellFormed, WorkersOwnRows, LockHolders, ErasedDomainGone,
                ExclusiveNames, CleanupAlone, NoOrphanVM, OwnsRow, Busy, HostOf, InTable
<1>6. CASE EraseRow(r)
  <2>1. /\ lock' = None /\ erase'.id = None /\ domain' = domain /\ ~erase.domain
        /\ table' = [table EXCEPT ![r] = Erased]
    BY <1>6 DEF EraseRow, NoErase
  <2>2. table'[r] = Erased /\ \A s \in Ids \ {r} : table'[s] = table[s]
    BY <2>1 DEF IInv, TypeOK
  <2>3. ~InTable(r)' /\ \A s \in Ids \ {r} : InTable(s)' <=> InTable(s)
    BY <2>2 DEF InTable, Statuses, Erased
  <2>4. RowsWellFormed'
    BY <2>2, <2>3 DEF IInv, RowsWellFormed
  <2>5. WorkersOwnRows'
    BY <1>1, <1>3, <2>1, <2>2, WorkflowAssumption DEF WorkersOwnRows, OwnsRow, Busy, HostOf
  <2>6. ExclusiveNames'
    BY <2>2 DEF IInv, ExclusiveNames, Erased, Book!Pending
  <2>7. NoOrphanVM'
    <3> SUFFICES ASSUME NEW h \in Names, domain[h] # None
                 PROVE  \E s \in Ids \ {r} : InTable(s) /\ table[s].host = h
      BY <2>1, <2>2, <2>3 DEF NoOrphanVM
    <3>1. PICK s \in Ids : InTable(s) /\ table[s].host = h
      BY DEF IInv, NoOrphanVM
    <3>2. CASE s = r
      BY <1>1, <2>1, <3>1, <3>2, WorkflowAssumption DEF IInv, ErasedDomainGone
    <3> QED
      BY <3>1, <3>2
  <2>8. LockHolders' /\ ErasedDomainGone' /\ CleanupAlone'
    BY <2>1 DEF LockHolders, ErasedDomainGone, CleanupAlone
  <2> QED
    BY <2>4, <2>5, <2>6, <2>7, <2>8 DEF IInv
<1>7. CASE DeleteFails(r)
  <2>1. lock' = None /\ erase'.id = None /\ UNCHANGED <<table, domain>>
    BY <1>7 DEF DeleteFails, NoErase
  <2>2. RowsWellFormed' /\ ExclusiveNames' /\ NoOrphanVM'
    BY <2>1 DEF IInv, RowsWellFormed, ExclusiveNames, NoOrphanVM, InTable
  <2>3. WorkersOwnRows'
    BY <1>1, <1>3, <2>1, WorkflowAssumption DEF WorkersOwnRows, OwnsRow, Busy, HostOf
  <2>4. LockHolders' /\ ErasedDomainGone' /\ CleanupAlone'
    BY <2>1 DEF LockHolders, ErasedDomainGone, CleanupAlone
  <2> QED
    BY <2>2, <2>3, <2>4 DEF IInv
<1> QED
  BY <1>4, <1>5, <1>6, <1>7 DEF DeleteStep

(* A restart forgets every handler and every provision() call. *)
LEMMA StepCrash ==
  ASSUME IInv, TypeOK', Crash
  PROVE  IInv'
<1>1. /\ lock' = None /\ erase'.id = None /\ UNCHANGED <<table, domain>>
      /\ \A r \in Ids : ~Busy(r)'
  BY DEF Crash, NoErase, Busy, Idle
<1>2. RowsWellFormed' /\ WorkersOwnRows' /\ ExclusiveNames' /\ NoOrphanVM'
  BY <1>1 DEF IInv, RowsWellFormed, WorkersOwnRows, ExclusiveNames, NoOrphanVM, InTable
<1>3. LockHolders' /\ ErasedDomainGone' /\ CleanupAlone'
  BY <1>1 DEF LockHolders, ErasedDomainGone, CleanupAlone
<1> QED
  BY <1>2, <1>3 DEF IInv

LEMMA InvStep == IInv /\ [Next]_vars => IInv'
<1> SUFFICES ASSUME IInv, [Next]_vars PROVE IInv'
  OBVIOUS
<1>1. TypeOK'
  BY TypeStep DEF IInv
<1>2. CASE \E r \in Ids, h \in Names, a \in BOOLEAN : Submit(r, h, a)
  BY <1>1, <1>2, StepSubmit
<1>3. ASSUME NEW r \in Ids, Approve(r) PROVE IInv'
  BY <1>1, <1>3, StepApprove
<1>4. ASSUME NEW r \in Ids, Reject(r) \/ OperateVM(r) \/ Annotate(r)
                              \/ RequestResize(r) \/ ApproveResize(r) \/ RejectResize(r)
      PROVE IInv'
  BY <1>1, <1>4, StepOperate
<1>5. ASSUME NEW r \in Ids, ProvisionStep(r) PROVE IInv'
  BY <1>1, <1>5, StepProvision
<1>6. ASSUME NEW r \in Ids, SaveOwn(r) \/ SaveAll(r) PROVE IInv'
  BY <1>1, <1>6, StepSave
<1>7. ASSUME NEW r \in Ids, DeleteStep(r) PROVE IInv'
  BY <1>1, <1>7, StepDelete
<1>8. ASSUME NEW t \in tickets, BeginDelete(t) PROVE IInv'
  BY <1>1, <1>8, StepBeginDelete
<1>9. CASE Crash
  BY <1>1, <1>9, StepCrash
<1>10. ASSUME \/ \E r \in Ids : IssueTicket(r)
              \/ \E t \in tickets : RefuseDelete(t)
              \/ ToggleLibvirt
              \/ \E h \in Names : RemoveOutside(h)
              \/ UNCHANGED vars
       PROVE IInv'
  <2>1. /\ UNCHANGED <<table, worker, lock, loaded, erase>>
        /\ \A h \in Names : domain'[h] = domain[h] \/ domain'[h] = None
    BY <1>10 DEF IssueTicket, RefuseDelete, ToggleLibvirt, RemoveOutside, vars, IInv, TypeOK
  <2> QED
    BY <1>1, <2>1, StepOutside
<1> QED
  BY <1>2, <1>3, <1>4, <1>5, <1>6, <1>7, <1>8, <1>9, <1>10 DEF Next

LEMMA Inductive == Spec => []IInv
<1> QED
  BY InvInit, InvStep, PTL DEF Spec

-----------------------------------------------------------------------------
(* What the workflow guarantees, under every fault *)

(* Two requests that are undecided or being provisioned never share a hostname. *)
THEOREM NamesExclusive == Spec => []ExclusiveNames
<1>1. IInv => ExclusiveNames
  BY DEF IInv
<1> QED
  BY <1>1, Inductive, PTL

(* The cleanup of a failed request never removes what another request uses. *)
THEOREM CleanupSafe == Spec => []CleanupAlone
<1>1. IInv => CleanupAlone
  BY DEF IInv
<1> QED
  BY <1>1, Inductive, PTL

(* Every VM the portal created has a request of its hostname in the table. *)
THEOREM VMsTracked == Spec => []NoOrphanVM
<1>1. IInv => NoOrphanVM
  BY DEF IInv
<1> QED
  BY <1>1, Inductive, PTL

-----------------------------------------------------------------------------
(* The refinement: the table behaves like RequestBook *)

LEMMA BookInit == Init => Book!Init
BY DEF Init, Book!Init, EmptyTable, Blank, Book!Blank

(* A step that changes one row changes the book at that row only. *)
LEMMA RowStep ==
  ASSUME TypeOK, NEW r \in Ids, NEW row, table' = [table EXCEPT ![r] = row]
  PROVE  table'[r] = row /\ table' = [table EXCEPT ![r] = table'[r]]
BY DEF TypeOK

LEMMA BookStep == IInv /\ [Next]_vars => [Book!Next]_table
<1> SUFFICES ASSUME IInv, [Next]_vars, table' # table PROVE \E r \in Ids : Book!Step(r)
  BY DEF Book!Next
<1> USE DEF Book!Step, Book!Move, Book!Pending, Book!Settled
<1>1. ASSUME NEW r \in Ids, NEW h \in Names, NEW a \in BOOLEAN, Submit(r, h, a) PROVE Book!Step(r)
  <2> DEFINE row == [host |-> h, events |-> 1,
                     status |-> IF a THEN "awaiting_approval" ELSE "provisioning"]
  <2>1. row.host = h /\ row.status \in Book!Pending /\ row.events = 1
    OBVIOUS
  <2>2. table' = [table EXCEPT ![r] = row]
    BY <1>1 DEF Submit
  <2> HIDE DEF row
  <2>3. table'[r] = row /\ table' = [table EXCEPT ![r] = table'[r]]
    BY <2>2, RowStep DEF IInv
  <2>4. h \in Names \ Book!Reserved
    BY <1>1 DEF Submit, Blocks, Book!Reserved
  <2>5. table[r].status = "unborn"
    BY <1>1 DEF Submit
  <2>6. Book!Enter(r)
    BY <2>1, <2>3, <2>4, <2>5 DEF Book!Enter
  <2> QED
    BY <2>3, <2>6
<1>2. ASSUME NEW r \in Ids, SaveOwn(r) \/ SaveAll(r) PROVE Book!Step(r)
  <2>1. worker[r].stage = "save" /\ Busy(r)
    BY <1>2 DEF SaveOwn, SaveAll, Busy
  <2>2. OwnsRow(r)
    BY <2>1 DEF IInv, WorkersOwnRows
  <2>3. table' = [table EXCEPT ![r] = worker[r].row]
    <3>1. CASE SaveOwn(r)
      BY <3>1 DEF SaveOwn
    <3>2. CASE SaveAll(r)
      <4>1. erase.id = None /\ loaded = table
        BY <2>1, <3>2, WorkerPending, WorkflowAssumption DEF SaveAll, IInv, LockHolders
      <4> QED
        BY <3>2, <4>1 DEF SaveAll
    <3> QED
      BY <1>2, <3>1, <3>2
  <2>4. table'[r] = worker[r].row /\ table' = [table EXCEPT ![r] = table'[r]]
    BY <2>3, RowStep DEF IInv
  <2>5. Book!Settle(r)
    BY <2>1, <2>2, <2>4 DEF Book!Settle, OwnsRow, HostOf
  <2> QED
    BY <2>4, <2>5
<1>3. ASSUME NEW r \in Ids, NEW status, table' = [table EXCEPT ![r] = Logged(@, status)]
      PROVE  /\ table' = [table EXCEPT ![r] = table'[r]]
             /\ table'[r].host = table[r].host /\ table'[r].status = status
             /\ table'[r].events > table[r].events
  <2>1. table'[r] = Logged(table[r], status) /\ table' = [table EXCEPT ![r] = table'[r]]
    BY <1>3, RowStep DEF IInv
  <2>2. table[r].events \in Nat
    BY DEF IInv, TypeOK, Row
  <2> QED
    BY <2>1, <2>2 DEF Logged
<1>4. ASSUME NEW r \in Ids, Reject(r) PROVE Book!Step(r)
  BY <1>3, <1>4 DEF Reject, Book!Reject
<1>5. ASSUME NEW r \in Ids, OperateVM(r) \/ RequestResize(r) PROVE Book!Step(r)
  BY <1>3, <1>5 DEF OperateVM, RequestResize, Book!Operate
<1>6. ASSUME NEW r \in Ids, ApproveResize(r) \/ RejectResize(r) PROVE Book!Step(r)
  BY <1>3, <1>6 DEF ApproveResize, RejectResize, Book!DecideResize
<1>7. ASSUME NEW r \in Ids, Annotate(r) PROVE Book!Step(r)
  BY <1>3, <1>7 DEF Annotate, Book!Annotate
<1>8. ASSUME NEW r \in Ids, EraseRow(r) PROVE Book!Step(r)
  <2>1. table' = [table EXCEPT ![r] = Erased] /\ erase.id = r
    BY <1>8 DEF EraseRow
  <2>2. table'[r] = Erased /\ table' = [table EXCEPT ![r] = table'[r]]
    BY <2>1, RowStep DEF IInv
  <2>3. table[r].status \in Book!Settled
    BY <2>1, WorkflowAssumption DEF IInv, LockHolders
  <2>4. Book!Remove(r)
    BY <2>2, <2>3 DEF Book!Remove, Book!Erased, Erased
  <2> QED
    BY <2>2, <2>4
<1>9. ~UNCHANGED vars /\ ~Crash /\ ~ToggleLibvirt
  BY DEF vars, Crash, ToggleLibvirt
<1>10. \A r \in Ids : /\ ~Approve(r) /\ ~ProvisionStep(r) /\ ~IssueTicket(r)
                      /\ DeleteStep(r) => EraseRow(r)
  BY DEF Approve, ProvisionStep, Preflight, CheckExisting, CreateDisk, CreateSeed, Define,
         Start, Verify, Complete, ProvisionFails, IssueTicket, DeleteStep, EraseDomain,
         EraseFile, DeleteFails
<1>11. /\ \A t \in tickets : ~BeginDelete(t) /\ ~RefuseDelete(t)
       /\ \A h \in Names : ~RemoveOutside(h)
  BY DEF BeginDelete, RefuseDelete, RemoveOutside
<1> QED
  BY <1>1, <1>2, <1>4, <1>5, <1>6, <1>8, <1>9, <1>10, <1>11, <1>7 DEF Next

(* No handler writes back a row it read before another handler changed it: *)
(* the table is a RequestBook, although provisioning saves a copy of its   *)
(* row after having run without LOCK.                                      *)
THEOREM TableIsBook == Spec => ImplementsBook
<1> QED
  BY BookInit, BookStep, Inductive, PTL DEF Spec, ImplementsBook, Book!Spec
-----------------------------------------------------------------------------
(* Without faults: what each request's VM and each provision() call can rely on *)

VMStatuses == {"completed", "resize_awaiting_approval"}
Built(r) ==
  \/ worker[r].stage \in {"verify", "finish"}
  \/ worker[r].stage = "save" /\ worker[r].row.status = "completed"
HasFiles(h) == \A k \in FileKinds : files[h][k] # None

(* A domain carries the name of the request that defined it, which has been *)
(* decided or is past its "virsh define".                                   *)
OwnersKnown ==
  \A h \in Names : domain[h] # None =>
    /\ table[domain[h]].host = h
    /\ \/ table[domain[h]].status \in VMStatuses \cup {"failed"}
       \/ worker[domain[h]].stage \in {"start", "verify", "finish", "save"}

(* The name of a finished VM is nobody else's to provision, and the VM is whole *)
(* unless it is the one being deleted.                                         *)
VMsUsable ==
  \A r \in Ids : table[r].status \in VMStatuses =>
    /\ \A s \in Ids : table[s].status \in Book!Pending => table[s].host # table[r].host
    /\ erase.id # r => domain[table[r].host] = r /\ HasFiles(table[r].host)

(* Before "define" the name is free, after it the domain is this request's.   *)
WorkFits ==
  \A r \in Ids :
    /\ worker[r].stage \in {"check", "disk", "seed", "define"} => domain[HostOf(r)] = None
    /\ worker[r].stage = "start" \/ Built(r) => domain[HostOf(r)] = r
    /\ Built(r) => HasFiles(HostOf(r))
    /\ worker[r].stage = "save" => worker[r].row.status \in {"completed", "failed"}

(* A deletion still finds everything its plan lists.                          *)
ErasureExact ==
  erase.id # None =>
    /\ table[erase.id].status \in {"completed", "failed"}
    /\ domain[table[erase.id].host] = IF erase.domain THEN erase.id ELSE None
    /\ \A k \in erase.files : files[table[erase.id].host][k] # None

Tended == faults = {} => virsh /\ OwnersKnown /\ VMsUsable /\ WorkFits /\ ErasureExact

LEMMA TendedInit == Init => Tended
<1> SUFFICES ASSUME Init PROVE Tended
  OBVIOUS
<1>1. \A r \in Ids : table[r].status = "unborn" /\ worker[r].stage = "idle"
  BY DEF Init, EmptyTable, Blank, Idle
<1>2. virsh /\ erase.id = None /\ \A h \in Names : domain[h] = None
  BY DEF Init, NoErase
<1> QED
  BY <1>1, <1>2 DEF Tended, OwnersKnown, VMsUsable, WorkFits, ErasureExact, VMStatuses, Built

(* A step that is none of libvirt's, of the storage's or of the deletion's, and *)
(* concerns one request r at most: enough to say what becomes of r.             *)
LEMMA TendedRow ==
  ASSUME IInv, Tended, faults = {}, NEW r \in Ids,
         UNCHANGED <<erase, domain, files, virsh, faults>>,
         \A s \in Ids \ {r} : table'[s] = table[s] /\ worker'[s] = worker[s],
         erase.id # r,
         \A h \in Names : domain[h] = r =>
           /\ table'[r].host = h
           /\ \/ table'[r].status \in VMStatuses \cup {"failed"}
              \/ worker'[r].stage \in {"start", "verify", "finish", "save"},
         table'[r].status \in VMStatuses =>
           /\ \A s \in Ids \ {r} : table[s].status \in Book!Pending => table[s].host # table'[r].host
           /\ domain[table'[r].host] = r /\ HasFiles(table'[r].host),
         table'[r].status \in Book!Pending =>
           \A s \in Ids \ {r} : table[s].status \in VMStatuses => table[s].host # table'[r].host,
         worker'[r].stage \in {"check", "disk", "seed", "define"} => domain[HostOf(r)'] = None,
         worker'[r].stage = "start" \/ Built(r)' => domain[HostOf(r)'] = r,
         Built(r)' => HasFiles(HostOf(r)'),
         worker'[r].stage = "save" => worker'[r].row.status \in {"completed", "failed"}
  PROVE  Tended'
<1>1. virsh /\ OwnersKnown /\ VMsUsable /\ WorkFits /\ ErasureExact
  BY DEF Tended
<1>2. \A h : HasFiles(h)' <=> HasFiles(h)
  BY DEF HasFiles
<1>3. OwnersKnown'
  BY <1>1 DEF OwnersKnown, IInv, TypeOK
<1>4. VMsUsable'
  BY <1>1, <1>2 DEF VMsUsable, HasFiles, VMStatuses, Book!Pending
<1>5. WorkFits'
  BY <1>1 DEF WorkFits, Built, HostOf, HasFiles
<1>6. ErasureExact'
  BY <1>1 DEF ErasureExact, IInv, TypeOK
<1> QED
  BY <1>1, <1>3, <1>4, <1>5, <1>6 DEF Tended

LEMMA TendedSubmit ==
  ASSUME IInv, IInv', Tended, faults = {},
         NEW r \in Ids, NEW h \in Names, NEW a \in BOOLEAN, Submit(r, h, a)
  PROVE  Tended'
<1>1. virsh /\ OwnersKnown /\ VMsUsable
  BY DEF Tended
<1>2. erase.id = None /\ UNCHANGED <<erase, domain, files, virsh, faults>>
  BY FreeLock DEF Submit
<1>3. \A s \in Ids \ {r} : table'[s] = table[s] /\ worker'[s] = worker[s]
  BY DEF Submit, IInv, TypeOK
<1>4. table[r].status = "unborn" /\ domain[h] = None
  BY <1>1 DEF Submit, SeesDomain
<1>5. worker[r].stage = "idle"
  BY <1>4, WorkerPending DEF Busy, InTable, Statuses
<1>6. worker'[r].stage \in {"idle", "preflight"}
  <2> DEFINE row == [host |-> h, status |-> "provisioning", events |-> 1]
  <2>1. worker' = worker \/ worker' = [worker EXCEPT ![r] = [stage |-> "preflight", row |-> row]]
    BY DEF Submit
  <2> HIDE DEF row
  <2> QED
    BY <1>5, <2>1 DEF IInv, TypeOK
<1>7. table'[r].host = h /\ table'[r].status \in Book!Pending
  <2> DEFINE status == IF a THEN "awaiting_approval" ELSE "provisioning"
  <2>1. status \in Book!Pending
    BY DEF Book!Pending
  <2>2. table' = [table EXCEPT ![r] = [host |-> h, status |-> status, events |-> 1]]
    BY DEF Submit
  <2> HIDE DEF status
  <2>3. table'[r] = [host |-> h, status |-> status, events |-> 1]
    BY <2>2 DEF IInv, TypeOK
  <2> QED
    BY <2>1, <2>3
<1>8. \A g \in Names : domain[g] # r
  BY <1>1, <1>4, <1>5, WorkflowAssumption DEF OwnersKnown, VMStatuses
<1>9. \A s \in Ids : table[s].status \in VMStatuses => table[s].host # h
  BY <1>1, <1>2, <1>4, WorkflowAssumption DEF VMsUsable
<1>10. erase.id # r /\ table'[r].status \notin VMStatuses
  BY <1>2, <1>7, WorkflowAssumption DEF VMStatuses, Book!Pending
<1> QED
  BY <1>2, <1>3, <1>6, <1>7, <1>8, <1>9, <1>10, TendedRow DEF Built

LEMMA TendedApprove ==
  ASSUME IInv, IInv', Tended, faults = {}, NEW r \in Ids, Approve(r)
  PROVE  Tended'
<1>1. OwnersKnown /\ VMsUsable
  BY DEF Tended
<1>2. lock = None /\ erase.id = None /\ UNCHANGED <<table, erase, domain, files, virsh, faults>>
  BY FreeLock DEF Approve
<1>3. table[r].status = "awaiting_approval"
  BY DEF Approve
<1>4. worker[r].stage = "idle"
  BY <1>2, <1>3, WorkflowAssumption DEF IInv, WorkersOwnRows, OwnsRow, Busy
<1>5. \A s \in Ids \ {r} : worker'[s] = worker[s]
  BY DEF Approve, IInv, TypeOK
<1>6. worker'[r].stage = "preflight"
  <2> DEFINE row == [table[r] EXCEPT !.status = "provisioning"]
  <2>1. worker' = [worker EXCEPT ![r] = [stage |-> "preflight", row |-> row]]
    BY DEF Approve
  <2> HIDE DEF row
  <2> QED
    BY <2>1 DEF IInv, TypeOK
<1>7. \A g \in Names : domain[g] # r
  BY <1>1, <1>3, <1>4, WorkflowAssumption DEF OwnersKnown, VMStatuses
<1>8. \A s \in Ids : table[s].status \in VMStatuses => table[s].host # table[r].host
  BY <1>1, <1>3 DEF VMsUsable, Book!Pending
<1>9. erase.id # r /\ table[r].status \notin VMStatuses
  BY <1>2, <1>3, WorkflowAssumption DEF VMStatuses
<1> QED
  BY <1>2, <1>5, <1>6, <1>7, <1>8, <1>9, TendedRow DEF Built

LEMMA TendedOperate ==
  ASSUME IInv, IInv', Tended, faults = {}, NEW r \in Ids,
         \/ Reject(r) \/ OperateVM(r) \/ Annotate(r)
         \/ RequestResize(r) \/ ApproveResize(r) \/ RejectResize(r)
  PROVE  Tended'
<1>1. PICK status \in VMStatuses \cup {"rejected"} :
        /\ table' = [table EXCEPT ![r] = Logged(@, status)]
        /\ status \in VMStatuses <=> table[r].status \in VMStatuses
  BY DEF Reject, OperateVM, Annotate, RequestResize, ApproveResize, RejectResize, VMStatuses
<1>2. lock = None /\ UNCHANGED <<worker, erase, domain, files, virsh, faults>>
  BY DEF Reject, OperateVM, Annotate, RequestResize, ApproveResize, RejectResize
<1>3. table[r].status \in VMStatuses \cup {"awaiting_approval"}
  BY DEF Reject, OperateVM, Annotate, RequestResize, ApproveResize, RejectResize, VMStatuses
<1>4. erase.id # r
  BY <1>2, FreeLock, WorkflowAssumption
<1>5. worker[r].stage = "idle"
  BY <1>2, <1>3, WorkflowAssumption DEF IInv, WorkersOwnRows, OwnsRow, Busy, VMStatuses
<1>6. table'[r].host = table[r].host /\ table'[r].status = status
  BY <1>1 DEF IInv, TypeOK, Logged
<1>7. \A s \in Ids \ {r} : table'[s] = table[s]
  BY <1>1 DEF IInv, TypeOK
<1>8. \A g \in Names : domain[g] = r => table[r].host = g /\ table[r].status \in VMStatuses
  BY <1>3, <1>5, WorkflowAssumption DEF Tended, OwnersKnown, VMStatuses
<1>9. status \in VMStatuses =>
        /\ \A s \in Ids : table[s].status \in Book!Pending => table[s].host # table[r].host
        /\ domain[table[r].host] = r /\ HasFiles(table[r].host)
  BY <1>1, <1>4 DEF Tended, VMsUsable
<1>10. status \notin Book!Pending
  BY DEF VMStatuses, Book!Pending
<1> QED
  BY <1>1, <1>2, <1>4, <1>5, <1>6, <1>7, <1>8, <1>9, <1>10, TendedRow DEF Built

LEMMA TendedSave ==
  ASSUME IInv, IInv', Tended, faults = {}, NEW r \in Ids, SaveOwn(r) \/ SaveAll(r)
  PROVE  Tended'
<1>1. OwnersKnown /\ VMsUsable /\ WorkFits
  BY DEF Tended
<1>2. worker[r].stage = "save" /\ UNCHANGED <<erase, domain, files, virsh, faults>>
  BY DEF SaveOwn, SaveAll
<1>3. /\ table[r].status \in Book!Pending /\ table[r].host \in Names
      /\ HostOf(r) = table[r].host /\ erase.id # r
  BY <1>2, WorkerPending DEF Busy
<1>4. table' = [table EXCEPT ![r] = worker[r].row]
  <2>1. CASE SaveOwn(r)
    BY <2>1 DEF SaveOwn
  <2>2. CASE SaveAll(r)
    BY <1>3, <2>2, WorkflowAssumption DEF SaveAll, IInv, LockHolders
  <2> QED
    BY <2>1, <2>2
<1>5. table'[r] = worker[r].row /\ \A s \in Ids \ {r} : table'[s] = table[s] /\ worker'[s] = worker[s]
  BY <1>4 DEF SaveOwn, SaveAll, IInv, TypeOK
<1>6. worker'[r].stage = "idle"
  BY DEF SaveOwn, SaveAll, IInv, TypeOK, Idle
<1>7. table'[r].host = table[r].host /\ table'[r].status \in {"completed", "failed"}
  BY <1>1, <1>2, <1>3, <1>5 DEF WorkFits, HostOf
<1>8. \A g \in Names : domain[g] = r => table[r].host = g
  BY <1>1, WorkflowAssumption DEF OwnersKnown
<1>9. \A s \in Ids \ {r} : table[s].status \in Book!Pending => table[s].host # table[r].host
  BY <1>3 DEF IInv, ExclusiveNames
<1>10. table'[r].status = "completed" => domain[table[r].host] = r /\ HasFiles(table[r].host)
  BY <1>1, <1>2, <1>3, <1>5 DEF WorkFits, Built
<1>11. table'[r].status \notin Book!Pending /\ (table'[r].status \in VMStatuses => table'[r].status = "completed")
  BY <1>7 DEF VMStatuses, Book!Pending
<1> QED
  BY <1>2, <1>3, <1>5, <1>6, <1>7, <1>8, <1>9, <1>10, <1>11, TendedRow DEF Built, VMStatuses

(* The steps of provision(): only Define touches libvirt, and by then the name *)
(* is still free; only the two images touch the storage, and they never remove *)
(* a file.                                                                     *)
LEMMA TendedProvision ==
  ASSUME IInv, IInv', Tended, faults = {}, NEW r \in Ids, ProvisionStep(r)
  PROVE  Tended'
<1>1. virsh /\ OwnersKnown /\ VMsUsable /\ WorkFits /\ ErasureExact
  BY DEF Tended
<1>2. UNCHANGED <<table, lock, erase, virsh, faults>>
  BY DEF ProvisionStep, Preflight, CheckExisting, CreateDisk, CreateSeed, Define, Start,
         Verify, Complete, ProvisionFails
<1>3. Busy(r)
  BY DEF ProvisionStep, Preflight, CheckExisting, CreateDisk, CreateSeed, Define, Start,
         Verify, Complete, ProvisionFails, Advance, PlaybookStages, Busy
<1>4. /\ table[r].status \in Book!Pending /\ table[r].host \in Names
      /\ HostOf(r) = table[r].host /\ erase.id # r
  BY <1>3, WorkerPending
<1> DEFINE h == table[r].host
<1>5. \A s \in Ids : table[s].status \in VMStatuses => table[s].host # h
  BY <1>1, <1>4 DEF VMsUsable
<1>6. table[r].status \notin VMStatuses \cup {"failed"}
  BY <1>4 DEF VMStatuses, Book!Pending
<1>7. \A g \in Names : domain[g] = r =>
        g = h /\ worker[r].stage \in {"start", "verify", "finish", "save"}
  BY <1>1, <1>6, WorkflowAssumption DEF OwnersKnown
<1>8. \A s \in Ids \ {r} : Busy(s) => HostOf(s) # h
  BY <1>4, WorkerPending DEF IInv, ExclusiveNames
<1> HIDE DEF h
<1>9. ASSUME NEW from, NEW to, Advance(r, from, to)
      PROVE  /\ worker[r].stage = from /\ worker'[r].stage = to
             /\ worker'[r].row = worker[r].row
             /\ \A s \in Ids \ {r} : worker'[s] = worker[s]
  BY <1>9 DEF Advance, IInv, TypeOK
<1>10. ASSUME NEW status, EndsAs(r, status)
       PROVE  /\ worker'[r].stage = "save" /\ worker'[r].row.status = status
              /\ worker'[r].row.host = h
              /\ \A s \in Ids \ {r} : worker'[s] = worker[s]
  <2>1. worker' = [worker EXCEPT ![r] = [stage |-> "save", row |-> Logged(worker[r].row, status)]]
    BY <1>10 DEF EndsAs
  <2>2. Logged(worker[r].row, status).status = status /\ Logged(worker[r].row, status).host = h
    BY <1>4 DEF Logged, HostOf, h
  <2> QED
    BY <2>1, <2>2 DEF IInv, TypeOK
<1>11. ASSUME UNCHANGED <<domain, files>>,
              \A s \in Ids \ {r} : worker'[s] = worker[s],
              worker'[r].row.host = h,
              \A g \in Names : domain[g] = r => worker'[r].stage \in {"start", "verify", "finish", "save"},
              worker'[r].stage \in {"check", "disk", "seed", "define"} => domain[h] = None,
              worker'[r].stage = "start" \/ Built(r)' => domain[h] = r,
              Built(r)' => HasFiles(h),
              worker'[r].stage = "save" => worker'[r].row.status \in {"completed", "failed"}
       PROVE  Tended'
  <2>1. HostOf(r)' = h
    BY <1>11 DEF HostOf
  <2>2. table[r].host = h /\ table[r].status \notin VMStatuses
    BY <1>6 DEF h
  <2> QED
    BY <1>2, <1>4, <1>5, <1>7, <1>11, <2>1, <2>2, TendedRow
<1>12. worker[r].row.host = h /\ HostOf(r) = h /\ h \in Names
  BY <1>4 DEF HostOf, h
<1>13. CASE Preflight(r)
  BY <1>1, <1>7, <1>9, <1>11, <1>12, <1>13, WorkflowAssumption DEF Preflight, SeesDomain, Built
<1>14. CASE CheckExisting(r)
  <2>1. worker[r].stage = "check"
    BY <1>14 DEF CheckExisting, Advance
  <2>2. domain[h] = None
    BY <1>1, <1>12, <2>1 DEF WorkFits
  <2>3. Advance(r, "check", "disk") /\ UNCHANGED <<domain, files>>
    BY <1>12, <1>14, <2>2 DEF CheckExisting, SeesDomain
  <2> QED
    BY <1>7, <1>9, <1>11, <1>12, <2>2, <2>3, WorkflowAssumption DEF Built
<1>15. ASSUME NEW k \in FileKinds, NEW from \in {"disk", "seed"}, NEW to \in {"seed", "define"},
              Advance(r, from, to), UNCHANGED domain,
              Store(h, k, IF files[h][k] = None THEN r ELSE files[h][k])
       PROVE  Tended'
  <2>1. files \in [Names -> [FileKinds -> Ids \cup {None}]]
    BY DEF IInv, TypeOK
  <2>2. \A g \in Names, j \in FileKinds : files[g][j] # None => files'[g][j] # None
    BY <1>15, <2>1, <1>12 DEF Store
  <2>3. \A g \in Names : HasFiles(g) => HasFiles(g)'
    BY <2>2 DEF HasFiles
  <2>4. domain[h] = None
    BY <1>1, <1>9, <1>12, <1>15 DEF WorkFits
  <2>5. \A s \in Ids \ {r} : worker'[s] = worker[s]
    BY <1>9, <1>15
  <2>6. OwnersKnown'
    <3>1. worker[r].stage = from /\ domain' = domain /\ table' = table
      BY <1>2, <1>9, <1>15
    <3>2. domain \in [Names -> Ids \cup {None}]
      BY DEF IInv, TypeOK
    <3>3. ASSUME NEW g \in Names, domain[g] # None
          PROVE  /\ table[domain[g]].host = g
                 /\ \/ table[domain[g]].status \in VMStatuses \cup {"failed"}
                    \/ worker'[domain[g]].stage \in {"start", "verify", "finish", "save"}
      <4>1. domain[g] \in Ids \ {r}
        BY <1>7, <1>15, <3>1, <3>2, <3>3
      <4>2. worker'[domain[g]] = worker[domain[g]]
        BY <2>5, <4>1
      <4> QED
        BY <1>1, <3>3, <4>2 DEF OwnersKnown
    <3> QED
      BY <3>1, <3>3 DEF OwnersKnown
  <2>7. VMsUsable'
    <3>1. \A s \in Ids : table[s].status \in VMStatuses => table[s].host \in Names
      BY DEF IInv, RowsWellFormed, InTable, Statuses, VMStatuses
    <3> QED
      BY <1>1, <1>2, <1>15, <2>3, <3>1 DEF VMsUsable
  <2>8. WorkFits'
    <3> SUFFICES ASSUME NEW s \in Ids PROVE
          /\ worker'[s].stage \in {"check", "disk", "seed", "define"} => domain[HostOf(s)]' = None
          /\ worker'[s].stage = "start" \/ Built(s)' => domain[HostOf(s)]' = s
          /\ Built(s)' => HasFiles(HostOf(s))'
          /\ worker'[s].stage = "save" => worker'[s].row.status \in {"completed", "failed"}
      BY DEF WorkFits, HasFiles
    <3>1. CASE s = r
      <4>1. worker'[r].stage = to /\ HostOf(r)' = h
        BY <1>9, <1>12, <1>15 DEF HostOf
      <4> QED
        BY <1>15, <2>4, <3>1, <4>1 DEF Built
    <3>2. CASE s # r
      <4>1. worker'[s] = worker[s] /\ HostOf(s)' = HostOf(s) /\ (Built(s)' <=> Built(s))
        BY <2>5, <3>2 DEF HostOf, Built
      <4>2. PICK g : g = HostOf(s)
        OBVIOUS
      <4>3. HostOf(s)' = g
        BY <4>1, <4>2
      <4>4. Built(s) => g \in Names /\ HasFiles(g)
        BY <1>1, <4>2, WorkerPending DEF WorkFits, Built, Busy
      <4>5. Built(s) => HasFiles(g)'
        BY <2>3, <4>4
      <4>6. Built(s)' => HasFiles(HostOf(s))'
        BY <4>1, <4>3, <4>5 DEF HasFiles
      <4> QED
        BY <1>1, <1>15, <4>1, <4>6 DEF WorkFits
    <3> QED
      BY <3>1, <3>2
  <2>9. ErasureExact'
    <3>1. erase.id # None => table[erase.id].host \in Names
      BY <1>1 DEF ErasureExact, IInv, TypeOK, RowsWellFormed, InTable, Statuses
    <3>2. erase.files \subseteq FileKinds
      BY DEF IInv, TypeOK
    <3> QED
      BY <1>1, <1>2, <1>15, <2>2, <3>1, <3>2 DEF ErasureExact
  <2> QED
    BY <1>1, <1>2, <2>6, <2>7, <2>8, <2>9 DEF Tended
<1>16. CASE CreateDisk(r)
  BY <1>12, <1>15, <1>16 DEF CreateDisk
<1>17. CASE CreateSeed(r)
  BY <1>12, <1>15, <1>17 DEF CreateSeed
<1>18. CASE Define(r)
  <2>1. /\ worker'[r].stage = "start" /\ worker[r].stage = "define"
        /\ worker'[r].row = worker[r].row
        /\ \A s \in Ids \ {r} : worker'[s] = worker[s]
    BY <1>9, <1>18 DEF Define
  <2>2. /\ domain' = [domain EXCEPT ![h] = r] /\ domain[h] = None /\ files' = files
    BY <1>12, <1>18 DEF Define
  <2>3. domain'[h] = r /\ \A g \in Names \ {h} : domain'[g] = domain[g]
    BY <1>12, <2>2 DEF IInv, TypeOK
  <2>4. OwnersKnown'
    <3>1. \A s \in Ids : worker[s].stage \in {"start", "verify", "finish", "save"} =>
                         worker'[s].stage \in {"start", "verify", "finish", "save"}
      BY <2>1
    <3>2. table[r].host = h
      BY DEF h
    <3> QED
      BY <1>1, <1>2, <2>1, <2>3, <3>1, <3>2 DEF OwnersKnown, IInv, TypeOK
  <2>5. VMsUsable'
    <3>1. \A s \in Ids : table[s].status \in VMStatuses => table[s].host \in Names \ {h}
      BY <1>5 DEF IInv, RowsWellFormed, InTable, Statuses, VMStatuses
    <3> QED
      BY <1>1, <1>2, <2>2, <2>3, <3>1 DEF VMsUsable, HasFiles
  <2>6. WorkFits'
    <3> SUFFICES ASSUME NEW s \in Ids PROVE
          /\ worker'[s].stage \in {"check", "disk", "seed", "define"} => domain[HostOf(s)]' = None
          /\ worker'[s].stage = "start" \/ Built(s)' => domain[HostOf(s)]' = s
          /\ Built(s)' => HasFiles(HostOf(s))'
          /\ worker'[s].stage = "save" => worker'[s].row.status \in {"completed", "failed"}
      BY <2>2 DEF WorkFits, HasFiles
    <3>1. CASE s = r
      <4>1. HostOf(r)' = h
        BY <1>12, <2>1 DEF HostOf
      <4> QED
        BY <2>1, <2>3, <3>1, <4>1 DEF Built
    <3>2. CASE s # r
      <4>1. worker'[s] = worker[s] /\ HostOf(s)' = HostOf(s) /\ (Built(s)' <=> Built(s))
        BY <2>1, <3>2 DEF HostOf, Built
      <4>2. Busy(s) => HostOf(s) \in Names \ {h}
        BY <1>8, <3>2, WorkerPending
      <4>3. Busy(s) => domain'[HostOf(s)] = domain[HostOf(s)]
        BY <2>3, <4>2
      <4>4. Busy(s) => domain[HostOf(s)]' = domain[HostOf(s)]
        BY <4>1, <4>3
      <4>5. HasFiles(HostOf(s)) => HasFiles(HostOf(s))'
        BY <2>2, <4>1 DEF HasFiles
      <4> QED
        BY <1>1, <4>1, <4>4, <4>5 DEF WorkFits, Busy, Built
    <3> QED
      BY <3>1, <3>2
  <2>7. ErasureExact'
    <3> SUFFICES ASSUME erase.id # None PROVE table[erase.id].host \in Names \ {h}
      BY <1>1, <1>2, <2>2, <2>3 DEF ErasureExact
    <3>1. erase.id \in Ids /\ table[erase.id].status \in {"completed", "failed"}
      BY <1>1 DEF ErasureExact, IInv, TypeOK
    <3>2. table[erase.id].host \in Names
      BY <3>1 DEF IInv, RowsWellFormed, InTable, Statuses
    <3>3. CASE table[erase.id].status = "completed"
      BY <1>5, <3>1, <3>2, <3>3 DEF VMStatuses
    <3>4. CASE table[erase.id].status = "failed"
      BY <1>3, <1>4, <1>12, <3>1, <3>2, <3>4 DEF IInv, CleanupAlone
    <3> QED
      BY <3>1, <3>3, <3>4
  <2> QED
    BY <1>1, <1>2, <2>4, <2>5, <2>6, <2>7 DEF Tended
<1>19. CASE Start(r)
  <2>1. worker[r].stage = "start" /\ HasFiles(h)
    BY <1>12, <1>19 DEF Start, Advance, HasFiles
  <2>2. domain[h] = r
    BY <1>1, <1>12, <2>1 DEF WorkFits
  <2> QED
    BY <1>9, <1>11, <1>12, <1>19, <2>1, <2>2 DEF Start, Built
<1>20. CASE Verify(r)
  <2>1. worker[r].stage = "verify"
    BY <1>20 DEF Verify, Advance
  <2>2. domain[h] = r /\ HasFiles(h)
    BY <1>1, <1>12, <2>1 DEF WorkFits, Built
  <2> QED
    BY <1>9, <1>11, <1>12, <1>20, <2>2 DEF Verify, Built
<1>21. CASE Complete(r)
  <2>1. domain[h] = r /\ HasFiles(h)
    BY <1>1, <1>12, <1>21 DEF Complete, WorkFits, Built
  <2> QED
    BY <1>10, <1>11, <1>21, <2>1 DEF Complete, Built
<1>22. CASE ProvisionFails(r)
  BY <1>10, <1>11, <1>22 DEF ProvisionFails, Built
<1> QED
  BY <1>13, <1>14, <1>16, <1>17, <1>18, <1>19, <1>20, <1>21, <1>22 DEF ProvisionStep

(* What a step that moves no provision() call keeps of it. *)
LEMMA WorkKept ==
  ASSUME WorkFits, UNCHANGED worker,
         \A s \in Ids : Busy(s) => domain'[HostOf(s)] = domain[HostOf(s)],
         \A s \in Ids, k \in FileKinds : Built(s) => files'[HostOf(s)][k] = files[HostOf(s)][k]
  PROVE  WorkFits'
<1> SUFFICES ASSUME NEW s \in Ids PROVE
      /\ worker'[s].stage \in {"check", "disk", "seed", "define"} => domain[HostOf(s)]' = None
      /\ worker'[s].stage = "start" \/ Built(s)' => domain[HostOf(s)]' = s
      /\ Built(s)' => HasFiles(HostOf(s))'
      /\ worker'[s].stage = "save" => worker'[s].row.status \in {"completed", "failed"}
  BY DEF WorkFits
<1>1. worker'[s] = worker[s] /\ HostOf(s)' = HostOf(s) /\ (Built(s)' <=> Built(s))
  BY DEF HostOf, Built
<1>2. Built(s) => HasFiles(HostOf(s))'
  BY <1>1 DEF WorkFits, HasFiles
<1>3. Busy(s) => domain[HostOf(s)]' = domain[HostOf(s)]
  BY <1>1
<1> QED
  BY <1>1, <1>2, <1>3 DEF WorkFits, Busy, Built

LEMMA TendedBeginDelete ==
  ASSUME IInv, IInv', Tended, faults = {}, NEW t \in tickets, BeginDelete(t)
  PROVE  Tended'
<1>1. virsh /\ OwnersKnown /\ VMsUsable /\ WorkFits /\ ErasureExact
  BY DEF Tended
<1>2. PICK r \in Ids : r = t.id
  BY DEF IInv, TypeOK, Ticket
<1>3. erase.id = None /\ UNCHANGED <<table, worker, domain, files, virsh, faults>>
  BY FreeLock DEF BeginDelete
<1>4. /\ erase'.id = r /\ erase'.domain = PlanOf(r).domain /\ erase'.files = PlanOf(r).files
  BY <1>2 DEF BeginDelete
<1>5. /\ erase'.domain = (domain[table[r].host] # None)
      /\ \A k \in erase'.files : files[table[r].host][k] # None
  BY <1>4 DEF PlanOf
<1>6. /\ table[r].status \in {"completed", "failed"}
      /\ table[r].status = "failed" => domain[table[r].host] = None
  BY <1>2 DEF BeginDelete, CanPlan
<1>7. table[r].status = "completed" => domain[table[r].host] = r
  BY <1>1, <1>3, WorkflowAssumption DEF VMsUsable, VMStatuses
<1>8. ErasureExact'
  BY <1>3, <1>4, <1>5, <1>6, <1>7, WorkflowAssumption DEF ErasureExact
<1>9. OwnersKnown'
  BY <1>1, <1>3 DEF OwnersKnown
<1>10. VMsUsable'
  BY <1>1, <1>3, WorkflowAssumption DEF VMsUsable, HasFiles
<1>11. WorkFits'
  BY <1>1, <1>3, WorkKept
<1> QED
  BY <1>1, <1>3, <1>8, <1>9, <1>10, <1>11 DEF Tended

(* A deletion takes away nothing that another request relies on, and without *)
(* faults none of its commands fails.                                        *)
LEMMA TendedDelete ==
  ASSUME IInv, IInv', Tended, faults = {}, NEW r \in Ids, DeleteStep(r)
  PROVE  Tended'
<1>1. virsh /\ OwnersKnown /\ VMsUsable /\ WorkFits /\ ErasureExact
  BY DEF Tended
<1>2. erase.id = r /\ r # None /\ UNCHANGED <<worker, virsh, faults>>
  BY WorkflowAssumption DEF DeleteStep, EraseDomain, EraseFile, EraseRow, DeleteFails
<1>3. PICK h : h = table[r].host
  OBVIOUS
<1>4. /\ table[r].status \in {"completed", "failed"}
      /\ domain[h] = IF erase.domain THEN r ELSE None
      /\ \A k \in erase.files : files[h][k] # None
  BY <1>1, <1>2, <1>3 DEF ErasureExact
<1>5. h \in Names
  BY <1>3, <1>4 DEF IInv, RowsWellFormed, InTable, Statuses
<1>6. \A s \in Ids : Busy(s) => HostOf(s) # h
  <2> SUFFICES ASSUME NEW s \in Ids, Busy(s) PROVE HostOf(s) # h
    OBVIOUS
  <2>1. /\ table[s].status \in Book!Pending /\ InTable(s) /\ HostOf(s) = table[s].host
        /\ s # r
    BY <1>2, WorkerPending
  <2>2. CASE table[r].status = "completed"
    BY <1>1, <1>3, <2>1, <2>2 DEF VMsUsable, VMStatuses
  <2>3. CASE table[r].status = "failed"
    BY <1>2, <1>3, <2>1, <2>3 DEF IInv, CleanupAlone
  <2> QED
    BY <1>4, <2>2, <2>3
<1>7. \A s \in Ids \ {r} : table[s].status \in VMStatuses => table[s].host # h \/ domain[h] = s
  BY <1>1, <1>2 DEF VMsUsable
<1>8. \A s \in Ids \ {r} : table[s].status \in VMStatuses => table[s].host \in Names \ {h}
  BY <1>2, <1>4, <1>7, WorkflowAssumption DEF IInv, RowsWellFormed, InTable, Statuses, VMStatuses
<1>9. CASE EraseDomain(r)
  <2>1. /\ domain' = [domain EXCEPT ![h] = None] /\ erase' = [erase EXCEPT !.domain = FALSE]
        /\ UNCHANGED <<table, files>>
    BY <1>3, <1>9 DEF EraseDomain
  <2>2. domain'[h] = None /\ \A g \in Names \ {h} : domain'[g] = domain[g]
    BY <1>5, <2>1 DEF IInv, TypeOK
  <2>3. erase'.id = r /\ ~erase'.domain /\ erase'.files = erase.files
    BY <1>2, <2>1 DEF IInv, TypeOK
  <2>4. OwnersKnown'
    BY <1>1, <1>2, <2>1, <2>2 DEF OwnersKnown
  <2>5. VMsUsable'
    BY <1>1, <1>2, <1>8, <2>1, <2>2, <2>3 DEF VMsUsable, HasFiles
  <2>6. WorkFits'
    BY <1>1, <1>2, <1>6, <2>1, <2>2, WorkerPending, WorkKept
  <2>7. ErasureExact'
    BY <1>3, <1>4, <2>1, <2>2, <2>3 DEF ErasureExact
  <2> QED
    BY <1>1, <1>2, <2>4, <2>5, <2>6, <2>7 DEF Tended
<1>10. CASE \E k \in FileKinds : EraseFile(r, k)
  <2>1. PICK k \in FileKinds :
          /\ ~erase.domain /\ files' = [files EXCEPT ![h][k] = None]
          /\ erase' = [erase EXCEPT !.files = @ \ {k}] /\ UNCHANGED <<table, domain>>
    BY <1>3, <1>10 DEF EraseFile, Store
  <2>2. /\ \A g \in Names \ {h} : files'[g] = files[g]
        /\ \A j \in FileKinds \ {k} : files'[h][j] = files[h][j]
    BY <1>5, <2>1 DEF IInv, TypeOK
  <2>3. erase'.id = r /\ erase'.domain = erase.domain /\ erase'.files = erase.files \ {k}
    BY <1>2, <2>1 DEF IInv, TypeOK
  <2>4. OwnersKnown'
    BY <1>1, <1>2, <2>1 DEF OwnersKnown
  <2>5. VMsUsable'
    BY <1>1, <1>2, <1>8, <2>1, <2>2, <2>3 DEF VMsUsable, HasFiles
  <2>6. WorkFits'
    <3>1. \A s \in Ids : Built(s) => HostOf(s) \in Names \ {h}
      BY <1>6, WorkerPending DEF Built, Busy
    <3> QED
      BY <1>1, <1>2, <2>1, <2>2, <3>1, WorkKept
  <2>7. ErasureExact'
    <3>1. erase.files \subseteq FileKinds
      BY DEF IInv, TypeOK
    <3> QED
      BY <1>3, <1>4, <2>1, <2>2, <2>3, <3>1 DEF ErasureExact
  <2> QED
    BY <1>1, <1>2, <2>4, <2>5, <2>6, <2>7 DEF Tended
<1>11. CASE EraseRow(r)
  <2>1. /\ ~erase.domain /\ erase'.id = None /\ UNCHANGED <<domain, files>>
        /\ table' = [table EXCEPT ![r] = Erased]
    BY <1>11 DEF EraseRow, NoErase
  <2>2. table'[r].status = "deleted" /\ \A s \in Ids \ {r} : table'[s] = table[s]
    BY <2>1 DEF IInv, TypeOK, Erased
  <2>3. \A g \in Names : domain[g] # None => domain[g] \in Ids \ {r}
    <3>1. \A g \in Names : domain[g] = r => g = h
      BY <1>1, <1>2, <1>3 DEF OwnersKnown
    <3> QED
      BY <1>2, <1>4, <2>1, <3>1 DEF IInv, TypeOK
  <2>4. OwnersKnown'
    BY <1>1, <1>2, <2>1, <2>2, <2>3 DEF OwnersKnown
  <2>5. VMsUsable'
    BY <1>1, <1>2, <2>1, <2>2 DEF VMsUsable, HasFiles, VMStatuses, Book!Pending
  <2>6. WorkFits'
    BY <1>1, <1>2, <2>1, WorkKept
  <2>7. ErasureExact'
    BY <2>1 DEF ErasureExact
  <2> QED
    BY <1>1, <1>2, <2>4, <2>5, <2>6, <2>7 DEF Tended
<1>12. ~DeleteFails(r)
  BY <1>1, <1>2, <1>3, <1>4 DEF DeleteFails, SeesDomain
<1> QED
  BY <1>9, <1>10, <1>11, <1>12 DEF DeleteStep

LEMMA TendedStep == IInv /\ IInv' /\ Tended /\ [Next]_vars => Tended'
<1> SUFFICES ASSUME IInv, IInv', Tended, [Next]_vars, faults' = {} PROVE Tended'
  BY DEF Tended
<1>1. faults = {}
  BY DEF Next, vars, Submit, Approve, Reject, ProvisionStep, Preflight, CheckExisting, CreateDisk,
         CreateSeed, Define, Start, Verify, Complete, ProvisionFails, SaveOwn, SaveAll, OperateVM,
         Annotate, RequestResize, ApproveResize, RejectResize, IssueTicket, DeleteStep, EraseDomain,
         EraseFile, EraseRow, DeleteFails, BeginDelete, RefuseDelete, Crash, ToggleLibvirt, RemoveOutside
<1>2. ~Crash /\ ~ToggleLibvirt /\ \A h \in Names : ~RemoveOutside(h)
  BY <1>1 DEF Crash, ToggleLibvirt, RemoveOutside
<1>3. CASE \E r \in Ids, h \in Names, a \in BOOLEAN : Submit(r, h, a)
  BY <1>1, <1>3, TendedSubmit
<1>4. ASSUME NEW r \in Ids, Approve(r) PROVE Tended'
  BY <1>1, <1>4, TendedApprove
<1>5. ASSUME NEW r \in Ids, Reject(r) \/ OperateVM(r) \/ Annotate(r)
                              \/ RequestResize(r) \/ ApproveResize(r) \/ RejectResize(r)
      PROVE Tended'
  BY <1>1, <1>5, TendedOperate
<1>6. ASSUME NEW r \in Ids, ProvisionStep(r) PROVE Tended'
  BY <1>1, <1>6, TendedProvision
<1>7. ASSUME NEW r \in Ids, SaveOwn(r) \/ SaveAll(r) PROVE Tended'
  BY <1>1, <1>7, TendedSave
<1>8. ASSUME NEW r \in Ids, DeleteStep(r) PROVE Tended'
  BY <1>1, <1>8, TendedDelete
<1>9. ASSUME NEW t \in tickets, BeginDelete(t) PROVE Tended'
  BY <1>1, <1>9, TendedBeginDelete
<1>10. ASSUME \/ \E r \in Ids : IssueTicket(r)
              \/ \E t \in tickets : RefuseDelete(t)
              \/ UNCHANGED vars
       PROVE Tended'
  <2>1. UNCHANGED <<table, worker, erase, domain, files, virsh, faults>>
    BY <1>10 DEF IssueTicket, RefuseDelete, vars
  <2>2. WorkFits => WorkFits'
    BY <2>1, WorkKept
  <2> QED
    BY <2>1, <2>2 DEF Tended, OwnersKnown, VMsUsable, ErasureExact, HasFiles
<1> QED
  BY <1>2, <1>3, <1>4, <1>5, <1>6, <1>7, <1>8, <1>9, <1>10 DEF Next

(* Without faults a completed request names the VM its own provisioning made,  *)
(* with its files in place, whatever other requests, decisions and deletions   *)
(* were interleaved with it; and a VM belongs to a request that was allowed to *)
(* be provisioned.                                                             *)
THEOREM VMsOwned == Spec => []OwnVM
<1>1. IInv /\ Tended => OwnVM
  <2> SUFFICES ASSUME IInv, Tended, faults = {} PROVE OwnVM
    BY DEF OwnVM
  <2>1. OwnersKnown /\ VMsUsable
    BY DEF Tended
  <2>2. ASSUME NEW h \in Names, domain[h] # None
        PROVE  \/ table[domain[h]].status \in Statuses \ {"awaiting_approval", "rejected"}
               \/ lock = domain[h]
    <3>1. domain[h] \in Ids
      BY <2>2 DEF IInv, TypeOK
    <3>2. CASE Busy(domain[h])
      BY <3>1, <3>2 DEF IInv, WorkersOwnRows, OwnsRow, Statuses
    <3>3. CASE ~Busy(domain[h])
      BY <2>1, <2>2, <3>3 DEF OwnersKnown, Busy, Statuses, VMStatuses
    <3> QED
      BY <3>2, <3>3
  <2> QED
    BY <2>1, <2>2 DEF OwnVM, VMsUsable, VMStatuses, HasFiles
<1>2. Init => IInv /\ Tended
  BY InvInit, TendedInit
<1>3. IInv /\ Tended /\ [Next]_vars => (IInv /\ Tended)'
  BY InvStep, TendedStep
<1> QED
  BY <1>1, <1>2, <1>3, PTL DEF Spec
=============================================================================
