--------------------------- MODULE RequestWorkflow ---------------------------
(***************************************************************************)
(* The request workflow of portal/app.py for the local_qemu backend:       *)
(* submit, approve, reject, provision, operate, delete.                    *)
(*                                                                         *)
(* Every handler runs under one global LOCK except the provisioning of a   *)
(* request that needs no approval, which runs after the handler released   *)
(* it and takes it again only for its last save.  Handlers that keep the   *)
(* lock across slow commands (approve, delete) are split into the steps    *)
(* the unlocked provisioning can interleave with; the others are one step. *)
(***************************************************************************)
EXTENDS Naturals, FiniteSets

CONSTANTS Ids,         \* request identifiers; uuid4 prefixes are never reused
          Names,       \* hostnames
          None,        \* absence of an identifier, hostname or owner
          FaultSets,   \* the combinations of environment faults considered
          MaxTickets,  \* bound: deletion confirmations outstanding at once
          MaxEvents    \* bound: history length up to which operators act

FaultKinds == {"crash",    \* the portal process dies and is restarted
               "outage",   \* libvirt stops answering for a while
               "partial",  \* one command of a deletion fails
               "extern"}   \* a VM is removed behind the portal's back

ASSUME WorkflowAssumption ==
  /\ None \notin Ids \cup Names
  /\ FaultSets \subseteq SUBSET FaultKinds
  /\ MaxTickets \in Nat
  /\ MaxEvents \in Nat

VARIABLES
  table,    \* the SQLite requests table, [Ids -> Row]
  worker,   \* provision() calls in flight: their step and their own copy of the row
  lock,     \* request whose handler holds LOCK across steps, or None
  loaded,   \* the rows an approving handler loaded and will write back
  erase,    \* the deletion in progress: its request and what it still removes
  tickets,  \* VM_DELETE_TICKETS
  domain,   \* libvirt: request whose provisioning defined the domain, or None
  files,    \* storage_path: request that wrote each file of a hostname, or None
  virsh,    \* does libvirt answer?
  faults    \* the faults that can occur in this behaviour; never changes

vars == <<table, worker, lock, loaded, erase, tickets, domain, files, virsh, faults>>

-----------------------------------------------------------------------------
(* Rows *)

Statuses == {"awaiting_approval", "provisioning", "completed", "failed",
             "rejected", "resize_awaiting_approval"}

(* "unborn" and "deleted" rows are not in the table; keeping them apart     *)
(* makes identifiers fresh.  events counts the batches of workflow events.  *)
Row == [host: Names \cup {None}, status: Statuses \cup {"unborn", "deleted"}, events: Nat]
Blank == [host |-> None, status |-> "unborn", events |-> 0]
(* Mutant: deletion marks the row with a status nobody knows. *)
ErasedAsRemoved == [host |-> None, status |-> "removed", events |-> 0]
Erased == [host |-> None, status |-> "deleted", events |-> 0]
EmptyTable == [r \in Ids |-> Blank]

InTable(r) == table[r].status \in Statuses
Logged(row, status) == [host |-> row.host, status |-> status, events |-> row.events + 1]

-----------------------------------------------------------------------------
(* What the portal asks of libvirt *)

FileKinds == {"disk", "seed"}

(* local_qemu_domain_exists: an unanswered query counts as "absent". *)
SeesDomain(h) == virsh /\ domain[h] # None

(* Mutant: a request that is being provisioned does not block its hostname. *)
BlocksUnlessProvisioning(r, h) ==
  /\ table[r].host = h
  /\ \/ table[r].status \in {"awaiting_approval", "resize_awaiting_approval"}
     \/ table[r].status = "completed" /\ SeesDomain(h)

(* request_blocks_hostname *)
Blocks(r, h) ==
  /\ table[r].host = h
  /\ \/ table[r].status \in {"awaiting_approval", "resize_awaiting_approval", "provisioning"}
     \/ table[r].status = "completed" /\ SeesDomain(h)

-----------------------------------------------------------------------------
(* Provisioning steps, in the order the playbook and provision() take them *)

PlaybookStages == {"check", "disk", "seed", "define", "start", "verify"}
Stages == {"idle", "preflight"} \cup PlaybookStages \cup {"finish", "save"}
Idle == [stage |-> "idle", row |-> Blank]
Busy(r) == worker[r].stage # "idle"
HostOf(r) == worker[r].row.host

NoErase == [id |-> None, domain |-> FALSE, files |-> {}]
Plan == [domain: BOOLEAN, files: SUBSET FileKinds, events: Nat]
Ticket == [id: Ids, plan: Plan]

(* Rows, workers, tickets and files keep the values the code gives them.     *)
TypeOK ==
  /\ table \in [Ids -> Row]
  /\ worker \in [Ids -> [stage: Stages, row: Row]]
  /\ lock \in Ids \cup {None}
  /\ loaded \in [Ids -> Row]
  /\ erase \in [id: Ids \cup {None}, domain: BOOLEAN, files: SUBSET FileKinds]
  /\ tickets \subseteq Ticket
  /\ domain \in [Names -> Ids \cup {None}]
  /\ files \in [Names -> [FileKinds -> Ids \cup {None}]]
  /\ virsh \in BOOLEAN
  /\ faults \in FaultSets

Init ==
  /\ table = EmptyTable
  /\ worker = [r \in Ids |-> Idle]
  /\ lock = None
  /\ loaded = EmptyTable
  /\ erase = NoErase
  /\ tickets = {}
  /\ domain = [h \in Names |-> None]
  /\ files = [h \in Names |-> [k \in FileKinds |-> None]]
  /\ virsh = TRUE
  /\ faults \in FaultSets

-----------------------------------------------------------------------------
(* POST /api/requests *)

(* Duplicate check, preflight and the first save, all under LOCK.  A request *)
(* that needs no approval is provisioned next, without LOCK.                 *)
Submit(r, h, needsApproval) ==
  /\ lock = None
  /\ table[r].status = "unborn"
  /\ \A s \in Ids : ~Blocks(s, h)
  /\ ~SeesDomain(h)
  /\ LET status == IF needsApproval THEN "awaiting_approval" ELSE "provisioning"
         row == [host |-> h, status |-> status, events |-> 1]
     IN  /\ table' = [table EXCEPT ![r] = row]
         /\ worker' = IF needsApproval THEN worker
                      ELSE [worker EXCEPT ![r] = [stage |-> "preflight", row |-> row]]
  /\ UNCHANGED <<lock, loaded, erase, tickets, domain, files, virsh, faults>>

(* POST .../approve of a new request: provision() runs inside the handler,   *)
(* which keeps LOCK and the rows it loaded until the final save.             *)
Approve(r) ==
  /\ lock = None
  /\ table[r].status = "awaiting_approval"
  /\ lock' = r
  /\ loaded' = table
  /\ worker' = [worker EXCEPT ![r] =
                  [stage |-> "preflight", row |-> [table[r] EXCEPT !.status = "provisioning"]]]
  /\ UNCHANGED <<table, erase, tickets, domain, files, virsh, faults>>

Reject(r) ==
  /\ lock = None
  /\ table[r].status = "awaiting_approval"
  /\ table' = [table EXCEPT ![r] = Logged(@, "rejected")]
  /\ UNCHANGED <<worker, lock, loaded, erase, tickets, domain, files, virsh, faults>>

-----------------------------------------------------------------------------
(* provision() *)

Advance(r, from, to) ==
  /\ worker[r].stage = from
  /\ worker' = [worker EXCEPT ![r].stage = to]

EndsAs(r, status) ==
  worker' = [worker EXCEPT ![r] = [stage |-> "save", row |-> Logged(@.row, status)]]

Store(h, kind, owner) == files' = [files EXCEPT ![h][kind] = owner]

(* The preflight repeated at the start of provision(). *)
Preflight(r) ==
  /\ Advance(r, "preflight", "check")
  /\ ~SeesDomain(HostOf(r))
  /\ UNCHANGED <<table, lock, loaded, erase, tickets, domain, files, virsh, faults>>

(* dominfo decides whether the whole creation block runs. *)
CheckExisting(r) ==
  /\ Advance(r, "check", IF SeesDomain(HostOf(r)) THEN "verify" ELSE "disk")
  /\ UNCHANGED <<table, lock, loaded, erase, tickets, domain, files, virsh, faults>>

(* qemu-img with "creates:": an existing file is kept. *)
CreateDisk(r) ==
  /\ Advance(r, "disk", "seed")
  /\ Store(HostOf(r), "disk", IF files[HostOf(r)]["disk"] = None THEN r ELSE files[HostOf(r)]["disk"])
  /\ UNCHANGED <<table, lock, loaded, erase, tickets, domain, virsh, faults>>

(* The user data is rewritten for this request, but xorrisofs has "creates:": *)
(* an existing seed image keeps the key it holds.                             *)
CreateSeed(r) ==
  /\ Advance(r, "seed", "define")
  /\ Store(HostOf(r), "seed", IF files[HostOf(r)]["seed"] = None THEN r ELSE files[HostOf(r)]["seed"])
  /\ UNCHANGED <<table, lock, loaded, erase, tickets, domain, virsh, faults>>

(* virsh define refuses a name that is taken by a domain with another UUID. *)
Define(r) ==
  /\ Advance(r, "define", "start")
  /\ virsh /\ domain[HostOf(r)] = None
  /\ domain' = [domain EXCEPT ![HostOf(r)] = r]
  /\ UNCHANGED <<table, lock, loaded, erase, tickets, files, virsh, faults>>

Start(r) ==
  /\ Advance(r, "start", "verify")
  /\ SeesDomain(HostOf(r))
  /\ \A k \in FileKinds : files[HostOf(r)][k] # None
  /\ UNCHANGED <<table, lock, loaded, erase, tickets, domain, files, virsh, faults>>

(* The closing dominfo; Ansible returns 0. *)
Verify(r) ==
  /\ Advance(r, "verify", "finish")
  /\ SeesDomain(HostOf(r))
  /\ UNCHANGED <<table, lock, loaded, erase, tickets, domain, files, virsh, faults>>

(* Lease lookup, NetBox and the final events; none of them fails the request. *)
Complete(r) ==
  /\ worker[r].stage = "finish"
  /\ EndsAs(r, "completed")
  /\ UNCHANGED <<table, lock, loaded, erase, tickets, domain, files, virsh, faults>>

(* A preflight error, a non-zero exit, the 120 s timeout, or a lease lookup   *)
(* that raises.  What the steps before it did stays done.                     *)
ProvisionFails(r) ==
  /\ worker[r].stage \in {"preflight", "finish"} \cup PlaybookStages
  /\ EndsAs(r, "failed")
  /\ UNCHANGED <<table, lock, loaded, erase, tickets, domain, files, virsh, faults>>

(* Mutant: the last save of unlocked provisioning does not take LOCK. *)
SaveOwnUnlocked(r) ==
  /\ worker[r].stage = "save"
  /\ lock # r
  /\ table' = [table EXCEPT ![r] = worker[r].row]
  /\ worker' = [worker EXCEPT ![r] = Idle]
  /\ UNCHANGED <<lock, loaded, erase, tickets, domain, files, virsh, faults>>

(* The unlocked request saves its own row under LOCK. *)
SaveOwn(r) ==
  /\ worker[r].stage = "save"
  /\ lock = None
  /\ table' = [table EXCEPT ![r] = worker[r].row]
  /\ worker' = [worker EXCEPT ![r] = Idle]
  /\ UNCHANGED <<lock, loaded, erase, tickets, domain, files, virsh, faults>>

(* Mutant: the approving handler returns without releasing LOCK. *)
SaveAllKeepingLock(r) ==
  /\ worker[r].stage = "save"
  /\ lock = r
  /\ table' = [loaded EXCEPT ![r] = worker[r].row]
  /\ worker' = [worker EXCEPT ![r] = Idle]
  /\ loaded' = EmptyTable
  /\ UNCHANGED <<lock, erase, tickets, domain, files, virsh, faults>>

(* The approving handler saves every row it loaded, then releases LOCK. *)
SaveAll(r) ==
  /\ worker[r].stage = "save"
  /\ lock = r
  /\ table' = [loaded EXCEPT ![r] = worker[r].row]
  /\ worker' = [worker EXCEPT ![r] = Idle]
  /\ lock' = None
  /\ loaded' = EmptyTable
  /\ UNCHANGED <<erase, tickets, domain, files, virsh, faults>>

-----------------------------------------------------------------------------
(* Operations on a completed VM; what they do to the VM is modelled elsewhere *)

OperateVM(r) ==
  /\ lock = None
  /\ table[r].status = "completed" /\ SeesDomain(table[r].host)
  /\ table[r].events < MaxEvents
  /\ table' = [table EXCEPT ![r] = Logged(@, "completed")]
  /\ UNCHANGED <<worker, lock, loaded, erase, tickets, domain, files, virsh, faults>>

(* The expiration worker, the refresh of the list and a NetBox retry add to a  *)
(* history without asking whether the VM exists. The last two may also rewrite *)
(* the event that is there, which adds nothing and is a stuttering step.       *)
Annotate(r) ==
  /\ lock = None
  /\ table[r].status \in {"completed", "resize_awaiting_approval"}
  /\ table[r].events < MaxEvents
  /\ table' = [table EXCEPT ![r] = Logged(@, table[r].status)]
  /\ UNCHANGED <<worker, lock, loaded, erase, tickets, domain, files, virsh, faults>>

RequestResize(r) ==
  /\ lock = None
  /\ table[r].status = "completed" /\ SeesDomain(table[r].host)
  /\ table[r].events < MaxEvents
  /\ table' = [table EXCEPT ![r] = Logged(@, "resize_awaiting_approval")]
  /\ UNCHANGED <<worker, lock, loaded, erase, tickets, domain, files, virsh, faults>>

(* The domain is not looked for: a resize that fails settles as well. *)
ApproveResize(r) ==
  /\ lock = None
  /\ table[r].status = "resize_awaiting_approval"
  /\ table' = [table EXCEPT ![r] = Logged(@, "completed")]
  /\ UNCHANGED <<worker, lock, loaded, erase, tickets, domain, files, virsh, faults>>

RejectResize(r) ==
  /\ lock = None
  /\ table[r].status = "resize_awaiting_approval"
  /\ table' = [table EXCEPT ![r] = Logged(@, "completed")]
  /\ UNCHANGED <<worker, lock, loaded, erase, tickets, domain, files, virsh, faults>>

-----------------------------------------------------------------------------
(* Deletion *)

(* Mutant: a failed request may be cleaned up while another uses its name. *)
CanPlanShared(r) ==
  /\ table[r].status \in {"completed", "failed"}
  /\ virsh
  /\ table[r].status = "failed" => domain[table[r].host] = None

(* vm_delete_plan: only an answered listing establishes absence, and a failed *)
(* request must have its hostname to itself.                                  *)
CanPlan(r) ==
  LET h == table[r].host IN
  /\ table[r].status \in {"completed", "failed"}
  /\ virsh
  /\ table[r].status = "failed" =>
       /\ domain[h] = None
       /\ \A s \in Ids \ {r} : table[s].host # h

PlanOf(r) ==
  LET h == table[r].host IN
  [domain |-> domain[h] # None,
   files |-> {k \in FileKinds : files[h][k] # None},
   events |-> table[r].events]

(* GET .../delete-plan *)
IssueTicket(r) ==
  /\ lock = None
  /\ CanPlan(r)
  /\ Cardinality(tickets) < MaxTickets
  /\ tickets' = tickets \cup {[id |-> r, plan |-> PlanOf(r)]}
  /\ UNCHANGED <<table, worker, lock, loaded, erase, domain, files, virsh, faults>>

(* DELETE: the ticket is spent; the fresh plan must equal the confirmed one. *)
BeginDelete(t) ==
  /\ lock = None
  /\ tickets' = tickets \ {t}
  /\ CanPlan(t.id) /\ PlanOf(t.id) = t.plan
  /\ lock' = t.id
  /\ erase' = [id |-> t.id, domain |-> t.plan.domain, files |-> t.plan.files]
  /\ UNCHANGED <<table, worker, loaded, domain, files, virsh, faults>>

(* Expired, confirmed by someone else, scope changed, leftovers unconfirmed. *)
RefuseDelete(t) ==
  /\ lock = None
  /\ tickets' = tickets \ {t}
  /\ UNCHANGED <<table, worker, lock, loaded, erase, domain, files, virsh, faults>>

(* virsh destroy and undefine *)
EraseDomain(r) ==
  /\ erase.id = r /\ erase.domain
  /\ SeesDomain(table[r].host)
  /\ domain' = [domain EXCEPT ![table[r].host] = None]
  /\ erase' = [erase EXCEPT !.domain = FALSE]
  /\ UNCHANGED <<table, worker, lock, loaded, tickets, files, virsh, faults>>

EraseFile(r, k) ==
  /\ erase.id = r /\ ~erase.domain /\ k \in erase.files
  /\ files[table[r].host][k] # None
  /\ Store(table[r].host, k, None)
  /\ erase' = [erase EXCEPT !.files = @ \ {k}]
  /\ UNCHANGED <<table, worker, lock, loaded, tickets, domain, virsh, faults>>

(* Mutant: the row is deleted before the domain is undefined. *)
EraseRowFirst(r) ==
  /\ erase.id = r
  /\ table' = [table EXCEPT ![r] = Erased]
  /\ erase' = NoErase
  /\ lock' = None
  /\ UNCHANGED <<worker, loaded, tickets, domain, files, virsh, faults>>

EraseRow(r) ==
  /\ erase.id = r /\ ~erase.domain /\ erase.files = {}
  /\ table' = [table EXCEPT ![r] = Erased]
  /\ erase' = NoErase
  /\ lock' = None
  /\ UNCHANGED <<worker, loaded, tickets, domain, files, virsh, faults>>

(* A command of the deletion fails; the rest is not attempted.  It is an      *)
(* injected fault, or it follows from libvirt not answering or from a target  *)
(* that has gone meanwhile.                                                   *)
DeleteFails(r) ==
  /\ erase.id = r
  /\ \/ "partial" \in faults
     \/ erase.domain /\ ~SeesDomain(table[r].host)
     \/ ~erase.domain /\ \E k \in erase.files : files[table[r].host][k] = None
  /\ erase' = NoErase
  /\ lock' = None
  /\ UNCHANGED <<table, worker, loaded, tickets, domain, files, virsh, faults>>

-----------------------------------------------------------------------------
(* Environment *)

(* The process dies: handlers, tickets and provisioning calls are gone; the   *)
(* database, libvirt and the storage directory stay.  Nothing at start-up     *)
(* looks at unfinished rows.                                                  *)
Crash ==
  /\ "crash" \in faults
  /\ worker' = [r \in Ids |-> Idle]
  /\ lock' = None
  /\ loaded' = EmptyTable
  /\ erase' = NoErase
  /\ tickets' = {}
  /\ UNCHANGED <<table, domain, files, virsh, faults>>

ToggleLibvirt ==
  /\ "outage" \in faults
  /\ virsh' = ~virsh
  /\ UNCHANGED <<table, worker, lock, loaded, erase, tickets, domain, files, faults>>

(* An administrator undefines a VM with virsh; its files stay. *)
RemoveOutside(h) ==
  /\ "extern" \in faults
  /\ domain[h] # None
  /\ domain' = [domain EXCEPT ![h] = None]
  /\ UNCHANGED <<table, worker, lock, loaded, erase, tickets, files, virsh, faults>>

-----------------------------------------------------------------------------
ProvisionStep(r) ==
  \/ Preflight(r) \/ CheckExisting(r)
  \/ CreateDisk(r) \/ CreateSeed(r)
  \/ Define(r) \/ Start(r) \/ Verify(r)
  \/ Complete(r) \/ ProvisionFails(r)

DeleteStep(r) ==
  \/ EraseDomain(r)
  \/ \E k \in FileKinds : EraseFile(r, k)
  \/ EraseRow(r) \/ DeleteFails(r)

Next ==
  \/ \E r \in Ids, h \in Names, a \in BOOLEAN : Submit(r, h, a)
  \/ \E r \in Ids :
       \/ Approve(r) \/ Reject(r)
       \/ ProvisionStep(r) \/ SaveOwn(r) \/ SaveAll(r)
       \/ OperateVM(r) \/ Annotate(r) \/ RequestResize(r) \/ ApproveResize(r) \/ RejectResize(r)
       \/ IssueTicket(r) \/ DeleteStep(r)
  \/ \E t \in tickets : BeginDelete(t) \/ RefuseDelete(t)
  \/ Crash \/ ToggleLibvirt
  \/ \E h \in Names : RemoveOutside(h)

(* A running thread keeps taking steps; waiting for LOCK is strongly fair,    *)
(* because every handler releases it and the waiting thread is woken.         *)
Fairness ==
  \A r \in Ids :
    /\ WF_vars(ProvisionStep(r)) /\ WF_vars(DeleteStep(r))
    /\ WF_vars(SaveAll(r)) /\ SF_vars(SaveOwn(r))

Spec == Init /\ [][Next]_vars
FairSpec == Spec /\ Fairness

-----------------------------------------------------------------------------
(* Properties under every fault *)

Book == INSTANCE RequestBook WITH book <- table

(* The table behaves like RequestBook: no handler writes back a row it read  *)
(* before another handler changed it, so no decision is undone and no event  *)
(* is lost, although provisioning saves after running without LOCK.          *)
ImplementsBook == Book!Spec

(* Two requests that are undecided or being provisioned never share a        *)
(* hostname: the duplicate check and the reservation are one critical        *)
(* section, and a restart does not release a reservation.                    *)
ExclusiveNames ==
  \A r, s \in Ids :
    /\ table[r].status \in Book!Pending
    /\ table[s].status \in Book!Pending
    /\ table[r].host = table[s].host
    => r = s

(* While the leftovers of a failed request are removed, its hostname has no  *)
(* VM, no other request and no provisioning in flight, so the files removed  *)
(* can be nobody else's.                                                     *)
CleanupAlone ==
  LET r == erase.id IN
  r # None /\ table[r].status = "failed" =>
    /\ domain[table[r].host] = None
    /\ \A s \in Ids \ {r} :
         /\ InTable(s) => table[s].host # table[r].host
         /\ Busy(s) => HostOf(s) # table[r].host

(* The portal never loses track of a VM it created: some request with its    *)
(* hostname is in the table for as long as libvirt has the domain.           *)
NoOrphanVM ==
  \A h \in Names : domain[h] # None => \E r \in Ids : InTable(r) /\ table[r].host = h

(* The inductive invariant behind the four properties above *)

RowsWellFormed ==
  \A r \in Ids : IF InTable(r) THEN table[r].host \in Names ELSE table[r] \in {Blank, Erased}

(* A call of provision() works for a row nobody else may write: "provisioning" *)
(* when it runs unlocked, "awaiting_approval" when its handler holds LOCK.     *)
OwnsRow(r) ==
  /\ HostOf(r) = table[r].host
  /\ \/ table[r].status = "provisioning" /\ lock # r
     \/ table[r].status = "awaiting_approval" /\ lock = r
  /\ IF worker[r].stage = "save"
     THEN worker[r].row.status \in Book!Settled /\ worker[r].row.events > table[r].events
     ELSE worker[r].row.events >= table[r].events

WorkersOwnRows == \A r \in Ids : Busy(r) => OwnsRow(r)

(* LOCK is held either by a deletion or by an approval; the rows the approval  *)
(* loaded are still the rows of the table.                                     *)
LockHolders ==
  /\ erase.id # None => lock = erase.id /\ table[erase.id].status \in Book!Settled
  /\ lock # None /\ erase.id = None => Busy(lock) /\ loaded = table

(* Once a deletion has undefined its domain, only another request's VM can     *)
(* have the name.                                                              *)
ErasedDomainGone ==
  LET r == erase.id IN
  r # None /\ ~erase.domain /\ domain[table[r].host] # None =>
    \E s \in Ids \ {r} : InTable(s) /\ table[s].host = table[r].host

IInv ==
  /\ TypeOK
  /\ RowsWellFormed
  /\ WorkersOwnRows
  /\ LockHolders
  /\ ErasedDomainGone
  /\ ExclusiveNames
  /\ CleanupAlone
  /\ NoOrphanVM

(* Properties that need the environment to behave *)

(* Without faults a completed request names the VM its own provisioning      *)
(* created, with its files in place, and a VM belongs to a request whose     *)
(* provisioning was allowed to start.                                        *)
OwnVM ==
  faults = {} =>
    /\ \A r \in Ids :
         table[r].status \in {"completed", "resize_awaiting_approval"} /\ erase.id # r =>
           /\ domain[table[r].host] = r
           /\ \A k \in FileKinds : files[table[r].host][k] # None
    /\ \A h \in Names : domain[h] # None =>
         \/ table[domain[h]].status \in Statuses \ {"awaiting_approval", "rejected"}
         \/ lock = domain[h]

(* Unless the process dies, a request does not stay in provisioning and no   *)
(* handler keeps LOCK for ever.                                              *)
Settles ==
  \A r \in Ids :
    /\ table[r].status = "provisioning" ~> table[r].status # "provisioning"
    /\ lock = r ~> lock # r

(* Claims of the documentation *)

(* "Reserve names for ... completed VMs that still exist": no request is     *)
(* entered for a hostname whose completed VM exists.                         *)
ReservesExistingVMs ==
  [][\A r, s \in Ids :
       table[r].status = "unborn" /\ table'[r].status # "unborn"
         /\ table[s].status = "completed" /\ table[s].host = table'[r].host
       => domain[table[s].host] = None]_vars

(* "Cloud-init installs exactly that key": a domain is defined over a seed   *)
(* image that holds the key of the request being provisioned.                *)
InstallsSelectedKey ==
  [][\A h \in Names :
       domain[h] = None /\ domain'[h] # None => files[h]["seed"] = domain'[h]]_vars
=============================================================================
