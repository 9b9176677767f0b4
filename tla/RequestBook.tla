----------------------------- MODULE RequestBook -----------------------------
(***************************************************************************)
(* What the request table promises its readers, with no word about locks,  *)
(* threads, Ansible or libvirt.  A request is entered once, its name is    *)
(* reserved while it is undecided or being provisioned, it is settled      *)
(* exactly once, and every later change of it only adds to its history.    *)
(* RequestWorkflow implements this book.                                   *)
(***************************************************************************)
EXTENDS Naturals

CONSTANTS Ids,      \* request identifiers (uuid4 prefixes, never reused)
          Names,    \* hostnames
          None      \* "no hostname"

VARIABLE book       \* [Ids -> [host, status, events]]

Pending == {"awaiting_approval", "provisioning"}
Settled == {"completed", "failed"}

Blank == [host |-> None, status |-> "unborn", events |-> 0]
Erased == [host |-> None, status |-> "deleted", events |-> 0]

(* The names reserved by undecided or running requests. *)
Reserved == {book[r].host : r \in {s \in Ids : book[s].status \in Pending}}

Init == book = [r \in Ids |-> Blank]

(* A new request takes a name nobody else is waiting for. *)
Enter(r) ==
  /\ book[r].status = "unborn"
  /\ book'[r].host \in Names \ Reserved
  /\ book'[r].status \in Pending
  /\ book'[r].events > 0

(* An entry changes status; its host stays and its history grows. *)
Move(r, from, to) ==
  /\ book[r].status \in from
  /\ book'[r].status \in to
  /\ book'[r].host = book[r].host
  /\ book'[r].events > book[r].events

Settle(r) == Move(r, Pending, Settled)
Reject(r) == Move(r, {"awaiting_approval"}, {"rejected"})
Operate(r) == Move(r, {"completed"}, {"completed", "resize_awaiting_approval"})
DecideResize(r) == Move(r, {"resize_awaiting_approval"}, {"completed"})
Annotate(r) == \E status \in {"completed", "resize_awaiting_approval"} : Move(r, {status}, {status})

(* Only a settled request can leave the book, and it never comes back. *)
Remove(r) ==
  /\ book[r].status \in Settled
  /\ book'[r] = Erased

Step(r) ==
  /\ Enter(r) \/ Settle(r) \/ Reject(r) \/ Operate(r) \/ DecideResize(r) \/ Annotate(r) \/ Remove(r)
  /\ book' = [book EXCEPT ![r] = book'[r]]

Next == \E r \in Ids : Step(r)

Spec == Init /\ [][Next]_book
=============================================================================
