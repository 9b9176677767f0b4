# A TLA+ model of VM Foundry

VM Foundry (`src/portal/app.py`) is a self-service portal: users request virtual
machines, an administrator approves what exceeds the limits, Ansible creates the
machines in libvirt, and the portal then starts, stops, snapshots, resizes and
deletes them. Its page (`src/portal/static/app.js`) shows the requests and opens
consoles in a browser client of the SPICE protocol
(`src/portal/static/spice-html5/`). This directory holds TLA+ specifications of
the parts of it that are hard to test, the TLC runs that check them on small
instances, and proofs, for every instance, of the safety properties that the
passing runs check.

Line numbers refer to `src/portal/app.py` unless a file is named.

## 1. Inventory

### The system and how its parts interact

One Python process serves HTTP with a thread per connection. State is kept in a
SQLite table (`requests`, plus `events`), in process memory (sessions, console
and deletion tickets), in libvirt (domains) and in a storage directory (qcow2
images, seed images, saved domain XML). Nearly every handler takes one global
`LOCK`, loads *all* rows, changes one and saves one or all of them. Long commands
(`ansible-playbook`, `virsh`) run inside the handlers, usually while `LOCK` is
held. A second thread wakes every 60 s to expire resize snapshots.

| Component | State | Operations | Talks to |
|---|---|---|---|
| Request workflow | rows: hostname, status, events; `LOCK`; `VM_DELETE_TICKETS` | submit, approve, reject, provision, save, delete-plan, delete | provisioning playbook, libvirt, storage, NetBox, mail |
| Provisioning playbook (`ansible/provision-local-qemu.yml`) | none of its own | create disks, seed image, define, start, verify | libvirt, storage |
| Snapshot chain | `resize_snapshots`, `manual_snapshots`, restores and recovery files of a row; qcow2 chain of each disk; saved XML | create (resize, manual), restore, rollback, expire, clean up, delete | libvirt, storage |
| Resize flow | recorded sizes, `pending_resize`, `last_failed_resize` | request, resize, approve, reject, retry | snapshot chain, resize playbook, NetBox, mail |
| Resize playbook (`ansible/resize-local-qemu.yml`) | none of its own | vCPU, memory, OS disk, data disks, guest file systems | libvirt, guest agent |
| NetBox registration (`netbox_client.py`) | `netbox` of a row; records in NetBox | register, retry, reconcile address | NetBox over HTTP |
| Sessions and passwords | `SESSIONS`, credentials table | login, logout, change password | LDAP |
| Console | `CONSOLE_TICKETS` | ticket, WebSocket proxy | SPICE server of the VM |
| Preflight and validation | none | limits, reserve, free space | storage, libvirt |
| Notifications | none | SMTP, hostmaster mail | SMTP |
| vcsim backend | none | the same workflow on a simulator | Ansible, vcsim |
| Installer, image preparation | `.env`, ISO cache | download, verify, build | Internet, Packer |
| Browser page (`static/app.js`) | list shown, open panels, buttons, console window | load the list, operate, delete, open a console, refresh every 10 s | portal |
| SPICE connection (`spiceconn.js`, `wire.js`, `spicemsg.js`) | socket, read buffers, handshake state, ack window, timer | open, cut messages, answer, acknowledge, report | portal's WebSocket proxy, every channel |
| SPICE main channel and agent (`main.js`, `filexfer.js`, `resize.js`) | tokens, message queue, file transfers, resize timer | connect, send, read files, cancel, resize | guest agent |
| SPICE inputs (`inputs.js`) | modifiers, buttons, unacknowledged motions | key and mouse events, Ctrl-Alt-Del, typed texts | guest |
| SPICE playback (`playback.js`, `webm.js`) | media source, queue, times | start, data, mode, stop | browser's media source |
| SPICE display (`display.js`) | surfaces, image cache, streams, reports | draw, cache, invalidate, stream, report | page, media source |
| Image decoders, cursor, port (`quic.js`, `lz.js`, ...) | none or one value | decode, show | display |

### What is hard, and what makes each part correct

*Request workflow.* A request without approval is provisioned **without** `LOCK`
and saved from a copy that is minutes old; an approving handler writes back
**all** rows it loaded before provisioning; deletion is a sequence of commands
each of which may fail; a restart forgets every thread; a `virsh` that does not
answer looks like a missing domain. Correct means: a hostname is reserved by one
undecided or running request; no save undoes another handler's decision; the
clean-up of one request never removes another's files; every VM has a row.

*Snapshot chain.* Resize snapshots, manual snapshots, restores and clean-ups
stack and unstack overlays on the same chains. A command may fail, or take effect
and then time out; undoing may fail; the portal may die in between. Correct
means: the VM's chain is complete, an available snapshot still holds what it
froze, the snapshot offered for rollback really works, clean-up deletes only what
is not read, deleting the VM leaves nothing that was recorded.

*Resize flow.* The playbook can stop after any of its changes, the snapshot
before it can fail, a stored plan (pending or failed) can be executed much later,
and rollback, restore and expiry come in between. Correct means: the record does
not promise more than the VM has, and a running VM's record only grows.

*Browser page.* Every handler is an `async` function: replies arrive in any order,
the list is rebuilt under running handlers, others change the VM meanwhile.
Correct means: what is deleted is what the user confirmed, the list ends up
showing the portal's state, the console window shows the VM in its title.

*SPICE client.* Bytes arrive in arbitrary chunks; images load, buffers finish,
files are read and timers fire when they please, also for objects that were given
up; tokens, windows and buffers run out. Correct means: messages are handled
whole, in order and once; no credit (token, acknowledgement, motion, report) is
lost or spent twice; data waits only while an event is to come that fetches it;
what the client believes (modifiers, buttons, cache, surfaces) is what the other
side has, except in cases that each property names.

`PROJECT.json` lists each hazard at its line with the property that covers it.

## 2. Modules

| Module | Role |
|---|---|
| `RequestBook` | abstract: what the request table promises its readers |
| `RequestWorkflow` | the workflow, LOCK, provisioning steps, deletion, restarts, outages |
| `RequestWorkflowProofs` | proofs about it, and that it implements `RequestBook` |
| `SnapshotChain` | qcow2 chains and snapshots of one VM |
| `SnapshotChainProofs` | proofs about its types and its clean-up, under every fault |
| `SnapshotDataProofs` | proofs that it keeps the data of snapshots |
| `ResizeFlow` | recorded and real sizes of one VM |
| `ResizeFlowProofs` | proofs about it |
| `MessageStream` | abstract: what a SPICE channel promises: the server's messages in order, once |
| `SpiceConn` | one SPICE connection; implements `MessageStream` |
| `SpiceAgent` | main channel as the way to the guest's agent |
| `SpiceChannelProofs` | proofs about these two, and that the first implements `MessageStream` |
| `SpiceKeyboard`, `SpiceMouse` | inputs channel |
| `InputsProofs` | proofs about these two |
| `SpicePlayback` | playback channel |
| `SpiceDisplay`, `SpiceVideo` | display channel: drawing and cache; streams |
| `MediaProofs` | proofs about these three |
| `PortalPage`, `PortalConsole` | list of requests; console window |
| `Browser` | inputs, playback, display, streams, page and console window, side by side |
| `BrowserProofs` | proofs about the page and the console window, and about the whole |
| `MCRequestWorkflow`, `MCSnapshotChain`, `MCResizeFlow`, `MCSpiceAgent`, `MCBrowser` | instances for TLC (symmetry, values of constants) |

### RequestWorkflow

| Variable | Code |
|---|---|
| `table` | SQLite tables; a row is its hostname, its status and the number of event batches. `unborn` and `deleted` rows are not in the table; identifiers are fresh |
| `worker` | calls of `provision()` in flight: the step and the request object each works on |
| `lock`, `loaded` | the approving or deleting handler that keeps `LOCK` across slow commands, and the rows it loaded and will save |
| `erase` | the deletion under way and what it still has to remove |
| `tickets` | `VM_DELETE_TICKETS` with the plan each confirms |
| `domain`, `files`, `virsh` | libvirt's domain and the storage directory's files per hostname, with the request that made them; does libvirt answer? |

A handler that does nothing slow is one action, because it runs under `LOCK`
(`lock = None` is its guard). `Approve` and `BeginDelete` take the lock and leave
it to later steps; between those, only the unlocked provisioning of other
requests can move, and the environment. `provision()` is split at every task of
the playbook that reads or changes libvirt or storage (`Preflight`,
`CheckExisting`, `CreateDisk`, `CreateSeed`, `Define`, `Start`, `Verify`,
`Complete`); `ProvisionFails` can replace any of them and keeps what they did.
The playbook runs in a child process with a timeout of 120 s; the model ends the
playbook with the call, although children of `ansible-playbook` may outlive it
for a moment. `SaveOwn` and `SaveAll` are the two saves that end a provisioning.
`faults`, chosen from `FaultSets` once at the start, switches on restarts (`Crash`), libvirt outages, failing deletion
commands and domains removed with `virsh` behind the portal's back.

`RequestBook` says the same without locks, threads or libvirt: a request is
entered with a free name, settled once, then only adds to its history until it
is removed for good. The refinement mapping is `book <- table`.

### SnapshotChain

Images are numbered per disk: 0 the shared cloud image, 1 the VM's own disk, then
one serial per snapshot or restore (identifiers carry a time stamp and a uuid, so
none is reused). `image[d][n]` says whether the file is at its path, renamed to
`*.rolled-back-*` or gone, and on which files its content depends. `current` is
the disk source in the domain definition, `snaps` the records of the request,
`xmls` the saved definitions, `aged` the resize snapshots whose twelve hours are
over, `spoiled` (history) the snapshots whose frozen data was written to, `astray`
(history) whether a define that was not recorded left the domain on a snapshot's
own bases ("bases", until a later rollback or restore puts it right), and whether
the VM was used then ("used", for good).

All operations run under `LOCK`, so each is one action; its failures are actions
of their own: `CreateFails`, `CreateUnrecorded`, `RestoreUndone`,
`RestoreStranded`, `RestoreUnfinished`, `RollbackFails`, `CleanUpPartly`,
`CleanUpAborted`. A command may fail, may be late (it takes effect and then runs
into its timeout, which the code reads as a failure), undoing a failure may fail
as well ("double"), and the portal may die. A late `virsh define` is the hard
case: a restore undoes its define only if that reported success (1195, 1243), a
rollback never undoes it and only renames the overlays back (1515). In both the
domain stays on the snapshot's bases: `RestoreStranded`,
`RollbackFails(s, {}, TRUE)`. `CommitTargets` is the place where
`virsh blockcommit` may stop, since the command names none. `faults` is chosen
from `FaultSets` at the start; properties that need a milder environment say so
(`Benign`).

### ResizeFlow

`recorded` and `actual` are sizes in three dimensions: the vCPU count (memory is
handled the same way), the OS disk and a data disk, which the playbook treats
differently (its assertions leave data disks out). `Touches` is the condition of
each changing task, `Progress` the order in which they run: a failed playbook has
done a prefix of them. `pending` is `pending_resize` (the status is
`resize_awaiting_approval` exactly while there is one), `failed` is
`last_failed_resize`, `active` and `manual` are the sizes that a rollback or a
restore brings back. Both can go back in libvirt only (`RollbackUnrecorded`,
`RestoreUnrecorded`: a define that timed out after it took effect, an undo that
failed, a death before the save). The history variable `astray` remembers that,
until a rollback or a restore succeeds; a snapshot taken meanwhile carries it, and
a retry without a snapshot passes it on to all (`Doubted`), because an astray VM
may run on the very disks a snapshot froze. Provisioning starts the model with a consistent VM.

### SpiceConn

A byte is its position in the stream the server writes, so a chunk and a buffer
are stretches `[at, len]`, and `sent` says which frame lies where. `buffers`,
`needed`, `saved` are the fields of `SpiceWireReader`; `busy` says that
`inbound()` runs, whose loop calls `process_inbound` once for each part it can
cut (`LinkHeader`, `LinkReply`, `AuthReply`, `MiniHeader`, `Payload`, or `Discard`
after an error). JavaScript runs a callback to its end, so `busy` excludes every
other event. `owner` distinguishes the main channel, whose `onerror` stops the
session, from the subchannels, which have none: there `report_error` throws.
`ws` follows the WebSocket standard where the code relies on it: no message after
`close()`, an error event before the close event of a connection that never
opened (`"aborting"`). Handlers of channel messages are taken not to throw; where
one can (`SpiceDisplay`), that module says what is left of the channel.
`InOrder` is the refinement of `MessageStream`.

### SpiceAgent

`queue` and `heard` hold the parts a message is cut into, one token each; `spent`
is what the server has not returned. `reads` are the `FileReader`s at work,
`readQueue` and `resume` the transfers that wait for tokens, and where.
`Send` is `send_agent_message_queue`, `FileXferRead` is `file_xfer_read` with all
its early returns. `agents` counts the agents: what an earlier one was to get is
sent to the next one, as in the code, so `WholeMessages` and `FilesRead` speak of
the order within the first. The agent answers a start it has heard (`StartHeard`), may
refuse it at once, accepts it once and reports success only when it has the file; empty files are left out, because for them the code
sends data without end.

### SpiceKeyboard, SpiceMouse

`known` and `believed` are `Shift_state` and the others (-1, or a boolean);
`held` is what the user holds and `down` what the guest has been told. `Away` is a
change the page sees no event of. `Key` is `check_and_update_modifiers` and the
key's own message; a text runs through `NextCharacter`, `PressShifted`,
`ReleaseCharacter` and `Unshift`, one step per `await`. In `SpiceMouse`, `counted`
and `acks` are the server's side of the motion acknowledgements.

### SpicePlayback, SpiceVideo

Both put pieces of a WebM stream into a media source's buffer that takes one at a
time: `sink` and `feed` hold what it was given, what waits (`queue`),
`append_okay` and whether an append is under way. In `SpicePlayback`, times are
numbers with a small wrap instead of 16 bits, `made` is what the packets were
turned into, with true times. In `SpiceVideo`, `due` and `told` account for the
frames a report must mention; streams share only their id, so there is one id.

### SpiceDisplay

A surface is the number of its creation, a picture that of its drawing message.
`jpegs` are the images being loaded; `announced` is what the server takes for
cached. `DrawNow` decodes and paints at once, `DrawJpeg` starts a load, and
`DrawUnread` is each `return false` of a drawing whose image the client cannot
read: nothing is painted or cached, though the server counts on it (`unread`).
`InvalAllPixmaps` empties the server's cache only, as the client ignores the
message. The exception that `INVAL_LIST` throws before any image was cached
leaves `channel = "broken"`.

### PortalPage, PortalConsole

`version` numbers the portal's states, `targets` what a deletion would remove
(what a deletion ticket stands for). `loads` are calls of `loadRequests` with the
panel's state noted before the `await`; `flows` are the click handlers, suspended
at their `await`s; `fresh` says whether a flow's button is still on the page. One
panel and one VM stand for all: handlers and replies do not mix VMs. In
`PortalConsole`, `opens` are calls of `openConsole`, and `frame` the VM whose
console the frame shows.

### Browser

The seven parts share no variable, so interleaving them would multiply states and
show nothing. `part` is chosen at the start, and only that part moves; a run of
`Browser` is a run of each part alone, with one specification and one cfg.

## 3. Runs

| Run | Instance | What it shows |
|---|---|---|
| `workflow_faults` | 3 requests, 2 hostnames, 1 ticket, histories up to 3, no faults or all | types, `ExclusiveNames`, `CleanupAlone`, `NoOrphanVM`, the refinement `ImplementsBook`; without faults `OwnVM` |
| `workflow_settles` | 2 requests, 1 hostname, all faults but the crash | `Settles`: provisioning ends and `LOCK` is released |
| `workflow_reserve` | 2 requests, outage | violation: an outage frees the name of an existing VM |
| `workflow_seed` | 2 requests, no fault | violation: a VM defined over another request's seed image |
| `snapshot_kept` | 2 disks, serials up to 4; failing and late commands, or every fault and both commit targets | `ManualIntact`, `ActiveCanRollBack`, `VMChainComplete`, `DeletionIsComplete`; with every fault `RemovesOnlyUnused` |
| `snapshot_commit` | 1 disk, commit to the bottom | violation: the data does not end in the snapshot's base |
| `resize_kept` | sizes up to 2, self-service up to 1, 1 manual snapshot, `AstrayBound` | `RecordNotAhead`, `RecordGrowsOnline` |
| `resize_shrink` | sizes up to 3 | violation: a data disk of a running VM gets smaller |
| `resize_unsnapped` | sizes up to 2 | violation: a resize without a snapshot |
| `spice_conn` | 3 messages, payloads of 0, 1 and 3 bytes, windows 0 to 2, headers of 2 bytes | `Framing`, `AcksDue`, the refinement `InOrder`, `LossTold`, `ConnectsOrTells` |
| `spice_agent` | 2 files of 2 and 1 reads, data cut into 2 parts, 2 tokens, 2 agents | `FlowControl`, `WholeMessages`, `FilesRead`, `SizeKnown`, `TransfersEnd` |
| `browser_parts` | see below | `ModifiersFollow`, `TextsTyped`, `MouseInStep`, `SoundKept`, `PicturesInPlace`, `CacheAgrees`, `FramesAccounted`, `VideoFed`, `DeletesWhatWasConfirmed`, `ConsoleTitled`, `ListCatchesUp` |

The five violations contradict documents or comments of the repository and are
described in `PROJECT.json` under `findings`. In short:

* `local_qemu_domain_exists` cannot tell "no" from "no answer" (655), so the
  reservation promised at 1527 lapses during an outage.
* `creates:` in the playbook reuses the files of an earlier failure, so the key
  the README promises to install may not be the one in the seed image.
* `blockcommit` names no base. The check after it prevents a loss of data, but
  the commit does not reach the base it is documented to reach.
* A data disk that a failed resize grew is shrunk by a later, smaller request,
  because it is compared with the record only.
* A retry after a failed snapshot resizes without any.

Two more divergences need no run. Rollback never looks at `expires_at` (1479), so
it succeeds after the twelve hours until the next expiry check. And the README's
promise of restores, "If the operation or its disk-source verification fails, the
previous domain definition is restored", does not hold of a define that times out
after it took effect (1185-1195): the domain stays on the snapshot's bases, and a
VM started there writes into the data the snapshot keeps. A rollback has the same
gap (1494-1523), and leaves the snapshot "active".

**Bounds.** Three requests and two hostnames let one request be cleaned up while
a second waits for the same name and a third works on another; requests interact
through hostnames, the lock and whole-table saves only, and two of each are
enough for any one conflict. `MaxTickets` and `MaxEvents` cap confirmations and
histories: operators act while a history is below the bound, decisions and
provisioning are not limited. Serials up to 4 allow three snapshots, restores or
failed ones of two disks in one life of the VM: a snapshot on a snapshot, rolled
back or restored, and one more on top. `MaxSerial` bounds creations only. Sizes
up to 2 distinguish "at" and "above" each comparison; the shrink needs three,
for a size between the record and the real one. `AstrayBound` limits what surrounds a VM that is `astray` to any two of
its snapshots and plans, of which not both snapshots were taken since: enough for
a stale plan, a retry and a way back to meet, without the product of all sizes of
all four; the theorems need no such bound. Runs say `CHECK_DEADLOCK FALSE`
where the system may stop: when every request is deleted or rejected, or the VM
is deleted. `ResizeFlow` has no such state and deadlock is checked.

In `spice_conn`, headers and replies of two bytes can be cut inside and between
parts, payloads of 0, 1 and 3 bytes are empty, shorter and longer than a header,
and three messages let a window of two be filled and changed. In `spice_agent`,
two tokens and data messages of two parts make the tokens run out inside a
message, between messages and between two files. In `browser_parts`: two texts of
a capital, an unsupported and a small letter, and three strokes of the user; a
bunch of four motions and two buttons; four packets of which times jump forward,
back and past the wrap, and two starts; two surfaces, one cached image, three
drawings (an image cached, invalidated and drawn again, or an id used twice); two
streams and five frames against a report window of two; two loads and two handlers
of the page at a time, of which the user begins a further one only while fewer
than `MaxBusy` run, and one change by others; two VMs and three openings of the
console. Bounds that count (`MaxPackets`, `MaxFrames`, `MaxDraws`, `MaxKeys`,
`MaxChanges`, ...) end the supply of inputs, never a reaction of the code.

**Symmetry** permutes requests, hostnames and disks, which the modules compare
for equality only; it is not used in `workflow_settles`, where it would be
unsound.

**Fairness** (`FairSpec`) is assumed of provisioning and deletion steps and of the
approving handler's save (weak: a running thread keeps running, and every command
has a timeout), and of the unlocked save (strong: it waits for `LOCK`, which
others take again and again; `threading.Lock` wakes waiting threads, and requests
end as their number is finite). Nothing is assumed of users, administrators,
outages or restarts. With crashes `Settles` is false: nothing at start-up looks
at rows left in `provisioning`, so they stay (a hazard in `PROJECT.json`).

`spice_conn` assumes that a running callback ends, that bytes which were sent
arrive while the connection lasts, and that an armed timer fires; nothing of the
server. `spice_agent` assumes that `FileReader` finishes, and that server and
agent do their part: tokens come back, a start is answered, the end of a complete
file is reported. `browser_parts` assumes, for the page only, that the interval
timer fires (strong: while a dialog is open nothing runs), that the portal answers
and does not fail for ever, and that the user closes dialogs.

**Exceptions stated in properties.** `ManualIntact` excepts snapshots whose
overlay a rollback renamed; `DeletionIsComplete` excepts files no record ever
named. Both are what the code does. With crashes or double failures
`VMChainComplete`, `ManualIntact` and `ActiveCanRollBack` do not hold, as the code
has no recovery from a torn rollback, so they are stated for `Benign` faults
(commands fail or are late). Even then a late define can leave the domain on a
snapshot's bases: `VMChainComplete` is not claimed while it is there, and
`ManualIntact` and `ActiveCanRollBack` only as long as nobody has used the VM in
that state; repeating the rollback or the restore puts it right. `RecordNotAhead`
excepts a VM that libvirt took back without the record, until a rollback or a
restore succeeds. In the browser the exceptions are bookkeeping variables that remember an
upset, and each names a weakness of the code a reader should know:

* `ModifiersFollow` (`clean`): Ctrl-Alt-Del before any key event leaves Ctrl and
  Alt down in the guest (`inputs.js:208`), a typed text releases modifiers without
  noting it (267), so a modifier held across a text is lost.
* `TextsTyped` (`disturbed`): two texts at once spoil each other's capitals.
* `MouseInStep` (`mixed`): with two buttons the guest is told one at a time.
* `SoundKept` (`upset`): a second start while a media source opens, a late
  `updateend`, a change of the mode, or a first packet of time 0 (which
  `start_time` takes for "none") lose packets.
* `PicturesInPlace` (`reused`): a JPEG that loads after its surface's id was given
  away is painted on the new surface (`display.js:911`).
* `CacheAgrees` (`late`, `unread`): an image invalidated while it loads comes back;
  `INVAL_ALL_PIXMAPS` is ignored, so the client keeps what the server dropped
  (`display.js:470`); an image the client could not read is missing for good.
* `FramesAccounted` (`lost`, `inherited`): frames that cannot be decoded stay
  "loading" for good, those of an earlier stream lower the count of the next.
* `VideoFed` (`stuck`): once the media source refuses an append, nothing follows.
* `TransfersEnd`: a transfer that ended takes another's turn for a token.
* `LossTold`: closing a socket that is still connecting reports a second error.
* `ConsoleTitled` (`crossed`): a late ticket puts its VM into the frame of another
  VM's window, or into the closed window; a late refusal closes it.
* `ListCatchesUp`: a panel left open stops the refresh, by design. Until then an
  older reply may replace a newer one, and a panel opened while a load runs is
  closed by its reply.

## 4. Proofs

Everything below is checked by TLAPS for every value of the constants. Nothing is
assumed but the named assumptions on constants that the modules declare
(`WorkflowAssumption`, `SnapshotAssumption`, `ResizeAssumption`,
`ConnAssumption`, `AgentAssumption`, `KeyboardAssumption`, `MouseAssumption`,
`PlaybackAssumption`, `DisplayAssumption`, `VideoAssumption`, `PageAssumption`,
`ConsoleAssumption`): they give constants their types and say, for instance, that
`None` is neither a request nor a hostname and that no header is empty.

Every invariant of the passing runs is the subject of a theorem, and so are both
refinements and the action properties. None of these is inductive as it stands
but `MouseInStep`; what was added to each is what the code relies on without
saying it, and is described here. TLC finds each strengthened invariant true of
the instance of its component's passing run (with positions in files bounded
where an invariant quantifies over all of them).

### The request workflow (`RequestWorkflowProofs`)

`TypeCorrect`, `NamesExclusive`, `CleanupSafe` and `VMsTracked` are
`Spec => []TypeOK`, `[]ExclusiveNames`, `[]CleanupAlone` and `[]NoOrphanVM`, under
every combination of faults; `TableIsBook` is the refinement of `RequestBook`;
`VMsOwned` is `Spec => []OwnVM`.

`IInv` adds: `WorkersOwnRows`, that a provisioning works on a row that nobody
else writes, because its status is `provisioning` (every handler refuses it) or
because its handler holds `LOCK`. `LockHolders`: whoever holds the lock is
deleting a settled request or approving, and in the second case the rows it
loaded are still those of the table; this is why writing all of them back is
harmless, and it holds because provisionings without `LOCK` take it for their
save. `ErasedDomainGone`: after a deletion has undefined its domain, a VM with
the name belongs to another row. `RowsWellFormed` relates status and hostname.
`FreeLock` and `WorkerPending` are the two consequences used in most steps. The
proof has one lemma per group of actions (`StepSubmit`, `StepApprove`,
`StepProvision`, `StepSave`, `StepOperate`, `StepBeginDelete`, `StepDelete`,
`StepCrash`, ...), put together in `InvStep`. The refinement (`RowStep`,
`BookStep`) uses `IInv` in the unprimed state: each step changes at most one row,
and that row moves as the book allows.

`OwnVM` speaks of runs without faults and needs `Tended` on top: a domain carries
the name of the request that defined it, which was decided or is past its
`define` (`OwnersKnown`); the name of a finished VM is nobody's to provision, and
the VM is whole unless it is being deleted (`VMsUsable`); before its `define` a
provisioning's name is free, after it the domain is its own (`WorkFits`); and a
deletion still finds what its plan lists (`ErasureExact`).

### The resize flow (`ResizeFlowProofs`)

`TypeCorrect`, `RecordSafe`, `OnlineGrowth`: `Spec => []TypeOK`,
`[]RecordNotAhead`, `RecordGrowsOnline`. `IInv` adds `SavedNotAhead` (what a
snapshot brings back is consistent, unless it was taken of an astray VM) and `PlansNotBehind` (a pending or failed plan
is not below the record). The second carries `RecordGrowsOnline`: it survives
because going back to a snapshot discards the failed plan and is impossible while
one is pending. `AppliedAhead` and `AppliedReaches` say what an interrupted and a
finished playbook leave; `NowFacts`, `DoubtedFacts` and `GoingAstray` what a
snapshot, a retry without one and an unrecorded way back do to the saved sizes.

### The snapshot chain (`SnapshotChainProofs`, `SnapshotDataProofs`)

`TypeCorrect`, `CleanUpSafe`: `Spec => []TypeOK`, `RemovesOnlyUnused`, under
every fault and for every `CommitTargets`. That a file the clean-up deletes is not
read depends on how files are stacked: the domain is on the snapshot's bases by
then, and no base can depend on the overlay made after it. `IInv` says so:
`FilesLayered` (a file depends on older files only), `SnapsLayered` (what a
snapshot keeps of a disk is older than the snapshot) and `SourcesOld` (no disk is
on a file yet to be made). The verification of the sources is what counts, not
where the commit stopped.

`SourcesStayComplete`, `ManualSafe` and `RollbackReady` are
`Spec => []VMChainComplete`, `[]ManualIntact` and `[]ActiveCanRollBack`, which
speak of `Benign` faults (commands fail or are late, the portal neither dies nor
fails to undo). Their invariant is `Kept`. A domain that a late define left on a
snapshot's bases is not lost, since the files are untouched while the VM is off:
`Sound` says that there are sources, the domain's own unless it is astray, for
which `Health` holds, and `StraysOff` that an astray VM that was not used is off.
A rollback or a restore that succeeds makes these sources the domain's again.
The parts of `Health` say how files lie on each other (`Layout`: what was not made is
not there, dependence is transitive, an overlay lies on exactly its base's
chain); that the sources and the data of every frozen snapshot are complete and
not written (`SourcesComplete`, `FrozenKept`); that only one resize snapshot is
active, the newest, and is in place (`OneActive`, `Newest`, `ActiveThere`); and
`Funnelled`, on which the rest turns: as long as an overlay is of use, whatever
depends on its base does so through the overlay. That is why a rollback or a
clean-up, which moves the sources from an overlay down to its base, never makes
the VM write into data that another snapshot keeps. Creating a snapshot keeps it,
because the new overlay lies on the files in use; restoring keeps it, because the
chain of a manual snapshot that can be restored passes through the overlay as well.
`NothingLeft` (`Spec => []DeletionIsComplete`) follows from `IInv`,
`Kept` and the lemma `RequestLasts`.

### A SPICE connection (`SpiceChannelProofs`)

`ConnTyped`, `FramesAreCut`, `WindowsAreAcknowledged`, `LossIsToldOnce` and
`StreamIsKept` are `Spec => []TypeOK`, `[]Framing`, `[]AcksDue`, `LossTold` and
`InOrder`, the refinement of `MessageStream`: for every number and length of
messages, every length of headers, every window and every way the network cuts
the bytes. `ConnInv` says what the server has written (`SentWell`: frames abut, in
the order of the handshake, then a header and a body for each message); that what
the reader holds and waits for is exactly the rest of the next frame (`InPlace`);
that frames before it were handled (`NotBefore`); that the countdown to the next
acknowledgement agrees with what was handled since the last `SET_ACK`
(`AcksCounted`); and how timer, owner and socket tell whether a loss was reported
(`Losses`).

### The main channel and the agent (`SpiceChannelProofs`)

`AgentTyped`, `TokensAreKept`, `MessagesAreWhole`, `FilesAreRead` and
`SizeIsKnown` are `AgentSpec => []` of `AgentTypeOK`, `FlowControl`,
`WholeMessages`, `FilesRead` and `SizeKnown`. `AgentInv` adds `ReadersInv`: a file
has one reader at most, be it a `FileReader` at work or a transfer that waits;
`StartsInv`: the start of a transfer reaches an agent once and nothing is read
before it was sent; and `ProgressInv`: with the first agent, what was sent and
what is queued make whole messages, and each file's reader stands where the pieces
sent or queued end. `Cut`, `Count` and the order of pieces in a concatenation have
lemmas of their own.

### Inputs (`InputsProofs`)

`MouseStaysInStep`: `MouseSpec => [](MouseTypeOK /\ MouseInStep)`.
`KeyboardTyped`, `ModifiersAreFollowed`, `PastesRelease` and `TextsAreTyped` are
`KeyboardSpec => []` of `KeyboardTypeOK`, `ModifiersFollow`, `PasteReleases` and
`TextsTyped`, the latter for every text. `KeyboardInv` says that the client's
belief about modifiers is true until something upsets it (`BeliefTrue`) and what
each step of a text finds pressed (`PasteHolds`, `AtCharacter`). `TextInv` adds
that what a lone text has typed are the supported characters before the one it
has reached; the position among them is a cardinality (`Before`), because
`SelectSeq` is recursive and cannot be reasoned about.

### Display, streams and playback (`MediaProofs`)

`DisplayTyped`, `PicturesArePlaced`, `CacheStaysTrue`: `DisplaySpec => []` of
`DisplayTypeOK`, `PicturesInPlace`, `CacheAgrees`. `DisplayInv` adds that a loading
picture finds its surface or none unless the id was picture finds its surface or none unless the id was given away (`LoadsInPlace`),
and that an image which is not `late` and is being loaded is one the server means
(`LoadsAnnounced`). that loading images are those the server believes in (`LoadsAnnounced`).
`VideoTyped`, `FramesAddUp`, `VideoIsFed`: `VideoSpec => []` of `VideoTypeOK`,
`FramesAccounted`, `VideoFed`; `VideoInv` adds that pieces fed, waiting and not yet
made are consecutive (`PiecesFed`) and when a piece may wait (`Buffering`).
`PlaybackTyped`, `SoundIsKept`: `PlaybackSpec => []` of `PlaybackTypeOK`,
`SoundKept`; `PlaybackInv` adds that the sink and its queue hold all that was made
(`NothingLost`) and that each block's time is its packet's, across the wrap
(`LastMade`, `AllTimed`).

### The page (`BrowserProofs`)

`ConsoleTyped`, `TitleNamesTheConsole`: `ConsoleSpec => []` of `ConsoleTypeOK`,
`ConsoleTitled`; `OneCall` adds that until calls cross, one call is under way at
most, for the VM in the title. `PageTyped`, `DeletedAsConfirmed`:
`PageSpec => []` of `PageTypeOK`, `DeletesWhatWasConfirmed`; `TicketsStandForPlans`
adds that a flow that shows a plan or waits for the deletion has the ticket of
that plan. `BrowserIsItsParts` shows that `BrowserSpec` implies the specification of each
part (a step of one part is a stutter of the others), so that every theorem about
a part holds of the whole: `BrowserTyped` and `BrowserKeepsItsPromises`.

### Model-checked only

`Settles`, `ConnectsOrTells`, `TransfersEnd` and `ListCatchesUp` are liveness
properties; fairness and `ENABLED` are out of the prover's reach. So is induction
over data, which no proof here needs: where one would, the lemmas argue from the
least element of a set of numbers (`LeastElement`) or from cardinalities. No
module uses `RECURSIVE` operators.

## 5. Not modelled, and why

Notifications and mail are output only. The vcsim backend is a demonstration
target without the operations studied here. The container files and templates
have no state of their own, the installer runs once by hand. Of the SPICE client,
the image decoders (`quic.js`, `lz.js`) are sequential arithmetic on pixels, for
which a specification would be a second implementation; cursor, port and the
vendored libraries keep no state that matters. The clipboard, mouse-mode changes
and clip regions are left out. The order of drawings is not a property of
`SpiceDisplay`, because the code does not keep it: a JPEG overpaints what was
drawn while it loaded. Inside the modelled parts of the portal: authorisation (who
may call an operation) and the five-minute life of deletion tickets are left to
nondeterminism: any ticket may be refused at any time; event texts, notifications
and NetBox results of a row are abstracted to "the history grew". NetBox
registration, sessions, the WebSocket proxy, the storage arithmetic and the image
cache are not modelled yet.

## 6. Plan

Done, in this order: `RequestBook`, `RequestWorkflow`, its proofs;
`SnapshotChain`, its first proofs; `ResizeFlow`, its proofs; the browser:
`SpiceConn` with `MessageStream`, `SpiceAgent`, the inputs, playback and display
channels, the page and its console window; the proofs about all of them.

Next:

1. `NetBoxSync`: registration with lost answers and retries, ownership by marker,
   composed with address reconciliation; abstract specification: at most one
   record per request, never another owner's.
2. `Access`: sessions, console tickets, password changes and deletions of the VM
   a ticket was issued for.
3. `SpiceProxy`: frames to bytes and back in one thread; abstract specification:
   two FIFO byte streams, composed with `SpiceConn`.
4. `Preflight` and `ImageCache`: free space, reserve and limit arithmetic; resume,
   checksum and rename of the ISO download.
5. A composition of `ResizeFlow` with `SnapshotChain`, so that the sizes a
   snapshot brings back follow from the chain.

Runs are kept few: a new question replaces or joins an existing run where the
same instance can answer it.
