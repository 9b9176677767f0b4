------------------------------ MODULE SpiceAgent ------------------------------
(***************************************************************************)
(* The main channel of the browser client as the way to the guest's agent: *)
(* tokens that limit what may be sent, the queue of message parts, file    *)
(* transfers read piece by piece, window resizes (main.js, filexfer.js,    *)
(* resize.js).  An agent may leave and another one connect.                *)
(***************************************************************************)
EXTENDS Naturals, Sequences, FiniteSets

CONSTANTS Files,      \* files the user may drop on the console
          Reads,      \* Reads[f]: reads a file takes; empty files are left out
          DataParts,  \* parts a message with file data is cut into
          Window,     \* tokens a server grants with an agent
          Batch,      \* tokens it returns at a time
          MaxAgents,  \* bound: agents that connect
          MaxOther    \* bound: the agent's requests and the window's resizes

ASSUME AgentAssumption ==
  /\ Reads \in [Files -> Nat \ {0}] /\ DataParts \in Nat \ {0}
  /\ Window \in Nat /\ Batch \in 1 .. Window
  /\ MaxAgents \in Nat /\ MaxOther \in Nat

VARIABLES
  connected,  \* agent_connected
  tokens,     \* agent_tokens
  queue,      \* agent_msg_queue: message parts not sent yet
  dropped,    \* files the user has dropped; each gets a task id of its own
  tasks,      \* file_xfer_tasks
  cancelled,  \* tasks the user cancelled
  readQueue,  \* file_xfer_read_queue
  resume,     \* read_bytes of a task, in reads
  reads,      \* reads that FileReader is busy with
  size,       \* the size of the browser window: number of resizes so far
  resizing,   \* is spice_resize_timer armed?
  agents,     \* number of agents that have connected
  heard,      \* message parts the present agent has been sent
  allowed,    \* files it accepted
  ended,      \* files it reported an end of
  spent,      \* tokens the server has not returned
  asked       \* requests of the agent so far

line == <<queue, tokens, spent, heard>>
files == <<dropped, tasks, cancelled, readQueue, resume, reads>>
agent == <<agents, allowed, ended, asked>>
agentVars == <<connected, line, files, size, resizing, agent>>

-----------------------------------------------------------------------------
(* Messages to the agent *)

MessageOf(kind, about, at) == [kind |-> kind, about |-> about, at |-> at]
Parts(m) == IF m.kind = "data" THEN DataParts ELSE 1
Cut(m) == [p \in 1 .. Parts(m) |-> [msg |-> m, part |-> p]]

Caps == Cut(MessageOf("caps", "agent", 0))
Reply == Cut(MessageOf("reply", "agent", 0))
Monitors(s) == Cut(MessageOf("monitors", "window", s))
StartOf(f) == Cut(MessageOf("start", f, 0))
Data(f, from) == Cut(MessageOf("data", f, from))
Cancel(f) == Cut(MessageOf("status", f, 0))

(* Mutant: the queue is emptied whatever the tokens. *)
SendUnlimited(parts, t, s, h) ==
  LET all == queue \o parts
  IN  /\ queue' = <<>>
      /\ heard' = h \o all
      /\ tokens' = IF t < Len(all) THEN 0 ELSE t - Len(all)
      /\ spent' = s + Len(all)

(* Mutant: a new message overtakes the parts that wait. *)
SendOvertaking(parts, t, s, h) ==
  LET all == parts \o queue
      n == IF t < Len(all) THEN t ELSE Len(all)
  IN  /\ queue' = SubSeq(all, n + 1, Len(all))
      /\ heard' = h \o SubSeq(all, 1, n)
      /\ tokens' = t - n /\ spent' = s + n

(* send_agent_message_queue() with an agent, t tokens and what it was sent.  *)
Send(parts, t, s, h) ==
  LET all == queue \o parts
      n == IF t < Len(all) THEN t ELSE Len(all)
  IN  /\ queue' = SubSeq(all, n + 1, Len(all))
      /\ heard' = h \o SubSeq(all, 1, n)
      /\ tokens' = t - n /\ spent' = s + n

(* send_agent_message(): without an agent the message is lost. *)
Say(parts) == IF connected THEN Send(parts, tokens, spent, heard) ELSE UNCHANGED line

-----------------------------------------------------------------------------
Tasks == [f : Files, from : Nat]
(* Tokens stay within the window, the queue holds real parts of messages, and *)
(* reads and waiting transfers are inside files the user has dropped.        *)
AgentTypeOK ==
  /\ connected \in BOOLEAN /\ tokens \in 0 .. Window /\ spent \in 0 .. Window
  /\ \A i \in DOMAIN queue : queue[i].part \in 1 .. Parts(queue[i].msg)
  /\ dropped \subseteq Files /\ tasks \subseteq dropped /\ cancelled \subseteq dropped
  /\ \A i \in DOMAIN readQueue : readQueue[i] \in Files /\ resume[readQueue[i]] < Reads[readQueue[i]]
  /\ \A r \in reads : r \in Tasks /\ r.from < Reads[r.f]
  /\ size \in 0 .. MaxOther /\ resizing \in BOOLEAN
  /\ agents \in 0 .. MaxAgents /\ allowed \subseteq Files /\ ended \subseteq Files
  /\ asked \in 0 .. MaxOther

AgentInit ==
  /\ connected = FALSE /\ tokens = Window /\ spent = 0 /\ queue = <<>> /\ heard = <<>>
  /\ dropped = {} /\ tasks = {} /\ cancelled = {} /\ readQueue = <<>> /\ reads = {}
  /\ resume = [f \in Files |-> 0]
  /\ size = 0 /\ resizing = FALSE
  /\ agents = 0 /\ allowed = {} /\ ended = {} /\ asked = 0

-----------------------------------------------------------------------------
(* Agents come and go *)

(* connect_agent(): capabilities, then the page's agent_connected() sends the *)
(* size of the window.  What an earlier agent was to get is still queued.     *)
ConnectAgent(t, s) ==
  /\ connected' = TRUE
  /\ Send(Caps \o Monitors(size), t, s, <<>>)
  /\ agents' = agents + 1
  /\ UNCHANGED <<files, size, resizing, allowed, ended, asked>>

(* SPICE_MSG_MAIN_INIT with an agent, or AGENT_CONNECTED: the tokens stay.    *)
AgentConnected ==
  /\ ~connected /\ agents < MaxAgents
  /\ ConnectAgent(tokens, spent)

AgentConnectedTokens ==
  /\ ~connected /\ agents \in 1 .. MaxAgents - 1
  /\ ConnectAgent(Window, 0)

AgentDisconnected ==
  /\ connected
  /\ connected' = FALSE
  /\ heard' = <<>> /\ allowed' = {} /\ ended' = {}
  /\ UNCHANGED <<queue, tokens, spent, files, size, resizing, agents, asked>>

-----------------------------------------------------------------------------
(* File transfers *)

(* file_xfer_start(): only while the drop handler is installed. *)
Drop(f) ==
  /\ agents > 0 /\ f \notin dropped
  /\ dropped' = dropped \cup {f} /\ tasks' = tasks \cup {f}
  /\ Say(StartOf(f))
  /\ UNCHANGED <<connected, cancelled, readQueue, resume, reads, size, resizing, agent>>

(* The button on the progress bar. *)
UserCancels(f) ==
  /\ f \in tasks \ cancelled
  /\ cancelled' = cancelled \cup {f}
  /\ UNCHANGED <<connected, line, dropped, tasks, readQueue, resume, reads, size, resizing, agent>>

(* Mutant: a read that waits starts over. *)
WaitFromStart(f, from) == readQueue' = Append(readQueue, f) /\ resume' = [resume EXCEPT ![f] = 0]

Wait(f, from) == readQueue' = Append(readQueue, f) /\ resume' = [resume EXCEPT ![f] = from]

(* file_xfer_read() at read number from, after the parts before it were sent; *)
(* others: the other reads under way.                                         *)
FileXferRead(f, from, before, others) ==
  \/ /\ f \notin tasks \/ from = Reads[f]
     /\ Say(before) /\ reads' = others
     /\ UNCHANGED <<tasks, readQueue, resume>>
  \/ /\ f \in tasks /\ from < Reads[f] /\ f \in cancelled
     /\ Say(before \o Cancel(f))
     /\ tasks' = tasks \ {f} /\ reads' = others
     /\ UNCHANGED <<readQueue, resume>>
  \/ /\ f \in tasks /\ from < Reads[f] /\ f \notin cancelled
     /\ Say(before)
     /\ IF tokens' = 0
        THEN Wait(f, from) /\ reads' = others
        ELSE reads' = others \cup {[f |-> f, from |-> from]} /\ UNCHANGED <<readQueue, resume>>
     /\ UNCHANGED tasks

StartHeard(f) == [msg |-> MessageOf("start", f, 0), part |-> 1] \in {heard[i] : i \in DOMAIN heard}

(* The agent's VD_AGENT_FILE_XFER_STATUS_CAN_SEND_DATA, once for a start. *)
CanSendData(f) ==
  /\ connected /\ f \notin allowed \cup ended
  /\ StartHeard(f)
  /\ allowed' = allowed \cup {f}
  /\ FileXferRead(f, 0, <<>>, reads)
  /\ UNCHANGED <<connected, dropped, cancelled, size, resizing, agents, ended, asked>>

(* reader.onload: the data is sent even if the task has gone meanwhile. *)
OnLoad(r) ==
  /\ r \in reads
  /\ FileXferRead(r.f, r.from + 1, Data(r.f, r.from), reads \ {r})
  /\ UNCHANGED <<connected, dropped, cancelled, size, resizing, agent>>

(* An error, a cancellation by the agent, or success: file_xfer_completed().  *)
(* It may refuse a start at once; success only when it has got all of a file. *)
HasAll(f) ==
  \E i \in DOMAIN heard :
    heard[i] = [msg |-> MessageOf("data", f, Reads[f] - 1), part |-> DataParts]
AgentEnds(f, success) ==
  /\ connected /\ StartHeard(f) /\ f \notin ended
  /\ success => f \in allowed /\ HasAll(f)
  /\ ended' = ended \cup {f}
  /\ tasks' = tasks \ {f}
  /\ UNCHANGED <<connected, line, dropped, cancelled, readQueue, resume, reads, size, resizing,
                 agents, allowed, asked>>

(* Mutant: after tokens came, only the queue goes on. *)
AgentTokenQueueOnly ==
  /\ spent >= Batch
  /\ IF connected THEN Send(<<>>, tokens + Batch, spent - Batch, heard)
     ELSE tokens' = tokens + Batch /\ spent' = spent - Batch /\ UNCHANGED <<queue, heard>>
  /\ UNCHANGED <<connected, files, size, resizing, agent>>

(* Mutant: the tokens are only counted; the queue waits for a message. *)
AgentTokenCounted ==
  /\ spent >= Batch
  /\ tokens' = tokens + Batch /\ spent' = spent - Batch
  /\ UNCHANGED <<queue, heard, connected, files, size, resizing, agent>>

(* SPICE_MSG_MAIN_AGENT_TOKEN: first the queue, then one waiting read for     *)
(* each token left; a read of a task that ended takes its turn for nothing.   *)
AgentToken ==
  /\ spent >= Batch
  /\ LET waiting == IF connected THEN Len(queue) ELSE 0
         left == IF tokens + Batch > waiting THEN tokens + Batch - waiting ELSE 0
         n == IF left < Len(readQueue) THEN left ELSE Len(readQueue)
         picked == {readQueue[i] : i \in 1 .. n} \cap tasks
         stopped == {i \in 1 .. n : readQueue[i] \in tasks \cap cancelled}
         nth(k) == CHOOSE i \in stopped : Cardinality({j \in stopped : j <= i}) = k
         statuses == [k \in 1 .. Cardinality(stopped) |-> Cancel(readQueue[nth(k)])[1]]
     IN  /\ IF connected THEN Send(statuses, tokens + Batch, spent - Batch, heard)
            ELSE tokens' = tokens + Batch /\ spent' = spent - Batch /\ UNCHANGED <<queue, heard>>
         /\ readQueue' = SubSeq(readQueue, n + 1, Len(readQueue))
         /\ reads' = reads \cup {[f |-> f, from |-> resume[f]] : f \in picked \ cancelled}
         /\ tasks' = tasks \ (picked \cap cancelled)
  /\ UNCHANGED <<connected, dropped, cancelled, resume, size, resizing, agent>>

-----------------------------------------------------------------------------
(* Other traffic *)

(* The agent asks for capabilities or clipboard contents: one message back. *)
AgentAsks ==
  /\ connected /\ asked + size < MaxOther
  /\ asked' = asked + 1
  /\ Say(Reply)
  /\ UNCHANGED <<connected, files, size, resizing, agents, allowed, ended>>

(* handle_resize(): installed with the first agent; restarts the timer. *)
HandleResize ==
  /\ asked + size < MaxOther
  /\ size' = size + 1
  /\ resizing' = (agents > 0)
  /\ UNCHANGED <<connected, line, files, agent>>

(* Mutant: the timer's message is only sent when nothing is queued. *)
ResizeHelperIfIdle ==
  /\ resizing /\ resizing' = FALSE
  /\ IF queue = <<>> THEN Say(Monitors(size)) ELSE UNCHANGED line
  /\ UNCHANGED <<connected, files, size, agent>>

(* The timer: the size is read when it fires. *)
ResizeHelper ==
  /\ resizing /\ resizing' = FALSE
  /\ Say(Monitors(size))
  /\ UNCHANGED <<connected, files, size, agent>>

-----------------------------------------------------------------------------
AgentNext ==
  \/ AgentConnected \/ AgentConnectedTokens \/ AgentDisconnected
  \/ \E f \in Files : Drop(f)
  \/ \E f \in Files : UserCancels(f)
  \/ \E f \in Files : CanSendData(f)
  \/ \E r \in reads : OnLoad(r)
  \/ \E f \in Files, success \in BOOLEAN : AgentEnds(f, success)
  \/ AgentToken \/ AgentAsks \/ HandleResize \/ ResizeHelper
AgentSpec == AgentInit /\ [][AgentNext]_agentVars

(* FileReader finishes, timers fire, the server returns tokens; an agent      *)
(* answers a start and reports the end of a file it has got.                  *)
AgentFairness ==
  /\ WF_agentVars(\E r \in reads : OnLoad(r)) /\ WF_agentVars(AgentToken)
  /\ \A f \in Files : WF_agentVars(CanSendData(f)) /\ WF_agentVars(AgentEnds(f, TRUE))

-----------------------------------------------------------------------------
(* Properties *)

(* The client's tokens and what the server has not returned always add up to *)
(* the window, whatever was lost, queued or sent to an agent that left: the  *)
(* server is never sent more than it can take, and no token leaks.           *)
TokensAddUp == tokens + spent = Window

(* Nothing waits for no reason: with an agent and a token the queue is empty. *)
QueueDrained == connected /\ tokens > 0 => queue = <<>>

(* Flow control towards the agent: neither more than the tokens allow nor,    *)
(* when tokens come back or another agent connects, less.                     *)
FlowControl == TokensAddUp /\ QueueDrained

(* The first agent gets whole messages: every part follows the part before   *)
(* it, however tokens cut the queue.  A later agent may get the rest of a    *)
(* message that was begun for an earlier one.                                *)
WholeMessages ==
  agents <= 1 =>
    \A i \in DOMAIN heard :
      /\ heard[i].part > 1 => i > 1 /\ heard[i - 1] = [heard[i] EXCEPT !.part = @ - 1]
      /\ heard[i].part < Parts(heard[i].msg) /\ i < Len(heard) =>
           heard[i + 1] = [heard[i] EXCEPT !.part = @ + 1]

(* ... and of each file the pieces in order, none twice and none left out    *)
(* before the last, although reads wait, finish late and are cancelled.      *)
Pieces(s, f) ==
  {i \in DOMAIN s : s[i].msg.kind = "data" /\ s[i].msg.about = f /\ s[i].part = 1}
FilesInOrder ==
  agents <= 1 =>
    \A f \in Files : \A i \in Pieces(heard, f) :
      heard[i].msg.at = Cardinality({j \in Pieces(heard, f) : j < i})

(* A file is read in one place at a time: it waits for tokens once, or one   *)
(* read is under way.  So an ended transfer costs the agent at most one more *)
(* data message.                                                             *)
OneReader ==
  \A f \in Files :
    Cardinality({r \in reads : r.f = f}) + Cardinality({i \in DOMAIN readQueue : readQueue[i] = f}) <= 1

(* What the agent gets of a file is the file: read once at each place, in     *)
(* order, although reads wait for tokens, finish late and are cancelled.      *)
FilesRead == FilesInOrder /\ OneReader

(* Once no resize is pending, the size last sent, or queued, is the window's. *)
LastSize(s, z) ==
  \E i \in DOMAIN s : /\ s[i].msg = MessageOf("monitors", "window", z)
                       /\ \A j \in i + 1 .. Len(s) : s[j].msg.kind # "monitors"
SizeKnown == connected /\ ~resizing => LastSize(heard \o queue, size)

(* A transfer ends, while the first agent stays and no other transfer has    *)
(* ended.  (One that has may take the turn of a read that waits, which then  *)
(* goes on only when some other message to the agent brings tokens back.)    *)
TransfersEnd ==
  \A f \in Files :
    f \in tasks ~> f \notin tasks \/ ended \ {f} # {} \/ ~connected \/ agents > 1
=============================================================================
