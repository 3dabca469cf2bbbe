------------------------------ MODULE Channel ------------------------------
(***************************************************************************)
(* One channel (ipc/mod.rs) and the system calls on its two ends           *)
(* (syscall/mod.rs).  Every system call runs to its end, or to the point   *)
(* where its task is moved to the scheduler's blocked queue, in one step;  *)
(* a task in a polling loop re-tests the channel in steps of its own.  The *)
(* model lets a poll happen whenever it could help; a processor that never *)
(* leaves its HLT simply never takes that step.                            *)
(*                                                                         *)
(* Message bodies are numbers into the history `sent'; the body of a reply *)
(* is the number of the message it answers, 0 for none.  Channel::close is *)
(* called by unit tests only, so `closed' is FALSE throughout and left out.*)
(***************************************************************************)
EXTENDS Integers, Sequences, FiniteSets

CONSTANTS
    ChTasks,
    MaxSent,      \* bound: messages sent in one behaviour
    Uses          \* the ways user programs use the channel; each behaviour is one

None == 0     \* Option::None for task ids and message numbers

Ends == {"A", "B"}

(* ends[t]: the ends task t holds handles to; ops: the system calls made,  *)
(* with "poll" when the scheduler may have no other task to switch to;     *)
(* unsolicited: whether a task may reply to nothing; max: messages sent.   *)
Use == [ends : [ChTasks -> SUBSET Ends],
        ops : SUBSET {"send", "receive", "call", "reply", "kill", "poll"},
        unsolicited : BOOLEAN, max : 0 .. MaxSent]

ASSUME ChannelAssumption ==
    IsFiniteSet(ChTasks) /\ None \notin ChTasks /\ MaxSent \in Nat /\ Uses \subseteq Use

Peer(e) == IF e = "A" THEN "B" ELSE "A"

VARIABLES
    use,     \* how this behaviour's user programs use the channel
    end,     \* end_a and end_b: a record of EndState for each
    st,      \* st[t]: "run", or where t waits: <<kind, end>>
    sent,    \* history: for each message its sender, end, kind and fate
    owes,    \* owes[t]: the message t received last and has not replied to
    asked,   \* asked[t]: the request of the call t is in
    answer   \* answer[t]: request and reply of t's last finished call

ch_vars == <<use, end, st, sent, owes, asked, answer>>

NoReply == -1
Numbers == 0 .. MaxSent

EndState == [pending_msg : Numbers, blocked_receiver : ChTasks \cup {None},
             blocked_sender : ChTasks \cup {None}, blocked_caller : ChTasks \cup {None},
             pending_reply : Numbers \cup {NoReply}]

ChInit ==
    /\ use \in Uses
    /\ end = [e \in Ends |->
                 [pending_msg |-> None, blocked_receiver |-> None, blocked_sender |-> None,
                  blocked_caller |-> None, pending_reply |-> NoReply]]
    /\ st = [t \in ChTasks |-> <<"run">>]
    /\ sent = <<>>
    /\ owes = [t \in ChTasks |-> None]
    /\ asked = [t \in ChTasks |-> None]
    /\ answer = [t \in ChTasks |-> <<0, 0>>]

-----------------------------------------------------------------------------
ChRunning(t, e, op) == st[t] = <<"run">> /\ e \in use.ends[t] /\ op \in use.ops

(* The history after t's message replaces whatever was pending at e's peer. *)
Recorded(t, e, kind) ==
    LET old == end[Peer(e)].pending_msg
        h   == [i \in 1 .. Len(sent) |->
                   IF i = old THEN [sent[i] EXCEPT !.fate = "lost"] ELSE sent[i]]
    IN  Append(h, [by |-> t, from |-> e, kind |-> kind, fate |-> "pending", copies |-> 0])

(* wake_task_by_id: moves a task out of the scheduler's blocked queue, and *)
(* does nothing when it is not there.  The system call it was blocked in   *)
(* returns to user code without looking at the channel again.              *)
Woken(t) ==
    IF t # None /\ st[t][1] = "blocked" THEN [st EXCEPT ![t] = <<"run">>] ELSE st

(* Channel::send *)
send(e, n, t) ==
    IF end[Peer(e)].blocked_receiver # None
    THEN [end EXCEPT ![Peer(e)].blocked_receiver = None, ![Peer(e)].pending_msg = n]
    ELSE [end EXCEPT ![Peer(e)].pending_msg = n, ![e].blocked_sender = t]

sys_channel_send(t, e) ==
    /\ ChRunning(t, e, "send") /\ Len(sent) < use.max
    /\ sent' = Recorded(t, e, "send")
    /\ end' = send(e, Len(sent) + 1, t)
    /\ st' = Woken(end[Peer(e)].blocked_receiver)
    /\ UNCHANGED <<use, owes, asked, answer>>

(* Fault: the message is copied, not taken. *)
received_Copies(e) == [end EXCEPT ![e].blocked_sender = None]

(* Channel::receive with a message pending: the message is taken, and with *)
(* it blocked_sender of the receiving end.                                 *)
received(e) == [end EXCEPT ![e].pending_msg = None, ![e].blocked_sender = None]

Gets(t, e) ==
    /\ end[e].pending_msg # None
    /\ end' = received(e)
    /\ sent' = [sent EXCEPT ![end[e].pending_msg].fate = "received",
                            ![end[e].pending_msg].copies = @ + 1]
    /\ owes' = [owes EXCEPT ![t] = end[e].pending_msg]
    /\ st' = [st EXCEPT ![t] = <<"run">>]

(* Fault: a receiver always polls instead of giving up the processor. *)
sys_channel_receive_Polls(t, e) ==
    /\ ChRunning(t, e, "receive")
    /\ \/ Gets(t, e)
       \/ /\ end[e].pending_msg = None
          /\ end' = [end EXCEPT ![e].blocked_receiver = t]
          /\ st' = [st EXCEPT ![t] = <<"poll", e>>]
          /\ UNCHANGED <<sent, owes>>
    /\ UNCHANGED <<use, asked, answer>>

(* With no message the task is registered, then blocked, or, when there is *)
(* no other task to switch to, left polling.                               *)
sys_channel_receive(t, e) ==
    /\ ChRunning(t, e, "receive")
    /\ \/ Gets(t, e)
       \/ /\ end[e].pending_msg = None
          /\ end' = [end EXCEPT ![e].blocked_receiver = t]
          /\ \/ st' = [st EXCEPT ![t] = <<"blocked", e>>]
             \/ "poll" \in use.ops /\ st' = [st EXCEPT ![t] = <<"poll", e>>]
          /\ UNCHANGED <<sent, owes>>
    /\ UNCHANGED <<use, asked, answer>>

(* One round of the polling loop of channel_receive; a round that finds    *)
(* nothing registers the task again.                                       *)
receive_poll(t, e) ==
    /\ st[t] = <<"poll", e>>
    /\ \/ Gets(t, e)
       \/ /\ end[e].pending_msg = None
          /\ end' = [end EXCEPT ![e].blocked_receiver = t]
          /\ UNCHANGED <<sent, owes, st>>
    /\ UNCHANGED <<use, asked, answer>>

(* Channel::call and the handler: a stored reply is taken at once and the  *)
(* message is not sent; otherwise the message replaces the pending one,    *)
(* the blocked receiver is unregistered and t waits.  The receiver's id is *)
(* not used.                                                               *)
sys_channel_call(t, e) ==
    /\ ChRunning(t, e, "call")
    /\ \/ /\ end[e].pending_reply # NoReply
          /\ answer' = [answer EXCEPT ![t] = <<0, end[e].pending_reply>>]
          /\ end' = [end EXCEPT ![e].pending_reply = NoReply]
          /\ UNCHANGED <<st, sent, asked>>
       \/ /\ end[e].pending_reply = NoReply /\ Len(sent) < use.max
          /\ sent' = Recorded(t, e, "call")
          /\ end' = [end EXCEPT ![Peer(e)].blocked_receiver = None,
                                ![Peer(e)].pending_msg = Len(sent) + 1,
                                ![e].blocked_caller = t]
          /\ st' = [st EXCEPT ![t] = <<"call", e>>]
          /\ asked' = [asked EXCEPT ![t] = Len(sent) + 1]
          /\ UNCHANGED answer
    /\ UNCHANGED <<use, owes>>

(* Channel::check_reply finds a reply and channel_call returns it.         *)
(* blocked_caller is left as it is.                                        *)
check_reply(t, e) ==
    /\ st[t] = <<"call", e>> /\ end[e].pending_reply # NoReply
    /\ answer' = [answer EXCEPT ![t] = <<asked[t], end[e].pending_reply>>]
    /\ end' = [end EXCEPT ![e].pending_reply = NoReply]
    /\ st' = [st EXCEPT ![t] = <<"run">>]
    /\ asked' = [asked EXCEPT ![t] = None]
    /\ UNCHANGED <<use, sent, owes>>

sys_channel_reply(t, e) ==
    /\ ChRunning(t, e, "reply") /\ (use.unsolicited \/ owes[t] # None)
    /\ end' = [end EXCEPT ![Peer(e)].blocked_caller = None,
                          ![Peer(e)].pending_reply = owes[t]]
    /\ st' = Woken(end[Peer(e)].blocked_caller)
    /\ owes' = [owes EXCEPT ![t] = None]
    /\ UNCHANGED <<use, sent, asked, answer>>

(* A signal wakes a blocked task without touching the channel. *)
sys_kill(t) ==
    /\ "kill" \in use.ops /\ st[t][1] = "blocked"
    /\ st' = Woken(t)
    /\ UNCHANGED <<use, end, sent, owes, asked, answer>>

ChNext ==
    \E t \in ChTasks :
        \/ \E e \in Ends :
              \/ sys_channel_send(t, e) \/ sys_channel_receive(t, e) \/ receive_poll(t, e)
              \/ sys_channel_call(t, e) \/ check_reply(t, e) \/ sys_channel_reply(t, e)
        \/ sys_kill(t)

ChSpec == ChInit /\ [][ChNext]_ch_vars

(* User code that keeps receiving on the ends it holds.  Nothing is        *)
(* assumed of polling loops.                                               *)
ReceivingSpec ==
    ChSpec /\ \A t \in ChTasks : WF_ch_vars(\E e \in Ends : sys_channel_receive(t, e))
-----------------------------------------------------------------------------
(* Types, and where messages lie: what is pending at an end was sent from  *)
(* its peer and is the only message there.                                 *)
ChTypeOK ==
    /\ use \in Uses /\ end \in [Ends -> EndState]
    /\ \A t \in ChTasks : st[t] \in {<<"run">>} \cup ({"blocked", "poll", "call"} \X Ends)
    /\ owes \in [ChTasks -> Numbers] /\ asked \in [ChTasks -> Numbers]
    /\ \A i \in 1 .. Len(sent) :
          sent[i].fate = "pending" => end[Peer(sent[i].from)].pending_msg = i

(* No message is delivered twice, whatever mix of blocking, polling and    *)
(* signals the receivers go through, and each is delivered, lost or        *)
(* pending, exactly one of the three.                                      *)
DeliveredOnce ==
    \A i \in 1 .. Len(sent) : sent[i].copies = IF sent[i].fate = "received" THEN 1 ELSE 0

OnePerEnd == \A e \in Ends : Cardinality({t \in ChTasks : e \in use.ends[t]}) = 1

SendsOnly == OnePerEnd /\ use.ops \subseteq {"send", "receive", "kill"}

CallsOnly == OnePerEnd /\ "send" \notin use.ops /\ ~use.unsolicited

(* With one task per end and messages that are only sent, no task sleeps   *)
(* in the blocked queue while a message waits for it: send wakes whoever   *)
(* registered, and a signal in between does no harm.                       *)
NoLostWakeup ==
    SendsOnly => \A t \in ChTasks, e \in Ends :
        st[t] = <<"blocked", e>> => end[e].pending_msg = None

(* With one caller and a peer that replies once to what it received, every *)
(* call returns the reply to its own request, although blocked_caller and  *)
(* pending_reply outlive the call they belong to.                          *)
RepliesMatch == CallsOnly => \A t \in ChTasks : answer[t][1] = answer[t][2]

(* Sends, calls, replies, polls and signals in any order keep the channel  *)
(* exact: each message arrives once, its receiver is awake for it, and     *)
(* each call gets its own reply.                                           *)
ChannelSound == ChTypeOK /\ DeliveredOnce /\ NoLostWakeup /\ RepliesMatch

(* A message does not stay pending: receivers that keep receiving empty    *)
(* the slot again, although being woken returns to user code with nothing  *)
(* and a receiver must come back for the message.                          *)
MessageMovesOn ==
    \A e \in Ends : (SendsOnly /\ end[e].pending_msg # None) ~> (end[e].pending_msg = None)
-----------------------------------------------------------------------------
(* CallResult::Blocked: "Contains the task ID of a receiver that was       *)
(* woken, if any": a receiver that call unregisters does not stay blocked. *)
CallWakesReceiver ==
    [][\A t, u \in ChTasks, e \in Ends :
          (sys_channel_call(t, e) /\ end[Peer(e)].blocked_receiver = u
             /\ end'[Peer(e)].blocked_receiver = None)
          => st'[u] # <<"blocked", Peer(e)>>]_ch_vars
=============================================================================
