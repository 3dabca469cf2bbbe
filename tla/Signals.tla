------------------------------ MODULE Signals -------------------------------
(* Signals and poll: what one task leaves in another's signal state, and the  *)
(* readiness loop with its timeout, over descriptors whose other ends change   *)
(* between two turns of the loop.                                             *)
EXTENDS Naturals, FiniteSets

CONSTANTS SigTasks,           \* tasks
          Signums,            \* valid signal numbers, SIGKILL among them
          BadSignum,          \* a number outside 1..31
          SIGKILL,
          ParentOf,           \* [SigTasks -> a task or NoTask]
          NoTask,
          Timeouts,           \* the timeouts of a poll in ticks; Forever among them
          Forever,
          MaxNow

ASSUME SignalsAssumption ==
    /\ Signums \subseteq Nat /\ SIGKILL \in Signums /\ BadSignum \notin Signums

VARIABLES pending, blocked, handlers,   \* SignalState of each task
          sent,               \* history: signals sent and not yet taken
          ends,               \* [fd -> its state]: see Ready
          poll,               \* the poll in progress: events, timeout, start, or NoTask
          answer,             \* what the last poll returned: per fd, with the ends it saw
          now
sig_vars == <<pending, blocked, handlers, sent>>
poll_vars == <<ends, poll, answer>>
signals_vars == <<sig_vars, poll_vars, now>>

Handlers == {"SIG_DFL", "SIG_IGN", "handler"}
Fds == {"file", "pipe_r", "pipe_w", "socket", "closed"}
EndStates == [file : {"open"}, pipe_r : {"empty", "data"}, pipe_w : {"room", "full"},
              socket : {"connecting", "connected", "listening", "shut"}, closed : {"none"}]
SignalsInit ==
    /\ pending = [t \in SigTasks |-> {}] /\ blocked = [t \in SigTasks |-> {}]
    /\ handlers = [t \in SigTasks |-> [s \in Signums |-> "SIG_DFL"]]
    /\ sent = [t \in SigTasks |-> {}]
    /\ ends = [file |-> "open", pipe_r |-> "empty", pipe_w |-> "room", socket |-> "connecting",
               closed |-> "none"]
    /\ poll = NoTask /\ answer = <<>> /\ now = 0

(* ---------------------------------------------------------------- signals *)
send_signal(p, s) == IF s = BadSignum THEN p ELSE p \cup {s}
\* sys_kill; sys_tgkill adds a check of the group: the target or its parent.
sys_kill(t, s) ==
    /\ s # BadSignum
    /\ pending' = [pending EXCEPT ![t] = send_signal(@, s)]
    /\ sent' = [sent EXCEPT ![t] = @ \cup {s}]
    /\ UNCHANGED <<blocked, handlers, poll_vars, now>>
sys_tgkill(group, t, s) ==
    /\ (group = NoTask \/ group = t \/ ParentOf[t] = group) /\ sys_kill(t, s)
\* SIGKILL is refused.
sys_signal(t, s, h) ==
    /\ s \notin {SIGKILL, BadSignum}
    /\ handlers' = [handlers EXCEPT ![t][s] = h]
    /\ UNCHANGED <<pending, blocked, sent, poll_vars, now>>
\* The old action is written before the new one is read: a bad pointer for either
\* refuses the call, and no pointer leaves the handler alone.
sys_rt_sigaction(t, s, h, act, oact) ==
    /\ s \notin {SIGKILL, BadSignum} /\ "bad" \notin {act, oact}
    /\ handlers' = IF act = "null" THEN handlers ELSE [handlers EXCEPT ![t][s] = h]
    /\ UNCHANGED <<pending, blocked, sent, poll_vars, now>>
sys_sigprocmask(t, how, mask) ==
    /\ blocked' = [blocked EXCEPT ![t] = CASE how = "SIG_BLOCK" -> @ \cup mask
                                           [] how = "SIG_UNBLOCK" -> @ \ mask
                                           [] OTHER -> mask]
    /\ UNCHANGED <<pending, handlers, sent, poll_vars, now>>
\* The lowest pending signal that is not blocked, taken out of the set.
\* Fault: the whole pending set is cleared.
next_pending_All(t) ==
    /\ pending[t] \ blocked[t] # {}
    /\ LET s == CHOOSE s \in pending[t] \ blocked[t] : \A u \in pending[t] \ blocked[t] : s <= u IN
       /\ pending' = [pending EXCEPT ![t] = {}] /\ sent' = [sent EXCEPT ![t] = @ \ {s}]
    /\ UNCHANGED <<blocked, handlers, poll_vars, now>>
next_pending(t) ==
    /\ pending[t] \ blocked[t] # {}
    /\ LET s == CHOOSE s \in pending[t] \ blocked[t] : \A u \in pending[t] \ blocked[t] : s <= u IN
       /\ pending' = [pending EXCEPT ![t] = @ \ {s}] /\ sent' = [sent EXCEPT ![t] = @ \ {s}]
    /\ UNCHANGED <<blocked, handlers, poll_vars, now>>

(* ------------------------------------------------------------------- poll *)
\* revents of one descriptor.  The reading end of a pipe and the writing end are
\* told apart by their path, and the first test is true of both.
Revents(fd, events, state) ==
    CASE fd = "file" -> events
      [] fd = "socket" -> CASE state[fd] = "connected" -> events
                            [] state[fd] = "listening" -> events \cap {"POLLIN"}
                            [] state[fd] = "shut" -> {"POLLERR"}
                            [] OTHER -> {}
      [] fd = "pipe_r" -> IF state[fd] = "data" THEN events \cap {"POLLIN"} ELSE {}
      [] fd = "pipe_w" -> {}
      [] OTHER -> {"POLLERR"}
ScanAll(events, state) == [fd \in DOMAIN events |-> Revents(fd, events[fd], state)]
sys_poll(events, timeout) ==
    /\ poll = NoTask /\ poll' = [events |-> events, timeout |-> timeout, start |-> now]
    /\ answer' = <<>> /\ UNCHANGED <<sig_vars, ends, now>>
\* One turn: ready or non-blocking, then the timeout; otherwise the task yields.
poll_turn ==
    /\ poll # NoTask
    /\ LET revents == ScanAll(poll.events, ends)
           late == poll.timeout # Forever /\ now - poll.start >= poll.timeout
       IN /\ late \/ \E fd \in DOMAIN revents : revents[fd] # {}
          /\ answer' = [revents |-> revents, seen |-> [fd \in DOMAIN revents |-> ends[fd]],
                        events |-> poll.events, late |-> late]
    /\ poll' = NoTask /\ UNCHANGED <<sig_vars, ends, now>>
\* The other ends of the descriptors, while a poll waits or before one; and the timer.
EndChanges ==
    /\ answer = <<>>
    /\ \E fd \in {"pipe_r", "pipe_w", "socket"} : \E s \in {e[fd] : e \in EndStates} :
          ends' = [ends EXCEPT ![fd] = s]
    /\ UNCHANGED <<sig_vars, poll, answer, now>>
SignalsTick == now < MaxNow /\ now' = now + 1 /\ UNCHANGED <<sig_vars, poll_vars>>

Polling == {[fd \in {f} |-> ev] : f \in Fds, ev \in {{"POLLIN"}, {"POLLIN", "POLLOUT"}}}
SignalStep ==
    \/ \E t \in SigTasks, s \in Signums \cup {BadSignum} :
         \/ sys_kill(t, s) \/ (\E g \in SigTasks \cup {NoTask} : sys_tgkill(g, t, s))
         \/ \E h \in Handlers : sys_signal(t, s, h)
              \/ \E act, oact \in {"null", "ok", "bad"} : sys_rt_sigaction(t, s, h, act, oact)
    \/ \E t \in SigTasks : next_pending(t) \/ \E how \in {"SIG_BLOCK", "SIG_UNBLOCK", "SIG_SETMASK"} :
         \E mask \in SUBSET Signums : sys_sigprocmask(t, how, mask)
PollStep ==
    \/ \E ev \in Polling, timeout \in Timeouts : sys_poll(ev, timeout)
    \/ poll_turn \/ EndChanges \/ SignalsTick
SignalsSpec == SignalsInit /\ [][SignalStep \/ PollStep]_signals_vars

(* ------------------------------------------------------------ properties *)
\* A signal once sent stays until it is taken, whatever is masked or unmasked
\* meanwhile, no other signal is taken for it, and nothing changes what SIGKILL
\* does.
SignalsKept ==
    \A t \in SigTasks :
        /\ pending[t] = sent[t]
        /\ handlers[t][SIGKILL] = "SIG_DFL"

\* Poll reports a descriptor only for what was asked or for an error, reports
\* every one that is readable at the time it returns, and reports none only
\* when its time is up.
PollTruthful ==
    answer # <<>> =>
        /\ \A fd \in DOMAIN answer.revents : answer.revents[fd] \subseteq answer.events[fd] \cup {"POLLERR"}
        /\ (\A fd \in DOMAIN answer.revents : answer.revents[fd] = {}) => answer.late
        /\ "pipe_r" \in DOMAIN answer.revents /\ answer.seen["pipe_r"] = "data" =>
              "POLLIN" \in answer.revents["pipe_r"]
        /\ "socket" \in DOMAIN answer.revents /\ answer.seen["socket"] \in {"connected", "listening"} =>
              "POLLIN" \in answer.revents["socket"]

\* Signals and poll tell a task what happened, late or early, and nothing else.
SignalsSound == SignalsKept /\ PollTruthful
=============================================================================
