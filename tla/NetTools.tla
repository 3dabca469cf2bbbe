------------------------------ MODULE NetTools ------------------------------
(* The network programs: nc and curl, which open sockets step by step and      *)
(* must close them on every way out, nc's relay between the console and the    *)
(* connection, and ping, which waits for two answers with a bounded number of   *)
(* looks at whatever frames arrive.                                           *)
EXTENDS Integers, Sequences, FiniteSets, SequencesExt

CONSTANTS
    MAX_RX_ATTEMPTS,    \* ping: looks at the network for one answer
    MAX_RECV_ATTEMPTS,  \* curl: empty answers it waits through
    MAX_RESPONSE,       \* curl: what its buffer holds
    Chunk,              \* nc: bytes of one read
    NcTyped,              \* what is typed at nc's console
    Sent                \* what nc's peer sends: printable bytes are positive

VARIABLES
    nt_use,     \* the program: "client", "listen" (nc), "curl" or "ping"
    step,       \* the step it is at
    open_socks, \* the sockets it has open
    relayed,    \* nc: bytes read from the console, sent, received and printed
    got,        \* curl: bytes received and empty answers so far
    looks,      \* ping: looks for the answer it waits for, the frame in its buffer, the address it learnt
    status      \* its exit status, or "running"

nt_vars == <<nt_use, step, open_socks, relayed, got, looks, status>>

\* The steps of a program in order; a failing step ends it.
Steps == [client |-> <<"resolve", "socket", "connect", "relay">>,
          listen |-> <<"socket", "bind", "listen", "accept", "relay">>,
          curl |-> <<"resolve", "socket", "connect", "send", "receive">>,
          ping |-> <<"arp_send", "arp_wait", "echo_send", "echo_wait">>]
At == Steps[nt_use][step]
NoFrame == [kind |-> "none"]
NtInit ==
    /\ nt_use \in DOMAIN Steps /\ step = 1 /\ open_socks = {} /\ status = "running"
    /\ relayed = [read |-> 0, sent |-> <<>>, received |-> 0, printed |-> <<>>, short |-> FALSE]
    /\ got = [bytes |-> 0, empty |-> 0] /\ looks = [n |-> 0, buf |-> NoFrame, mac |-> "none"]

Advance == step' = step + 1 /\ UNCHANGED <<nt_use, status>>
Opens == {"socket", "accept"}
\* What a program closes when the step fails, as its error arm says.
closes_on_failure == [resolve |-> {}, socket |-> {}, connect |-> {"socket"}, bind |-> {"socket"},
                      listen |-> {"socket"}, accept |-> {"socket"}, send |-> {"socket"}]
succeed ==
    /\ status = "running" /\ At \in DOMAIN closes_on_failure
    /\ open_socks' = open_socks \cup ({At} \cap Opens)
    /\ Advance /\ UNCHANGED <<relayed, got, looks>>
fail ==
    /\ status = "running" /\ At \in DOMAIN closes_on_failure
    /\ open_socks' = open_socks \ closes_on_failure[At]
    /\ status' = "failed" /\ UNCHANGED <<nt_use, step, relayed, got, looks>>

(* ------------------------------------------------------------- nc's relay *)
Min2(a, b) == IF a < b THEN a ELSE b
Printable(bytes) == SelectSeq(bytes, LAMBDA b : b > 0)
\* A read of the console is sent at once; how much of it the socket took is not looked at.
relay_send(taken) ==
    /\ status = "running" /\ At = "relay" /\ relayed.read < Len(NcTyped)
    /\ LET n == Min2(Chunk, Len(NcTyped) - relayed.read)
           bytes == SubSeq(NcTyped, relayed.read + 1, relayed.read + n)
       IN /\ taken <= n
          /\ relayed' = [relayed EXCEPT !.read = @ + n, !.sent = @ \o SubSeq(bytes, 1, taken),
                                        !.short = @ \/ taken < n]
    /\ UNCHANGED <<nt_use, step, open_socks, got, looks, status>>
relay_receive ==
    /\ status = "running" /\ At = "relay" /\ relayed.received < Len(Sent)
    /\ LET n == Min2(Chunk, Len(Sent) - relayed.received)
           bytes == SubSeq(Sent, relayed.received + 1, relayed.received + n)
       IN relayed' = [relayed EXCEPT !.received = @ + n, !.printed = @ \o Printable(bytes)]
    /\ UNCHANGED <<nt_use, step, open_socks, got, looks, status>>
\* The peer's end, or an error of either side, ends the relay; then all is closed.
relay_end ==
    /\ status = "running" /\ At = "relay"
    /\ open_socks' = {} /\ status' = "ok" /\ UNCHANGED <<nt_use, step, relayed, got, looks>>

(* ---------------------------------------------------------- curl's answer *)
curl_receive(n) ==
    /\ status = "running" /\ At = "receive" /\ n <= MAX_RESPONSE - got.bytes
    /\ got' = [got EXCEPT !.bytes = @ + n]
    /\ IF got.bytes + n >= MAX_RESPONSE THEN status' = "ok" /\ open_socks' = {}
       ELSE UNCHANGED <<status, open_socks>>
    /\ UNCHANGED <<nt_use, step, relayed, looks>>
curl_empty ==
    /\ status = "running" /\ At = "receive"
    /\ got' = [got EXCEPT !.empty = @ + 1]
    /\ IF got.empty + 1 >= MAX_RECV_ATTEMPTS
       THEN status' = (IF got.bytes > 0 THEN "ok" ELSE "failed") /\ open_socks' = {}
       ELSE UNCHANGED <<status, open_socks>>
    /\ UNCHANGED <<nt_use, step, relayed, looks>>
curl_end ==
    /\ status = "running" /\ At = "receive"
    /\ open_socks' = {} /\ status' = "ok" /\ UNCHANGED <<nt_use, step, relayed, got, looks>>

(* ------------------------------------------------------------------- ping *)
\* A frame: its kind, who sent it and whom it is for.
NtFrames == [kind : {"arp_reply", "echo_reply", "other"}, from : {"gateway", "host"}, to : {"us", "them"}]
\* Any ARP reply for our address is taken, and any echo reply of the gateway.
parse_arp_reply(f) == f.kind = "arp_reply" /\ f.to = "us"
parse_icmp_echo_reply(f) == f.kind = "echo_reply" /\ f.from = "gateway"
Wanted(f) == IF At = "arp_wait" THEN parse_arp_reply(f) ELSE parse_icmp_echo_reply(f)
ping_send(ok) ==
    /\ status = "running" /\ At \in {"arp_send", "echo_send"}
    /\ IF ok THEN Advance ELSE status' = "failed" /\ UNCHANGED <<nt_use, step>>
    /\ looks' = [looks EXCEPT !.n = 0] /\ UNCHANGED <<open_socks, relayed, got>>
\* A frame that is not wanted and an empty answer both use up a look.
\* Fault: only an empty answer does.
Looked_Empty(f) == [looks EXCEPT !.n = IF f.kind = "none" THEN @ + 1 ELSE @, !.buf = f]
Looked(f) == [looks EXCEPT !.n = @ + 1, !.buf = IF f = NoFrame THEN @ ELSE f,
                           !.mac = IF f.kind # "none" /\ At = "arp_wait" /\ Wanted(f) THEN f.from ELSE @]
ping_wait(f) ==
    /\ status = "running" /\ At \in {"arp_wait", "echo_wait"}
    /\ looks' = Looked(f)
    /\ IF f.kind # "none" /\ Wanted(f)
       THEN IF At = "arp_wait" THEN Advance ELSE status' = "ok" /\ UNCHANGED <<nt_use, step>>
       ELSE /\ status' = (IF Looked(f).n >= MAX_RX_ATTEMPTS THEN "failed" ELSE status)
            /\ UNCHANGED <<nt_use, step>>
    /\ UNCHANGED <<open_socks, relayed, got>>

\* A receive that answers anything but WouldBlock ends the program.
ping_error ==
    /\ status = "running" /\ At \in {"arp_wait", "echo_wait"}
    /\ status' = "failed" /\ UNCHANGED <<nt_use, step, open_socks, relayed, got, looks>>

NtStep ==
    \/ ping_error \/ succeed \/ fail \/ relay_receive \/ relay_end \/ curl_empty \/ curl_end
    \/ \E taken \in 0..Chunk : relay_send(taken)
    \/ \E n \in 1..2 : curl_receive(n)
    \/ \E ok \in BOOLEAN : ping_send(ok)
    \/ \E f \in NtFrames \cup {NoFrame} : ping_wait(f)

(* ------------------------------------------------------------ properties *)
\* A program that has ended has closed what it opened, whichever step failed; nc
\* prints what the peer sent and sends what was typed, in order and without
\* doubling, and all of it unless the socket once took less than it was given.
NothingLeftOpen ==
    /\ status # "running" => open_socks = {}
    /\ relayed.printed = Printable(SubSeq(Sent, 1, relayed.received))
    /\ ~relayed.short => relayed.sent = SubSeq(NcTyped, 1, relayed.read)

\* curl and ping end, whatever the network does: nobody answers, or frames that
\* are for others arrive without end.
ToolsEnd == nt_use \in {"curl", "ping"} ~> status # "running"

\* The network programs leave nothing open and come to an end.
NetToolsSound == []NothingLeftOpen /\ ToolsEnd
=============================================================================
