-------------------------------- MODULE Tcp --------------------------------
(***************************************************************************)
(* The TCP of net/tcp.rs with the socket calls that drive it, on two hosts *)
(* that both run this code: a client that connects and a server that       *)
(* listens on one port.  A connection is named by the client's port, the   *)
(* only part of the key (local_port, remote_addr, remote_port) that varies.*)
(*                                                                         *)
(* The link between the hosts is external.  It is orderly (delivers every  *)
(* segment, in order), lossy (loses some, keeps the order) or disordered   *)
(* (loses, repeats and reorders).                                          *)
(*                                                                         *)
(* Left out: the advertised window is DEFAULT_WINDOW_SIZE on both hosts    *)
(* and the congestion window starts at MAX_SEGMENT_SIZE and only grows, so *)
(* neither limits a segment; periodic_tick (retransmission, keepalive, the *)
(* end of TIME_WAIT) and remove_connection have no caller, so an entry of  *)
(* the connection table stays for ever.                                    *)
(***************************************************************************)
EXTENDS Integers, Sequences, FiniteSets, SequencesExt

CONSTANTS
    TcpPorts,             \* the client's local ports
    MAX_SEGMENT_SIZE,  \* bytes of payload in a segment
    SeqSpan,           \* sequence numbers are taken modulo SeqSpan (2^32)
    INITIAL_SEQ,       \* the first sequence number of every connection
    MaxBuffer,         \* bound on the bytes one host takes in
    TcpUses               \* what the hosts do and over which link

ASSUME TcpConstants ==
    /\ MAX_SEGMENT_SIZE \in Nat \ {0}
    /\ MaxBuffer \in Nat /\ SeqSpan \in Nat /\ INITIAL_SEQ \in 0 .. SeqSpan - 1
    /\ \A u \in TcpUses : /\ u.link \in {"orderly", "lossy", "disordered"}
                       /\ u.ports \subseteq TcpPorts
                       /\ \A h \in {"client", "server"} : u.bytes[h] \in 0 .. MaxBuffer

VARIABLES
    conn,       \* CONNECTIONS of each host, by client port
    listening,  \* the server's port is in PENDING_ACCEPT
    pending,    \* its queue
    socks,      \* sockets in state Connected that name a connection
    link,       \* segments on their way to each host
    tcp_sent,       \* bytes taken by send_data; the n-th byte is the number n
    got,        \* bytes recv_data has handed out
    tcp_use         \* the member of Uses this behaviour follows

tcp_vars == <<conn, listening, pending, socks, link, tcp_sent, got, tcp_use>>

TcpHosts == {"client", "server"}
TcpPeer(h) == IF h = "client" THEN "server" ELSE "client"
Orderly == tcp_use.link = "orderly"
Disordered == tcp_use.link = "disordered"

TcpState == {"Absent", "Closed", "SynSent", "SynReceived", "Established", "FinWait1",
             "FinWait2", "CloseWait", "LastAck", "TimeWait", "Closing"}

wrapping_add(a, n) == (a + n) % SeqSpan
is_seq_before(a, b) == (a - b) % SeqSpan >= SeqSpan \div 2

Segment(k, flags, seq, ack, data) ==
    [port |-> k, flags |-> flags, seq |-> seq, ack |-> ack, data |-> data]
Ack(k, c) == Segment(k, {"ACK"}, c.seq_num, c.ack_num, <<>>)

TcpConnection ==
    [state : TcpState, seq_num : 0 .. SeqSpan - 1, ack_num : 0 .. SeqSpan - 1,
     retransmit_queue : SUBSET (0 .. SeqSpan - 1), recv_buffer : Seq(Nat), reset : BOOLEAN]

\* An entry that is not in the table, and the one new_connection inserts.
Absent == [state |-> "Absent", seq_num |-> INITIAL_SEQ, ack_num |-> 0,
           retransmit_queue |-> {}, recv_buffer |-> <<>>, reset |-> FALSE]
new_connection == [Absent EXCEPT !.state = "Closed"]
Free(h, k) == conn[h][k].state = "Absent"

\* What segs add to the segments on their way to host h.
Sending(h, segs) ==
    [link EXCEPT ![h] = IF Disordered THEN @ \cup Range(segs) ELSE @ \o segs]

-----------------------------------------------------------------------------
(* Segments for a connection in the table.  A handler gives the new entry  *)
(* and the segments it answers with.                                       *)

Silent(c) == [conn |-> c, out |-> <<>>]
Acked(k, c) == [conn |-> c, out |-> <<Ack(k, c)>>]

handle_reset(c) == [c EXCEPT !.state = "Closed", !.retransmit_queue = {},
                             !.recv_buffer = <<>>, !.reset = TRUE]

\* Entries at or below ack leave the queue.
tcp_process_ack(c, s) ==
    IF "ACK" \in s.flags
    THEN [c EXCEPT !.retransmit_queue = {q \in @ : is_seq_before(s.ack, q)}]
    ELSE c

handle_syn_sent(k, c, s) ==
    LET e == [c EXCEPT !.state = "Established", !.seq_num = s.ack,
                       !.ack_num = wrapping_add(s.seq, 1), !.retransmit_queue = {}]
    IN CASE {"SYN", "ACK"} \subseteq s.flags /\ s.ack = wrapping_add(c.seq_num, 1) ->
                [conn |-> [e EXCEPT !.recv_buffer = @ \o s.data], out |-> <<Ack(k, e)>>]
         [] ~({"SYN", "ACK"} \subseteq s.flags) /\ "RST" \in s.flags -> Silent(handle_reset(c))
         [] OTHER -> Silent(c)

Took(c, s) == [c EXCEPT !.recv_buffer = @ \o s.data,
                        !.ack_num = wrapping_add(@, Len(s.data))]

\* The acknowledgement of the SYN-ACK; its payload is taken and not answered.
handle_syn_received(c, s) ==
    CASE "ACK" \in s.flags /\ s.ack = c.seq_num ->
             Silent(Took([c EXCEPT !.state = "Established", !.retransmit_queue = {}], s))
      [] "ACK" \notin s.flags /\ "RST" \in s.flags -> Silent(handle_reset(c))
      [] OTHER -> Silent(c)

Finished(c, s, state) == [c EXCEPT !.ack_num = wrapping_add(s.seq, 1), !.state = state]

\* Payload is appended whatever its sequence number.
handle_established(k, c, s) ==
    LET a == tcp_process_ack(c, s)
    IN CASE "FIN" \in s.flags -> Acked(k, Finished(a, s, "CloseWait"))
         [] "FIN" \notin s.flags /\ s.data # <<>> -> Acked(k, Took(a, s))
         [] OTHER -> Silent(a)

handle_fin_wait1(k, c, s) ==
    LET a == tcp_process_ack(c, s)
    IN CASE "FIN" \in s.flags ->
                Acked(k, Finished(a, s, IF "ACK" \in s.flags THEN "TimeWait" ELSE "Closing"))
         [] "FIN" \notin s.flags /\ "ACK" \in s.flags ->
                Silent([a EXCEPT !.state = "FinWait2", !.retransmit_queue = {}])
         [] OTHER -> Silent(a)

\* Fault: the peer's FIN is not acknowledged.
handle_fin_wait2_Mute(k, c, s) ==
    Silent(IF "FIN" \in s.flags THEN Finished(c, s, "TimeWait") ELSE c)

handle_fin_wait2(k, c, s) ==
    IF "FIN" \in s.flags THEN Acked(k, Finished(c, s, "TimeWait")) ELSE Silent(c)

handle_close_wait(c, s) == Silent(tcp_process_ack(c, s))

handle_last_ack(c, s) ==
    Silent(IF "ACK" \in s.flags THEN [c EXCEPT !.state = "Closed", !.retransmit_queue = {}] ELSE c)

handle_closing(c, s) ==
    Silent(IF "ACK" \in s.flags THEN [c EXCEPT !.state = "TimeWait", !.retransmit_queue = {}] ELSE c)

Handled(k, c, s) ==
    CASE c.state = "SynSent" -> handle_syn_sent(k, c, s)
      [] c.state = "SynReceived" -> handle_syn_received(c, s)
      [] c.state = "Closed" -> Silent(c)
      [] c.state \notin {"SynSent", "SynReceived", "Closed"} /\ "RST" \in s.flags ->
             Silent(handle_reset(c))
      [] OTHER ->
             CASE c.state = "Established" -> handle_established(k, c, s)
               [] c.state = "FinWait1" -> handle_fin_wait1(k, c, s)
               [] c.state = "FinWait2" -> handle_fin_wait2(k, c, s)
               [] c.state = "CloseWait" -> handle_close_wait(c, s)
               [] c.state = "LastAck" -> handle_last_ack(c, s)
               [] c.state = "TimeWait" -> Acked(k, c)
               [] c.state = "Closing" -> handle_closing(c, s)

-----------------------------------------------------------------------------
(* Segments for a connection that is not in the table.                     *)

PureSyn(s) == "SYN" \in s.flags /\ {"ACK", "RST"} \cap s.flags = {}

send_reset(k, s) ==
    LET seg_len == Len(s.data) + (IF "SYN" \in s.flags THEN 1 ELSE 0)
    IN CASE "RST" \in s.flags -> <<>>
         [] ~PureSyn(s) /\ "RST" \notin s.flags /\ "ACK" \in s.flags ->
                <<Segment(k, {"RST"}, s.ack, 0, <<>>)>>
         [] OTHER -> <<Segment(k, {"RST", "ACK"}, 0, wrapping_add(s.seq, seg_len), <<>>)>>

handle_passive_syn(s) ==
    [new_connection EXCEPT !.state = "SynReceived", !.retransmit_queue = {INITIAL_SEQ},
                           !.seq_num = wrapping_add(INITIAL_SEQ, 1),
                           !.ack_num = wrapping_add(s.seq, 1)]
SynAck(k, s) ==
    Segment(k, {"SYN", "ACK"}, INITIAL_SEQ, wrapping_add(s.seq, 1), <<>>)

-----------------------------------------------------------------------------
(* net_service_loop hands each frame to handle_tcp_packet.                 *)

\* Segments the link may deliver to h now.
Arriving(h) ==
    IF Disordered THEN link[h] ELSE IF link[h] = <<>> THEN {} ELSE {Head(link[h])}

\* h takes the segment and answers with out.
Exchange(h, out) ==
    link' = IF Disordered
            THEN [link EXCEPT ![TcpPeer(h)] = @ \cup Range(out)]
            ELSE [link EXCEPT ![h] = Tail(@), ![TcpPeer(h)] = @ \o out]

Known(h, s) == ~Free(h, s.port)

\* A segment of a connection in the table.
handle_known(h) ==
    \E s \in Arriving(h) :
        LET k == s.port
            r == Handled(k, conn[h][k], s)
        IN /\ Known(h, s)
           /\ Len(got[h][k]) + Len(r.conn.recv_buffer) <= MaxBuffer
           /\ conn' = [conn EXCEPT ![h][k] = r.conn]
           /\ Exchange(h, r.out)
           /\ UNCHANGED <<listening, pending, socks, tcp_sent, got, tcp_use>>

\* A SYN for the listening port: the new connection is queued for accept at
\* once, before the handshake is over.
handle_syn(h) ==
    \E s \in Arriving(h) :
        /\ ~Known(h, s) /\ PureSyn(s) /\ h = "server" /\ listening
        /\ conn' = [conn EXCEPT ![h][s.port] = handle_passive_syn(s)]
        /\ pending' = Append(pending, s.port)
        /\ Exchange(h, <<SynAck(s.port, s)>>)
        /\ UNCHANGED <<listening, socks, tcp_sent, got, tcp_use>>

\* Any other segment for an unknown connection.
handle_unknown(h) ==
    \E s \in Arriving(h) :
        /\ ~Known(h, s) /\ ~(PureSyn(s) /\ h = "server" /\ listening)
        /\ Exchange(h, send_reset(s.port, s))
        /\ UNCHANGED <<conn, listening, pending, socks, tcp_sent, got, tcp_use>>

handle_tcp_packet(h) == handle_known(h) \/ handle_syn(h) \/ handle_unknown(h)

\* A lossy link loses the next segment.
lose(h) ==
    /\ tcp_use.link = "lossy" /\ link[h] # <<>>
    /\ link' = [link EXCEPT ![h] = Tail(@)]
    /\ UNCHANGED <<conn, listening, pending, socks, tcp_sent, got, tcp_use>>

-----------------------------------------------------------------------------
(* System calls of the two applications that change something.  A socket   *)
(* connects once, and sendto names no other destination.  accept with an   *)
(* empty queue halts inside the call and does not return.                  *)

\* The server's socket is bound to the port already.
sys_listen ==
    /\ ~listening
    /\ listening' = TRUE /\ pending' = <<>>
    /\ UNCHANGED <<conn, socks, link, tcp_sent, got, tcp_use>>

\* Closing the listening socket drops its queue, not the connections in it.
close_listener ==
    /\ listening
    /\ listening' = FALSE /\ pending' = <<>>
    /\ UNCHANGED <<conn, socks, link, tcp_sent, got, tcp_use>>

\* connect: the entry, with its SYN queued for retransmission.
connect == [new_connection EXCEPT !.state = "SynSent", !.retransmit_queue = {INITIAL_SEQ}]

\* connect on a socket bound to k, or on an unbound one when k is the port
\* allocate_local_port finds.  The answer does not wait for the handshake.
sys_connect(k) ==
    /\ k \in tcp_use.ports /\ Free("client", k)
    /\ conn' = [conn EXCEPT !["client"][k] = connect]
    /\ socks' = [socks EXCEPT !["client"][k] = @ + 1]
    /\ link' = Sending("server", <<Segment(k, {"SYN"}, INITIAL_SEQ, 0, <<>>)>>)
    /\ UNCHANGED <<listening, pending, tcp_sent, got, tcp_use>>

\* The head of the queue, whether its handshake is over or not.
sys_accept ==
    /\ listening /\ pending # <<>>
    /\ pending' = Tail(pending)
    /\ socks' = [socks EXCEPT !["server"][Head(pending)] = @ + 1]
    /\ UNCHANGED <<conn, listening, link, tcp_sent, got, tcp_use>>

\* Fault: each segment is cut from the start of the data.
Chunks_Restart(k, c, from, n, m) ==
    [i \in 1 .. m |->
        LET first == (i - 1) * MAX_SEGMENT_SIZE
            size == IF n - first < MAX_SEGMENT_SIZE THEN n - first ELSE MAX_SEGMENT_SIZE
        IN Segment(k, {"PSH", "ACK"}, wrapping_add(c.seq_num, first), c.ack_num,
                   [j \in 1 .. size |-> from + j])]

\* The n bytes after the first `from', cut into segments, of which the first
\* m go out; c gives the numbers.
Chunks(k, c, from, n, m) ==
    [i \in 1 .. m |->
        LET first == (i - 1) * MAX_SEGMENT_SIZE
            size == IF n - first < MAX_SEGMENT_SIZE THEN n - first ELSE MAX_SEGMENT_SIZE
        IN Segment(k, {"PSH", "ACK"}, wrapping_add(c.seq_num, first), c.ack_num,
                   [j \in 1 .. size |-> from + first + j])]

\* When send_data and recv_data do not fail.
send_data(c) == ~c.reset /\ c.state = "Established"
recv_data(c) == ~c.reset /\ c.state \in {"Established", "CloseWait"}

\* sendto with n bytes: the loop cuts a segment while bytes are left.  The
\* driver may refuse a frame, and the call then answers with what went out
\* before it.
sys_sendto(h, k, n) ==
    LET c == conn[h][k]
    IN /\ socks[h][k] > 0 /\ send_data(c)
       /\ tcp_sent[h][k] + n <= tcp_use.bytes[h]
       /\ \E m \in 1 .. n :
             LET out == Chunks(k, c, tcp_sent[h][k], n, m)
                 total_sent == IF m * MAX_SEGMENT_SIZE < n THEN m * MAX_SEGMENT_SIZE ELSE n
             IN /\ (m - 1) * MAX_SEGMENT_SIZE < n
                /\ conn' = [conn EXCEPT
                       ![h][k].retransmit_queue = @ \cup {s.seq : s \in Range(out)},
                       ![h][k].seq_num = wrapping_add(@, total_sent)]
                /\ tcp_sent' = [tcp_sent EXCEPT ![h][k] = @ + total_sent]
                /\ link' = Sending(TcpPeer(h), out)
       /\ UNCHANGED <<listening, pending, socks, got, tcp_use>>

\* recvfrom with room for n bytes.
sys_recvfrom(h, k, n) ==
    LET buffer == conn[h][k].recv_buffer
        to_copy == IF Len(buffer) < n THEN Len(buffer) ELSE n
    IN /\ socks[h][k] > 0 /\ recv_data(conn[h][k]) /\ to_copy > 0
       /\ got' = [got EXCEPT ![h][k] = @ \o SubSeq(buffer, 1, to_copy)]
       /\ conn' = [conn EXCEPT ![h][k].recv_buffer = SubSeq(buffer, to_copy + 1, Len(buffer))]
       /\ UNCHANGED <<listening, pending, socks, link, tcp_sent, tcp_use>>

\* close: in any other state it fails, and sys_close_sock ignores that.
Closed(c) ==
    IF c.state \in {"Established", "CloseWait"}
    THEN [c EXCEPT !.state = IF c.state = "Established" THEN "FinWait1" ELSE "LastAck",
                   !.seq_num = wrapping_add(@, 1)]
    ELSE c
Fin(k, c) ==
    IF c.state \in {"Established", "CloseWait"}
    THEN <<Segment(k, {"FIN", "ACK"}, c.seq_num, c.ack_num, <<>>)>> ELSE <<>>

sys_close_sock(h, k) ==
    /\ socks[h][k] > 0
    /\ socks' = [socks EXCEPT ![h][k] = @ - 1]
    /\ conn' = [conn EXCEPT ![h][k] = Closed(@)]
    /\ link' = Sending(TcpPeer(h), Fin(k, conn[h][k]))
    /\ UNCHANGED <<listening, pending, tcp_sent, got, tcp_use>>

-----------------------------------------------------------------------------
TcpInit ==
    /\ tcp_use \in TcpUses
    /\ conn = [h \in TcpHosts |-> [k \in TcpPorts |-> Absent]]
    /\ listening = FALSE /\ pending = <<>>
    /\ socks = [h \in TcpHosts |-> [k \in TcpPorts |-> 0]]
    /\ link = [h \in TcpHosts |-> IF Disordered THEN {} ELSE <<>>]
    /\ tcp_sent = [h \in TcpHosts |-> [k \in TcpPorts |-> 0]]
    /\ got = [h \in TcpHosts |-> [k \in TcpPorts |-> <<>>]]

TcpNext ==
    \/ \E h \in TcpHosts : handle_tcp_packet(h) \/ lose(h)
    \/ sys_listen \/ close_listener \/ sys_accept
    \/ \E k \in TcpPorts : sys_connect(k)
    \/ \E h \in TcpHosts, k \in TcpPorts :
          \/ \E n \in 1 .. MaxBuffer : sys_sendto(h, k, n) \/ sys_recvfrom(h, k, n)
          \/ sys_close_sock(h, k)

\* net_service_loop polls the driver for ever: what arrives is handled.
TcpFairness == \A h \in TcpHosts : WF_tcp_vars(handle_tcp_packet(h))

TcpSpec == TcpInit /\ [][TcpNext]_tcp_vars /\ TcpFairness

-----------------------------------------------------------------------------
Bytes(h, k) == got[h][k] \o conn[h][k].recv_buffer
Open == TcpState \ {"Absent", "Closed", "SynSent", "SynReceived"}
InFlight(h, k) == Disordered \/ \E i \in 1 .. Len(link[h]) : link[h][i].port = k

(* Numbers stay in their range, entries and sockets are well formed, and   *)
(* only connections in the table wait for accept.                          *)
TcpTypeOK ==
    /\ \A h \in TcpHosts, k \in TcpPorts : conn[h][k] \in TcpConnection
    /\ listening \in BOOLEAN /\ pending \in Seq(TcpPorts)
    /\ socks \in [TcpHosts -> [TcpPorts -> Nat]]
    /\ tcp_sent \in [TcpHosts -> [TcpPorts -> 0 .. MaxBuffer]]
    /\ \A h \in TcpHosts, k \in TcpPorts : got[h][k] \in Seq(Nat)
    /\ \A k \in Range(pending) : ~Free("server", k)

(* What the application reads is what the peer's application wrote: on an  *)
(* orderly link a prefix of it, on a lossy one a part of it in order and   *)
(* without repetition, on a disordered one at least nothing else.          *)
ReadsWhatWasWritten ==
    \A h \in TcpHosts, k \in TcpPorts :
        LET b == Bytes(h, k)
        IN /\ \A i \in 1 .. Len(b) : b[i] \in 1 .. tcp_sent[TcpPeer(h)][k]
           /\ ~Disordered => \A i \in 1 .. Len(b) - 1 : b[i] < b[i + 1]
           /\ Orderly => \A i \in 1 .. Len(b) : b[i] = i

(* An end opens only after the handshake reached the other end: a client   *)
(* beyond SynSent has a server entry, a server beyond SynReceived has a    *)
(* client that saw its SYN-ACK.  Holds on every link.                      *)
OpensTogether ==
    \A k \in TcpPorts :
        /\ conn["client"][k].state \in Open => ~Free("server", k)
        /\ conn["server"][k].state \in Open => conn["client"][k].state \in Open \cup {"Closed"}

(* A SYN that arrives twice does not make a second connection: accept      *)
(* hands each connection out once.  Holds on every link.                   *)
AcceptedOnce ==
    \A k \in TcpPorts :
        /\ socks["server"][k] <= 1
        /\ Cardinality({i \in DOMAIN pending : pending[i] = k}) + socks["server"][k] <= 1

(* When both ends are Established and no segment is on its way, an orderly *)
(* link leaves nothing open: each end expects the number the other sends   *)
(* next, everything written has arrived and nothing waits for              *)
(* retransmission.                                                         *)
Settled ==
    \A h \in TcpHosts, k \in TcpPorts :
        (/\ Orderly
         /\ \A g \in TcpHosts : conn[g][k].state = "Established" /\ ~InFlight(g, k))
        => /\ conn[h][k].ack_num = conn[TcpPeer(h)][k].seq_num
           /\ conn[h][k].retransmit_queue = {}
           /\ Len(Bytes(h, k)) = tcp_sent[TcpPeer(h)][k]

(* Connections at any time: streams in order, both ends open or neither,   *)
(* each accepted once, and nothing outstanding when all is quiet.          *)
TcpSound == TcpTypeOK /\ ReadsWhatWasWritten /\ OpensTogether /\ AcceptedOnce /\ Settled

(* Once the applications stop, connections over an orderly link come to    *)
(* rest: every SYN and FIN has been answered and no segment is on its way, *)
(* except between two ends in TimeWait, which answer each other's ACKs for *)
(* ever.                                                                   *)
ComesToRest ==
    <>[](Orderly => \A k \in TcpPorts :
            /\ \A h \in TcpHosts : conn[h][k].state \notin {"SynSent", "FinWait1", "LastAck"}
            /\ \/ \A h \in TcpHosts : ~InFlight(h, k)
               \/ \A h \in TcpHosts : conn[h][k].state = "TimeWait")
=============================================================================
