----------------------------- MODULE TcpProofs ------------------------------
(***************************************************************************)
(* TcpSound for every number of ports, segment size, number space and use. *)
(***************************************************************************)
EXTENDS Tcp, ProofLemmas, SequenceTheorems, FiniteSetTheorems, TLAPS

(* ------------------------------------------------------------- invariants *)

\* States of an entry whose handshake is over.
Late == Open \cup {"Closed"}

Segs == [port : TcpPorts, flags : SUBSET {"SYN", "ACK", "RST", "FIN", "PSH"},
         seq : 0 .. SeqSpan - 1, ack : 0 .. SeqSpan - 1, data : Seq(Nat)]

\* The segments on their way to h, whatever the link.
OnWay(h) == IF Disordered THEN link[h] ELSE Range(link[h])

\* The number of the byte after the first n.
Nth(n) == (INITIAL_SEQ + 1 + n) % SeqSpan

TcpTyped ==
    /\ tcp_use \in TcpUses
    /\ conn \in [TcpHosts -> [TcpPorts -> TcpConnection]]
    /\ listening \in BOOLEAN /\ pending \in Seq(TcpPorts)
    /\ socks \in [TcpHosts -> [TcpPorts -> Nat]]
    /\ tcp_sent \in [TcpHosts -> [TcpPorts -> 0 .. MaxBuffer]]
    /\ got \in [TcpHosts -> [TcpPorts -> Seq(Nat)]]
    /\ link \in [TcpHosts -> IF Disordered THEN SUBSET Segs ELSE Seq(Segs)]

\* What a segment on its way says about the two ends.
SegmentSound(h, s) ==
    /\ ~Free("client", s.port)
    /\ s.data # <<>> => s.flags = {"PSH", "ACK"}
    /\ \A j \in 1 .. Len(s.data) : /\ s.data[j] \in 1 .. tcp_sent[TcpPeer(h)][s.port]
                                   /\ s.data[j] = s.data[1] + (j - 1)
    /\ "SYN" \in s.flags => s.seq = INITIAL_SEQ
    /\ h = "client" /\ "SYN" \in s.flags => ~Free("server", s.port)
    /\ h = "client" /\ "FIN" \in s.flags => conn["server"][s.port].state \in Late
    /\ h = "server" /\ "ACK" \in s.flags =>
          /\ conn["client"][s.port].state \in Late /\ ~Free("server", s.port)
          /\ conn["server"][s.port].state = "SynReceived" => s.ack = Nth(0)

\* What the two entries of a connection say about each other.
EndsSound(k) ==
    /\ Free("client", k) => Free("server", k)
    /\ conn["client"][k].state \in Open => ~Free("server", k)
    /\ conn["server"][k].state \in Open => conn["client"][k].state \in Late
    /\ conn["server"][k].state = "SynReceived" /\ conn["client"][k].state \in Open
          => conn["client"][k].ack_num = Nth(0)
    /\ tcp_sent["server"][k] > 0 => conn["client"][k].state \in Late
    /\ tcp_sent["client"][k] > 0 => ~Free("server", k)

\* The numbers of an entry count the bytes it sent and took.
EntrySound(h, k) ==
    LET c == conn[h][k]
    IN /\ c.state = "Absent" => c = Absent /\ got[h][k] = <<>>
       /\ c.state = "SynSent" => h = "client" /\ c.seq_num = INITIAL_SEQ /\ Bytes(h, k) = <<>>
       /\ c.state = "SynReceived" => h = "server"
       /\ tcp_sent[h][k] > 0 => c.state \in Late
       /\ c.state \in {"SynReceived", "Established"} =>
             c.seq_num = Nth(tcp_sent[h][k]) /\ c.ack_num = Nth(Len(Bytes(h, k)))
       /\ \A i \in 1 .. Len(Bytes(h, k)) : Bytes(h, k)[i] \in 1 .. tcp_sent[TcpPeer(h)][k]

LinksSound ==
    /\ \A h \in TcpHosts : \A s \in OnWay(h) : SegmentSound(h, s)
    /\ \A k \in TcpPorts : EndsSound(k)
    /\ \A h \in TcpHosts, k \in TcpPorts : EntrySound(h, k)

\* A connection is queued or accepted once.
AcceptSound ==
    /\ \A i, j \in DOMAIN pending : pending[i] = pending[j] => i = j
    /\ \A i \in DOMAIN pending : ~Free("server", pending[i]) /\ socks["server"][pending[i]] = 0
    /\ \A k \in TcpPorts : socks["server"][k] <= 1
    /\ \A k \in TcpPorts : socks["server"][k] > 0 => ~Free("server", k)

\* Bytes in flight follow the bytes taken, and later segments earlier ones.
InOrder(h, k) ==
    /\ \A i \in 1 .. Len(Bytes(h, k)) - 1 : Bytes(h, k)[i] < Bytes(h, k)[i + 1]
    /\ \A i \in DOMAIN link[h] : link[h][i].port = k =>
          \A a \in DOMAIN Bytes(h, k), b \in DOMAIN link[h][i].data : Bytes(h, k)[a] < link[h][i].data[b]
    /\ \A i, j \in DOMAIN link[h] : link[h][i].port = k /\ link[h][j].port = k /\ i < j =>
          \A a \in DOMAIN link[h][i].data, b \in DOMAIN link[h][j].data :
              link[h][i].data[a] < link[h][j].data[b]
StreamsInOrder == ~Disordered => \A h \in TcpHosts, k \in TcpPorts : InOrder(h, k)

\* On an orderly link every byte an end can still take has been taken or is in
\* flight; and when less than half the number space is ever in use, every
\* entry of its queue waits for a byte or for its ACK.
Listens(h, k) == conn[h][k].state \in {"SynSent", "SynReceived", "Established"}
Carried(h, k, v) ==
    \E i \in DOMAIN link[h] : link[h][i].port = k /\ \E a \in DOMAIN link[h][i].data : link[h][i].data[a] = v
AckOnWay(h, k, o) ==
    \E i \in DOMAIN link[h] : /\ link[h][i].port = k /\ "ACK" \in link[h][i].flags
                              /\ \E b \in o + 1 .. tcp_sent[h][k] : link[h][i].ack = Nth(b)
BareAck(k) ==
    \E i \in DOMAIN link["server"] :
        /\ link["server"][i].port = k /\ "ACK" \in link["server"][i].flags
        /\ \A j \in 1 .. i : link["server"][j].port = k => link["server"][j].data = <<>>
Outstanding(h, k, q) ==
    \E o \in 0 .. tcp_sent[h][k] - 1 :
        q = Nth(o) /\ (o >= Len(Bytes(TcpPeer(h), k)) \/ AckOnWay(h, k, o))
Gapless(h, k) ==
    /\ \A i \in 1 .. Len(Bytes(h, k)) : Bytes(h, k)[i] = i
    /\ Listens(h, k) => \A v \in Len(Bytes(h, k)) + 1 .. tcp_sent[TcpPeer(h)][k] : Carried(h, k, v)
HandshakeBare(k) ==
    conn["server"][k].state = "SynReceived" /\ conn["client"][k].state \in Open => BareAck(k)
QueueSound(h, k) ==
    ( /\ MaxBuffer < SeqSpan \div 2
      /\ conn[h][k].state = "Established"
      /\ conn[TcpPeer(h)][k].state \in {"SynReceived", "Established"} )
    => \A q \in conn[h][k].retransmit_queue : Outstanding(h, k, q)
NothingLost == Orderly =>
    /\ \A h \in TcpHosts, k \in TcpPorts : Gapless(h, k)
    /\ \A k \in TcpPorts : HandshakeBare(k)
    /\ \A h \in TcpHosts, k \in TcpPorts : QueueSound(h, k)

(* ---------------------------------------------------------------- numbers *)

(* A remainder is in range and differs from its number by a multiple. *)
LEMMA ModParts ==
    ASSUME NEW S \in Nat \ {0}, NEW a \in Int
    PROVE  a % S \in 0 .. S - 1 /\ a \div S \in Int /\ a = (a \div S) * S + (a % S)
  OBVIOUS

(* Quotient and remainder are unique. *)
LEMMA ModUnique ==
    ASSUME NEW S \in Nat \ {0}, NEW q \in Int, NEW r \in 0 .. S - 1,
           NEW p \in Int, NEW t \in 0 .. S - 1, q * S + r = p * S + t
    PROVE  r = t
  OBVIOUS

(* Numbers that differ by a multiple have the same remainder. *)
LEMMA ModCongruent ==
    ASSUME NEW S \in Nat \ {0}, NEW a \in Int, NEW b \in Int, NEW q \in Int, a = b + q * S
    PROVE  a % S = b % S
<1>1. a \div S \in Int /\ b \div S \in Int /\ a % S \in 0 .. S - 1 /\ b % S \in 0 .. S - 1
  BY ModParts
<1>2. a = (a \div S) * S + (a % S) /\ b = (b \div S) * S + (b % S)
  BY ModParts
<1>3. PICK u \in Int, v \in Int, r \in 0 .. S - 1, t \in 0 .. S - 1 :
        u = a \div S /\ v = b \div S /\ r = a % S /\ t = b % S
  BY <1>1
<1>4. u * S + r = v * S + t + q * S /\ v + q \in Int
  BY <1>2, <1>3
<1>5. v * S + q * S = (v + q) * S
  BY <1>3
<1>6. v * S \in Int /\ q * S \in Int /\ u * S \in Int
  OBVIOUS
<1>7. u * S + r = (v + q) * S + t
  BY <1>4, <1>5, <1>6
<1>8. r = t
  BY <1>4, <1>7, ModUnique
<1>9. QED BY <1>3, <1>8

(* Adding to a remainder is adding to its number. *)
LEMMA ModAdd ==
    ASSUME NEW S \in Nat \ {0}, NEW a \in Int, NEW b \in Int
    PROVE  ((a % S) + b) % S = (a + b) % S
<1>1. PICK q \in Int, r \in 0 .. S - 1 : a = q * S + r /\ r = a % S
  BY ModParts
<1>2. q * S \in Int /\ r + b \in Int /\ a + b \in Int /\ a + b = (r + b) + q * S
  BY <1>1
<1>3. (a + b) % S = (r + b) % S
  BY <1>2, ModCongruent
<1>4. QED BY <1>1, <1>3

(* A number in range is its own remainder. *)
LEMMA ModSmall ==
    ASSUME NEW S \in Nat \ {0}, NEW a \in 0 .. S - 1
    PROVE  a % S = a
  OBVIOUS

(* The difference of two remainders is that of their numbers. *)
LEMMA ModDiff ==
    ASSUME NEW S \in Nat \ {0}, NEW a \in Int, NEW b \in Int
    PROVE  ((a % S) - (b % S)) % S = (a - b) % S
<1>1. PICK q \in Int, r \in 0 .. S - 1 : a = q * S + r /\ r = a % S
  BY ModParts
<1>2. PICK p \in Int, t \in 0 .. S - 1 : b = p * S + t /\ t = b % S
  BY ModParts
<1>3. q * S \in Int /\ p * S \in Int /\ (q - p) * S = q * S - p * S /\ q - p \in Int
  OBVIOUS
<1>4. a - b \in Int /\ r - t \in Int /\ a - b = (r - t) + (q - p) * S
  BY <1>1, <1>2, <1>3
<1>5. (a - b) % S = (r - t) % S
  BY <1>3, <1>4, ModCongruent
<1>6. QED BY <1>1, <1>2, <1>5

LEMMA SpanType == SeqSpan \in Nat \ {0} /\ INITIAL_SEQ \in Nat /\ INITIAL_SEQ \in 0 .. SeqSpan - 1
  BY TcpConstants

(* Sequence numbers are in range, and adding to one counts on. *)
LEMMA AddType == \A a \in Int, n \in Int : wrapping_add(a, n) \in 0 .. SeqSpan - 1
<1>1. ASSUME NEW a \in Int, NEW n \in Int PROVE wrapping_add(a, n) \in 0 .. SeqSpan - 1
  <2>1. a + n \in Int
    OBVIOUS
  <2>2. QED BY <2>1, SpanType, ModParts DEF wrapping_add
<1>2. QED BY <1>1

LEMMA AddOne == \A a \in Int : wrapping_add(a, 1) \in 0 .. SeqSpan - 1
  BY AddType

LEMMA NthType == \A n \in Nat : Nth(n) \in 0 .. SeqSpan - 1
<1>1. ASSUME NEW n \in Nat PROVE Nth(n) \in 0 .. SeqSpan - 1
  <2>1. INITIAL_SEQ + 1 + n \in Int
    BY SpanType
  <2>2. QED BY <2>1, SpanType, ModParts DEF Nth
<1>2. QED BY <1>1

LEMMA NthAdd ==
    ASSUME NEW n \in Nat, NEW m \in Nat
    PROVE  wrapping_add(Nth(n), m) = Nth(n + m)
<1>1. INITIAL_SEQ + 1 + n \in Int /\ m \in Int /\ n + m \in Nat
  BY SpanType
<1>2. (((INITIAL_SEQ + 1 + n) % SeqSpan) + m) % SeqSpan = (INITIAL_SEQ + 1 + n + m) % SeqSpan
  BY <1>1, SpanType, ModAdd
<1>3. INITIAL_SEQ + 1 + n + m = INITIAL_SEQ + 1 + (n + m)
  BY SpanType
<1>4. QED BY <1>2, <1>3 DEF Nth, wrapping_add

LEMMA NthZero == wrapping_add(INITIAL_SEQ, 1) = Nth(0)
<1>1. INITIAL_SEQ + 1 = INITIAL_SEQ + 1 + 0
  BY SpanType
<1>2. QED BY <1>1 DEF Nth, wrapping_add

(* Nothing is added by no bytes. *)
LEMMA AddZero ==
    ASSUME NEW a \in 0 .. SeqSpan - 1
    PROVE  wrapping_add(a, 0) = a
<1>1. a + 0 = a
  BY SpanType
<1>2. QED BY <1>1, SpanType, ModSmall DEF wrapping_add

(* A byte acknowledged by a number less than half the space ahead of it is  *)
(* not after that number.                                                   *)
LEMMA NthBefore ==
    ASSUME NEW o \in Nat, NEW b \in Nat, o < b, b - o < SeqSpan \div 2
    PROVE  ~is_seq_before(Nth(b), Nth(o))
<1>1. SeqSpan \div 2 \in Nat /\ SeqSpan \div 2 <= SeqSpan
  BY SpanType
<1>2. b - o \in 0 .. SeqSpan - 1 /\ ~(b - o >= SeqSpan \div 2)
  BY <1>1, SpanType
<1>3. INITIAL_SEQ + 1 + b \in Int /\ INITIAL_SEQ + 1 + o \in Int
        /\ (INITIAL_SEQ + 1 + b) - (INITIAL_SEQ + 1 + o) = b - o
  BY SpanType
<1>4. (Nth(b) - Nth(o)) % SeqSpan = (b - o) % SeqSpan
  BY <1>3, SpanType, ModDiff DEF Nth
<1>5. (b - o) % SeqSpan = b - o
  BY <1>2, SpanType, ModSmall
<1>6. QED BY <1>2, <1>4, <1>5 DEF is_seq_before

(* --------------------------------------------- what a handler makes of c *)

\* The segment changes nothing.
Ignores(c, s, d) ==
    /\ d = c /\ c.state # "Established"
    /\ c.state = "SynReceived" => ~("ACK" \in s.flags /\ s.ack = c.seq_num)
\* A reset ends the connection.
Resets(c, s, d) ==
    /\ d.state = "Closed" /\ d.recv_buffer = <<>> /\ d.retransmit_queue = {}
\* The client's handshake is over.
Opens(c, s, d) ==
    /\ c.state = "SynSent" /\ {"SYN", "ACK"} \subseteq s.flags /\ d.state = "Established"
    /\ s.ack = wrapping_add(c.seq_num, 1) /\ d.seq_num = s.ack
    /\ d.ack_num = wrapping_add(s.seq, 1) /\ d.retransmit_queue = {}
    /\ d.recv_buffer = c.recv_buffer \o s.data
\* The payload is taken.
Takes(c, s, d) ==
    /\ d.state = "Established" /\ d.seq_num = c.seq_num
    /\ d.ack_num = wrapping_add(c.ack_num, Len(s.data))
    /\ d.recv_buffer = c.recv_buffer \o s.data
\* The server's handshake is over.
Accepts(c, s, d) ==
    /\ c.state = "SynReceived" /\ "ACK" \in s.flags /\ s.ack = c.seq_num
    /\ d.retransmit_queue = {} /\ Takes(c, s, d)
\* A segment in state Established.
Continues(c, s, d) ==
    /\ c.state = "Established" /\ Takes(c, s, d)
    /\ d.retransmit_queue \subseteq c.retransmit_queue
    /\ "ACK" \in s.flags => \A q \in d.retransmit_queue : is_seq_before(s.ack, q)
\* The connection is about to end: payload is no longer taken.
Ends(c, s, d) ==
    /\ c.state \in Open /\ d.state \in Late \ {"Established"}
    /\ d.recv_buffer = c.recv_buffer
    /\ d.ack_num = c.ack_num \/ "FIN" \in s.flags

HandledAs(k, c, s, d, out) ==
    /\ d.state # "Absent"
    /\ out = <<>> \/ (out = <<Ack(k, d)>> /\ d.state \in Open)
    /\ \/ Ignores(c, s, d) \/ Resets(c, s, d) \/ Ends(c, s, d)
       \/ Opens(c, s, d) /\ out = <<Ack(k, d)>>
       \/ Accepts(c, s, d)
       \/ Continues(c, s, d) /\ (s.data # <<>> => out = <<Ack(k, d)>>)

(* Every handler does one of these. *)
LEMMA ProcessAck ==
    ASSUME NEW c \in TcpConnection, NEW s \in Segs
    PROVE  /\ tcp_process_ack(c, s) \in TcpConnection
           /\ tcp_process_ack(c, s).state = c.state /\ tcp_process_ack(c, s).seq_num = c.seq_num
           /\ tcp_process_ack(c, s).ack_num = c.ack_num
           /\ tcp_process_ack(c, s).recv_buffer = c.recv_buffer
           /\ tcp_process_ack(c, s).retransmit_queue \subseteq c.retransmit_queue
           /\ "ACK" \in s.flags => \A q \in tcp_process_ack(c, s).retransmit_queue : is_seq_before(s.ack, q)
<1>1. CASE "ACK" \in s.flags
  <2> DEFINE Q == {q \in c.retransmit_queue : is_seq_before(s.ack, q)}
  <2>1. tcp_process_ack(c, s) = [c EXCEPT !.retransmit_queue = Q]
    BY <1>1 DEF tcp_process_ack
  <2>2. Q \subseteq c.retransmit_queue /\ \A q \in Q : is_seq_before(s.ack, q)
    OBVIOUS
  <2> HIDE DEF Q
  <2>3. QED BY <1>1, <2>1, <2>2 DEF TcpConnection
<1>2. CASE "ACK" \notin s.flags
  BY <1>2 DEF tcp_process_ack
<1>3. QED BY <1>1, <1>2

LEMMA ResetShape ==
    ASSUME NEW c \in TcpConnection, NEW s
    PROVE  handle_reset(c) \in TcpConnection /\ Resets(c, s, handle_reset(c))
<1>1. PICK b \in Seq(Nat) : b = <<>>
  BY EmptySeq
<1>2. handle_reset(c) = [c EXCEPT !.state = "Closed", !.retransmit_queue = {},
                                   !.recv_buffer = b, !.reset = TRUE]
  BY <1>1 DEF handle_reset
<1>3. QED BY <1>1, <1>2 DEF Resets, TcpConnection, TcpState

LEMMA TakeShape ==
    ASSUME NEW c \in TcpConnection, NEW s \in Segs, c.state = "Established"
    PROVE  Took(c, s) \in TcpConnection /\ Takes(c, s, Took(c, s))
             /\ Took(c, s).retransmit_queue = c.retransmit_queue
<1>1. Len(s.data) \in Int /\ c.ack_num \in Int /\ s.data \in Seq(Nat) /\ c.recv_buffer \in Seq(Nat)
  BY DEF Segs, TcpConnection
<1>2. PICK a \in 0 .. SeqSpan - 1 : a = wrapping_add(c.ack_num, Len(s.data))
  BY <1>1, AddType
<1>3. PICK b \in Seq(Nat) : b = c.recv_buffer \o s.data
  BY <1>1, ConcatProperties
<1>4. Took(c, s) = [c EXCEPT !.recv_buffer = b, !.ack_num = a]
  BY <1>2, <1>3 DEF Took
<1>5. QED BY <1>2, <1>3, <1>4 DEF Takes, TcpConnection

LEMMA FinishShape ==
    ASSUME NEW c \in TcpConnection, NEW s \in Segs, NEW state \in TcpState
    PROVE  /\ Finished(c, s, state) \in TcpConnection
           /\ Finished(c, s, state).state = state
           /\ Finished(c, s, state).recv_buffer = c.recv_buffer
<1>1. s.seq \in Int
  BY DEF Segs
<1>2. PICK a \in 0 .. SeqSpan - 1 : a = wrapping_add(s.seq, 1)
  BY <1>1, AddType
<1>3. Finished(c, s, state) = [c EXCEPT !.ack_num = a, !.state = state]
  BY <1>2 DEF Finished
<1>4. QED BY <1>2, <1>3 DEF TcpConnection

LEMMA HandledSynSent ==
    ASSUME NEW k, NEW c \in TcpConnection, NEW s \in Segs, c.state = "SynSent"
    PROVE  /\ handle_syn_sent(k, c, s).conn \in TcpConnection
           /\ HandledAs(k, c, s, handle_syn_sent(k, c, s).conn, handle_syn_sent(k, c, s).out)
<1>1. s.seq \in Int /\ s.ack \in 0 .. SeqSpan - 1 /\ s.data \in Seq(Nat) /\ c.recv_buffer \in Seq(Nat)
  BY DEF Segs, TcpConnection
<1>2. PICK a \in 0 .. SeqSpan - 1 : a = wrapping_add(s.seq, 1)
  <2>1. s.seq \in Int
    BY <1>1
  <2>2. wrapping_add(s.seq, 1) \in 0 .. SeqSpan - 1
    BY ONLY <2>1, AddOne
  <2>3. QED BY <2>2
<1>3. PICK b \in Seq(Nat) : b = c.recv_buffer \o s.data
  BY <1>1, ConcatProperties
<1> DEFINE e == [c EXCEPT !.state = "Established", !.seq_num = s.ack, !.ack_num = a, !.retransmit_queue = {}]
           d == [e EXCEPT !.recv_buffer = @ \o s.data]
<1>4. CASE {"SYN", "ACK"} \subseteq s.flags /\ s.ack = wrapping_add(c.seq_num, 1)
  <2>1. handle_syn_sent(k, c, s) = [conn |-> d, out |-> <<Ack(k, e)>>]
    BY <1>2, <1>4 DEF handle_syn_sent
  <2>2. e.recv_buffer = c.recv_buffer /\ d = [e EXCEPT !.recv_buffer = b]
    BY <1>3 DEF TcpConnection
  <2>3. d \in TcpConnection
    BY <1>1, <1>2, <1>3, <2>2 DEF TcpConnection, TcpState
  <2>4. /\ d.state = "Established" /\ d.seq_num = s.ack /\ d.ack_num = a
        /\ d.retransmit_queue = {} /\ d.recv_buffer = b
        /\ e.seq_num = d.seq_num /\ e.ack_num = d.ack_num
    BY <2>2 DEF TcpConnection
  <2> HIDE DEF d, e
  <2>5. Ack(k, e) = Ack(k, d)
    BY <2>4 DEF Ack
  <2>6. Opens(c, s, d)
    BY <1>2, <1>3, <1>4, <2>4 DEF Opens
  <2>7. QED BY <2>1, <2>3, <2>4, <2>5, <2>6 DEF HandledAs, Open, TcpState
<1>5. CASE ~({"SYN", "ACK"} \subseteq s.flags) /\ "RST" \in s.flags
  <2>1. handle_syn_sent(k, c, s) = Silent(handle_reset(c))
    BY <1>5 DEF handle_syn_sent
  <2>2. handle_reset(c) \in TcpConnection /\ Resets(c, s, handle_reset(c))
    BY ResetShape
  <2>3. QED BY <2>1, <2>2 DEF Silent, HandledAs, Resets
<1>6. CASE /\ ~({"SYN", "ACK"} \subseteq s.flags /\ s.ack = wrapping_add(c.seq_num, 1))
           /\ ~(~({"SYN", "ACK"} \subseteq s.flags) /\ "RST" \in s.flags)
  <2>1. handle_syn_sent(k, c, s) = Silent(c)
    BY <1>6 DEF handle_syn_sent
  <2>2. QED BY <2>1 DEF Silent, HandledAs, Ignores
<1>7. QED BY <1>4, <1>5, <1>6

LEMMA HandledSynReceived ==
    ASSUME NEW k, NEW c \in TcpConnection, NEW s \in Segs, c.state = "SynReceived"
    PROVE  /\ handle_syn_received(c, s).conn \in TcpConnection
           /\ HandledAs(k, c, s, handle_syn_received(c, s).conn, handle_syn_received(c, s).out)
<1>1. CASE "ACK" \in s.flags /\ s.ack = c.seq_num
  <2> DEFINE e == [c EXCEPT !.state = "Established", !.retransmit_queue = {}]
             d == Took(e, s)
  <2>1. handle_syn_received(c, s) = Silent(d)
    BY <1>1 DEF handle_syn_received
  <2>2. /\ e \in TcpConnection /\ e.state = "Established" /\ e.retransmit_queue = {}
        /\ e.seq_num = c.seq_num /\ e.ack_num = c.ack_num /\ e.recv_buffer = c.recv_buffer
    BY DEF TcpConnection, TcpState
  <2> HIDE DEF e
  <2>3. d \in TcpConnection /\ Takes(e, s, d) /\ d.retransmit_queue = e.retransmit_queue
    BY <2>2, TakeShape
  <2> HIDE DEF d
  <2>4. Accepts(c, s, d)
    BY <1>1, <2>2, <2>3 DEF Accepts, Takes
  <2>5. QED BY <2>1, <2>3, <2>4 DEF Silent, HandledAs, Takes
<1>2. CASE "ACK" \notin s.flags /\ "RST" \in s.flags
  <2>1. handle_syn_received(c, s) = Silent(handle_reset(c))
    BY <1>2 DEF handle_syn_received
  <2>2. handle_reset(c) \in TcpConnection /\ Resets(c, s, handle_reset(c))
    BY ResetShape
  <2>3. QED BY <2>1, <2>2 DEF Silent, HandledAs, Resets
<1>3. CASE ~("ACK" \in s.flags /\ s.ack = c.seq_num) /\ ~("ACK" \notin s.flags /\ "RST" \in s.flags)
  <2>1. handle_syn_received(c, s) = Silent(c)
    BY <1>3 DEF handle_syn_received
  <2>2. QED BY <2>1, <1>3 DEF Silent, HandledAs, Ignores
<1>4. QED BY <1>1, <1>2, <1>3

LEMMA HandledEstablished ==
    ASSUME NEW k, NEW c \in TcpConnection, NEW s \in Segs, c.state = "Established"
    PROVE  /\ handle_established(k, c, s).conn \in TcpConnection
           /\ HandledAs(k, c, s, handle_established(k, c, s).conn, handle_established(k, c, s).out)
<1> DEFINE a == tcp_process_ack(c, s)
<1>1. /\ a \in TcpConnection /\ a.state = c.state /\ a.seq_num = c.seq_num /\ a.ack_num = c.ack_num
      /\ a.recv_buffer = c.recv_buffer /\ a.retransmit_queue \subseteq c.retransmit_queue
      /\ "ACK" \in s.flags => \A q \in a.retransmit_queue : is_seq_before(s.ack, q)
  BY ProcessAck
<1>2. CASE "FIN" \in s.flags
  <2> DEFINE d == Finished(a, s, "CloseWait")
  <2>1. handle_established(k, c, s) = Acked(k, d)
    BY <1>2 DEF handle_established
  <2> HIDE DEF a
  <2>2. d \in TcpConnection /\ d.state = "CloseWait" /\ d.recv_buffer = c.recv_buffer
    BY <1>1, FinishShape DEF TcpState
  <2> HIDE DEF d
  <2>3. Ends(c, s, d)
    BY <2>2, <1>2 DEF Ends, Late, Open, TcpState
  <2>4. QED BY <2>1, <2>2, <2>3 DEF Acked, HandledAs, Open, TcpState
<1>3. CASE "FIN" \notin s.flags /\ s.data # <<>>
  <2> DEFINE d == Took(a, s)
  <2>1. handle_established(k, c, s) = Acked(k, d)
    BY <1>3 DEF handle_established
  <2> HIDE DEF a
  <2>2. d \in TcpConnection /\ Takes(a, s, d) /\ d.retransmit_queue = a.retransmit_queue
    BY <1>1, TakeShape
  <2> HIDE DEF d
  <2>3. Continues(c, s, d) /\ d.state = "Established"
    BY <2>2, <1>1 DEF Continues, Takes
  <2>4. QED BY <2>1, <2>2, <2>3 DEF Acked, HandledAs, Open, TcpState
<1>4. CASE "FIN" \notin s.flags /\ ~(s.data # <<>>)
  <2>1. handle_established(k, c, s) = Silent(a)
    BY <1>4 DEF handle_established
  <2> HIDE DEF a
  <2>2. c.ack_num \in 0 .. SeqSpan - 1 /\ c.recv_buffer \in Seq(Nat) /\ Len(s.data) = 0
    BY <1>4, EmptySeq DEF TcpConnection
  <2>3. a.ack_num = wrapping_add(c.ack_num, Len(s.data))
    BY <1>1, <2>2, AddZero
  <2>4. a.recv_buffer = c.recv_buffer \o s.data
    BY <1>1, <1>4, <2>2, ConcatEmptySeq
  <2>5. Continues(c, s, a)
    BY <1>1, <2>3, <2>4 DEF Continues, Takes
  <2>6. QED BY <1>1, <1>4, <2>1, <2>5 DEF Silent, HandledAs
<1>5. QED BY <1>2, <1>3, <1>4

\* The handlers of the states after Established.
LEMMA HandledClosing ==
    ASSUME NEW k, NEW c \in TcpConnection, NEW s \in Segs, NEW r,
           \/ c.state = "FinWait1" /\ r = handle_fin_wait1(k, c, s)
           \/ c.state = "FinWait2" /\ r = handle_fin_wait2(k, c, s)
           \/ c.state = "CloseWait" /\ r = handle_close_wait(c, s)
           \/ c.state = "LastAck" /\ r = handle_last_ack(c, s)
           \/ c.state = "TimeWait" /\ r = Acked(k, c)
           \/ c.state = "Closing" /\ r = handle_closing(c, s)
    PROVE  r.conn \in TcpConnection /\ HandledAs(k, c, s, r.conn, r.out)
<1> DEFINE a == tcp_process_ack(c, s)
<1>1. /\ a \in TcpConnection /\ a.state = c.state /\ a.ack_num = c.ack_num
      /\ a.recv_buffer = c.recv_buffer
  BY ProcessAck
<1>2. ASSUME NEW d \in TcpConnection, d.state \in Late \ {"Established"}, d.recv_buffer = c.recv_buffer,
             d.ack_num = c.ack_num \/ "FIN" \in s.flags,
             r = Silent(d) \/ (r = Acked(k, d) /\ d.state \in Open)
      PROVE  r.conn \in TcpConnection /\ HandledAs(k, c, s, r.conn, r.out)
  <2>1. r.conn = d /\ (r.out = <<>> \/ (r.out = <<Ack(k, d)>> /\ d.state \in Open))
    BY <1>2 DEF Silent, Acked
  <2>2. Ends(c, s, d)
    BY <1>2 DEF Ends, Open, TcpState
  <2>3. QED BY <2>1, <2>2, <1>2 DEF HandledAs, Late, Open, TcpState
<1>3. ASSUME NEW e \in TcpConnection, e.recv_buffer = c.recv_buffer, NEW st \in Open \ {"Established"},
             "FIN" \in s.flags, r = Acked(k, Finished(e, s, st))
      PROVE  r.conn \in TcpConnection /\ HandledAs(k, c, s, r.conn, r.out)
  <2>1. PICK d : d = Finished(e, s, st)
    OBVIOUS
  <2>2. d \in TcpConnection /\ d.state = st /\ d.recv_buffer = c.recv_buffer
    BY <1>3, <2>1, FinishShape DEF Open
  <2>3. QED BY <1>2, <1>3, <2>1, <2>2 DEF Late
<1>4. ASSUME NEW e \in TcpConnection, e.recv_buffer = c.recv_buffer, e.ack_num = c.ack_num,
             NEW st \in Late \ {"Established"}, r = Silent([e EXCEPT !.state = st, !.retransmit_queue = {}])
      PROVE  r.conn \in TcpConnection /\ HandledAs(k, c, s, r.conn, r.out)
  <2>1. PICK d : d = [e EXCEPT !.state = st, !.retransmit_queue = {}]
    OBVIOUS
  <2>2. d \in TcpConnection /\ d.state = st /\ d.recv_buffer = c.recv_buffer /\ d.ack_num = c.ack_num
    BY <1>4, <2>1 DEF TcpConnection, TcpState, Late, Open
  <2>3. QED BY <1>2, <1>4, <2>1, <2>2
<1>5. {"TimeWait", "Closing", "FinWait2", "CloseWait", "LastAck", "FinWait1"} \subseteq Open \ {"Established"}
        /\ Open \subseteq Late /\ "Closed" \in Late \ {"Established"}
  BY DEF Open, TcpState, Late
<1>6. CASE c.state = "FinWait1" /\ r = handle_fin_wait1(k, c, s)
  <2>1. CASE "FIN" \in s.flags
    <3>1. PICK st \in {"TimeWait", "Closing"} : r = Acked(k, Finished(a, s, st))
      BY <1>6, <2>1 DEF handle_fin_wait1
    <3>2. QED BY <1>1, <1>3, <1>5, <2>1, <3>1
  <2>2. CASE "FIN" \notin s.flags /\ "ACK" \in s.flags
    <3>1. r = Silent([a EXCEPT !.state = "FinWait2", !.retransmit_queue = {}])
      BY <1>6, <2>2 DEF handle_fin_wait1
    <3>2. QED BY <1>1, <1>4, <1>5, <3>1
  <2>3. CASE "FIN" \notin s.flags /\ "ACK" \notin s.flags
    <3>1. r = Silent(a)
      BY <1>6, <2>3 DEF handle_fin_wait1
    <3>2. QED BY <1>1, <1>2, <1>5, <1>6, <3>1
  <2>4. QED BY <2>1, <2>2, <2>3
<1>7. CASE c.state = "FinWait2" /\ r = handle_fin_wait2(k, c, s)
  <2>1. CASE "FIN" \in s.flags
    <3>1. r = Acked(k, Finished(c, s, "TimeWait"))
      BY <1>7, <2>1 DEF handle_fin_wait2
    <3>2. QED BY <1>3, <1>5, <2>1, <3>1
  <2>2. CASE "FIN" \notin s.flags
    <3>1. r = Silent(c)
      BY <1>7, <2>2 DEF handle_fin_wait2
    <3>2. QED BY <1>2, <1>5, <1>7, <3>1
  <2>3. QED BY <2>1, <2>2
<1>8. CASE c.state = "CloseWait" /\ r = handle_close_wait(c, s)
  <2>1. r = Silent(a)
    BY <1>8 DEF handle_close_wait
  <2>2. QED BY <1>1, <1>2, <1>5, <1>8, <2>1
<1>9. CASE \/ c.state = "LastAck" /\ r = handle_last_ack(c, s)
           \/ c.state = "Closing" /\ r = handle_closing(c, s)
  <2>1. CASE "ACK" \in s.flags
    <3>1. PICK st \in {"Closed", "TimeWait"} : r = Silent([c EXCEPT !.state = st, !.retransmit_queue = {}])
      BY <1>9, <2>1 DEF handle_last_ack, handle_closing
    <3>2. QED BY <1>4, <1>5, <3>1
  <2>2. CASE "ACK" \notin s.flags
    <3>1. r = Silent(c)
      BY <1>9, <2>2 DEF handle_last_ack, handle_closing
    <3>2. QED BY <1>2, <1>5, <1>9, <3>1
  <2>3. QED BY <2>1, <2>2
<1>10. CASE c.state = "TimeWait" /\ r = Acked(k, c)
  BY <1>2, <1>5, <1>10
<1>11. QED BY <1>6, <1>7, <1>8, <1>9, <1>10

LEMMA HandledShape ==
    ASSUME NEW k, NEW c \in TcpConnection, NEW s \in Segs, c.state # "Absent"
    PROVE  /\ Handled(k, c, s).conn \in TcpConnection
           /\ HandledAs(k, c, s, Handled(k, c, s).conn, Handled(k, c, s).out)
<1>1. c.state \in TcpState
  BY DEF TcpConnection
<1>2. CASE c.state = "SynSent"
  <2>1. Handled(k, c, s) = handle_syn_sent(k, c, s)
    BY <1>2 DEF Handled
  <2>2. QED BY <1>2, <2>1, HandledSynSent
<1>3. CASE c.state = "SynReceived"
  <2>1. Handled(k, c, s) = handle_syn_received(c, s)
    BY <1>3 DEF Handled
  <2>2. QED BY <1>3, <2>1, HandledSynReceived
<1>4. CASE c.state = "Closed"
  <2>1. Handled(k, c, s) = Silent(c)
    BY <1>4 DEF Handled
  <2>2. QED BY <1>4, <2>1 DEF Silent, HandledAs, Ignores
<1>5. CASE c.state \notin {"SynSent", "SynReceived", "Closed"} /\ "RST" \in s.flags
  <2>1. Handled(k, c, s) = Silent(handle_reset(c))
    BY <1>5 DEF Handled
  <2>2. handle_reset(c) \in TcpConnection /\ Resets(c, s, handle_reset(c))
    BY ResetShape
  <2>3. QED BY <2>1, <2>2 DEF Silent, HandledAs, Resets
<1>6. CASE c.state = "Established" /\ "RST" \notin s.flags
  <2>1. Handled(k, c, s) = handle_established(k, c, s)
    BY <1>6 DEF Handled
  <2>2. QED BY <1>6, <2>1, HandledEstablished
<1>7. CASE /\ c.state \notin {"SynSent", "SynReceived", "Closed", "Established"}
           /\ "RST" \notin s.flags
  <2>1. PICK r : r = Handled(k, c, s)
    OBVIOUS
  <2>2. \/ c.state = "FinWait1" /\ r = handle_fin_wait1(k, c, s)
        \/ c.state = "FinWait2" /\ r = handle_fin_wait2(k, c, s)
        \/ c.state = "CloseWait" /\ r = handle_close_wait(c, s)
        \/ c.state = "LastAck" /\ r = handle_last_ack(c, s)
        \/ c.state = "TimeWait" /\ r = Acked(k, c)
        \/ c.state = "Closing" /\ r = handle_closing(c, s)
    BY <1>1, <1>7, <2>1 DEF Handled, TcpState
  <2>3. QED BY <2>1, <2>2, HandledClosing
<1>8. QED BY <1>2, <1>3, <1>4, <1>5, <1>6, <1>7

(* ------------------------------------------------------------------ links *)

LEMMA Hosts ==
    /\ TcpHosts = {"client", "server"} /\ TcpPeer("client") = "server" /\ TcpPeer("server") = "client"
    /\ \A h \in TcpHosts : /\ TcpPeer(h) \in TcpHosts /\ TcpPeer(h) # h /\ TcpPeer(TcpPeer(h)) = h
                           /\ \A g \in TcpHosts : g = h \/ g = TcpPeer(h)
  BY DEF TcpHosts, TcpPeer

LinkType == [TcpHosts -> IF Disordered THEN SUBSET Segs ELSE Seq(Segs)]

\* Segments only vanish, and out joins those on their way to g.
Joins(g, out) ==
    \A f \in TcpHosts : \A s \in OnWay(f)' : s \in OnWay(f) \/ (f = g /\ s \in Range(out))

(* What joining and taking do to a sequence of segments. *)
LEMMA RangeJoin ==
    ASSUME NEW U, NEW a \in Seq(U), NEW b \in Seq(U)
    PROVE  a \o b \in Seq(U) /\ Range(a \o b) = Range(a) \cup Range(b)
<1>1. /\ a \o b \in Seq(U) /\ Len(a \o b) = Len(a) + Len(b)
      /\ \A i \in 1 .. Len(a) + Len(b) : (a \o b)[i] = IF i <= Len(a) THEN a[i] ELSE b[i - Len(a)]
  BY ConcatProperties
<1>2. DOMAIN a = 1 .. Len(a) /\ DOMAIN b = 1 .. Len(b) /\ DOMAIN (a \o b) = 1 .. Len(a \o b)
        /\ Len(a) \in Nat /\ Len(b) \in Nat
  BY <1>1, LenProperties
<1> DEFINE c == a \o b
<1> HIDE DEF c
<1>3. ASSUME NEW x \in Range(c) PROVE x \in Range(a) \cup Range(b)
  <2>1. PICK i \in 1 .. Len(a) + Len(b) : x = c[i]
    BY <1>1, <1>2, <1>3 DEF Range, c
  <2>2. CASE i <= Len(a)
    BY <1>1, <1>2, <2>1, <2>2 DEF Range, c
  <2>3. CASE ~(i <= Len(a))
    <3>1. i - Len(a) \in DOMAIN b /\ x = b[i - Len(a)]
      BY <1>1, <1>2, <2>1, <2>3 DEF c
    <3>2. QED BY <3>1 DEF Range
  <2>4. QED BY <2>2, <2>3
<1>4. ASSUME NEW x \in Range(a) PROVE x \in Range(c)
  <2>1. PICK i \in 1 .. Len(a) : x = a[i]
    BY <1>2, <1>4 DEF Range
  <2>2. i \in DOMAIN c /\ c[i] = x
    BY <1>1, <1>2, <2>1 DEF c
  <2>3. QED BY <2>2 DEF Range
<1>5. ASSUME NEW x \in Range(b) PROVE x \in Range(c)
  <2>1. PICK i \in 1 .. Len(b) : x = b[i]
    BY <1>2, <1>5 DEF Range
  <2>2. Len(a) + i \in 1 .. Len(a) + Len(b) /\ ~(Len(a) + i <= Len(a)) /\ (Len(a) + i) - Len(a) = i
    BY <1>2, <2>1
  <2>3. Len(a) + i \in DOMAIN c /\ c[Len(a) + i] = x
    BY <1>1, <1>2, <2>1, <2>2 DEF c
  <2>4. QED BY <2>3 DEF Range
<1>6. QED BY <1>1, <1>3, <1>4, <1>5 DEF c

LEMMA RangeTail ==
    ASSUME NEW U, NEW a \in Seq(U), a # <<>>
    PROVE  /\ Tail(a) \in Seq(U) /\ Range(Tail(a)) \subseteq Range(a) /\ Head(a) \in Range(a)
           /\ Head(a) = a[1] /\ 1 \in DOMAIN a
<1>1. Tail(a) \in Seq(U) /\ Len(Tail(a)) = Len(a) - 1 /\ \A i \in 1 .. Len(Tail(a)) : Tail(a)[i] = a[i + 1]
  BY HeadTailProperties
<1>2. DOMAIN a = 1 .. Len(a) /\ DOMAIN Tail(a) = 1 .. Len(Tail(a)) /\ Len(a) \in Nat \ {0}
  BY <1>1, LenProperties, EmptySeq
<1>3. ASSUME NEW i \in 1 .. Len(Tail(a)) PROVE Tail(a)[i] \in Range(a)
  <2>1. i + 1 \in DOMAIN a
    BY <1>1, <1>2, <1>3
  <2>2. QED BY <1>1, <2>1 DEF Range
<1>4. 1 \in DOMAIN a /\ Head(a) = a[1]
  BY <1>2
<1>5. Range(Tail(a)) \subseteq Range(a)
  BY <1>2, <1>3 DEF Range
<1>6. QED BY <1>1, <1>4, <1>5 DEF Range

(* A send. *)
LEMMA SendJoins ==
    ASSUME TcpTyped, NEW g \in TcpHosts, NEW out \in Seq(Segs),
           link' = Sending(g, out), tcp_use' = tcp_use
    PROVE  link' \in LinkType' /\ Joins(g, out)
<1>1. Disordered' = Disordered /\ link \in LinkType
  BY DEF Disordered, TcpTyped, LinkType
<1>2. CASE Disordered
  <2>1. link \in [TcpHosts -> SUBSET Segs] /\ \A i \in DOMAIN out : out[i] \in Segs
    BY <1>1, <1>2, LenProperties DEF LinkType
  <2>2. Range(out) \subseteq Segs
    BY <2>1 DEF Range
  <2>3. link' = [link EXCEPT ![g] = @ \cup Range(out)]
    BY <1>2 DEF Sending
  <2>4. link' \in [TcpHosts -> SUBSET Segs]
    BY <2>1, <2>2, <2>3
  <2>5. QED BY <1>1, <1>2, <2>1, <2>3, <2>4 DEF LinkType, Joins, OnWay
<1>3. CASE ~Disordered
  <2>1. link \in [TcpHosts -> Seq(Segs)] /\ link[g] \in Seq(Segs)
    BY <1>1, <1>3 DEF LinkType
  <2>2. PICK l : l = link[g] \o out
    OBVIOUS
  <2>3. l \in Seq(Segs) /\ Range(l) = Range(link[g]) \cup Range(out)
    BY <2>1, <2>2, RangeJoin
  <2>4. link' = [link EXCEPT ![g] = l]
    BY <1>3, <2>2 DEF Sending
  <2>5. link' \in [TcpHosts -> Seq(Segs)]
    BY <2>1, <2>3, <2>4
  <2>6. ASSUME NEW f \in TcpHosts, NEW s \in Range(link'[f])
        PROVE  s \in Range(link[f]) \/ (f = g /\ s \in Range(out))
    <3>1. CASE f = g
      BY <2>1, <2>3, <2>4, <2>6, <3>1
    <3>2. CASE f # g
      BY <2>1, <2>4, <2>6, <3>2
    <3>3. QED BY <3>1, <3>2
  <2>7. QED BY <1>1, <1>3, <2>5, <2>6 DEF LinkType, Joins, OnWay
<1>4. QED BY <1>2, <1>3

(* A segment taken and answered. *)
LEMMA ExchangeJoins ==
    ASSUME TcpTyped, NEW h \in TcpHosts, NEW s \in Arriving(h), NEW out \in Seq(Segs),
           Exchange(h, out), tcp_use' = tcp_use
    PROVE  link' \in LinkType' /\ Joins(TcpPeer(h), out)
<1>1. Disordered' = Disordered /\ link \in LinkType
  BY DEF Disordered, TcpTyped, LinkType
<1>2. PICK g \in TcpHosts : g = TcpPeer(h) /\ g # h /\ \A f \in TcpHosts : f = g \/ f = h
  BY Hosts
<1>3. CASE Disordered
  <2>1. link \in [TcpHosts -> SUBSET Segs] /\ \A i \in DOMAIN out : out[i] \in Segs
    BY <1>1, <1>3, LenProperties DEF LinkType
  <2>2. Range(out) \subseteq Segs
    BY <2>1 DEF Range
  <2>3. link' = [link EXCEPT ![g] = @ \cup Range(out)]
    BY <1>2, <1>3 DEF Exchange
  <2>4. link' \in [TcpHosts -> SUBSET Segs]
    BY <2>1, <2>2, <2>3
  <2>5. QED BY <1>1, <1>2, <1>3, <2>1, <2>3, <2>4 DEF LinkType, Joins, OnWay
<1>4. CASE ~Disordered
  <2>1. link \in [TcpHosts -> Seq(Segs)] /\ link[g] \in Seq(Segs) /\ link[h] \in Seq(Segs)
    BY <1>1, <1>4 DEF LinkType
  <2>2. link[h] # <<>>
    BY <1>4 DEF Arriving
  <2>3. PICK l, t : l = link[g] \o out /\ t = Tail(link[h])
    OBVIOUS
  <2>4. l \in Seq(Segs) /\ Range(l) = Range(link[g]) \cup Range(out)
    BY <2>1, <2>3, RangeJoin
  <2>5. t \in Seq(Segs) /\ Range(t) \subseteq Range(link[h])
    BY <2>1, <2>2, <2>3, RangeTail
  <2>6. link' = [link EXCEPT ![h] = t, ![g] = l]
    BY <1>2, <1>4, <2>3 DEF Exchange
  <2>7. link' \in [TcpHosts -> Seq(Segs)] /\ link'[g] = l /\ link'[h] = t
    BY <1>2, <2>1, <2>4, <2>5, <2>6
  <2>8. ASSUME NEW f \in TcpHosts, NEW x \in Range(link'[f])
        PROVE  x \in Range(link[f]) \/ (f = g /\ x \in Range(out))
    BY <1>2, <2>4, <2>5, <2>7, <2>8
  <2>9. QED BY <1>1, <1>2, <1>4, <2>7, <2>8 DEF LinkType, Joins, OnWay
<1>5. QED BY <1>3, <1>4

LEMMA ArrivingType ==
    ASSUME TcpTyped, NEW h \in TcpHosts, NEW s \in Arriving(h)
    PROVE  s \in OnWay(h) /\ s \in Segs
<1>1. link \in LinkType
  BY DEF TcpTyped, LinkType
<1>2. CASE Disordered
  <2>1. link \in [TcpHosts -> SUBSET Segs]
    BY <1>1, <1>2 DEF LinkType
  <2>2. QED BY <1>2, <2>1 DEF Arriving, OnWay
<1>3. CASE ~Disordered
  <2>1. link[h] \in Seq(Segs)
    BY <1>1, <1>3 DEF LinkType
  <2>2. link[h] # <<>> /\ s = Head(link[h])
    BY <1>3 DEF Arriving
  <2>3. s \in Range(link[h]) /\ s \in Segs
    BY <2>1, <2>2, RangeTail, HeadTailProperties
  <2>4. QED BY <1>3, <2>3 DEF OnWay
<1>4. QED BY <1>2, <1>3

LEMMA LoseJoins ==
    ASSUME TcpTyped, NEW h \in TcpHosts, lose(h)
    PROVE  link' \in LinkType' /\ \A g \in TcpHosts : Joins(g, <<>>)
<1>1. Disordered' = Disordered /\ link \in LinkType /\ ~Disordered
  BY DEF Disordered, TcpTyped, LinkType, lose
<1>2. link \in [TcpHosts -> Seq(Segs)] /\ link[h] \in Seq(Segs) /\ link[h] # <<>>
  BY <1>1 DEF LinkType, lose
<1>3. PICK t : t = Tail(link[h])
  OBVIOUS
<1>4. t \in Seq(Segs) /\ Range(t) \subseteq Range(link[h])
  BY <1>2, <1>3, RangeTail
<1>5. link' = [link EXCEPT ![h] = t]
  BY <1>3 DEF lose
<1>6. link' \in [TcpHosts -> Seq(Segs)]
  BY <1>2, <1>4, <1>5
<1>7. ASSUME NEW f \in TcpHosts, NEW s \in Range(link'[f]) PROVE s \in Range(link[f])
  <2>1. CASE f = h
    BY <1>2, <1>4, <1>5, <1>7, <2>1
  <2>2. CASE f # h
    BY <1>2, <1>5, <1>7, <2>2
  <2>3. QED BY <2>1, <2>2
<1>8. QED BY <1>1, <1>6, <1>7 DEF LinkType, Joins, OnWay

(* --------------------------------------------------------------- segments *)

LEMMA SegmentFields ==
    ASSUME NEW k, NEW f, NEW q, NEW a, NEW d
    PROVE  /\ Segment(k, f, q, a, d).port = k /\ Segment(k, f, q, a, d).flags = f
           /\ Segment(k, f, q, a, d).seq = q /\ Segment(k, f, q, a, d).ack = a
           /\ Segment(k, f, q, a, d).data = d
  BY DEF Segment

LEMMA AckType ==
    ASSUME NEW k \in TcpPorts, NEW c \in TcpConnection
    PROVE  Ack(k, c) \in Segs
<1>1. PICK d \in Seq(Nat) : d = <<>>
  BY EmptySeq
<1>2. QED BY <1>1 DEF Ack, Segment, Segs, TcpConnection

LEMMA OneSegment ==
    ASSUME NEW s \in Segs
    PROVE  <<s>> \in Seq(Segs) /\ Range(<<s>>) = {s}
<1>1. <<s>> \in Seq(Segs) /\ DOMAIN <<s>> = {1} /\ <<s>>[1] = s
  OBVIOUS
<1>2. QED BY <1>1 DEF Range

LEMMA NoSegment == <<>> \in Seq(Segs) /\ Range(<<>>) = {}
<1>1. <<>> \in Seq(Segs) /\ DOMAIN <<>> = {}
  OBVIOUS
<1>2. QED BY <1>1 DEF Range

\* Where the i-th segment of a call starts, and its size.
First(i) == (i - 1) * MAX_SEGMENT_SIZE
Size(i, n) == IF n - First(i) < MAX_SEGMENT_SIZE THEN n - First(i) ELSE MAX_SEGMENT_SIZE
Total(m, n) == IF m * MAX_SEGMENT_SIZE < n THEN m * MAX_SEGMENT_SIZE ELSE n

LEMMA FirstNext ==
    /\ First(1) = 0
    /\ \A i \in Nat : First(i + 1) = First(i) + MAX_SEGMENT_SIZE /\ First(i + 1) = i * MAX_SEGMENT_SIZE
    /\ \A i \in Nat \ {0} : First(i) \in Nat
    /\ \A i, j \in Nat \ {0} : i < j => First(i) + MAX_SEGMENT_SIZE <= First(j)
<1>1. MAX_SEGMENT_SIZE \in Nat \ {0}
  BY TcpConstants
<1>2. PICK M \in Nat \ {0} : M = MAX_SEGMENT_SIZE
  BY <1>1
<1>3. \A i \in Nat : First(i + 1) = First(i) + M /\ First(i + 1) = i * M
  BY <1>2 DEF First
<1>4. \A i \in Nat \ {0} : First(i) \in Nat
  BY <1>2 DEF First
<1>5. ASSUME NEW i \in Nat \ {0}, NEW j \in Nat \ {0}, i < j PROVE First(i) + M <= First(j)
  <2>1. PICK d \in Nat : j = i + 1 + d
    <3>1. j - i - 1 \in Nat /\ j = i + 1 + (j - i - 1)
      BY <1>5
    <3>2. QED BY <3>1
  <2>2. (j - 1) * M = (i - 1) * M + M + d * M
    BY <2>1
  <2>3. d * M \in Nat /\ (i - 1) * M \in Nat
    BY <1>2
  <2>4. QED BY <1>2, <2>2, <2>3 DEF First
<1>6. First(1) = 0
  BY <1>2 DEF First
<1>7. QED BY <1>2, <1>3, <1>4, <1>5, <1>6

(* The segments of a call partition its bytes. *)
LEMMA ChunkSizes ==
    ASSUME NEW n \in Nat, NEW m \in 1 .. n, (m - 1) * MAX_SEGMENT_SIZE < n
    PROVE  /\ Total(m, n) \in 1 .. n
           /\ \A i \in 1 .. m : /\ First(i) \in Nat /\ Size(i, n) \in Nat \ {0}
                                /\ First(i) + Size(i, n) <= Total(m, n)
           /\ \A i, j \in 1 .. m : i < j => First(i) + Size(i, n) <= First(j)
           /\ \A v \in 1 .. Total(m, n) : \E i \in 1 .. m : v - First(i) \in 1 .. Size(i, n)
<1>1. MAX_SEGMENT_SIZE \in Nat \ {0} /\ First(m) < n /\ m \in Nat \ {0}
  BY TcpConstants DEF First
<1>2. First(m + 1) = First(m) + MAX_SEGMENT_SIZE /\ First(m + 1) = m * MAX_SEGMENT_SIZE /\ First(m) \in Nat
  BY <1>1, FirstNext
<1>3. Total(m, n) = First(m) + Size(m, n) /\ Total(m, n) \in 1 .. n /\ Size(m, n) \in Nat \ {0}
  BY <1>1, <1>2 DEF Total, Size
<1>4. ASSUME NEW i \in 1 .. m, i < m
      PROVE  /\ First(i) \in Nat /\ Size(i, n) = MAX_SEGMENT_SIZE /\ First(i) + MAX_SEGMENT_SIZE <= First(m)
             /\ First(i + 1) = First(i) + Size(i, n) /\ i + 1 \in 1 .. m
  <2>1. i \in Nat \ {0} /\ i \in Nat /\ i + 1 \in 1 .. m
    BY <1>1, <1>4
  <2>2. First(i) \in Nat /\ First(i) + MAX_SEGMENT_SIZE <= First(m) /\ First(i + 1) = First(i) + MAX_SEGMENT_SIZE
    BY <1>1, <1>4, <2>1, FirstNext
  <2>3. Size(i, n) = MAX_SEGMENT_SIZE
    BY <1>1, <1>2, <2>2 DEF Size
  <2>4. QED BY <2>1, <2>2, <2>3
<1>5. ASSUME NEW i \in 1 .. m
      PROVE  First(i) \in Nat /\ Size(i, n) \in Nat \ {0} /\ First(i) + Size(i, n) <= Total(m, n)
  <2>1. CASE i = m
    BY <1>2, <1>3, <2>1
  <2>2. CASE i < m
    BY <1>1, <1>2, <1>3, <1>4, <2>2
  <2>3. QED BY <1>1, <2>1, <2>2
<1>6. ASSUME NEW i \in 1 .. m, NEW j \in 1 .. m, i < j PROVE First(i) + Size(i, n) <= First(j)
  <2>1. i < m /\ Size(i, n) = MAX_SEGMENT_SIZE
    BY <1>1, <1>4, <1>6
  <2>2. i \in Nat \ {0} /\ j \in Nat \ {0}
    BY <1>1
  <2>3. QED BY <1>6, <2>1, <2>2, FirstNext
<1>7. ASSUME NEW v \in 1 .. Total(m, n) PROVE \E i \in 1 .. m : v - First(i) \in 1 .. Size(i, n)
  <2> DEFINE S == {i \in 1 .. m : First(i) + Size(i, n) >= v}
  <2>1. S \in SUBSET Nat /\ m \in S
    BY <1>1, <1>3, <1>7
  <2>2. PICK i \in S : \A j \in S : i <= j
    BY <2>1, LeastMember
  <2>3. First(i) < v
    <3>1. CASE i = 1
      BY <3>1, <1>7, <1>3, FirstNext
    <3>2. CASE i # 1
      <4>1. i - 1 \in 1 .. m /\ i - 1 < m /\ ~(i <= i - 1) /\ (i - 1) + 1 = i
        BY <1>1, <2>2, <3>2
      <4>2. ~(First(i - 1) + Size(i - 1, n) >= v)
        BY <2>2, <4>1
      <4>3. First(i) = First(i - 1) + Size(i - 1, n) /\ First(i - 1) \in Nat /\ Size(i - 1, n) \in Nat
        BY <1>4, <1>5, <4>1
      <4>4. QED BY <4>2, <4>3, <1>7, <1>3
    <3>3. QED BY <3>1, <3>2
  <2>4. First(i) \in Nat /\ Size(i, n) \in Nat /\ First(i) + Size(i, n) >= v
    BY <1>5, <2>2
  <2>5. v - First(i) \in 1 .. Size(i, n)
    BY <2>3, <2>4, <1>3, <1>7
  <2>6. QED BY <2>2, <2>5
<1>8. QED BY <1>3, <1>5, <1>6, <1>7

\* s is the i-th segment of a call.
ChunkOf(s, k, c, from, n, i) ==
    /\ s.port = k /\ s.flags = {"PSH", "ACK"} /\ s.ack = c.ack_num
    /\ s.seq = wrapping_add(c.seq_num, First(i))
    /\ DOMAIN s.data = 1 .. Size(i, n) /\ Len(s.data) = Size(i, n)
    /\ \A j \in 1 .. Size(i, n) : s.data[j] = from + First(i) + j

LEMMA ChunkShape ==
    ASSUME NEW k \in TcpPorts, NEW c \in TcpConnection, NEW from \in Nat, NEW n \in Nat, NEW m \in 1 .. n,
           (m - 1) * MAX_SEGMENT_SIZE < n
    PROVE  /\ Chunks(k, c, from, n, m) \in Seq(Segs) /\ DOMAIN Chunks(k, c, from, n, m) = 1 .. m
           /\ \A i \in 1 .. m : ChunkOf(Chunks(k, c, from, n, m)[i], k, c, from, n, i)
<1>1. ASSUME NEW i \in 1 .. m
      PROVE  /\ wrapping_add(c.seq_num, First(i)) \in 0 .. SeqSpan - 1
             /\ First(i) \in Nat /\ Size(i, n) \in Nat
             /\ [j \in 1 .. Size(i, n) |-> from + First(i) + j] \in Seq(Nat)
  <2>1. First(i) \in Nat /\ Size(i, n) \in Nat
    BY ChunkSizes
  <2>2. c.seq_num \in Int /\ First(i) \in Int
    BY <2>1, SpanType DEF TcpConnection
  <2>3. wrapping_add(c.seq_num, First(i)) \in 0 .. SeqSpan - 1
    BY ONLY <2>2, AddType
  <2>4. [j \in 1 .. Size(i, n) |-> from + First(i) + j] \in [1 .. Size(i, n) -> Nat]
    BY <2>1
  <2>5. QED BY <2>1, <2>3, <2>4, SeqDef
<1>2. ASSUME NEW i \in 1 .. m
      PROVE  /\ Segment(k, {"PSH", "ACK"}, wrapping_add(c.seq_num, First(i)), c.ack_num,
                        [j \in 1 .. Size(i, n) |-> from + First(i) + j]) \in Segs
  BY <1>1 DEF Segment, Segs, TcpConnection
<1>3. Chunks(k, c, from, n, m) =
        [i \in 1 .. m |-> Segment(k, {"PSH", "ACK"}, wrapping_add(c.seq_num, First(i)), c.ack_num,
                                  [j \in 1 .. Size(i, n) |-> from + First(i) + j])]
  BY DEF Chunks, First, Size
<1>4. Chunks(k, c, from, n, m) \in [1 .. m -> Segs] /\ m \in Nat
  BY <1>2, <1>3
<1>5. Chunks(k, c, from, n, m) \in Seq(Segs)
  BY <1>4, SeqDef
<1>6. ASSUME NEW i \in 1 .. m
      PROVE  LET s == Chunks(k, c, from, n, m)[i]
             IN /\ s.port = k /\ s.flags = {"PSH", "ACK"} /\ s.ack = c.ack_num
                /\ s.seq = wrapping_add(c.seq_num, First(i))
                /\ s.data = [j \in 1 .. Size(i, n) |-> from + First(i) + j]
  <2>1. Chunks(k, c, from, n, m)[i] =
           Segment(k, {"PSH", "ACK"}, wrapping_add(c.seq_num, First(i)), c.ack_num,
                   [j \in 1 .. Size(i, n) |-> from + First(i) + j])
    BY <1>3
  <2>2. QED BY <2>1, SegmentFields
<1>7. ASSUME NEW i \in 1 .. m, NEW d, d = [j \in 1 .. Size(i, n) |-> from + First(i) + j]
      PROVE  /\ DOMAIN d = 1 .. Size(i, n) /\ Len(d) = Size(i, n)
             /\ \A j \in 1 .. Size(i, n) : d[j] = from + First(i) + j
  BY <1>1, <1>7, LenProperties
<1>8. QED BY <1>4, <1>5, <1>6, <1>7 DEF ChunkOf

(* ----------------------------------------------------------------- frames *)

\* Only entry k of h changes, and it goes forward.
Local(h, k) ==
    /\ \A g \in TcpHosts, j \in TcpPorts : g # h \/ j # k =>
          conn'[g][j] = conn[g][j] /\ got'[g][j] = got[g][j] /\ tcp_sent'[g][j] = tcp_sent[g][j]
    /\ tcp_sent[h][k] <= tcp_sent'[h][k]
    /\ conn[h][k].state # "Absent" => conn'[h][k].state # "Absent"
    /\ conn[h][k].state \in Late => conn'[h][k].state \in Late
    /\ conn'[h][k].state = "SynReceived" => conn[h][k].state \in {"SynReceived", "Absent"}

LEMMA SentType ==
    ASSUME tcp_sent \in [TcpHosts -> [TcpPorts -> 0 .. MaxBuffer]], NEW g \in TcpHosts, NEW j \in TcpPorts
    PROVE  tcp_sent[g][j] \in Nat
  OBVIOUS

LEMMA SentGrows ==
    ASSUME TcpTyped, TcpTyped', NEW h \in TcpHosts, NEW k \in TcpPorts, Local(h, k),
           NEW g \in TcpHosts, NEW j \in TcpPorts
    PROVE  tcp_sent[g][j] \in Nat /\ tcp_sent'[g][j] \in Nat /\ tcp_sent[g][j] <= tcp_sent'[g][j]
<1>1. tcp_sent[g][j] \in Nat
  BY DEF TcpTyped
<1>2. tcp_sent'[g][j] \in Nat
  BY DEF TcpTyped
<1>3. CASE g # h \/ j # k
  BY <1>1, <1>2, <1>3 DEF Local
<1>4. CASE g = h /\ j = k
  BY <1>1, <1>2, <1>4 DEF Local
<1>5. QED BY <1>1, <1>2, <1>3, <1>4

LEMMA OldSegment ==
    ASSUME TcpTyped, TcpTyped', NEW h \in TcpHosts, NEW k \in TcpPorts, Local(h, k),
           NEW g \in TcpHosts, NEW s \in Segs, SegmentSound(g, s)
    PROVE  SegmentSound(g, s)'
<1> DEFINE j == s.port
           p == TcpPeer(g)
<1>1. j \in TcpPorts /\ p \in TcpHosts
  BY Hosts DEF Segs
<1>2. tcp_sent[p][j] \in Nat /\ tcp_sent'[p][j] \in Nat /\ tcp_sent[p][j] <= tcp_sent'[p][j]
  BY <1>1, SentGrows
<1>3. ASSUME NEW f \in TcpHosts
      PROVE  /\ conn[f][j].state # "Absent" => conn'[f][j].state # "Absent"
             /\ conn[f][j].state \in Late => conn'[f][j].state \in Late
             /\ conn'[f][j].state = "SynReceived" => conn[f][j].state \in {"SynReceived", "Absent"}
  BY <1>1 DEF Local
<1>4. ASSUME NEW i \in 1 .. Len(s.data) PROVE s.data[i] \in 1 .. tcp_sent'[p][j] /\ s.data[i] = s.data[1] + (i - 1)
  <2>1. s.data[i] \in 1 .. tcp_sent[p][j] /\ s.data[i] = s.data[1] + (i - 1)
    BY DEF SegmentSound
  <2>2. QED BY <1>2, <2>1
<1>5. {"client", "server"} \subseteq TcpHosts
  BY Hosts
<1> HIDE DEF j, p
<1>6. /\ ~Free("client", j) => ~Free("client", j)'
      /\ ~Free("server", j) => ~Free("server", j)'
      /\ conn["client"][j].state \in Late => conn'["client"][j].state \in Late
      /\ conn["server"][j].state \in Late => conn'["server"][j].state \in Late
      /\ conn'["server"][j].state = "SynReceived" => conn["server"][j].state = "SynReceived" \/ Free("server", j)
  BY <1>3, <1>5 DEF Free
<1>7. /\ ~Free("client", j) /\ (s.data # <<>> => s.flags = {"PSH", "ACK"})
      /\ ("SYN" \in s.flags => s.seq = INITIAL_SEQ)
      /\ (g = "client" /\ "SYN" \in s.flags => ~Free("server", j))
      /\ (g = "client" /\ "FIN" \in s.flags => conn["server"][j].state \in Late)
      /\ (g = "server" /\ "ACK" \in s.flags =>
            /\ conn["client"][j].state \in Late /\ ~Free("server", j)
            /\ conn["server"][j].state = "SynReceived" => s.ack = Nth(0))
  BY DEF SegmentSound, j
<1>8. /\ ~Free("client", j)' /\ (s.data # <<>> => s.flags = {"PSH", "ACK"})
      /\ ("SYN" \in s.flags => s.seq = INITIAL_SEQ)
      /\ (g = "client" /\ "SYN" \in s.flags => ~Free("server", j)')
      /\ (g = "client" /\ "FIN" \in s.flags => conn'["server"][j].state \in Late)
      /\ (g = "server" /\ "ACK" \in s.flags =>
            /\ conn'["client"][j].state \in Late /\ ~Free("server", j)'
            /\ conn'["server"][j].state = "SynReceived" => s.ack = Nth(0))
  BY <1>6, <1>7
<1>9. QED BY <1>4, <1>8 DEF SegmentSound, j, p

LEMMA OtherEntry ==
    ASSUME TcpTyped, TcpTyped', NEW h \in TcpHosts, NEW k \in TcpPorts, Local(h, k),
           NEW g \in TcpHosts, NEW j \in TcpPorts, g # h \/ j # k, EntrySound(g, j)
    PROVE  EntrySound(g, j)'
<1> DEFINE p == TcpPeer(g)
<1>1. p \in TcpHosts
  BY Hosts
<1>2. tcp_sent[p][j] \in Nat /\ tcp_sent'[p][j] \in Nat /\ tcp_sent[p][j] <= tcp_sent'[p][j]
  BY <1>1, SentGrows
<1>3. conn'[g][j] = conn[g][j] /\ got'[g][j] = got[g][j] /\ tcp_sent'[g][j] = tcp_sent[g][j]
  BY DEF Local
<1>4. Bytes(g, j)' = Bytes(g, j)
  BY <1>3 DEF Bytes
<1>5. ASSUME NEW i \in 1 .. Len(Bytes(g, j)) PROVE Bytes(g, j)[i] \in 1 .. tcp_sent'[p][j]
  <2>1. Bytes(g, j)[i] \in 1 .. tcp_sent[p][j]
    BY DEF EntrySound
  <2>2. QED BY <1>2, <2>1
<1>6. /\ \A i \in 1 .. Len(Bytes(g, j)') : Bytes(g, j)'[i] \in 1 .. tcp_sent'[TcpPeer(g)][j]
  BY <1>4, <1>5
<1> HIDE DEF p
<1>7. QED BY <1>3, <1>4, <1>6 DEF EntrySound

LEMMA OtherEnds ==
    ASSUME NEW h \in TcpHosts, NEW k \in TcpPorts, Local(h, k),
           NEW j \in TcpPorts, j # k, EndsSound(j)
    PROVE  EndsSound(j)'
<1>1. /\ conn'["client"][j] = conn["client"][j] /\ conn'["server"][j] = conn["server"][j]
      /\ tcp_sent'["client"][j] = tcp_sent["client"][j] /\ tcp_sent'["server"][j] = tcp_sent["server"][j]
  BY Hosts DEF Local
<1>2. QED BY <1>1 DEF EndsSound, Free

(* What is left to show for a step that changes entry k of h. *)
LEMMA LocalStep ==
    ASSUME TcpTyped, TcpTyped', LinksSound, NEW h \in TcpHosts, NEW k \in TcpPorts, NEW out,
           Local(h, k), Joins(TcpPeer(h), out),
           \A s \in Range(out) : SegmentSound(TcpPeer(h), s)',
           EndsSound(k)', EntrySound(h, k)'
    PROVE  LinksSound'
<1>1. ASSUME NEW g \in TcpHosts, NEW s \in OnWay(g)' PROVE SegmentSound(g, s)'
  <2>1. CASE s \in OnWay(g)
    <3>1. s \in Segs
      <4>1. CASE Disordered
        BY <2>1, <4>1 DEF OnWay, TcpTyped
      <4>2. CASE ~Disordered
        <5>1. link[g] \in Seq(Segs)
          BY <4>2 DEF TcpTyped
        <5>2. \A i \in DOMAIN link[g] : link[g][i] \in Segs
          BY <5>1, LenProperties
        <5>3. QED BY <2>1, <4>2, <5>2 DEF OnWay, Range
      <4>3. QED BY <4>1, <4>2
    <3>2. SegmentSound(g, s)
      BY <2>1 DEF LinksSound
    <3>3. QED BY <3>1, <3>2, OldSegment
  <2>2. CASE g = TcpPeer(h) /\ s \in Range(out)
    BY <2>2
  <2>3. QED BY <2>1, <2>2 DEF Joins
<1>2. ASSUME NEW j \in TcpPorts PROVE EndsSound(j)'
  <2>1. CASE j # k
    BY <2>1, OtherEnds DEF LinksSound
  <2>2. QED BY <2>1
<1>3. ASSUME NEW g \in TcpHosts, NEW j \in TcpPorts PROVE EntrySound(g, j)'
  <2>1. CASE g # h \/ j # k
    <3>1. EntrySound(g, j)
      BY DEF LinksSound
    <3>2. QED BY <2>1, <3>1, OtherEntry
  <2>2. QED BY <2>1
<1>4. QED BY <1>1, <1>2, <1>3 DEF LinksSound

\* A step that puts d in the entry of k.
Replaces(h, k, d) == d \in TcpConnection /\ conn' = [conn EXCEPT ![h][k] = d]

LEMMA EntryChange ==
    ASSUME TcpTyped, NEW h \in TcpHosts, NEW k \in TcpPorts, NEW d, Replaces(h, k, d)
    PROVE  /\ conn' \in [TcpHosts -> [TcpPorts -> TcpConnection]] /\ conn'[h][k] = d
           /\ \A g \in TcpHosts, j \in TcpPorts : g # h \/ j # k => conn'[g][j] = conn[g][j]
  BY DEF TcpTyped, Replaces

LEMMA EntryType ==
    ASSUME TcpTyped, NEW h \in TcpHosts, NEW k \in TcpPorts
    PROVE  /\ conn[h][k] \in TcpConnection /\ conn[h][k].state \in TcpState
           /\ conn[h][k].seq_num \in 0 .. SeqSpan - 1 /\ conn[h][k].ack_num \in 0 .. SeqSpan - 1
           /\ conn[h][k].recv_buffer \in Seq(Nat) /\ got[h][k] \in Seq(Nat)
           /\ Bytes(h, k) \in Seq(Nat)
<1>1. conn[h][k] \in TcpConnection /\ got[h][k] \in Seq(Nat)
  BY DEF TcpTyped
<1>2. conn[h][k].recv_buffer \in Seq(Nat)
  BY <1>1 DEF TcpConnection
<1>3. Bytes(h, k) \in Seq(Nat)
  BY <1>1, <1>2, ConcatProperties DEF Bytes
<1>4. QED BY <1>1, <1>2, <1>3 DEF TcpConnection

LEMMA Joined ==
    ASSUME NEW N, NEW b \in Seq(Nat), NEW t \in Seq(Nat),
           \A i \in 1 .. Len(b) : b[i] \in 1 .. N, \A i \in 1 .. Len(t) : t[i] \in 1 .. N
    PROVE  \A i \in 1 .. Len(b \o t) : (b \o t)[i] \in 1 .. N
<1>1. /\ Len(b \o t) = Len(b) + Len(t) /\ Len(b) \in Nat /\ Len(t) \in Nat
      /\ \A i \in 1 .. Len(b) + Len(t) : (b \o t)[i] = IF i <= Len(b) THEN b[i] ELSE t[i - Len(b)]
  BY ConcatProperties
<1>2. ASSUME NEW i \in 1 .. Len(b) + Len(t) PROVE (b \o t)[i] \in 1 .. N
  <2>1. CASE i <= Len(b)
    BY <1>1, <2>1
  <2>2. CASE ~(i <= Len(b))
    <3>1. i - Len(b) \in 1 .. Len(t)
      BY <1>1, <2>2
    <3>2. QED BY <1>1, <2>2, <3>1
  <2>3. QED BY <2>1, <2>2
<1>3. QED BY <1>1, <1>2

LEMMA JoinedLess ==
    ASSUME NEW N, NEW b \in Seq(Nat), NEW t \in Seq(Nat), \A i \in 1 .. Len(b \o t) : (b \o t)[i] \in 1 .. N
    PROVE  \A i \in 1 .. Len(b) : b[i] \in 1 .. N
<1>1. /\ Len(b \o t) = Len(b) + Len(t) /\ Len(b) \in Nat /\ Len(t) \in Nat
      /\ \A i \in 1 .. Len(b) + Len(t) : (b \o t)[i] = IF i <= Len(b) THEN b[i] ELSE t[i - Len(b)]
  BY ConcatProperties
<1>2. ASSUME NEW i \in 1 .. Len(b) PROVE b[i] \in 1 .. N
  <2>1. i \in 1 .. Len(b) + Len(t) /\ i <= Len(b)
    BY <1>1
  <2>2. QED BY <1>1, <2>1
<1>3. QED BY <1>2

LEMMA RegroupNat == \A a, b, c \in Seq(Nat) : (a \o b) \o c = a \o (b \o c)
<1>1. ASSUME NEW a \in Seq(Nat), NEW b \in Seq(Nat), NEW c \in Seq(Nat) PROVE (a \o b) \o c = a \o (b \o c)
  <2>1. Regroups(a, b, c)
    BY AllRegroup
  <2>2. QED BY <2>1 DEF Regroups
<1>2. QED BY <1>1

(* What the bytes of entry k of h become when a segment is handled. *)
BytesAfter(h, k, s) ==
    \/ conn'[h][k].state # "Established" /\ Bytes(h, k)' = Bytes(h, k)
    \/ conn'[h][k].state = "Closed" /\ Bytes(h, k)' = got[h][k]
    \/ conn'[h][k].state = "Established" /\ Bytes(h, k)' = Bytes(h, k) \o s.data

LEMMA HandledBytes ==
    ASSUME TcpTyped, NEW h \in TcpHosts, NEW k \in TcpPorts, NEW s \in Segs, NEW out,
           HandledAs(k, conn[h][k], s, conn'[h][k], out), got' = got
    PROVE  BytesAfter(h, k, s)
<1>1. conn[h][k].recv_buffer \in Seq(Nat) /\ got[h][k] \in Seq(Nat) /\ s.data \in Seq(Nat)
  BY EntryType DEF Segs
<1>2. (got[h][k] \o conn[h][k].recv_buffer) \o s.data = got[h][k] \o (conn[h][k].recv_buffer \o s.data)
  <2>1. PICK a \in Seq(Nat), b \in Seq(Nat), t \in Seq(Nat) :
          a = got[h][k] /\ b = conn[h][k].recv_buffer /\ t = s.data
    BY <1>1
  <2>2. (a \o b) \o t = a \o (b \o t)
    BY RegroupNat
  <2>3. QED BY <2>1, <2>2
<1>3. got[h][k] \o <<>> = got[h][k]
  BY <1>1, ConcatEmptySeq
<1>4. CASE Ignores(conn[h][k], s, conn'[h][k])
  BY <1>4 DEF Ignores, BytesAfter, Bytes
<1>5. CASE Resets(conn[h][k], s, conn'[h][k])
  BY <1>3, <1>5 DEF Resets, BytesAfter, Bytes
<1>6. CASE Ends(conn[h][k], s, conn'[h][k])
  BY <1>6 DEF Ends, BytesAfter, Bytes
<1>7. CASE Opens(conn[h][k], s, conn'[h][k])
  BY <1>2, <1>7 DEF Opens, BytesAfter, Bytes
<1>8. CASE Takes(conn[h][k], s, conn'[h][k])
  BY <1>2, <1>8 DEF Takes, BytesAfter, Bytes
<1>9. QED BY <1>4, <1>5, <1>6, <1>7, <1>8 DEF HandledAs, Accepts, Continues

(* What a segment for an entry in the table does. *)
Handles(h, k, s, out) ==
    /\ s \in OnWay(h) /\ s.port = k /\ conn[h][k].state # "Absent"
    /\ HandledAs(k, conn[h][k], s, conn'[h][k], out)
    /\ UNCHANGED <<listening, pending, socks, tcp_sent, got, tcp_use>>

LEMMA KnownEffect ==
    ASSUME TcpTyped, NEW h \in TcpHosts, handle_known(h)
    PROVE  \E s \in Arriving(h) \cap Segs, k \in TcpPorts, out \in Seq(Segs) :
              /\ Handles(h, k, s, out) /\ TcpTyped' /\ Exchange(h, out) /\ Joins(TcpPeer(h), out)
              /\ \A g \in TcpHosts, j \in TcpPorts : g # h \/ j # k => conn'[g][j] = conn[g][j]
<1> DEFINE R(s) == Handled(s.port, conn[h][s.port], s)
<1>1. PICK s \in Arriving(h) :
        /\ Known(h, s) /\ conn' = [conn EXCEPT ![h][s.port] = R(s).conn] /\ Exchange(h, R(s).out)
        /\ UNCHANGED <<listening, pending, socks, tcp_sent, got, tcp_use>>
  BY DEF handle_known
<1>2. s \in OnWay(h) /\ s \in Segs /\ s.port \in TcpPorts
  BY ArrivingType DEF Segs
<1>3. PICK k, d, out : k \in TcpPorts /\ k = s.port /\ d = R(s).conn /\ out = R(s).out
  BY <1>2
<1> k \in TcpPorts BY <1>3
<1>4. conn[h][k] \in TcpConnection /\ conn[h][k].state # "Absent"
  BY <1>1, <1>3, EntryType DEF Known, Free
<1>5. d \in TcpConnection /\ HandledAs(k, conn[h][k], s, d, out)
  BY <1>2, <1>3, <1>4, HandledShape
<1> HIDE DEF R
<1>6. /\ conn' \in [TcpHosts -> [TcpPorts -> TcpConnection]] /\ conn'[h][k] = d
      /\ \A g \in TcpHosts, j \in TcpPorts : g # h \/ j # k => conn'[g][j] = conn[g][j]
  <2>1. conn' = [conn EXCEPT ![h][k] = d]
    BY <1>1, <1>3
  <2>2. Replaces(h, k, d)
    BY <1>5, <2>1 DEF Replaces
  <2>3. QED BY <2>2, EntryChange
<1>7. out \in Seq(Segs)
  <2>1. Ack(k, d) \in Segs
    BY <1>5, AckType
  <2>2. QED BY <1>5, <2>1, OneSegment, NoSegment DEF HandledAs
<1>8. Exchange(h, out) /\ tcp_use' = tcp_use
  BY <1>1, <1>3
<1>9. link' \in LinkType' /\ Joins(TcpPeer(h), out)
  BY <1>7, <1>8, ExchangeJoins
<1>10. TcpTyped'
  BY <1>1, <1>6, <1>9 DEF TcpTyped, LinkType, Disordered
<1>11. Handles(h, k, s, out)
  BY <1>1, <1>2, <1>3, <1>4, <1>5, <1>6 DEF Handles
<1>12. QED BY <1>2, <1>6, <1>7, <1>8, <1>9, <1>10, <1>11

(* ------------------------------------------------------ a segment arrives *)

LEMMA StateSets ==
    /\ Open \subseteq Late /\ "Closed" \in Late /\ "Established" \in Open /\ "CloseWait" \in Open
    /\ {"Absent", "Closed", "SynSent", "SynReceived"} \cap Open = {}
    /\ {"Absent", "SynSent", "SynReceived"} \cap Late = {}
    /\ Open \subseteq TcpState /\ Late \subseteq TcpState
  BY DEF Open, Late, TcpState

LEMMA HandledLocal ==
    ASSUME NEW h \in TcpHosts, NEW k \in TcpPorts, NEW s, NEW out, Handles(h, k, s, out), TcpTyped,
           \A g \in TcpHosts, j \in TcpPorts : g # h \/ j # k => conn'[g][j] = conn[g][j]
    PROVE  Local(h, k)
<1>1. HandledAs(k, conn[h][k], s, conn'[h][k], out) /\ tcp_sent' = tcp_sent /\ got' = got
  BY DEF Handles
<1>2. tcp_sent[h][k] \in Nat
  BY SentType DEF TcpTyped
<1>3. conn[h][k].state \in Late => conn'[h][k].state \in Late
  BY <1>1, StateSets DEF HandledAs, Ignores, Resets, Ends, Opens, Accepts, Continues, Takes
<1>4. conn'[h][k].state = "SynReceived" => conn[h][k].state = "SynReceived"
  BY <1>1, StateSets DEF HandledAs, Ignores, Resets, Ends, Opens, Accepts, Continues, Takes
<1>5. conn'[h][k].state # "Absent"
  BY <1>1 DEF HandledAs
<1>6. QED BY <1>1, <1>2, <1>3, <1>4, <1>5 DEF Local

LEMMA NoData ==
    ASSUME NEW s \in Segs, NEW h \in TcpHosts, SegmentSound(h, s), TcpTyped,
           ~(tcp_sent[TcpPeer(h)][s.port] > 0)
    PROVE  s.data = <<>>
<1>1. s.data \in Seq(Nat)
  BY DEF Segs
<1>2. ASSUME s.data # <<>> PROVE FALSE
  <2>1. 1 \in 1 .. Len(s.data)
    BY <1>1, <1>2, EmptySeq
  <2>2. s.data[1] \in 1 .. tcp_sent[TcpPeer(h)][s.port]
    BY <2>1 DEF SegmentSound
  <2>3. tcp_sent[TcpPeer(h)][s.port] \in Nat
    BY Hosts DEF TcpTyped, Segs
  <2>4. QED BY <2>2, <2>3
<1>3. QED BY <1>2

LEMMA KnownEnds ==
    ASSUME TcpTyped, LinksSound, NEW h \in TcpHosts, NEW k \in TcpPorts, NEW s \in Segs, NEW out,
           Handles(h, k, s, out), Local(h, k)
    PROVE  EndsSound(k)'
<1>1. /\ HandledAs(k, conn[h][k], s, conn'[h][k], out) /\ tcp_sent' = tcp_sent /\ s.port = k
      /\ SegmentSound(h, s) /\ EndsSound(k) /\ EntrySound("client", k) /\ EntrySound("server", k)
  BY Hosts DEF Handles, LinksSound
<1>2. /\ conn'[h][k].state # "Absent" /\ (conn[h][k].state \in Late => conn'[h][k].state \in Late)
      /\ conn'[TcpPeer(h)][k] = conn[TcpPeer(h)][k] /\ conn[h][k].state # "Absent"
      /\ ~Free("client", k)
  BY <1>1, Hosts DEF Local, HandledAs, Handles, SegmentSound
<1> DEFINE a == conn["client"][k]
           b == conn["server"][k]
           d == conn'[h][k]
<1>3. CASE h = "client"
  <2>1. conn'["server"][k] = b /\ conn'["client"][k] = d
    BY <1>2, <1>3, Hosts
  <2>2. HandledAs(k, a, s, d, out) /\ a.state # "SynReceived" /\ a.ack_num \in 0 .. SeqSpan - 1
    BY <1>1, <1>3, EntryType, Hosts DEF EntrySound
  <2>3. /\ b.state \in Open => a.state \in Late
        /\ a.state \in Open => b.state # "Absent"
        /\ b.state = "SynReceived" /\ a.state \in Open => a.ack_num = Nth(0)
        /\ tcp_sent["server"][k] > 0 => a.state \in Late /\ b.state \in Late
        /\ tcp_sent["client"][k] > 0 => b.state # "Absent"
        /\ "SYN" \in s.flags => b.state # "Absent" /\ s.seq = INITIAL_SEQ
        /\ "FIN" \in s.flags => b.state \in Late
        /\ (a.state \in Late => d.state \in Late) /\ d.state # "Absent"
    BY <1>1, <1>2, <1>3 DEF EndsSound, EntrySound, SegmentSound, Free
  <2>4. b.state = "SynReceived" => s.data = <<>>
    <3>1. b.state = "SynReceived" => ~(tcp_sent["server"][k] > 0)
      BY <2>3, StateSets
    <3>2. QED BY <1>1, <1>3, <3>1, NoData, Hosts
  <2> HIDE DEF a, b, d
  <2>5. d.state \in Open => b.state # "Absent"
    BY <2>2, <2>3, StateSets DEF HandledAs, Ignores, Resets, Ends, Opens, Accepts, Continues, Takes
  <2>6. ASSUME b.state = "SynReceived", d.state \in Open PROVE d.ack_num = Nth(0)
    <3>1. CASE Ignores(a, s, d)
      BY <2>3, <2>6, <3>1 DEF Ignores
    <3>2. CASE Ends(a, s, d)
      BY <2>3, <2>6, <3>2, StateSets DEF Ends
    <3>3. CASE Opens(a, s, d)
      BY <2>3, <3>3, NthZero DEF Opens
    <3>4. CASE Continues(a, s, d)
      <4>1. a.ack_num = Nth(0) /\ Len(s.data) = 0
        BY <2>3, <2>4, <2>6, <3>4, StateSets, EmptySeq DEF Continues
      <4>2. wrapping_add(a.ack_num, 0) = a.ack_num
        BY <2>2, AddZero
      <4>3. QED BY <3>4, <4>1, <4>2 DEF Continues, Takes
    <3>5. ~Resets(a, s, d) /\ ~Accepts(a, s, d)
      BY <2>2, <2>6, StateSets DEF Resets, Accepts
    <3>6. QED BY <2>2, <3>1, <3>2, <3>3, <3>4, <3>5 DEF HandledAs
  <2>7. QED BY <1>1, <2>1, <2>3, <2>5, <2>6 DEF EndsSound, Free
<1>4. CASE h = "server"
  <2>1. conn'["client"][k] = a /\ conn'["server"][k] = d
    BY <1>2, <1>4, Hosts
  <2>2. HandledAs(k, b, s, d, out) /\ b.state # "SynSent"
    BY <1>1, <1>4 DEF EntrySound
  <2>3. /\ b.state \in Open => a.state \in Late
        /\ a.state \in Open => b.state # "Absent"
        /\ b.state = "SynReceived" /\ a.state \in Open => a.ack_num = Nth(0)
        /\ tcp_sent["server"][k] > 0 => a.state \in Late
        /\ "ACK" \in s.flags => a.state \in Late
        /\ a.state # "Absent" /\ d.state # "Absent"
    BY <1>1, <1>2, <1>4 DEF EndsSound, EntrySound, SegmentSound, Free
  <2> HIDE DEF a, b, d
  <2>4. d.state \in Open => a.state \in Late
    BY <2>2, <2>3, StateSets DEF HandledAs, Ignores, Resets, Ends, Opens, Accepts, Continues, Takes
  <2>5. d.state = "SynReceived" => b.state = "SynReceived"
    BY <2>2, StateSets DEF HandledAs, Ignores, Resets, Ends, Opens, Accepts, Continues, Takes
  <2>6. QED BY <1>1, <2>1, <2>3, <2>4, <2>5 DEF EndsSound, Free
<1>5. QED BY <1>3, <1>4, Hosts

LEMMA KnownEntry ==
    ASSUME TcpTyped, TcpTyped', LinksSound, NEW h \in TcpHosts, NEW k \in TcpPorts, NEW s \in Segs, NEW out,
           Handles(h, k, s, out), Local(h, k)
    PROVE  EntrySound(h, k)'
<1> DEFINE c == conn[h][k]
           d == conn'[h][k]
           B == Bytes(h, k)
           E == Bytes(h, k)'
           N == tcp_sent[TcpPeer(h)][k]
<1>1. /\ HandledAs(k, c, s, d, out) /\ tcp_sent' = tcp_sent /\ s.port = k /\ got' = got
      /\ SegmentSound(h, s) /\ EntrySound(h, k)
  BY DEF Handles, LinksSound
<1>2. BytesAfter(h, k, s)
  BY <1>1, HandledBytes
<1>3. B \in Seq(Nat) /\ s.data \in Seq(Nat) /\ got[h][k] \in Seq(Nat) /\ c.recv_buffer \in Seq(Nat)
  BY EntryType DEF Segs
<1>4. B \o s.data \in Seq(Nat) /\ Len(B \o s.data) = Len(B) + Len(s.data) /\ Len(B) \in Nat /\ Len(s.data) \in Nat
  BY <1>3, ConcatProperties
<1>5. (\A i \in 1 .. Len(B) : B[i] \in 1 .. N) /\ (\A i \in 1 .. Len(s.data) : s.data[i] \in 1 .. N)
  BY <1>1 DEF EntrySound, SegmentSound
<1>6. \A i \in 1 .. Len(E) : E[i] \in 1 .. N
  <2>1. CASE E = B
    BY <1>5, <2>1
  <2>2. CASE E = got[h][k]
    <3>1. \A i \in 1 .. Len(got[h][k] \o c.recv_buffer) : (got[h][k] \o c.recv_buffer)[i] \in 1 .. N
      BY <1>5 DEF Bytes
    <3>2. PICK g \in Seq(Nat), r \in Seq(Nat) : g = got[h][k] /\ r = c.recv_buffer
      BY <1>3
    <3> HIDE DEF c, E, N
    <3>3. \A i \in 1 .. Len(g) : g[i] \in 1 .. N
      BY <3>1, <3>2, JoinedLess
    <3>4. QED BY <2>2, <3>2, <3>3
  <2>3. CASE E = B \o s.data
    <3>1. PICK b \in Seq(Nat), t \in Seq(Nat) : b = B /\ t = s.data
      BY <1>3
    <3> HIDE DEF B, E, N
    <3>2. \A i \in 1 .. Len(b \o t) : (b \o t)[i] \in 1 .. N
      BY <1>5, <3>1, Joined
    <3>3. QED BY <2>3, <3>1, <3>2
  <2>4. QED BY <1>2, <2>1, <2>2, <2>3 DEF BytesAfter
<1>7. /\ c.state = "SynSent" => h = "client" /\ c.seq_num = INITIAL_SEQ /\ B = <<>>
      /\ c.state = "SynReceived" => h = "server"
      /\ tcp_sent[h][k] > 0 => c.state \in Late
      /\ c.state \in {"SynReceived", "Established"} => c.seq_num = Nth(tcp_sent[h][k]) /\ c.ack_num = Nth(Len(B))
  BY <1>1 DEF EntrySound
<1>8. c.state \in Late => d.state \in Late
  BY DEF Local
<1>9. tcp_sent[h][k] \in Nat
  BY DEF TcpTyped
<1>10. \/ d.state # "Established" /\ E = B
       \/ d.state = "Closed"
       \/ d.state = "Established" /\ E = B \o s.data
  BY <1>2 DEF BytesAfter
<1>11. "SYN" \in s.flags => s.seq = INITIAL_SEQ /\ s.data = <<>>
  BY <1>1 DEF SegmentSound
<1> HIDE DEF c, d, B, E, N
<1>12. d.state = "SynSent" => h = "client" /\ d.seq_num = INITIAL_SEQ /\ E = <<>>
  BY <1>1, <1>7, <1>10, StateSets DEF HandledAs, Ignores, Resets, Ends, Opens, Accepts, Continues, Takes
<1>13. d.state = "SynReceived" => c.state = "SynReceived" /\ d = c /\ E = B
  BY <1>1, <1>10, StateSets DEF HandledAs, Ignores, Resets, Ends, Opens, Accepts, Continues, Takes
<1>14. ASSUME d.state = "Established"
       PROVE  d.seq_num = Nth(tcp_sent[h][k]) /\ d.ack_num = Nth(Len(E))
  <2>1. Len(E) = Len(B) + Len(s.data)
    BY <1>4, <1>10, <1>14
  <2>2. CASE Opens(c, s, d)
    <3>1. c.state = "SynSent" /\ "SYN" \in s.flags
      BY <2>2 DEF Opens
    <3>2. tcp_sent[h][k] = 0
      BY <1>7, <1>9, <3>1, StateSets
    <3>3. Len(E) = 0
      BY <1>7, <1>11, <2>1, <3>1, EmptySeq
    <3>4. d.seq_num = Nth(0) /\ d.ack_num = Nth(0)
      BY <1>7, <1>11, <2>2, <3>1, NthZero DEF Opens
    <3>5. QED BY <3>2, <3>3, <3>4
  <2>3. CASE Takes(c, s, d) /\ c.state \in {"SynReceived", "Established"}
    <3>1. d.ack_num = wrapping_add(Nth(Len(B)), Len(s.data)) /\ d.seq_num = c.seq_num
      BY <1>7, <2>3 DEF Takes
    <3>2. wrapping_add(Nth(Len(B)), Len(s.data)) = Nth(Len(B) + Len(s.data))
      BY <1>4, NthAdd
    <3>3. QED BY <1>7, <2>1, <2>3, <3>1, <3>2
  <2>4. ~Ignores(c, s, d) /\ ~Resets(c, s, d) /\ ~Ends(c, s, d)
    BY <1>14 DEF Ignores, Resets, Ends
  <2>5. QED BY <1>1, <2>2, <2>3, <2>4 DEF HandledAs, Accepts, Continues
<1>15. d.state # "Absent"
  BY <1>1 DEF HandledAs
<1>16. /\ d.state = "Absent" => d = Absent /\ got'[h][k] = <<>>
       /\ d.state = "SynSent" => h = "client" /\ d.seq_num = INITIAL_SEQ /\ E = <<>>
       /\ d.state = "SynReceived" => h = "server"
       /\ tcp_sent'[h][k] > 0 => d.state \in Late
       /\ d.state \in {"SynReceived", "Established"} => d.seq_num = Nth(tcp_sent'[h][k]) /\ d.ack_num = Nth(Len(E))
  BY <1>1, <1>7, <1>8, <1>12, <1>13, <1>14, <1>15
<1>17. QED BY <1>1, <1>6, <1>16 DEF EntrySound, c, d, B, E, N

LEMMA AckSound ==
    ASSUME NEW h \in TcpHosts, NEW k \in TcpPorts, EndsSound(k)', ~Free("client", k)',
           conn'[h][k].state \in Open, NEW a, a = Ack(k, conn'[h][k])
    PROVE  SegmentSound(TcpPeer(h), a)'
<1>1. PICK d : d = conn'[h][k]
  OBVIOUS
<1>2. a = Ack(k, d)
  BY <1>1
<1>3. a.port = k /\ a.flags = {"ACK"} /\ a.data = <<>> /\ a.ack = d.ack_num
  BY <1>2, SegmentFields DEF Ack
<1>4. 1 .. Len(a.data) = {}
  BY <1>3, EmptySeq
<1>5. TcpPeer(h) = "server" =>
        /\ conn'["client"][k].state \in Late /\ ~Free("server", k)'
        /\ conn'["server"][k].state = "SynReceived" => a.ack = Nth(0)
  <2>1. TcpPeer(h) = "server" => h = "client"
    BY Hosts
  <2>2. QED BY <1>1, <1>3, <2>1, StateSets DEF EndsSound, Free
<1>6. QED BY <1>3, <1>4, <1>5, Hosts DEF SegmentSound

LEMMA KnownStep ==
    ASSUME TcpTyped, LinksSound, NEW h \in TcpHosts, handle_known(h)
    PROVE  TcpTyped' /\ LinksSound'
<1>1. PICK s \in Arriving(h) \cap Segs, k \in TcpPorts, out \in Seq(Segs) :
        /\ Handles(h, k, s, out) /\ TcpTyped' /\ Exchange(h, out) /\ Joins(TcpPeer(h), out)
        /\ \A g \in TcpHosts, j \in TcpPorts : g # h \/ j # k => conn'[g][j] = conn[g][j]
  BY KnownEffect
<1>2. Local(h, k)
  BY <1>1, HandledLocal
<1>3. EndsSound(k)' /\ EntrySound(h, k)'
  BY <1>1, <1>2, KnownEnds, KnownEntry
<1>4. ~Free("client", k)'
  <2>1. ~Free("client", k)
    BY <1>1 DEF Handles, LinksSound, SegmentSound
  <2>2. QED BY <1>2, <2>1, Hosts DEF Local, Free
<1>5. ASSUME NEW x \in Range(out) PROVE SegmentSound(TcpPeer(h), x)'
  <2>1. out = <<Ack(k, conn'[h][k])>> /\ conn'[h][k].state \in Open
    BY <1>1, <1>5, NoSegment DEF Handles, HandledAs
  <2>2. Ack(k, conn'[h][k]) \in Segs
    BY <1>1, AckType DEF TcpTyped
  <2>3. x = Ack(k, conn'[h][k])
    BY <1>5, <2>1, <2>2, OneSegment
  <2>4. QED BY <1>3, <1>4, <2>1, <2>3, AckSound
<1>6. QED BY <1>1, <1>2, <1>3, <1>5, LocalStep

LEMMA RestatedEntry ==
    ASSUME NEW st, NEW new, NEW i, NEW z, NEW r, NEW b, NEW x, NEW v,
           v = [state |-> st, seq_num |-> i, ack_num |-> z, retransmit_queue |-> r, recv_buffer |-> b, reset |-> x]
    PROVE  [v EXCEPT !.state = new] =
           [state |-> new, seq_num |-> i, ack_num |-> z, retransmit_queue |-> r, recv_buffer |-> b, reset |-> x]
  OBVIOUS

LEMMA NewConnection ==
    ASSUME NEW b, b = <<>>
    PROVE  new_connection = [state |-> "Closed", seq_num |-> INITIAL_SEQ, ack_num |-> 0,
                             retransmit_queue |-> {}, recv_buffer |-> b, reset |-> FALSE]
<1>1. PICK A, st, new, z, r, x : /\ A = Absent /\ st = "Absent" /\ new = "Closed"
                                 /\ z = 0 /\ r = {} /\ x = FALSE
  OBVIOUS
<1>2. A = [state |-> st, seq_num |-> INITIAL_SEQ, ack_num |-> z,
           retransmit_queue |-> r, recv_buffer |-> b, reset |-> x]
  BY <1>1, Zenon DEF Absent
<1>3. [A EXCEPT !.state = new] = [state |-> new, seq_num |-> INITIAL_SEQ, ack_num |-> z,
                                  retransmit_queue |-> r, recv_buffer |-> b, reset |-> x]
  BY ONLY <1>2, RestatedEntry
<1>4. new_connection = [A EXCEPT !.state = new]
  BY <1>1, Zenon DEF new_connection
<1>5. QED BY <1>1, <1>3, <1>4, Zenon

LEMMA PassiveShape ==
    ASSUME NEW s \in Segs
    PROVE  LET d == handle_passive_syn(s)
           IN /\ d \in TcpConnection /\ d.state = "SynReceived" /\ d.recv_buffer = <<>>
              /\ d.seq_num = wrapping_add(INITIAL_SEQ, 1) /\ d.ack_num = wrapping_add(s.seq, 1)
<1>1. s.seq \in Int /\ INITIAL_SEQ \in Int /\ INITIAL_SEQ \in 0 .. SeqSpan - 1 /\ 0 \in 0 .. SeqSpan - 1
  BY SpanType DEF Segs
<1>2. PICK a \in 0 .. SeqSpan - 1, q \in 0 .. SeqSpan - 1 :
        a = wrapping_add(s.seq, 1) /\ q = wrapping_add(INITIAL_SEQ, 1)
  <2>1. wrapping_add(s.seq, 1) \in 0 .. SeqSpan - 1 /\ wrapping_add(INITIAL_SEQ, 1) \in 0 .. SeqSpan - 1
    BY ONLY <1>1, AddOne
  <2>2. QED BY <2>1
<1>3. PICK b \in Seq(Nat) : b = <<>>
  BY EmptySeq
<1>4. handle_passive_syn(s) =
        [state |-> "SynReceived", seq_num |-> q, ack_num |-> a,
         retransmit_queue |-> {INITIAL_SEQ}, recv_buffer |-> b, reset |-> FALSE]
  <2>1. new_connection = [state |-> "Closed", seq_num |-> INITIAL_SEQ, ack_num |-> 0,
                          retransmit_queue |-> {}, recv_buffer |-> b, reset |-> FALSE]
    BY <1>3, NewConnection
  <2>2. handle_passive_syn(s) = [new_connection EXCEPT !.state = "SynReceived",
                                    !.retransmit_queue = {INITIAL_SEQ}, !.seq_num = q, !.ack_num = a]
    BY <1>2 DEF handle_passive_syn
  <2>3. QED BY <2>1, <2>2
<1>5. QED BY <1>1, <1>2, <1>3, <1>4 DEF TcpConnection, TcpState

\* What a SYN for the listening port does: x answers it.
Offers(h, k, x) ==
    /\ h = "server" /\ conn[h][k].state = "Absent" /\ conn'[h][k].state = "SynReceived"
    /\ conn["client"][k].state \notin Open /\ Bytes(h, k)' = <<>>
    /\ x.port = k /\ x.data = <<>>
    /\ UNCHANGED <<tcp_sent, got, tcp_use>>

LEMMA SynEffect ==
    ASSUME TcpTyped, LinksSound, NEW h \in TcpHosts, handle_syn(h)
    PROVE  /\ TcpTyped' /\ LinksSound'
           /\ \E s \in Arriving(h), k \in TcpPorts, x \in Segs :
                 s.port = k /\ Exchange(h, <<x>>) /\ Local(h, k) /\ Offers(h, k, x)
<1>1. PICK s \in Arriving(h) :
        /\ ~Known(h, s) /\ PureSyn(s) /\ h = "server"
        /\ conn' = [conn EXCEPT ![h][s.port] = handle_passive_syn(s)]
        /\ pending' = Append(pending, s.port) /\ Exchange(h, <<SynAck(s.port, s)>>)
        /\ UNCHANGED <<listening, socks, tcp_sent, got, tcp_use>>
  BY DEF handle_syn
<1>2. s \in OnWay(h) /\ s \in Segs /\ s.port \in TcpPorts
  BY ArrivingType DEF Segs
<1>3. PICK k, d, x : k \in TcpPorts /\ k = s.port /\ d = handle_passive_syn(s) /\ x = SynAck(k, s)
  BY <1>2
<1> k \in TcpPorts BY <1>3
<1>4. /\ d \in TcpConnection /\ d.state = "SynReceived" /\ d.recv_buffer = <<>>
      /\ d.seq_num = wrapping_add(INITIAL_SEQ, 1) /\ d.ack_num = wrapping_add(s.seq, 1)
  BY <1>2, <1>3, PassiveShape
<1>5. x.port = k /\ x.flags = {"SYN", "ACK"} /\ x.seq = INITIAL_SEQ /\ x.data = <<>> /\ x \in Segs
  <2>1. s.seq \in Int
    BY <1>2, SpanType DEF Segs
  <2>2. wrapping_add(s.seq, 1) \in 0 .. SeqSpan - 1
    BY ONLY <2>1, AddOne
  <2>3. PICK b \in Seq(Nat) : b = <<>>
    BY EmptySeq
  <2>4. x = Segment(k, {"SYN", "ACK"}, INITIAL_SEQ, wrapping_add(s.seq, 1), b)
    BY <1>3, <2>3 DEF SynAck
  <2>5. x \in Segs
    BY <2>2, <2>4, SpanType DEF Segment, Segs
  <2>6. QED BY <2>3, <2>4, <2>5, SegmentFields
<1>6. <<x>> \in Seq(Segs) /\ Range(<<x>>) = {x}
  BY <1>5, OneSegment
<1>7. Exchange(h, <<x>>) /\ tcp_use' = tcp_use /\ conn' = [conn EXCEPT ![h][k] = d]
  BY <1>1, <1>3
<1>8. link' \in LinkType' /\ Joins(TcpPeer(h), <<x>>)
  BY <1>6, <1>7, ExchangeJoins
<1>9. /\ conn' \in [TcpHosts -> [TcpPorts -> TcpConnection]] /\ conn'[h][k] = d
      /\ \A g \in TcpHosts, j \in TcpPorts : g # h \/ j # k => conn'[g][j] = conn[g][j]
  <2>1. Replaces(h, k, d)
    BY <1>4, <1>7 DEF Replaces
  <2>2. QED BY <2>1, EntryChange
<1>10. pending' \in Seq(TcpPorts)
  BY <1>1, <1>2 DEF TcpTyped
<1>11. TcpTyped'
  BY <1>1, <1>8, <1>9, <1>10 DEF TcpTyped, LinkType, Disordered
<1>12. conn[h][k].state = "Absent" /\ conn[h][k] \in TcpConnection /\ tcp_sent[h][k] \in Nat
  BY <1>1, <1>3, EntryType DEF Known, Free, TcpTyped
<1>13. Local(h, k)
  BY <1>1, <1>4, <1>9, <1>12, StateSets DEF Local
<1>14. SegmentSound(h, s) /\ EndsSound(k) /\ EntrySound(h, k)
  BY <1>2 DEF LinksSound
<1>15. s.seq = INITIAL_SEQ /\ ~Free("client", k) /\ conn["client"][k].state \notin Open
         /\ got[h][k] = <<>> /\ tcp_sent[h][k] = 0
  BY <1>1, <1>3, <1>12, <1>14, StateSets DEF SegmentSound, PureSyn, EndsSound, EntrySound, Free
<1>16. conn'["client"][k] = conn["client"][k] /\ conn'["server"][k] = d
  BY <1>1, <1>9, Hosts
<1>17. EndsSound(k)'
  BY <1>1, <1>4, <1>14, <1>15, <1>16, StateSets DEF EndsSound, Free
<1>18. Bytes(h, k)' = <<>>
  BY <1>1, <1>4, <1>9, <1>15, EmptySeq, ConcatEmptySeq DEF Bytes
<1>19. EntrySound(h, k)'
  <2>1. Len(Bytes(h, k)') = 0 /\ 1 .. Len(Bytes(h, k)') = {}
    BY <1>18, EmptySeq
  <2>2. d.seq_num = Nth(0) /\ d.ack_num = Nth(0)
    BY <1>4, <1>15, NthZero
  <2>3. QED BY <1>1, <1>4, <1>9, <1>15, <2>1, <2>2 DEF EntrySound
<1>20. SegmentSound(TcpPeer(h), x)'
  <2>1. 1 .. Len(x.data) = {} /\ TcpPeer(h) = "client"
    BY <1>1, <1>5, EmptySeq, Hosts
  <2>2. ~Free("client", k)' /\ ~Free("server", k)'
    BY <1>4, <1>15, <1>16 DEF Free
  <2>3. QED BY <1>5, <2>1, <2>2 DEF SegmentSound
<1>21. LinksSound'
  BY <1>6, <1>8, <1>11, <1>13, <1>17, <1>19, <1>20, LocalStep
<1>22. Offers(h, k, x)
  BY <1>1, <1>4, <1>5, <1>9, <1>12, <1>15, <1>18 DEF Offers
<1>23. QED BY <1>3, <1>5, <1>7, <1>11, <1>13, <1>21, <1>22

(* A step that changes no connection. *)
LEMMA StillStep ==
    ASSUME TcpTyped, LinksSound, NEW h \in TcpHosts, NEW k \in TcpPorts, NEW out,
           UNCHANGED <<conn, tcp_sent, got>>, TcpTyped', Joins(TcpPeer(h), out),
           \A s \in Range(out) : SegmentSound(TcpPeer(h), s)'
    PROVE  LinksSound'
<1>1. tcp_sent[h][k] \in Nat
  BY DEF TcpTyped
<1>2. Local(h, k)
  BY <1>1, StateSets DEF Local
<1>3. EndsSound(k) /\ EntrySound(h, k)
  BY DEF LinksSound
<1>4. EndsSound(k)' /\ EntrySound(h, k)'
  BY <1>3 DEF EndsSound, EntrySound, Bytes, Free
<1>5. QED BY <1>2, <1>4, LocalStep

LEMMA ResetSegments ==
    ASSUME NEW k \in TcpPorts, NEW s \in Segs
    PROVE  /\ send_reset(k, s) \in Seq(Segs)
           /\ \A x \in Range(send_reset(k, s)) :
                 x.port = k /\ x.data = <<>> /\ "SYN" \notin x.flags /\ "FIN" \notin x.flags
<1>1. s.seq \in Int /\ s.ack \in 0 .. SeqSpan - 1 /\ Len(s.data) \in Int /\ 0 \in 0 .. SeqSpan - 1
  BY SpanType DEF Segs
<1>2. PICK b \in Seq(Nat) : b = <<>>
  BY EmptySeq
<1>3. PICK n \in Int : n = Len(s.data) + (IF "SYN" \in s.flags THEN 1 ELSE 0)
  <2>1. PICK m \in Int : m = Len(s.data)
    BY <1>1
  <2>2. PICK e \in Int : e = IF "SYN" \in s.flags THEN 1 ELSE 0
    OBVIOUS
  <2>3. m + e \in Int
    OBVIOUS
  <2>4. QED BY <2>1, <2>2, <2>3
<1>4. PICK a \in 0 .. SeqSpan - 1 : a = wrapping_add(s.seq, n)
  <2>1. wrapping_add(s.seq, n) \in 0 .. SeqSpan - 1
    BY ONLY <1>1, n \in Int, AddType
  <2>2. QED BY <2>1
<1>5. PICK x, y : x = Segment(k, {"RST"}, s.ack, 0, b) /\ y = Segment(k, {"RST", "ACK"}, 0, a, b)
  OBVIOUS
<1>6. x \in Segs /\ y \in Segs
  BY <1>1, <1>5 DEF Segment, Segs
<1>7. /\ x.port = k /\ x.data = <<>> /\ x.flags = {"RST"}
      /\ y.port = k /\ y.data = <<>> /\ y.flags = {"RST", "ACK"}
  BY <1>2, <1>5, SegmentFields
<1>8. send_reset(k, s) = <<>> \/ send_reset(k, s) = <<x>> \/ send_reset(k, s) = <<y>>
  BY <1>2, <1>3, <1>4, <1>5 DEF send_reset
<1>9. PICK out : out = send_reset(k, s)
  OBVIOUS
<1>10. CASE out = <<>>
  BY <1>9, <1>10, NoSegment
<1>11. CASE out = <<x>>
  <2>1. out \in Seq(Segs) /\ Range(out) = {x}
    BY <1>6, <1>11, OneSegment
  <2>2. QED BY <1>7, <1>9, <2>1
<1>12. CASE out = <<y>>
  <2>1. out \in Seq(Segs) /\ Range(out) = {y}
    BY <1>6, <1>12, OneSegment
  <2>2. QED BY <1>7, <1>9, <2>1
<1>13. QED BY <1>8, <1>9, <1>10, <1>11, <1>12

LEMMA UnknownStep ==
    ASSUME TcpTyped, LinksSound, NEW h \in TcpHosts, handle_unknown(h)
    PROVE  TcpTyped' /\ LinksSound'
<1>1. PICK s \in Arriving(h) :
        /\ ~Known(h, s) /\ Exchange(h, send_reset(s.port, s))
        /\ UNCHANGED <<conn, listening, pending, socks, tcp_sent, got, tcp_use>>
  BY DEF handle_unknown
<1>2. s \in OnWay(h) /\ s \in Segs /\ s.port \in TcpPorts
  BY ArrivingType DEF Segs
<1>3. PICK k, out : k \in TcpPorts /\ k = s.port /\ out = send_reset(k, s)
  BY <1>2
<1> k \in TcpPorts BY <1>3
<1>4. /\ out \in Seq(Segs)
      /\ \A x \in Range(out) : x.port = k /\ x.data = <<>> /\ "SYN" \notin x.flags /\ "FIN" \notin x.flags
  BY <1>2, <1>3, ResetSegments
<1>5. Exchange(h, out) /\ tcp_use' = tcp_use
  BY <1>1, <1>3
<1>6. link' \in LinkType' /\ Joins(TcpPeer(h), out)
  BY <1>4, <1>5, ExchangeJoins
<1>7. TcpTyped'
  BY <1>1, <1>6 DEF TcpTyped, LinkType, Disordered
<1>8. ~Free("client", k) /\ h = "server"
  BY <1>1, <1>2, <1>3, Hosts DEF LinksSound, SegmentSound, Known, Free
<1>9. ASSUME NEW x \in Range(out) PROVE SegmentSound(TcpPeer(h), x)'
  <2>1. x.port = k /\ x.data = <<>> /\ "SYN" \notin x.flags /\ "FIN" \notin x.flags
    BY <1>4
  <2>2. 1 .. Len(x.data) = {} /\ TcpPeer(h) = "client"
    BY <1>8, <2>1, EmptySeq, Hosts
  <2>3. ~Free("client", k)'
    BY <1>1, <1>8 DEF Free
  <2>4. QED BY <2>1, <2>2, <2>3 DEF SegmentSound
<1>10. QED BY <1>1, <1>6, <1>7, <1>9, StillStep

LEMMA LoseStep ==
    ASSUME TcpTyped, LinksSound, NEW h \in TcpHosts, lose(h)
    PROVE  TcpTyped' /\ LinksSound'
<1>1. UNCHANGED <<conn, listening, pending, socks, tcp_sent, got, tcp_use>>
  BY DEF lose
<1>2. link' \in LinkType' /\ Joins(TcpPeer(h), <<>>)
  BY LoseJoins, Hosts
<1>3. TcpTyped'
  BY <1>1, <1>2 DEF TcpTyped, LinkType, Disordered
<1>4. CASE TcpPorts = {}
  <2>1. ASSUME NEW g \in TcpHosts, NEW s \in OnWay(g)' PROVE FALSE
    <3>1. s \in OnWay(g)
      BY <1>2, <2>1, NoSegment DEF Joins
    <3>2. s \in Segs
      <4>1. CASE Disordered
        BY <3>1, <4>1 DEF OnWay, TcpTyped
      <4>2. CASE ~Disordered
        <5>1. link[g] \in Seq(Segs)
          BY <4>2 DEF TcpTyped
        <5>2. \A i \in DOMAIN link[g] : link[g][i] \in Segs
          BY <5>1, LenProperties
        <5>3. QED BY <3>1, <4>2, <5>2 DEF OnWay, Range
      <4>3. QED BY <4>1, <4>2
    <3>3. s.port \in TcpPorts
      BY <3>2 DEF Segs
    <3>4. QED BY <1>4, <3>3
  <2>2. QED BY <1>3, <1>4, <2>1 DEF LinksSound
<1>5. CASE TcpPorts # {}
  <2>1. PICK k \in TcpPorts : TRUE
    BY <1>5
  <2>2. \A s \in Range(<<>>) : SegmentSound(TcpPeer(h), s)'
    BY NoSegment
  <2>3. QED BY <1>1, <1>2, <1>3, <2>1, <2>2, StillStep
<1>6. QED BY <1>4, <1>5

(* ----------------------------------------------------------- system calls *)

\* What a connect does: x is its SYN.
Calls(h, k, x) ==
    /\ h = "client" /\ conn[h][k].state = "Absent" /\ conn'[h][k].state = "SynSent"
    /\ conn["server"][k].state = "Absent" /\ tcp_sent["server"][k] = 0 /\ Bytes(h, k)' = <<>>
    /\ x.port = k /\ x.data = <<>> /\ link' = Sending("server", <<x>>)
    /\ UNCHANGED <<tcp_sent, got, tcp_use>>

LEMMA ConnectEffect ==
    ASSUME TcpTyped, LinksSound, NEW k \in TcpPorts, sys_connect(k)
    PROVE  /\ TcpTyped' /\ LinksSound'
           /\ \E h \in TcpHosts, x \in Segs : Calls(h, k, x) /\ Local(h, k)
<1>0. PICK h \in TcpHosts : h = "client"
  BY Hosts
<1>1. /\ Free("client", k) /\ conn' = [conn EXCEPT ![h][k] = connect]
      /\ socks' = [socks EXCEPT ![h][k] = @ + 1]
      /\ link' = Sending("server", <<Segment(k, {"SYN"}, INITIAL_SEQ, 0, <<>>)>>)
      /\ UNCHANGED <<listening, pending, tcp_sent, got, tcp_use>>
  BY <1>0 DEF sys_connect
<1>2. h \in TcpHosts /\ "server" \in TcpHosts /\ TcpPeer(h) = "server"
  BY <1>0, Hosts
<1>3. PICK b \in Seq(Nat) : b = <<>>
  BY EmptySeq
<1>4. PICK d, x : d = connect /\ x = Segment(k, {"SYN"}, INITIAL_SEQ, 0, b)
  OBVIOUS
<1>5. d = [state |-> "SynSent", seq_num |-> INITIAL_SEQ, ack_num |-> 0,
           retransmit_queue |-> {INITIAL_SEQ}, recv_buffer |-> b, reset |-> FALSE]
  <2>1. new_connection = [state |-> "Closed", seq_num |-> INITIAL_SEQ, ack_num |-> 0,
                          retransmit_queue |-> {}, recv_buffer |-> b, reset |-> FALSE]
    BY <1>3, NewConnection
  <2>2. QED BY <1>4, <2>1 DEF connect
<1>6. d \in TcpConnection /\ d.state = "SynSent" /\ d.seq_num = INITIAL_SEQ /\ d.recv_buffer = <<>>
  BY <1>3, <1>5, SpanType DEF TcpConnection, TcpState
<1>7. x \in Segs
  BY <1>3, <1>4, SpanType DEF Segment, Segs
<1>8. x.port = k /\ x.flags = {"SYN"} /\ x.seq = INITIAL_SEQ /\ x.data = <<>>
  BY <1>3, <1>4, SegmentFields
<1>9. <<x>> \in Seq(Segs) /\ Range(<<x>>) = {x}
  BY <1>7, OneSegment
<1>10. link' = Sending("server", <<x>>) /\ tcp_use' = tcp_use /\ conn' = [conn EXCEPT ![h][k] = d]
  BY <1>1, <1>3, <1>4
<1>11. link' \in LinkType' /\ Joins(TcpPeer(h), <<x>>)
  BY <1>2, <1>9, <1>10, SendJoins
<1>12. /\ conn' \in [TcpHosts -> [TcpPorts -> TcpConnection]] /\ conn'[h][k] = d
       /\ \A g \in TcpHosts, j \in TcpPorts : g # h \/ j # k => conn'[g][j] = conn[g][j]
  <2>1. conn' = [conn EXCEPT ![h][k] = d] /\ d \in TcpConnection
    BY <1>6, <1>10
  <2>2. Replaces(h, k, d)
    BY <2>1 DEF Replaces
  <2>3. QED BY <2>2, EntryChange
<1>13. socks' \in [TcpHosts -> [TcpPorts -> Nat]]
  BY <1>1 DEF TcpTyped
<1>14. TcpTyped'
  BY <1>1, <1>11, <1>12, <1>13 DEF TcpTyped, LinkType, Disordered
<1>15. conn[h][k].state = "Absent" /\ tcp_sent[h][k] \in Nat /\ tcp_sent["server"][k] \in Nat
  BY <1>0, <1>1, <1>2 DEF Free, TcpTyped
<1>16. Local(h, k)
  BY <1>1, <1>6, <1>12, <1>15, StateSets DEF Local
<1>17. EndsSound(k) /\ EntrySound(h, k)
  BY <1>2 DEF LinksSound
<1>18. /\ conn["server"][k].state = "Absent" /\ got[h][k] = <<>> /\ tcp_sent[h][k] = 0
       /\ tcp_sent["server"][k] = 0
  BY <1>0, <1>15, <1>17, StateSets DEF EndsSound, EntrySound, Free
<1>19. conn'["server"][k] = conn["server"][k] /\ conn'["client"][k] = d
  BY <1>2, <1>12, <1>0
<1>20. EndsSound(k)'
  BY <1>0, <1>1, <1>6, <1>17, <1>18, <1>19, StateSets DEF EndsSound, Free
<1>21. Bytes(h, k)' = <<>>
  BY <1>1, <1>6, <1>12, <1>18, EmptySeq, ConcatEmptySeq DEF Bytes
<1>22. EntrySound(h, k)'
  <2>1. 1 .. Len(Bytes(h, k)') = {}
    BY <1>21, EmptySeq
  <2>2. QED BY <1>0, <1>1, <1>6, <1>12, <1>18, <1>21, <2>1 DEF EntrySound
<1>23. SegmentSound(TcpPeer(h), x)'
  <2>1. 1 .. Len(x.data) = {}
    BY <1>8, EmptySeq
  <2>2. ~Free("client", k)'
    BY <1>6, <1>19 DEF Free
  <2>3. QED BY <1>2, <1>8, <2>1, <2>2 DEF SegmentSound
<1>24. LinksSound'
  BY <1>2, <1>9, <1>11, <1>14, <1>16, <1>20, <1>22, <1>23, LocalStep
<1>25. Calls(h, k, x)
  BY <1>0, <1>1, <1>6, <1>8, <1>10, <1>12, <1>15, <1>18, <1>21 DEF Calls
<1>26. QED BY <1>7, <1>14, <1>16, <1>24, <1>25

\* What a send does: m of the segments of n bytes go out.
Wrote(h, k, n, m, out) ==
    /\ conn[h][k].state = "Established" /\ conn'[h][k].state = "Established"
    /\ out = Chunks(k, conn[h][k], tcp_sent[h][k], n, m) /\ (m - 1) * MAX_SEGMENT_SIZE < n
    /\ tcp_sent'[h][k] = tcp_sent[h][k] + Total(m, n)
    /\ conn'[h][k].seq_num = wrapping_add(conn[h][k].seq_num, Total(m, n))
    /\ conn'[h][k].ack_num = conn[h][k].ack_num /\ conn'[h][k].recv_buffer = conn[h][k].recv_buffer
    /\ conn'[h][k].retransmit_queue = conn[h][k].retransmit_queue \cup {s.seq : s \in Range(out)}
    /\ link' = Sending(TcpPeer(h), out)
    /\ UNCHANGED <<listening, pending, socks, got, tcp_use>>

LEMMA SendEffect ==
    ASSUME TcpTyped, NEW h \in TcpHosts, NEW k \in TcpPorts, NEW n \in 1 .. MaxBuffer, sys_sendto(h, k, n)
    PROVE  \E m \in 1 .. n, out \in Seq(Segs) :
              /\ Wrote(h, k, n, m, out) /\ TcpTyped' /\ Local(h, k) /\ Joins(TcpPeer(h), out)
<1> DEFINE c == conn[h][k]
           C(m) == Chunks(k, c, tcp_sent[h][k], n, m)
<1>1. PICK m \in 1 .. n :
        /\ send_data(c) /\ tcp_sent[h][k] + n <= tcp_use.bytes[h] /\ (m - 1) * MAX_SEGMENT_SIZE < n
        /\ conn' = [conn EXCEPT ![h][k].retransmit_queue = @ \cup {s.seq : s \in Range(C(m))},
                                ![h][k].seq_num = wrapping_add(@, Total(m, n))]
        /\ tcp_sent' = [tcp_sent EXCEPT ![h][k] = @ + Total(m, n)]
        /\ link' = Sending(TcpPeer(h), C(m))
        /\ UNCHANGED <<listening, pending, socks, got, tcp_use>>
  BY DEF sys_sendto, Total
<1>2. c \in TcpConnection /\ tcp_sent[h][k] \in Nat /\ n \in Nat /\ c.seq_num \in 0 .. SeqSpan - 1
  BY EntryType DEF TcpTyped
<1>3. PICK out : out = C(m)
  OBVIOUS
<1>4. /\ out \in Seq(Segs) /\ Total(m, n) \in 1 .. n
  BY <1>1, <1>2, <1>3, ChunkShape, ChunkSizes
<1>5. PICK t \in 1 .. n : t = Total(m, n)
  BY <1>4
<1>6. PICK q \in 0 .. SeqSpan - 1 : q = wrapping_add(c.seq_num, t)
  <2>1. c.seq_num \in Int /\ t \in Int
    BY <1>2, <1>5, SpanType
  <2>2. wrapping_add(c.seq_num, t) \in 0 .. SeqSpan - 1
    BY ONLY <2>1, AddType
  <2>3. QED BY <2>2
<1>7. PICK Q : Q = {s.seq : s \in Range(out)}
  OBVIOUS
<1>8. Q \subseteq 0 .. SeqSpan - 1
  <2>1. \A i \in DOMAIN out : out[i] \in Segs
    BY <1>4, LenProperties
  <2>2. \A s \in Range(out) : s.seq \in 0 .. SeqSpan - 1
    BY <2>1 DEF Range, Segs
  <2>3. QED BY <1>7, <2>2
<1>9. PICK d : d = [c EXCEPT !.retransmit_queue = @ \cup Q, !.seq_num = q]
  OBVIOUS
<1>10. /\ d \in TcpConnection /\ d.state = c.state /\ d.seq_num = q /\ d.ack_num = c.ack_num
       /\ d.recv_buffer = c.recv_buffer /\ d.retransmit_queue = c.retransmit_queue \cup Q
  BY <1>2, <1>6, <1>8, <1>9 DEF TcpConnection
<1>11. conn' = [conn EXCEPT ![h][k] = d]
  <2>1. conn' = [conn EXCEPT ![h][k].retransmit_queue = @ \cup Q, ![h][k].seq_num = wrapping_add(@, t)]
    BY <1>1, <1>3, <1>5, <1>7
  <2>2. conn \in [TcpHosts -> [TcpPorts -> TcpConnection]]
    BY DEF TcpTyped
  <2>3. wrapping_add(c.seq_num, t) = q
    BY <1>6
  <2>4. QED BY <2>1, <2>2, <2>3, <1>2, <1>9 DEF TcpConnection
<1>12. /\ conn' \in [TcpHosts -> [TcpPorts -> TcpConnection]] /\ conn'[h][k] = d
       /\ \A g \in TcpHosts, j \in TcpPorts : g # h \/ j # k => conn'[g][j] = conn[g][j]
  <2>1. Replaces(h, k, d)
    BY <1>10, <1>11 DEF Replaces
  <2>2. QED BY <2>1, EntryChange
<1>13. /\ tcp_sent' \in [TcpHosts -> [TcpPorts -> 0 .. MaxBuffer]]
       /\ tcp_sent'[h][k] = tcp_sent[h][k] + t
       /\ \A g \in TcpHosts, j \in TcpPorts : g # h \/ j # k => tcp_sent'[g][j] = tcp_sent[g][j]
  <2>1. tcp_use.bytes[h] \in 0 .. MaxBuffer /\ MaxBuffer \in Nat
    BY TcpConstants DEF TcpTyped, TcpHosts
  <2>2. PICK w \in 0 .. MaxBuffer : w = tcp_sent[h][k] + t
    BY <1>1, <1>2, <1>5, <2>1
  <2>3. tcp_sent' = [tcp_sent EXCEPT ![h][k] = w]
    BY <1>1, <1>5, <2>2
  <2>4. tcp_sent \in [TcpHosts -> [TcpPorts -> 0 .. MaxBuffer]]
    BY DEF TcpTyped
  <2>5. QED BY <2>2, <2>3, <2>4
<1>14. link' = Sending(TcpPeer(h), out) /\ tcp_use' = tcp_use
  BY <1>1, <1>3
<1>15. link' \in LinkType' /\ Joins(TcpPeer(h), out)
  BY <1>4, <1>14, SendJoins, Hosts
<1>16. TcpTyped'
  BY <1>1, <1>12, <1>13, <1>15 DEF TcpTyped, LinkType, Disordered
<1>17. c.state = "Established"
  BY <1>1 DEF send_data
<1>18. Local(h, k)
  <2>1. tcp_sent[h][k] <= tcp_sent'[h][k]
    BY <1>2, <1>5, <1>13
  <2>2. got' = got /\ conn'[h][k].state = "Established" /\ conn[h][k].state = "Established"
    BY <1>1, <1>10, <1>12, <1>17
  <2> HIDE DEF c
  <2>3. QED BY <1>12, <1>13, <2>1, <2>2, StateSets DEF Local
<1>19. Wrote(h, k, n, m, out)
  BY <1>1, <1>3, <1>5, <1>6, <1>7, <1>10, <1>12, <1>13, <1>14, <1>17 DEF Wrote
<1>20. QED BY <1>4, <1>15, <1>16, <1>18, <1>19

LEMMA ByteNumber ==
    ASSUME NEW u \in Nat, NEW f \in Nat, NEW z \in Nat, NEW t \in Nat, NEW j \in 1 .. z, f + z <= t
    PROVE  u + f + j \in 1 .. u + t /\ u + f + j = (u + f + 1) + (j - 1)
  OBVIOUS

LEMMA SendStep ==
    ASSUME TcpTyped, LinksSound, NEW h \in TcpHosts, NEW k \in TcpPorts, NEW n \in 1 .. MaxBuffer,
           sys_sendto(h, k, n)
    PROVE  TcpTyped' /\ LinksSound'
<1>1. PICK m \in 1 .. n, out \in Seq(Segs) :
        /\ Wrote(h, k, n, m, out) /\ TcpTyped' /\ Local(h, k) /\ Joins(TcpPeer(h), out)
  BY SendEffect
<1> DEFINE c == conn[h][k]
           d == conn'[h][k]
           S == tcp_sent[h][k]
<1>2. /\ c.state = "Established" /\ d.state = "Established" /\ (m - 1) * MAX_SEGMENT_SIZE < n
      /\ tcp_sent'[h][k] = S + Total(m, n) /\ d.seq_num = wrapping_add(c.seq_num, Total(m, n))
      /\ d.ack_num = c.ack_num /\ d.recv_buffer = c.recv_buffer /\ got' = got
  BY <1>1 DEF Wrote
<1>3. EndsSound(k) /\ EntrySound(h, k) /\ S \in Nat /\ c \in TcpConnection /\ n \in Nat
  BY EntryType DEF LinksSound, TcpTyped
<1>4. Total(m, n) \in 1 .. n
  BY <1>2, <1>3, ChunkSizes
<1>5. conn'[TcpPeer(h)][k] = conn[TcpPeer(h)][k] /\ tcp_sent'[TcpPeer(h)][k] = tcp_sent[TcpPeer(h)][k]
  BY <1>1, Hosts DEF Local
<1>6. conn'["client"][k].state = conn["client"][k].state /\ conn'["server"][k].state = conn["server"][k].state
        /\ conn'["client"][k].ack_num = conn["client"][k].ack_num
  BY <1>2, <1>5, Hosts
<1>7. /\ conn["client"][k].state # "Absent" /\ conn["server"][k].state # "Absent"
      /\ conn["client"][k].state \in Late
  <2>1. CASE h = "client"
    BY <1>2, <1>3, <2>1, StateSets DEF EndsSound, Free
  <2>2. CASE h = "server"
    BY <1>2, <1>3, <2>2, StateSets DEF EndsSound, Free
  <2>3. QED BY <2>1, <2>2, Hosts
<1>8. EndsSound(k)'
  BY <1>3, <1>6, <1>7 DEF EndsSound, Free
<1>9. Bytes(h, k)' = Bytes(h, k)
  BY <1>2 DEF Bytes
<1>10. EntrySound(h, k)'
  <2>1. c.seq_num = Nth(S) /\ c.ack_num = Nth(Len(Bytes(h, k)))
    BY <1>2, <1>3 DEF EntrySound
  <2>2. wrapping_add(Nth(S), Total(m, n)) = Nth(S + Total(m, n))
    <3>1. PICK t \in Nat, u \in Nat : t = Total(m, n) /\ u = S
      BY <1>3, <1>4
    <3>2. wrapping_add(Nth(u), t) = Nth(u + t)
      BY NthAdd
    <3>3. QED BY <3>1, <3>2
  <2>3. "Established" \in Late /\ "Established" # "Absent" /\ "Established" # "SynSent" /\ "Established" # "SynReceived"
    BY StateSets
  <2>4. \A i \in 1 .. Len(Bytes(h, k)) : Bytes(h, k)[i] \in 1 .. tcp_sent[TcpPeer(h)][k]
    BY <1>3 DEF EntrySound
  <2> HIDE DEF S
  <2>5. QED BY <1>2, <1>5, <1>9, <2>1, <2>2, <2>3, <2>4 DEF EntrySound
<1>11. ASSUME NEW x \in Range(out) PROVE SegmentSound(TcpPeer(h), x)'
  <2>1. out = Chunks(k, c, S, n, m)
    BY <1>1 DEF Wrote
  <2>2. PICK i \in 1 .. m : x = out[i]
    BY <1>2, <1>3, <1>11, <2>1, ChunkShape DEF Range
  <2>3. /\ x.port = k /\ x.flags = {"PSH", "ACK"} /\ x.ack = c.ack_num /\ Len(x.data) = Size(i, n)
        /\ \A j \in 1 .. Size(i, n) : x.data[j] = S + First(i) + j
    <3>1. ChunkOf(x, k, c, S, n, i)
      BY <1>2, <1>3, <2>1, <2>2, ChunkShape
    <3>2. QED BY <3>1 DEF ChunkOf
  <2>4. First(i) \in Nat /\ Size(i, n) \in Nat \ {0} /\ First(i) + Size(i, n) <= Total(m, n)
    BY <1>2, <1>3, ChunkSizes
  <2> HIDE DEF S, c
  <2>5. ASSUME NEW j \in 1 .. Len(x.data)
        PROVE  x.data[j] \in 1 .. tcp_sent'[h][k] /\ x.data[j] = x.data[1] + (j - 1)
    <3>1. 1 \in 1 .. Size(i, n) /\ j \in 1 .. Size(i, n)
      BY <2>3, <2>4
    <3>2. x.data[j] = S + First(i) + j /\ x.data[1] = S + First(i) + 1
      BY <2>3, <3>1
    <3>3. PICK u \in Nat, f \in Nat, z \in Nat, t \in Nat :
            u = S /\ f = First(i) /\ z = Size(i, n) /\ t = Total(m, n) /\ f + z <= t
      BY <1>3, <1>4, <2>4
    <3>4. tcp_sent'[h][k] = u + t /\ j \in 1 .. z /\ x.data[j] = u + f + j /\ x.data[1] = u + f + 1
      BY <1>2, <3>1, <3>2, <3>3
    <3>5. u + f + j \in 1 .. u + t /\ u + f + j = (u + f + 1) + (j - 1)
      <4>1. j \in 1 .. z /\ f + z <= t
        BY <3>3, <3>4
      <4>2. QED BY ONLY u \in Nat, f \in Nat, z \in Nat, t \in Nat, <4>1, ByteNumber
    <3>6. QED BY <3>4, <3>5
  <2>6. TcpPeer(TcpPeer(h)) = h
    BY Hosts
  <2>7. TcpPeer(h) = "server" => h = "client"
    BY Hosts
  <2>8. TcpPeer(h) = "server" => (conn["server"][k].state = "SynReceived" => x.ack = Nth(0))
    BY <1>2, <1>3, <2>3, <2>7, StateSets DEF EndsSound, c
  <2>9. /\ ~Free("client", k)' /\ ~Free("server", k)' /\ conn'["client"][k].state \in Late
        /\ (conn'["server"][k].state = "SynReceived") = (conn["server"][k].state = "SynReceived")
    BY <1>6, <1>7 DEF Free
  <2>10. QED BY <2>3, <2>5, <2>6, <2>8, <2>9 DEF SegmentSound
<1>12. QED BY <1>1, <1>8, <1>10, <1>11, LocalStep

\* What a receive does: bytes go from the buffer to the application.
LEMMA ReceiveEffect ==
    ASSUME TcpTyped, NEW h \in TcpHosts, NEW k \in TcpPorts, NEW n \in 1 .. MaxBuffer, sys_recvfrom(h, k, n)
    PROVE  /\ TcpTyped' /\ Local(h, k) /\ Bytes(h, k)' = Bytes(h, k)
           /\ conn'[h][k].state = conn[h][k].state /\ conn'[h][k].seq_num = conn[h][k].seq_num
           /\ conn'[h][k].ack_num = conn[h][k].ack_num
           /\ conn'[h][k].retransmit_queue = conn[h][k].retransmit_queue
           /\ conn[h][k].state # "Absent"
           /\ UNCHANGED <<listening, pending, socks, link, tcp_sent, tcp_use>>
<1> DEFINE c == conn[h][k]
<1>1. PICK b \in Seq(Nat) : b = c.recv_buffer
  BY EntryType
<1>2. PICK t \in 0 .. Len(b) : t = IF Len(b) < n THEN Len(b) ELSE n
  OBVIOUS
<1>3. PICK u \in Seq(Nat), v \in Seq(Nat) :
        u = SubSeq(b, 1, t) /\ v = SubSeq(b, t + 1, Len(b)) /\ u \o v = b
  <2>1. /\ SubSeq(b, 1, t) \in Seq(Nat) /\ SubSeq(b, t + 1, Len(b)) \in Seq(Nat)
        /\ SubSeq(b, 1, t) \o SubSeq(b, t + 1, Len(b)) = b
    BY CutJoin
  <2>2. QED BY <2>1
<1>4. /\ recv_data(c) /\ got' = [got EXCEPT ![h][k] = @ \o u]
      /\ conn' = [conn EXCEPT ![h][k].recv_buffer = v]
      /\ UNCHANGED <<listening, pending, socks, link, tcp_sent, tcp_use>>
  BY <1>1, <1>2, <1>3 DEF sys_recvfrom
<1>5. c \in TcpConnection /\ got[h][k] \in Seq(Nat)
  BY EntryType
<1>6. PICK d : d = [c EXCEPT !.recv_buffer = v]
  OBVIOUS
<1>7. /\ d \in TcpConnection /\ d.state = c.state /\ d.seq_num = c.seq_num /\ d.ack_num = c.ack_num
      /\ d.recv_buffer = v /\ d.retransmit_queue = c.retransmit_queue
  BY <1>5, <1>6 DEF TcpConnection
<1>8. conn' = [conn EXCEPT ![h][k] = d]
  BY <1>4, <1>6 DEF TcpTyped
<1>9. /\ conn' \in [TcpHosts -> [TcpPorts -> TcpConnection]] /\ conn'[h][k] = d
      /\ \A g \in TcpHosts, j \in TcpPorts : g # h \/ j # k => conn'[g][j] = conn[g][j]
  <2>1. conn' = [conn EXCEPT ![h][k] = d] /\ d \in TcpConnection
    BY <1>7, <1>8
  <2>2. Replaces(h, k, d)
    BY <2>1 DEF Replaces
  <2>3. QED BY <2>2, EntryChange
<1>10. PICK w \in Seq(Nat) : w = got[h][k] \o u
  BY <1>5, ConcatProperties
<1>11. got' = [got EXCEPT ![h][k] = w] /\ got \in [TcpHosts -> [TcpPorts -> Seq(Nat)]]
  BY <1>4, <1>10 DEF TcpTyped
<1>12. /\ got' \in [TcpHosts -> [TcpPorts -> Seq(Nat)]] /\ got'[h][k] = w
       /\ \A g \in TcpHosts, j \in TcpPorts : g # h \/ j # k => got'[g][j] = got[g][j]
  BY <1>11
<1>13. TcpTyped'
  BY <1>4, <1>9, <1>12 DEF TcpTyped, Disordered
<1>14. tcp_sent[h][k] \in Nat /\ tcp_sent' = tcp_sent
  BY <1>4 DEF TcpTyped
<1>15. c.state \in {"Established", "CloseWait"} /\ d.state = c.state
  BY <1>4, <1>7 DEF recv_data
<1>16. Bytes(h, k)' = Bytes(h, k)
  <2>1. PICK g \in Seq(Nat) : g = got[h][k]
    BY <1>5
  <2>2. (g \o u) \o v = g \o (u \o v)
    BY RegroupNat
  <2>3. Bytes(h, k)' = (g \o u) \o v
    BY <1>7, <1>9, <1>10, <1>12, <2>1 DEF Bytes
  <2>4. QED BY <1>1, <1>3, <2>1, <2>2, <2>3 DEF Bytes
<1>17. Local(h, k)
  BY <1>9, <1>12, <1>14, <1>15, StateSets DEF Local
<1>18. QED BY <1>4, <1>7, <1>9, <1>13, <1>15, <1>16, <1>17

LEMMA ReceiveStep ==
    ASSUME TcpTyped, LinksSound, NEW h \in TcpHosts, NEW k \in TcpPorts, NEW n \in 1 .. MaxBuffer,
           sys_recvfrom(h, k, n)
    PROVE  TcpTyped' /\ LinksSound'
<1>1. /\ TcpTyped' /\ Local(h, k) /\ Bytes(h, k)' = Bytes(h, k)
      /\ conn'[h][k].state = conn[h][k].state /\ conn'[h][k].seq_num = conn[h][k].seq_num
      /\ conn'[h][k].ack_num = conn[h][k].ack_num /\ conn[h][k].state # "Absent"
      /\ UNCHANGED <<listening, pending, socks, link, tcp_sent, tcp_use>>
  BY ReceiveEffect
<1>2. EndsSound(k) /\ EntrySound(h, k)
  BY DEF LinksSound
<1>3. conn'[TcpPeer(h)][k] = conn[TcpPeer(h)][k]
  BY <1>1, Hosts DEF Local
<1>4. /\ conn'["client"][k].state = conn["client"][k].state /\ conn'["server"][k].state = conn["server"][k].state
      /\ conn'["client"][k].ack_num = conn["client"][k].ack_num
  BY <1>1, <1>3, Hosts
<1>5. EndsSound(k)'
  BY <1>1, <1>2, <1>4 DEF EndsSound, Free
<1>6. EntrySound(h, k)'
  BY <1>1, <1>2 DEF EntrySound
<1>7. Joins(TcpPeer(h), <<>>)
  BY <1>1 DEF Joins, OnWay, Disordered
<1>8. QED BY <1>1, <1>5, <1>6, <1>7, NoSegment, LocalStep

\* What a close does.
Shuts(h, k, out) ==
    LET c == conn[h][k]
        d == conn'[h][k]
    IN /\ d.recv_buffer = c.recv_buffer /\ d.ack_num = c.ack_num /\ d.retransmit_queue = c.retransmit_queue
       /\ \/ d = c /\ out = <<>> /\ c.state # "Established"
          \/ /\ c.state \in Open /\ d.state \in Open \ {"Established"}
             /\ out = <<Segment(k, {"FIN", "ACK"}, c.seq_num, c.ack_num, <<>>)>>
       /\ link' = Sending(TcpPeer(h), out)
       /\ UNCHANGED <<listening, pending, tcp_sent, got, tcp_use>>

LEMMA CloseEffect ==
    ASSUME TcpTyped, NEW h \in TcpHosts, NEW k \in TcpPorts, sys_close_sock(h, k)
    PROVE  \E out \in Seq(Segs) : Shuts(h, k, out) /\ TcpTyped' /\ Local(h, k) /\ Joins(TcpPeer(h), out)
<1> DEFINE c == conn[h][k]
<1>1. /\ socks[h][k] > 0 /\ socks' = [socks EXCEPT ![h][k] = @ - 1]
      /\ conn' = [conn EXCEPT ![h][k] = Closed(@)]
      /\ link' = Sending(TcpPeer(h), Fin(k, c))
      /\ UNCHANGED <<listening, pending, tcp_sent, got, tcp_use>>
  BY DEF sys_close_sock
<1>2. c \in TcpConnection /\ c.seq_num \in 0 .. SeqSpan - 1 /\ c.ack_num \in 0 .. SeqSpan - 1
  BY EntryType
<1>3. PICK d, out : d = Closed(c) /\ out = Fin(k, c)
  OBVIOUS
<1>4. conn' = [conn EXCEPT ![h][k] = d] /\ link' = Sending(TcpPeer(h), out) /\ tcp_use' = tcp_use
  BY <1>1, <1>3 DEF TcpTyped
<1> DEFINE Shut == /\ c.state \in Open /\ d.state \in Open \ {"Established"}
                   /\ out = <<Segment(k, {"FIN", "ACK"}, c.seq_num, c.ack_num, <<>>)>>
<1>5. /\ d \in TcpConnection /\ out \in Seq(Segs)
      /\ d.recv_buffer = c.recv_buffer /\ d.ack_num = c.ack_num /\ d.retransmit_queue = c.retransmit_queue
      /\ (d = c /\ out = <<>> /\ c.state # "Established") \/ Shut
  <2>1. CASE c.state \in {"Established", "CloseWait"}
    <3>1. PICK q \in 0 .. SeqSpan - 1 : q = wrapping_add(c.seq_num, 1)
      <4>1. c.seq_num \in Int
        BY <1>2, SpanType
      <4>2. wrapping_add(c.seq_num, 1) \in 0 .. SeqSpan - 1
        BY ONLY <4>1, AddOne
      <4>3. QED BY <4>2
    <3>2. PICK st \in {"FinWait1", "LastAck"} : d = [c EXCEPT !.state = st, !.seq_num = q]
      BY <1>3, <2>1, <3>1 DEF Closed
    <3>3. /\ d \in TcpConnection /\ d.state = st /\ d.recv_buffer = c.recv_buffer /\ d.ack_num = c.ack_num
          /\ d.retransmit_queue = c.retransmit_queue
      BY <1>2, <3>1, <3>2 DEF TcpConnection, TcpState
    <3>4. PICK b \in Seq(Nat) : b = <<>>
      BY EmptySeq
    <3>5. Segment(k, {"FIN", "ACK"}, c.seq_num, c.ack_num, b) \in Segs
      BY <1>2, <3>4 DEF Segment, Segs
    <3>6. out = <<Segment(k, {"FIN", "ACK"}, c.seq_num, c.ack_num, b)>>
      BY <1>3, <2>1, <3>4 DEF Fin
    <3>7. out \in Seq(Segs)
      BY <3>5, <3>6, OneSegment
    <3>8. c.state \in Open /\ st \in Open \ {"Established"}
      BY <2>1 DEF Open, TcpState
    <3>9. QED BY <3>3, <3>4, <3>6, <3>7, <3>8
  <2>2. CASE c.state \notin {"Established", "CloseWait"}
    BY <1>2, <1>3, <2>2, NoSegment DEF Closed, Fin
  <2>3. QED BY <2>1, <2>2
<1>6. /\ conn' \in [TcpHosts -> [TcpPorts -> TcpConnection]] /\ conn'[h][k] = d
      /\ \A g \in TcpHosts, j \in TcpPorts : g # h \/ j # k => conn'[g][j] = conn[g][j]
  <2>1. conn' = [conn EXCEPT ![h][k] = d] /\ d \in TcpConnection
    BY <1>4, <1>5
  <2>2. Replaces(h, k, d)
    BY <2>1 DEF Replaces
  <2>3. QED BY <2>2, EntryChange
<1>7. link' \in LinkType' /\ Joins(TcpPeer(h), out)
  <2>1. out \in Seq(Segs)
    BY <1>5
  <2>2. QED BY <1>4, <2>1, SendJoins, Hosts
<1>8. socks' \in [TcpHosts -> [TcpPorts -> Nat]]
  <2>1. PICK n \in Nat : n = socks[h][k] - 1
    BY <1>1 DEF TcpTyped
  <2>2. socks' = [socks EXCEPT ![h][k] = n] /\ socks \in [TcpHosts -> [TcpPorts -> Nat]]
    BY <1>1, <2>1 DEF TcpTyped
  <2>3. QED BY <2>2
<1>9. TcpTyped'
  BY <1>1, <1>6, <1>7, <1>8 DEF TcpTyped, LinkType, Disordered
<1>10. tcp_sent[h][k] \in Nat /\ tcp_sent' = tcp_sent /\ got' = got
  BY <1>1 DEF TcpTyped
<1>11. Local(h, k)
  <2>1. d.state = c.state \/ (d.state \in Open /\ c.state \in Open)
    BY <1>5
  <2> HIDE DEF Shut
  <2>2. QED BY <1>6, <1>10, <2>1, StateSets DEF Local
<1>12. Shuts(h, k, out)
  BY <1>1, <1>4, <1>5, <1>6 DEF Shuts
<1> HIDE DEF Shut, c
<1>13. QED BY <1>5, <1>7, <1>9, <1>11, <1>12

LEMMA CloseStep ==
    ASSUME TcpTyped, LinksSound, NEW h \in TcpHosts, NEW k \in TcpPorts, sys_close_sock(h, k)
    PROVE  TcpTyped' /\ LinksSound'
<1>1. PICK out \in Seq(Segs) : Shuts(h, k, out) /\ TcpTyped' /\ Local(h, k) /\ Joins(TcpPeer(h), out)
  BY CloseEffect
<1> DEFINE c == conn[h][k]
           d == conn'[h][k]
<1>2. EndsSound(k) /\ EntrySound(h, k)
  BY DEF LinksSound
<1>3. /\ d.recv_buffer = c.recv_buffer /\ d.ack_num = c.ack_num /\ tcp_sent' = tcp_sent /\ got' = got
      /\ \/ d = c /\ out = <<>>
         \/ /\ c.state \in Open /\ d.state \in Open \ {"Established"}
            /\ out = <<Segment(k, {"FIN", "ACK"}, c.seq_num, c.ack_num, <<>>)>>
  BY <1>1 DEF Shuts
<1>4. conn'[TcpPeer(h)][k] = conn[TcpPeer(h)][k]
  BY <1>1, Hosts DEF Local
<1>5. Bytes(h, k)' = Bytes(h, k)
  BY <1>3 DEF Bytes
<1>6. CASE d = c /\ out = <<>>
  <2>1. conn'["client"][k] = conn["client"][k] /\ conn'["server"][k] = conn["server"][k]
    BY <1>4, <1>6, Hosts
  <2>2. EndsSound(k)' /\ EntrySound(h, k)'
    BY <1>2, <1>3, <1>5, <1>6, <2>1 DEF EndsSound, EntrySound, Free
  <2>3. QED BY <1>1, <1>6, <2>2, NoSegment, LocalStep
<1>7. CASE /\ c.state \in Open /\ d.state \in Open \ {"Established"}
           /\ out = <<Segment(k, {"FIN", "ACK"}, c.seq_num, c.ack_num, <<>>)>>
  <2>1. /\ conn'["client"][k].ack_num = conn["client"][k].ack_num
        /\ \A g \in TcpHosts : /\ conn[g][k].state \in Open <=> conn'[g][k].state \in Open
                               /\ conn[g][k].state \in Late <=> conn'[g][k].state \in Late
                               /\ conn[g][k].state = "Absent" <=> conn'[g][k].state = "Absent"
                               /\ conn[g][k].state = "SynReceived" <=> conn'[g][k].state = "SynReceived"
    BY <1>3, <1>4, <1>7, Hosts, StateSets
  <2>2. EndsSound(k)'
    BY <1>2, <1>3, <2>1, Hosts DEF EndsSound, Free
  <2>3. EntrySound(h, k)'
    BY <1>2, <1>3, <1>5, <1>7, StateSets DEF EntrySound
  <2>4. PICK x, b : x = Segment(k, {"FIN", "ACK"}, c.seq_num, c.ack_num, b) /\ b = <<>>
    OBVIOUS
  <2>5. x.port = k /\ x.flags = {"FIN", "ACK"} /\ x.ack = c.ack_num /\ x.data = <<>>
    BY <2>4, SegmentFields
  <2>6. out = <<x>> /\ Range(out) = {x}
    <3>1. out = <<x>>
      BY <1>7, <2>4
    <3>2. DOMAIN <<x>> = {1} /\ <<x>>[1] = x
      OBVIOUS
    <3>3. QED BY <3>1, <3>2 DEF Range
  <2>7. SegmentSound(TcpPeer(h), x)'
    <3>1. 1 .. Len(x.data) = {}
      BY <2>5, EmptySeq
    <3>2. CASE h = "client"
      <4>1. TcpPeer(h) = "server" /\ d.state \in Open /\ d.ack_num = c.ack_num
        BY <1>3, <1>7, <3>2, Hosts
      <4>2. QED BY <2>2, <2>5, <3>1, <3>2, <4>1, StateSets DEF SegmentSound, EndsSound, Free
    <3>3. CASE h = "server"
      <4>1. TcpPeer(h) = "client" /\ d.state \in Open
        BY <1>7, <3>3, Hosts
      <4>2. QED BY <2>2, <2>5, <3>1, <3>3, <4>1, StateSets DEF SegmentSound, EndsSound, Free
    <3>4. QED BY <3>2, <3>3, Hosts
  <2>8. QED BY <1>1, <2>2, <2>3, <2>6, <2>7, LocalStep
<1>8. QED BY <1>3, <1>6, <1>7

LEMMA StillLinks ==
    ASSUME LinksSound, UNCHANGED <<conn, link, tcp_sent, got, tcp_use>>
    PROVE  LinksSound'
<1>1. ASSUME NEW h \in TcpHosts, NEW s \in OnWay(h)' PROVE SegmentSound(h, s)'
  <2>1. s \in OnWay(h)
    BY DEF OnWay, Disordered
  <2>2. SegmentSound(h, s)
    BY <2>1 DEF LinksSound
  <2>3. QED BY <2>2 DEF SegmentSound, Free
<1>2. ASSUME NEW k \in TcpPorts PROVE EndsSound(k)'
  <2>1. EndsSound(k)
    BY DEF LinksSound
  <2>2. QED BY <2>1 DEF EndsSound, Free
<1>3. ASSUME NEW h \in TcpHosts, NEW k \in TcpPorts PROVE EntrySound(h, k)'
  <2>1. EntrySound(h, k)
    BY DEF LinksSound
  <2>2. Bytes(h, k)' = Bytes(h, k)
    BY DEF Bytes
  <2>3. QED BY <2>1, <2>2 DEF EntrySound
<1>4. QED BY <1>1, <1>2, <1>3 DEF LinksSound

LEMMA CallStep ==
    ASSUME TcpTyped, LinksSound, sys_listen \/ close_listener \/ sys_accept
    PROVE  TcpTyped' /\ LinksSound'
<1>1. UNCHANGED <<conn, link, tcp_sent, got, tcp_use>> /\ listening' \in BOOLEAN
  BY DEF sys_listen, close_listener, sys_accept, TcpTyped
<1>2. pending' \in Seq(TcpPorts) /\ socks' \in [TcpHosts -> [TcpPorts -> Nat]]
  <2>1. CASE sys_listen \/ close_listener
    <3>1. pending' = <<>> /\ socks' = socks
      BY <2>1 DEF sys_listen, close_listener
    <3>2. QED BY <3>1, EmptySeq DEF TcpTyped
  <2>2. CASE sys_accept
    <3>1. pending \in Seq(TcpPorts) /\ pending # <<>> /\ pending' = Tail(pending)
            /\ socks' = [socks EXCEPT !["server"][Head(pending)] = @ + 1]
      BY <2>2 DEF sys_accept, TcpTyped
    <3>2. pending' \in Seq(TcpPorts) /\ Head(pending) \in TcpPorts
      BY <3>1, HeadTailProperties
    <3>3. socks \in [TcpHosts -> [TcpPorts -> Nat]] /\ "server" \in TcpHosts
      BY Hosts DEF TcpTyped
    <3>4. QED BY <3>1, <3>2, <3>3
  <2>3. QED BY <2>1, <2>2
<1>3. TcpTyped'
  BY <1>1, <1>2 DEF TcpTyped, Disordered
<1>4. LinksSound'
  BY <1>1, StillLinks
<1>5. QED BY <1>3, <1>4

\* The base: types, and what holds on every link.
LEMMA LinksInit == ASSUME TcpInit PROVE TcpTyped /\ LinksSound
<1>1. /\ tcp_use \in TcpUses /\ conn = [h \in TcpHosts |-> [k \in TcpPorts |-> Absent]]
      /\ listening = FALSE /\ pending = <<>>
      /\ socks = [h \in TcpHosts |-> [k \in TcpPorts |-> 0]]
      /\ link = [h \in TcpHosts |-> IF Disordered THEN {} ELSE <<>>]
      /\ tcp_sent = [h \in TcpHosts |-> [k \in TcpPorts |-> 0]]
      /\ got = [h \in TcpHosts |-> [k \in TcpPorts |-> <<>>]]
  BY DEF TcpInit
<1>2. PICK b \in Seq(Nat) : b = <<>>
  BY EmptySeq
<1>3. Absent \in TcpConnection /\ Absent.state = "Absent" /\ Absent.recv_buffer = <<>>
  <2>1. Absent = [state |-> "Absent", seq_num |-> INITIAL_SEQ, ack_num |-> 0,
                  retransmit_queue |-> {}, recv_buffer |-> b, reset |-> FALSE]
    BY <1>2 DEF Absent
  <2>2. QED BY <1>2, <2>1, SpanType DEF TcpConnection, TcpState
<1>4. 0 \in 0 .. MaxBuffer /\ <<>> \in Seq(TcpPorts) /\ <<>> \in Seq(Segs)
  BY TcpConstants, EmptySeq
<1>5. link \in [TcpHosts -> IF Disordered THEN SUBSET Segs ELSE Seq(Segs)]
  <2>1. CASE Disordered
    BY <1>1, <2>1
  <2>2. CASE ~Disordered
    BY <1>1, <1>4, <2>2
  <2>3. QED BY <2>1, <2>2
<1>6. got \in [TcpHosts -> [TcpPorts -> Seq(Nat)]]
  BY <1>1, <1>2
<1>7. TcpTyped
  BY <1>1, <1>3, <1>4, <1>5, <1>6 DEF TcpTyped
<1>8. ASSUME NEW h \in TcpHosts PROVE OnWay(h) = {}
  <2>1. CASE Disordered
    BY <1>1, <2>1 DEF OnWay
  <2>2. CASE ~Disordered
    BY <1>1, <2>2, NoSegment DEF OnWay
  <2>3. QED BY <2>1, <2>2
<1>9. ASSUME NEW h \in TcpHosts, NEW k \in TcpPorts
      PROVE  conn[h][k] = Absent /\ tcp_sent[h][k] = 0 /\ got[h][k] = <<>> /\ Bytes(h, k) = <<>>
               /\ 1 .. Len(Bytes(h, k)) = {}
  <2>1. conn[h][k] = Absent /\ tcp_sent[h][k] = 0 /\ got[h][k] = <<>>
    BY <1>1
  <2>2. Bytes(h, k) = <<>>
    BY <1>3, <2>1, EmptySeq, ConcatEmptySeq DEF Bytes
  <2>3. QED BY <2>1, <2>2, EmptySeq
<1>10. ASSUME NEW h \in TcpHosts, NEW k \in TcpPorts PROVE EntrySound(h, k)
  BY <1>3, <1>9, StateSets DEF EntrySound
<1>11. ASSUME NEW k \in TcpPorts PROVE EndsSound(k)
  BY <1>3, <1>9, StateSets, Hosts DEF EndsSound, Free
<1>12. QED BY <1>7, <1>8, <1>10, <1>11 DEF LinksSound

LEMMA LinksNext == ASSUME TcpTyped, LinksSound, [TcpNext]_tcp_vars PROVE TcpTyped' /\ LinksSound'
<1>1. CASE \E h \in TcpHosts : handle_tcp_packet(h) \/ lose(h)
  BY <1>1, KnownStep, SynEffect, UnknownStep, LoseStep DEF handle_tcp_packet
<1>2. CASE sys_listen \/ close_listener \/ sys_accept
  BY <1>2, CallStep
<1>3. CASE \E k \in TcpPorts : sys_connect(k)
  BY <1>3, ConnectEffect
<1>4. CASE \E h \in TcpHosts, k \in TcpPorts : \E n \in 1 .. MaxBuffer : sys_sendto(h, k, n) \/ sys_recvfrom(h, k, n)
  BY <1>4, SendStep, ReceiveStep
<1>5. CASE \E h \in TcpHosts, k \in TcpPorts : sys_close_sock(h, k)
  BY <1>5, CloseStep
<1>6. CASE UNCHANGED tcp_vars
  <2>1. LinksSound'
    BY <1>6, StillLinks DEF tcp_vars
  <2>2. QED BY <1>6, <2>1 DEF tcp_vars, TcpTyped, Disordered
<1>7. QED BY <1>1, <1>2, <1>3, <1>4, <1>5, <1>6 DEF TcpNext

(* ---------------------------------------------------------------- accept *)

\* The server's entries stay in the table.
Stays == \A k \in TcpPorts : ~Free("server", k) => ~Free("server", k)'

LEMMA LocalStays == ASSUME NEW h \in TcpHosts, NEW k \in TcpPorts, Local(h, k) PROVE Stays
  BY Hosts DEF Local, Stays, Free

(* A step that queues nothing and makes no server socket. *)
LEMMA AcceptCalm ==
    ASSUME TcpTyped, TcpTyped', AcceptSound, Stays, pending' = pending \/ pending' = <<>>,
           \A k \in TcpPorts : socks'["server"][k] <= socks["server"][k]
    PROVE  AcceptSound'
<1>1. \A k \in TcpPorts : socks["server"][k] \in Nat /\ socks'["server"][k] \in Nat
  BY Hosts DEF TcpTyped
<1>2. DOMAIN pending' \subseteq DOMAIN pending /\ \A i \in DOMAIN pending' : pending'[i] = pending[i]
  <2>1. DOMAIN <<>> = {}
    OBVIOUS
  <2>2. QED BY <2>1
<1>3. \A i \in DOMAIN pending : pending[i] \in TcpPorts
  BY ElementOfSeq DEF TcpTyped
<1>4. ASSUME NEW k \in TcpPorts
      PROVE  socks'["server"][k] <= 1 /\ (socks'["server"][k] > 0 => ~Free("server", k)')
  BY <1>1, <1>4 DEF AcceptSound, Stays
<1>5. ASSUME NEW i \in DOMAIN pending'
      PROVE  ~Free("server", pending[i])' /\ socks'["server"][pending'[i]] = 0
  <2>1. PICK k \in TcpPorts : k = pending[i] /\ i \in DOMAIN pending
    BY <1>2, <1>3
  <2>2. ~Free("server", k) /\ socks["server"][k] = 0
    BY <2>1 DEF AcceptSound
  <2>3. socks'["server"][k] = 0 /\ ~Free("server", k)'
    BY <1>1, <2>2 DEF Stays
  <2>4. QED BY <1>2, <2>1, <2>3 DEF Free
<1>6. \A i, j \in DOMAIN pending' : pending'[i] = pending'[j] => i = j
  BY <1>2 DEF AcceptSound
<1>7. QED BY <1>4, <1>5, <1>6 DEF AcceptSound

LEMMA AcceptSyn ==
    ASSUME TcpTyped, TcpTyped', AcceptSound, NEW h \in TcpHosts, handle_syn(h)
    PROVE  AcceptSound'
<1>1. PICK s \in Arriving(h) :
        /\ ~Known(h, s) /\ h = "server"
        /\ conn' = [conn EXCEPT ![h][s.port] = handle_passive_syn(s)]
        /\ pending' = Append(pending, s.port) /\ socks' = socks
  BY DEF handle_syn
<1>2. s \in Segs /\ s.port \in TcpPorts
  BY ArrivingType DEF Segs
<1>3. PICK p \in TcpPorts, d \in TcpConnection :
        p = s.port /\ d = handle_passive_syn(s) /\ d.state = "SynReceived"
  BY <1>2, PassiveShape
<1>4. conn'["server"][p] = d /\ \A k \in TcpPorts : k # p => conn'["server"][k] = conn["server"][k]
  <2>1. conn' = [conn EXCEPT ![h][p] = d] /\ d \in TcpConnection
    BY <1>1, <1>3
  <2>2. /\ conn'[h][p] = d
        /\ \A g \in TcpHosts, j \in TcpPorts : g # h \/ j # p => conn'[g][j] = conn[g][j]
    <3>1. Replaces(h, p, d)
      BY <2>1 DEF Replaces
    <3>2. QED BY <3>1, EntryChange
  <2>3. QED BY <1>1, <2>2
<1>5. Free("server", p) /\ ~Free("server", p)' /\ Stays
  BY <1>1, <1>3, <1>4 DEF Known, Free, Stays
<1>6. socks["server"][p] = 0
  <2>1. socks["server"][p] \in Nat
    BY Hosts DEF TcpTyped
  <2>2. QED BY <1>5, <2>1 DEF AcceptSound
<1>7. /\ DOMAIN pending' = DOMAIN pending \cup {Len(pending) + 1} /\ Len(pending) + 1 \notin DOMAIN pending
      /\ pending'[Len(pending) + 1] = p /\ \A i \in DOMAIN pending : pending'[i] = pending[i]
  <2>1. pending \in Seq(TcpPorts) /\ pending' = Append(pending, p)
    BY <1>1, <1>3 DEF TcpTyped
  <2>2. QED BY <2>1, AppendProperties
<1>8. \A i \in DOMAIN pending : pending[i] \in TcpPorts /\ pending[i] # p
  <2>1. \A i \in DOMAIN pending : pending[i] \in TcpPorts
    BY ElementOfSeq DEF TcpTyped
  <2>2. QED BY <1>5, <2>1 DEF AcceptSound
<1>9. \A i, j \in DOMAIN pending' : pending'[i] = pending'[j] => i = j
  BY <1>7, <1>8 DEF AcceptSound
<1>10. ASSUME NEW i \in DOMAIN pending'
       PROVE  ~Free("server", pending[i])' /\ socks'["server"][pending'[i]] = 0
  <2>1. PICK k \in TcpPorts : k = pending'[i]
    BY <1>7, <1>8
  <2>2. ~Free("server", k)' /\ socks["server"][k] = 0
    BY <1>5, <1>6, <1>7, <1>8, <2>1 DEF AcceptSound, Stays
  <2>3. QED BY <1>1, <2>1, <2>2 DEF Free
<1>11. \A k \in TcpPorts : socks'["server"][k] <= 1 /\ (socks'["server"][k] > 0 => ~Free("server", k)')
  BY <1>1, <1>5 DEF AcceptSound, Stays
<1>12. QED BY <1>9, <1>10, <1>11 DEF AcceptSound

LEMMA AcceptAccept ==
    ASSUME TcpTyped, TcpTyped', AcceptSound, sys_accept
    PROVE  AcceptSound'
<1>1. /\ pending \in Seq(TcpPorts) /\ pending # <<>> /\ pending' = Tail(pending) /\ conn' = conn
      /\ socks' = [socks EXCEPT !["server"][Head(pending)] = @ + 1]
  BY DEF sys_accept, TcpTyped
<1>2. PICK p \in TcpPorts : p = Head(pending) /\ p = pending[1] /\ 1 \in DOMAIN pending
  BY <1>1, HeadTailProperties, RangeTail
<1>3. /\ \A i \in DOMAIN pending' : i + 1 \in DOMAIN pending /\ i \in Nat \ {0} /\ pending'[i] = pending[i + 1]
  BY <1>1, HeadTailProperties
<1>4. \A i \in DOMAIN pending : pending[i] \in TcpPorts
  BY <1>1, ElementOfSeq
<1>5. socks["server"][p] = 0 /\ ~Free("server", p)
  BY <1>2 DEF AcceptSound
<1>6. socks'["server"][p] = 1 /\ \A k \in TcpPorts : k # p => socks'["server"][k] = socks["server"][k]
  <2>1. PICK g \in TcpHosts : g = "server"
    BY Hosts
  <2>2. socks \in [TcpHosts -> [TcpPorts -> Nat]] /\ socks' = [socks EXCEPT ![g][p] = @ + 1]
    BY <1>1, <1>2, <2>1 DEF TcpTyped
  <2>3. socks'[g][p] = socks[g][p] + 1 /\ \A k \in TcpPorts : k # p => socks'[g][k] = socks[g][k]
    BY <2>2
  <2>4. QED BY <1>5, <2>1, <2>3
<1>7. \A i, j \in DOMAIN pending' : pending'[i] = pending'[j] => i = j
  BY <1>3 DEF AcceptSound
<1>8. ASSUME NEW i \in DOMAIN pending'
      PROVE  ~Free("server", pending[i])' /\ socks'["server"][pending'[i]] = 0
  <2>1. PICK j \in DOMAIN pending : j # 1 /\ pending'[i] = pending[j]
    BY <1>3
  <2>2. pending[j] \in TcpPorts /\ pending[j] # p /\ ~Free("server", pending[j]) /\ socks["server"][pending[j]] = 0
    BY <1>2, <1>4, <2>1 DEF AcceptSound
  <2>3. QED BY <1>1, <1>6, <2>1, <2>2 DEF Free
<1>9. \A k \in TcpPorts : socks'["server"][k] <= 1 /\ (socks'["server"][k] > 0 => ~Free("server", k)')
  BY <1>1, <1>5, <1>6 DEF AcceptSound, Free
<1>10. QED BY <1>7, <1>8, <1>9 DEF AcceptSound

(* No other step queues a connection or makes a server socket. *)
LEMMA AcceptOther ==
    ASSUME TcpTyped, NEW h \in TcpHosts, NEW k \in TcpPorts, NEW n \in 1 .. MaxBuffer,
           sys_sendto(h, k, n) \/ sys_recvfrom(h, k, n)
    PROVE  Stays /\ pending' = pending /\ socks' = socks
<1>1. CASE sys_sendto(h, k, n)
  <2>1. PICK m \in 1 .. n, out \in Seq(Segs) : Wrote(h, k, n, m, out) /\ Local(h, k)
    BY <1>1, SendEffect
  <2>2. Stays
    BY <2>1, LocalStays
  <2>3. QED BY <2>1, <2>2 DEF Wrote
<1>2. CASE sys_recvfrom(h, k, n)
  <2>1. Local(h, k) /\ UNCHANGED <<pending, socks>>
    BY <1>2, ReceiveEffect
  <2>2. QED BY <2>1, LocalStays
<1>3. QED BY <1>1, <1>2

LEMMA AcceptConnect ==
    ASSUME TcpTyped, TcpTyped', AcceptSound, NEW k \in TcpPorts, sys_connect(k)
    PROVE  AcceptSound'
<1>1. PICK h \in TcpHosts : h = "client"
  BY Hosts
<1>2. PICK d : d = connect
  OBVIOUS
<1>3. conn' = [conn EXCEPT ![h][k] = d] /\ socks' = [socks EXCEPT ![h][k] = @ + 1] /\ pending' = pending
  BY <1>1, <1>2 DEF sys_connect
<1>4. h # "server" /\ "server" \in TcpHosts
  BY <1>1, Hosts
<1>5. conn'["server"] = conn["server"] /\ socks'["server"] = socks["server"]
  BY <1>3, <1>4 DEF TcpTyped
<1>6. Stays
  BY <1>5 DEF Stays, Free
<1>7. \A j \in TcpPorts : socks'["server"][j] <= socks["server"][j]
  <2>1. \A j \in TcpPorts : socks["server"][j] \in Nat
    BY Hosts DEF TcpTyped
  <2>2. QED BY <1>5, <2>1
<1>8. QED BY <1>3, <1>6, <1>7, AcceptCalm

LEMMA AcceptClose ==
    ASSUME TcpTyped, TcpTyped', AcceptSound, NEW h \in TcpHosts, NEW k \in TcpPorts, sys_close_sock(h, k)
    PROVE  AcceptSound'
<1>1. PICK out \in Seq(Segs) : Shuts(h, k, out) /\ Local(h, k)
  BY CloseEffect
<1>2. Stays
  BY <1>1, LocalStays
<1>3. pending' = pending
  BY DEF sys_close_sock
<1>4. \A j \in TcpPorts : socks'["server"][j] <= socks["server"][j]
  <2>1. socks \in [TcpHosts -> [TcpPorts -> Nat]] /\ socks' = [socks EXCEPT ![h][k] = @ - 1]
    BY DEF sys_close_sock, TcpTyped
  <2>2. ASSUME NEW g \in TcpHosts, NEW j \in TcpPorts PROVE socks'[g][j] <= socks[g][j]
    BY <2>1
  <2>3. QED BY <2>2, Hosts
<1>5. QED BY <1>2, <1>3, <1>4, AcceptCalm

LEMMA AcceptNext ==
    ASSUME TcpTyped, TcpTyped', AcceptSound, [TcpNext]_tcp_vars
    PROVE  AcceptSound'
<1>1. \A j \in TcpPorts : socks["server"][j] \in Nat
  BY Hosts DEF TcpTyped
<1>2. ASSUME Stays, pending' = pending \/ pending' = <<>>, socks' = socks PROVE AcceptSound'
  <2>1. \A j \in TcpPorts : socks'["server"][j] <= socks["server"][j]
    BY <1>1, <1>2
  <2>2. QED BY <1>2, <2>1, AcceptCalm
<1>3. ASSUME conn' = conn PROVE Stays
  BY <1>3 DEF Stays, Free
<1>4. ASSUME NEW h \in TcpHosts, handle_known(h) PROVE AcceptSound'
  <2>1. PICK s \in Segs, k \in TcpPorts, out \in Seq(Segs) :
          /\ Handles(h, k, s, out)
          /\ \A g \in TcpHosts, j \in TcpPorts : g # h \/ j # k => conn'[g][j] = conn[g][j]
    BY <1>4, KnownEffect
  <2>2. Local(h, k)
    BY <2>1, HandledLocal
  <2>3. pending' = pending /\ socks' = socks
    BY <2>1 DEF Handles
  <2>4. QED BY <1>2, <2>2, <2>3, LocalStays
<1>5. ASSUME NEW h \in TcpHosts, handle_unknown(h) \/ lose(h) PROVE AcceptSound'
  BY <1>2, <1>3, <1>5 DEF handle_unknown, lose
<1>6. CASE \E h \in TcpHosts : handle_tcp_packet(h) \/ lose(h)
  BY <1>4, <1>5, <1>6, AcceptSyn DEF handle_tcp_packet
<1>7. CASE sys_listen \/ close_listener
  BY <1>2, <1>3, <1>7 DEF sys_listen, close_listener
<1>8. CASE \E k \in TcpPorts : sys_connect(k)
  BY <1>8, AcceptConnect
<1>9. CASE \E h \in TcpHosts, k \in TcpPorts : \E n \in 1 .. MaxBuffer : sys_sendto(h, k, n) \/ sys_recvfrom(h, k, n)
  BY <1>2, <1>9, AcceptOther
<1>10. CASE \E h \in TcpHosts, k \in TcpPorts : sys_close_sock(h, k)
  BY <1>10, AcceptClose
<1>11. CASE UNCHANGED tcp_vars
  BY <1>2, <1>3, <1>11 DEF tcp_vars
<1>12. QED BY <1>6, <1>7, <1>8, <1>9, <1>10, <1>11, AcceptAccept DEF TcpNext

LEMMA AcceptInit == ASSUME TcpInit PROVE AcceptSound
<1>1. pending = <<>> /\ \A k \in TcpPorts : socks["server"][k] = 0
  BY Hosts DEF TcpInit
<1>2. DOMAIN pending = {}
  BY <1>1
<1>3. QED BY <1>1, <1>2 DEF AcceptSound

(* Each connection is handed out at most once. *)
LEMMA AcceptedAtMostOnce == ASSUME TcpTyped, AcceptSound PROVE AcceptedOnce
<1> SUFFICES ASSUME NEW k \in TcpPorts
             PROVE  /\ socks["server"][k] <= 1
                    /\ Cardinality({i \in DOMAIN pending : pending[i] = k}) + socks["server"][k] <= 1
  BY DEF AcceptedOnce
<1>1. socks["server"][k] \in Nat /\ socks["server"][k] <= 1
  BY Hosts DEF TcpTyped, AcceptSound
<1> DEFINE P == {i \in DOMAIN pending : pending[i] = k}
<1>2. CASE P = {}
  BY <1>1, <1>2, FS_EmptySet
<1>3. CASE P # {}
  <2>1. PICK i \in DOMAIN pending : pending[i] = k
    BY <1>3
  <2>2. P = {i} /\ socks["server"][k] = 0
    BY <2>1 DEF AcceptSound
  <2>3. Cardinality(P) = 1
    BY <2>2, FS_Singleton
  <2>4. QED BY <2>2, <2>3
<1>4. QED BY <1>2, <1>3

(* ------------------------------------------------------------- the streams *)

\* The first e segments leave the way to h and out joins it.
Moves(h, e, out) ==
    /\ \A i \in DOMAIN link'[h] :
          \/ i + e \in DOMAIN link[h] /\ link'[h][i] = link[h][i + e]
          \/ i + e - Len(link[h]) \in DOMAIN out /\ link'[h][i] = out[i + e - Len(link[h])]
    /\ \A j \in DOMAIN link[h] : j > e => j - e \in DOMAIN link'[h] /\ link'[h][j - e] = link[h][j]
    /\ \A j \in DOMAIN out : /\ Len(link[h]) - e + j \in DOMAIN link'[h]
                             /\ link'[h][Len(link[h]) - e + j] = out[j]

LEMMA LinkSeq ==
    ASSUME TcpTyped, ~Disordered, NEW h \in TcpHosts
    PROVE  link[h] \in Seq(Segs) /\ Len(link[h]) \in Nat /\ DOMAIN link[h] = 1 .. Len(link[h])
<1>1. link[h] \in Seq(Segs)
  BY DEF TcpTyped
<1>2. QED BY <1>1, LenProperties

LEMMA MovesNone == ASSUME TcpTyped, ~Disordered, NEW h \in TcpHosts, link'[h] = link[h] PROVE Moves(h, 0, <<>>)
<1>1. DOMAIN <<>> = {}
  OBVIOUS
<1>2. \A i \in DOMAIN link[h] : i + 0 = i /\ i - 0 = i
  BY LinkSeq
<1>3. QED BY <1>1, <1>2 DEF Moves

LEMMA MovesTail ==
    ASSUME TcpTyped, ~Disordered, NEW h \in TcpHosts, link[h] # <<>>, link'[h] = Tail(link[h])
    PROVE  Moves(h, 1, <<>>) /\ 1 \in DOMAIN link[h]
<1>1. DOMAIN <<>> = {}
  OBVIOUS
<1>2. link[h] \in Seq(Segs) /\ Len(link[h]) \in Nat \ {0} /\ DOMAIN link[h] = 1 .. Len(link[h])
  BY LinkSeq, EmptySeq
<1>3. Len(link'[h]) = Len(link[h]) - 1 /\ DOMAIN link'[h] = 1 .. Len(link[h]) - 1
        /\ \A i \in 1 .. Len(link[h]) - 1 : link'[h][i] = link[h][i + 1]
  BY <1>2, HeadTailProperties
<1>4. \A i \in DOMAIN link'[h] : i + 1 \in DOMAIN link[h] /\ link'[h][i] = link[h][i + 1]
  BY <1>2, <1>3
<1>5. ASSUME NEW j \in DOMAIN link[h], j > 1 PROVE j - 1 \in DOMAIN link'[h] /\ link'[h][j - 1] = link[h][j]
  <2>1. j - 1 \in 1 .. Len(link[h]) - 1 /\ (j - 1) + 1 = j
    BY <1>2, <1>5
  <2>2. QED BY <1>3, <2>1
<1>6. 1 \in DOMAIN link[h]
  BY <1>2
<1>7. QED BY <1>1, <1>4, <1>5, <1>6 DEF Moves

LEMMA MovesJoin ==
    ASSUME TcpTyped, ~Disordered, NEW h \in TcpHosts, NEW out \in Seq(Segs), link'[h] = link[h] \o out
    PROVE  Moves(h, 0, out)
<1>1. link[h] \in Seq(Segs) /\ Len(link[h]) \in Nat /\ DOMAIN link[h] = 1 .. Len(link[h])
  BY LinkSeq
<1>2. Len(out) \in Nat /\ DOMAIN out = 1 .. Len(out)
  BY LenProperties
<1>3. DOMAIN link'[h] = 1 .. Len(link[h]) + Len(out)
        /\ \A i \in 1 .. Len(link[h]) + Len(out) :
              link'[h][i] = IF i <= Len(link[h]) THEN link[h][i] ELSE out[i - Len(link[h])]
  BY <1>1, <1>2, ConcatProperties
<1>4. ASSUME NEW i \in DOMAIN link'[h]
      PROVE  \/ i + 0 \in DOMAIN link[h] /\ link'[h][i] = link[h][i + 0]
             \/ i + 0 - Len(link[h]) \in DOMAIN out /\ link'[h][i] = out[i + 0 - Len(link[h])]
  BY <1>1, <1>2, <1>3
<1>5. ASSUME NEW j \in DOMAIN link[h] PROVE j - 0 \in DOMAIN link'[h] /\ link'[h][j - 0] = link[h][j]
  BY <1>1, <1>2, <1>3
<1>6. ASSUME NEW j \in DOMAIN out
      PROVE  Len(link[h]) - 0 + j \in DOMAIN link'[h] /\ link'[h][Len(link[h]) - 0 + j] = out[j]
  BY <1>1, <1>2, <1>3
<1>7. QED BY <1>4, <1>5, <1>6 DEF Moves

LEMMA ExchangeMoves ==
    ASSUME TcpTyped, ~Disordered, NEW h \in TcpHosts, NEW s \in Arriving(h), NEW out \in Seq(Segs), Exchange(h, out)
    PROVE  Moves(h, 1, <<>>) /\ Moves(TcpPeer(h), 0, out) /\ 1 \in DOMAIN link[h] /\ link[h][1] = s
<1>1. link[h] # <<>> /\ s = Head(link[h])
  BY DEF Arriving
<1>2. PICK g \in TcpHosts : g = TcpPeer(h) /\ g # h
  BY Hosts
<1>3. link' = [link EXCEPT ![h] = Tail(@), ![g] = @ \o out]
  BY <1>2 DEF Exchange
<1>4. link'[h] = Tail(link[h]) /\ link'[g] = link[g] \o out
  BY <1>2, <1>3 DEF TcpTyped
<1>5. Head(link[h]) = link[h][1]
  BY <1>1, LinkSeq, RangeTail
<1>6. QED BY <1>1, <1>2, <1>4, <1>5, MovesTail, MovesJoin

LEMMA SendingMoves ==
    ASSUME TcpTyped, ~Disordered, NEW g \in TcpHosts, NEW out \in Seq(Segs), link' = Sending(g, out)
    PROVE  Moves(g, 0, out) /\ Moves(TcpPeer(g), 0, <<>>)
<1>1. PICK h \in TcpHosts : h = TcpPeer(g) /\ g # h
  BY Hosts
<1>2. link' = [link EXCEPT ![g] = @ \o out]
  BY DEF Sending
<1>3. link'[h] = link[h] /\ link'[g] = link[g] \o out
  BY <1>1, <1>2 DEF TcpTyped
<1>4. QED BY <1>1, <1>3, MovesNone, MovesJoin

LEMMA LoseMoves ==
    ASSUME TcpTyped, NEW h \in TcpHosts, lose(h)
    PROVE  Moves(h, 1, <<>>) /\ Moves(TcpPeer(h), 0, <<>>) /\ ~Disordered /\ ~Orderly
<1>1. link[h] # <<>> /\ link' = [link EXCEPT ![h] = Tail(@)] /\ ~Disordered /\ ~Orderly
  BY DEF lose, Disordered, Orderly
<1>2. PICK g \in TcpHosts : g = TcpPeer(h) /\ g # h
  BY Hosts
<1>3. link'[h] = Tail(link[h]) /\ link'[g] = link[g]
  BY <1>1, <1>2 DEF TcpTyped
<1>4. QED BY <1>1, <1>2, <1>3, MovesTail, MovesNone

\* Byte v of connection k is at place p: taken at 0, else in the p-th segment.
At(h, k, p, v) ==
    \/ p = 0 /\ \E a \in DOMAIN Bytes(h, k) : v = Bytes(h, k)[a]
    \/ /\ p \in DOMAIN link[h] /\ link[h][p].port = k
       /\ \E a \in DOMAIN link[h][p].data : v = link[h][p].data[a]
\* Byte v of connection k is in the p-th segment of out.
FreshAt(k, out, p, v) ==
    /\ p \in DOMAIN out /\ out[p].port = k /\ \E a \in DOMAIN out[p].data : v = out[p].data[a]
\* The bytes of out are new, and in order.
Fresh(h, k, out) ==
    \A p, v : FreshAt(k, out, p, v) =>
        /\ v \in Nat /\ v > tcp_sent[TcpPeer(h)][k]
        /\ \A q, w : FreshAt(k, out, q, w) /\ p < q => v < w
\* The bytes taken grow by those of the first segment, or do not grow.
Grown(h, k, e) ==
    \/ \A a \in DOMAIN Bytes(h, k)' : a \in DOMAIN Bytes(h, k) /\ Bytes(h, k)'[a] = Bytes(h, k)[a]
    \/ /\ e = 1 /\ 1 \in DOMAIN link[h] /\ link[h][1].port = k
       /\ Bytes(h, k)' = Bytes(h, k) \o link[h][1].data

LEMMA DataType ==
    ASSUME TcpTyped, ~Disordered, NEW h \in TcpHosts, NEW p \in DOMAIN link[h]
    PROVE  /\ link[h][p] \in Segs /\ link[h][p] \in OnWay(h) /\ link[h][p].data \in Seq(Nat)
           /\ DOMAIN link[h][p].data = 1 .. Len(link[h][p].data) /\ Len(link[h][p].data) \in Nat
           /\ \A a \in DOMAIN link[h][p].data : link[h][p].data[a] \in Nat
<1>1. link[h][p] \in Segs
  BY LinkSeq, ElementOfSeq
<1>2. link[h][p] \in OnWay(h)
  BY DEF OnWay, Range
<1>3. link[h][p].data \in Seq(Nat)
  BY <1>1 DEF Segs
<1>4. QED BY <1>1, <1>2, <1>3, LenProperties, ElementOfSeq

LEMMA BytesType ==
    ASSUME TcpTyped, NEW h \in TcpHosts, NEW k \in TcpPorts
    PROVE  /\ Bytes(h, k) \in Seq(Nat) /\ Len(Bytes(h, k)) \in Nat
           /\ DOMAIN Bytes(h, k) = 1 .. Len(Bytes(h, k)) /\ \A a \in DOMAIN Bytes(h, k) : Bytes(h, k)[a] \in Nat
<1>1. Bytes(h, k) \in Seq(Nat)
  BY EntryType
<1>2. QED BY <1>1, LenProperties, ElementOfSeq

(* Bytes anywhere were sent. *)
LEMMA AtSent ==
    ASSUME TcpTyped, LinksSound, ~Disordered, NEW h \in TcpHosts, NEW k \in TcpPorts, NEW p, NEW v, At(h, k, p, v)
    PROVE  /\ v \in 1 .. tcp_sent[TcpPeer(h)][k] /\ v \in Nat /\ tcp_sent[TcpPeer(h)][k] \in Nat
           /\ p \in Nat
<1>1. tcp_sent[TcpPeer(h)][k] \in Nat
  BY Hosts, SentType DEF TcpTyped
<1>2. CASE p = 0 /\ \E a \in DOMAIN Bytes(h, k) : v = Bytes(h, k)[a]
  <2>1. v \in 1 .. tcp_sent[TcpPeer(h)][k]
    BY <1>2, BytesType DEF LinksSound, EntrySound
  <2>2. QED BY <1>1, <1>2, <2>1
<1>3. CASE /\ p \in DOMAIN link[h] /\ link[h][p].port = k
           /\ \E a \in DOMAIN link[h][p].data : v = link[h][p].data[a]
  <2>1. SegmentSound(h, link[h][p]) /\ DOMAIN link[h][p].data = 1 .. Len(link[h][p].data)
    BY <1>3, DataType DEF LinksSound
  <2>2. v \in 1 .. tcp_sent[TcpPeer(h)][k]
    BY <1>3, <2>1 DEF SegmentSound
  <2>3. QED BY <1>1, <1>3, <2>2, LinkSeq
<1>4. QED BY <1>2, <1>3 DEF At

\* The order, by places.
PlacesInOrder(h, k) ==
    /\ \A i \in 1 .. Len(Bytes(h, k)) - 1 : Bytes(h, k)[i] < Bytes(h, k)[i + 1]
    /\ \A p, q, v, w : At(h, k, p, v) /\ At(h, k, q, w) /\ p < q => v < w
OrderByPlace == ~Disordered => \A h \in TcpHosts, k \in TcpPorts : InOrder(h, k) <=> PlacesInOrder(h, k)

LEMMA InOrderAt == TcpTyped => OrderByPlace
<1> SUFFICES ASSUME TcpTyped, ~Disordered, NEW h \in TcpHosts, NEW k \in TcpPorts
             PROVE  InOrder(h, k) <=> PlacesInOrder(h, k)
  BY DEF OrderByPlace
<1>1. DOMAIN link[h] = 1 .. Len(link[h]) /\ Len(link[h]) \in Nat
  BY LinkSeq
<1>2. ASSUME InOrder(h, k), NEW p, NEW q, NEW v, NEW w, At(h, k, p, v), At(h, k, q, w), p < q
      PROVE  v < w
  <2>1. q # 0
    BY <1>1, <1>2 DEF At
  <2>2. PICK b \in DOMAIN link[h][q].data : q \in DOMAIN link[h] /\ link[h][q].port = k /\ w = link[h][q].data[b]
    BY <1>2, <2>1 DEF At
  <2>3. CASE p = 0
    BY <1>1, <1>2, <2>2, <2>3 DEF At, InOrder
  <2>4. CASE p # 0
    BY <1>2, <2>2, <2>4 DEF At, InOrder
  <2>5. QED BY <2>3, <2>4
<1>3. ASSUME \A i \in 1 .. Len(Bytes(h, k)) - 1 : Bytes(h, k)[i] < Bytes(h, k)[i + 1],
             \A p, q, v, w : At(h, k, p, v) /\ At(h, k, q, w) /\ p < q => v < w
      PROVE  InOrder(h, k)
  <2>1. ASSUME NEW i \in DOMAIN link[h], link[h][i].port = k, NEW a \in DOMAIN Bytes(h, k), NEW b \in DOMAIN link[h][i].data
        PROVE  Bytes(h, k)[a] < link[h][i].data[b]
    <3>1. At(h, k, 0, Bytes(h, k)[a]) /\ At(h, k, i, link[h][i].data[b]) /\ 0 < i
      BY <1>1, <2>1 DEF At
    <3>2. QED BY <1>3, <3>1
  <2>2. ASSUME NEW i \in DOMAIN link[h], NEW j \in DOMAIN link[h], link[h][i].port = k, link[h][j].port = k, i < j,
               NEW a \in DOMAIN link[h][i].data, NEW b \in DOMAIN link[h][j].data
        PROVE  link[h][i].data[a] < link[h][j].data[b]
    <3>1. At(h, k, i, link[h][i].data[a]) /\ At(h, k, j, link[h][j].data[b])
      BY <2>2 DEF At
    <3>2. QED BY <1>3, <2>2, <3>1
  <2>3. QED BY <1>3, <2>1, <2>2 DEF InOrder
<1>4. InOrder(h, k) => \A i \in 1 .. Len(Bytes(h, k)) - 1 : Bytes(h, k)[i] < Bytes(h, k)[i + 1]
  BY DEF InOrder
<1>5. QED BY <1>2, <1>3, <1>4 DEF PlacesInOrder

LEMMA InOrderAtNext == TcpTyped' => OrderByPlace'
  BY InOrderAt, PTL

(* Where the bytes after a step were before it. *)
LEMMA AtFrom ==
    ASSUME TcpTyped, TcpTyped', ~Disordered, tcp_use' = tcp_use, NEW h \in TcpHosts, NEW k \in TcpPorts,
           NEW e \in {0, 1}, NEW out \in Seq(Segs), Moves(h, e, out), Grown(h, k, e),
           NEW p, NEW v, At(h, k, p, v)'
    PROVE  /\ p \in Nat
           /\ \/ \E q \in Nat : q <= p + e /\ (p > 0 => q = p + e) /\ q <= Len(link[h]) /\ At(h, k, q, v)
              \/ p > 0 /\ p + e > Len(link[h]) /\ FreshAt(k, out, p + e - Len(link[h]), v)
<1>1. DOMAIN link[h] = 1 .. Len(link[h]) /\ Len(link[h]) \in Nat
  BY LinkSeq
<1>2. CASE p = 0 /\ \E a \in DOMAIN Bytes(h, k)' : v = Bytes(h, k)'[a]
  <2>1. PICK a \in DOMAIN Bytes(h, k)' : v = Bytes(h, k)'[a]
    BY <1>2
  <2>2. CASE a \in DOMAIN Bytes(h, k) /\ Bytes(h, k)'[a] = Bytes(h, k)[a]
    <3>1. At(h, k, 0, v) /\ 0 <= p + e /\ ~(p > 0) /\ 0 <= Len(link[h]) /\ 0 \in Nat
      BY <1>1, <1>2, <2>1, <2>2 DEF At
    <3>2. QED BY <1>2, <3>1
  <2>3. CASE /\ e = 1 /\ 1 \in DOMAIN link[h] /\ link[h][1].port = k
             /\ Bytes(h, k)' = Bytes(h, k) \o link[h][1].data
    <3>1. Bytes(h, k) \in Seq(Nat) /\ DOMAIN Bytes(h, k) = 1 .. Len(Bytes(h, k)) /\ Len(Bytes(h, k)) \in Nat
      BY BytesType
    <3>2. PICK d \in Seq(Nat) : d = link[h][1].data /\ DOMAIN d = 1 .. Len(d) /\ Len(d) \in Nat
      BY <2>3, DataType
    <3>3. Bytes(h, k)' = Bytes(h, k) \o d
      BY <2>3, <3>2
    <3>4. DOMAIN Bytes(h, k)' = 1 .. Len(Bytes(h, k)) + Len(d)
            /\ \A i \in 1 .. Len(Bytes(h, k)) + Len(d) :
                  Bytes(h, k)'[i] = IF i <= Len(Bytes(h, k)) THEN Bytes(h, k)[i] ELSE d[i - Len(Bytes(h, k))]
      BY <3>1, <3>2, <3>3, ConcatProperties
    <3>5. CASE a <= Len(Bytes(h, k))
      <4>1. a \in DOMAIN Bytes(h, k) /\ Bytes(h, k)'[a] = Bytes(h, k)[a]
        BY <2>1, <3>1, <3>2, <3>4, <3>5
      <4>2. QED BY <2>2, <4>1
    <3>6. CASE ~(a <= Len(Bytes(h, k)))
      <4>1. a - Len(Bytes(h, k)) \in DOMAIN d /\ v = d[a - Len(Bytes(h, k))]
        <5>1. a \in 1 .. Len(Bytes(h, k)) + Len(d) /\ a - Len(Bytes(h, k)) \in 1 .. Len(d)
          BY <2>1, <3>1, <3>2, <3>4, <3>6
        <5>2. QED BY <2>1, <3>2, <3>4, <3>6, <5>1
      <4>2. At(h, k, 1, v)
        BY <2>3, <3>2, <4>1 DEF At
      <4>3. 1 \in Nat /\ 1 <= p + e /\ ~(p > 0) /\ 1 <= Len(link[h])
        BY <1>1, <1>2, <2>3
      <4>4. QED BY <1>2, <4>2, <4>3
    <3>7. QED BY <3>5, <3>6
  <2>4. QED BY <2>1, <2>2, <2>3 DEF Grown
<1>3. CASE /\ p \in DOMAIN link'[h] /\ link'[h][p].port = k
           /\ \E a \in DOMAIN link'[h][p].data : v = link'[h][p].data[a]
  <2>1. p \in Nat /\ p > 0
    <3>1. link'[h] \in Seq(Segs)
      BY DEF TcpTyped, Disordered
    <3>2. DOMAIN link'[h] = 1 .. Len(link'[h]) /\ Len(link'[h]) \in Nat
      BY <3>1, LenProperties
    <3>3. QED BY <1>3, <3>2
  <2>2. CASE p + e \in DOMAIN link[h] /\ link'[h][p] = link[h][p + e]
    <3>1. At(h, k, p + e, v)
      BY <1>3, <2>2 DEF At
    <3>2. p + e \in Nat /\ p + e <= p + e /\ p + e <= Len(link[h])
      BY <1>1, <2>1, <2>2
    <3>3. QED BY <2>1, <3>1, <3>2
  <2>3. CASE p + e - Len(link[h]) \in DOMAIN out /\ link'[h][p] = out[p + e - Len(link[h])]
    <3>1. FreshAt(k, out, p + e - Len(link[h]), v)
      BY <1>3, <2>3 DEF FreshAt
    <3>2. DOMAIN out = 1 .. Len(out) /\ Len(out) \in Nat
      BY LenProperties
    <3>3. p + e > Len(link[h])
      BY <1>1, <2>1, <2>3, <3>2
    <3>4. QED BY <2>1, <3>1, <3>3
  <2>4. QED BY <1>3, <2>2, <2>3 DEF Moves
<1>4. QED BY <1>2, <1>3 DEF At

(* The order of places is kept. *)
LEMMA OrderStep ==
    ASSUME TcpTyped, TcpTyped', LinksSound, ~Disordered, tcp_use' = tcp_use, NEW h \in TcpHosts, NEW k \in TcpPorts,
           NEW e \in {0, 1}, NEW out \in Seq(Segs), Moves(h, e, out), Grown(h, k, e), Fresh(h, k, out), InOrder(h, k)
    PROVE  InOrder(h, k)'
<1>1. PlacesInOrder(h, k)
  BY InOrderAt DEF OrderByPlace
<1>2. Len(link[h]) \in Nat
  BY LinkSeq
<1>3. ASSUME NEW p, NEW q, NEW v, NEW w, At(h, k, p, v)', At(h, k, q, w)', p < q PROVE v < w
  <2> DEFINE L == Len(link[h])
             Old(x, y) == \E z \in Nat : z <= x + e /\ (x > 0 => z = x + e) /\ z <= L /\ At(h, k, z, y)
             New(x, y) == x > 0 /\ x + e > L /\ FreshAt(k, out, x + e - L, y)
  <2>1. p \in Nat /\ (Old(p, v) \/ New(p, v))
    BY <1>3, AtFrom
  <2>2. q \in Nat /\ (Old(q, w) \/ New(q, w)) /\ q > 0
    BY <1>3, <2>1, AtFrom
  <2>3. CASE Old(p, v) /\ Old(q, w)
    <3>1. PICK x \in Nat, y \in Nat : At(h, k, x, v) /\ At(h, k, y, w) /\ x <= p + e /\ y = q + e
      BY <2>2, <2>3
    <3>2. x < y
      BY <1>3, <2>1, <2>2, <3>1
    <3>3. QED BY <1>1, <3>1, <3>2 DEF PlacesInOrder
  <2>4. CASE Old(p, v) /\ New(q, w)
    <3>1. v \in 1 .. tcp_sent[TcpPeer(h)][k] /\ v \in Nat /\ tcp_sent[TcpPeer(h)][k] \in Nat
      BY <2>4, AtSent
    <3>2. w \in Nat /\ w > tcp_sent[TcpPeer(h)][k]
      BY <2>4 DEF Fresh
    <3>3. QED BY <3>1, <3>2
  <2>5. CASE New(p, v) /\ Old(q, w)
    BY <1>2, <1>3, <2>1, <2>2, <2>5
  <2>6. CASE New(p, v) /\ New(q, w)
    <3>1. p + e - L < q + e - L
      <4>1. p \in Nat /\ q \in Nat /\ p < q /\ e \in {0, 1}
        BY <1>3, <2>1, <2>2
      <4>2. L \in Nat
        BY <1>2
      <4> HIDE DEF L
      <4>3. QED BY ONLY <4>1, <4>2
    <3>2. QED BY <2>6, <3>1 DEF Fresh
  <2>7. QED BY <2>1, <2>2, <2>3, <2>4, <2>5, <2>6
<1>4. ASSUME NEW i \in 1 .. Len(Bytes(h, k)') - 1 PROVE Bytes(h, k)'[i] < Bytes(h, k)'[i + 1]
  <2>1. Bytes(h, k) \in Seq(Nat) /\ DOMAIN Bytes(h, k) = 1 .. Len(Bytes(h, k)) /\ Len(Bytes(h, k)) \in Nat
    BY BytesType
  <2>2. CASE \A a \in DOMAIN Bytes(h, k)' : a \in DOMAIN Bytes(h, k) /\ Bytes(h, k)'[a] = Bytes(h, k)[a]
    <3>1. Bytes(h, k)' \in Seq(Nat)
      <4>1. got'[h][k] \in Seq(Nat) /\ conn'[h][k].recv_buffer \in Seq(Nat)
        BY DEF TcpTyped, TcpConnection
      <4>2. QED BY <4>1, ConcatProperties DEF Bytes
    <3>2. DOMAIN Bytes(h, k)' = 1 .. Len(Bytes(h, k)') /\ Len(Bytes(h, k)') \in Nat
      BY <3>1, LenProperties
    <3>3. i \in DOMAIN Bytes(h, k)' /\ i + 1 \in DOMAIN Bytes(h, k)'
      BY <3>2
    <3>4. i \in 1 .. Len(Bytes(h, k)) - 1
      BY <2>1, <2>2, <3>3
    <3>5. QED BY <1>1, <2>2, <3>3, <3>4 DEF PlacesInOrder
  <2>3. CASE /\ e = 1 /\ 1 \in DOMAIN link[h] /\ link[h][1].port = k
             /\ Bytes(h, k)' = Bytes(h, k) \o link[h][1].data
    <3>1. PICK B \in Seq(Nat), d \in Seq(Nat), l \in Nat, m \in Nat :
            /\ B = Bytes(h, k) /\ d = link[h][1].data /\ DOMAIN d = 1 .. Len(d) /\ m = Len(d) /\ l = Len(B)
            /\ DOMAIN B = 1 .. l
      BY <2>1, <2>3, DataType
    <3>2. Bytes(h, k)' = B \o d
      BY <2>3, <3>1
    <3>3. Len(Bytes(h, k)') = l + m
            /\ \A j \in 1 .. l + m : Bytes(h, k)'[j] = IF j <= l THEN B[j] ELSE d[j - l]
      BY <3>1, <3>2, ConcatProperties
    <3>4. /\ i \in Nat /\ l \in Nat /\ m \in Nat /\ i >= 1 /\ i + 1 <= l + m
          /\ i \in 1 .. l + m /\ i + 1 \in 1 .. l + m
      BY <3>3
    <3>v. /\ i <= l => Bytes(h, k)'[i] = B[i]
          /\ i > l => Bytes(h, k)'[i] = d[i - l]
          /\ i + 1 <= l => Bytes(h, k)'[i + 1] = B[i + 1]
          /\ i + 1 > l => Bytes(h, k)'[i + 1] = d[i + 1 - l]
      BY <3>3, <3>4
    <3>5. CASE i + 1 <= l
      <4>1. i \in 1 .. l - 1 /\ i <= l
        BY <3>5
      <4>2. Bytes(h, k)'[i] = B[i] /\ Bytes(h, k)'[i + 1] = B[i + 1]
        BY <3>3, <3>4, <3>5, <4>1
      <4>3. B[i] < B[i + 1]
        BY <1>1, <3>1, <4>1 DEF PlacesInOrder
      <4>4. QED BY <4>2, <4>3
    <3>6. CASE i = l
      <4>1. Bytes(h, k)'[i] = B[l] /\ Bytes(h, k)'[i + 1] = d[1] /\ l \in DOMAIN B /\ 1 \in DOMAIN d
        <5>1. i <= l /\ i + 1 > l /\ i + 1 - l = 1 /\ l \in 1 .. l /\ 1 \in 1 .. m
          BY <3>4, <3>6
        <5>2. QED BY <3>1, <3>6, <3>v, <5>1
      <4>2. At(h, k, 0, B[l]) /\ At(h, k, 1, d[1]) /\ 0 < 1
        <5>1. \E a \in DOMAIN Bytes(h, k) : B[l] = Bytes(h, k)[a]
          BY <3>1, <4>1
        <5>2. \E a \in DOMAIN link[h][1].data : d[1] = link[h][1].data[a]
          BY <3>1, <4>1
        <5>3. QED BY <2>3, <5>1, <5>2 DEF At
      <4>3. QED BY <1>1, <4>1, <4>2 DEF PlacesInOrder
    <3>7. CASE i > l
      <4>1. Bytes(h, k)'[i] = d[i - l] /\ Bytes(h, k)'[i + 1] = d[i + 1 - l] /\ i - l \in 1 .. m /\ i + 1 - l \in 1 .. m
        <5>1. i > l /\ i + 1 > l /\ i - l \in 1 .. m /\ i + 1 - l \in 1 .. m
          BY <3>4, <3>7
        <5>2. QED BY <3>v, <5>1
      <4>2. SegmentSound(h, link[h][1])
        BY <2>3, DataType DEF LinksSound
      <4>3. \A j \in 1 .. m : d[j] = d[1] + (j - 1)
        BY <3>1, <4>2 DEF SegmentSound
      <4>4. d[1] \in Nat
        <5>1. 1 \in DOMAIN d
          BY <3>1, <4>1
        <5>2. QED BY <5>1, ElementOfSeq
      <4>5. d[i - l] = d[1] + (i - l - 1) /\ d[i + 1 - l] = d[1] + (i + 1 - l - 1)
        BY <4>1, <4>3
      <4>6. d[1] + (i - l - 1) < d[1] + (i + 1 - l - 1)
        BY ONLY <3>4, <4>4
      <4>7. QED BY <4>1, <4>5, <4>6
    <3>8. QED BY <3>1, <3>4, <3>5, <3>6, <3>7
  <2>4. QED BY <2>2, <2>3 DEF Grown
<1>5. PlacesInOrder(h, k)'
  BY <1>3, <1>4 DEF PlacesInOrder
<1>6. QED BY <1>5, InOrderAtNext DEF OrderByPlace, Disordered

\* One turn of connection k at h: e segments leave the way to h, out joins the
\* way to its peer.
Turn(h, k, e, out) ==
    /\ e \in {0, 1} /\ out \in Seq(Segs) /\ Local(h, k) /\ tcp_use' = tcp_use
    /\ Moves(h, e, <<>>) /\ Moves(TcpPeer(h), 0, out)
    /\ e = 1 => 1 \in DOMAIN link[h] /\ link[h][1].port = k
    /\ \A i \in DOMAIN out : out[i].port = k
    /\ Grown(h, k, e) /\ Fresh(TcpPeer(h), k, out)

LEMMA FreshBare ==
    ASSUME NEW h, NEW k, NEW out, \A i \in DOMAIN out : out[i].data = <<>>
    PROVE  Fresh(h, k, out)
<1>1. DOMAIN <<>> = {}
  OBVIOUS
<1>2. ASSUME NEW p, NEW v PROVE ~FreshAt(k, out, p, v)
  BY <1>1 DEF FreshAt
<1>3. QED BY <1>2 DEF Fresh

LEMMA FreshOther ==
    ASSUME NEW h, NEW k, NEW j, j # k, NEW out, \A i \in DOMAIN out : out[i].port = k
    PROVE  Fresh(h, j, out)
  BY DEF Fresh, FreshAt

LEMMA GrownSame == ASSUME NEW h, NEW k, NEW e, Bytes(h, k)' = Bytes(h, k) PROVE Grown(h, k, e)
  BY DEF Grown

LEMMA OtherBytes ==
    ASSUME NEW h \in TcpHosts, NEW k \in TcpPorts, Local(h, k), NEW g \in TcpHosts, NEW j \in TcpPorts, g # h \/ j # k
    PROVE  Bytes(g, j)' = Bytes(g, j)
  BY DEF Local, Bytes

(* A turn keeps the streams in order. *)
LEMMA StreamsTurn ==
    ASSUME TcpTyped, TcpTyped', LinksSound, StreamsInOrder, ~Disordered,
           NEW h \in TcpHosts, NEW k \in TcpPorts, NEW e, NEW out, Turn(h, k, e, out)
    PROVE  StreamsInOrder'
<1>1. /\ e \in {0, 1} /\ out \in Seq(Segs) /\ Local(h, k) /\ tcp_use' = tcp_use
      /\ Moves(h, e, <<>>) /\ Moves(TcpPeer(h), 0, out)
      /\ \A i \in DOMAIN out : out[i].port = k
      /\ Grown(h, k, e) /\ Fresh(TcpPeer(h), k, out)
  BY DEF Turn
<1>2. PICK none \in Seq(Segs), z \in {0, 1} : none = <<>> /\ z = 0 /\ DOMAIN none = {}
  <2>1. DOMAIN <<>> = {} /\ 0 \in {0, 1}
    OBVIOUS
  <2>2. QED BY <2>1, NoSegment
<1>3. ASSUME NEW j \in TcpPorts PROVE InOrder(h, j)'
  <2>1. Fresh(h, j, none)
    BY <1>2, FreshBare
  <2>2. Grown(h, j, e)
    BY <1>1, OtherBytes, GrownSame
  <2>3. InOrder(h, j)
    BY DEF StreamsInOrder
  <2>4. Moves(h, e, none)
    BY <1>1, <1>2
  <2>5. QED BY <1>1, <2>1, <2>2, <2>3, <2>4, OrderStep
<1>4. ASSUME NEW j \in TcpPorts PROVE InOrder(TcpPeer(h), j)'
  <2>1. Fresh(TcpPeer(h), j, out)
    BY <1>1, FreshOther
  <2>2. Grown(TcpPeer(h), j, z)
    BY <1>1, Hosts, OtherBytes, GrownSame
  <2>3. InOrder(TcpPeer(h), j) /\ TcpPeer(h) \in TcpHosts
    BY Hosts DEF StreamsInOrder
  <2>4. Moves(TcpPeer(h), z, out)
    BY <1>1, <1>2
  <2>5. QED BY <1>1, <2>1, <2>2, <2>3, <2>4, OrderStep
<1>5. QED BY <1>3, <1>4, Hosts DEF StreamsInOrder

LEMMA OneBare ==
    ASSUME NEW x, NEW k, x.port = k, x.data = <<>>, NEW out, out = <<x>> \/ out = <<>>
    PROVE  \A i \in DOMAIN out : out[i].port = k /\ out[i].data = <<>>
<1>1. DOMAIN <<>> = {} /\ DOMAIN <<x>> = {1} /\ <<x>>[1] = x
  OBVIOUS
<1>2. QED BY <1>1

LEMMA Prefixed ==
    ASSUME NEW a \in Seq(Nat), NEW b \in Seq(Nat)
    PROVE  \A i \in DOMAIN a : i \in DOMAIN (a \o b) /\ (a \o b)[i] = a[i]
<1>1. DOMAIN a = 1 .. Len(a) /\ Len(a) \in Nat /\ Len(b) \in Nat
  BY LenProperties
<1>2. DOMAIN (a \o b) = 1 .. Len(a) + Len(b)
        /\ \A i \in 1 .. Len(a) + Len(b) : (a \o b)[i] = IF i <= Len(a) THEN a[i] ELSE b[i - Len(a)]
  BY <1>1, ConcatProperties
<1>3. QED BY <1>1, <1>2

LEMMA KnownTurn ==
    ASSUME TcpTyped, ~Disordered, NEW h \in TcpHosts, handle_known(h)
    PROVE  \E s \in Segs, k \in TcpPorts, out \in Seq(Segs) :
              Turn(h, k, 1, out) /\ Handles(h, k, s, out) /\ s = link[h][1] /\ BytesAfter(h, k, s)
<1>1. PICK s \in Arriving(h) \cap Segs, k \in TcpPorts, out \in Seq(Segs) :
        /\ Handles(h, k, s, out) /\ Exchange(h, out)
        /\ \A g \in TcpHosts, j \in TcpPorts : g # h \/ j # k => conn'[g][j] = conn[g][j]
  BY KnownEffect
<1>2. Local(h, k)
  BY <1>1, HandledLocal
<1>3. Moves(h, 1, <<>>) /\ Moves(TcpPeer(h), 0, out) /\ 1 \in DOMAIN link[h] /\ link[h][1] = s
  BY <1>1, ExchangeMoves
<1>4. s.port = k /\ HandledAs(k, conn[h][k], s, conn'[h][k], out) /\ got' = got /\ tcp_use' = tcp_use
  BY <1>1 DEF Handles
<1>5. BytesAfter(h, k, s)
  BY <1>4, HandledBytes
<1>6. Grown(h, k, 1)
  <2>1. CASE Bytes(h, k)' = got[h][k]
    <3>1. got[h][k] \in Seq(Nat) /\ conn[h][k].recv_buffer \in Seq(Nat)
      BY EntryType
    <3>2. \A a \in DOMAIN got[h][k] : a \in DOMAIN Bytes(h, k) /\ Bytes(h, k)[a] = got[h][k][a]
      BY <3>1, Prefixed DEF Bytes
    <3>3. QED BY <2>1, <3>2 DEF Grown
  <2>2. CASE Bytes(h, k)' = Bytes(h, k)
    BY <2>2, GrownSame
  <2>3. CASE Bytes(h, k)' = Bytes(h, k) \o s.data
    BY <1>3, <1>4, <2>3 DEF Grown
  <2>4. QED BY <1>5, <2>1, <2>2, <2>3 DEF BytesAfter
<1>7. \A i \in DOMAIN out : out[i].port = k /\ out[i].data = <<>>
  <2>1. PICK x : x = Ack(k, conn'[h][k])
    OBVIOUS
  <2>2. x.port = k /\ x.data = <<>>
    BY <2>1, SegmentFields DEF Ack
  <2>3. out = <<x>> \/ out = <<>>
    BY <1>4, <2>1 DEF HandledAs
  <2>4. QED BY <2>2, <2>3, OneBare
<1>8. Fresh(TcpPeer(h), k, out)
  BY <1>7, FreshBare
<1>9. Turn(h, k, 1, out)
  BY <1>2, <1>3, <1>4, <1>6, <1>7, <1>8 DEF Turn
<1>10. QED BY <1>1, <1>3, <1>5, <1>9

LEMMA SynTurn ==
    ASSUME TcpTyped, LinksSound, ~Disordered, NEW h \in TcpHosts, handle_syn(h)
    PROVE  \E k \in TcpPorts, x \in Segs, out \in Seq(Segs) : Turn(h, k, 1, out) /\ Offers(h, k, x) /\ out = <<x>>
<1>1. PICK s \in Arriving(h), k \in TcpPorts, x \in Segs :
        s.port = k /\ Exchange(h, <<x>>) /\ Local(h, k) /\ Offers(h, k, x)
  BY SynEffect
<1>2. PICK out \in Seq(Segs) : out = <<x>>
  BY OneSegment
<1>3. Moves(h, 1, <<>>) /\ Moves(TcpPeer(h), 0, out) /\ 1 \in DOMAIN link[h] /\ link[h][1] = s
  BY <1>1, <1>2, ExchangeMoves
<1>4. tcp_use' = tcp_use /\ x.port = k /\ x.data = <<>> /\ Bytes(h, k)' = <<>>
  BY <1>1 DEF Offers
<1>5. Grown(h, k, 1)
  <2>1. DOMAIN <<>> = {}
    OBVIOUS
  <2>2. QED BY <1>4, <2>1 DEF Grown
<1>6. \A i \in DOMAIN out : out[i].port = k /\ out[i].data = <<>>
  BY <1>2, <1>4, OneBare
<1>7. Fresh(TcpPeer(h), k, out)
  BY <1>6, FreshBare
<1>8. Turn(h, k, 1, out)
  BY <1>1, <1>3, <1>4, <1>5, <1>6, <1>7 DEF Turn
<1>9. QED BY <1>1, <1>2, <1>8

\* A step that changes no entry.
Still == UNCHANGED <<conn, tcp_sent, got>>

LEMMA StillLocal ==
    ASSUME TcpTyped, Still, NEW h \in TcpHosts, NEW k \in TcpPorts
    PROVE  Local(h, k) /\ Bytes(h, k)' = Bytes(h, k)
<1>1. conn' = conn /\ tcp_sent' = tcp_sent /\ got' = got /\ tcp_sent[h][k] \in Nat
  BY SentType DEF Still, TcpTyped
<1>2. QED BY <1>1 DEF Local, Bytes

LEMMA UnknownTurn ==
    ASSUME TcpTyped, LinksSound, ~Disordered, NEW h \in TcpHosts, handle_unknown(h)
    PROVE  \E k \in TcpPorts, out \in Seq(Segs) : Turn(h, k, 1, out) /\ Still /\ conn[h][k].state = "Absent"
<1>1. PICK s \in Arriving(h) :
        /\ ~Known(h, s) /\ Exchange(h, send_reset(s.port, s)) /\ UNCHANGED <<conn, tcp_sent, got, tcp_use>>
  BY DEF handle_unknown
<1>2. s \in Segs /\ s.port \in TcpPorts
  BY ArrivingType DEF Segs
<1>3. PICK k, out : k \in TcpPorts /\ k = s.port /\ out = send_reset(k, s)
  BY <1>2
<1> k \in TcpPorts BY <1>3
<1>4. out \in Seq(Segs) /\ \A x \in Range(out) : x.port = k /\ x.data = <<>>
  BY <1>2, <1>3, ResetSegments
<1>5. Moves(h, 1, <<>>) /\ Moves(TcpPeer(h), 0, out) /\ 1 \in DOMAIN link[h] /\ link[h][1] = s
  BY <1>1, <1>3, <1>4, ExchangeMoves
<1>6. \A i \in DOMAIN out : out[i].port = k /\ out[i].data = <<>>
  BY <1>4 DEF Range
<1>7. Fresh(TcpPeer(h), k, out)
  BY <1>6, FreshBare
<1>8. Still
  BY <1>1 DEF Still
<1>9. Local(h, k) /\ Grown(h, k, 1)
  BY <1>8, StillLocal, GrownSame
<1>10. Turn(h, k, 1, out)
  BY <1>1, <1>3, <1>4, <1>5, <1>6, <1>7, <1>9 DEF Turn
<1>11. QED BY <1>1, <1>3, <1>4, <1>8, <1>10 DEF Known, Free

LEMMA LoseTurn ==
    ASSUME TcpTyped, NEW h \in TcpHosts, lose(h)
    PROVE  ~Disordered /\ ~Orderly /\ \E k \in TcpPorts, out \in Seq(Segs) : Turn(h, k, 1, out)
<1>1. Moves(h, 1, <<>>) /\ Moves(TcpPeer(h), 0, <<>>) /\ ~Disordered /\ ~Orderly
  BY LoseMoves
<1>2. link[h] # <<>> /\ UNCHANGED <<conn, tcp_sent, got, tcp_use>>
  BY DEF lose
<1>3. 1 \in DOMAIN link[h] /\ link[h][1] \in Segs
  <2>1. 1 \in DOMAIN link[h]
    BY <1>1, <1>2, LinkSeq, RangeTail
  <2>2. QED BY <1>1, <2>1, DataType
<1>4. PICK k \in TcpPorts, out \in Seq(Segs) : k = link[h][1].port /\ out = <<>>
  BY <1>3, NoSegment DEF Segs
<1>5. DOMAIN out = {}
  BY <1>4
<1>6. Still
  BY <1>2 DEF Still
<1>7. Local(h, k) /\ Grown(h, k, 1)
  BY <1>6, StillLocal, GrownSame
<1>8. Fresh(TcpPeer(h), k, out)
  BY <1>5, FreshBare
<1>9. Turn(h, k, 1, out)
  BY <1>1, <1>2, <1>3, <1>4, <1>5, <1>7, <1>8 DEF Turn
<1>10. QED BY <1>1, <1>9

LEMMA ConnectTurn ==
    ASSUME TcpTyped, LinksSound, ~Disordered, NEW k \in TcpPorts, sys_connect(k)
    PROVE  \E h \in TcpHosts, x \in Segs, out \in Seq(Segs) : Turn(h, k, 0, out) /\ Calls(h, k, x) /\ out = <<x>>
<1>1. PICK h \in TcpHosts, x \in Segs : Calls(h, k, x) /\ Local(h, k)
  BY ConnectEffect
<1>2. PICK out \in Seq(Segs), g \in TcpHosts : out = <<x>> /\ g = "server"
  BY OneSegment, Hosts
<1>3. /\ link' = Sending(g, out) /\ TcpPeer(g) = h /\ TcpPeer(h) = g
      /\ tcp_use' = tcp_use /\ x.port = k /\ x.data = <<>> /\ Bytes(h, k)' = <<>>
  BY <1>1, <1>2, Hosts DEF Calls
<1>4. Moves(h, 0, <<>>) /\ Moves(TcpPeer(h), 0, out)
  BY <1>3, SendingMoves
<1>5. Grown(h, k, 0)
  <2>1. DOMAIN <<>> = {}
    OBVIOUS
  <2>2. QED BY <1>3, <2>1 DEF Grown
<1>6. \A i \in DOMAIN out : out[i].port = k /\ out[i].data = <<>>
  BY <1>2, <1>3, OneBare
<1>7. Fresh(TcpPeer(h), k, out)
  BY <1>6, FreshBare
<1>8. Turn(h, k, 0, out)
  BY <1>1, <1>3, <1>4, <1>5, <1>6, <1>7 DEF Turn
<1>9. QED BY <1>1, <1>2, <1>8

(* The bytes of a send come after every byte sent before. *)
LEMMA SendFresh ==
    ASSUME TcpTyped, NEW h \in TcpHosts, NEW k \in TcpPorts, NEW n \in Nat, NEW m \in 1 .. n, NEW out,
           Wrote(h, k, n, m, out)
    PROVE  /\ DOMAIN out = 1 .. m /\ \A i \in 1 .. m : ChunkOf(out[i], k, conn[h][k], tcp_sent[h][k], n, i)
           /\ Fresh(TcpPeer(h), k, out)
<1> DEFINE u == tcp_sent[h][k]
<1>1. out = Chunks(k, conn[h][k], u, n, m) /\ (m - 1) * MAX_SEGMENT_SIZE < n
  BY DEF Wrote
<1>2. u \in Nat /\ conn[h][k] \in TcpConnection /\ TcpPeer(TcpPeer(h)) = h
  BY EntryType, SentType, Hosts DEF TcpTyped
<1> HIDE DEF u
<1>3. DOMAIN out = 1 .. m /\ \A i \in 1 .. m : ChunkOf(out[i], k, conn[h][k], u, n, i)
  BY <1>1, <1>2, ChunkShape
<1>4. /\ \A i \in 1 .. m : First(i) \in Nat /\ Size(i, n) \in Nat \ {0}
      /\ \A i, j \in 1 .. m : i < j => First(i) + Size(i, n) <= First(j)
  BY <1>1, ChunkSizes
<1>5. ASSUME NEW p, NEW v, FreshAt(k, out, p, v)
      PROVE  p \in 1 .. m /\ \E a \in 1 .. Size(p, n) : v = u + First(p) + a
  <2>1. p \in 1 .. m /\ \E a \in DOMAIN out[p].data : v = out[p].data[a]
    BY <1>3, <1>5 DEF FreshAt
  <2>2. ChunkOf(out[p], k, conn[h][k], u, n, p)
    BY <1>3, <2>1
  <2>3. QED BY <2>1, <2>2 DEF ChunkOf
<1>6. ASSUME NEW p, NEW v, FreshAt(k, out, p, v)
      PROVE  v \in Nat /\ v > u /\ \A q, w : FreshAt(k, out, q, w) /\ p < q => v < w
  <2>1. PICK a \in 1 .. Size(p, n) : p \in 1 .. m /\ v = u + First(p) + a
    BY <1>5, <1>6
  <2>2. PICK f \in Nat, z \in Nat : f = First(p) /\ z = Size(p, n)
    BY <1>4, <2>1
  <2>3. v = u + f + a /\ a \in 1 .. z
    BY <2>1, <2>2
  <2>4. v \in Nat /\ v > u
    BY ONLY <1>2, <2>3, f \in Nat, z \in Nat
  <2>5. ASSUME NEW q, NEW w, FreshAt(k, out, q, w), p < q PROVE v < w
    <3>1. PICK b \in 1 .. Size(q, n) : q \in 1 .. m /\ w = u + First(q) + b
      BY <1>5, <2>5
    <3>2. PICK f2 \in Nat, z2 \in Nat : f2 = First(q) /\ z2 = Size(q, n)
      BY <1>4, <3>1
    <3>3. f + z <= f2
      BY <1>4, <2>1, <2>2, <2>5, <3>1, <3>2
    <3>4. w = u + f2 + b /\ b \in 1 .. z2
      BY <3>1, <3>2
    <3>5. QED BY ONLY <1>2, <2>3, <3>3, <3>4, f \in Nat, z \in Nat, f2 \in Nat, z2 \in Nat
  <2>6. QED BY <2>4, <2>5
<1>7. Fresh(TcpPeer(h), k, out)
  BY <1>2, <1>6 DEF Fresh, u
<1>8. QED BY <1>3, <1>7 DEF u

LEMMA SendTurn ==
    ASSUME TcpTyped, ~Disordered, NEW h \in TcpHosts, NEW k \in TcpPorts, NEW n \in 1 .. MaxBuffer, sys_sendto(h, k, n)
    PROVE  \E m \in 1 .. n, out \in Seq(Segs) : Turn(h, k, 0, out) /\ Wrote(h, k, n, m, out)
<1>1. PICK m \in 1 .. n, out \in Seq(Segs) : Wrote(h, k, n, m, out) /\ Local(h, k)
  BY SendEffect
<1>2. link' = Sending(TcpPeer(h), out) /\ got' = got /\ tcp_use' = tcp_use
        /\ conn'[h][k].recv_buffer = conn[h][k].recv_buffer
  BY <1>1 DEF Wrote
<1>3. n \in Nat /\ TcpPeer(h) \in TcpHosts /\ TcpPeer(TcpPeer(h)) = h
  BY TcpConstants, Hosts
<1>4. Moves(h, 0, <<>>) /\ Moves(TcpPeer(h), 0, out)
  BY <1>2, <1>3, SendingMoves
<1>5. Grown(h, k, 0)
  <2>1. Bytes(h, k)' = Bytes(h, k)
    BY <1>2 DEF Bytes
  <2>2. QED BY <2>1, GrownSame
<1>6. Fresh(TcpPeer(h), k, out) /\ \A i \in DOMAIN out : out[i].port = k
  <2>1. DOMAIN out = 1 .. m /\ \A i \in 1 .. m : ChunkOf(out[i], k, conn[h][k], tcp_sent[h][k], n, i)
    BY <1>1, <1>3, SendFresh
  <2>2. QED BY <1>1, <1>3, <2>1, SendFresh DEF ChunkOf
<1>7. Turn(h, k, 0, out)
  BY <1>1, <1>2, <1>4, <1>5, <1>6 DEF Turn
<1>8. QED BY <1>1, <1>7

LEMMA ReceiveTurn ==
    ASSUME TcpTyped, ~Disordered, NEW h \in TcpHosts, NEW k \in TcpPorts, NEW n \in 1 .. MaxBuffer, sys_recvfrom(h, k, n)
    PROVE  \E out \in Seq(Segs) : Turn(h, k, 0, out) /\ out = <<>>
<1>1. Local(h, k) /\ Bytes(h, k)' = Bytes(h, k) /\ link' = link /\ tcp_use' = tcp_use
  BY ReceiveEffect
<1>2. PICK out \in Seq(Segs) : out = <<>>
  BY NoSegment
<1>3. Moves(h, 0, <<>>) /\ Moves(TcpPeer(h), 0, out)
  BY <1>1, <1>2, MovesNone, Hosts
<1>4. DOMAIN out = {}
  BY <1>2
<1>5. Grown(h, k, 0) /\ Fresh(TcpPeer(h), k, out)
  BY <1>1, <1>4, GrownSame, FreshBare
<1>6. Turn(h, k, 0, out)
  BY <1>1, <1>3, <1>4, <1>5 DEF Turn
<1>7. QED BY <1>2, <1>6

LEMMA CloseTurn ==
    ASSUME TcpTyped, ~Disordered, NEW h \in TcpHosts, NEW k \in TcpPorts, sys_close_sock(h, k)
    PROVE  \E out \in Seq(Segs) : Turn(h, k, 0, out) /\ Shuts(h, k, out) /\ Bytes(h, k)' = Bytes(h, k)
<1>1. PICK out \in Seq(Segs) : Shuts(h, k, out) /\ Local(h, k)
  BY CloseEffect
<1> DEFINE F == Segment(k, {"FIN", "ACK"}, conn[h][k].seq_num, conn[h][k].ack_num, <<>>)
<1>2. link' = Sending(TcpPeer(h), out) /\ got' = got /\ tcp_use' = tcp_use
        /\ conn'[h][k].recv_buffer = conn[h][k].recv_buffer /\ (out = <<>> \/ out = <<F>>)
  BY <1>1 DEF Shuts
<1>3. TcpPeer(h) \in TcpHosts /\ TcpPeer(TcpPeer(h)) = h
  BY Hosts
<1>4. Moves(h, 0, <<>>) /\ Moves(TcpPeer(h), 0, out)
  BY <1>2, <1>3, SendingMoves
<1>5. Bytes(h, k)' = Bytes(h, k)
  BY <1>2 DEF Bytes
<1>6. \A i \in DOMAIN out : out[i].port = k /\ out[i].data = <<>>
  <2>1. PICK x : x = F
    OBVIOUS
  <2>2. x.port = k /\ x.data = <<>>
    BY <2>1, SegmentFields
  <2>3. QED BY <1>2, <2>1, <2>2, OneBare
<1>7. Grown(h, k, 0) /\ Fresh(TcpPeer(h), k, out)
  BY <1>5, <1>6, GrownSame, FreshBare
<1>8. Turn(h, k, 0, out)
  BY <1>1, <1>2, <1>4, <1>6, <1>7 DEF Turn
<1>9. QED BY <1>1, <1>5, <1>8

LEMMA UseFixed == ASSUME [TcpNext]_tcp_vars PROVE tcp_use' = tcp_use
<1>1. ASSUME NEW h, handle_tcp_packet(h) \/ lose(h) PROVE tcp_use' = tcp_use
  BY <1>1 DEF handle_tcp_packet, handle_known, handle_syn, handle_unknown, lose
<1>2. ASSUME NEW h, NEW k, NEW n, sys_sendto(h, k, n) \/ sys_recvfrom(h, k, n) \/ sys_close_sock(h, k) \/ sys_connect(k)
      PROVE  tcp_use' = tcp_use
  BY <1>2 DEF sys_sendto, sys_recvfrom, sys_close_sock, sys_connect
<1>3. ASSUME sys_listen \/ close_listener \/ sys_accept PROVE tcp_use' = tcp_use
  BY <1>3 DEF sys_listen, close_listener, sys_accept
<1>4. QED BY <1>1, <1>2, <1>3 DEF TcpNext, tcp_vars

(* The steps that touch no connection. *)
LEMMA CallsAside ==
    ASSUME sys_listen \/ close_listener \/ sys_accept \/ UNCHANGED tcp_vars
    PROVE  UNCHANGED <<conn, link, tcp_sent, got, tcp_use>>
  BY DEF sys_listen, close_listener, sys_accept, tcp_vars

LEMMA StreamsNext ==
    ASSUME TcpTyped, TcpTyped', LinksSound, StreamsInOrder, [TcpNext]_tcp_vars
    PROVE  StreamsInOrder'
<1>1. CASE Disordered
  <2>1. Disordered'
    BY <1>1, UseFixed DEF Disordered
  <2>2. QED BY <2>1 DEF StreamsInOrder
<1>2. CASE ~Disordered
  <2>1. ASSUME NEW h \in TcpHosts, NEW k \in TcpPorts, NEW e, NEW out, Turn(h, k, e, out) PROVE StreamsInOrder'
    BY <1>2, <2>1, StreamsTurn
  <2>2. CASE \E h \in TcpHosts : handle_tcp_packet(h) \/ lose(h)
    <3>1. PICK h \in TcpHosts : handle_known(h) \/ handle_syn(h) \/ handle_unknown(h) \/ lose(h)
      BY <2>2 DEF handle_tcp_packet
    <3>2. \E k \in TcpPorts : \E out : Turn(h, k, 1, out)
      BY <1>2, <3>1, KnownTurn, SynTurn, UnknownTurn, LoseTurn
    <3>3. QED BY <2>1, <3>2
  <2>3. CASE \E k \in TcpPorts : sys_connect(k)
    BY <1>2, <2>1, <2>3, ConnectTurn
  <2>4. CASE \E h \in TcpHosts, k \in TcpPorts : \E n \in 1 .. MaxBuffer : sys_sendto(h, k, n) \/ sys_recvfrom(h, k, n)
    BY <1>2, <2>1, <2>4, SendTurn, ReceiveTurn
  <2>5. CASE \E h \in TcpHosts, k \in TcpPorts : sys_close_sock(h, k)
    BY <1>2, <2>1, <2>5, CloseTurn
  <2>6. CASE sys_listen \/ close_listener \/ sys_accept \/ UNCHANGED tcp_vars
    <3>1. UNCHANGED <<conn, link, tcp_sent, got, tcp_use>>
      BY <2>6, CallsAside
    <3>2. ASSUME NEW h \in TcpHosts, NEW k \in TcpPorts PROVE InOrder(h, k)'
      <4>1. InOrder(h, k) /\ Bytes(h, k)' = Bytes(h, k)
        BY <1>2, <3>1 DEF StreamsInOrder, Bytes
      <4>2. QED BY <3>1, <4>1 DEF InOrder
    <3>3. QED BY <3>2 DEF StreamsInOrder
  <2>7. QED BY <2>2, <2>3, <2>4, <2>5, <2>6 DEF TcpNext
<1>3. QED BY <1>1, <1>2

(* At the start nothing was sent. *)
LEMMA StartEmpty ==
    ASSUME TcpInit, NEW h \in TcpHosts, NEW k \in TcpPorts
    PROVE  /\ Bytes(h, k) = <<>> /\ DOMAIN Bytes(h, k) = {} /\ 1 .. Len(Bytes(h, k)) - 1 = {}
           /\ 1 .. Len(Bytes(h, k)) = {} /\ tcp_sent[TcpPeer(h)][k] = 0 /\ conn[h][k].state = "Absent"
           /\ ~Disordered => DOMAIN link[h] = {}
<1>1. conn[h][k] = Absent /\ got[h][k] = <<>> /\ tcp_sent[TcpPeer(h)][k] = 0
        /\ (~Disordered => link[h] = <<>>)
  BY Hosts DEF TcpInit
<1>2. conn[h][k].state = "Absent" /\ conn[h][k].recv_buffer = <<>>
  BY <1>1 DEF Absent
<1>3. Bytes(h, k) = <<>>
  BY <1>1, <1>2, EmptySeq, ConcatEmptySeq DEF Bytes
<1>4. DOMAIN <<>> = {} /\ Len(<<>>) = 0
  OBVIOUS
<1>5. QED BY <1>1, <1>2, <1>3, <1>4

LEMMA StreamsInit == ASSUME TcpInit PROVE StreamsInOrder
<1>1. ASSUME ~Disordered, NEW h \in TcpHosts, NEW k \in TcpPorts PROVE InOrder(h, k)
  BY <1>1, StartEmpty DEF InOrder
<1>2. QED BY <1>1 DEF StreamsInOrder

(* ---------------------------------------------------- nothing is lost *)

\* The segment that a turn takes from the way to g, if it is of connection j.
Taken(g, j, h, k, e) == g = h /\ j = k /\ e = 1

(* Where the segments on their way are after a turn. *)
LEMMA Shifted ==
    ASSUME TcpTyped, ~Disordered, NEW h \in TcpHosts, NEW k \in TcpPorts, NEW e, NEW out, Turn(h, k, e, out),
           NEW g \in TcpHosts
    PROVE  \E d \in {0, 1} :
              /\ d = 1 => g = h /\ e = 1 /\ 1 \in DOMAIN link[g] /\ link[g][1].port = k
              /\ \A i \in DOMAIN link[g] : i > d => i - d \in DOMAIN link'[g] /\ link'[g][i - d] = link[g][i]
<1>1. /\ e \in {0, 1} /\ Moves(h, e, <<>>) /\ Moves(TcpPeer(h), 0, out)
      /\ e = 1 => 1 \in DOMAIN link[h] /\ link[h][1].port = k
  BY DEF Turn
<1>2. CASE g = h
  <2>1. \A i \in DOMAIN link[g] : i > e => i - e \in DOMAIN link'[g] /\ link'[g][i - e] = link[g][i]
    BY <1>1, <1>2 DEF Moves
  <2>2. QED BY <1>1, <1>2, <2>1
<1>3. CASE g = TcpPeer(h)
  <2>1. PICK d \in {0, 1} : d = 0
    OBVIOUS
  <2>2. \A i \in DOMAIN link[g] : i > d => i - d \in DOMAIN link'[g] /\ link'[g][i - d] = link[g][i]
    BY <1>1, <1>3, <2>1 DEF Moves
  <2>3. QED BY <2>1, <2>2
<1>4. QED BY <1>2, <1>3, Hosts

LEMMA CarriedKept ==
    ASSUME TcpTyped, ~Disordered, NEW h \in TcpHosts, NEW k \in TcpPorts, NEW e, NEW out, Turn(h, k, e, out),
           NEW g \in TcpHosts, NEW j \in TcpPorts, NEW v, Carried(g, j, v),
           Taken(g, j, h, k, e) => \A a \in DOMAIN link[h][1].data : link[h][1].data[a] # v
    PROVE  Carried(g, j, v)'
<1>1. PICK i \in DOMAIN link[g] :
        link[g][i].port = j /\ \E a \in DOMAIN link[g][i].data : link[g][i].data[a] = v
  BY DEF Carried
<1>2. PICK d \in {0, 1} :
        /\ d = 1 => g = h /\ e = 1 /\ 1 \in DOMAIN link[g] /\ link[g][1].port = k
        /\ \A x \in DOMAIN link[g] : x > d => x - d \in DOMAIN link'[g] /\ link'[g][x - d] = link[g][x]
  BY Shifted
<1>3. i \in Nat /\ i >= 1
  BY LinkSeq
<1>4. ~(d = 1 /\ i = 1)
  BY <1>1, <1>2 DEF Taken
<1>5. i > d
  BY <1>3, <1>4
<1>6. QED BY <1>1, <1>2, <1>5 DEF Carried

LEMMA AckKept ==
    ASSUME TcpTyped, TcpTyped', ~Disordered, NEW h \in TcpHosts, NEW k \in TcpPorts, NEW e, NEW out,
           Turn(h, k, e, out), NEW g \in TcpHosts, NEW j \in TcpPorts, NEW o, AckOnWay(g, j, o)
    PROVE  \/ AckOnWay(g, j, o)'
           \/ /\ Taken(g, j, h, k, e) /\ "ACK" \in link[h][1].flags
              /\ \E b \in o + 1 .. tcp_sent[g][j] : link[h][1].ack = Nth(b)
<1>1. PICK i \in DOMAIN link[g], b \in o + 1 .. tcp_sent[g][j] :
        link[g][i].port = j /\ "ACK" \in link[g][i].flags /\ link[g][i].ack = Nth(b)
  BY DEF AckOnWay
<1>2. PICK d \in {0, 1} :
        /\ d = 1 => g = h /\ e = 1 /\ 1 \in DOMAIN link[g] /\ link[g][1].port = k
        /\ \A x \in DOMAIN link[g] : x > d => x - d \in DOMAIN link'[g] /\ link'[g][x - d] = link[g][x]
  BY Shifted
<1>3. i \in Nat /\ i >= 1
  BY LinkSeq
<1>4. CASE d = 1 /\ i = 1
  BY <1>1, <1>2, <1>4 DEF Taken
<1>5. CASE ~(d = 1 /\ i = 1)
  <2>1. i > d
    BY <1>3, <1>5
  <2>2. b \in o + 1 .. tcp_sent'[g][j]
    <3>1. tcp_sent[g][j] \in Nat /\ tcp_sent'[g][j] \in Nat /\ tcp_sent[g][j] <= tcp_sent'[g][j]
      BY SentGrows DEF Turn
    <3>2. QED BY <1>1, <3>1
  <2>3. link'[g][i - d].ack = Nth(b) /\ i - d \in DOMAIN link'[g] /\ link'[g][i - d] = link[g][i]
    BY <1>1, <1>2, <2>1
  <2>4. QED BY <1>1, <2>2, <2>3 DEF AckOnWay, Nth
<1>6. QED BY <1>4, <1>5

LEMMA BareKept ==
    ASSUME TcpTyped, TcpTyped', ~Disordered, NEW h \in TcpHosts, NEW k \in TcpPorts, NEW e, NEW out,
           Turn(h, k, e, out), NEW j \in TcpPorts, BareAck(j),
           Taken("server", j, h, k, e) => "ACK" \notin link[h][1].flags
    PROVE  BareAck(j)'
<1>1. PICK i \in DOMAIN link["server"] :
        /\ link["server"][i].port = j /\ "ACK" \in link["server"][i].flags
        /\ \A x \in 1 .. i : link["server"][x].port = j => link["server"][x].data = <<>>
  BY DEF BareAck
<1>2. PICK g \in TcpHosts : g = "server"
  BY Hosts
<1>3. PICK d \in {0, 1} :
        /\ d = 1 => g = h /\ e = 1 /\ 1 \in DOMAIN link[g] /\ link[g][1].port = k
        /\ \A x \in DOMAIN link[g] : x > d => x - d \in DOMAIN link'[g] /\ link'[g][x - d] = link[g][x]
  BY Shifted
<1>4. DOMAIN link[g] = 1 .. Len(link[g]) /\ Len(link[g]) \in Nat /\ i \in Nat /\ i >= 1 /\ i <= Len(link[g])
  BY <1>1, <1>2, LinkSeq
<1>5. ~(d = 1 /\ i = 1)
  BY <1>1, <1>2, <1>3 DEF Taken
<1>6. i > d /\ i - d \in DOMAIN link'[g] /\ link'[g][i - d] = link[g][i]
  BY <1>1, <1>2, <1>3, <1>4, <1>5
<1>7. ASSUME NEW y \in 1 .. i - d, link'[g][y].port = j PROVE link'[g][y].data = <<>>
  <2>1. y + d \in 1 .. i /\ y + d > d /\ (y + d) - d = y /\ y + d \in DOMAIN link[g]
    BY <1>4, <1>7
  <2>2. link'[g][y] = link[g][y + d]
    BY <1>3, <2>1
  <2>3. QED BY <1>1, <1>2, <1>7, <2>1, <2>2
<1>8. QED BY <1>1, <1>2, <1>6, <1>7 DEF BareAck

LEMMA NoneTaken ==
    ASSUME NEW x, x.data = <<>>, NEW v PROVE \A a \in DOMAIN x.data : x.data[a] # v
<1>1. DOMAIN <<>> = {}
  OBVIOUS
<1>2. QED BY <1>1

(* An entry that takes nothing. *)
LEMMA GaplessKept ==
    ASSUME TcpTyped, ~Disordered, NEW h \in TcpHosts, NEW k \in TcpPorts, NEW e, NEW out, Turn(h, k, e, out),
           NEW g \in TcpHosts, NEW j \in TcpPorts, Gapless(g, j),
           Bytes(g, j)' = Bytes(g, j), tcp_sent'[TcpPeer(g)][j] = tcp_sent[TcpPeer(g)][j],
           Listens(g, j)' => Listens(g, j) /\ (Taken(g, j, h, k, e) => link[h][1].data = <<>>)
    PROVE  Gapless(g, j)'
<1>1. ASSUME Listens(g, j)', NEW v \in Len(Bytes(g, j)) + 1 .. tcp_sent[TcpPeer(g)][j] PROVE Carried(g, j, v)'
  <2>1. Carried(g, j, v)
    BY <1>1 DEF Gapless
  <2>2. Taken(g, j, h, k, e) => \A a \in DOMAIN link[h][1].data : link[h][1].data[a] # v
    BY <1>1, NoneTaken
  <2>3. QED BY <2>1, <2>2, CarriedKept
<1>2. QED BY <1>1 DEF Gapless

LEMMA OutstandingKept ==
    ASSUME TcpTyped, TcpTyped', ~Disordered, NEW h \in TcpHosts, NEW k \in TcpPorts, NEW e, NEW out,
           Turn(h, k, e, out), NEW g \in TcpHosts, NEW j \in TcpPorts, NEW q, Outstanding(g, j, q),
           Bytes(TcpPeer(g), j)' = Bytes(TcpPeer(g), j), ~Taken(g, j, h, k, e)
    PROVE  Outstanding(g, j, q)'
<1>1. PICK o \in 0 .. tcp_sent[g][j] - 1 : q = Nth(o) /\ (o >= Len(Bytes(TcpPeer(g), j)) \/ AckOnWay(g, j, o))
  BY DEF Outstanding
<1>2. tcp_sent[g][j] \in Nat /\ tcp_sent'[g][j] \in Nat /\ tcp_sent[g][j] <= tcp_sent'[g][j]
  BY SentGrows DEF Turn
<1>3. o \in 0 .. tcp_sent'[g][j] - 1
  BY <1>1, <1>2
<1>4. AckOnWay(g, j, o) => AckOnWay(g, j, o)'
  BY AckKept
<1>5. QED BY <1>1, <1>3, <1>4 DEF Outstanding, Nth

\* All of NothingLost for one connection.
Lossless(k) ==
    /\ \A h \in TcpHosts : Gapless(h, k)
    /\ HandshakeBare(k)
    /\ \A h \in TcpHosts : QueueSound(h, k)

(* A connection whose entries do not change. *)
LEMMA CalmKept ==
    ASSUME TcpTyped, TcpTyped', ~Disordered, NEW h \in TcpHosts, NEW k \in TcpPorts, NEW e, NEW out,
           Turn(h, k, e, out), NEW j \in TcpPorts, Lossless(j), j = k => e = 0,
           \A g \in TcpHosts : /\ conn'[g][j].state = conn[g][j].state
                               /\ conn'[g][j].retransmit_queue = conn[g][j].retransmit_queue
                               /\ Bytes(g, j)' = Bytes(g, j) /\ tcp_sent'[g][j] = tcp_sent[g][j]
    PROVE  Lossless(j)'
<1>1. \A g : ~Taken(g, j, h, k, e)
  BY DEF Taken
<1>2. ASSUME NEW g \in TcpHosts PROVE Gapless(g, j)'
  <2>1. Gapless(g, j) /\ Bytes(g, j)' = Bytes(g, j) /\ tcp_sent'[TcpPeer(g)][j] = tcp_sent[TcpPeer(g)][j]
          /\ (Listens(g, j)' => Listens(g, j))
    BY Hosts DEF Lossless, Listens
  <2>2. QED BY <1>1, <2>1, GaplessKept
<1>3. HandshakeBare(j)'
  <2>1. ASSUME BareAck(j) PROVE BareAck(j)'
    BY <1>1, <2>1, BareKept
  <2>2. QED BY <2>1, Hosts DEF HandshakeBare, Lossless
<1>4. ASSUME NEW g \in TcpHosts PROVE QueueSound(g, j)'
  <2>1. ASSUME NEW q, Outstanding(g, j, q) PROVE Outstanding(g, j, q)'
    <3>1. Bytes(TcpPeer(g), j)' = Bytes(TcpPeer(g), j) /\ ~Taken(g, j, h, k, e)
      BY <1>1, Hosts
    <3>2. QED BY <2>1, <3>1, OutstandingKept
  <2>2. QueueSound(g, j) /\ TcpPeer(g) \in TcpHosts
    BY Hosts DEF Lossless
  <2>3. QED BY <2>1, <2>2 DEF QueueSound
<1>5. QED BY <1>2, <1>3, <1>4 DEF Lossless

(* A turn leaves the other connections as they were. *)
LEMMA LosslessOthers ==
    ASSUME TcpTyped, TcpTyped', ~Disordered, NEW h \in TcpHosts, NEW k \in TcpPorts, NEW e, NEW out,
           Turn(h, k, e, out), NEW j \in TcpPorts, j # k, Lossless(j)
    PROVE  Lossless(j)'
<1>1. Local(h, k)
  BY DEF Turn
<1>2. ASSUME NEW g \in TcpHosts
      PROVE  conn'[g][j] = conn[g][j] /\ Bytes(g, j)' = Bytes(g, j) /\ tcp_sent'[g][j] = tcp_sent[g][j]
  BY <1>1, OtherBytes DEF Local
<1>3. QED BY <1>2, CalmKept

(* The peer of an entry in a turn. *)
LEMMA PeerGapless ==
    ASSUME TcpTyped, ~Disordered, NEW h \in TcpHosts, NEW k \in TcpPorts, NEW e, NEW out, Turn(h, k, e, out),
           Lossless(k), tcp_sent'[h][k] = tcp_sent[h][k]
    PROVE  Gapless(TcpPeer(h), k)'
<1>1. PICK g \in TcpHosts : g = TcpPeer(h) /\ g # h /\ TcpPeer(g) = h
  BY Hosts
<1>2. conn'[g][k] = conn[g][k] /\ Bytes(g, k)' = Bytes(g, k) /\ Gapless(g, k)
  BY <1>1, OtherBytes DEF Turn, Local, Lossless
<1>3. Listens(g, k)' => Listens(g, k)
  BY <1>2 DEF Listens
<1>4. ~Taken(g, k, h, k, e)
  BY <1>1 DEF Taken
<1>5. Gapless(g, k)'
  BY <1>1, <1>2, <1>3, <1>4, GaplessKept
<1>6. QED BY <1>1, <1>5

LEMMA BothLossless ==
    ASSUME NEW h \in TcpHosts, NEW k, Gapless(h, k)', Gapless(TcpPeer(h), k)', HandshakeBare(k)',
           QueueSound(h, k)', QueueSound(TcpPeer(h), k)'
    PROVE  Lossless(k)'
<1>1. \A g \in TcpHosts : g = h \/ g = TcpPeer(h)
  BY Hosts
<1>2. \A g \in TcpHosts : Gapless(g, k)' /\ QueueSound(g, k)'
  BY <1>1
<1>3. QED BY <1>2 DEF Lossless

(* An entry outside the states that exchange data has nothing to lose. *)
LEMMA QueuesIdle ==
    ASSUME NEW h \in TcpHosts, NEW k, conn'[h][k].state \notin {"SynReceived", "Established"}
    PROVE  QueueSound(h, k)' /\ QueueSound(TcpPeer(h), k)'
<1>1. TcpPeer(TcpPeer(h)) = h
  BY Hosts
<1>2. QueueSound(h, k)'
  BY DEF QueueSound
<1>3. QueueSound(TcpPeer(h), k)'
  BY <1>1 DEF QueueSound
<1>4. QED BY <1>2, <1>3

LEMMA DeafGapless ==
    ASSUME TcpTyped, TcpTyped', NEW h \in TcpHosts, NEW k \in TcpPorts, Gapless(h, k),
           conn'[h][k].state \notin {"SynSent", "SynReceived", "Established"},
           \A a \in DOMAIN Bytes(h, k)' : a \in DOMAIN Bytes(h, k) /\ Bytes(h, k)'[a] = Bytes(h, k)[a]
    PROVE  Gapless(h, k)'
<1>1. Bytes(h, k)' \in Seq(Nat)
  <2>1. got'[h][k] \in Seq(Nat) /\ conn'[h][k].recv_buffer \in Seq(Nat)
    BY DEF TcpTyped, TcpConnection
  <2>2. QED BY <2>1, ConcatProperties DEF Bytes
<1>2. DOMAIN Bytes(h, k)' = 1 .. Len(Bytes(h, k)')
  BY <1>1, LenProperties
<1>3. DOMAIN Bytes(h, k) = 1 .. Len(Bytes(h, k))
  BY BytesType
<1>4. \A i \in 1 .. Len(Bytes(h, k)') : Bytes(h, k)'[i] = i
  BY <1>2, <1>3 DEF Gapless
<1>5. ~Listens(h, k)'
  BY DEF Listens
<1>6. QED BY <1>4, <1>5 DEF Gapless

LEMMA EmptyGapless ==
    ASSUME NEW h \in TcpHosts, NEW k \in TcpPorts, Bytes(h, k)' = <<>>, tcp_sent'[TcpPeer(h)][k] = 0
    PROVE  Gapless(h, k)'
<1>1. Len(Bytes(h, k)') = 0
  <2>1. Len(<<>>) = 0
    OBVIOUS
  <2>2. QED BY <2>1
<1>2. 1 .. Len(Bytes(h, k)') = {} /\ Len(Bytes(h, k)') + 1 .. tcp_sent'[TcpPeer(h)][k] = {}
  BY <1>1
<1>3. QED BY <1>2 DEF Gapless

LEMMA UnknownLossless ==
    ASSUME TcpTyped, TcpTyped', LinksSound, ~Disordered, NEW h \in TcpHosts, NEW k \in TcpPorts, NEW out,
           Turn(h, k, 1, out), Still, conn[h][k].state = "Absent", Lossless(k)
    PROVE  Lossless(k)'
<1>1. conn' = conn /\ tcp_sent' = tcp_sent /\ Bytes(h, k)' = Bytes(h, k)
  BY DEF Still, Bytes
<1>2. Gapless(h, k)'
  BY <1>1, DeafGapless DEF Lossless
<1>3. Gapless(TcpPeer(h), k)'
  BY <1>1, PeerGapless
<1>4. QueueSound(h, k)' /\ QueueSound(TcpPeer(h), k)'
  BY <1>1, QueuesIdle
<1>5. HandshakeBare(k)'
  BY <1>1, Hosts, StateSets DEF HandshakeBare
<1>6. QED BY <1>2, <1>3, <1>4, <1>5, BothLossless

LEMMA SynLossless ==
    ASSUME TcpTyped, TcpTyped', LinksSound, ~Disordered, NEW h \in TcpHosts, NEW k \in TcpPorts, NEW x, NEW out,
           Turn(h, k, 1, out), Offers(h, k, x), Lossless(k)
    PROVE  Lossless(k)'
<1>1. /\ h = "server" /\ conn[h][k].state = "Absent" /\ conn'[h][k].state = "SynReceived"
      /\ conn["client"][k].state \notin Open /\ Bytes(h, k)' = <<>> /\ tcp_sent' = tcp_sent
  BY DEF Offers
<1>2. TcpPeer(h) = "client" /\ TcpPeer(TcpPeer(h)) = h /\ TcpPeer(h) # h /\ TcpPeer(h) \in TcpHosts
  BY <1>1, Hosts
<1>3. conn'["client"][k] = conn["client"][k]
  BY <1>2 DEF Turn, Local
<1>4. tcp_sent["client"][k] = 0
  <2>1. tcp_sent["client"][k] \in Nat
    BY <1>2, SentType DEF TcpTyped
  <2>2. QED BY <1>1, <2>1 DEF LinksSound, EndsSound, Free
<1>5. Gapless(h, k)'
  BY <1>1, <1>2, <1>4, EmptyGapless
<1>6. Gapless(TcpPeer(h), k)'
  BY <1>1, PeerGapless
<1>7. HandshakeBare(k)'
  BY <1>1, <1>3 DEF HandshakeBare
<1>8. QueueSound(h, k)'
  BY <1>1 DEF QueueSound
<1>9. QueueSound(TcpPeer(h), k)'
  BY <1>1, <1>2, <1>3, StateSets DEF QueueSound
<1>10. QED BY <1>5, <1>6, <1>7, <1>8, <1>9, BothLossless

LEMMA ConnectLossless ==
    ASSUME TcpTyped, TcpTyped', LinksSound, ~Disordered, NEW h \in TcpHosts, NEW k \in TcpPorts, NEW x, NEW out,
           Turn(h, k, 0, out), Calls(h, k, x), Lossless(k)
    PROVE  Lossless(k)'
<1>1. /\ h = "client" /\ conn'[h][k].state = "SynSent"
      /\ conn["server"][k].state = "Absent" /\ tcp_sent["server"][k] = 0
      /\ Bytes(h, k)' = <<>> /\ tcp_sent' = tcp_sent
  BY DEF Calls
<1>2. TcpPeer(h) = "server"
  BY <1>1, Hosts
<1>3. Gapless(h, k)'
  BY <1>1, <1>2, EmptyGapless
<1>4. Gapless(TcpPeer(h), k)'
  BY <1>1, PeerGapless
<1>5. HandshakeBare(k)'
  BY <1>1, StateSets DEF HandshakeBare
<1>6. QueueSound(h, k)' /\ QueueSound(TcpPeer(h), k)'
  BY <1>1, QueuesIdle
<1>7. QED BY <1>3, <1>4, <1>5, <1>6, BothLossless

LEMMA ReceiveLossless ==
    ASSUME TcpTyped, TcpTyped', ~Disordered, NEW h \in TcpHosts, NEW k \in TcpPorts, NEW out, NEW n \in 1 .. MaxBuffer,
           Turn(h, k, 0, out), sys_recvfrom(h, k, n), Lossless(k)
    PROVE  Lossless(k)'
<1>1. /\ Bytes(h, k)' = Bytes(h, k) /\ conn'[h][k].state = conn[h][k].state
      /\ conn'[h][k].retransmit_queue = conn[h][k].retransmit_queue /\ tcp_sent' = tcp_sent
  BY ReceiveEffect
<1>2. ASSUME NEW g \in TcpHosts, g # h
      PROVE  conn'[g][k] = conn[g][k] /\ Bytes(g, k)' = Bytes(g, k)
  BY <1>2, OtherBytes DEF Turn, Local
<1>3. QED BY <1>1, <1>2, CalmKept

LEMMA CloseLossless ==
    ASSUME TcpTyped, TcpTyped', ~Disordered, NEW h \in TcpHosts, NEW k \in TcpPorts, NEW out,
           Turn(h, k, 0, out), Shuts(h, k, out), Bytes(h, k)' = Bytes(h, k), Lossless(k)
    PROVE  Lossless(k)'
<1>1. tcp_sent' = tcp_sent
  BY DEF Shuts
<1>2. ASSUME NEW g \in TcpHosts, g # h
      PROVE  conn'[g][k] = conn[g][k] /\ Bytes(g, k)' = Bytes(g, k)
  BY <1>2, OtherBytes DEF Turn, Local
<1>3. CASE conn'[h][k] = conn[h][k]
  BY <1>1, <1>2, <1>3, CalmKept
<1>4. CASE conn[h][k].state \in Open /\ conn'[h][k].state \in Open \ {"Established"}
  <2>1. conn'[h][k].state \notin {"SynSent", "SynReceived", "Established"}
    BY <1>4, StateSets
  <2>2. Gapless(h, k)'
    BY <2>1, DeafGapless DEF Lossless
  <2>3. Gapless(TcpPeer(h), k)'
    BY <1>1, PeerGapless
  <2>4. QueueSound(h, k)' /\ QueueSound(TcpPeer(h), k)'
    BY <2>1, QueuesIdle
  <2>5. HandshakeBare(k)'
    <3>1. ASSUME BareAck(k) PROVE BareAck(k)'
      <4>1. ~Taken("server", k, h, k, 0)
        BY DEF Taken
      <4>2. QED BY <3>1, <4>1, BareKept
    <3>2. CASE h = "server"
      BY <2>1, <3>2 DEF HandshakeBare
    <3>3. CASE h = "client"
      <4>1. conn'["server"][k] = conn["server"][k]
        BY <1>2, <3>3, Hosts
      <4>2. QED BY <1>4, <3>1, <3>3, <4>1 DEF HandshakeBare, Lossless
    <3>4. QED BY <3>2, <3>3, Hosts
  <2>6. QED BY <2>2, <2>3, <2>4, <2>5, BothLossless
<1>5. QED BY <1>3, <1>4 DEF Shuts

LEMMA SeqBound ==
    ASSUME NEW b \in Seq(Nat), NEW N \in Nat, \A i \in 1 .. Len(b) : b[i] = i, \A i \in 1 .. Len(b) : b[i] \in 1 .. N
    PROVE  Len(b) <= N /\ Len(b) \in Nat
<1>1. Len(b) \in Nat
  BY LenProperties
<1>2. CASE Len(b) = 0
  BY <1>1, <1>2
<1>3. CASE Len(b) # 0
  <2>1. Len(b) \in 1 .. Len(b)
    BY <1>1, <1>3
  <2>2. b[Len(b)] = Len(b) /\ b[Len(b)] \in 1 .. N
    BY <2>1
  <2>3. QED BY <1>1, <2>2
<1>4. QED BY <1>2, <1>3

LEMMA TakenBound ==
    ASSUME TcpTyped, LinksSound, NEW h \in TcpHosts, NEW k \in TcpPorts, Gapless(h, k)
    PROVE  Len(Bytes(h, k)) <= tcp_sent[TcpPeer(h)][k] /\ Len(Bytes(h, k)) \in Nat /\ tcp_sent[TcpPeer(h)][k] \in Nat
<1>1. Bytes(h, k) \in Seq(Nat) /\ tcp_sent[TcpPeer(h)][k] \in Nat
  BY BytesType, SentType, Hosts DEF TcpTyped
<1>2. EntrySound(h, k)
  BY DEF LinksSound
<1>3. \A i \in 1 .. Len(Bytes(h, k)) : Bytes(h, k)[i] = i
  BY DEF Gapless
<1>4. \A i \in 1 .. Len(Bytes(h, k)) : Bytes(h, k)[i] \in 1 .. tcp_sent[TcpPeer(h)][k]
  BY <1>2 DEF EntrySound
<1>5. QED BY <1>1, <1>3, <1>4, SeqBound

(* Every byte of a send is carried to the peer. *)
LEMMA SendCarries ==
    ASSUME TcpTyped, ~Disordered, NEW h \in TcpHosts, NEW k \in TcpPorts, NEW n \in Nat, NEW m \in 1 .. n, NEW out,
           Turn(h, k, 0, out), Wrote(h, k, n, m, out), NEW v \in tcp_sent[h][k] + 1 .. tcp_sent'[h][k]
    PROVE  Carried(TcpPeer(h), k, v)'
<1>1. PICK u \in Nat, t \in Nat : u = tcp_sent[h][k] /\ t = Total(m, n) /\ tcp_sent'[h][k] = u + t
  <2>1. tcp_sent[h][k] \in Nat /\ (m - 1) * MAX_SEGMENT_SIZE < n /\ tcp_sent'[h][k] = tcp_sent[h][k] + Total(m, n)
    BY SentType DEF TcpTyped, Wrote
  <2>2. Total(m, n) \in Nat
    BY <2>1, ChunkSizes
  <2>3. QED BY <2>1, <2>2
<1>2. PICK w \in 1 .. t : w = v - u /\ v = u + w
  <2>1. v \in u + 1 .. u + t
    BY <1>1
  <2>2. v - u \in 1 .. t /\ v = u + (v - u)
    BY ONLY <2>1, u \in Nat, t \in Nat
  <2>3. QED BY <2>2
<1>3. PICK i \in 1 .. m : w - First(i) \in 1 .. Size(i, n) /\ First(i) \in Nat /\ Size(i, n) \in Nat
  <2>1. (m - 1) * MAX_SEGMENT_SIZE < n
    BY DEF Wrote
  <2>2. \A x \in 1 .. Total(m, n) : \E i \in 1 .. m : x - First(i) \in 1 .. Size(i, n)
    BY <2>1, ChunkSizes
  <2>3. \A i \in 1 .. m : First(i) \in Nat /\ Size(i, n) \in Nat
    BY <2>1, ChunkSizes
  <2>4. QED BY <1>1, <1>2, <2>2, <2>3
<1>4. DOMAIN out = 1 .. m /\ ChunkOf(out[i], k, conn[h][k], u, n, i)
  <2>1. DOMAIN out = 1 .. m /\ \A x \in 1 .. m : ChunkOf(out[x], k, conn[h][k], tcp_sent[h][k], n, x)
    BY SendFresh
  <2>2. QED BY ONLY <1>1, <2>1, i \in 1 .. m
<1>5. PICK f \in Nat, z \in Nat, a \in Nat : f = First(i) /\ z = Size(i, n) /\ a = w - f /\ a \in 1 .. z
  BY <1>3
<1>6. u + f + a = v
  BY ONLY <1>2, <1>5, u \in Nat, f \in Nat, z \in Nat, a \in Nat, t \in Nat, w \in 1 .. t
<1>7. DOMAIN out[i].data = 1 .. z /\ out[i].data[a] = v /\ out[i].port = k
  <2>1. DOMAIN out[i].data = 1 .. z /\ out[i].data[a] = u + f + a /\ out[i].port = k
    BY <1>4, <1>5 DEF ChunkOf
  <2>2. QED BY <1>6, <2>1
<1>8. Moves(TcpPeer(h), 0, out)
  BY DEF Turn
<1>9. PICK x \in DOMAIN link'[TcpPeer(h)] : link'[TcpPeer(h)][x] = out[i]
  BY <1>4, <1>8 DEF Moves
<1>10. QED BY <1>5, <1>7, <1>9 DEF Carried

LEMMA OffsetBound ==
    ASSUME NEW u \in Nat, NEW f \in Nat, NEW z \in Nat \ {0}, NEW t \in Nat, NEW l \in Nat, f + z <= t, l <= u
    PROVE  u + f \in 0 .. u + t - 1 /\ u + f >= l
  OBVIOUS

LEMMA SendLossless ==
    ASSUME TcpTyped, TcpTyped', LinksSound, ~Disordered, NEW h \in TcpHosts, NEW k \in TcpPorts,
           NEW n \in 1 .. MaxBuffer, NEW m \in 1 .. n, NEW out, Turn(h, k, 0, out), Wrote(h, k, n, m, out), Lossless(k)
    PROVE  Lossless(k)'
<1> DEFINE g == TcpPeer(h)
<1>1. /\ g \in TcpHosts /\ g # h /\ TcpPeer(g) = h /\ n \in Nat
      /\ \A x : ~Taken(x, k, h, k, 0)
  BY Hosts, TcpConstants DEF Taken
<1>2. /\ conn'[g][k] = conn[g][k] /\ Bytes(g, k)' = Bytes(g, k) /\ tcp_sent'[g][k] = tcp_sent[g][k]
  BY <1>1, OtherBytes DEF Turn, Local
<1>3. /\ conn[h][k].state = "Established" /\ conn'[h][k].state = "Established"
      /\ Bytes(h, k)' = Bytes(h, k)
      /\ conn'[h][k].retransmit_queue = conn[h][k].retransmit_queue \cup {s.seq : s \in Range(out)}
  BY DEF Wrote, Bytes
<1>4. Gapless(h, k) /\ Gapless(g, k) /\ QueueSound(h, k) /\ QueueSound(g, k) /\ HandshakeBare(k)
  BY <1>1 DEF Lossless
<1>5. tcp_sent[h][k] \in Nat /\ tcp_sent'[h][k] \in Nat /\ tcp_sent[h][k] <= tcp_sent'[h][k]
  BY SentGrows DEF Turn
<1>6. Len(Bytes(g, k)) <= tcp_sent[h][k] /\ Len(Bytes(g, k)) \in Nat
  BY <1>1, <1>4, TakenBound
<1>7. Gapless(h, k)'
  <2>1. Listens(h, k)' => Listens(h, k)
    BY <1>3 DEF Listens
  <2>2. QED BY <1>1, <1>2, <1>3, <1>4, <2>1, GaplessKept
<1>8. Gapless(g, k)'
  <2>1. ASSUME Listens(g, k)', NEW v \in Len(Bytes(g, k)) + 1 .. tcp_sent'[h][k] PROVE Carried(g, k, v)'
    <3>1. CASE v <= tcp_sent[h][k]
      <4>1. v \in Len(Bytes(g, k)) + 1 .. tcp_sent[h][k] /\ Listens(g, k)
        BY <1>2, <1>5, <1>6, <2>1, <3>1 DEF Listens
      <4>2. Carried(g, k, v)
        BY <1>1, <1>4, <4>1 DEF Gapless
      <4>3. QED BY <1>1, <4>2, CarriedKept
    <3>2. CASE ~(v <= tcp_sent[h][k])
      <4>1. v \in tcp_sent[h][k] + 1 .. tcp_sent'[h][k]
        BY <1>5, <1>6, <2>1, <3>2
      <4>2. QED BY <1>1, <4>1, SendCarries
    <3>3. QED BY <3>1, <3>2
  <2>2. QED BY <1>1, <1>2, <1>4, <2>1 DEF Gapless
<1>9. HandshakeBare(k)'
  <2>1. \A x \in TcpHosts : conn'[x][k].state = conn[x][k].state
    BY <1>2, <1>3, Hosts
  <2>2. ASSUME BareAck(k) PROVE BareAck(k)'
    BY <1>1, <2>2, BareKept
  <2>3. QED BY <1>4, <2>1, <2>2, Hosts DEF HandshakeBare
<1>10. QueueSound(g, k)'
  <2>1. ASSUME NEW q, Outstanding(g, k, q) PROVE Outstanding(g, k, q)'
    BY <1>1, <1>3, <2>1, OutstandingKept
  <2>2. QED BY <1>1, <1>2, <1>3, <1>4, <2>1 DEF QueueSound
<1>11. QueueSound(h, k)'
  <2> SUFFICES ASSUME MaxBuffer < SeqSpan \div 2, conn'[g][k].state \in {"SynReceived", "Established"}, NEW q \in conn'[h][k].retransmit_queue
               PROVE  Outstanding(h, k, q)'
    BY DEF QueueSound
  <2>1. CASE q \in conn[h][k].retransmit_queue
    <3>1. Outstanding(h, k, q)
      BY <1>2, <1>3, <1>4, <2>1 DEF QueueSound
    <3>2. QED BY <1>1, <1>2, <3>1, OutstandingKept
  <2>2. CASE \E s \in Range(out) : q = s.seq
    <3>1. PICK i \in DOMAIN out : q = out[i].seq
      BY <2>2 DEF Range
    <3>2. DOMAIN out = 1 .. m /\ ChunkOf(out[i], k, conn[h][k], tcp_sent[h][k], n, i)
      BY <1>1, <3>1, SendFresh
    <3>3. PICK f \in Nat, z \in Nat \ {0}, t \in Nat, u \in Nat :
            f = First(i) /\ z = Size(i, n) /\ t = Total(m, n) /\ u = tcp_sent[h][k] /\ f + z <= t
      <4>1. (m - 1) * MAX_SEGMENT_SIZE < n /\ i \in 1 .. m
        BY <3>2, <3>1 DEF Wrote
      <4>2. Total(m, n) \in 1 .. n
        BY <1>1, <4>1, ChunkSizes
      <4>3. First(i) \in Nat /\ Size(i, n) \in Nat \ {0} /\ First(i) + Size(i, n) <= Total(m, n)
        BY <1>1, <4>1, ChunkSizes
      <4>4. QED BY <1>5, <4>2, <4>3
    <3>4. q = wrapping_add(conn[h][k].seq_num, f) /\ conn[h][k].seq_num = Nth(u) /\ tcp_sent'[h][k] = u + t
      <4>1. EntrySound(h, k)
        BY DEF LinksSound
      <4>2. QED BY <1>3, <3>1, <3>2, <3>3, <4>1 DEF EntrySound, ChunkOf, Wrote
    <3>5. q = Nth(u + f)
      BY <3>4, NthAdd
    <3>6. PICK o \in Nat : o = u + f
      OBVIOUS
    <3>7. o \in 0 .. tcp_sent'[h][k] - 1 /\ o >= Len(Bytes(g, k))
      <4>1. PICK l \in Nat : l = Len(Bytes(g, k)) /\ l <= u
        BY <1>6, <3>3
      <4>2. f + z <= t /\ l <= u
        BY <3>3, <4>1
      <4>3. u + f \in 0 .. u + t - 1 /\ u + f >= l
        BY <4>2, OffsetBound
      <4>4. QED BY <3>4, <3>6, <4>1, <4>3
    <3>8. q = Nth(o)'
      BY <3>5, <3>6 DEF Nth
    <3>9. QED BY <1>2, <3>7, <3>8 DEF Outstanding
  <2>3. QED BY <1>3, <2>1, <2>2
<1>12. QED BY <1>7, <1>8, <1>9, <1>10, <1>11, BothLossless

(* The data taken are the bytes that come next. *)
LEMMA NextBytes ==
    ASSUME TcpTyped, LinksSound, ~Disordered, NEW h \in TcpHosts, NEW k \in TcpPorts, InOrder(h, k), Gapless(h, k),
           Listens(h, k), 1 \in DOMAIN link[h], link[h][1].port = k
    PROVE  \A j \in DOMAIN link[h][1].data : link[h][1].data[j] = Len(Bytes(h, k)) + j
<1>1. PICK B \in Seq(Nat), d \in Seq(Nat), l \in Nat, m \in Nat, N \in Nat :
        /\ B = Bytes(h, k) /\ d = link[h][1].data /\ l = Len(B) /\ m = Len(d) /\ N = tcp_sent[TcpPeer(h)][k]
        /\ DOMAIN B = 1 .. l /\ DOMAIN d = 1 .. m /\ l <= N
  <2>1. Bytes(h, k) \in Seq(Nat) /\ DOMAIN Bytes(h, k) = 1 .. Len(Bytes(h, k))
    BY BytesType
  <2>2. link[h][1].data \in Seq(Nat) /\ DOMAIN link[h][1].data = 1 .. Len(link[h][1].data)
          /\ Len(link[h][1].data) \in Nat
    BY DataType
  <2>3. QED BY <2>1, <2>2, TakenBound
<1>2. CASE m = 0
  BY <1>1, <1>2
<1>3. CASE m # 0
  <2>1. 1 \in DOMAIN d /\ 1 \in 1 .. m
    BY <1>1, <1>3
  <2>2. SegmentSound(h, link[h][1])
    BY DataType DEF LinksSound
  <2>3. \A j \in 1 .. m : d[j] \in 1 .. N /\ d[j] = d[1] + (j - 1)
    BY <1>1, <2>2 DEF SegmentSound
  <2>4. PICK x \in 1 .. N : x = d[1]
    BY <2>1, <2>3
  <2>5. x >= l + 1
    <3>1. CASE l = 0
      BY <2>4, <3>1
    <3>2. CASE l # 0
      <4>1. l \in DOMAIN B /\ l \in 1 .. l
        BY <1>1, <3>2
      <4>2. B[l] = l
        BY <1>1, <4>1 DEF Gapless
      <4>3. B[l] < d[1]
        BY <1>1, <2>1, <4>1 DEF InOrder
      <4>4. QED BY <2>4, <4>2, <4>3
    <3>3. QED BY <3>1, <3>2
  <2>6. l + 1 \in l + 1 .. N
    BY <2>4, <2>5
  <2>7. Carried(h, k, l + 1)
    BY <1>1, <2>6 DEF Gapless
  <2>8. PICK i \in DOMAIN link[h] : link[h][i].port = k /\ \E a \in DOMAIN link[h][i].data : link[h][i].data[a] = l + 1
    BY <2>7 DEF Carried
  <2>9. PICK a \in DOMAIN link[h][i].data : link[h][i].data[a] = l + 1
    BY <2>8
  <2>10. i \in Nat /\ i >= 1
    BY LinkSeq
  <2>11. x = l + 1
    <3>1. CASE i = 1
      <4>1. a \in 1 .. m /\ d[a] = l + 1
        BY <1>1, <2>9, <3>1
      <4>2. d[a] = x + (a - 1)
        BY <2>3, <2>4, <4>1
      <4>3. QED BY <2>4, <2>5, <4>1, <4>2
    <3>2. CASE i # 1
      <4>1. 1 < i
        BY <2>10, <3>2
      <4>2. d[1] < l + 1
        BY <1>1, <2>1, <2>8, <2>9, <4>1 DEF InOrder
      <4>3. QED BY <2>4, <2>5, <4>2
    <3>3. QED BY <3>1, <3>2
  <2>12. ASSUME NEW j \in 1 .. m PROVE d[j] = l + j
    <3>1. d[j] = x + (j - 1)
      BY <2>3, <2>4
    <3>2. (l + 1) + (j - 1) = l + j
      OBVIOUS
    <3>3. QED BY <2>11, <3>1, <3>2
  <2>13. QED BY <1>1, <2>12
<1>4. QED BY <1>2, <1>3

LEMMA TakeGapless ==
    ASSUME TcpTyped, TcpTyped', LinksSound, ~Disordered, NEW h \in TcpHosts, NEW k \in TcpPorts, NEW out,
           Turn(h, k, 1, out), InOrder(h, k), Gapless(h, k), Listens(h, k),
           Bytes(h, k)' = Bytes(h, k) \o link[h][1].data, tcp_sent' = tcp_sent
    PROVE  Gapless(h, k)'
<1>1. 1 \in DOMAIN link[h] /\ link[h][1].port = k
  BY DEF Turn
<1>2. PICK B \in Seq(Nat), d \in Seq(Nat), l \in Nat, m \in Nat, N \in Nat :
        /\ B = Bytes(h, k) /\ d = link[h][1].data /\ l = Len(B) /\ m = Len(d) /\ N = tcp_sent[TcpPeer(h)][k]
        /\ DOMAIN B = 1 .. l /\ DOMAIN d = 1 .. m
  <2>1. Bytes(h, k) \in Seq(Nat) /\ DOMAIN Bytes(h, k) = 1 .. Len(Bytes(h, k)) /\ Len(Bytes(h, k)) \in Nat
    BY BytesType
  <2>2. link[h][1].data \in Seq(Nat) /\ DOMAIN link[h][1].data = 1 .. Len(link[h][1].data)
          /\ Len(link[h][1].data) \in Nat
    BY <1>1, DataType
  <2>3. QED BY <2>1, <2>2, TakenBound
<1>3. \A j \in 1 .. m : d[j] = l + j
  BY <1>1, <1>2, NextBytes
<1>4. \A i \in 1 .. l : B[i] = i
  BY <1>2 DEF Gapless
<1>5. Bytes(h, k)' = B \o d
  BY <1>2
<1>6. Len(B \o d) = l + m /\ \A i \in 1 .. l + m : (B \o d)[i] = IF i <= l THEN B[i] ELSE d[i - l]
  BY <1>2, ConcatProperties
<1>7. ASSUME NEW i \in 1 .. l + m PROVE (B \o d)[i] = i
  <2>1. CASE i <= l
    BY <1>4, <1>6, <2>1
  <2>2. CASE ~(i <= l)
    <3>1. i - l \in 1 .. m /\ l + (i - l) = i
      BY <2>2
    <3>2. (B \o d)[i] = d[i - l]
      BY <1>6, <2>2
    <3>3. QED BY <1>3, <3>1, <3>2
  <2>3. QED BY <2>1, <2>2
<1>8. ASSUME NEW v \in l + m + 1 .. N PROVE Carried(h, k, v)'
  <2>1. v \in l + 1 .. N
    OBVIOUS
  <2>2. Carried(h, k, v)
    BY <1>2, <2>1 DEF Gapless
  <2>3. \A a \in DOMAIN link[h][1].data : link[h][1].data[a] # v
    <3>1. \A a \in 1 .. m : l + a # v
      OBVIOUS
    <3>2. QED BY <1>2, <1>3, <3>1
  <2>4. QED BY <2>2, <2>3, CarriedKept
<1>9. Len(Bytes(h, k)') = l + m /\ tcp_sent'[TcpPeer(h)][k] = N
  BY <1>2, <1>5, <1>6
<1>10. \A i \in 1 .. Len(Bytes(h, k)') : Bytes(h, k)'[i] = i
  BY <1>5, <1>7, <1>9
<1>11. \A v \in Len(Bytes(h, k)') + 1 .. tcp_sent'[TcpPeer(h)][k] : Carried(h, k, v)'
  BY <1>8, <1>9
<1>12. QED BY <1>10, <1>11 DEF Gapless

(* A segment that acknowledges a byte takes it from the queue. *)
LEMMA AckClears ==
    ASSUME MaxBuffer < SeqSpan \div 2, TcpTyped, NEW h \in TcpHosts, NEW k \in TcpPorts, NEW o \in 0 .. tcp_sent[h][k] - 1,
           NEW b \in o + 1 .. tcp_sent[h][k]
    PROVE  ~is_seq_before(Nth(b), Nth(o))
<1>1. PICK n \in Nat : n = tcp_sent[h][k] /\ n <= MaxBuffer
  BY TcpConstants DEF TcpTyped
<1>2. MaxBuffer \in Nat /\ SeqSpan \div 2 \in Int /\ MaxBuffer < SeqSpan \div 2
  BY TcpConstants, SpanType
<1>3. o \in Nat /\ b \in Nat /\ o < b /\ b - o < SeqSpan \div 2
  BY <1>1, <1>2
<1>4. QED BY <1>3, NthBefore

(* The first segment to reach a server in SynReceived with an ACK is taken. *)
LEMMA AckOpens ==
    ASSUME TcpTyped, LinksSound, NEW k \in TcpPorts, NEW s \in OnWay("server"), s.port = k,
           conn["server"][k].state = "SynReceived", "ACK" \in s.flags
    PROVE  s.ack = conn["server"][k].seq_num
<1>1. PICK h \in TcpHosts : h = "server"
  BY Hosts
<1>2. SegmentSound(h, s) /\ EntrySound(h, k) /\ tcp_sent[h][k] \in Nat
  BY <1>1, SentType DEF LinksSound, TcpTyped
<1>3. s.ack = Nth(0)
  BY <1>1, <1>2 DEF SegmentSound
<1>4. ~(tcp_sent[h][k] > 0)
  BY <1>1, <1>2, StateSets DEF EntrySound
<1>5. tcp_sent[h][k] = 0
  BY <1>2, <1>4
<1>6. conn[h][k].seq_num = Nth(tcp_sent[h][k])
  BY <1>1, <1>2 DEF EntrySound
<1>7. QED BY <1>1, <1>3, <1>5, <1>6

\* A segment of connection k taken by h.
Arrives(h, k, s, out) ==
    /\ Turn(h, k, 1, out) /\ Handles(h, k, s, out) /\ s = link[h][1] /\ BytesAfter(h, k, s)
    /\ InOrder(h, k) /\ Lossless(k) /\ ~Disordered

LEMMA ArrivesFacts ==
    ASSUME TcpTyped, LinksSound, NEW h \in TcpHosts, NEW k \in TcpPorts, NEW s \in Segs, NEW out, Arrives(h, k, s, out)
    PROVE  /\ Turn(h, k, 1, out) /\ s = link[h][1] /\ s \in OnWay(h) /\ s.port = k /\ SegmentSound(h, s)
           /\ tcp_sent' = tcp_sent /\ got' = got /\ Lossless(k) /\ ~Disordered
           /\ Gapless(h, k) /\ Gapless(TcpPeer(h), k) /\ Gapless(TcpPeer(h), k)'
           /\ conn'[TcpPeer(h)][k] = conn[TcpPeer(h)][k] /\ Bytes(TcpPeer(h), k)' = Bytes(TcpPeer(h), k)
           /\ EntrySound(h, k) /\ EndsSound(k)
           /\ \A g : Taken(g, k, h, k, 1) => g = h
<1>1. /\ Turn(h, k, 1, out) /\ s = link[h][1] /\ s \in OnWay(h) /\ s.port = k
      /\ tcp_sent' = tcp_sent /\ got' = got /\ Lossless(k) /\ ~Disordered
  BY DEF Arrives, Handles
<1>2. SegmentSound(h, s) /\ EntrySound(h, k) /\ EndsSound(k)
  BY <1>1 DEF LinksSound
<1>3. TcpPeer(h) \in TcpHosts /\ TcpPeer(h) # h
  BY Hosts
<1>4. conn'[TcpPeer(h)][k] = conn[TcpPeer(h)][k] /\ Bytes(TcpPeer(h), k)' = Bytes(TcpPeer(h), k)
  BY <1>1, <1>3, OtherBytes DEF Turn, Local
<1>5. Gapless(h, k) /\ Gapless(TcpPeer(h), k)
  BY <1>1, <1>3 DEF Lossless
<1>6. Gapless(TcpPeer(h), k)'
  BY <1>1, PeerGapless
<1>7. \A g : Taken(g, k, h, k, 1) => g = h
  BY DEF Taken
<1>8. QED BY <1>1, <1>2, <1>4, <1>5, <1>6, <1>7

(* The bare ACK stays on its way while the client takes segments. *)
LEMMA ClientBare ==
    ASSUME TcpTyped, TcpTyped', LinksSound, NEW k \in TcpPorts, NEW s \in Segs, NEW out,
           NEW h \in TcpHosts, h = "client", Arrives(h, k, s, out), conn[h][k].state \in Open
    PROVE  HandshakeBare(k)'
<1>1. conn'["server"][k] = conn["server"][k]
  BY ArrivesFacts, Hosts
<1>2. ~Taken("server", k, h, k, 1)
  BY DEF Taken
<1>3. HandshakeBare(k) /\ Turn(h, k, 1, out) /\ ~Disordered
  BY ArrivesFacts DEF Lossless
<1>4. ASSUME BareAck(k) PROVE BareAck(k)'
  BY <1>2, <1>3, <1>4, BareKept
<1>5. QED BY <1>1, <1>3, <1>4 DEF HandshakeBare

LEMMA KnownIgnores ==
    ASSUME TcpTyped, TcpTyped', LinksSound, NEW h \in TcpHosts, NEW k \in TcpPorts, NEW s \in Segs, NEW out,
           Arrives(h, k, s, out), Ignores(conn[h][k], s, conn'[h][k])
    PROVE  Lossless(k)'
<1> DEFINE c == conn[h][k]
           g == TcpPeer(h)
<1>1. /\ conn'[h][k] = c /\ c.state # "Established"
      /\ c.state = "SynReceived" => ~("ACK" \in s.flags /\ s.ack = c.seq_num)
  BY DEF Ignores
<1>2. Bytes(h, k)' = Bytes(h, k) /\ tcp_sent' = tcp_sent /\ got' = got
  BY <1>1, ArrivesFacts DEF Bytes
<1>3. g \in TcpHosts /\ TcpPeer(g) = h /\ g # h
  BY Hosts
<1>4. c.state = "SynReceived" => h = "server" /\ "ACK" \notin s.flags /\ s.data = <<>>
  <2>1. ASSUME c.state = "SynReceived" PROVE h = "server" /\ "ACK" \notin s.flags
    <3>1. h = "server" /\ s \in OnWay(h) /\ s.port = k
      BY <2>1, ArrivesFacts DEF EntrySound
    <3>2. QED BY <1>1, <2>1, <3>1, AckOpens
  <2>2. s.data # <<>> => "ACK" \in s.flags
    <3>1. SegmentSound(h, s)
      BY ArrivesFacts
    <3>2. QED BY <3>1 DEF SegmentSound
  <2>3. QED BY <2>1, <2>2
<1>5. c.state = "SynSent" => s.data = <<>>
  <2>1. ASSUME c.state = "SynSent" PROVE s.data = <<>>
    <3>1. h = "client" /\ EndsSound(k) /\ SegmentSound(h, s) /\ s.port = k
      BY <2>1, ArrivesFacts DEF EntrySound
    <3>2. ~(tcp_sent[TcpPeer(h)][s.port] > 0)
      BY <2>1, <3>1, Hosts, StateSets DEF EndsSound
    <3>3. QED BY <3>1, <3>2, NoData
  <2>2. QED BY <2>1
<1>6. Gapless(h, k)'
  <2>1. Listens(h, k)' => Listens(h, k) /\ link[h][1].data = <<>>
    <3>1. s = link[h][1]
      BY ArrivesFacts
    <3>2. QED BY <1>1, <1>4, <1>5, <3>1 DEF Listens
  <2>2. Gapless(h, k) /\ Turn(h, k, 1, out) /\ ~Disordered
    BY ArrivesFacts
  <2>3. QED BY <1>2, <2>1, <2>2, GaplessKept
<1>7. Gapless(g, k)' /\ conn'[g][k] = conn[g][k]
  BY ArrivesFacts
<1>8. HandshakeBare(k)'
  <2>1. CASE h = "client" /\ c.state \in Open
    BY <2>1, ClientBare
  <2>2. CASE h = "client" /\ c.state \notin Open
    BY <1>1, <2>2 DEF HandshakeBare
  <2>3. CASE h = "server" /\ c.state # "SynReceived"
    BY <1>1, <2>3 DEF HandshakeBare
  <2>4. CASE h = "server" /\ c.state = "SynReceived"
    <3>1. "ACK" \notin link[h][1].flags /\ Turn(h, k, 1, out) /\ ~Disordered /\ HandshakeBare(k)
      BY <1>4, <2>4, ArrivesFacts DEF Lossless
    <3>2. ASSUME BareAck(k) PROVE BareAck(k)'
      BY <3>1, <3>2, BareKept
    <3>3. conn'["client"][k] = conn["client"][k]
      BY <1>7, <2>4, Hosts
    <3>4. QED BY <1>1, <2>4, <3>1, <3>2, <3>3 DEF HandshakeBare
  <2>5. QED BY <2>1, <2>2, <2>3, <2>4, Hosts
<1>9. QueueSound(h, k)'
  BY <1>1 DEF QueueSound
<1>10. QueueSound(g, k)'
  <2>1. Turn(h, k, 1, out) /\ ~Disordered /\ ~Taken(g, k, h, k, 1) /\ QueueSound(g, k)
    BY <1>3, ArrivesFacts DEF Lossless
  <2>2. ASSUME NEW q, Outstanding(g, k, q) PROVE Outstanding(g, k, q)'
    BY <1>2, <1>3, <2>1, <2>2, OutstandingKept
  <2>3. QED BY <1>1, <1>3, <1>7, <2>1, <2>2 DEF QueueSound
<1>11. QED BY <1>6, <1>7, <1>8, <1>9, <1>10, BothLossless

LEMMA KnownEnding ==
    ASSUME TcpTyped, TcpTyped', LinksSound, NEW h \in TcpHosts, NEW k \in TcpPorts, NEW s \in Segs, NEW out,
           Arrives(h, k, s, out), Resets(conn[h][k], s, conn'[h][k]) \/ Ends(conn[h][k], s, conn'[h][k])
    PROVE  Lossless(k)'
<1>1. /\ conn'[h][k].state \in Late \ {"Established"}
      /\ conn'[h][k].state = "Closed" \/ conn[h][k].state \in Open
  BY StateSets DEF Resets, Ends
<1>2. conn'[h][k].state \notin {"SynSent", "SynReceived", "Established"}
  BY <1>1, StateSets
<1>3. \A a \in DOMAIN Bytes(h, k)' : a \in DOMAIN Bytes(h, k) /\ Bytes(h, k)'[a] = Bytes(h, k)[a]
  <2>1. Bytes(h, k)' = Bytes(h, k) \/ Bytes(h, k)' = got[h][k]
    BY <1>2 DEF Arrives, BytesAfter
  <2>2. got[h][k] \in Seq(Nat) /\ conn[h][k].recv_buffer \in Seq(Nat)
    BY EntryType
  <2>3. \A a \in DOMAIN got[h][k] : a \in DOMAIN Bytes(h, k) /\ Bytes(h, k)[a] = got[h][k][a]
    BY <2>2, Prefixed DEF Bytes
  <2>4. QED BY <2>1, <2>3
<1>4. Gapless(h, k)'
  <2>1. Gapless(h, k)
    BY ArrivesFacts
  <2>2. QED BY <1>2, <1>3, <2>1, DeafGapless
<1>5. Gapless(TcpPeer(h), k)'
  BY ArrivesFacts
<1>6. QueueSound(h, k)' /\ QueueSound(TcpPeer(h), k)'
  BY <1>2, QueuesIdle
<1>7. HandshakeBare(k)'
  <2>1. CASE h = "server"
    BY <1>2, <2>1 DEF HandshakeBare
  <2>2. CASE h = "client" /\ conn[h][k].state \in Open
    BY <2>2, ClientBare
  <2>3. CASE h = "client" /\ conn'[h][k].state = "Closed"
    BY <2>3, StateSets DEF HandshakeBare
  <2>4. QED BY <1>1, <2>1, <2>2, <2>3, Hosts
<1>8. QED BY <1>4, <1>5, <1>6, <1>7, BothLossless

LEMMA KnownOpens ==
    ASSUME TcpTyped, TcpTyped', LinksSound, NEW h \in TcpHosts, NEW k \in TcpPorts, NEW s \in Segs, NEW out,
           Arrives(h, k, s, out), Opens(conn[h][k], s, conn'[h][k]), out = <<Ack(k, conn'[h][k])>>
    PROVE  Lossless(k)'
<1> DEFINE d == conn'[h][k]
<1>1. conn[h][k].state = "SynSent" /\ d.state = "Established" /\ d.retransmit_queue = {}
  BY DEF Opens
<1>2. h = "client" /\ TcpPeer(h) = "server" /\ TcpPeer(TcpPeer(h)) = h /\ TcpPeer(h) \in TcpHosts
  BY <1>1, ArrivesFacts, Hosts DEF EntrySound
<1>3. tcp_sent[h][k] = 0 /\ tcp_sent["server"][k] = 0 /\ conn["server"][k].state \notin Open
  <2>1. EntrySound(h, k) /\ EndsSound(k) /\ tcp_sent[h][k] \in Nat /\ tcp_sent["server"][k] \in Nat
    BY <1>2, ArrivesFacts, SentType DEF TcpTyped
  <2>2. ~(tcp_sent[h][k] > 0) /\ ~(tcp_sent["server"][k] > 0) /\ conn["server"][k].state \notin Open
    BY <1>1, <1>2, <2>1, StateSets DEF EntrySound, EndsSound
  <2>3. QED BY <2>1, <2>2
<1>4. tcp_sent' = tcp_sent /\ conn'["server"][k] = conn["server"][k]
  BY <1>2, ArrivesFacts
<1>5. Bytes(h, k)' = <<>>
  <2>1. ~(tcp_sent[TcpPeer(h)][s.port] > 0) /\ SegmentSound(h, s)
    BY <1>2, <1>3, ArrivesFacts
  <2>2. s.data = <<>>
    BY <2>1, NoData
  <2>3. Bytes(h, k) = <<>>
    BY <1>1, ArrivesFacts DEF EntrySound
  <2>4. Bytes(h, k)' = Bytes(h, k) \o s.data
    BY <1>1 DEF Arrives, BytesAfter
  <2>5. <<>> \o <<>> = <<>>
    BY EmptySeq, ConcatEmptySeq
  <2>6. QED BY <2>2, <2>3, <2>4, <2>5
<1>6. Gapless(h, k)'
  BY <1>2, <1>3, <1>4, <1>5, EmptyGapless
<1>7. Gapless(TcpPeer(h), k)'
  BY ArrivesFacts
<1>8. QueueSound(h, k)'
  BY <1>1 DEF QueueSound
<1>9. QueueSound(TcpPeer(h), k)'
  BY <1>2, <1>3, <1>4, StateSets DEF QueueSound
<1>10. BareAck(k)'
  <2>1. PICK x : x = Ack(k, d) /\ x.port = k /\ x.data = <<>> /\ x.flags = {"ACK"}
    BY SegmentFields DEF Ack
  <2>2. 1 \in DOMAIN out /\ out[1] = x
    BY <2>1
  <2>3. PICK g \in TcpHosts : g = "server" /\ Moves(g, 0, out) /\ ~Disordered /\ TcpPeer(g) = h
    BY <1>2, Hosts, ArrivesFacts DEF Turn
  <2>4. DOMAIN link[g] = 1 .. Len(link[g]) /\ Len(link[g]) \in Nat
    BY <2>3, LinkSeq
  <2>5. PICK i \in DOMAIN link'[g] : link'[g][i] = x
    BY <2>2, <2>3 DEF Moves
  <2>6. ASSUME NEW j \in 1 .. i, link'[g][j].port = k PROVE link'[g][j].data = <<>>
    <3>1. link'[g] \in Seq(Segs) /\ DOMAIN link'[g] = 1 .. Len(link'[g]) /\ Len(link'[g]) \in Nat
      <4>1. tcp_use' = tcp_use
        BY ArrivesFacts DEF Turn
      <4>2. link'[g] \in Seq(Segs)
        BY <2>3, <4>1 DEF TcpTyped, Disordered
      <4>3. QED BY <4>2, LenProperties
    <3>2. j \in DOMAIN link'[g] /\ j + 0 = j
      BY <2>5, <3>1
    <3>3. CASE j \in DOMAIN link[g] /\ link'[g][j] = link[g][j]
      <4>1. link[g][j] \in Segs /\ link[g][j] \in OnWay(g)
        BY <2>3, <3>3, DataType
      <4>2. SegmentSound(g, link[g][j]) /\ link[g][j].port = k
        BY <2>6, <3>3, <4>1 DEF LinksSound
      <4>3. ~(tcp_sent[TcpPeer(g)][link[g][j].port] > 0)
        BY <1>3, <2>3, <4>2
      <4>4. link[g][j].data = <<>>
        BY <4>1, <4>2, <4>3, NoData
      <4>5. QED BY <3>3, <4>4
    <3>4. CASE \E y \in DOMAIN out : link'[g][j] = out[y]
      <4>1. DOMAIN out = {1}
        BY <2>1
      <4>2. QED BY <2>1, <2>2, <3>4, <4>1
    <3>5. QED BY <2>3, <3>2, <3>3, <3>4 DEF Moves
  <2>7. QED BY <2>1, <2>3, <2>5, <2>6 DEF BareAck
<1>11. HandshakeBare(k)'
  BY <1>10 DEF HandshakeBare
<1>12. QED BY <1>6, <1>7, <1>8, <1>9, <1>11, BothLossless

LEMMA KnownAccepts ==
    ASSUME TcpTyped, TcpTyped', LinksSound, NEW h \in TcpHosts, NEW k \in TcpPorts, NEW s \in Segs, NEW out,
           Arrives(h, k, s, out), Accepts(conn[h][k], s, conn'[h][k])
    PROVE  Lossless(k)'
<1> DEFINE g == TcpPeer(h)
<1>1. conn[h][k].state = "SynReceived" /\ conn'[h][k].state = "Established" /\ conn'[h][k].retransmit_queue = {}
  BY DEF Accepts, Takes
<1>2. h = "server" /\ g = "client" /\ TcpPeer(g) = h /\ g \in TcpHosts /\ g # h
  BY <1>1, ArrivesFacts, Hosts DEF EntrySound
<1>3. Bytes(h, k)' = Bytes(h, k) \o link[h][1].data /\ InOrder(h, k)
  BY <1>1 DEF Arrives, BytesAfter
<1>4. Turn(h, k, 1, out) /\ Gapless(h, k) /\ Gapless(g, k)' /\ ~Disordered /\ tcp_sent' = tcp_sent
        /\ conn'[g][k] = conn[g][k]
  BY ArrivesFacts
<1>5. Gapless(h, k)'
  <2>1. Listens(h, k)
    BY <1>1 DEF Listens
  <2>2. QED BY <1>3, <1>4, <2>1, TakeGapless
<1>6. HandshakeBare(k)'
  BY <1>1, <1>2 DEF HandshakeBare
<1>7. QueueSound(h, k)'
  BY <1>1 DEF QueueSound
<1>8. QueueSound(g, k)'
  <2> SUFFICES ASSUME MaxBuffer < SeqSpan \div 2, conn'[g][k].state = "Established", NEW q \in conn'[g][k].retransmit_queue
               PROVE  Outstanding(g, k, q)'
    BY DEF QueueSound
  <2>1. Outstanding(g, k, q)
    <3>1. QueueSound(g, k)
      BY <1>2, ArrivesFacts DEF Lossless
    <3>2. QED BY <1>1, <1>2, <1>4, <3>1 DEF QueueSound
  <2>2. BareAck(k)
    <3>1. HandshakeBare(k) /\ conn["client"][k].state \in Open
      BY <1>2, <1>4, ArrivesFacts, StateSets DEF Lossless
    <3>2. QED BY <1>1, <1>2, <3>1 DEF HandshakeBare
  <2>3. link[h][1].data = <<>>
    <3>1. PICK i \in DOMAIN link[h] : \A j \in 1 .. i : link[h][j].port = k => link[h][j].data = <<>>
      BY <1>2, <2>2 DEF BareAck
    <3>2. 1 \in 1 .. i
      BY <1>4, LinkSeq
    <3>3. link[h][1].port = k
      BY ArrivesFacts
    <3>4. QED BY <3>1, <3>2, <3>3
  <2>4. Bytes(h, k)' = Bytes(h, k)
    <3>1. Bytes(h, k) \in Seq(Nat)
      BY BytesType
    <3>2. QED BY <1>3, <2>3, <3>1, ConcatEmptySeq
  <2>5. ~Taken(g, k, h, k, 1)
    BY <1>2 DEF Taken
  <2>6. QED BY <1>2, <1>4, <2>1, <2>4, <2>5, OutstandingKept
<1>9. QED BY <1>4, <1>5, <1>6, <1>7, <1>8, BothLossless

LEMMA KnownContinues ==
    ASSUME TcpTyped, TcpTyped', LinksSound, LinksSound', NEW h \in TcpHosts, NEW k \in TcpPorts,
           NEW s \in Segs, NEW out, Arrives(h, k, s, out), Continues(conn[h][k], s, conn'[h][k]),
           s.data # <<>> => out = <<Ack(k, conn'[h][k])>>
    PROVE  Lossless(k)'
<1> DEFINE g == TcpPeer(h)
           d == conn'[h][k]
<1>1. /\ conn[h][k].state = "Established" /\ d.state = "Established"
      /\ d.retransmit_queue \subseteq conn[h][k].retransmit_queue
      /\ "ACK" \in s.flags => \A q \in d.retransmit_queue : is_seq_before(s.ack, q)
  BY DEF Continues, Takes
<1>2. TcpPeer(g) = h /\ g \in TcpHosts /\ g # h
  BY Hosts
<1>3. Bytes(h, k)' = Bytes(h, k) \o link[h][1].data /\ InOrder(h, k) /\ s = link[h][1]
  BY <1>1 DEF Arrives, BytesAfter
<1>4. Turn(h, k, 1, out) /\ Gapless(h, k) /\ Gapless(g, k)' /\ ~Disordered /\ tcp_sent' = tcp_sent
        /\ conn'[g][k] = conn[g][k] /\ Bytes(g, k)' = Bytes(g, k)
  BY ArrivesFacts
<1>5. Gapless(h, k)'
  <2>1. Listens(h, k)
    BY <1>1 DEF Listens
  <2>2. QED BY <1>3, <1>4, <2>1, TakeGapless
<1>6. HandshakeBare(k)'
  <2>1. CASE h = "server"
    BY <1>1, <2>1 DEF HandshakeBare
  <2>2. CASE h = "client"
    BY <1>1, <2>2, ClientBare, StateSets
  <2>3. QED BY <2>1, <2>2, Hosts
<1>7. QueueSound(h, k)'
  <2> SUFFICES ASSUME MaxBuffer < SeqSpan \div 2, conn'[g][k].state \in {"SynReceived", "Established"}, NEW q \in d.retransmit_queue
               PROVE  Outstanding(h, k, q)'
    BY DEF QueueSound
  <2>1. Outstanding(h, k, q)
    <3>1. QueueSound(h, k)
      BY ArrivesFacts DEF Lossless
    <3>2. QED BY <1>1, <1>4, <3>1 DEF QueueSound
  <2>2. PICK o \in 0 .. tcp_sent[h][k] - 1 : q = Nth(o) /\ (o >= Len(Bytes(g, k)) \/ AckOnWay(h, k, o))
    BY <2>1 DEF Outstanding
  <2>3. ASSUME AckOnWay(h, k, o) PROVE AckOnWay(h, k, o)'
    <3>1. CASE "ACK" \in link[h][1].flags /\ \E b \in o + 1 .. tcp_sent[h][k] : link[h][1].ack = Nth(b)
      <4>1. PICK b \in o + 1 .. tcp_sent[h][k] : s.ack = Nth(b) /\ "ACK" \in s.flags
        BY <1>3, <3>1
      <4>2. is_seq_before(Nth(b), Nth(o))
        BY <1>1, <2>2, <4>1
      <4>3. ~is_seq_before(Nth(b), Nth(o))
        BY AckClears
      <4>4. QED BY <4>2, <4>3
    <3>2. QED BY <1>4, <2>3, <3>1, AckKept
  <2>4. QED BY <1>4, <2>2, <2>3 DEF Outstanding, Nth
<1>8. QueueSound(g, k)'
  <2> SUFFICES ASSUME MaxBuffer < SeqSpan \div 2, conn'[g][k].state = "Established", NEW q \in conn'[g][k].retransmit_queue
               PROVE  Outstanding(g, k, q)'
    BY DEF QueueSound
  <2>1. Outstanding(g, k, q)
    <3>1. QueueSound(g, k)
      BY <1>2, ArrivesFacts DEF Lossless
    <3>2. QED BY <1>1, <1>2, <1>4, <3>1 DEF QueueSound
  <2>2. PICK o \in 0 .. tcp_sent[g][k] - 1 : q = Nth(o) /\ (o >= Len(Bytes(h, k)) \/ AckOnWay(g, k, o))
    BY <1>2, <2>1 DEF Outstanding
  <2>3. ASSUME AckOnWay(g, k, o) PROVE AckOnWay(g, k, o)'
    <3>1. ~Taken(g, k, h, k, 1)
      BY <1>2 DEF Taken
    <3>2. QED BY <1>2, <1>4, <2>3, <3>1, AckKept
  <2>4. ASSUME o >= Len(Bytes(h, k)), ~(o >= Len(Bytes(h, k)')) PROVE AckOnWay(g, k, o)'
    <3>1. s.data # <<>>
      <4>1. ASSUME s.data = <<>> PROVE FALSE
        <5>1. Bytes(h, k)' = Bytes(h, k)
          BY <1>3, <4>1, BytesType, ConcatEmptySeq
        <5>2. QED BY <2>4, <5>1
      <4>2. QED BY <4>1
    <3>2. PICK x : x = Ack(k, d) /\ x.port = k /\ x.flags = {"ACK"} /\ x.ack = d.ack_num /\ out = <<x>>
      BY <3>1, SegmentFields DEF Ack
    <3>3. 1 \in DOMAIN out /\ out[1] = x
      BY <3>2
    <3>4. PICK i \in DOMAIN link'[g] : link'[g][i] = x
      BY <1>4, <3>3 DEF Turn, Moves
    <3>5. EntrySound(h, k)'
      BY DEF LinksSound
    <3>6. d.ack_num = Nth(Len(Bytes(h, k)))'
      BY <1>1, <3>5 DEF EntrySound
    <3>7. PICK B \in Seq(Nat), N \in Nat : B = Bytes(h, k)' /\ N = tcp_sent'[g][k]
      <4>1. got'[h][k] \in Seq(Nat) /\ conn'[h][k].recv_buffer \in Seq(Nat)
        BY DEF TcpTyped, TcpConnection
      <4>2. Bytes(h, k)' \in Seq(Nat)
        BY <4>1, ConcatProperties DEF Bytes
      <4>3. tcp_sent'[g][k] \in Nat
        BY <1>2, <1>4, SentType DEF TcpTyped
      <4>4. QED BY <4>2, <4>3
    <3>8. \A j \in 1 .. Len(B) : B[j] = j
      BY <1>5, <3>7 DEF Gapless
    <3>9. \A j \in 1 .. Len(B) : B[j] \in 1 .. N
      BY <3>5, <3>7 DEF EntrySound
    <3>10. Len(B) <= N /\ Len(B) \in Nat
      BY <3>8, <3>9, SeqBound
    <3>11. PICK b \in Nat : b = Len(B) /\ b <= N
      BY <3>10
    <3>12. b \in o + 1 .. tcp_sent'[g][k]
      <4>1. o \in Nat /\ ~(o >= b)
        <5>1. tcp_sent[g][k] \in Nat
          BY <1>2, SentType DEF TcpTyped
        <5>2. QED BY <2>2, <2>4, <3>7, <3>11, <5>1
      <4>2. b \in o + 1 .. N
        BY ONLY <3>11, <4>1, b \in Nat, N \in Nat
      <4>3. QED BY <3>7, <4>2
    <3>13. x.ack = Nth(b)'
      BY <3>2, <3>6, <3>7, <3>11 DEF Nth
    <3>14. QED BY <3>2, <3>4, <3>12, <3>13 DEF AckOnWay
  <2>5. o \in 0 .. tcp_sent'[g][k] - 1 /\ q = Nth(o)'
    BY <1>4, <2>2 DEF Nth
  <2>6. o >= Len(Bytes(h, k)') \/ AckOnWay(g, k, o)'
    BY <2>2, <2>3, <2>4
  <2>7. QED BY <1>2, <2>5, <2>6 DEF Outstanding
<1>9. QED BY <1>4, <1>5, <1>6, <1>7, <1>8, BothLossless

LEMMA KnownLossless ==
    ASSUME TcpTyped, TcpTyped', LinksSound, LinksSound', NEW h \in TcpHosts, NEW k \in TcpPorts,
           NEW s \in Segs, NEW out, Arrives(h, k, s, out)
    PROVE  Lossless(k)'
<1>1. HandledAs(k, conn[h][k], s, conn'[h][k], out)
  BY DEF Arrives, Handles
<1>2. QED BY <1>1, KnownIgnores, KnownEnding, KnownOpens, KnownAccepts, KnownContinues DEF HandledAs

(* Everything written arrives: the induction step. *)
LEMMA LosslessTurn ==
    ASSUME TcpTyped, TcpTyped', ~Disordered, NothingLost, Orderly, NEW h \in TcpHosts, NEW k \in TcpPorts,
           NEW e, NEW out, Turn(h, k, e, out), Lossless(k)'
    PROVE  NothingLost'
<1>1. ASSUME NEW j \in TcpPorts PROVE Lossless(j)'
  <2>1. CASE j = k
    BY <2>1
  <2>2. CASE j # k
    <3>1. Lossless(j)
      BY DEF NothingLost, Lossless
    <3>2. QED BY <2>2, <3>1, LosslessOthers
  <2>3. QED BY <2>1, <2>2
<1>2. QED BY <1>1 DEF NothingLost, Lossless

LEMMA NothingLostNext ==
    ASSUME TcpTyped, TcpTyped', LinksSound, LinksSound', StreamsInOrder, NothingLost, [TcpNext]_tcp_vars
    PROVE  NothingLost'
<1>1. CASE ~Orderly
  <2>1. ~Orderly'
    BY <1>1, UseFixed DEF Orderly
  <2>2. QED BY <2>1 DEF NothingLost
<1>2. CASE Orderly
  <2>1. ~Disordered
    BY <1>2 DEF Orderly, Disordered
  <2>2. ASSUME NEW j \in TcpPorts PROVE Lossless(j)
    BY <1>2 DEF NothingLost, Lossless
  <2>3. ASSUME NEW h \in TcpHosts, NEW k \in TcpPorts, NEW e, NEW out, Turn(h, k, e, out), Lossless(k)'
        PROVE  NothingLost'
    BY <1>2, <2>1, <2>3, LosslessTurn
  <2>4. ASSUME NEW h \in TcpHosts, handle_known(h) PROVE NothingLost'
    <3>1. PICK s \in Segs, k \in TcpPorts, out \in Seq(Segs) :
            Turn(h, k, 1, out) /\ Handles(h, k, s, out) /\ s = link[h][1] /\ BytesAfter(h, k, s)
      BY <2>1, <2>4, KnownTurn
    <3>2. InOrder(h, k) /\ Lossless(k)
      BY <2>1, <2>2 DEF StreamsInOrder
    <3>3. Arrives(h, k, s, out)
      BY <2>1, <3>1, <3>2 DEF Arrives
    <3>4. Lossless(k)'
      BY <3>3, KnownLossless
    <3>5. QED BY <2>3, <3>1, <3>4
  <2>5. ASSUME NEW h \in TcpHosts, handle_syn(h) PROVE NothingLost'
    <3>1. PICK k \in TcpPorts, x \in Segs, out \in Seq(Segs) : Turn(h, k, 1, out) /\ Offers(h, k, x)
      BY <2>1, <2>5, SynTurn
    <3>2. Lossless(k)'
      BY <2>1, <2>2, <3>1, SynLossless
    <3>3. QED BY <2>3, <3>1, <3>2
  <2>6. ASSUME NEW h \in TcpHosts, handle_unknown(h) PROVE NothingLost'
    <3>1. PICK k \in TcpPorts, out \in Seq(Segs) : Turn(h, k, 1, out) /\ Still /\ conn[h][k].state = "Absent"
      BY <2>1, <2>6, UnknownTurn
    <3>2. Lossless(k)'
      BY <2>1, <2>2, <3>1, UnknownLossless
    <3>3. QED BY <2>3, <3>1, <3>2
  <2>7. ASSUME NEW h \in TcpHosts, lose(h) PROVE NothingLost'
    BY <1>2, <2>7, LoseTurn
  <2>8. CASE \E h \in TcpHosts : handle_tcp_packet(h) \/ lose(h)
    BY <2>4, <2>5, <2>6, <2>7, <2>8 DEF handle_tcp_packet
  <2>9. ASSUME NEW k \in TcpPorts, sys_connect(k) PROVE NothingLost'
    <3>1. PICK h \in TcpHosts, x \in Segs, out \in Seq(Segs) : Turn(h, k, 0, out) /\ Calls(h, k, x)
      BY <2>1, <2>9, ConnectTurn
    <3>2. Lossless(k)'
      BY <2>1, <2>2, <3>1, ConnectLossless
    <3>3. QED BY <2>3, <3>1, <3>2
  <2>10. ASSUME NEW h \in TcpHosts, NEW k \in TcpPorts, NEW n \in 1 .. MaxBuffer, sys_sendto(h, k, n) PROVE NothingLost'
    <3>1. PICK m \in 1 .. n, out \in Seq(Segs) : Turn(h, k, 0, out) /\ Wrote(h, k, n, m, out)
      BY <2>1, <2>10, SendTurn
    <3>2. Lossless(k)'
      BY <2>1, <2>2, <3>1, SendLossless
    <3>3. QED BY <2>3, <3>1, <3>2
  <2>11. ASSUME NEW h \in TcpHosts, NEW k \in TcpPorts, NEW n \in 1 .. MaxBuffer, sys_recvfrom(h, k, n) PROVE NothingLost'
    <3>1. PICK out \in Seq(Segs) : Turn(h, k, 0, out)
      BY <2>1, <2>11, ReceiveTurn
    <3>2. Lossless(k)'
      BY <2>1, <2>2, <2>11, <3>1, ReceiveLossless
    <3>3. QED BY <2>3, <3>1, <3>2
  <2>12. ASSUME NEW h \in TcpHosts, NEW k \in TcpPorts, sys_close_sock(h, k) PROVE NothingLost'
    <3>1. PICK out \in Seq(Segs) : Turn(h, k, 0, out) /\ Shuts(h, k, out) /\ Bytes(h, k)' = Bytes(h, k)
      BY <2>1, <2>12, CloseTurn
    <3>2. Lossless(k)'
      BY <2>1, <2>2, <3>1, CloseLossless
    <3>3. QED BY <2>3, <3>1, <3>2
  <2>13. CASE sys_listen \/ close_listener \/ sys_accept \/ UNCHANGED tcp_vars
    <3>1. UNCHANGED <<conn, link, tcp_sent, got, tcp_use>>
      BY <2>13, CallsAside
    <3>2. ASSUME NEW h \in TcpHosts, NEW k \in TcpPorts
          PROVE  Gapless(h, k)' /\ HandshakeBare(k)' /\ QueueSound(h, k)'
      <4>1. Gapless(h, k) /\ HandshakeBare(k) /\ QueueSound(h, k)
        BY <2>2 DEF Lossless
      <4>2. \A g : Bytes(g, k)' = Bytes(g, k)
        BY <3>1 DEF Bytes
      <4>3. Gapless(h, k)'
        BY <3>1, <4>1, <4>2 DEF Gapless, Listens, Carried
      <4>4. HandshakeBare(k)'
        BY <3>1, <4>1 DEF HandshakeBare, BareAck
      <4>5. QueueSound(h, k)'
        BY <3>1, <4>1, <4>2 DEF QueueSound, Outstanding, AckOnWay, Nth
      <4>6. QED BY <4>3, <4>4, <4>5
    <3>3. QED BY <3>2, Hosts DEF NothingLost
  <2>14. QED BY <2>8, <2>9, <2>10, <2>11, <2>12, <2>13 DEF TcpNext
<1>3. QED BY <1>1, <1>2

LEMMA NothingLostInit == ASSUME TcpInit PROVE NothingLost
<1> SUFFICES ASSUME Orderly PROVE NothingLost
  BY DEF NothingLost
<1>1. \A h \in TcpHosts, k \in TcpPorts : conn[h][k].state = "Absent"
  BY StartEmpty
<1>2. ASSUME NEW h \in TcpHosts, NEW k \in TcpPorts PROVE Gapless(h, k)
  <2>1. 1 .. Len(Bytes(h, k)) = {} /\ ~Listens(h, k)
    BY <1>1, StartEmpty DEF Listens
  <2>2. QED BY <2>1 DEF Gapless
<1>3. ASSUME NEW k \in TcpPorts PROVE HandshakeBare(k)
  BY <1>1, Hosts DEF HandshakeBare
<1>4. ASSUME NEW h \in TcpHosts, NEW k \in TcpPorts PROVE QueueSound(h, k)
  BY <1>1 DEF QueueSound
<1>5. QED BY <1>2, <1>3, <1>4 DEF NothingLost

(* --------------------------------------------------------------- theorems *)

\* The inductive invariant.
TcpInv == TcpTyped /\ LinksSound /\ AcceptSound /\ StreamsInOrder /\ NothingLost

LEMMA TcpInvHolds == TcpSpec => []TcpInv
<1>1. TcpInit => TcpInv
  BY LinksInit, AcceptInit, StreamsInit, NothingLostInit DEF TcpInv
<1>2. TcpInv /\ [TcpNext]_tcp_vars => TcpInv'
  <2> SUFFICES ASSUME TcpInv, [TcpNext]_tcp_vars PROVE TcpInv'
    OBVIOUS
  <2>1. TcpTyped /\ LinksSound /\ AcceptSound /\ StreamsInOrder /\ NothingLost
    BY DEF TcpInv
  <2>2. TcpTyped' /\ LinksSound'
    BY <2>1, LinksNext
  <2>3. QED BY <2>1, <2>2, AcceptNext, StreamsNext, NothingLostNext DEF TcpInv
<1>3. QED BY <1>1, <1>2, PTL DEF TcpSpec

LEMMA TypeFromInv == ASSUME TcpTyped, AcceptSound PROVE TcpTypeOK
<1>1. \A h \in TcpHosts, k \in TcpPorts : conn[h][k] \in TcpConnection /\ got[h][k] \in Seq(Nat)
  BY DEF TcpTyped
<1>2. \A k \in Range(pending) : ~Free("server", k)
  BY DEF AcceptSound, Range
<1>3. QED BY <1>1, <1>2 DEF TcpTypeOK, TcpTyped

LEMMA ReadsFromInv == ASSUME TcpInv PROVE ReadsWhatWasWritten
<1> SUFFICES ASSUME NEW h \in TcpHosts, NEW k \in TcpPorts
             PROVE  /\ \A i \in 1 .. Len(Bytes(h, k)) : Bytes(h, k)[i] \in 1 .. tcp_sent[TcpPeer(h)][k]
                    /\ ~Disordered => \A i \in 1 .. Len(Bytes(h, k)) - 1 : Bytes(h, k)[i] < Bytes(h, k)[i + 1]
                    /\ Orderly => \A i \in 1 .. Len(Bytes(h, k)) : Bytes(h, k)[i] = i
  BY DEF ReadsWhatWasWritten
<1>1. EntrySound(h, k) /\ (~Disordered => InOrder(h, k)) /\ (Orderly => Gapless(h, k))
  BY DEF TcpInv, LinksSound, StreamsInOrder, NothingLost
<1>2. QED BY <1>1 DEF EntrySound, InOrder, Gapless

LEMMA OpensFromInv == ASSUME LinksSound PROVE OpensTogether
  BY DEF LinksSound, EndsSound, OpensTogether, Late

(* When all is quiet, all is done. *)
LEMMA SettledFromInv == ASSUME MaxBuffer < SeqSpan \div 2, TcpInv PROVE Settled
<1> SUFFICES ASSUME NEW h \in TcpHosts, NEW k \in TcpPorts, Orderly,
                    \A g \in TcpHosts : conn[g][k].state = "Established" /\ ~InFlight(g, k)
             PROVE  /\ conn[h][k].ack_num = conn[TcpPeer(h)][k].seq_num
                    /\ conn[h][k].retransmit_queue = {}
                    /\ Len(Bytes(h, k)) = tcp_sent[TcpPeer(h)][k]
  BY DEF Settled
<1>1. TcpTyped /\ LinksSound /\ ~Disordered
  BY DEF TcpInv, Orderly, Disordered
<1>2. ASSUME NEW g \in TcpHosts, NEW i \in DOMAIN link[g] PROVE link[g][i].port # k
  <2>1. DOMAIN link[g] = 1 .. Len(link[g])
    BY <1>1, LinkSeq
  <2>2. QED BY <2>1 DEF InFlight
<1>3. ASSUME NEW g \in TcpHosts PROVE Len(Bytes(g, k)) = tcp_sent[TcpPeer(g)][k] /\ Len(Bytes(g, k)) \in Nat
  <2>1. Gapless(g, k)
    BY DEF TcpInv, NothingLost
  <2>2. Listens(g, k)
    BY DEF Listens
  <2>3. \A v \in Len(Bytes(g, k)) + 1 .. tcp_sent[TcpPeer(g)][k] : FALSE
    BY <1>2, <2>1, <2>2 DEF Gapless, Carried
  <2>4. Len(Bytes(g, k)) <= tcp_sent[TcpPeer(g)][k] /\ Len(Bytes(g, k)) \in Nat /\ tcp_sent[TcpPeer(g)][k] \in Nat
    BY <1>1, <2>1, TakenBound
  <2>5. QED BY <2>3, <2>4
<1>4. TcpPeer(h) \in TcpHosts /\ TcpPeer(TcpPeer(h)) = h
  BY Hosts
<1>5. conn[h][k].ack_num = conn[TcpPeer(h)][k].seq_num
  <2>1. EntrySound(h, k) /\ EntrySound(TcpPeer(h), k)
    BY <1>1, <1>4 DEF LinksSound
  <2>2. conn[h][k].ack_num = Nth(Len(Bytes(h, k))) /\ conn[TcpPeer(h)][k].seq_num = Nth(tcp_sent[TcpPeer(h)][k])
    BY <1>4, <2>1 DEF EntrySound
  <2>3. QED BY <1>3, <2>2
<1>6. ASSUME NEW q \in conn[h][k].retransmit_queue PROVE FALSE
  <2>1. QueueSound(h, k)
    BY DEF TcpInv, NothingLost
  <2>2. Outstanding(h, k, q)
    BY <1>4, <2>1 DEF QueueSound
  <2>3. PICK o \in 0 .. tcp_sent[h][k] - 1 : o >= Len(Bytes(TcpPeer(h), k)) \/ AckOnWay(h, k, o)
    BY <2>2 DEF Outstanding
  <2>4. ~AckOnWay(h, k, o)
    BY <1>2 DEF AckOnWay
  <2>5. Len(Bytes(TcpPeer(h), k)) = tcp_sent[h][k] /\ tcp_sent[h][k] \in Nat
    BY <1>3, <1>4
  <2>6. QED BY <2>3, <2>4, <2>5
<1>7. QED BY <1>3, <1>5, <1>6

(* On every link, for any number of bytes: the application reads what its   *)
(* peer wrote (all of it in order on an orderly link, part of it in order on *)
(* a lossy one), both ends of handle_syn and handle_syn_sent open together,  *)
(* and accept hands a connection out once.                                   *)
THEOREM StreamsSound == TcpSpec => [](TcpTypeOK /\ ReadsWhatWasWritten /\ OpensTogether /\ AcceptedOnce)
<1>1. TcpInv => TcpTypeOK /\ ReadsWhatWasWritten /\ OpensTogether /\ AcceptedOnce
  <2> SUFFICES ASSUME TcpInv PROVE TcpTypeOK /\ ReadsWhatWasWritten /\ OpensTogether /\ AcceptedOnce
    OBVIOUS
  <2>1. TcpTyped /\ LinksSound /\ AcceptSound
    BY DEF TcpInv
  <2>2. QED BY <2>1, TypeFromInv, ReadsFromInv, OpensFromInv, AcceptedAtMostOnce
<1>2. QED BY <1>1, TcpInvHolds, PTL

(* TcpSound, Settled included, while a connection carries less than half of  *)
(* the number space: beyond that is_seq_before keeps acknowledged segments.  *)
THEOREM TcpSafe ==
    ASSUME MaxBuffer < SeqSpan \div 2
    PROVE  TcpSpec => []TcpSound
<1>1. TcpInv => TcpSound
  <2> SUFFICES ASSUME TcpInv PROVE TcpSound
    OBVIOUS
  <2>1. TcpTyped /\ LinksSound /\ AcceptSound
    BY DEF TcpInv
  <2>2. Settled
    BY SettledFromInv
  <2>3. QED BY <2>1, <2>2, TypeFromInv, ReadsFromInv, OpensFromInv, AcceptedAtMostOnce DEF TcpSound
<1>2. QED BY <1>1, TcpInvHolds, PTL
=============================================================================
