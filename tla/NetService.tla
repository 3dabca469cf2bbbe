----------------------------- MODULE NetService -----------------------------
(***************************************************************************)
(* The network service: net/mod.rs (ARP table, routing table, frame        *)
(* dispatch, ICMP echo, the service loop), net/fragment.rs (reassembly),   *)
(* net/udp.rs (port queues) and net/ipv6.rs.                               *)
(*                                                                         *)
(* A frame is a record, its fields the ones the handlers read; a datagram  *)
(* is a sequence of 8-byte units.  An address or a mask is the set of its  *)
(* one bits, so that `&' is intersection.  The wire may lose, repeat,      *)
(* delay and reorder frames.  The loop turns at least once a tick: the     *)
(* timer interrupt ends its hlt.                                           *)
(***************************************************************************)
EXTENDS Integers, Sequences, FiniteSets, SequencesExt, FiniteSetsExt

CONSTANTS
    Hosts, Macs,                  \* other machines' addresses; hardware addresses
    local_ip,                     \* this machine's address
    Bits, Metrics,                \* routing: address bits, metrics
    Keys,                         \* (source, destination, identification, protocol)
    Datagrams,                    \* payloads hosts send, sequences of units
    Mtus,                         \* units a fragment may hold
    Ports,
    ARP_EXPIRY_TICKS, ARP_EXPIRE_CHECK_INTERVAL, FRAGMENT_TIMEOUT_TICKS,
    MAX_FRAGMENT_SETS, MAX_FRAGMENTS_PER_DATAGRAM, UDP_QUEUE_MAX_DEPTH,
    MaxTick, MaxRoutes, MaxSent,  \* bounds: the clock, routes, datagrams and packets sent
    Word,                         \* values of a 16-bit word
    NetUses                       \* what the wire carries

ASSUME NetAssumption ==
    /\ ARP_EXPIRY_TICKS \in Nat /\ FRAGMENT_TIMEOUT_TICKS \in Nat /\ ARP_EXPIRE_CHECK_INTERVAL \in Nat \ {0}
    /\ MAX_FRAGMENT_SETS \in Nat \ {0} /\ MAX_FRAGMENTS_PER_DATAGRAM \in Nat \ {0}
    /\ UDP_QUEUE_MAX_DEPTH \in Nat \ {0} /\ Bits \subseteq Nat /\ Word \in Nat \ {0} /\ local_ip \notin Hosts

VARIABLES
    net_use,                        \* one of NetUses
    ticks,                          \* TICKS
    wire,                           \* frames on their way to this machine
    sent_frames,                    \* the last frame this machine sent, NoFrame before
    ARP_TABLE,                      \* ARP_TABLE[ip]: [mac, timestamp], NoEntry when there is none
    ROUTING_TABLE,                  \* sequence of entries
    FRAGMENT_CACHE,                 \* FRAGMENT_CACHE[key]: [timestamp, fragments]
    UDP_RECV_QUEUES,                \* UDP_RECV_QUEUES[port]: a queue, or Unbound
    last_arp_expire_tick, last_frag_expire_tick,
    looped,                         \* the loop has turned in this tick
    mac_of,                         \* the hardware address of each host now
    sent_count,                     \* datagrams hosts have sent
    learned,                        \* history: learned[ip][mac] the tick such a frame was last handled
    sending,                        \* history: sending[key]: the datagram under that key, what arrived last
    up,                             \* history: what was dispatched last, and the datagram it came from
    taken                           \* history: taken[port]: datagrams received, oldest first

net_vars == <<net_use, ticks, wire, sent_frames, ARP_TABLE, ROUTING_TABLE, FRAGMENT_CACHE, UDP_RECV_QUEUES,
              last_arp_expire_tick, last_frag_expire_tick, looped, mac_of, sent_count, learned, sending, up, taken>>
timers == <<ticks, last_arp_expire_tick, last_frag_expire_tick, looped>>
world == <<mac_of, sent_count>>

NoFrame == [type |-> "none"]
NoEntry == [mac |-> "none", timestamp |-> 0]
Unbound == <<-1>>
NoSet == [timestamp |-> 0, fragments |-> <<>>]
PrefixMasks == {{b \in Bits : b >= k} : k \in 0 .. Max(Bits) + 1}

-----------------------------------------------------------------------------
(* internet_checksum: the words added with the carries folded in, and the  *)
(* ones' complement of the sum.                                            *)
Fold[n \in Nat] == IF n < Word THEN n ELSE Fold[(n % Word) + n \div Word]

internet_checksum(words) == Word - 1 - Fold[FoldLeft(+, 0, words)]

(* The header is written with a zero in the checksum's place.              *)
Checksummed(words) == [words EXCEPT ![1] = internet_checksum([words EXCEPT ![1] = 0])]

-----------------------------------------------------------------------------

arp_lookup(ip) ==
    IF ARP_TABLE[ip] # NoEntry /\ ticks - ARP_TABLE[ip].timestamp < ARP_EXPIRY_TICKS THEN ARP_TABLE[ip].mac ELSE "none"

(* parse_arp: Ethernet and IPv4 packets only. *)
ArpPacket(op, ip, mac, target) == [type |-> "arp", op |-> op, ip |-> ip, mac |-> mac, target |-> target]

(* The sender is learned from any packet, a request for another host too;  *)
(* a request for this machine is answered.                                 *)
handle_arp(table, f) == [table EXCEPT ![f.ip] = [mac |-> f.mac, timestamp |-> ticks]]
ArpReply(f) ==
    IF f.op = "request" /\ f.target = local_ip
    THEN [type |-> "arp", op |-> "reply", to |-> f.mac, target |-> f.ip] ELSE sent_frames

send_arp_request(ip) ==
    sent_frames' = [type |-> "arp", op |-> "request", to |-> "broadcast", target |-> ip]

(* Looking an address up removes an entry that is too old. *)
ArpRemoved(table, ip) ==
    IF table[ip] # NoEntry /\ ticks - table[ip].timestamp >= ARP_EXPIRY_TICKS THEN [table EXCEPT ![ip] = NoEntry] ELSE table

expire_arp_entries(table, now) ==
    [ip \in Hosts |-> IF now - table[ip].timestamp < ARP_EXPIRY_TICKS THEN table[ip] ELSE NoEntry]

-----------------------------------------------------------------------------
route_add(table, dest, mask, gateway, metric) ==
    LET at == {k \in 1 .. Len(table) : table[k].dest = dest /\ table[k].mask = mask}
        e  == [dest |-> dest, mask |-> mask, gateway |-> gateway, metric |-> metric]
    IN  IF at = {} THEN Append(table, e) ELSE [table EXCEPT ![Min(at)] = e]

route_remove(table, dest, mask) == SelectSeq(table, LAMBDA e : ~(e.dest = dest /\ e.mask = mask))

Value(b) == FoldSet(LAMBDA k, n : n + 2^k, 0, b)
NoRoute == [mask |-> {}, metric |-> -1, gateway |-> "none"]

(* One turn of the scan: a larger mask, or the same and a smaller metric.  *)
Better(e, best) ==
    \/ best = NoRoute
    \/ Value(e.mask) > Value(best.mask)
    \/ e.mask = best.mask /\ e.metric < best.metric
route_lookup(table, ip) ==
    FoldLeft(LAMBDA best, e : IF ip \cap e.mask = e.dest \cap e.mask /\ Better(e, best) THEN e ELSE best, NoRoute, table)

-----------------------------------------------------------------------------
(* fragment_payload: the fragments of a datagram, at most mtu units each.  *)
fragment_payload(key, d, mtu) ==
    {[type |-> "ipv4", key |-> key, offset |-> i * mtu,
      data |-> SubSeq(d, i * mtu + 1, Min({Len(d), (i + 1) * mtu})),
      more_fragments |-> (i + 1) * mtu < Len(d)] : i \in 0 .. ((Len(d) - 1) \div mtu)}

End(f) == f.offset + Len(f.data)

(* Only a partial overlap counts: one fragment within another is taken.    *)
has_overlap(fs, f) ==
    \E k \in 1 .. Len(fs) :
        /\ f.offset < End(fs[k]) /\ fs[k].offset < End(f)
        /\ ~(f.offset >= fs[k].offset /\ End(f) <= End(fs[k]))
        /\ ~(fs[k].offset >= f.offset /\ End(fs[k]) <= End(f))

(* Complete: the last fragment is there and no unit before its end is      *)
(* missing.  Later fragments of the list overwrite earlier ones.           *)
LastEnd(fs) == LET last == {k \in 1 .. Len(fs) : ~fs[k].more_fragments} IN IF last = {} THEN 0 ELSE End(fs[Max(last)])

(* Fault: the units are counted, not looked at. *)
check_complete_Counted(fs) ==
    LET total == LastEnd(fs)
        Unit(u) == LET has == {k \in 1 .. Len(fs) : u \in fs[k].offset + 1 .. End(fs[k])}
                   IN  IF has = {} THEN 0 ELSE fs[Max(has)].data[u - fs[Max(has)].offset]
    IN  IF total = 0 \/ FoldLeft(LAMBDA n, f : n + Len(f.data), 0, fs) < total THEN <<>>
        ELSE [u \in 1 .. total |-> Unit(u)]

check_complete(fs) ==
    LET total    == LastEnd(fs)
        has(u)   == {k \in 1 .. Len(fs) : u \in fs[k].offset + 1 .. End(fs[k])}
    IN  IF total = 0 \/ \E u \in 1 .. total : has(u) = {} THEN <<>>
        ELSE [u \in 1 .. total |-> fs[Max(has(u))].data[u - fs[Max(has(u))].offset]]

(* Before the first fragment that does not start earlier. *)
InsertSorted(fs, f) ==
    LET at == Min({k \in 1 .. Len(fs) : fs[k].offset >= f.offset} \cup {Len(fs) + 1}) IN InsertAt(fs, at, f)

(* [cache, got, err]: the cache after the fragment, the payload if it is   *)
(* complete now.                                                           *)
reassemble_fragment(f) ==
    LET full == FRAGMENT_CACHE[f.key] = NoSet
                  /\ Cardinality({k \in Keys : FRAGMENT_CACHE[k] # NoSet}) >= MAX_FRAGMENT_SETS
        set  == FRAGMENT_CACHE[f.key].fragments
        all  == InsertSorted(set, f)
        Put(fs) == [FRAGMENT_CACHE EXCEPT ![f.key] = [timestamp |-> ticks, fragments |-> fs]]
    IN  IF full THEN [cache |-> FRAGMENT_CACHE, got |-> <<>>, err |-> TRUE]
        ELSE IF Len(set) >= MAX_FRAGMENTS_PER_DATAGRAM \/ has_overlap(set, f)
        THEN [cache |-> Put(set), got |-> <<>>, err |-> TRUE]
        ELSE IF check_complete(all) # <<>>
        THEN [cache |-> [FRAGMENT_CACHE EXCEPT ![f.key] = NoSet], got |-> check_complete(all), err |-> FALSE]
        ELSE [cache |-> Put(all), got |-> <<>>, err |-> FALSE]

expire_fragments(cache, now) ==
    [k \in Keys |-> IF now - cache[k].timestamp < FRAGMENT_TIMEOUT_TICKS THEN cache[k] ELSE NoSet]

(* Not a fragment, or one that completes nothing: both are None, and the   *)
(* caller dispatches the packet as it is.                                  *)
is_fragment(f) == f.more_fragments \/ f.offset > 0
try_reassemble(f) ==
    IF ~is_fragment(f) THEN [cache |-> FRAGMENT_CACHE, got |-> <<>>, err |-> FALSE]
    ELSE reassemble_fragment(f)

-----------------------------------------------------------------------------
bind_udp_port(p) ==
    /\ "udp" \in net_use
    /\ UDP_RECV_QUEUES' = [UDP_RECV_QUEUES EXCEPT ![p] = IF @ = Unbound THEN <<>> ELSE @]
    /\ UNCHANGED <<wire, sent_frames, ARP_TABLE, FRAGMENT_CACHE, ROUTING_TABLE, timers, world, learned, sending, up, taken>>

unbind_udp_port(p) ==
    /\ "udp" \in net_use
    /\ UDP_RECV_QUEUES' = [UDP_RECV_QUEUES EXCEPT ![p] = Unbound]
    /\ taken' = [taken EXCEPT ![p] = <<>>]
    /\ UNCHANGED <<wire, sent_frames, ARP_TABLE, FRAGMENT_CACHE, ROUTING_TABLE, timers, world, learned, sending, up>>

(* A port that is not bound, or whose queue is full, loses the datagram.   *)
handle_incoming_udp(queues, f) ==
    [queues EXCEPT ![f.port] = IF @ = Unbound \/ Len(@) >= UDP_QUEUE_MAX_DEPTH THEN @ ELSE Append(@, f.number)]

(* Vec::pop: the last one of the queue. *)
recv_udp_packet(p) ==
    /\ UDP_RECV_QUEUES[p] # Unbound /\ UDP_RECV_QUEUES[p] # <<>>
    /\ UDP_RECV_QUEUES' = [UDP_RECV_QUEUES EXCEPT ![p] = Front(@)]
    /\ taken' = [taken EXCEPT ![p] = Append(@, Last(UDP_RECV_QUEUES[p]))]
    /\ UNCHANGED <<wire, sent_frames, ARP_TABLE, FRAGMENT_CACHE, ROUTING_TABLE, timers, world, learned, sending, up>>

(* An echo request is answered with its own id, number and data, to the    *)
(* hardware address the frame came from.                                   *)
handle_icmp(f) ==
    IF f.echo THEN [type |-> "icmp", to |-> f.mac, words |-> Checksummed(f.words)] ELSE sent_frames

-----------------------------------------------------------------------------
(* A turn: a frame if there is one, then the sweeps that are due.  IPv6 is *)
(* parsed and logged.  `again': the wire delivers the frame once more.     *)
handle_frame(f) ==
    LET r == IF f.type = "ipv4" THEN try_reassemble(f) ELSE [cache |-> FRAGMENT_CACHE, got |-> <<>>, err |-> TRUE]
    IN  [arp    |-> IF f.type = "arp" THEN handle_arp(ARP_TABLE, f) ELSE ARP_TABLE,
         sent   |-> CASE f.type = "arp" -> ArpReply(f) [] f.type = "icmp" -> handle_icmp(f) [] OTHER -> sent_frames,
         queues |-> IF f.type = "udp" THEN handle_incoming_udp(UDP_RECV_QUEUES, f) ELSE UDP_RECV_QUEUES,
         cache  |-> r.cache,
         up     |-> IF r.err THEN up
                    ELSE IF r.got # <<>> THEN [whole |-> TRUE, payload |-> r.got, sent |-> sending[f.key].data]
                    ELSE [whole |-> FALSE, payload |-> f.data, sent |-> sending[f.key].data]]

net_service_loop(f, again) ==
    LET n    == handle_frame(f)
        arp  == ticks - last_arp_expire_tick >= ARP_EXPIRE_CHECK_INTERVAL
        frag == ticks - last_frag_expire_tick >= ARP_EXPIRE_CHECK_INTERVAL
    IN  /\ f # NoFrame \/ ~looped
        /\ again => f.type = "ipv4"
        /\ wire' = IF again THEN wire ELSE wire \ {f}
        /\ sent_frames' = n.sent
        /\ ARP_TABLE' = IF arp THEN expire_arp_entries(n.arp, ticks) ELSE n.arp
        /\ FRAGMENT_CACHE' = IF frag THEN expire_fragments(n.cache, ticks) ELSE n.cache
        /\ UDP_RECV_QUEUES' = n.queues
        /\ last_arp_expire_tick' = IF arp THEN ticks ELSE last_arp_expire_tick
        /\ last_frag_expire_tick' = IF frag THEN ticks ELSE last_frag_expire_tick
        /\ looped' = TRUE
        /\ learned' = IF f.type = "arp" THEN [learned EXCEPT ![f.ip][f.mac] = ticks] ELSE learned
        /\ sending' = IF f.type = "ipv4" THEN [sending EXCEPT ![f.key].arrived = ticks] ELSE sending
        /\ up' = n.up
        /\ UNCHANGED <<ticks, ROUTING_TABLE, world, taken>>

(* A sender that asks for the hardware address of a host drops an entry    *)
(* that is too old, and asks the network when it has none.                 *)
Resolve(ip) ==
    /\ "arp" \in net_use
    /\ ARP_TABLE' = ArpRemoved(ARP_TABLE, ip)
    /\ IF arp_lookup(ip) = "none" THEN send_arp_request(ip)
       ELSE sent_frames' = [type |-> "udp", to |-> arp_lookup(ip), target |-> ip]
    /\ UNCHANGED <<wire, FRAGMENT_CACHE, UDP_RECV_QUEUES, ROUTING_TABLE, timers, world, learned, sending, up, taken>>

Tick ==
    /\ looped /\ ticks < MaxTick /\ net_use \cap {"arp", "frag"} # {}
    /\ ticks' = ticks + 1 /\ looped' = FALSE
    /\ UNCHANGED <<wire, sent_frames, ARP_TABLE, ROUTING_TABLE, FRAGMENT_CACHE, UDP_RECV_QUEUES,
                   last_arp_expire_tick, last_frag_expire_tick, world, learned, sending, up, taken>>

-----------------------------------------------------------------------------
sys_route_add(dest, mask, gateway, metric) ==
    /\ "route" \in net_use /\ Len(route_add(ROUTING_TABLE, dest, mask, gateway, metric)) <= MaxRoutes
    /\ ROUTING_TABLE' = route_add(ROUTING_TABLE, dest, mask, gateway, metric)
    /\ UNCHANGED <<wire, sent_frames, ARP_TABLE, FRAGMENT_CACHE, UDP_RECV_QUEUES, timers, world, learned, sending, up, taken>>

sys_route_del(dest, mask) ==
    /\ "route" \in net_use
    /\ ROUTING_TABLE' = route_remove(ROUTING_TABLE, dest, mask)
    /\ UNCHANGED <<wire, sent_frames, ARP_TABLE, FRAGMENT_CACHE, UDP_RECV_QUEUES, timers, world, learned, sending, up, taken>>

-----------------------------------------------------------------------------
(* The hosts of the network. *)
Carry(fs) ==
    /\ wire' = wire \cup fs
    /\ UNCHANGED <<sent_frames, ARP_TABLE, ROUTING_TABLE, FRAGMENT_CACHE, UDP_RECV_QUEUES, timers, learned, up, taken>>

HostSpeaks(ip) ==
    /\ "arp" \in net_use /\ wire = {}
    /\ \E op \in {"request", "reply"}, t \in {ip, local_ip} :
           Carry({ArpPacket(op, ip, mac_of[ip], t)})
    /\ UNCHANGED <<world, sending>>

HostChanges(ip) ==
    /\ "arp" \in net_use
    /\ \E m \in Macs : mac_of' = [mac_of EXCEPT ![ip] = m]
    /\ Carry({}) /\ UNCHANGED <<sent_count, sending>>

(* A key is used again when nothing sent under it is on its way and what   *)
(* arrived has timed out.                                                  *)
HostSendsDatagram(key) ==
    /\ "frag" \in net_use /\ sent_count < MaxSent
    /\ wire = {}
    /\ ticks - sending[key].arrived >= FRAGMENT_TIMEOUT_TICKS + ARP_EXPIRE_CHECK_INTERVAL \/ sending[key].data = <<>>
    /\ \E d \in Datagrams, mtus \in SUBSET Mtus \ {{}} :
          /\ Carry(UNION {fragment_payload(key, d, mtu) : mtu \in mtus})
          /\ sending' = [sending EXCEPT ![key] = [data |-> d, arrived |-> ticks]]
    /\ sent_count' = sent_count + 1 /\ UNCHANGED mac_of

HostSendsUdp(p) ==
    /\ "udp" \in net_use /\ sent_count < MaxSent /\ wire = {}
    /\ Carry({[type |-> "udp", port |-> p, number |-> sent_count]})
    /\ sent_count' = sent_count + 1 /\ UNCHANGED <<mac_of, sending>>

HostPings ==
    /\ "ping" \in net_use /\ wire = {}
    /\ \E words \in [1 .. 3 -> 0 .. Word - 1], echo \in BOOLEAN, m \in Macs :
          Carry({[type |-> "icmp", mac |-> m, words |-> words, echo |-> echo], [type |-> "ipv6"]})
    /\ UNCHANGED <<world, sending>>

Lose(f) ==
    /\ wire' = wire \ {f}
    /\ UNCHANGED <<sent_frames, ARP_TABLE, ROUTING_TABLE, FRAGMENT_CACHE, UDP_RECV_QUEUES, timers, world,
                   learned, sending, up, taken>>

(* init_routing_table: the loopback network, the local one, the gateway.   *)
NetInit ==
    /\ net_use \in NetUses
    /\ ticks = 0 /\ wire = {} /\ sent_frames = NoFrame
    /\ ARP_TABLE = [ip \in Hosts |-> NoEntry]
    /\ ROUTING_TABLE = route_add(route_add(<<>>, Bits, Bits, "none", 0), {}, {}, "gateway", 2)
    /\ FRAGMENT_CACHE = [k \in Keys |-> NoSet]
    /\ UDP_RECV_QUEUES = [p \in Ports |-> Unbound]
    /\ last_arp_expire_tick = 0 /\ last_frag_expire_tick = 0 /\ looped = FALSE
    /\ sent_count = 0
    /\ mac_of \in [Hosts -> {CHOOSE m \in Macs : TRUE}]
    /\ learned = [ip \in Hosts |-> [m \in Macs |-> -1]]
    /\ sending = [k \in Keys |-> [data |-> <<>>, arrived |-> 0]]
    /\ up = [whole |-> FALSE, payload |-> <<>>, sent |-> <<>>]
    /\ taken = [p \in Ports |-> <<>>]

NetNext ==
    /\ \/ \E f \in wire : net_service_loop(f, FALSE) \/ net_service_loop(f, TRUE) \/ Lose(f)
       \/ net_service_loop(NoFrame, FALSE)
       \/ Tick
       \/ \E ip \in Hosts : Resolve(ip) \/ HostSpeaks(ip) \/ HostChanges(ip)
       \/ \E k \in Keys : HostSendsDatagram(k)
       \/ \E p \in Ports : bind_udp_port(p) \/ unbind_udp_port(p) \/ recv_udp_packet(p) \/ HostSendsUdp(p)
       \/ \E dest \in SUBSET Bits, mask \in PrefixMasks, m \in Metrics : sys_route_add(dest, mask, "host", m)
       \/ \E dest \in SUBSET Bits, mask \in PrefixMasks : sys_route_del(dest, mask)
       \/ HostPings
    /\ UNCHANGED net_use

-----------------------------------------------------------------------------
(* A reassembled datagram is the one its sender sent: not a mix with one   *)
(* sent earlier under the same key, nor one with a hole, whatever is lost, *)
(* repeated or reordered (reassemble_fragment, expire_fragments).          *)
ReassembledIntact == up.whole => up.payload = up.sent

(* The hardware address a packet is sent to was the host's in a frame      *)
(* handled less than ARP_EXPIRY_TICKS ago, whenever the sweep ran last     *)
(* (arp_lookup, expire_arp_entries).                                       *)
ArpNotStale ==
    \A ip \in Hosts : arp_lookup(ip) # "none" =>
        learned[ip][arp_lookup(ip)] >= 0 /\ ticks - learned[ip][arp_lookup(ip)] < ARP_EXPIRY_TICKS

(* route_lookup takes, of the routes that match, one with the longest      *)
(* prefix, and of those one with the smallest metric.                      *)
LongestPrefix ==
    \A ip \in SUBSET Bits :
        LET match == {e \in Range(ROUTING_TABLE) : ip \cap e.mask = e.dest \cap e.mask}
            got   == route_lookup(ROUTING_TABLE, ip)
        IN  IF match = {} THEN got = NoRoute
            ELSE got \in match /\ \A e \in match : \/ Cardinality(e.mask) < Cardinality(got.mask)
                                                   \/ e.mask = got.mask /\ e.metric >= got.metric

(* A packet this machine answers with passes its receiver's check: the sum *)
(* over all its words is zero (internet_checksum, handle_icmp).            *)
RepliesVerify == sent_frames.type = "icmp" => internet_checksum(sent_frames.words) = 0

(* The service's tables and packets at any time: whole datagrams, fresh    *)
(* addresses, the right route, and replies that verify.                    *)
NetSound == ReassembledIntact /\ ArpNotStale /\ LongestPrefix /\ RepliesVerify

(* "Dequeues the oldest datagram from the receive queue for `port`"        *)
(* (net/udp.rs:369).                                                       *)
OldestFirst == \A p \in Ports : \A j, k \in 1 .. Len(taken[p]) : j < k => taken[p][j] < taken[p][k]
=============================================================================
