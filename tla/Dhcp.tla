-------------------------------- MODULE Dhcp --------------------------------
(***************************************************************************)
(* The DHCP client, net/dhcp.rs, on machines that share a network with     *)
(* servers.  Every machine that runs this code uses the same transaction   *)
(* number, and the replies are broadcast: `ours' says that a message has   *)
(* that number.  Replies may be lost, delayed, repeated and reordered.     *)
(* A server is modelled from what the client relies on.  Options are cells *)
(* the client walks over by their lengths.  The router stands for subnet   *)
(* mask and name server too: each is kept when a reply lacks it.           *)
(***************************************************************************)
EXTENDS Integers, Sequences, FiniteSets

CONSTANTS
    Clients, Servers, Addresses,
    LeaseTime,        \* seconds of a lease, 0: it never ends
    Zero,             \* 0.0.0.0
    MaxAge,           \* bound: seconds a lease is followed
    MaxReplies        \* bound: replies waiting

ASSUME DhcpAssumption == Zero \notin Addresses /\ Zero \notin Servers /\ LeaseTime \in Nat /\ MaxAge \in Nat

VARIABLES
    NETWORK_STATE,    \* [ip, gateway, configured, lease_secs, server_ip] of each client
    NEGOTIATING,      \* NEGOTIATING[c]
    step,             \* step[c]: "idle", "offer", "ack" or "renew"
    asked,            \* asked[c]: [ip, server] of the request on its way
    age,              \* age[c]: seconds since lease_acquired_tick
    replies,          \* replies on the network
    leases,           \* leases[s]: pairs of address and client
    acked             \* history: addresses a server has acknowledged

dhcp_vars == <<NETWORK_STATE, NEGOTIATING, step, asked, age, replies, leases, acked>>

NoRequest == [ip |-> Zero, server |-> Zero]

OPT_PAD == 0
OPT_ROUTER == 3
OPT_REQUESTED_IP == 50
OPT_LEASE_TIME == 51
OPT_MESSAGE_TYPE == 53
OPT_SERVER_ID == 54
OPT_PARAM_REQUEST_LIST == 55
OPT_END == 255
MSG == [discover |-> 1, offer |-> 2, request |-> 3, ack |-> 5]
DHCP_SERVER_PORT == 67
DHCP_CLIENT_PORT == 68

(* What a client sends, up to its options; to_bytes puts the options       *)
(* behind the fixed header, and an address is one cell of them.            *)
new_request(options) ==
    [port |-> DHCP_SERVER_PORT, op |-> "BOOT_REQUEST", ours |-> TRUE, yiaddr |-> Zero, siaddr |-> Zero, options |-> options]
WantedOptions == <<OPT_PARAM_REQUEST_LIST, 3, 1, OPT_ROUTER, 6, OPT_END>>
build_discover == new_request(<<OPT_MESSAGE_TYPE, 1, MSG.discover>> \o WantedOptions)
build_request(ip, server) ==
    new_request(<<OPT_MESSAGE_TYPE, 1, MSG.request, OPT_REQUESTED_IP, 1, ip, OPT_SERVER_ID, 1, server>> \o WantedOptions)

(* A frame for the client port, and in it a reply.                         *)
extract_dhcp_from_frame(m) == m.port = DHCP_CLIENT_PORT
parse_dhcp(m) == extract_dhcp_from_frame(m) /\ m.op = "BOOT_REPLY"

(* DhcpOptionIter: the options up to END or to one that does not fit, each *)
(* a code and its data.                                                    *)
OptionsOf(cells) ==
    LET from[pos \in 0 .. Len(cells)] ==
            IF pos = Len(cells) THEN <<>>
            ELSE IF cells[pos + 1] = OPT_PAD THEN from[pos + 1]
            ELSE IF cells[pos + 1] = OPT_END \/ pos + 1 >= Len(cells) THEN <<>>
            ELSE IF pos + 2 + cells[pos + 2] > Len(cells) THEN <<>>
            ELSE <<[code |-> cells[pos + 1], data |-> SubSeq(cells, pos + 3, pos + 2 + cells[pos + 2])]>>
                 \o from[pos + 2 + cells[pos + 2]]
    IN  from[0]

(* The data of the first option with this code, empty when there is none.  *)
get_option(m, code) ==
    LET hits == SelectSeq(OptionsOf(m.options), LAMBDA o : o.code = code) IN IF hits = <<>> THEN <<>> ELSE Head(hits).data

get_message_type(m) ==
    LET hits == SelectSeq(OptionsOf(m.options), LAMBDA o : o.code = OPT_MESSAGE_TYPE /\ Len(o.data) = 1)
    IN  IF hits = <<>> THEN 0 ELSE Head(hits).data[1]

(* process_offer: [ip, server]; the server identifier or, without one,     *)
(* siaddr.                                                                 *)
process_offer(m) ==
    LET id == get_option(m, OPT_SERVER_ID)
    IN  IF parse_dhcp(m) /\ m.ours /\ get_message_type(m) = MSG.offer /\ m.yiaddr # Zero
        THEN [ip |-> m.yiaddr, server |-> IF Len(id) = 1 THEN id[1] ELSE m.siaddr] ELSE NoRequest

(* Fault: an offer is taken for an acknowledgement. *)
process_ack_AnyKind(m) == parse_dhcp(m) /\ m.ours /\ m.yiaddr # Zero

process_ack(m) == parse_dhcp(m) /\ m.ours /\ get_message_type(m) = MSG.ack /\ m.yiaddr # Zero

(* What an acknowledgement changes; the server of a renewal is siaddr.     *)
Configured(s, m) ==
    LET router == get_option(m, OPT_ROUTER)
        lease == get_option(m, OPT_LEASE_TIME)
    IN  [ip |-> m.yiaddr, gateway |-> IF Len(router) >= 1 THEN router[1] ELSE s.gateway, configured |-> TRUE,
         lease_secs |-> IF Len(lease) >= 1 THEN lease[1] ELSE s.lease_secs, server_ip |-> m.siaddr]

(* dhcp_negotiate: a broadcast DISCOVER that any server may answer. *)
dhcp_negotiate(c) ==
    /\ step[c] = "idle" /\ ~NEGOTIATING[c] /\ ~NETWORK_STATE[c].configured
    /\ NEGOTIATING' = [NEGOTIATING EXCEPT ![c] = TRUE]
    /\ step' = [step EXCEPT ![c] = "offer"]
    /\ UNCHANGED <<NETWORK_STATE, asked, age, replies, leases, acked>>

(* The first offer that parses is requested, from whoever it came.         *)
ReceiveOffer(c, m) ==
    /\ step[c] = "offer" /\ process_offer(m) # NoRequest
    /\ asked' = [asked EXCEPT ![c] = process_offer(m)]
    /\ step' = [step EXCEPT ![c] = "ack"]
    /\ UNCHANGED <<NETWORK_STATE, NEGOTIATING, age, replies, leases, acked>>

ReceiveAck(c, m) ==
    /\ step[c] \in {"ack", "renew"} /\ process_ack(m)
    /\ NETWORK_STATE' = [NETWORK_STATE EXCEPT ![c] = Configured(@, m)]
    /\ age' = [age EXCEPT ![c] = 0]
    /\ step' = [step EXCEPT ![c] = "idle"] /\ asked' = [asked EXCEPT ![c] = NoRequest]
    /\ NEGOTIATING' = [NEGOTIATING EXCEPT ![c] = FALSE]
    /\ UNCHANGED <<replies, leases, acked>>

(* 1000 polls, or two seconds of a renewal, without an answer; a send that *)
(* failed.                                                                 *)
GiveUp(c) ==
    /\ step[c] # "idle"
    /\ step' = [step EXCEPT ![c] = "idle"] /\ asked' = [asked EXCEPT ![c] = NoRequest]
    /\ NEGOTIATING' = [NEGOTIATING EXCEPT ![c] = FALSE]
    /\ UNCHANGED <<NETWORK_STATE, age, replies, leases, acked>>

(* check_lease_renewal: from half of the lease on, at every turn of the    *)
(* service loop.  Nothing happens at the end of the lease.                 *)
check_lease_renewal(c) ==
    /\ step[c] = "idle" /\ NETWORK_STATE[c].configured
    /\ NETWORK_STATE[c].lease_secs # 0 /\ age[c] >= NETWORK_STATE[c].lease_secs \div 2
    /\ asked' = [asked EXCEPT ![c] = [ip |-> NETWORK_STATE[c].ip, server |-> NETWORK_STATE[c].server_ip]]
    /\ step' = [step EXCEPT ![c] = "renew"]
    /\ UNCHANGED <<NETWORK_STATE, NEGOTIATING, age, replies, leases, acked>>

Second(c) ==
    /\ age[c] < MaxAge /\ step[c] = "idle" /\ NETWORK_STATE[c].configured
    /\ age' = [age EXCEPT ![c] = @ + 1]
    /\ UNCHANGED <<NETWORK_STATE, NEGOTIATING, step, asked, replies, leases, acked>>

-----------------------------------------------------------------------------
(* What a client has on the network: its last request.                     *)
Sending(c) == IF step[c] = "idle" THEN {}
              ELSE IF step[c] = "offer" THEN {build_discover} ELSE {build_request(asked[c].ip, asked[c].server)}

(* A reply, with padding and words behind the end; or cut in its last      *)
(* option, with no router in it.                                           *)
Reply(s, kind, ip, ours, si, full) ==
    [port |-> DHCP_CLIENT_PORT, op |-> "BOOT_REPLY", ours |-> ours, yiaddr |-> ip, siaddr |-> si,
     options |-> <<OPT_MESSAGE_TYPE, 1, MSG[kind], OPT_LEASE_TIME, 1, LeaseTime>>
                   \o IF full THEN <<OPT_PAD, OPT_SERVER_ID, 1, s, OPT_ROUTER, 1, s, OPT_END, OPT_MESSAGE_TYPE, 1, MSG.ack>>
                              ELSE <<OPT_SERVER_ID, 2, s>>]
Leased(ip) == {p \in UNION {leases[s] : s \in Servers} : p[1] = ip}
Sends(m) == Cardinality(replies) < MaxReplies /\ replies' = replies \cup {m}
Quiet == UNCHANGED <<NETWORK_STATE, NEGOTIATING, step, asked, age>>

(* A server offers an address that is not leased, to one of the machines   *)
(* here or to another one.                                                 *)
ServerOffers(s, ip, ours, full) ==
    /\ (\E c \in Clients : step[c] = "offer") /\ Leased(ip) = {}
    /\ Sends(Reply(s, "offer", ip, ours, s, full))
    /\ Quiet /\ UNCHANGED <<leases, acked>>

(* It acknowledges what was requested of it; some leave siaddr zero.       *)
ServerAcks(s, c, full) ==
    /\ \E m \in Sending(c) :
          /\ get_message_type(m) = MSG.request /\ get_option(m, OPT_SERVER_ID) = <<s>>
          /\ LET ip == get_option(m, OPT_REQUESTED_IP)[1] IN
             /\ Leased(ip) \subseteq {<<ip, c>>}
             /\ leases' = [leases EXCEPT ![s] = @ \cup {<<ip, c>>}]
             /\ acked' = acked \cup {ip}
             /\ Sends(Reply(s, "ack", ip, TRUE, IF full THEN s ELSE Zero, full))
    /\ Quiet

Dropped(m) == replies' = replies \ {m} /\ Quiet /\ UNCHANGED <<leases, acked>>

DhcpInit ==
    /\ NETWORK_STATE = [c \in Clients |-> [ip |-> Zero, gateway |-> Zero, configured |-> FALSE, lease_secs |-> 0, server_ip |-> Zero]]
    /\ NEGOTIATING = [c \in Clients |-> FALSE]
    /\ step = [c \in Clients |-> "idle"]
    /\ asked = [c \in Clients |-> NoRequest]
    /\ age = [c \in Clients |-> 0]
    /\ replies = {} /\ leases = [s \in Servers |-> {}] /\ acked = {}

DhcpNext ==
    \/ \E c \in Clients : dhcp_negotiate(c) \/ GiveUp(c) \/ check_lease_renewal(c) \/ Second(c)
    \/ \E c \in Clients : \E m \in replies \cup UNION {Sending(d) : d \in Clients \ {c}} :
           ReceiveOffer(c, m) \/ ReceiveAck(c, m)
    \/ \E s \in Servers, ip \in Addresses, ours, full \in BOOLEAN : ServerOffers(s, ip, ours, full)
    \/ \E s \in Servers, c \in Clients, full \in BOOLEAN : ServerAcks(s, c, full)
    \/ \E m \in replies : Dropped(m)

-----------------------------------------------------------------------------
(* A configured machine uses an address some server has acknowledged, and  *)
(* where no other machine runs this client, one leased to this machine:    *)
(* offers, other machines' replies and late ones configure nothing         *)
(* (process_offer, process_ack).                                           *)
AcknowledgedAddress ==
    LET Away(d) == ~NETWORK_STATE[d].configured /\ step[d] = "idle" /\ \A s \in Servers, ip \in Addresses : <<ip, d>> \notin leases[s]
    IN  \A c \in Clients : NETWORK_STATE[c].configured =>
            /\ NETWORK_STATE[c].ip \in acked
            /\ (\A d \in Clients \ {c} : Away(d)) => \E s \in Servers : <<NETWORK_STATE[c].ip, c>> \in leases[s]
=============================================================================
