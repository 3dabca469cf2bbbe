------------------------------- MODULE MCNet -------------------------------
(* The network components side by side: a behaviour is of one of them. *)
EXTENDS NetService, Dhcp, Dns
VARIABLE net_part
all_vars == <<net_part, net_vars, dhcp_vars, dns_vars>>

MCDatagrams == {<<1, 2, 3, 4>>, <<5, 6, 7, 8>>}
MCUses == {{"arp"}, {"frag"}, {"udp"}, {"route"}, {"ping"}}
Symmetric == Permutations(Keys) \cup Permutations(Clients) \cup Permutations(Servers) \cup Permutations(Addresses)
MCNames == {<<<<7>>, <<8, 9>>>>, <<<<7, 9>>>>}
Init ==
    /\ net_part \in {"service", "dhcp", "dns"}
    /\ (net_part # "service" => net_use = {"udp"})
    /\ NetInit /\ DhcpInit /\ DnsInit
Next ==
    /\ UNCHANGED net_part
    /\ \/ net_part = "service" /\ NetNext /\ UNCHANGED <<dhcp_vars, dns_vars>>
       \/ net_part = "dhcp" /\ DhcpNext /\ UNCHANGED <<net_vars, dns_vars>>
       \/ net_part = "dns" /\ DnsNext /\ UNCHANGED <<net_vars, dhcp_vars>>
Spec == Init /\ [][Next]_all_vars

(* The address and the name a client ends up with are those its servers    *)
(* gave: a lease is one the server acknowledged to this client, and a      *)
(* resolved name is an answer of the configured server.                    *)
ClientsSound == AcknowledgedAddress /\ AnsweredByServer
=============================================================================
