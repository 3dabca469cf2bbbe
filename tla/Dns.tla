--------------------------------- MODULE Dns ---------------------------------
(***************************************************************************)
(* The DNS resolver, net/dns.rs.  Names and addresses are members of small *)
(* sets; a packet is a sequence of cells, a number in a field one cell:    *)
(* the parser walks over labels by their lengths, as in the code.  Every   *)
(* query has the same transaction number.  Answers may be lost, late and   *)
(* out of order; queries may be answered more than once.                   *)
(***************************************************************************)
EXTENDS Integers, Sequences, FiniteSets, SequencesExt

CONSTANTS
    Names,              \* host names: sequences of labels, a label a sequence of letters
    DnsServer, Others,  \* where answers come from
    DNS_MAX_RETRIES,
    MaxCalls            \* bound: names resolved

ASSUME DnsAssumption == DnsServer \notin Others /\ DNS_MAX_RETRIES \in Nat \ {0} /\ MaxCalls \in Nat

VARIABLES
    dns_step,    \* "idle", "arp" or "wait"
    hostname,    \* the name that is being resolved, or was last
    attempt,
    arp_known,   \* arp_lookup of the server succeeds
    answers,     \* answers on the wire
    resolved,    \* what resolve returned last: an address cell, 0 before and for an error
    queried,     \* history: names asked for
    dns_calls

dns_vars == <<dns_step, hostname, attempt, arp_known, answers, resolved, queried, dns_calls>>

POINTER == 192
TYPE_A == 1
TYPE_CNAME == 5
CLASS_IN == 1

(* The address a name has: one cell, by its place among the names.         *)
AddressOf(n) == 100 + CHOOSE k \in 1 .. Cardinality(Names) : SetToSeq(Names)[k] = n

(* encode_domain_name: each label behind its length, a zero at the end.    *)
encode_domain_name(n) == FoldLeft(LAMBDA done, l : done \o <<Len(l)>> \o l, <<>>, n) \o <<0>>

(* skip_domain_name: the offset behind the name at pos, -1 past the end.   *)
(* A pointer is two cells and ends the name.                               *)
skip_domain_name(data, pos) ==
    LET skip[p \in 0 .. Len(data) + POINTER] ==
            IF p >= Len(data) THEN -1
            ELSE IF data[p + 1] >= POINTER THEN p + 2
            ELSE IF data[p + 1] = 0 THEN p + 1
            ELSE IF p + 1 + data[p + 1] > Len(data) THEN -1 ELSE skip[p + 1 + data[p + 1]]
    IN  skip[pos]

(* parse_questions: name, type and class of each. *)
parse_questions(data, pos, count) ==
    LET end[k \in 0 .. count] ==
            IF k = 0 THEN pos
            ELSE LET p == IF end[k - 1] = -1 THEN -1 ELSE skip_domain_name(data, end[k - 1])
                 IN  IF p = -1 \/ p + 2 > Len(data) THEN -1 ELSE p + 2
    IN  end[count]

(* parse_answer: name, type, class, time to live, length and data.         *)
parse_answer(data, pos) ==
    LET p == skip_domain_name(data, pos)
    IN  IF p = -1 \/ p + 4 > Len(data) THEN [end |-> -1]
        ELSE IF p + 4 + data[p + 4] > Len(data) THEN [end |-> -1]
        ELSE [end |-> p + 4 + data[p + 4], rtype |-> data[p + 1], rclass |-> data[p + 2],
              rdata |-> SubSeq(data, p + 5, p + 4 + data[p + 4])]

(* parse_answers: all of them, or nothing. *)
parse_answers(data, pos, count) ==
    LET all[k \in 0 .. count] ==
            IF k = 0 THEN [end |-> pos, list |-> <<>>]
            ELSE LET a == IF all[k - 1].end = -1 THEN [end |-> -1] ELSE parse_answer(data, all[k - 1].end)
                 IN  IF a.end = -1 THEN [end |-> -1, list |-> <<>>]
                     ELSE [end |-> a.end, list |-> Append(all[k - 1].list, a)]
    IN  all[count].list

(* The first A record's address, 0 when there is none. *)
find_a_record(list) ==
    LET as == SelectSeq(list, LAMBDA a : a.rtype = TYPE_A /\ a.rclass = CLASS_IN /\ Len(a.rdata) = 1)
    IN  IF as = <<>> THEN 0 ELSE Head(as).rdata[1]

(* parse_dns_response: neither the question's name nor an answer's is      *)
(* compared with the name that was asked for.                              *)
parse_dns_response(m) ==
    LET pos == parse_questions(m.data, 0, m.qdcount)
    IN  IF ~m.ours \/ ~m.response \/ m.rcode # 0 \/ m.truncated \/ m.ancount = 0 \/ pos = -1 THEN 0
        ELSE find_a_record(parse_answers(m.data, pos, m.ancount))

try_parse_dns_response(m) == IF m.from # DnsServer THEN 0 ELSE parse_dns_response(m)

-----------------------------------------------------------------------------
(* resolve: the query goes out at once when the server's hardware address  *)
(* is known, after an ARP answer otherwise.                                *)
resolve(n) ==
    /\ dns_step = "idle" /\ dns_calls < MaxCalls
    /\ dns_calls' = dns_calls + 1 /\ hostname' = n /\ attempt' = 1 /\ resolved' = 0
    /\ dns_step' = IF arp_known THEN "wait" ELSE "arp"
    /\ queried' = IF arp_known THEN queried \cup {n} ELSE queried
    /\ UNCHANGED <<arp_known, answers>>

wait_for_arp ==
    /\ dns_step = "arp"
    /\ arp_known' = TRUE /\ dns_step' = "wait" /\ queried' = queried \cup {hostname}
    /\ UNCHANGED <<hostname, attempt, answers, resolved, dns_calls>>

(* Two seconds without an answer: again, and an error after the last try.  *)
DnsTimeout ==
    /\ dns_step # "idle"
    /\ IF attempt < DNS_MAX_RETRIES
       THEN attempt' = attempt + 1 /\ dns_step' = (IF arp_known THEN "wait" ELSE "arp")
            /\ queried' = IF arp_known THEN queried \cup {hostname} ELSE queried
       ELSE dns_step' = "idle" /\ UNCHANGED <<attempt, queried>>
    /\ UNCHANGED <<hostname, arp_known, answers, resolved, dns_calls>>

(* send_udp_and_parse_response: a frame that is no answer goes the way of  *)
(* all frames.                                                             *)
ReceiveAnswer(m) ==
    /\ dns_step = "wait"
    /\ answers' = answers \ {m}
    /\ IF try_parse_dns_response(m) # 0
       THEN resolved' = try_parse_dns_response(m) /\ dns_step' = "idle"
       ELSE UNCHANGED <<resolved, dns_step>>
    /\ UNCHANGED <<hostname, attempt, arp_known, queried, dns_calls>>

(* ARP_EXPIRY_TICKS pass. *)
ArpForgets ==
    /\ dns_step = "idle" /\ arp_known
    /\ arp_known' = FALSE
    /\ UNCHANGED <<dns_step, hostname, attempt, answers, resolved, queried, dns_calls>>

-----------------------------------------------------------------------------
(* What the network brings: answers of the server to what it was asked,    *)
(* with an alias before the address or without, names in full or as a      *)
(* pointer; its errors; and answers of other hosts.                        *)
Record(name, type, data) == name \o <<type, CLASS_IN, 60, Len(data)>> \o data
Response(from, n, short, alias, ours, rcode) ==
    LET name == IF short THEN <<POINTER, 12>> ELSE encode_domain_name(n)
    IN  [from |-> from, ours |-> ours, response |-> TRUE, rcode |-> rcode, truncated |-> FALSE,
         qdcount |-> 1, ancount |-> IF alias THEN 2 ELSE 1,
         data |-> encode_domain_name(n) \o <<TYPE_A, CLASS_IN>>
                    \o (IF alias THEN Record(name, TYPE_CNAME, encode_domain_name(n)) ELSE <<>>)
                    \o Record(name, TYPE_A, <<IF from = DnsServer THEN AddressOf(n) ELSE 99>>)]

NetworkBrings ==
    /\ Cardinality(answers) < 2
    /\ \E n \in queried, short, alias \in BOOLEAN, h \in Others \cup {DnsServer}, rcode \in {0, 3} :
           answers' = answers \cup {Response(h, n, short, alias, TRUE, rcode)}
    /\ UNCHANGED <<dns_step, hostname, attempt, arp_known, resolved, queried, dns_calls>>

DnsInit ==
    /\ dns_step = "idle" /\ hostname \in {CHOOSE n \in Names : TRUE} /\ attempt = 1 /\ arp_known = FALSE
    /\ answers = {} /\ resolved = 0 /\ queried = {} /\ dns_calls = 0

DnsNext ==
    \/ \E n \in Names : resolve(n)
    \/ wait_for_arp \/ DnsTimeout \/ ArpForgets \/ NetworkBrings
    \/ \E m \in answers : ReceiveAnswer(m)

-----------------------------------------------------------------------------
(* The address resolve returns is one the DNS server gave for a name this  *)
(* machine asked for: retries, late answers, aliases, pointers and other   *)
(* hosts' answers make no address up (try_parse_dns_response,              *)
(* skip_domain_name, find_a_record).                                       *)
AnsweredByServer == resolved # 0 => \E n \in queried : resolved = AddressOf(n)

(* "Resolve a hostname to an IPv4 address using DNS" (net/dns.rs:448): the *)
(* address is the one of the name resolve was called with.                 *)
AnswersTheQuestion == resolved # 0 => resolved = AddressOf(hostname)
=============================================================================
