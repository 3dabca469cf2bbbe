----------------------------- MODULE MCMessages -----------------------------
(* File locks, channels and TCP connections side by side, tasks that wait for *)
(* each other: a behaviour is of one of them.  Three tasks and two inodes are *)
(* enough for two readers and one that upgrades, and for a task that holds    *)
(* one inode while it waits for another.                                      *)
EXTENDS FileLock, Channel, Tcp
CONSTANTS c1, c2, srv, p1, p2
VARIABLE messages_part

(* ------------------------------------------------------- uses of a channel *)
Instances == {c1, c2, srv}
ServerAndClients == [t \in Instances |-> IF t = srv THEN {"B"} ELSE {"A"}]
ServerAndClient == [t \in Instances |->
    CASE t = srv -> {"B"} [] t = c1 -> {"A"} [] t = c2 -> {}]

(* Two clients on one end, and a server that does not reply. *)
Crowd == [ends |-> ServerAndClients, max |-> 2, unsolicited |-> FALSE,
          ops |-> {"send", "receive", "call", "kill", "poll"}]

(* One task at each end, every system call, replies to nothing too. *)
Anything == [ends |-> ServerAndClient, max |-> 2, unsolicited |-> TRUE,
             ops |-> {"send", "receive", "call", "reply", "kill", "poll"}]

(* One task at each end that sends and receives. *)
Messages == [ends |-> ServerAndClient, max |-> 3, unsolicited |-> FALSE,
             ops |-> {"send", "receive", "kill"}]

(* One client that calls, and a server that replies to what it received. *)
Requests == [ends |-> ServerAndClient, max |-> 4, unsolicited |-> FALSE,
             ops |-> {"receive", "call", "reply", "kill", "poll"}]
MCChannelUses == {Crowd, Anything, Messages, Requests}

(* ----------------------------------------------------- the two hosts of TCP *)
OneClient(kind, up, down) ==
    [link |-> kind, ports |-> {p1},
     bytes |-> [h \in {"client", "server"} |-> IF h = "client" THEN up ELSE down]]
TwoClients(kind) ==
    [link |-> kind, ports |-> {p1, p2}, bytes |-> [h \in {"client", "server"} |-> 0]]
MCLinks == {OneClient("orderly", 3, 1), OneClient("lossy", 2, 1),
            OneClient("disordered", 1, 0), TwoClients("lossy")}

(* ------------------------------------------------------------ side by side *)
messages_vars == <<messages_part, vars, ch_vars, tcp_vars>>
InitOf(parts, uses) ==
    /\ messages_part \in parts
    /\ use \in (IF messages_part = "channel" THEN uses ELSE {Requests})
    /\ tcp_use \in (IF messages_part = "tcp" THEN TcpUses ELSE {TwoClients("lossy")})
    /\ Init /\ ChInit /\ TcpInit
OfChannel(A) == messages_part = "channel" /\ A /\ UNCHANGED <<messages_part, vars, tcp_vars>>
OfTcp(A) == messages_part = "tcp" /\ A /\ UNCHANGED <<messages_part, vars, ch_vars>>
OfLocks(A) == messages_part = "locks" /\ A /\ UNCHANGED <<messages_part, ch_vars, tcp_vars>>
MessagesNext == OfLocks(Next) \/ OfChannel(ChNext) \/ OfTcp(TcpNext)

(* User code keeps receiving on the ends it holds, and a host goes on to    *)
(* handle the segments that reached it, as Channel and Tcp assume.          *)
Fairness ==
    /\ \A t \in ChTasks : WF_messages_vars(OfChannel(\E e \in Ends : sys_channel_receive(t, e)))
    /\ \A h \in TcpHosts : WF_messages_vars(OfTcp(handle_tcp_packet(h)))
MessagesSpec == InitOf({"locks", "channel", "tcp"}, Uses) /\ [][MessagesNext]_messages_vars /\ Fairness
CallSpec == InitOf({"channel"}, {Requests}) /\ [][MessagesNext]_messages_vars
=============================================================================
