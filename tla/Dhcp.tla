---- MODULE Dhcp ----
(***************************************************************************)
(* The DHCP server and client of marius: dhcp.c, and the server without an *)
(* operating system of dhcp_bare.c, which differs in that it checks the    *)
(* size of the lease table.  Packets are broadcast over UDP: one sent may  *)
(* arrive late, twice, out of order or never, at every host.               *)
(*                                                                         *)
(* The program's own clients draw xid and MAC from rand without a seed, so *)
(* that all of them have the same; XidOf and MacOf give several hosts one  *)
(* value for them, and other values for DHCP clients of another make.      *)
(***************************************************************************)
EXTENDS Integers, Sequences, FiniteSets, FiniteSetsExt

CONSTANTS
    Hosts,           \* client processes
    MacOf, XidOf,
    MAX_LEASES,      \* entries of leases
    PoolSizes,       \* numbers of addresses to try
    MaxRestarts      \* bound on restarts of the server

ASSUME DhcpAssumption ==
    /\ MAX_LEASES \in Nat /\ PoolSizes \subseteq Nat /\ MaxRestarts \in Nat
    /\ DOMAIN MacOf = Hosts /\ \A h, k \in Hosts : XidOf[h] = XidOf[k] <=> MacOf[h] = MacOf[k]

VARIABLES
    bare,            \* dhcp_bare.c: fixed
    pool,            \* addresses 1 .. pool: fixed
    leases,
    overrun,         \* leases was written past its end
    dhcp_requests,        \* DISCOVER and REQUEST packets sent so far
    replies,         \* OFFER and ACK packets sent so far
    host,            \* what run_client of each host has reached
    restarts

dhcpVars == <<bare, pool, leases, overrun, dhcp_requests, replies, host, restarts>>

Packet(type, h) == [type |-> type, mac |-> MacOf[h], xid |-> XidOf[h]]
NotStarted == [at |-> "idle", ip |-> 0, life |-> 0]

DhcpInit ==
    /\ bare \in BOOLEAN
    /\ pool \in PoolSizes
    /\ leases = << >>
    /\ overrun = FALSE
    /\ dhcp_requests = {} /\ replies = {}
    /\ host = [h \in Hosts |-> NotStarted]
    /\ restarts = 0

----------------------------------------------------------------------------
(***************************************************************************)
(* The server                                                              *)
(***************************************************************************)
Leased(mac) == {i \in DOMAIN leases : leases[i].mac = mac}

Unleased == {ip \in 1..pool : \A i \in DOMAIN leases : leases[i].ip # ip}

HasRoom == ~bare \/ Len(leases) < MAX_LEASES

\* Mutant: a known MAC is not looked up.
allocate_ip_always_new(mac) ==
    IF Unleased # {} /\ HasRoom THEN Min(Unleased) ELSE 0

\* 0 when there is none to give.
allocate_ip(mac) ==
    CASE Leased(mac) # {} -> leases[Min(Leased(mac))].ip
      [] Leased(mac) = {} /\ Unleased # {} /\ HasRoom -> Min(Unleased)
      [] OTHER -> 0

Remembered(p, ip) == Append(leases, [ip |-> ip, mac |-> p.mac])

create_response(p, type, ip) ==
    [type |-> type, mac |-> p.mac, xid |-> p.xid, ip |-> ip, life |-> restarts]

\* One packet through the loop of run_server, or dhcp_server_process.  The
\* requested address is not looked at.  What a server does after it has
\* written past leases is not followed.
run_server(p) ==
    /\ ~overrun
    /\ LET ip == allocate_ip(p.mac)
           new == ip # 0 /\ Leased(p.mac) = {} IN
       /\ ip # 0
       /\ leases' = IF new THEN Remembered(p, ip) ELSE leases
       /\ overrun' = (new /\ Len(leases) >= MAX_LEASES)
       /\ replies' = replies \cup
             {create_response(p, IF p.type = "DISCOVER" THEN "OFFER" ELSE "ACK", ip)}
    /\ UNCHANGED <<bare, pool, dhcp_requests, host, restarts>>

\* The leases are kept in memory only: a new process, or dhcp_server_init,
\* starts without any.
dhcp_server_init ==
    /\ restarts < MaxRestarts
    /\ restarts' = restarts + 1
    /\ leases' = << >>
    /\ overrun' = FALSE
    /\ UNCHANGED <<bare, pool, dhcp_requests, replies, host>>

----------------------------------------------------------------------------
(***************************************************************************)
(* run_client of host h.  It takes the first packet that arrives; if that  *)
(* has another xid, or none arrives in five seconds, it ends without an    *)
(* address.                                                                *)
(***************************************************************************)
SendDiscover(h) ==
    /\ host[h].at = "idle"
    /\ dhcp_requests' = dhcp_requests \cup {Packet("DISCOVER", h)}
    /\ host' = [host EXCEPT ![h].at = "discover"]
    /\ UNCHANGED <<bare, pool, leases, overrun, replies, restarts>>

ForMe(h, r) == r.xid = XidOf[h]

ReceiveOffer(h) ==
    /\ host[h].at = "discover"
    /\ \E r \in replies :
          IF ForMe(h, r)
          THEN /\ host' = [host EXCEPT ![h].at = "request"]
               /\ dhcp_requests' = dhcp_requests \cup {Packet("REQUEST", h)}
          ELSE /\ host' = [host EXCEPT ![h].at = "failed"]
               /\ UNCHANGED dhcp_requests
    /\ UNCHANGED <<bare, pool, leases, overrun, replies, restarts>>

\* The type is not looked at: an OFFER that comes twice is taken for the ACK.
ReceiveAck(h) ==
    /\ host[h].at = "request"
    /\ \E r \in replies :
          host' = [host EXCEPT ![h] = IF ForMe(h, r)
                                      THEN [at |-> "bound", ip |-> r.ip, life |-> r.life]
                                      ELSE [NotStarted EXCEPT !.at = "failed"]]
    /\ UNCHANGED <<bare, pool, leases, overrun, dhcp_requests, replies, restarts>>

ClientTimeout(h) ==
    /\ host[h].at \in {"discover", "request"}
    /\ host' = [host EXCEPT ![h].at = "failed"]
    /\ UNCHANGED <<bare, pool, leases, overrun, dhcp_requests, replies, restarts>>

DhcpNext ==
    \/ \E p \in dhcp_requests : run_server(p)
    \/ dhcp_server_init
    \/ \E h \in Hosts : SendDiscover(h) \/ ReceiveOffer(h) \/ ReceiveAck(h) \/ ClientTimeout(h)

DhcpSpec == DhcpInit /\ [][DhcpNext]_dhcpVars

----------------------------------------------------------------------------
(***************************************************************************)
(* Properties                                                              *)
(***************************************************************************)
\* Type invariant.
DhcpTypeOK ==
    /\ pool \in PoolSizes
    /\ leases \in Seq([ip : 1..pool, mac : Range(MacOf)])
    /\ Len(leases) <= MAX_LEASES + 1
    /\ \A h \in Hosts : /\ host[h].at \in {"idle", "discover", "request", "bound", "failed"}
                        /\ host[h].ip \in 0..pool

\* Hosts of different MACs that the same life of the server gave an address
\* never have the same one, whatever was lost, delayed or duplicated.
NoSharedAddress ==
    \A h, k \in Hosts :
        /\ host[h].at = "bound" /\ host[k].at = "bound"
        /\ host[h].life = host[k].life /\ host[h].ip = host[k].ip
        => MacOf[h] = MacOf[k]

\* A host that ended up with an address got it from the server, which still
\* keeps it for this host's MAC, unless it was restarted.
BoundIsLeased ==
    \A h \in Hosts : host[h].at = "bound" /\ host[h].life = restarts =>
        \E i \in DOMAIN leases : leases[i] = [ip |-> host[h].ip, mac |-> MacOf[h]]

\* The lease table overflows only in dhcp.c, and only if there are more
\* addresses than entries.
LeasesFit == overrun => ~bare /\ pool > MAX_LEASES

\* The leases as a whole, over a network that loses, delays and duplicates.
DhcpCorrect == DhcpTypeOK /\ NoSharedAddress /\ BoundIsLeased /\ LeasesFit
====
