---- MODULE ServerProofs ----
(***************************************************************************)
(* Proofs about the programs that answer requests: the two servers that    *)
(* answer from a table in memory, the DHCP server of marius (Dhcp) and the *)
(* service registry of init (InitService); the daemon of the DOS25 boot    *)
(* loader, which answers from a ring (Dos25); and the message bus of       *)
(* ESMCP, which brings calls to its services and answers back (MessageBus).*)
(* They hold for every number of clients, requests, services and entries.  *)
(*                                                                         *)
(* The first two arguments are about messages that may arrive late: what a *)
(* reply says must hold when it was sent and still mean the same when it   *)
(* is read.  For DHCP a reply carries the life of the server that sent it; *)
(* replies of one life never give one address to two MACs (RepliesAgree).  *)
(* For the registry every message carries the number of its request.       *)
(***************************************************************************)
EXTENDS Dhcp, InitService, Dos25, MessageBus, FiniteSetTheorems, TLAPS

LEMMA LeastNatural ==
  ASSUME NEW T, T \subseteq Nat, T # {}
  PROVE  \E m \in T : \A k \in T : m <= k
<1> DEFINE R == {ss \in Nat \X Nat : ss[1] < ss[2]}
<1>1. R = OpToRel(<, Nat)
  BY DEF OpToRel
<1>2. IsWellFoundedOn(R, Nat)
  BY <1>1, NatLessThanWellFounded
<1> HIDE DEF R
<1>3. PICK m \in T : \A k \in T : ~(<<k, m>> \in R)
  BY <1>2, WFMin
<1>4. ASSUME NEW k \in T PROVE m <= k
  <2>1. m \in Nat /\ k \in Nat
    OBVIOUS
  <2>2. ~(k < m)
    BY <1>3, <2>1, Zenon DEF R
  <2> QED BY <2>1, <2>2
<1> QED BY <1>4

LEMMA MinIsMember ==
  ASSUME NEW T, T \subseteq Nat, T # {}
  PROVE  Min(T) \in T /\ \A k \in T : Min(T) <= k
BY LeastNatural DEF Min

----------------------------------------------------------------------------
(***************************************************************************)
(* DHCP                                                                    *)
(***************************************************************************)
HostStates == {"idle", "discover", "request", "bound", "failed"}
Lease == [ip : 1 .. pool, mac : Range(MacOf)]

DhcpTypes ==
    /\ bare \in BOOLEAN /\ pool \in PoolSizes /\ overrun \in BOOLEAN /\ restarts \in Nat
    /\ leases \in Seq(Lease)
    /\ host \in [Hosts -> [at : HostStates, ip : 0 .. pool, life : Nat]]

\* Every packet was built for some host, with its xid and its MAC.
Addressed(p) == \E h \in Hosts : p.mac = MacOf[h] /\ p.xid = XidOf[h]

PacketsAddressed ==
    /\ \A p \in dhcp_requests : Addressed(p)
    /\ \A r \in replies : Addressed(r) /\ r.ip \in 1 .. pool /\ r.life \in 0 .. restarts

\* No two leases are for one address, and the table is no longer than it can
\* be before the server writes past it.
LeasesDistinct ==
    /\ \A i, j \in DOMAIN leases : leases[i].ip = leases[j].ip => i = j
    /\ Len(leases) <= MAX_LEASES + 1
    /\ ~overrun => Len(leases) <= MAX_LEASES

LeasedIn(table, ip, mac) == \E i \in DOMAIN table : table[i] = [ip |-> ip, mac |-> mac]

\* What the server said in this life it still keeps.
RepliesLeased == \A r \in replies : r.life = restarts => LeasedIn(leases, r.ip, r.mac)

\* In no life has the server given one address to two MACs.
RepliesAgree == \A q, r \in replies : q.life = r.life /\ q.ip = r.ip => q.mac = r.mac

\* A host has the address that some reply to its MAC gave it.
BoundByReply ==
    \A h \in Hosts : host[h].at = "bound" =>
        \E r \in replies : r.ip = host[h].ip /\ r.life = host[h].life /\ r.mac = MacOf[h]

DhcpInv == /\ DhcpTypes /\ PacketsAddressed /\ LeasesDistinct /\ RepliesLeased
           /\ RepliesAgree /\ BoundByReply /\ LeasesFit

\* The address of every lease is one of the pool's, and no two are alike.
LEMMA LeasesFewerThanPool ==
  ASSUME NEW table \in Seq(Lease), pool \in Nat,
         \A i, j \in DOMAIN table : table[i].ip = table[j].ip => i = j
  PROVE  Len(table) <= pool
<1> DEFINE n == Len(table)
           f == [i \in 1 .. n |-> table[i].ip]
<1>1. n \in Nat /\ DOMAIN table = 1 .. n
  OBVIOUS
<1>2. \A i \in 1 .. n : table[i] \in Lease
  BY <1>1
<1>3. f \in [1 .. n -> 1 .. pool]
  BY <1>2 DEF Lease
<1>4. ASSUME NEW k \in Nat PROVE IsFiniteSet(1 .. k) /\ Cardinality(1 .. k) = k
  <2>1. 1 \in Int /\ k \in Int
    OBVIOUS
  <2>2. IsFiniteSet(1 .. k) /\ Cardinality(1 .. k) = IF 1 > k THEN 0 ELSE k - 1 + 1
    BY ONLY <2>1, FS_Interval
  <2> QED BY <2>2
<1>5. /\ IsFiniteSet(1 .. n) /\ Cardinality(1 .. n) = n
      /\ IsFiniteSet(1 .. pool) /\ Cardinality(1 .. pool) = pool
  BY <1>1, <1>4
<1>6. \A i, j \in 1 .. n : f[i] = f[j] => i = j
  BY <1>1
<1> HIDE DEF f, n
<1>7. ~(pool < n)
  <2> SUFFICES ASSUME pool < n PROVE FALSE
    OBVIOUS
  <2>1. Cardinality(1 .. pool) < Cardinality(1 .. n)
    BY <1>5
  <2>2. \E x, y \in 1 .. n : x # y /\ f[x] = f[y]
    <3> DEFINE S == 1 .. n
               T == 1 .. pool
    <3>1. IsFiniteSet(S) /\ IsFiniteSet(T) /\ Cardinality(T) < Cardinality(S) /\ f \in [S -> T]
      BY <1>3, <1>5, <2>1
    <3> HIDE DEF S, T
    <3>2. \E x, y \in S : x # y /\ f[x] = f[y]
      BY <3>1, FS_PigeonHole
    <3> QED BY <3>2 DEF S
  <2> QED BY <1>6, <2>2
<1>8. n <= pool
  BY <1>1, <1>7
<1> QED BY <1>8 DEF n

LEMMA DhcpInitInv == DhcpInit => DhcpInv
<1> SUFFICES ASSUME DhcpInit PROVE DhcpInv
  OBVIOUS
<1> USE DEF DhcpInit
<1>1. DhcpTypes
  <2>1. 0 \in 0 .. pool
    BY DhcpAssumption
  <2>2. NotStarted \in [at : HostStates, ip : 0 .. pool, life : Nat]
    BY <2>1 DEF NotStarted, HostStates
  <2>3. leases \in Seq(Lease) /\ restarts \in Nat
    BY SMT
  <2>5. overrun \in BOOLEAN
    BY Zenon
  <2>4. host \in [Hosts -> [at : HostStates, ip : 0 .. pool, life : Nat]]
    BY <2>2
  <2> QED BY <2>3, <2>4, <2>5 DEF DhcpTypes
<1>2. PacketsAddressed /\ RepliesLeased /\ RepliesAgree /\ LeasesFit
  BY DEF PacketsAddressed, RepliesLeased, RepliesAgree, LeasesFit
<1>3. LeasesDistinct
  BY DhcpAssumption DEF LeasesDistinct
<1>4. BoundByReply
  BY DEF BoundByReply, NotStarted
<1> QED BY <1>1, <1>2, <1>3, <1>4 DEF DhcpInv

\* One answered packet: the address given is leased to the MAC that asked,
\* whether it was before or is from now on, and no lease is lost.
LEMMA Answered ==
  ASSUME DhcpInv, NEW p \in dhcp_requests, run_server(p)
  PROVE  /\ allocate_ip(p.mac) \in 1 .. pool
         /\ leases' \in Seq(Lease) /\ LeasesDistinct' /\ LeasesFit' /\ overrun' \in BOOLEAN
         /\ \A ip, mac : LeasedIn(leases, ip, mac) => LeasedIn(leases', ip, mac)
         /\ LeasedIn(leases', allocate_ip(p.mac), p.mac)
         /\ replies' = replies \cup
              {create_response(p, IF p.type = "DISCOVER" THEN "OFFER" ELSE "ACK",
                               allocate_ip(p.mac))}
         /\ UNCHANGED <<bare, pool, dhcp_requests, host, restarts>>
<1> DEFINE ip == allocate_ip(p.mac)
           new == ip # 0 /\ Leased(p.mac) = {}
<1>1. /\ ~overrun /\ ip # 0
      /\ leases' = IF new THEN Remembered(p, ip) ELSE leases
      /\ overrun' = (new /\ Len(leases) >= MAX_LEASES)
      /\ replies' = replies \cup
           {create_response(p, IF p.type = "DISCOVER" THEN "OFFER" ELSE "ACK", ip)}
      /\ UNCHANGED <<bare, pool, dhcp_requests, host, restarts>>
  BY DEF run_server
<1>2. /\ leases \in Seq(Lease) /\ pool \in Nat /\ MAX_LEASES \in Nat
      /\ Len(leases) <= MAX_LEASES /\ p.mac \in Range(MacOf)
      /\ \A i, j \in DOMAIN leases : leases[i].ip = leases[j].ip => i = j
  <2>1. p.mac \in Range(MacOf)
    BY DhcpAssumption DEF DhcpInv, PacketsAddressed, Addressed, Range
  <2> QED BY <1>1, <2>1, DhcpAssumption DEF DhcpInv, DhcpTypes, LeasesDistinct
<1>3. \A i \in DOMAIN leases : leases[i] \in Lease /\ i \in Nat
  BY <1>2
<1>4. CASE Leased(p.mac) # {}
  <2>1. ip = leases[Min(Leased(p.mac))].ip
    BY <1>4 DEF allocate_ip
  <2>2. Min(Leased(p.mac)) \in Leased(p.mac)
    <3>1. Leased(p.mac) \subseteq Nat
      BY <1>3 DEF Leased
    <3> QED BY <1>4, <3>1, MinIsMember
  <2>3. PICK i \in DOMAIN leases : leases[i].mac = p.mac /\ leases[i].ip = ip
    BY <2>1, <2>2 DEF Leased
  <2>4. leases' = leases /\ overrun' = FALSE
    BY <1>1, <1>4
  <2>5. ip \in 1 .. pool /\ leases[i] = [ip |-> ip, mac |-> p.mac]
    BY <1>3, <2>3 DEF Lease
  <2> HIDE DEF ip
  <2>6. LeasedIn(leases', ip, p.mac)
    BY <2>4, <2>5 DEF LeasedIn
  <2>7. LeasesDistinct' /\ LeasesFit'
    BY <1>1, <1>2, <2>4 DEF LeasesDistinct, LeasesFit
  <2>8. \A a, mac : LeasedIn(leases, a, mac) => LeasedIn(leases', a, mac)
    BY <2>4 DEF LeasedIn
  <2> QED BY <1>1, <1>2, <2>4, <2>5, <2>6, <2>7, <2>8 DEF ip
<1>5. CASE Leased(p.mac) = {}
  <2>1. Unleased # {} /\ HasRoom /\ ip = Min(Unleased)
    BY <1>1, <1>5 DEF allocate_ip
  <2>2. ip \in Unleased
    <3>1. Unleased \subseteq Nat
      BY <1>2 DEF Unleased
    <3> QED BY <2>1, <3>1, MinIsMember
  <2>3. leases' = Append(leases, [ip |-> ip, mac |-> p.mac])
        /\ overrun' = (Len(leases) >= MAX_LEASES)
    BY <1>1, <1>5 DEF Remembered
  <2>4. ip \in 1 .. pool /\ \A i \in DOMAIN leases : leases[i].ip # ip
    BY <2>2 DEF Unleased
  <2> HIDE DEF ip
  <2>5. [ip |-> ip, mac |-> p.mac] \in Lease
    BY <1>2, <2>4 DEF Lease
  <2>6. /\ leases' \in Seq(Lease) /\ Len(leases') = Len(leases) + 1
        /\ DOMAIN leases' = DOMAIN leases \cup {Len(leases) + 1}
        /\ \A i \in DOMAIN leases : leases'[i] = leases[i]
        /\ leases'[Len(leases) + 1] = [ip |-> ip, mac |-> p.mac]
    BY <1>2, <2>3, <2>5
  <2>7. \A i, j \in DOMAIN leases' : leases'[i].ip = leases'[j].ip => i = j
    BY <1>2, <2>4, <2>6
  <2>8. Len(leases') <= pool
    <3>1. \A i, j \in DOMAIN (leases') : (leases')[i].ip = (leases')[j].ip => i = j
      BY <2>7
    <3> QED BY <1>2, <2>6, <3>1, LeasesFewerThanPool
  <2>12. (overrun' => Len(leases) >= MAX_LEASES) /\ (~overrun' => ~(Len(leases) >= MAX_LEASES))
    BY <2>3, Zenon
  <2>9. LeasesFit'
    <3>1. overrun' => Len(leases) = MAX_LEASES
      BY <1>2, <2>12
    <3>2. overrun' => ~bare
      BY <1>2, <2>1, <3>1 DEF HasRoom
    <3>3. overrun' => pool > MAX_LEASES
      BY <1>2, <2>6, <2>8, <3>1
    <3> QED BY <1>1, <3>2, <3>3 DEF LeasesFit
  <2>10. LeasesDistinct'
    <3>1. Len(leases') <= MAX_LEASES + 1
      BY <1>2, <2>6
    <3>2. ~overrun' => Len(leases) < MAX_LEASES
      BY <1>2, <2>12
    <3>3. ~overrun' => Len(leases') <= MAX_LEASES
      BY <1>2, <2>6, <3>2
    <3> QED BY <2>7, <3>1, <3>3 DEF LeasesDistinct
  <2>11. LeasedIn(leases', ip, p.mac) /\ \A a, mac : LeasedIn(leases, a, mac) => LeasedIn(leases', a, mac)
    BY <2>6 DEF LeasedIn
  <2> QED BY <1>1, <2>3, <2>4, <2>6, <2>9, <2>10, <2>11 DEF ip
<1> QED BY <1>4, <1>5

LEMMA RunServerInv ==
  ASSUME DhcpInv, NEW p \in dhcp_requests, run_server(p)
  PROVE  DhcpInv'
<1> DEFINE ip == allocate_ip(p.mac)
           r0 == create_response(p, IF p.type = "DISCOVER" THEN "OFFER" ELSE "ACK", ip)
<1>1. /\ ip \in 1 .. pool
      /\ leases' \in Seq(Lease) /\ LeasesDistinct' /\ LeasesFit' /\ overrun' \in BOOLEAN
      /\ \A a, mac : LeasedIn(leases, a, mac) => LeasedIn(leases', a, mac)
      /\ LeasedIn(leases', ip, p.mac)
      /\ replies' = replies \cup {r0}
      /\ UNCHANGED <<bare, pool, dhcp_requests, host, restarts>>
  BY Answered
<1>2. r0.mac = p.mac /\ r0.xid = p.xid /\ r0.ip = ip /\ r0.life = restarts
  BY DEF create_response
<1> HIDE DEF ip, r0
<1>3. DhcpTypes'
  BY <1>1 DEF DhcpInv, DhcpTypes, Lease
<1>4. PacketsAddressed'
  <2>1. Addressed(p)
    BY DEF DhcpInv, PacketsAddressed
  <2>2. Addressed(r0) /\ r0.ip \in 1 .. pool /\ r0.life \in 0 .. restarts
    BY <1>1, <1>2, <2>1 DEF DhcpInv, DhcpTypes, Addressed
  <2>3. \A r \in replies' : Addressed(r) /\ r.ip \in 1 .. pool /\ r.life \in 0 .. restarts
    BY <1>1, <2>2 DEF DhcpInv, PacketsAddressed
  <2>4. \A q \in dhcp_requests : Addressed(q)
    BY DEF DhcpInv, PacketsAddressed
  <2>5. dhcp_requests' = dhcp_requests /\ pool' = pool /\ restarts' = restarts
    BY <1>1
  <2> QED BY <2>3, <2>4, <2>5 DEF PacketsAddressed, Addressed
<1>5. \A r \in replies' : r.life = restarts => LeasedIn(leases', r.ip, r.mac)
  BY <1>1, <1>2 DEF DhcpInv, RepliesLeased
<1>6. RepliesLeased'
  BY <1>1, <1>5 DEF RepliesLeased, LeasedIn
<1>7. RepliesAgree'
  <2>1. ASSUME NEW q \in replies, q.life = restarts, q.ip = ip
        PROVE  q.mac = p.mac
    <3>1. LeasedIn(leases', ip, q.mac)
      BY <1>1, <2>1 DEF DhcpInv, RepliesLeased
    <3>2. PICK i \in DOMAIN leases' : leases'[i] = [ip |-> ip, mac |-> q.mac]
      BY <1>1, <3>1 DEF LeasedIn
    <3>3. PICK j \in DOMAIN leases' : leases'[j] = [ip |-> ip, mac |-> p.mac]
      BY <1>1 DEF LeasedIn
    <3>4. i = j
      BY <1>1, <3>2, <3>3 DEF LeasesDistinct
    <3> QED BY <3>2, <3>3, <3>4
  <2> QED BY <1>1, <1>2, <2>1 DEF DhcpInv, RepliesAgree
<1>8. BoundByReply'
  BY <1>1 DEF DhcpInv, BoundByReply
<1> QED BY <1>1, <1>3, <1>4, <1>6, <1>7, <1>8 DEF DhcpInv

\* A restarted server has said nothing in its new life.
LEMMA RestartInv ==
  ASSUME DhcpInv, dhcp_server_init
  PROVE  DhcpInv'
<1>1. /\ restarts' = restarts + 1 /\ leases' = << >> /\ overrun' = FALSE
      /\ UNCHANGED <<bare, pool, dhcp_requests, replies, host>> /\ restarts \in Nat
  BY DEF dhcp_server_init, DhcpInv, DhcpTypes
<1>2. DhcpTypes' /\ LeasesDistinct' /\ LeasesFit'
  <2>1. leases' \in Seq(Lease') /\ DOMAIN leases' = {} /\ Len(leases') = 0
    BY <1>1
  <2>2. DhcpTypes'
    <3>1. overrun' \in BOOLEAN
      BY <1>1, Zenon
    <3>2. restarts' \in Nat
      BY <1>1
    <3> QED BY <1>1, <2>1, <3>1, <3>2 DEF DhcpInv, DhcpTypes
  <2>3. LeasesDistinct' /\ LeasesFit'
    BY <1>1, <2>1, DhcpAssumption DEF LeasesDistinct, LeasesFit
  <2> QED BY <2>2, <2>3
<1>3. PacketsAddressed' /\ RepliesAgree' /\ BoundByReply'
  BY <1>1 DEF DhcpInv, PacketsAddressed, Addressed, RepliesAgree, BoundByReply
<1>4. RepliesLeased'
  BY <1>1 DEF DhcpInv, PacketsAddressed, RepliesLeased
<1> QED BY <1>2, <1>3, <1>4 DEF DhcpInv

\* A step of one host: it may send a packet built for it and change its own
\* state; it is bound only by a reply to its MAC.
LEMMA HostInv ==
  ASSUME DhcpInv, NEW h \in Hosts, UNCHANGED <<bare, pool, leases, overrun, replies, restarts>>,
         NEW state, host' = [host EXCEPT ![h] = state],
         state \in [at : HostStates, ip : 0 .. pool, life : Nat],
         state.at = "bound" =>
            \E r \in replies : r.ip = state.ip /\ r.life = state.life /\ r.mac = MacOf[h],
         \A p \in dhcp_requests' : p \in dhcp_requests \/ Addressed(p)
  PROVE  DhcpInv'
<1>1. DhcpTypes' /\ LeasesDistinct' /\ LeasesFit'
  BY DEF DhcpInv, DhcpTypes, LeasesDistinct, LeasesFit, Lease
<1>2. PacketsAddressed'
  BY DEF DhcpInv, PacketsAddressed, Addressed
<1>3. RepliesAgree' /\ RepliesLeased'
  BY DEF DhcpInv, RepliesAgree, RepliesLeased, LeasedIn
<1>4. host \in [Hosts -> [at : HostStates, ip : 0 .. pool, life : Nat]]
  BY DEF DhcpInv, DhcpTypes
<1>5. BoundByReply'
  BY <1>4 DEF DhcpInv, BoundByReply
<1> QED BY <1>1, <1>2, <1>3, <1>5 DEF DhcpInv

LEMMA SendDiscoverInv ==
  ASSUME DhcpInv, NEW h \in Hosts, SendDiscover(h)
  PROVE  DhcpInv'
<1> DEFINE state == [host[h] EXCEPT !.at = "discover"]
<1>1. /\ host[h].at = "idle" /\ host' = [host EXCEPT ![h] = state]
      /\ dhcp_requests' = dhcp_requests \cup {Packet("DISCOVER", h)}
      /\ UNCHANGED <<bare, pool, leases, overrun, replies, restarts>>
  BY DEF SendDiscover
<1>2. host[h] \in [at : HostStates, ip : 0 .. pool, life : Nat]
  BY DEF DhcpInv, DhcpTypes
<1>3. state \in [at : HostStates, ip : 0 .. pool, life : Nat] /\ state.at # "bound"
  BY <1>2 DEF HostStates
<1>4. Addressed(Packet("DISCOVER", h))
  BY DEF Addressed, Packet
<1> HIDE DEF state
<1> QED BY <1>1, <1>3, <1>4, HostInv

LEMMA ReceiveOfferInv ==
  ASSUME DhcpInv, NEW h \in Hosts, ReceiveOffer(h)
  PROVE  DhcpInv'
<1> DEFINE state(at) == [host[h] EXCEPT !.at = at]
<1>1. PICK at \in {"request", "failed"} : host' = [host EXCEPT ![h] = state(at)]
  BY DEF ReceiveOffer
<1>2. /\ dhcp_requests' = dhcp_requests \cup {Packet("REQUEST", h)} \/ dhcp_requests' = dhcp_requests
      /\ UNCHANGED <<bare, pool, leases, overrun, replies, restarts>>
  BY DEF ReceiveOffer
<1>3. host[h] \in [at : HostStates, ip : 0 .. pool, life : Nat]
  BY DEF DhcpInv, DhcpTypes
<1>4. state(at) \in [at : HostStates, ip : 0 .. pool, life : Nat] /\ state(at).at # "bound"
  BY <1>3 DEF HostStates
<1>5. Addressed(Packet("REQUEST", h))
  BY DEF Addressed, Packet
<1>6. \A p \in dhcp_requests' : p \in dhcp_requests \/ Addressed(p)
  BY <1>2, <1>5
<1> HIDE DEF state
<1> QED BY <1>1, <1>2, <1>4, <1>6, HostInv

\* A reply with the host's xid was made for a host of the same MAC.
LEMMA ForMeIsMine ==
  ASSUME DhcpInv, NEW h \in Hosts, NEW r \in replies, ForMe(h, r)
  PROVE  r.mac = MacOf[h]
BY DhcpAssumption DEF DhcpInv, PacketsAddressed, Addressed, ForMe

LEMMA ReceiveAckInv ==
  ASSUME DhcpInv, NEW h \in Hosts, ReceiveAck(h)
  PROVE  DhcpInv'
<1> DEFINE bound(r) == [at |-> "bound", ip |-> r.ip, life |-> r.life]
           failed == [NotStarted EXCEPT !.at = "failed"]
<1>1. PICK r \in replies :
        host' = [host EXCEPT ![h] = IF ForMe(h, r) THEN bound(r) ELSE failed]
  BY DEF ReceiveAck
<1>2. UNCHANGED <<bare, pool, leases, overrun, dhcp_requests, replies, restarts>>
  BY DEF ReceiveAck
<1>3. pool \in Nat /\ restarts \in Nat /\ r.ip \in 1 .. pool /\ r.life \in Nat
  BY DhcpAssumption DEF DhcpInv, DhcpTypes, PacketsAddressed
<1>4. CASE ForMe(h, r)
  <2>1. bound(r) \in [at : HostStates, ip : 0 .. pool, life : Nat]
    BY <1>3 DEF HostStates
  <2>2. r.mac = MacOf[h] /\ bound(r).ip = r.ip /\ bound(r).life = r.life
    BY <1>4, ForMeIsMine
  <2>3. host' = [host EXCEPT ![h] = bound(r)]
    BY <1>1, <1>4
  <2> HIDE DEF bound
  <2> QED BY <1>2, <2>1, <2>2, <2>3, HostInv
<1>5. CASE ~ForMe(h, r)
  <2>1. failed \in [at : HostStates, ip : 0 .. pool, life : Nat] /\ failed.at # "bound"
    BY <1>3 DEF HostStates, NotStarted
  <2>2. host' = [host EXCEPT ![h] = failed]
    BY <1>1, <1>5
  <2> HIDE DEF failed
  <2> QED BY <1>2, <2>1, <2>2, HostInv
<1> QED BY <1>4, <1>5

LEMMA ClientTimeoutInv ==
  ASSUME DhcpInv, NEW h \in Hosts, ClientTimeout(h)
  PROVE  DhcpInv'
<1> DEFINE state == [host[h] EXCEPT !.at = "failed"]
<1>1. /\ host' = [host EXCEPT ![h] = state]
      /\ UNCHANGED <<bare, pool, leases, overrun, dhcp_requests, replies, restarts>>
  BY DEF ClientTimeout
<1>2. host[h] \in [at : HostStates, ip : 0 .. pool, life : Nat]
  BY DEF DhcpInv, DhcpTypes
<1>3. state \in [at : HostStates, ip : 0 .. pool, life : Nat] /\ state.at # "bound"
  BY <1>2 DEF HostStates
<1> HIDE DEF state
<1> QED BY <1>1, <1>3, HostInv

LEMMA DhcpNextInv ==
  ASSUME DhcpInv, [DhcpNext]_dhcpVars
  PROVE  DhcpInv'
<1>1. CASE UNCHANGED dhcpVars
  BY <1>1 DEF dhcpVars, DhcpInv, DhcpTypes, Lease, PacketsAddressed, Addressed, LeasesDistinct,
       RepliesLeased, LeasedIn, RepliesAgree, BoundByReply, LeasesFit
<1>2. CASE \E p \in dhcp_requests : run_server(p)
  BY <1>2, RunServerInv
<1>3. CASE dhcp_server_init
  BY <1>3, RestartInv
<1>4. CASE \E h \in Hosts : SendDiscover(h) \/ ReceiveOffer(h) \/ ReceiveAck(h) \/ ClientTimeout(h)
  BY <1>4, SendDiscoverInv, ReceiveOfferInv, ReceiveAckInv, ClientTimeoutInv
<1> QED BY <1>1, <1>2, <1>3, <1>4 DEF DhcpNext

LEMMA DhcpInvIsEnough == DhcpInv => DhcpCorrect
<1> SUFFICES ASSUME DhcpInv PROVE DhcpCorrect
  OBVIOUS
<1>1. DhcpTypeOK
  BY DEF DhcpInv, DhcpTypes, LeasesDistinct, Lease, HostStates, DhcpTypeOK
<1>2. NoSharedAddress
  BY DEF DhcpInv, BoundByReply, RepliesAgree, NoSharedAddress
<1>3. BoundIsLeased
  BY DEF DhcpInv, BoundByReply, RepliesLeased, LeasedIn, BoundIsLeased
<1> QED BY <1>1, <1>2, <1>3 DEF DhcpInv, DhcpCorrect

\* marius, both servers: whatever packets are lost, delayed, duplicated or
\* reordered and however often the server restarts, hosts of different MACs
\* never hold the same address from one life of the server, a bound host is in
\* the lease table while that life lasts, and the table is written past its end
\* only by dhcp.c with more addresses than entries.
THEOREM DhcpStaysCorrect == DhcpSpec => []DhcpCorrect
<1>1. DhcpInit => DhcpInv
  BY DhcpInitInv
<1>2. DhcpInv /\ [DhcpNext]_dhcpVars => DhcpInv'
  BY DhcpNextInv
<1>3. DhcpInv => DhcpCorrect
  BY DhcpInvIsEnough
<1> QED BY <1>1, <1>2, <1>3, PTL DEF DhcpSpec

----------------------------------------------------------------------------
(***************************************************************************)
(* The registry.  The number req of a message is the request it was made   *)
(* for or answers.                                                         *)
(***************************************************************************)

\* registry_lookup of the service table it is given.
MatchesIn(table, service_id) == {n \in DOMAIN table : table[n].service_id = service_id}
LookupIn(table, service_id) ==
    IF MatchesIn(table, service_id) = {} THEN 0
    ELSE table[CHOOSE n \in MatchesIn(table, service_id) :
                 \A k \in MatchesIn(table, service_id) : n <= k].provider_pid

\* A message says what the client that made its request asked, or what the
\* registry still answers.
Says(m, asked, table) ==
    /\ m.req \in DOMAIN asked
    /\ m.type \in {"REGISTER", "LOOKUP"} =>
          /\ asked[m.req].type = m.type /\ asked[m.req].source = m.source
          /\ asked[m.req].service = m.data
    /\ m.type = "REPLY" =>
          /\ asked[m.req].type = "LOOKUP" /\ asked[m.req].source = m.target
          /\ m.data \in {0, LookupIn(table, asked[m.req].service)}

QueueTruthful == \A n \in DOMAIN queue : Says(queue[n], requests, service_table)

\* A request is in one place at a time: one slot of the queue, or init's
\* buffer, or one entry of the table.
QueueOnce == \A n, k \in DOMAIN queue : queue[n].req = queue[k].req => n = k

DispatchTruthful ==
    pc = "dispatch" =>
        Says(msg, requests, service_table) /\ \A n \in DOMAIN queue : queue[n].req # msg.req

TableOnce ==
    \A e \in DOMAIN service_table :
        /\ service_table[e].req \in DOMAIN requests
        /\ \A n \in DOMAIN queue : queue[n].req # service_table[e].req
        /\ pc = "dispatch" => msg.req # service_table[e].req

\* The lookup a client waits for is the last request it made.
LastRequest ==
    \A c \in Clients : client[c].pc = "reply" =>
        /\ client[c].req \in DOMAIN requests
        /\ requests[client[c].req].type = "LOOKUP" /\ requests[client[c].req].from = c
        /\ \A k \in DOMAIN requests : requests[k].from = c => k <= client[c].req

FoundRequest == found.own => found.req \in DOMAIN requests

\* A request gives no PID but that of the process it comes from.
SourcesHonest == \A n \in DOMAIN requests : requests[n].source \in Sources(requests[n].from)

RegistryInv ==
    /\ InitTypeOK /\ QueueTruthful /\ QueueOnce /\ DispatchTruthful /\ TableOnce
    /\ RegistryTruthful /\ LastRequest /\ FoundRequest /\ SourcesHonest /\ OwnReplyNamesProvider

\* Sequences, as the queue and the table are changed.
LEMMA TakenFromQueue ==
  ASSUME NEW S, NEW q \in Seq(S), q # << >>
  PROVE  /\ Head(q) \in S /\ Head(q) = q[1] /\ 1 \in DOMAIN q
         /\ Tail(q) \in Seq(S) /\ Len(Tail(q)) = Len(q) - 1
         /\ \A n \in DOMAIN Tail(q) : n + 1 \in DOMAIN q /\ Tail(q)[n] = q[n + 1] /\ n \in Nat
OBVIOUS

LEMMA PutInSequence ==
  ASSUME NEW S, NEW q \in Seq(S), NEW m \in S
  PROVE  /\ Append(q, m) \in Seq(S) /\ Len(Append(q, m)) = Len(q) + 1 /\ Len(q) \in Nat
         /\ DOMAIN q \subseteq DOMAIN Append(q, m)
         /\ \A n \in DOMAIN Append(q, m) :
              IF n \in DOMAIN q THEN Append(q, m)[n] = q[n]
              ELSE n = Len(q) + 1 /\ Append(q, m)[n] = m
OBVIOUS

LEMMA SentToQueue ==
  ASSUME NEW S, NEW q \in Seq(S), NEW m \in S, Len(q) <= Capacity
  PROVE  /\ Sent(q, m) \in Seq(S) /\ Len(Sent(q, m)) <= Capacity
         /\ \A n \in DOMAIN Sent(q, m) :
              IF n \in DOMAIN q THEN Sent(q, m)[n] = q[n]
              ELSE n = Len(q) + 1 /\ Sent(q, m)[n] = m
<1>1. Len(q) \in Nat /\ Capacity \in Nat
  BY SizesAssumption
<1>2. CASE Len(q) < Capacity
  BY <1>1, <1>2, PutInSequence DEF Sent
<1>3. CASE ~(Len(q) < Capacity)
  BY <1>3 DEF Sent
<1> QED BY <1>2, <1>3

\* What the table answers it goes on answering: entries are only added, and
\* the first one of a service counts.
LEMMA LookupKept ==
  ASSUME NEW table, NEW longer, NEW s,
         DOMAIN table \subseteq DOMAIN longer, DOMAIN longer \subseteq Nat,
         \A n \in DOMAIN table : longer[n] = table[n],
         \A n \in DOMAIN longer, k \in DOMAIN table : n \notin DOMAIN table => k < n,
         LookupIn(table, s) # 0
  PROVE  LookupIn(longer, s) = LookupIn(table, s)
<1> DEFINE M == MatchesIn(table, s)
           L == MatchesIn(longer, s)
<1>1. M # {} /\ M \subseteq Nat
  BY DEF LookupIn, MatchesIn
<1>2. PICK m \in M : \A k \in M : m <= k
  BY <1>1, LeastNatural
<1>3. m \in L /\ \A k \in L : m <= k
  <2>1. M \subseteq L
    BY DEF MatchesIn
  <2>2. ASSUME NEW k \in L PROVE m <= k
    <3>1. CASE k \in DOMAIN table
      BY <1>2, <3>1 DEF MatchesIn
    <3>2. CASE k \notin DOMAIN table
      BY <1>1, <3>2 DEF MatchesIn
    <3> QED BY <3>1, <3>2
  <2> QED BY <2>1, <2>2
<1>4. L \subseteq Nat
  BY DEF MatchesIn
<1>5. (CHOOSE n \in M : \A k \in M : n <= k) = m
  BY <1>1, <1>2
<1>6. (CHOOSE n \in L : \A k \in L : n <= k) = m
  BY <1>3, <1>4
<1>7. longer[m] = table[m]
  BY <1>2 DEF MatchesIn
<1> QED BY <1>1, <1>3, <1>5, <1>6, <1>7 DEF LookupIn

LEMMA LookupIsLookupIn ==
  /\ \A s : registry_lookup(s) = LookupIn(service_table, s)
  /\ \A s : registry_lookup(s)' = LookupIn(service_table', s)
BY DEF registry_lookup, LookupIn, Matches, MatchesIn

LEMMA LookupAnswers ==
  ASSUME NEW table, DOMAIN table \subseteq Nat, NEW s, LookupIn(table, s) # 0
  PROVE  \E n \in DOMAIN table :
            table[n].service_id = s /\ table[n].provider_pid = LookupIn(table, s)
<1> DEFINE M == MatchesIn(table, s)
<1>1. M # {} /\ M \subseteq Nat
  BY DEF LookupIn, MatchesIn
<1>2. \E n \in M : \A k \in M : n <= k
  BY <1>1, LeastNatural
<1>3. (CHOOSE n \in M : \A k \in M : n <= k) \in M
  BY <1>2
<1>4. LookupIn(table, s) = table[CHOOSE n \in M : \A k \in M : n <= k].provider_pid
  BY <1>1 DEF LookupIn
<1>5. \A n \in M : n \in DOMAIN table /\ table[n].service_id = s
  BY DEF MatchesIn
<1> HIDE DEF M
<1> QED BY <1>3, <1>4, <1>5

\* What a message says stays true when requests and entries are added.
LEMMA SaysKept ==
  ASSUME NEW m, NEW asked, NEW more, NEW table, NEW longer, Says(m, asked, table),
         DOMAIN asked \subseteq DOMAIN more, \A n \in DOMAIN asked : more[n] = asked[n],
         DOMAIN table \subseteq DOMAIN longer, DOMAIN longer \subseteq Nat,
         \A n \in DOMAIN table : longer[n] = table[n],
         \A n \in DOMAIN longer, k \in DOMAIN table : n \notin DOMAIN table => k < n
  PROVE  Says(m, more, longer)
<1>1. ASSUME NEW s, NEW data, data \in {0, LookupIn(table, s)}
      PROVE  data \in {0, LookupIn(longer, s)}
  <2>1. CASE LookupIn(table, s) = 0
    BY <1>1, <2>1
  <2>2. CASE LookupIn(table, s) # 0
    BY <1>1, <2>2, LookupKept
  <2> QED BY <2>1, <2>2
<1> QED BY <1>1 DEF Says

Entry == [service_id : Nat, provider_pid : Nat, req : Nat]
Asked == [type : {"REGISTER", "LOOKUP"}, from : Clients, source : Nat, service : ServiceIds]

LEMMA InitTypes == RegistryInit => InitTypeOK
<1> SUFFICES ASSUME RegistryInit PROVE InitTypeOK
  OBVIOUS
<1> USE DEF RegistryInit
<1>1. msg \in Messages
  BY DEF NoMsg, Messages
<1>2. client \in [Clients -> [pc : {"idle", "reply"}, req : Nat]]
  BY DEF NotAsking
<1>3. queue \in Seq(Messages) /\ Len(queue) <= Capacity
  BY SizesAssumption
<1>4. service_table \in Seq(Entry) /\ Len(service_table) <= MAX_SERVICES
  BY SizesAssumption
<1>5. found \in [req : Nat, pid : Nat, own : BOOLEAN]
  OBVIOUS
<1>6. requests \in Seq(Asked)
  OBVIOUS
<1> QED BY <1>1, <1>2, <1>3, <1>4, <1>5, <1>6 DEF InitTypeOK, Entry, Asked

\* The registry's lookup is a pid or 0.
LEMMA LookupType ==
  ASSUME InitTypeOK
  PROVE  \A s : registry_lookup(s) \in Nat
<1> SUFFICES ASSUME NEW s PROVE LookupIn(service_table, s) \in Nat
  BY LookupIsLookupIn
<1>1. service_table \in Seq(Entry)
  BY DEF InitTypeOK, Entry
<1>2. \A n \in DOMAIN service_table : n \in Nat /\ service_table[n].provider_pid \in Nat
  <2>1. \A n \in DOMAIN service_table : n \in Nat /\ service_table[n] \in Entry
    BY <1>1
  <2> QED BY <2>1 DEF Entry
<1>3. CASE LookupIn(service_table, s) # 0
  BY <1>2, <1>3, LookupAnswers
<1> QED BY <1>3

LEMMA InitReceiveTypes == ASSUME InitTypeOK, InitReceive PROVE InitTypeOK'
<1>1. queue \in Seq(Messages) /\ queue # << >> /\ Len(queue) <= Capacity /\ Capacity \in Nat
  BY SizesAssumption DEF InitTypeOK, InitReceive
<1>2. Head(queue) \in Messages /\ Tail(queue) \in Seq(Messages) /\ Len(Tail(queue)) <= Capacity
  BY <1>1
<1> QED BY <1>2 DEF InitTypeOK, InitReceive

LEMMA DispatchRegisterTypes == ASSUME InitTypeOK, DispatchRegister PROVE InitTypeOK'
<1> DEFINE e == [service_id |-> msg.data, provider_pid |-> msg.source, req |-> msg.req]
<1>1. service_table \in Seq(Entry) /\ e \in Entry /\ MAX_SERVICES \in Nat
      /\ Len(service_table) <= MAX_SERVICES
  BY SizesAssumption DEF InitTypeOK, Messages, Entry
<1>2. service_table' \in Seq(Entry) /\ Len(service_table') <= MAX_SERVICES
  <2>1. CASE Len(service_table) < MAX_SERVICES
    <3>1. service_table' = Append(service_table, e)
      BY <2>1 DEF DispatchRegister, registry_register
    <3> HIDE DEF e
    <3> QED BY <1>1, <2>1, <3>1, PutInSequence
  <2>2. CASE ~(Len(service_table) < MAX_SERVICES)
    BY <1>1, <2>2 DEF DispatchRegister, registry_register
  <2> QED BY <2>1, <2>2
<1> QED BY <1>2 DEF InitTypeOK, DispatchRegister, Entry

LEMMA DispatchLookupTypes == ASSUME InitTypeOK, DispatchLookup PROVE InitTypeOK'
<1> DEFINE r == Reply(msg, registry_lookup(msg.data))
<1>1. r \in Messages
  BY LookupType DEF InitTypeOK, Reply, Messages
<1>2. queue \in Seq(Messages) /\ Len(queue) <= Capacity /\ queue' = Sent(queue, r)
  BY DEF InitTypeOK, DispatchLookup
<1> HIDE DEF r
<1>3. queue' \in Seq(Messages) /\ Len(queue') <= Capacity
  BY <1>1, <1>2, SentToQueue
<1> QED BY <1>3 DEF InitTypeOK, DispatchLookup

LEMMA RelayTypes == ASSUME InitTypeOK, Relay PROVE InitTypeOK'
<1>1. queue \in Seq(Messages) /\ queue # << >> /\ Len(queue) <= Capacity
  BY DEF InitTypeOK, Relay
<1>2. queue' \in Seq(Messages) /\ Len(queue') = Len(queue)
  BY <1>1 DEF Relay
<1> QED BY <1>1, <1>2 DEF InitTypeOK, Relay

LEMMA AskTypes ==
  ASSUME InitTypeOK, NEW c \in Clients, NEW source \in Sources(c), NEW s \in ServiceIds,
         NEW type \in {"REGISTER", "LOOKUP"}, Ask(type, c, source, s),
         client' \in [Clients -> [pc : {"idle", "reply"}, req : Nat]]
  PROVE  InitTypeOK'
<1>1. /\ requests \in Seq(Asked) /\ Len(requests) \in Nat
      /\ queue \in Seq(Messages) /\ Len(queue) <= Capacity
  BY DEF InitTypeOK, Asked
<1>2. source \in Nat
  BY PidsAssumption DEF Sources
<1>3. Request(type, source, s) \in Messages
  <2>1. s \in Nat /\ Len(requests) + 1 \in Nat /\ INIT_PID \in Nat
    BY <1>1, PidsAssumption DEF INIT_PID
  <2> QED BY <1>2, <2>1 DEF Request, Messages
<1>4. queue' \in Seq(Messages) /\ Len(queue') <= Capacity
  BY <1>1, <1>3, SentToQueue DEF Ask
<1>5. requests' \in Seq(Asked)
  BY <1>1, <1>2 DEF Ask, Asked
<1> QED BY <1>4, <1>5 DEF InitTypeOK, Ask, Asked

LEMMA LookupReturnsTypes ==
  ASSUME InitTypeOK, NEW c \in Clients, LookupReturns(c) PROVE InitTypeOK'
<1>1. queue \in Seq(Messages) /\ Len(queue) <= Capacity /\ Capacity \in Nat
  BY SizesAssumption DEF InitTypeOK
<1>2. queue' \in Seq(Messages) /\ Len(queue') <= Capacity
  BY <1>1 DEF LookupReturns
<1>3. client' \in [Clients -> [pc : {"idle", "reply"}, req : Nat]]
  BY DEF InitTypeOK, LookupReturns, NotAsking
<1>4. found' \in [req : Nat, pid : Nat, own : BOOLEAN]
  <2>1. client[c].req \in Nat
    BY DEF InitTypeOK
  <2>2. (IF queue = << >> THEN 0 ELSE Head(queue).data) \in Nat
    <3>1. queue # << >> => Head(queue) \in Messages
      BY <1>1
    <3>2. queue # << >> => Head(queue).data \in Nat
      BY <3>1 DEF Messages
    <3> QED BY <3>2
  <2>3. (queue # << >> /\ Head(queue).type = "REPLY" /\ Head(queue).target = c) \in BOOLEAN
    BY Zenon
  <2> QED BY <2>1, <2>2, <2>3 DEF LookupReturns
<1> QED BY <1>2, <1>3, <1>4 DEF InitTypeOK, LookupReturns

LEMMA RegistryTypes ==
  ASSUME InitTypeOK, [InitNext]_initVars
  PROVE  InitTypeOK'
<1>1. CASE UNCHANGED initVars
  BY <1>1 DEF initVars, InitTypeOK
<1>2. CASE InitReceive
  BY <1>2, InitReceiveTypes
<1>3. CASE InitYield
  BY <1>3 DEF InitYield, initVars, InitTypeOK
<1>4. CASE DispatchRegister
  BY <1>4, DispatchRegisterTypes
<1>5. CASE DispatchLookup
  BY <1>5, DispatchLookupTypes
<1>6. CASE DispatchUnknown
  BY <1>6 DEF DispatchUnknown, InitTypeOK
<1>7. CASE Relay
  BY <1>7, RelayTypes
<1>8. ASSUME NEW c \in Clients, NEW source \in Sources(c), NEW s \in ServiceIds,
             register_with_init(c, source, s)
      PROVE  InitTypeOK'
  <2>1. client' \in [Clients -> [pc : {"idle", "reply"}, req : Nat]]
    BY <1>8 DEF InitTypeOK, register_with_init
  <2> QED BY <1>8, <2>1, AskTypes DEF register_with_init
<1>9. ASSUME NEW c \in Clients, NEW source \in Sources(c), NEW s \in ServiceIds,
             lookup_service(c, source, s)
      PROVE  InitTypeOK'
  <2>1. client' \in [Clients -> [pc : {"idle", "reply"}, req : Nat]]
    BY <1>9 DEF InitTypeOK, lookup_service
  <2> QED BY <1>9, <2>1, AskTypes DEF lookup_service
<1>10. ASSUME NEW c \in Clients, LookupReturns(c)
       PROVE  InitTypeOK'
  BY <1>10, LookupReturnsTypes
<1> QED BY <1>1, <1>2, <1>3, <1>4, <1>5, <1>6, <1>7, <1>8, <1>9, <1>10 DEF InitNext

\* Only a registration changes the table, and it adds one entry at the end.
LEMMA TableGrows ==
  ASSUME InitTypeOK, [InitNext]_initVars
  PROVE  /\ DOMAIN service_table \subseteq DOMAIN service_table' /\ DOMAIN service_table' \subseteq Nat
         /\ \A n \in DOMAIN service_table : service_table'[n] = service_table[n]
         /\ \A n \in DOMAIN service_table', k \in DOMAIN service_table :
              n \notin DOMAIN service_table => k < n
         /\ ~DispatchRegister => service_table' = service_table
<1>1. service_table \in Seq(Entry)
  BY DEF InitTypeOK, Entry
<1>2. CASE DispatchRegister /\ Len(service_table) < MAX_SERVICES
  <2> DEFINE e == [service_id |-> msg.data, provider_pid |-> msg.source, req |-> msg.req]
  <2>1. service_table' = Append(service_table, e)
    BY <1>2 DEF DispatchRegister, registry_register
  <2> HIDE DEF e
  <2>2. DOMAIN service_table' = DOMAIN service_table \cup {Len(service_table) + 1}
        /\ DOMAIN service_table = 1 .. Len(service_table) /\ Len(service_table) \in Nat
        /\ \A n \in DOMAIN service_table : service_table'[n] = service_table[n]
    BY <1>1, <2>1
  <2> QED BY <1>2, <2>2
<1>3. CASE ~(DispatchRegister /\ Len(service_table) < MAX_SERVICES)
  <2>1. service_table' = service_table
    BY <1>3 DEF DispatchRegister, registry_register, InitNext, initVars, InitReceive, InitYield,
         DispatchLookup, DispatchUnknown, Relay, register_with_init, lookup_service, Ask,
         LookupReturns
  <2> QED BY <1>1, <2>1
<1> QED BY <1>2, <1>3

\* init.c, registry_register: a service found once is found at the same
\* provider for ever; registering it again never redirects its clients.  This
\* needs nothing of the clients, not even that they say who they are.
THEOREM LookupStaysStable == InitSpec => LookupStable
<1>1. RegistryInit => InitTypeOK
  BY InitTypes
<1>2. InitTypeOK /\ [InitNext]_initVars => InitTypeOK'
  BY RegistryTypes
<1>3. InitTypeOK /\ [InitNext]_initVars =>
        [\A s \in ServiceIds : registry_lookup(s) # 0 => registry_lookup(s)' = registry_lookup(s)]_initVars
  <2> SUFFICES ASSUME InitTypeOK, [InitNext]_initVars, NEW s \in ServiceIds, registry_lookup(s) # 0
               PROVE  registry_lookup(s)' = registry_lookup(s)
    OBVIOUS
  <2>1. LookupIn(service_table', s) = LookupIn(service_table, s)
    BY TableGrows, LookupIsLookupIn, LookupKept
  <2> QED BY <2>1, LookupIsLookupIn
<1> QED BY <1>1, <1>2, <1>3, PTL DEF InitSpec, LookupStable

----------------------------------------------------------------------------
(***************************************************************************)
(* The registry, whether or not clients put their pid into their messages. *)
(***************************************************************************)
LEMMA RegistryInitInv == RegistryInit => RegistryInv
<1> SUFFICES ASSUME RegistryInit PROVE RegistryInv
  OBVIOUS
<1>1. InitTypeOK
  BY InitTypes
<1>2. QueueTruthful /\ QueueOnce /\ DispatchTruthful /\ TableOnce /\ RegistryTruthful
  BY DEF RegistryInit, QueueTruthful, QueueOnce, DispatchTruthful, TableOnce, RegistryTruthful
<1>3. LastRequest /\ FoundRequest /\ SourcesHonest /\ OwnReplyNamesProvider
  BY DEF RegistryInit, LastRequest, NotAsking, FoundRequest, SourcesHonest, OwnReplyNamesProvider
<1> QED BY <1>1, <1>2, <1>3 DEF RegistryInv

\* Steps that make no request, register nothing and answer no client: they
\* only move messages.
LEMMA MessagesMoved ==
  ASSUME RegistryInv, InitTypeOK', UNCHANGED <<service_table, client, requests, found>>
  PROVE  /\ RegistryTruthful' /\ LastRequest' /\ FoundRequest' /\ SourcesHonest'
         /\ OwnReplyNamesProvider'
BY DEF RegistryInv, RegistryTruthful, LastRequest, FoundRequest, SourcesHonest, OwnReplyNamesProvider

LEMMA InitReceiveInv ==
  ASSUME RegistryInv, InitReceive, InitTypeOK'
  PROVE  RegistryInv'
<1>1. /\ pc = "receive" /\ queue # << >> /\ msg' = Head(queue) /\ queue' = Tail(queue)
      /\ pc' = "dispatch" /\ UNCHANGED <<service_table, client, requests, found>>
  BY DEF InitReceive
<1>2. queue \in Seq(Messages)
  BY DEF RegistryInv, InitTypeOK
<1>3. /\ msg' = queue[1] /\ 1 \in DOMAIN queue
      /\ \A n \in DOMAIN queue' : n + 1 \in DOMAIN queue /\ queue'[n] = queue[n + 1] /\ n \in Nat /\ n # 0
  BY <1>1, <1>2
<1>4. QueueTruthful'
  BY <1>1, <1>3 DEF RegistryInv, QueueTruthful
<1>5. QueueOnce'
  <2> SUFFICES ASSUME NEW n \in DOMAIN queue', NEW k \in DOMAIN queue',
                      queue'[n].req = queue'[k].req
               PROVE  n = k
    BY DEF QueueOnce
  <2>1. n + 1 = k + 1
    BY <1>3 DEF RegistryInv, QueueOnce
  <2> QED BY <1>3, <2>1
<1>6. DispatchTruthful'
  <2>1. Says(msg', requests', service_table')
    BY <1>1, <1>3 DEF RegistryInv, QueueTruthful
  <2>2. ASSUME NEW n \in DOMAIN queue', queue'[n].req = msg'.req
        PROVE  FALSE
    <3>1. n + 1 = 1
      BY <1>3, <2>2 DEF RegistryInv, QueueOnce
    <3> QED BY <1>3, <3>1
  <2> QED BY <2>1, <2>2 DEF DispatchTruthful
<1>7. TableOnce'
  BY <1>1, <1>3 DEF RegistryInv, TableOnce
<1> QED BY <1>1, <1>4, <1>5, <1>6, <1>7, MessagesMoved DEF RegistryInv

\* The main loop's relay: every message stays, one place further on.
LEMMA RelayInv ==
  ASSUME RegistryInv, Relay, InitTypeOK'
  PROVE  RegistryInv'
<1> DEFINE from(n) == IF n < Len(queue) THEN n + 1 ELSE 1
<1>1. /\ queue # << >> /\ queue' = Append(Tail(queue), Head(queue))
      /\ UNCHANGED <<service_table, pc, msg, client, requests, found>>
  BY DEF Relay
<1>2. queue \in Seq(Messages) /\ Len(queue) \in Nat
  BY DEF RegistryInv, InitTypeOK
<1>3. \A n \in DOMAIN queue' : n \in 1 .. Len(queue) /\ from(n) \in DOMAIN queue
                               /\ queue'[n] = queue[from(n)]
  BY <1>1, <1>2
<1>4. QueueTruthful'
  BY <1>1, <1>3 DEF RegistryInv, QueueTruthful
<1>5. QueueOnce'
  <2> SUFFICES ASSUME NEW n \in DOMAIN queue', NEW k \in DOMAIN queue',
                      queue'[n].req = queue'[k].req
               PROVE  n = k
    BY DEF QueueOnce
  <2>1. from(n) = from(k)
    BY <1>3 DEF RegistryInv, QueueOnce
  <2>2. n \in 1 .. Len(queue) /\ k \in 1 .. Len(queue)
    BY <1>3
  <2> QED BY <1>2, <2>1, <2>2
<1> HIDE DEF from
<1>6. DispatchTruthful'
  BY <1>1, <1>3 DEF RegistryInv, DispatchTruthful
<1>7. TableOnce'
  BY <1>1, <1>3 DEF RegistryInv, TableOnce
<1> QED BY <1>1, <1>4, <1>5, <1>6, <1>7, MessagesMoved DEF RegistryInv

LEMMA DispatchUnknownInv ==
  ASSUME RegistryInv, DispatchUnknown, InitTypeOK'
  PROVE  RegistryInv'
<1>1. pc' = "receive" /\ UNCHANGED <<queue, service_table, msg, client, requests, found>>
  BY DEF DispatchUnknown
<1>2. QueueTruthful' /\ QueueOnce' /\ DispatchTruthful' /\ TableOnce'
  BY <1>1 DEF RegistryInv, QueueTruthful, QueueOnce, DispatchTruthful, TableOnce
<1> QED BY <1>1, <1>2, MessagesMoved DEF RegistryInv

\* The answer to a lookup takes the place of its question.
LEMMA DispatchLookupInv ==
  ASSUME RegistryInv, DispatchLookup, InitTypeOK'
  PROVE  RegistryInv'
<1> DEFINE r == Reply(msg, registry_lookup(msg.data))
<1>1. /\ pc = "dispatch" /\ msg.type = "LOOKUP" /\ queue' = Sent(queue, r) /\ pc' = "receive"
      /\ UNCHANGED <<service_table, msg, client, requests, found>>
  BY DEF DispatchLookup
<1>2. queue \in Seq(Messages) /\ Len(queue) <= Capacity /\ r \in Messages
  BY LookupType DEF RegistryInv, InitTypeOK, Reply, Messages
<1>3. r.req = msg.req /\ Says(r, requests, service_table)
  <2>1. Says(msg, requests, service_table)
    BY <1>1 DEF RegistryInv, DispatchTruthful
  <2>2. registry_lookup(msg.data) = LookupIn(service_table, msg.data)
    BY LookupIsLookupIn
  <2>3. /\ msg.req \in DOMAIN requests /\ requests[msg.req].type = "LOOKUP"
        /\ requests[msg.req].source = msg.source /\ requests[msg.req].service = msg.data
    BY <1>1, <2>1 DEF Says
  <2> QED BY <2>2, <2>3 DEF Says, Reply
<1> HIDE DEF r
<1>4. \A n \in DOMAIN queue' : IF n \in DOMAIN queue THEN queue'[n] = queue[n]
                               ELSE n = Len(queue) + 1 /\ queue'[n] = r
  <2>1. \A n \in DOMAIN Sent(queue, r) : IF n \in DOMAIN queue THEN Sent(queue, r)[n] = queue[n]
                                         ELSE n = Len(queue) + 1 /\ Sent(queue, r)[n] = r
    BY <1>2, SentToQueue
  <2> QED BY <1>1, <2>1
<1>5. \A n \in DOMAIN queue : queue[n].req # msg.req
  BY <1>1 DEF RegistryInv, DispatchTruthful
<1>6. QueueTruthful'
  BY <1>1, <1>3, <1>4 DEF RegistryInv, QueueTruthful
<1>7. QueueOnce'
  BY <1>3, <1>4, <1>5 DEF RegistryInv, QueueOnce
<1>8. DispatchTruthful'
  BY <1>1 DEF DispatchTruthful
<1>9. TableOnce'
  BY <1>1, <1>3, <1>4 DEF RegistryInv, TableOnce
<1> QED BY <1>1, <1>6, <1>7, <1>8, <1>9, MessagesMoved DEF RegistryInv

\* The entry takes over the number of the registration it stands for.
LEMMA DispatchRegisterInv ==
  ASSUME RegistryInv, DispatchRegister, InitTypeOK'
  PROVE  RegistryInv'
<1> DEFINE e == [service_id |-> msg.data, provider_pid |-> msg.source, req |-> msg.req]
<1>1. /\ pc = "dispatch" /\ msg.type = "REGISTER" /\ pc' = "receive"
      /\ UNCHANGED <<queue, msg, client, requests, found>>
      /\ service_table' = IF Len(service_table) < MAX_SERVICES THEN Append(service_table, e)
                          ELSE service_table
  BY DEF DispatchRegister, registry_register
<1>2. service_table \in Seq(Entry) /\ e \in Entry
  BY DEF RegistryInv, InitTypeOK, Messages, Entry
<1>3. /\ msg.req \in DOMAIN requests
      /\ requests[e.req].type = "REGISTER" /\ requests[e.req].source = e.provider_pid
      /\ requests[e.req].service = e.service_id
  BY <1>1 DEF RegistryInv, DispatchTruthful, Says
<1>4. e.req = msg.req
  OBVIOUS
<1> HIDE DEF e
<1>5. \A n \in DOMAIN service_table' :
        IF n \in DOMAIN service_table THEN service_table'[n] = service_table[n]
        ELSE n = Len(service_table) + 1 /\ service_table'[n] = e
  BY <1>1, <1>2, PutInSequence
<1>6. QueueTruthful'
  <2>1. InitTypeOK /\ [InitNext]_initVars
    BY DEF RegistryInv, InitNext
  <2>2. \A m : Says(m, requests, service_table) => Says(m, requests', service_table')
    BY <1>1, <2>1, TableGrows, SaysKept
  <2> QED BY <1>1, <2>2 DEF RegistryInv, QueueTruthful
<1>7. QueueOnce' /\ DispatchTruthful'
  BY <1>1 DEF RegistryInv, QueueOnce, DispatchTruthful
<1>8. TableOnce'
  BY <1>1, <1>3, <1>4, <1>5 DEF RegistryInv, TableOnce, DispatchTruthful
<1>9. RegistryTruthful'
  BY <1>1, <1>3, <1>4, <1>5 DEF RegistryInv, RegistryTruthful, TableOnce
<1>10. LastRequest' /\ FoundRequest' /\ SourcesHonest' /\ OwnReplyNamesProvider'
  BY <1>1 DEF RegistryInv, LastRequest, FoundRequest, SourcesHonest, OwnReplyNamesProvider
<1> QED BY <1>6, <1>7, <1>8, <1>9, <1>10 DEF RegistryInv

\* A new request gets the next number; its message may be dropped at once.
LEMMA AskInv ==
  ASSUME RegistryInv, InitTypeOK', NEW c \in Clients, NEW source \in Sources(c),
         NEW s \in ServiceIds, NEW type \in {"REGISTER", "LOOKUP"}, Ask(type, c, source, s)
  PROVE  /\ QueueTruthful' /\ QueueOnce' /\ DispatchTruthful' /\ TableOnce'
         /\ RegistryTruthful' /\ FoundRequest' /\ SourcesHonest' /\ OwnReplyNamesProvider'
<1> DEFINE m == Request(type, source, s)
           a == [type |-> type, from |-> c, source |-> source, service |-> s]
           N == Len(requests) + 1
<1>1. /\ requests' = Append(requests, a) /\ queue' = Sent(queue, m)
      /\ UNCHANGED <<service_table, pc, msg, found>>
  BY DEF Ask
<1>2. /\ queue \in Seq(Messages) /\ Len(queue) <= Capacity /\ Len(queue) \in Nat
      /\ requests \in Seq(Asked) /\ service_table \in Seq(Entry)
  BY DEF RegistryInv, InitTypeOK, Asked, Entry
<1>3. m \in Messages
  <2>1. source \in Nat /\ s \in Nat /\ N \in Nat /\ INIT_PID \in Nat
    BY <1>2, PidsAssumption DEF INIT_PID, Sources
  <2> QED BY <2>1 DEF Request, Messages
<1>4. \A n \in DOMAIN Sent(queue, m) : IF n \in DOMAIN queue THEN Sent(queue, m)[n] = queue[n]
                                       ELSE n = Len(queue) + 1 /\ Sent(queue, m)[n] = m
  <2> HIDE DEF m
  <2> QED BY <1>2, <1>3, SentToQueue
<1>5. a \in Asked
  BY PidsAssumption DEF Asked, Sources
<1>6. /\ N \notin DOMAIN requests /\ requests'[N] = a
      /\ DOMAIN requests' = DOMAIN requests \cup {N}
      /\ \A k \in DOMAIN requests : requests'[k] = requests[k] /\ k < N
  <2> HIDE DEF a
  <2> QED BY <1>1, <1>2, <1>5
<1>7. m.req = N /\ m.type = type /\ m.source = source /\ m.data = s
  BY DEF Request
<1> HIDE DEF m, a, N
<1>8. Says(m, requests', service_table)
  BY <1>6, <1>7 DEF Says, a
<1>9. \A x : Says(x, requests, service_table) => Says(x, requests', service_table')
  <2>1. DOMAIN service_table \subseteq Nat
    BY <1>2
  <2> QED BY <1>1, <1>6, <2>1, SaysKept
<1>10. \A n \in DOMAIN queue : queue[n].req \in DOMAIN requests
  BY DEF RegistryInv, QueueTruthful, Says
<1>11. QueueTruthful'
  BY <1>1, <1>4, <1>8, <1>9 DEF RegistryInv, QueueTruthful
<1>12. QueueOnce'
  BY <1>1, <1>4, <1>6, <1>7, <1>10 DEF RegistryInv, QueueOnce
<1>13. DispatchTruthful'
  <2>1. pc = "dispatch" => msg.req \in DOMAIN requests
    BY DEF RegistryInv, DispatchTruthful, Says
  <2> QED BY <1>1, <1>4, <1>6, <1>7, <1>9, <2>1 DEF RegistryInv, DispatchTruthful
<1>14. TableOnce'
  BY <1>1, <1>4, <1>6, <1>7 DEF RegistryInv, TableOnce
<1>15. RegistryTruthful'
  BY <1>1, <1>6 DEF RegistryInv, RegistryTruthful, TableOnce
<1>16. FoundRequest'
  BY <1>1, <1>6 DEF RegistryInv, FoundRequest
<1>17. OwnReplyNamesProvider'
  <2> SUFFICES ASSUME found.own, found.pid # 0
               PROVE  \E n \in DOMAIN requests' :
                        /\ requests'[n].type = "REGISTER" /\ requests'[n].from = found.pid
                        /\ requests'[n].source = found.pid
                        /\ \/ requests'[n].service = requests'[found.req].service
                           \/ \E k \in DOMAIN requests' :
                                 /\ k < found.req /\ requests'[k].type = "LOOKUP"
                                 /\ requests'[k].from = requests'[found.req].from
                                 /\ requests'[k].service = requests'[n].service
    BY <1>1 DEF OwnReplyNamesProvider
  <2>1. found.req \in DOMAIN requests
    BY DEF RegistryInv, FoundRequest
  <2>2. PICK n \in DOMAIN requests :
          /\ requests[n].type = "REGISTER" /\ requests[n].from = found.pid
          /\ requests[n].source = found.pid
          /\ \/ requests[n].service = requests[found.req].service
             \/ \E k \in DOMAIN requests :
                   /\ k < found.req /\ requests[k].type = "LOOKUP"
                   /\ requests[k].from = requests[found.req].from
                   /\ requests[k].service = requests[n].service
    BY DEF RegistryInv, OwnReplyNamesProvider
  <2>3. n \in DOMAIN requests'
    BY <1>6
  <2> QED BY <1>6, <2>1, <2>2, <2>3
<1>18. SourcesHonest'
  <2>1. a.from = c /\ a.source = source
    BY DEF a
  <2> QED BY <1>6, <2>1 DEF RegistryInv, SourcesHonest
<1> QED BY <1>11, <1>12, <1>13, <1>14, <1>15, <1>16, <1>17, <1>18

LEMMA RegisterInv ==
  ASSUME RegistryInv, InitTypeOK', NEW c \in Clients, NEW source \in Sources(c),
         NEW s \in ServiceIds, register_with_init(c, source, s)
  PROVE  RegistryInv'
<1>1. Ask("REGISTER", c, source, s) /\ UNCHANGED client /\ client[c] = NotAsking
      /\ requests' = Append(requests, [type |-> "REGISTER", from |-> c, source |-> source,
                                       service |-> s])
  BY DEF register_with_init, Ask
<1>2. requests \in Seq(Asked)
  BY DEF RegistryInv, InitTypeOK, Asked
<1>3. LastRequest'
  <2> SUFFICES ASSUME NEW d \in Clients, client[d].pc = "reply"
               PROVE  /\ client[d].req \in DOMAIN requests'
                      /\ requests'[client[d].req].type = "LOOKUP"
                      /\ requests'[client[d].req].from = d
                      /\ \A k \in DOMAIN requests' : requests'[k].from = d => k <= client[d].req
    BY <1>1 DEF LastRequest
  <2>1. d # c
    BY <1>1 DEF NotAsking
  <2>2. \A k \in DOMAIN requests : k \in DOMAIN requests' /\ requests'[k] = requests[k]
    BY <1>1, <1>2
  <2>3. \A k \in DOMAIN requests' : requests'[k].from = d => k \in DOMAIN requests
    BY <1>1, <1>2, <2>1
  <2> QED BY <2>2, <2>3 DEF RegistryInv, LastRequest
<1> QED BY <1>1, <1>3, AskInv DEF RegistryInv

LEMMA LookupServiceInv ==
  ASSUME RegistryInv, InitTypeOK', NEW c \in Clients, NEW source \in Sources(c),
         NEW s \in ServiceIds, lookup_service(c, source, s)
  PROVE  RegistryInv'
<1>1. Ask("LOOKUP", c, source, s)
      /\ client' = [client EXCEPT ![c] = [pc |-> "reply", req |-> Len(requests) + 1]]
      /\ requests' = Append(requests, [type |-> "LOOKUP", from |-> c, source |-> source,
                                       service |-> s])
  BY DEF lookup_service, Ask
<1>2. requests \in Seq(Asked) /\ client \in [Clients -> [pc : {"idle", "reply"}, req : Nat]]
  BY DEF RegistryInv, InitTypeOK, Asked
<1>3. LastRequest'
  <2> SUFFICES ASSUME NEW d \in Clients, client'[d].pc = "reply"
               PROVE  /\ client'[d].req \in DOMAIN requests'
                      /\ requests'[client'[d].req].type = "LOOKUP"
                      /\ requests'[client'[d].req].from = d
                      /\ \A k \in DOMAIN requests' : requests'[k].from = d => k <= client'[d].req
    BY DEF LastRequest
  <2>1. CASE d = c
    <3>1. client'[d].req = Len(requests) + 1
      BY <1>1, <1>2, <2>1
    <3>2. requests'[Len(requests) + 1] = [type |-> "LOOKUP", from |-> c, source |-> source,
                                           service |-> s]
          /\ DOMAIN requests' = 1 .. Len(requests) + 1 /\ Len(requests) \in Nat
      BY <1>1, <1>2
    <3> QED BY <2>1, <3>1, <3>2
  <2>2. CASE d # c
    <3>1. client'[d] = client[d]
      BY <1>1, <1>2, <2>2
    <3>2. \A k \in DOMAIN requests : k \in DOMAIN requests' /\ requests'[k] = requests[k]
      BY <1>1, <1>2
    <3>3. \A k \in DOMAIN requests' : requests'[k].from = d => k \in DOMAIN requests
      BY <1>1, <1>2, <2>2
    <3> QED BY <3>1, <3>2, <3>3 DEF RegistryInv, LastRequest
  <2> QED BY <2>1, <2>2
<1> QED BY <1>1, <1>3, AskInv DEF RegistryInv

\* The client takes whatever is at the head.  A reply to it answers its last
\* lookup or an earlier one.
LEMMA LookupReturnsInv ==
  ASSUME RegistryInv, InitTypeOK', NEW c \in Clients, LookupReturns(c)
  PROVE  RegistryInv'
<1>1. /\ client[c].pc = "reply"
      /\ found' = [req |-> client[c].req,
                   pid |-> IF queue = << >> THEN 0 ELSE Head(queue).data,
                   own |-> queue # << >> /\ Head(queue).type = "REPLY" /\ Head(queue).target = c]
      /\ queue' = IF queue = << >> THEN queue ELSE Tail(queue)
      /\ client' = [client EXCEPT ![c] = NotAsking]
      /\ UNCHANGED <<service_table, pc, msg, requests>>
  BY DEF LookupReturns
<1>2. /\ queue \in Seq(Messages) /\ client \in [Clients -> [pc : {"idle", "reply"}, req : Nat]]
      /\ service_table \in Seq(Entry)
  BY DEF RegistryInv, InitTypeOK, Entry
<1>3. PICK shift \in {0, 1} : \A n \in DOMAIN queue' :
        n + shift \in DOMAIN queue /\ queue'[n] = queue[n + shift] /\ n \in Nat
  <2>1. CASE queue = << >>
    BY <1>1, <2>1
  <2>2. CASE queue # << >>
    BY <1>1, <1>2, <2>2, TakenFromQueue
  <2> QED BY <2>1, <2>2
<1>4. QueueTruthful'
  BY <1>1, <1>3 DEF RegistryInv, QueueTruthful
<1>5. QueueOnce'
  <2> SUFFICES ASSUME NEW n \in DOMAIN queue', NEW k \in DOMAIN queue',
                      queue'[n].req = queue'[k].req
               PROVE  n = k
    BY DEF QueueOnce
  <2>1. n + shift = k + shift
    BY <1>3 DEF RegistryInv, QueueOnce
  <2> QED BY <1>3, <2>1
<1>6. DispatchTruthful'
  BY <1>1, <1>3 DEF RegistryInv, DispatchTruthful
<1>7. TableOnce' /\ RegistryTruthful'
  BY <1>1, <1>3 DEF RegistryInv, TableOnce, RegistryTruthful
<1>8. LastRequest'
  BY <1>1, <1>2 DEF RegistryInv, LastRequest, NotAsking
<1>9. FoundRequest'
  BY <1>1 DEF RegistryInv, FoundRequest, LastRequest
<1>10. OwnReplyNamesProvider'
  <2> SUFFICES ASSUME found'.own, found'.pid # 0
               PROVE  \E n \in DOMAIN requests :
                        /\ requests[n].type = "REGISTER" /\ requests[n].from = found'.pid
                        /\ requests[n].source = found'.pid
                        /\ \/ requests[n].service = requests[found'.req].service
                           \/ \E k \in DOMAIN requests :
                                 /\ k < found'.req /\ requests[k].type = "LOOKUP"
                                 /\ requests[k].from = requests[found'.req].from
                                 /\ requests[k].service = requests[n].service
    BY <1>1 DEF OwnReplyNamesProvider
  <2> DEFINE r == queue[1]
             last == client[c].req
  <2>1. queue # << >> /\ Head(queue).type = "REPLY" /\ Head(queue).target = c
    BY <1>1
  <2>2. r.type = "REPLY" /\ r.target = c /\ 1 \in DOMAIN queue
        /\ found'.pid = r.data /\ found'.req = last
    BY <1>1, <1>2, <2>1
  <2> HIDE DEF r, last
  <2>3. /\ r.req \in DOMAIN requests /\ requests[r.req].type = "LOOKUP" /\ requests[r.req].source = c
        /\ r.data = LookupIn(service_table, requests[r.req].service)
    BY <2>2 DEF RegistryInv, QueueTruthful, Says, r
  <2>4. last \in DOMAIN requests /\ requests[last].from = c /\ requests[r.req].from = c /\ r.req <= last
    <3>1. requests[r.req].from = c
      BY <2>3, PidsAssumption DEF RegistryInv, SourcesHonest, Sources
    <3> QED BY <1>1, <2>3, <3>1 DEF RegistryInv, LastRequest, last
  <2>5. PICK e \in DOMAIN service_table :
          /\ service_table[e].service_id = requests[r.req].service
          /\ service_table[e].provider_pid = r.data
    <3>1. DOMAIN service_table \subseteq Nat
      BY <1>2
    <3> QED BY <2>2, <2>3, <3>1, LookupAnswers
  <2>6. /\ service_table[e].req \in DOMAIN requests
        /\ requests[service_table[e].req].type = "REGISTER"
        /\ requests[service_table[e].req].service = requests[r.req].service
        /\ requests[service_table[e].req].source = r.data
        /\ requests[service_table[e].req].from = r.data
    BY <2>2, <2>5 DEF RegistryInv, RegistryTruthful, TableOnce, SourcesHonest, Sources
  <2>7. last \in Nat /\ r.req \in Nat
    <3>1. requests \in Seq(Asked)
      BY DEF RegistryInv, InitTypeOK, Asked
    <3> QED BY <2>3, <2>4, <3>1
  <2>8. r.req = last \/ r.req < last
    BY <2>4, <2>7
  <2> QED BY <2>2, <2>3, <2>4, <2>6, <2>8
<1>11. SourcesHonest'
  BY <1>1 DEF RegistryInv, SourcesHonest
<1> QED BY <1>4, <1>5, <1>6, <1>7, <1>8, <1>9, <1>10, <1>11 DEF RegistryInv

LEMMA RegistryNextInv ==
  ASSUME RegistryInv, [InitNext]_initVars
  PROVE  RegistryInv'
<1>1. InitTypeOK'
  BY RegistryTypes DEF RegistryInv
<1>2. CASE UNCHANGED initVars
  BY <1>1, <1>2 DEF initVars, RegistryInv, QueueTruthful, QueueOnce, DispatchTruthful, TableOnce,
       RegistryTruthful, LastRequest, FoundRequest, SourcesHonest, OwnReplyNamesProvider
<1>3. CASE InitReceive
  BY <1>1, <1>3, InitReceiveInv
<1>4. CASE DispatchRegister
  BY <1>1, <1>4, DispatchRegisterInv
<1>5. CASE DispatchLookup
  BY <1>1, <1>5, DispatchLookupInv
<1>6. CASE DispatchUnknown
  BY <1>1, <1>6, DispatchUnknownInv
<1>7. CASE Relay
  BY <1>1, <1>7, RelayInv
<1>8. CASE \E c \in Clients :
             \/ \E source \in Sources(c), s \in ServiceIds :
                   register_with_init(c, source, s) \/ lookup_service(c, source, s)
             \/ LookupReturns(c)
  BY <1>1, <1>8, RegisterInv, LookupServiceInv, LookupReturnsInv
<1>9. CASE InitYield
  BY <1>2, <1>9 DEF InitYield
<1> QED BY <1>2, <1>3, <1>4, <1>5, <1>6, <1>7, <1>8, <1>9 DEF InitNext

\* init.c and its clients, the documented ones, which leave msg.source 0, and
\* others: every entry of service_table stands for one registration, under the
\* PID its message gave; every reply in the queue goes to the PID its lookup gave
\* and names the provider still registered; and a client that receives a reply to
\* itself gets a process that registered, with its PID, the service it asked for
\* or one it asked for before and never heard about.
THEOREM RegistryStaysCorrect == InitSpec => []RegistryCorrect
<1>1. RegistryInit => RegistryInv
  BY RegistryInitInv
<1>2. RegistryInv /\ [InitNext]_initVars => RegistryInv'
  BY RegistryNextInv
<1>3. RegistryInv => RegistryCorrect
  <2> SUFFICES ASSUME RegistryInv PROVE RepliesTruthful
    BY DEF RegistryInv, RegistryCorrect
  <2>1. \A s : registry_lookup(s) = LookupIn(service_table, s)
    BY LookupIsLookupIn
  <2> QED BY <2>1 DEF RegistryInv, QueueTruthful, QueueOnce, Says, RepliesTruthful
<1> QED BY <1>1, <1>2, <1>3, PTL DEF InitSpec

----------------------------------------------------------------------------
(***************************************************************************)
(* The DOS25 boot loader                                                   *)
(*                                                                         *)
(* A ring is seen as the sequence of messages queued in it: sending        *)
(* appends to it and receiving takes its head, wherever the indices are.   *)
(* The invariant follows the two messages of the self-test from the ring   *)
(* to the requests taken: nothing the kernel sends comes before them.      *)
(***************************************************************************)
Message == [type : Types, long : BOOLEAN, sequence : Nat]
Places == 0 .. IPC_QUEUE_SIZE - 1
Ring == [producer_index : Places, consumer_index : Places, count : 0 .. IPC_QUEUE_SIZE,
         messages : [Places -> Message \cup {NoMessage}]]

\* The producer is as far ahead of the consumer as count says, and every place
\* between them holds a message.
RingOK(q) ==
    /\ q \in Ring
    /\ q.producer_index = (q.consumer_index + q.count) % IPC_QUEUE_SIZE
    /\ Queued(q) \in Seq(Message)

LoadSteps == {"memory_map", "shared_memory", "load_kernel", "tests"}

BootTypes ==
    /\ boot \in LoadSteps \cup {"jump", "daemon", "demo_completed", "off", "error_exit"}
    /\ statistics \in [sent : Nat, received : Nat, errors : Nat]
    /\ message_count \in Nat /\ kernel_sequence \in Nat /\ power \in {"on", "off"}
    /\ taken \in Seq(Message) /\ answered \in Seq(Nat) /\ answers \in Seq(Message)

RingsOK == RingOK(kernel_to_daemon) /\ RingOK(daemon_to_kernel)

\* Up to the start of the daemon nothing is taken, answered or counted.
NothingServed ==
    /\ daemon_to_kernel = EmptyQueue /\ message_count = 0
    /\ statistics = [sent |-> 0, received |-> 0, errors |-> 0]
    /\ taken = << >> /\ answered = << >> /\ answers = << >>

\* Both messages of the self-test, before any other.
BeginsWithTests(s) == Len(s) >= 2 /\ s[1] = GetTime(1) /\ Resets(s[2])

BootStages ==
    /\ boot \in LoadSteps \cup {"jump", "error_exit"} => NothingServed
    /\ boot \in LoadSteps => kernel_to_daemon = EmptyQueue
    /\ boot = "jump" => BeginsWithTests(Queued(kernel_to_daemon))
    /\ boot = "daemon" => /\ BeginsWithTests(taken \o Queued(kernel_to_daemon))
                          /\ message_count = Len(taken)
    /\ boot = "demo_completed" => BeginsWithTests(taken)
    /\ power = "on" <=> boot # "off"

BootInv == BootTypes /\ RingsOK /\ BootStages /\ AnswersFollowRequests

\* The indices wrap once at most.
WrapPlace(a) == IF a < IPC_QUEUE_SIZE THEN a ELSE a - IPC_QUEUE_SIZE

LEMMA PlaceWraps ==
  ASSUME NEW a \in 0 .. 2 * IPC_QUEUE_SIZE - 1
  PROVE  a % IPC_QUEUE_SIZE = WrapPlace(a) /\ WrapPlace(a) \in Places
BY Dos25Assumption DEF WrapPlace, Places

LEMMA SequenceIsFunction ==
  ASSUME NEW S, NEW s \in Seq(S)
  PROVE  s = [n \in 1 .. Len(s) |-> s[n]]
<1>1. s \in [1 .. Len(s) -> S]
  OBVIOUS
<1> QED BY <1>1

LEMMA QueuedAt ==
  ASSUME NEW q \in Ring
  PROVE  /\ q.count \in Nat /\ q.consumer_index \in Places
         /\ DOMAIN Queued(q) = 1 .. q.count
         /\ \A n \in 1 .. q.count :
               /\ Queued(q)[n] = q.messages[WrapPlace(q.consumer_index + n - 1)]
               /\ WrapPlace(q.consumer_index + n - 1) \in Places
<1>1. q.count \in 0 .. IPC_QUEUE_SIZE /\ q.consumer_index \in Places
  BY DEF Ring
<1>2. ASSUME NEW n \in 1 .. q.count
      PROVE  q.consumer_index + n - 1 \in 0 .. 2 * IPC_QUEUE_SIZE - 1
  BY <1>1, Dos25Assumption DEF Places
<1>3. ASSUME NEW n \in 1 .. q.count
      PROVE  Queued(q)[n] = q.messages[(q.consumer_index + n - 1) % IPC_QUEUE_SIZE]
  BY <1>1 DEF Queued
<1>4. DOMAIN Queued(q) = 1 .. q.count
  BY DEF Queued
<1>5. ASSUME NEW n \in 1 .. q.count
      PROVE  /\ Queued(q)[n] = q.messages[WrapPlace(q.consumer_index + n - 1)]
             /\ WrapPlace(q.consumer_index + n - 1) \in Places
  <2> DEFINE a == q.consumer_index + n - 1
  <2>1. a \in 0 .. 2 * IPC_QUEUE_SIZE - 1 /\ Queued(q)[n] = q.messages[a % IPC_QUEUE_SIZE]
    BY <1>2, <1>3
  <2> HIDE DEF a
  <2>2. a % IPC_QUEUE_SIZE = WrapPlace(a) /\ WrapPlace(a) \in Places
    BY <2>1, PlaceWraps
  <2>3. Queued(q)[n] = q.messages[WrapPlace(a)]
    BY <2>1, <2>2
  <2> QED BY <2>2, <2>3 DEF a
<1> QED BY <1>1, <1>4, <1>5

LEMMA QueuedLen ==
  ASSUME NEW q, RingOK(q)
  PROVE  Len(Queued(q)) = q.count /\ q.count \in 0 .. IPC_QUEUE_SIZE
<1>1. Queued(q) \in Seq(Message) /\ q \in Ring
  BY DEF RingOK
<1>2. DOMAIN Queued(q) = 1 .. q.count /\ q.count \in 0 .. IPC_QUEUE_SIZE
  BY <1>1 DEF Ring, Queued
<1>3. Len(Queued(q)) \in Nat /\ DOMAIN Queued(q) = 1 .. Len(Queued(q))
  BY <1>1
<1> QED BY <1>2, <1>3, Dos25Assumption

\* An empty queue.
LEMMA EmptyRing == RingOK(EmptyQueue) /\ Queued(EmptyQueue) = << >>
<1>1. EmptyQueue \in Ring
  BY Dos25Assumption DEF EmptyQueue, Ring, Places
<1>2. Queued(EmptyQueue) = << >>
  BY DEF Queued, EmptyQueue
<1>3. (0 + 0) % IPC_QUEUE_SIZE = 0
  BY PlaceWraps, Dos25Assumption DEF WrapPlace
<1>4. EmptyQueue.producer_index = (EmptyQueue.consumer_index + EmptyQueue.count) % IPC_QUEUE_SIZE
  BY <1>3 DEF EmptyQueue
<1> QED BY <1>1, <1>2, <1>4 DEF RingOK

LEMMA SendAppends ==
  ASSUME NEW q, RingOK(q), NEW m \in Message
  PROVE  /\ RingOK(ipc_send_message(q, m))
         /\ Queued(ipc_send_message(q, m)) =
               IF ipc_queue_full(q) THEN Queued(q) ELSE Append(Queued(q), m)
<1>0. CASE ipc_queue_full(q)
  BY <1>0 DEF ipc_send_message
<1>1. CASE ~ipc_queue_full(q)
  <2> DEFINE r == ipc_send_message(q, m)
             S == IPC_QUEUE_SIZE
             c == q.consumer_index
             k == q.count
  <2>1. q \in Ring /\ Queued(q) \in Seq(Message) /\ q.producer_index = (c + k) % S
    BY DEF RingOK
  <2>2. c \in Places /\ k \in 0 .. S - 1 /\ c \in Nat /\ k \in Nat /\ S \in Nat
    BY <1>1, <2>1, Dos25Assumption DEF Ring, Places, ipc_queue_full
  <2>3. q.producer_index = WrapPlace(c + k) /\ WrapPlace(c + k) \in Places
    <3>1. c + k \in 0 .. 2 * S - 1
      BY <2>2 DEF Places
    <3> QED BY <2>1, <3>1, PlaceWraps
  <2>4. /\ r = [q EXCEPT !.messages[q.producer_index] = m,
                        !.producer_index = (q.producer_index + 1) % S, !.count = k + 1]
    BY <1>1 DEF ipc_send_message
  <2>5. /\ r.consumer_index = c /\ r.count = k + 1
        /\ r.producer_index = (q.producer_index + 1) % S
        /\ r.messages = [q.messages EXCEPT ![q.producer_index] = m]
        /\ DOMAIN r = DOMAIN q
    BY <2>1, <2>4 DEF Ring
  <2>6. (q.producer_index + 1) % S = WrapPlace(WrapPlace(c + k) + 1)
        /\ (q.producer_index + 1) % S \in Places
    <3>1. WrapPlace(c + k) + 1 \in 0 .. 2 * S - 1
      BY <2>2, <2>3 DEF Places
    <3> QED BY <2>3, <3>1, PlaceWraps
  <2>7. WrapPlace(WrapPlace(c + k) + 1) = (c + (k + 1)) % S
    <3>1. c + (k + 1) \in 0 .. 2 * S - 1
      BY <2>2 DEF Places
    <3>2. (c + (k + 1)) % S = WrapPlace(c + (k + 1))
      BY <3>1, PlaceWraps
    <3>3. WrapPlace(WrapPlace(c + k) + 1) = WrapPlace(c + (k + 1))
      BY <2>2 DEF Places, WrapPlace
    <3> QED BY <3>2, <3>3
  <2>8. r \in Ring
    <3>1. r.messages \in [Places -> Message \cup {NoMessage}]
      BY <2>1, <2>5 DEF Ring
    <3>2. r.producer_index \in Places /\ r.consumer_index \in Places /\ r.count \in 0 .. S
      BY <2>2, <2>5, <2>6, Dos25Assumption
    <3>3. r = [producer_index |-> r.producer_index, consumer_index |-> r.consumer_index,
               count |-> r.count, messages |-> r.messages]
      BY <2>1, <2>4 DEF Ring
    <3> HIDE DEF r
    <3> QED BY <3>1, <3>2, <3>3 DEF Ring
  <2> HIDE DEF r
  <2>9. ASSUME NEW n \in 1 .. k PROVE Queued(r)[n] = Queued(q)[n]
    <3>1. n \in 1 .. r.count
      BY <2>2, <2>5
    <3>2. Queued(r)[n] = r.messages[WrapPlace(c + n - 1)]
          /\ Queued(q)[n] = q.messages[WrapPlace(c + n - 1)] /\ WrapPlace(c + n - 1) \in Places
      BY <2>1, <2>5, <2>8, <3>1, QueuedAt
    <3>3. WrapPlace(c + n - 1) # WrapPlace(c + k)
      BY <2>2 DEF WrapPlace, Places
    <3>4. q.messages \in [Places -> Message \cup {NoMessage}]
      BY <2>1 DEF Ring
    <3> QED BY <2>3, <2>5, <3>2, <3>3, <3>4
  <2>10. Queued(r)[k + 1] = m
    <3>1. k + 1 \in 1 .. r.count /\ c + (k + 1) - 1 = c + k
      BY <2>2, <2>5
    <3>2. Queued(r)[k + 1] = r.messages[WrapPlace(c + k)]
      <4>1. \A n \in 1 .. r.count : Queued(r)[n] = r.messages[WrapPlace(r.consumer_index + n - 1)]
        BY ONLY <2>8, QueuedAt
      <4>2. Queued(r)[k + 1] = r.messages[WrapPlace(c + (k + 1) - 1)]
        BY ONLY <2>5, <3>1, <4>1
      <4> QED BY ONLY <3>1, <4>2
    <3>4. q.messages \in [Places -> Message \cup {NoMessage}]
      BY <2>1 DEF Ring
    <3> QED BY <2>3, <2>5, <3>2, <3>4
  <2>11. Len(Queued(q)) = k
    BY QueuedLen
  <2>12. DOMAIN Queued(r) = 1 .. k + 1 /\ Queued(r) = [n \in 1 .. k + 1 |-> Queued(r)[n]]
    BY <2>5 DEF Queued
  <2>13. /\ Append(Queued(q), m) \in Seq(Message) /\ DOMAIN Append(Queued(q), m) = 1 .. k + 1
         /\ \A n \in 1 .. k : Append(Queued(q), m)[n] = Queued(q)[n]
         /\ Append(Queued(q), m)[k + 1] = m
    BY <2>1, <2>2, <2>11
  <2> DEFINE longer == Append(Queued(q), m)
  <2>14. longer = [n \in 1 .. k + 1 |-> longer[n]]
    <3>1. longer \in Seq(Message) /\ Len(longer) = k + 1
      BY <2>1, <2>2, <2>11
    <3> HIDE DEF longer
    <3> QED BY <3>1, SequenceIsFunction
  <2>15. \A n \in 1 .. k + 1 : longer[n] = Queued(r)[n]
    <3> HIDE DEF longer
    <3>1. \A n \in 1 .. k + 1 : n \in 1 .. k \/ n = k + 1
      BY <2>2
    <3> QED BY <2>9, <2>10, <2>13, <3>1 DEF longer
  <2>16. Queued(r) = longer
    <3> HIDE DEF longer
    <3> QED BY <2>12, <2>14, <2>15
  <2> QED BY <1>1, <2>5, <2>6, <2>7, <2>8, <2>13, <2>16 DEF RingOK, r
<1> QED BY <1>0, <1>1

LEMMA ReceiveTakesHead ==
  ASSUME NEW q, RingOK(q), ~ipc_queue_empty(q)
  PROVE  /\ RingOK(ipc_receive_message(q))
         /\ Queued(q) # << >>
         /\ Received(q) = Head(Queued(q)) /\ Received(q) \in Message
         /\ Queued(ipc_receive_message(q)) = Tail(Queued(q))
<1> DEFINE r == ipc_receive_message(q)
           S == IPC_QUEUE_SIZE
           c == q.consumer_index
           k == q.count
<1>1. q \in Ring /\ Queued(q) \in Seq(Message) /\ q.producer_index = (c + k) % S
  BY DEF RingOK
<1>2. c \in Places /\ k \in 1 .. S /\ c \in Nat /\ k \in Nat /\ S \in Nat
  BY <1>1, Dos25Assumption DEF Ring, Places, ipc_queue_empty
<1>3. Len(Queued(q)) = k
  BY QueuedLen
<1>4. /\ r.consumer_index = (c + 1) % S /\ r.count = k - 1
      /\ r.producer_index = q.producer_index /\ r.messages = q.messages
  BY <1>1 DEF Ring, ipc_receive_message
<1>5. (c + 1) % S = WrapPlace(c + 1) /\ WrapPlace(c + 1) \in Places
  <2>1. c + 1 \in 0 .. 2 * S - 1
    BY <1>2 DEF Places
  <2> QED BY <2>1, PlaceWraps
<1>6. (WrapPlace(c + 1) + (k - 1)) % S = q.producer_index
  <2>1. WrapPlace(c + 1) + (k - 1) \in 0 .. 2 * S - 1 /\ c + k \in 0 .. 2 * S - 1
    BY <1>2, <1>5 DEF Places
  <2>2. WrapPlace(WrapPlace(c + 1) + (k - 1)) = WrapPlace(c + k)
    BY <1>2 DEF Places, WrapPlace
  <2> QED BY <1>1, <2>1, <2>2, PlaceWraps
<1>7. r \in Ring
  <2>1. r.messages \in [Places -> Message \cup {NoMessage}] /\ r.producer_index \in Places
    BY <1>1, <1>4 DEF Ring
  <2>2. r.consumer_index \in Places /\ r.count \in 0 .. S
    BY <1>2, <1>4, <1>5, Dos25Assumption
  <2>3. r = [producer_index |-> r.producer_index, consumer_index |-> r.consumer_index,
             count |-> r.count, messages |-> r.messages]
    <3>1. r = [[q EXCEPT !.consumer_index = (c + 1) % S] EXCEPT !.count = k - 1]
      BY DEF ipc_receive_message
    <3> QED BY <1>1, <3>1 DEF Ring
  <2> HIDE DEF r
  <2> QED BY <2>1, <2>2, <2>3 DEF Ring
<1> HIDE DEF r
<1>8. ASSUME NEW n \in 1 .. k - 1 PROVE Queued(r)[n] = Queued(q)[n + 1]
  <2>1. n \in 1 .. r.count /\ n + 1 \in 1 .. k /\ c + (n + 1) - 1 = c + n
    BY <1>2, <1>4
  <2>2. Queued(r)[n] = q.messages[WrapPlace(WrapPlace(c + 1) + n - 1)]
    BY <1>4, <1>5, <1>7, <2>1, QueuedAt
  <2>3. Queued(q)[n + 1] = q.messages[WrapPlace(c + n)]
    BY <1>1, <2>1, QueuedAt
  <2>4. WrapPlace(WrapPlace(c + 1) + n - 1) = WrapPlace(c + n)
    BY <1>2 DEF Places, WrapPlace
  <2> QED BY <2>2, <2>3, <2>4
<1>9. Queued(q)[1] = Received(q)
  <2>1. 1 \in 1 .. k /\ c + 1 - 1 = c /\ WrapPlace(c) = c
    BY <1>2 DEF Places, WrapPlace
  <2> QED BY <1>1, <2>1, QueuedAt DEF Received
<1>10. /\ Queued(q) # << >> /\ Head(Queued(q)) = Queued(q)[1] /\ Queued(q)[1] \in Message
       /\ Tail(Queued(q)) \in Seq(Message) /\ DOMAIN Tail(Queued(q)) = 1 .. k - 1
       /\ \A n \in 1 .. k - 1 : Tail(Queued(q))[n] = Queued(q)[n + 1]
  <2>1. 1 \in 1 .. k
    BY <1>2
  <2> QED BY <1>1, <1>2, <1>3, <2>1
<1>11. DOMAIN Queued(r) = 1 .. k - 1 /\ Queued(r) = [n \in 1 .. k - 1 |-> Queued(r)[n]]
  BY <1>4 DEF Queued
<1> DEFINE rest == Tail(Queued(q))
<1>12. rest = [n \in 1 .. k - 1 |-> rest[n]]
  <2>1. rest \in Seq(Message) /\ Len(rest) = k - 1
    BY <1>1, <1>2, <1>3
  <2> HIDE DEF rest
  <2> QED BY <2>1, SequenceIsFunction
<1>13. Queued(r) = rest
  <2>1. \A n \in 1 .. k - 1 : Queued(r)[n] = rest[n]
    BY <1>8, <1>10
  <2> HIDE DEF rest
  <2> QED BY <1>11, <1>12, <2>1
<1>14. RingOK(r)
  BY <1>4, <1>5, <1>6, <1>7, <1>10, <1>13 DEF RingOK
<1> QED BY <1>9, <1>10, <1>13, <1>14 DEF r

LEMMA AnswerAppended ==
  ASSUME NEW s \in Seq(Message), NEW t \in Seq(Message), NEW a \in Seq(Nat), NEW m \in Message,
         \A n \in DOMAIN a : a[n] \in DOMAIN t,
         s = [n \in DOMAIN a |-> t[a[n]]]
  PROVE  /\ s = [n \in DOMAIN a |-> Append(t, m)[a[n]]]
         /\ Append(s, m) = [n \in DOMAIN Append(a, Len(t) + 1) |->
                               Append(t, m)[Append(a, Len(t) + 1)[n]]]
<1> DEFINE longer == Append(t, m)
           more == Append(a, Len(t) + 1)
           s2 == Append(s, m)
           k == Len(a)
<1>1. /\ longer \in Seq(Message) /\ \A i \in DOMAIN t : longer[i] = t[i]
      /\ longer[Len(t) + 1] = m /\ Len(t) \in Nat
  OBVIOUS
<1>2. /\ DOMAIN more = 1 .. k + 1 /\ k \in Nat /\ DOMAIN a = 1 .. k
      /\ \A n \in 1 .. k : more[n] = a[n]
      /\ more[k + 1] = Len(t) + 1
  BY <1>1
<1>3. Len(s) = k
  <2>1. DOMAIN s = 1 .. k
    BY <1>2
  <2>2. Len(s) \in Nat /\ DOMAIN s = 1 .. Len(s)
    OBVIOUS
  <2> QED BY <1>2, <2>1, <2>2
<1>4. /\ s2 \in Seq(Message) /\ Len(s2) = k + 1 /\ s2[k + 1] = m
      /\ \A n \in 1 .. k : s2[n] = s[n]
  BY <1>2, <1>3
<1>5. \A n \in DOMAIN a : longer[a[n]] = t[a[n]]
  BY <1>1
<1>6. s2 = [n \in 1 .. k + 1 |-> s2[n]]
  <2> HIDE DEF s2
  <2> QED BY <1>4, SequenceIsFunction
<1>7. \A n \in 1 .. k + 1 : s2[n] = longer[more[n]]
  <2> HIDE DEF s2, longer, more
  <2>1. \A n \in 1 .. k + 1 : n \in 1 .. k \/ n = k + 1
    BY <1>2
  <2>2. s2[k + 1] = longer[more[k + 1]]
    BY <1>1, <1>2, <1>4
  <2>3. ASSUME NEW n \in 1 .. k PROVE s2[n] = longer[more[n]]
    <3>1. s2[n] = t[a[n]] /\ more[n] = a[n] /\ n \in DOMAIN a
      BY <1>2, <1>4
    <3> QED BY <1>5, <3>1
  <2> QED BY <2>1, <2>2, <2>3
<1> HIDE DEF s2, longer, more, k
<1>8. s = [n \in DOMAIN a |-> longer[a[n]]]
  BY <1>5
<1>9. s2 = [n \in DOMAIN more |-> longer[more[n]]]
  BY <1>2, <1>6, <1>7
<1> QED BY <1>8, <1>9 DEF s2, longer, more

LEMMA ConcatMoves ==
  ASSUME NEW s \in Seq(Message), NEW q \in Seq(Message), NEW m \in Message
  PROVE  /\ s \o Append(q, m) = Append(s \o q, m) /\ s \o q \in Seq(Message)
         /\ q # << >> => Append(s, Head(q)) \o Tail(q) = s \o q
<1>1. s \o q \in Seq(Message) /\ s \o Append(q, m) = Append(s \o q, m)
  OBVIOUS
<1>2. ASSUME q # << >>
      PROVE  Append(s, Head(q)) \o Tail(q) = s \o q
  <2>1. /\ Head(q) \in Message /\ Head(q) = q[1] /\ Len(q) \in Nat /\ Len(q) >= 1
        /\ Tail(q) \in Seq(Message) /\ Len(Tail(q)) = Len(q) - 1
        /\ \A n \in 1 .. Len(q) - 1 : Tail(q)[n] = q[n + 1]
    BY <1>2
  <2> DEFINE x == Append(s, Head(q))
             l == x \o Tail(q)
             r == s \o q
  <2>2. /\ x \in Seq(Message) /\ Len(x) = Len(s) + 1 /\ x[Len(s) + 1] = q[1]
        /\ \A n \in 1 .. Len(s) : x[n] = s[n]
        /\ Len(s) \in Nat
    BY <2>1
  <2> HIDE DEF x
  <2>3. /\ l \in Seq(Message) /\ Len(l) = Len(s) + Len(q)
        /\ \A n \in 1 .. Len(s) + 1 : l[n] = x[n]
        /\ \A n \in 1 .. Len(q) - 1 : l[Len(s) + 1 + n] = Tail(q)[n]
    BY <2>1, <2>2
  <2>4. /\ r \in Seq(Message) /\ Len(r) = Len(s) + Len(q)
        /\ \A n \in 1 .. Len(s) : r[n] = s[n]
        /\ \A n \in 1 .. Len(q) : r[Len(s) + n] = q[n]
    BY <2>1
  <2> HIDE DEF l, r
  <2>5. ASSUME NEW n \in 1 .. Len(s) + Len(q) PROVE l[n] = r[n]
    <3>1. CASE n <= Len(s)
      BY <2>1, <2>2, <2>3, <2>4, <3>1
    <3>2. CASE n = Len(s) + 1
      <4>1. 1 \in 1 .. Len(q) /\ n \in 1 .. Len(s) + 1
        BY <2>1, <2>2, <3>2
      <4> QED BY <2>2, <2>3, <2>4, <3>2, <4>1
    <3>3. CASE n > Len(s) + 1
      <4> DEFINE k == n - Len(s) - 1
      <4>1. /\ k \in 1 .. Len(q) - 1 /\ k + 1 \in 1 .. Len(q)
            /\ n = Len(s) + 1 + k /\ n = Len(s) + (k + 1)
        BY <2>1, <2>2, <3>3
      <4> HIDE DEF k
      <4>2. l[n] = Tail(q)[k] /\ r[n] = q[k + 1]
        BY <2>3, <2>4, <4>1
      <4> QED BY <2>1, <4>1, <4>2
    <3> QED BY <2>1, <2>2, <3>1, <3>2, <3>3
  <2>6. l = [n \in 1 .. Len(s) + Len(q) |-> l[n]] /\ r = [n \in 1 .. Len(s) + Len(q) |-> r[n]]
    BY <2>3, <2>4, SequenceIsFunction
  <2>7. l = r
    BY <2>5, <2>6
  <2> QED BY <2>7 DEF l, r, x
<1> QED BY <1>1, <1>2

LEMMA SecondIsLast ==
  ASSUME NEW s \in Seq(Message), NEW m \in Message, Len(s) = 1
  PROVE  Len(Append(s, m)) = 2 /\ Append(s, m)[1] = s[1] /\ Append(s, m)[2] = m
BY PutInSequence

LEMMA StaysFirst ==
  ASSUME NEW s \in Seq(Message), NEW m \in Message, BeginsWithTests(s)
  PROVE  BeginsWithTests(Append(s, m))
BY DEF BeginsWithTests

----------------------------------------------------------------------------
LEMMA BootInitInv == BootInit => BootInv
<1> SUFFICES ASSUME BootInit PROVE BootInv
  OBVIOUS
<1>1. RingsOK
  BY EmptyRing DEF BootInit, RingsOK
<1>2. BootTypes /\ BootStages
  BY DEF BootInit, BootTypes, BootStages, NothingServed, LoadSteps
<1>3. AnswersFollowRequests
  <2>1. answers \o Queued(daemon_to_kernel) = << >>
    BY EmptyRing DEF BootInit
  <2> QED BY <2>1 DEF BootInit, AnswersFollowRequests
<1> QED BY <1>1, <1>2, <1>3 DEF BootInv

\* Nothing changes while nothing is served.
LEMMA NothingServedFollows ==
  ASSUME NothingServed
  PROVE  AnswersFollowRequests
<1>1. answers \o Queued(daemon_to_kernel) = << >>
  BY EmptyRing DEF NothingServed
<1> QED BY <1>1 DEF NothingServed, AnswersFollowRequests

LEMMA LoadInv ==
  ASSUME BootInv, get_memory_map_simple \/ setup_shared_memory \/ load_kernel
  PROVE  BootInv'
<1>1. /\ boot \in LoadSteps /\ boot' \in (LoadSteps \cup {"error_exit"}) \ {"memory_map"}
      /\ UNCHANGED <<message_count, power, kernel_sequence, taken, answered, answers>>
  BY DEF get_memory_map_simple, setup_shared_memory, load_kernel, Step, LoadSteps, histories
<1>2. NothingServed /\ kernel_to_daemon = EmptyQueue /\ power = "on"
  BY <1>1 DEF BootInv, BootStages, LoadSteps
<1>3. /\ kernel_to_daemon' = EmptyQueue /\ daemon_to_kernel' = EmptyQueue
      /\ statistics' = [sent |-> 0, received |-> 0, errors |-> 0]
  BY <1>2 DEF get_memory_map_simple, setup_shared_memory, load_kernel, NothingServed, queues
<1>4. NothingServed'
  BY <1>1, <1>2, <1>3 DEF NothingServed, EmptyQueue, NoMessage
<1>5. AnswersFollowRequests'
  <2>1. answers' \o Queued(daemon_to_kernel') = << >>
    BY <1>3, <1>4, EmptyRing DEF NothingServed
  <2> QED BY <1>4, <2>1 DEF NothingServed, AnswersFollowRequests
<1>6. RingsOK'
  BY <1>3, EmptyRing DEF RingsOK
<1>7. BootTypes'
  BY <1>1, <1>3 DEF BootInv, BootTypes, LoadSteps
<1>8. BootStages'
  BY <1>1, <1>2, <1>3, <1>4 DEF BootStages, LoadSteps, EmptyQueue
<1> QED BY <1>5, <1>6, <1>7, <1>8 DEF BootInv

\* What the daemon keeps is not touched by a step that only sends to it.
ToDaemonOnly ==
    UNCHANGED <<daemon_to_kernel, statistics, message_count, power, taken, answered, answers>>

LEMMA FollowsKept ==
  ASSUME BootInv, ToDaemonOnly
  PROVE  AnswersFollowRequests' /\ RingOK(daemon_to_kernel)'
<1>1. Queued(daemon_to_kernel)' = Queued(daemon_to_kernel)
  BY DEF ToDaemonOnly, Queued
<1> QED BY <1>1 DEF ToDaemonOnly, BootInv, RingsOK, AnswersFollowRequests, RingOK, Ring

LEMMA TestsInv ==
  ASSUME BootInv, run_ipc_tests
  PROVE  BootInv'
<1> DEFINE reset == [type |-> "RESET_SYSTEM", long |-> TRUE, sequence |-> 2]
           one == ipc_send_message(EmptyQueue, GetTime(1))
           two == ipc_send_message(one, reset)
<1>1. boot = "tests" /\ boot' = "jump" /\ ToDaemonOnly /\ kernel_sequence' = kernel_sequence
  BY DEF run_ipc_tests, ToDaemonOnly, histories
<1>2. NothingServed /\ kernel_to_daemon = EmptyQueue /\ power = "on"
  BY <1>1 DEF BootInv, BootStages, LoadSteps
<1>3. kernel_to_daemon' = two
  BY <1>2 DEF run_ipc_tests
<1>4. GetTime(1) \in Message /\ reset \in Message
  BY DEF GetTime, Message, Types
<1>5. ~ipc_queue_full(EmptyQueue)
  BY Dos25Assumption DEF ipc_queue_full, EmptyQueue
<1>6. RingOK(one) /\ Queued(one) = <<GetTime(1)>>
  <2>1. RingOK(one) /\ Queued(one) = Append(Queued(EmptyQueue), GetTime(1))
    BY <1>4, <1>5, EmptyRing, SendAppends
  <2>2. Append(Queued(EmptyQueue), GetTime(1)) = <<GetTime(1)>>
    BY EmptyRing
  <2> QED BY <2>1, <2>2
<1>7. one.count = 1
  BY <1>6, QueuedLen
<1>8. ~ipc_queue_full(one)
  BY <1>7, Dos25Assumption DEF ipc_queue_full
<1>9. RingOK(two) /\ Queued(two) = Append(Queued(one), reset)
  <2> HIDE DEF one, reset
  <2> QED BY <1>4, <1>6, <1>8, SendAppends
<1>10. BeginsWithTests(Queued(two))
  <2>1. Queued(one) \in Seq(Message) /\ Len(Queued(one)) = 1 /\ Queued(one)[1] = GetTime(1)
    BY <1>6 DEF RingOK
  <2> DEFINE s == Queued(one)
             t == Append(s, reset)
  <2> HIDE DEF one, reset, s
  <2>2. Len(t) = 2 /\ t[1] = s[1] /\ t[2] = reset
    <3>1. s \in Seq(Message) /\ Len(s) = 1 /\ reset \in Message
      BY <1>4, <2>1 DEF s
    <3> QED BY <3>1, SecondIsLast
  <2>3. Resets(reset)
    BY DEF Resets, reset
  <2> QED BY <1>9, <2>1, <2>2, <2>3 DEF BeginsWithTests, s
<1> HIDE DEF two, one
<1>11. AnswersFollowRequests' /\ RingOK(daemon_to_kernel)'
  BY <1>1, FollowsKept
<1>12. RingsOK'
  BY <1>3, <1>9, <1>11 DEF RingsOK
<1>13. BootTypes'
  BY <1>1 DEF BootInv, BootTypes, ToDaemonOnly
<1>14. NothingServed'
  BY <1>1, <1>2 DEF NothingServed, ToDaemonOnly, EmptyQueue, NoMessage
<1>15. BootStages'
  BY <1>1, <1>2, <1>3, <1>10, <1>14 DEF BootStages, LoadSteps, ToDaemonOnly
<1> QED BY <1>11, <1>12, <1>13, <1>15 DEF BootInv

\* A message sent to the daemon comes after those that are there.
LEMMA SentAfterTests ==
  ASSUME NEW s \in Seq(Message), NEW q, RingOK(q), NEW m \in Message,
         BeginsWithTests(s \o Queued(q))
  PROVE  BeginsWithTests(s \o Queued(ipc_send_message(q, m)))
<1>1. Queued(q) \in Seq(Message)
  BY DEF RingOK
<1>2. CASE ipc_queue_full(q)
  BY <1>2, SendAppends
<1>3. CASE ~ipc_queue_full(q)
  <2>1. s \o Queued(ipc_send_message(q, m)) = Append(s \o Queued(q), m)
    <3>1. Queued(ipc_send_message(q, m)) = Append(Queued(q), m)
      BY <1>3, SendAppends
    <3> QED BY <1>1, <3>1, ConcatMoves
  <2>2. s \o Queued(q) \in Seq(Message)
    BY <1>1, ConcatMoves
  <2> QED BY <2>1, <2>2, StaysFirst
<1> QED BY <1>2, <1>3

LEMMA JumpInv ==
  ASSUME BootInv, jump_to_kernel
  PROVE  BootInv'
<1>1. boot = "jump" /\ boot' = "daemon" /\ ToDaemonOnly /\ kernel_sequence' = kernel_sequence
      /\ kernel_to_daemon' = ipc_send_message(kernel_to_daemon, GetTime(1))
  BY DEF jump_to_kernel, ToDaemonOnly, histories
<1>2. NothingServed /\ BeginsWithTests(Queued(kernel_to_daemon)) /\ power = "on"
  BY <1>1 DEF BootInv, BootStages
<1>3. RingOK(kernel_to_daemon) /\ taken \in Seq(Message) /\ GetTime(1) \in Message
  BY DEF BootInv, RingsOK, BootTypes, GetTime, Message, Types
<1>4. BeginsWithTests(taken \o Queued(kernel_to_daemon))
  <2>1. Queued(kernel_to_daemon) \in Seq(Message)
    BY <1>3 DEF RingOK
  <2>2. taken \o Queued(kernel_to_daemon) = Queued(kernel_to_daemon)
    BY <1>2, <2>1 DEF NothingServed
  <2> QED BY <1>2, <2>2
<1>5. BeginsWithTests(taken \o Queued(kernel_to_daemon)) ' /\ RingOK(kernel_to_daemon)'
  <2>1. BeginsWithTests(taken \o Queued(ipc_send_message(kernel_to_daemon, GetTime(1))))
    BY <1>3, <1>4, SentAfterTests
  <2>2. RingOK(ipc_send_message(kernel_to_daemon, GetTime(1)))
    BY <1>3, SendAppends
  <2>3. RingOK(kernel_to_daemon')
    BY <1>1, <2>2
  <2>4. BeginsWithTests(taken' \o Queued(kernel_to_daemon'))
    BY <1>1, <2>1 DEF ToDaemonOnly
  <2> QED BY <2>3, <2>4
<1>6. AnswersFollowRequests' /\ RingOK(daemon_to_kernel)'
  BY <1>1, FollowsKept
<1>7. BootTypes' /\ RingsOK'
  BY <1>1, <1>5, <1>6 DEF BootInv, BootTypes, ToDaemonOnly, RingsOK
<1>8. message_count' = Len(taken') /\ power' = "on"
  BY <1>1, <1>2 DEF NothingServed, ToDaemonOnly
<1>9. BootStages'
  BY <1>1, <1>5, <1>8 DEF BootStages, LoadSteps
<1> QED BY <1>6, <1>7, <1>9 DEF BootInv

LEMMA KernelSendsInv ==
  ASSUME BootInv, KernelSends
  PROVE  BootInv'
<1>1. PICK m \in Message : kernel_to_daemon' = ipc_send_message(kernel_to_daemon, m)
  <2>1. kernel_sequence + 1 \in Nat /\ kernel_sequence' = kernel_sequence + 1
    BY DEF BootInv, BootTypes, KernelSends
  <2> QED BY <2>1 DEF KernelSends, Message
<1>2. boot = "daemon" /\ boot' = "daemon" /\ ToDaemonOnly /\ kernel_sequence' \in Nat
  BY DEF KernelSends, ToDaemonOnly, BootInv, BootTypes, histories
<1>3. RingOK(kernel_to_daemon) /\ taken \in Seq(Message)
      /\ BeginsWithTests(taken \o Queued(kernel_to_daemon)) /\ message_count = Len(taken)
      /\ power = "on"
  BY <1>2 DEF BootInv, RingsOK, BootTypes, BootStages
<1>4. BeginsWithTests(taken' \o Queued(kernel_to_daemon')) /\ RingOK(kernel_to_daemon')
  <2>1. BeginsWithTests(taken \o Queued(ipc_send_message(kernel_to_daemon, m)))
    BY <1>3, SentAfterTests
  <2>2. RingOK(ipc_send_message(kernel_to_daemon, m))
    BY <1>3, SendAppends
  <2> QED BY <1>1, <1>2, <2>1, <2>2 DEF ToDaemonOnly
<1>5. AnswersFollowRequests' /\ RingOK(daemon_to_kernel)'
  BY <1>2, FollowsKept
<1>6. BootTypes' /\ RingsOK'
  BY <1>2, <1>4, <1>5 DEF BootInv, BootTypes, ToDaemonOnly, RingsOK
<1>7. BootStages'
  BY <1>2, <1>3, <1>4 DEF BootStages, LoadSteps, ToDaemonOnly
<1> QED BY <1>5, <1>6, <1>7 DEF BootInv

LEMMA KernelTakesInv ==
  ASSUME BootInv, KernelTakes
  PROVE  BootInv'
<1>1. /\ boot = "daemon" /\ boot' = "daemon" /\ ~ipc_queue_empty(daemon_to_kernel)
      /\ answers' = Append(answers, Received(daemon_to_kernel))
      /\ daemon_to_kernel' = ipc_receive_message(daemon_to_kernel)
      /\ UNCHANGED <<kernel_to_daemon, statistics, message_count, power, kernel_sequence, taken,
                     answered>>
  BY DEF KernelTakes
<1>2. RingOK(daemon_to_kernel) /\ answers \in Seq(Message) /\ Queued(daemon_to_kernel) \in Seq(Message)
  BY DEF BootInv, RingsOK, BootTypes, RingOK
<1>3. /\ RingOK(daemon_to_kernel') /\ Queued(daemon_to_kernel) # << >>
      /\ Received(daemon_to_kernel) = Head(Queued(daemon_to_kernel))
      /\ Received(daemon_to_kernel) \in Message
      /\ Queued(daemon_to_kernel') = Tail(Queued(daemon_to_kernel))
  BY <1>1, <1>2, ReceiveTakesHead
<1>4. answers' \o Queued(daemon_to_kernel') = answers \o Queued(daemon_to_kernel)
  BY <1>1, <1>2, <1>3, ConcatMoves
<1>5. AnswersFollowRequests'
  BY <1>1, <1>4 DEF BootInv, AnswersFollowRequests
<1>6. RingOK(kernel_to_daemon') /\ Queued(kernel_to_daemon') = Queued(kernel_to_daemon)
  BY <1>1 DEF BootInv, RingsOK
<1>7. BootTypes' /\ RingsOK'
  BY <1>1, <1>2, <1>3, <1>6 DEF BootInv, BootTypes, RingsOK
<1>8. BootStages'
  BY <1>1, <1>6 DEF BootInv, BootStages, LoadSteps
<1> QED BY <1>5, <1>7, <1>8 DEF BootInv

LEMMA DaemonEndsInv ==
  ASSUME BootInv, DaemonEnds
  PROVE  BootInv'
<1>1. /\ boot = "daemon" /\ boot' = "demo_completed"
      /\ message_count >= MAX_MESSAGES \/ ipc_queue_empty(kernel_to_daemon)
      /\ ToDaemonOnly /\ UNCHANGED <<kernel_to_daemon, kernel_sequence>>
  BY DEF DaemonEnds, ToDaemonOnly, queues, histories
<1>2. /\ BeginsWithTests(taken \o Queued(kernel_to_daemon)) /\ message_count = Len(taken)
      /\ power = "on" /\ taken \in Seq(Message)
      /\ Queued(kernel_to_daemon) \in Seq(Message) /\ RingOK(kernel_to_daemon)
  BY <1>1 DEF BootInv, RingsOK, BootTypes, BootStages, RingOK
<1>3. Len(taken) >= 2
  <2>1. CASE message_count >= MAX_MESSAGES
    BY <1>2, <2>1, Dos25Assumption
  <2>2. CASE ipc_queue_empty(kernel_to_daemon)
    <3>1. Len(Queued(kernel_to_daemon)) = 0
      BY <1>2, <2>2, QueuedLen DEF ipc_queue_empty
    <3>2. taken \o Queued(kernel_to_daemon) = taken
      BY <1>2, <3>1
    <3> QED BY <1>2, <3>2 DEF BeginsWithTests
  <2> QED BY <1>1, <2>1, <2>2
<1>4. BeginsWithTests(taken)
  <2>1. (taken \o Queued(kernel_to_daemon))[1] = taken[1]
        /\ (taken \o Queued(kernel_to_daemon))[2] = taken[2]
    BY <1>2, <1>3
  <2> QED BY <1>2, <1>3, <2>1 DEF BeginsWithTests
<1>5. AnswersFollowRequests' /\ RingOK(daemon_to_kernel)'
  BY <1>1, FollowsKept
<1>6. BootTypes'
  BY <1>1 DEF BootInv, BootTypes, ToDaemonOnly
<1>7. RingsOK'
  <2>1. RingOK(kernel_to_daemon')
    BY <1>1, <1>2
  <2> QED BY <1>5, <2>1 DEF RingsOK
<1>8. BootStages'
  <2>1. BeginsWithTests(taken')
    BY <1>1, <1>4 DEF ToDaemonOnly
  <2> QED BY <1>1, <1>2, <2>1 DEF BootStages, LoadSteps, ToDaemonOnly
<1> QED BY <1>5, <1>6, <1>7, <1>8 DEF BootInv

\* A turn of the daemon: the request is taken, and answered only if it could be
\* processed and the answer has room.
DaemonTurn(m, ok) ==
    /\ daemon_to_kernel' =
          IF ok THEN ipc_send_message(daemon_to_kernel, Response(m)) ELSE daemon_to_kernel
    /\ statistics' = Counted(statistics, Processed(m), ok)
    /\ message_count' = message_count + 1
    /\ boot' = IF m.type = "SHUTDOWN" THEN "demo_completed" ELSE boot
    /\ answered' = IF ok THEN Append(answered, Len(taken) + 1) ELSE answered
    /\ UNCHANGED power

TurnedOff ==
    /\ power' = "off" /\ boot' = "off"
    /\ UNCHANGED <<daemon_to_kernel, statistics, message_count, answered>>

LEMMA TakenLonger ==
  ASSUME BootInv, NEW m \in Message
  PROVE  /\ Append(taken, m) \in Seq(Message) /\ Len(Append(taken, m)) = Len(taken) + 1
         /\ Len(taken) \in Nat /\ DOMAIN taken = 1 .. Len(taken)
         /\ DOMAIN Append(taken, m) = 1 .. Len(taken) + 1
         /\ Append(taken, m)[Len(taken) + 1] = m
         /\ \A n \in DOMAIN taken : Append(taken, m)[n] = taken[n]
BY DEF BootInv, BootTypes

\* What is answered was taken before.
LEMMA AnsweredWereTaken ==
  ASSUME BootInv, NEW m \in Message, taken' = Append(taken, m)
  PROVE  \A n \in DOMAIN answered :
            /\ answered[n] \in DOMAIN taken /\ answered[n] \in DOMAIN taken'
            /\ taken'[answered[n]] = taken[answered[n]]
            /\ Processed(taken'[answered[n]])
            /\ answered[n] < Len(taken) + 1
<1>1. \A n \in DOMAIN answered : answered[n] \in DOMAIN taken /\ Processed(taken[answered[n]])
  BY DEF BootInv, AnswersFollowRequests
<1> QED BY <1>1, TakenLonger

\* Without an answer the answers still follow the requests.
LEMMA UnansweredFollow ==
  ASSUME BootInv, NEW m \in Message, taken' = Append(taken, m),
         UNCHANGED <<answers, answered, daemon_to_kernel>>
  PROVE  /\ answers' \o Queued(daemon_to_kernel)' = [n \in DOMAIN answered' |-> taken'[answered'[n]]]
         /\ \A n \in DOMAIN answered' :
               /\ answered'[n] \in DOMAIN taken' /\ Processed(taken'[answered'[n]])
               /\ \A k \in 1 .. n - 1 : answered'[k] < answered'[n]
<1>1. Queued(daemon_to_kernel)' = Queued(daemon_to_kernel)
  BY DEF Queued
<1>2. /\ answers \o Queued(daemon_to_kernel) = [n \in DOMAIN answered |-> taken[answered[n]]]
      /\ \A n \in DOMAIN answered : \A k \in 1 .. n - 1 : answered[k] < answered[n]
  BY DEF BootInv, AnswersFollowRequests
<1>3. [n \in DOMAIN answered |-> taken[answered[n]]] = [n \in DOMAIN answered |-> taken'[answered[n]]]
  BY AnsweredWereTaken
<1> QED BY <1>1, <1>2, <1>3, AnsweredWereTaken

LEMMA AnsweredFollow ==
  ASSUME BootInv, NEW m \in Message, taken' = Append(taken, m), Processed(m),
         ~ipc_queue_full(daemon_to_kernel),
         daemon_to_kernel' = ipc_send_message(daemon_to_kernel, m),
         answered' = Append(answered, Len(taken) + 1), answers' = answers
  PROVE  /\ answers' \o Queued(daemon_to_kernel)' = [n \in DOMAIN answered' |-> taken'[answered'[n]]]
         /\ \A n \in DOMAIN answered' :
               /\ answered'[n] \in DOMAIN taken' /\ Processed(taken'[answered'[n]])
               /\ \A k \in 1 .. n - 1 : answered'[k] < answered'[n]
<1> DEFINE s == answers \o Queued(daemon_to_kernel)
<1>1. /\ RingOK(daemon_to_kernel) /\ Queued(daemon_to_kernel) \in Seq(Message)
      /\ answers \in Seq(Message) /\ taken \in Seq(Message) /\ answered \in Seq(Nat)
  BY DEF BootInv, RingsOK, RingOK, BootTypes
<1>2. Queued(daemon_to_kernel)' = Append(Queued(daemon_to_kernel), m)
  <2>1. Queued(ipc_send_message(daemon_to_kernel, m)) = Append(Queued(daemon_to_kernel), m)
    BY <1>1, SendAppends
  <2>2. Queued(daemon_to_kernel)' = Queued(daemon_to_kernel')
    BY DEF Queued
  <2> QED BY <2>1, <2>2
<1>3. answers' \o Queued(daemon_to_kernel)' = Append(s, m) /\ s \in Seq(Message)
  BY <1>1, <1>2, ConcatMoves
<1>4. /\ s = [n \in DOMAIN answered |-> taken[answered[n]]]
      /\ \A n \in DOMAIN answered : answered[n] \in DOMAIN taken
      /\ \A n \in DOMAIN answered : \A k \in 1 .. n - 1 : answered[k] < answered[n]
  BY DEF BootInv, AnswersFollowRequests
<1> HIDE DEF s
<1>5. Append(s, m) = [n \in DOMAIN answered' |-> taken'[answered'[n]]]
  <2>1. Append(s, m) = [n \in DOMAIN Append(answered, Len(taken) + 1) |->
                           Append(taken, m)[Append(answered, Len(taken) + 1)[n]]]
    <3>1. s \in Seq(Message) /\ taken \in Seq(Message) /\ answered \in Seq(Nat)
      BY <1>1, <1>3
    <3>2. \A n \in DOMAIN answered : answered[n] \in DOMAIN taken
      BY <1>4
    <3>3. s = [n \in DOMAIN answered |-> taken[answered[n]]]
      BY <1>4
    <3> HIDE DEF s
    <3> QED BY ONLY <3>1, <3>2, <3>3, m \in Message, AnswerAppended, SMTT(20)
  <2>2. answered' = Append(answered, Len(taken) + 1) /\ taken' = Append(taken, m)
    OBVIOUS
  <2> HIDE DEF s
  <2> QED BY <2>1, <2>2, Zenon
<1>6. /\ Len(answered) \in Nat /\ DOMAIN answered = 1 .. Len(answered)
      /\ DOMAIN answered' = 1 .. Len(answered) + 1
      /\ \A n \in 1 .. Len(answered) : answered'[n] = answered[n]
      /\ answered'[Len(answered) + 1] = Len(taken) + 1
  <2>1. Len(taken) + 1 \in Nat
    BY <1>1
  <2> QED BY <1>1, <2>1
<1>7. ASSUME NEW n \in DOMAIN answered'
      PROVE  /\ answered'[n] \in DOMAIN taken' /\ Processed(taken'[answered'[n]])
             /\ \A k \in 1 .. n - 1 : answered'[k] < answered'[n]
  <2>1. CASE n \in DOMAIN answered
    <3>1. answered'[n] = answered[n] /\ \A k \in 1 .. n - 1 : answered'[k] = answered[k]
      BY <1>6, <2>1
    <3> QED BY <1>4, <2>1, <3>1, AnsweredWereTaken
  <2>2. CASE n = Len(answered) + 1
    <3>1. answered'[n] = Len(taken) + 1 /\ taken'[Len(taken) + 1] = m /\ Len(taken) + 1 \in DOMAIN taken'
      BY <1>6, <2>2, TakenLonger
    <3>2. \A k \in 1 .. n - 1 : k \in DOMAIN answered /\ answered'[k] = answered[k]
      BY <1>6, <2>2
    <3> QED BY <3>1, <3>2, AnsweredWereTaken
  <2> QED BY <1>6, <2>1, <2>2
<1> QED BY <1>3, <1>5, <1>7

LEMMA DaemonServesInv ==
  ASSUME BootInv, DaemonServes
  PROVE  BootInv'
<1> DEFINE m == Received(kernel_to_daemon)
           ok == Processed(m) /\ ~ipc_queue_full(daemon_to_kernel)
<1>1. /\ boot = "daemon" /\ ~ipc_queue_empty(kernel_to_daemon)
      /\ kernel_to_daemon' = ipc_receive_message(kernel_to_daemon)
      /\ taken' = Append(taken, m)
      /\ UNCHANGED <<kernel_sequence, answers>>
      /\ (Resets(m) /\ TurnedOff) \/ DaemonTurn(m, ok)
  BY Zenon DEF DaemonServes, Serving, TurnedOff, DaemonTurn
<1>2. /\ RingOK(kernel_to_daemon) /\ Queued(kernel_to_daemon) \in Seq(Message)
      /\ RingOK(daemon_to_kernel) /\ taken \in Seq(Message)
      /\ BeginsWithTests(taken \o Queued(kernel_to_daemon)) /\ message_count = Len(taken)
      /\ power = "on"
  BY <1>1 DEF BootInv, RingsOK, BootTypes, BootStages, RingOK
<1>3. /\ RingOK(ipc_receive_message(kernel_to_daemon)) /\ Queued(kernel_to_daemon) # << >>
      /\ m = Head(Queued(kernel_to_daemon)) /\ m \in Message
      /\ Queued(ipc_receive_message(kernel_to_daemon)) = Tail(Queued(kernel_to_daemon))
  BY <1>1, <1>2, ReceiveTakesHead
<1> HIDE DEF m
<1>4. /\ taken' \o Queued(kernel_to_daemon') = taken \o Queued(kernel_to_daemon)
      /\ taken' \in Seq(Message) /\ Len(taken') = Len(taken) + 1
  BY <1>1, <1>2, <1>3, ConcatMoves, TakenLonger
<1>5. (taken \o Queued(kernel_to_daemon))[Len(taken) + 1] = m
  <2>1. /\ Len(Queued(kernel_to_daemon)) >= 1 /\ Queued(kernel_to_daemon)[1] = m
        /\ Len(Queued(kernel_to_daemon)) \in Nat
    BY <1>2, <1>3
  <2> QED BY <1>2, <2>1
<1>6. CASE Resets(m) /\ TurnedOff
  <2>1. /\ boot' = "off" /\ power' = "off"
        /\ UNCHANGED <<daemon_to_kernel, statistics, message_count, answered>>
    BY <1>6 DEF TurnedOff
  <2>2. AnswersFollowRequests'
    <3>1. power' # "on"
      BY <2>1
    <3> QED BY <1>1, <1>3, <2>1, <3>1, UnansweredFollow DEF AnswersFollowRequests
  <2>3. BootTypes'
    BY <1>1, <1>4, <2>1 DEF BootInv, BootTypes
  <2>4. RingsOK'
    <3>1. RingOK(kernel_to_daemon') /\ RingOK(daemon_to_kernel')
      BY <1>1, <1>2, <1>3, <2>1
    <3> QED BY <3>1 DEF RingsOK
  <2>5. BootStages'
    BY <2>1 DEF BootStages, LoadSteps
  <2> QED BY <2>2, <2>3, <2>4, <2>5 DEF BootInv
<1>7. CASE DaemonTurn(m, ok)
  <2>1. /\ statistics' = Counted(statistics, Processed(m), ok)
        /\ message_count' = message_count + 1 /\ power' = "on"
        /\ boot' = IF m.type = "SHUTDOWN" THEN "demo_completed" ELSE "daemon"
        /\ ok => /\ daemon_to_kernel' = ipc_send_message(daemon_to_kernel, m)
                 /\ answered' = Append(answered, Len(taken) + 1)
        /\ ~ok => UNCHANGED <<daemon_to_kernel, answered>>
    <3> HIDE DEF ok
    <3> QED BY <1>1, <1>2, <1>7 DEF DaemonTurn, Response
  <2>2. RingOK(daemon_to_kernel')
    <3>1. RingOK(ipc_send_message(daemon_to_kernel, m))
      BY <1>2, <1>3, SendAppends
    <3> QED BY <1>2, <2>1, <3>1
  <2>3. /\ answers' \o Queued(daemon_to_kernel)' = [n \in DOMAIN answered' |-> taken'[answered'[n]]]
        /\ \A n \in DOMAIN answered' :
              /\ answered'[n] \in DOMAIN taken' /\ Processed(taken'[answered'[n]])
              /\ \A k \in 1 .. n - 1 : answered'[k] < answered'[n]
    <3>1. CASE ok
      <4>1. Processed(m) /\ ~ipc_queue_full(daemon_to_kernel)
        BY <3>1
      <4> QED BY <1>1, <1>3, <2>1, <3>1, <4>1, AnsweredFollow
    <3>2. CASE ~ok
      BY <1>1, <1>3, <2>1, <3>2, UnansweredFollow
    <3> QED BY <3>1, <3>2
  <2>4. /\ answered' \in Seq(Nat)
        /\ Len(answered') = IF ok THEN Len(answered) + 1 ELSE Len(answered)
    <3>1. answered \in Seq(Nat) /\ Len(taken) + 1 \in Nat
      BY <1>2 DEF BootInv, BootTypes
    <3> HIDE DEF ok
    <3> QED BY <2>1, <3>1
  <2>5. /\ statistics' \in [sent : Nat, received : Nat, errors : Nat]
        /\ statistics'.sent = Len(answered') /\ statistics'.received = Len(taken')
        /\ statistics'.sent + statistics'.errors = Len(taken')
    <3>1. /\ statistics \in [sent : Nat, received : Nat, errors : Nat]
          /\ statistics.sent = Len(answered) /\ statistics.received = Len(taken)
          /\ statistics.sent + statistics.errors = Len(taken)
      BY <1>2 DEF BootInv, BootTypes, AnswersFollowRequests
    <3>2. statistics' = [statistics EXCEPT !.sent = IF ok THEN @ + 1 ELSE @, !.received = @ + 1,
                                          !.errors = IF ok THEN @ ELSE @ + 1]
      BY <2>1 DEF Counted
    <3>3. taken \in Seq(Message) /\ answered \in Seq(Nat)
      BY <1>2 DEF BootInv, BootTypes
    <3>4. Len(taken) \in Nat /\ Len(answered) \in Nat
      BY <3>3
    <3> HIDE DEF ok
    <3>5. CASE ok
      <4>1. statistics' = [sent |-> statistics.sent + 1, received |-> statistics.received + 1,
                           errors |-> statistics.errors]
        BY <3>1, <3>2, <3>5
      <4>2. Len(answered') = Len(answered) + 1
        BY <2>4, <3>5
      <4>3. /\ statistics.sent \in Nat /\ statistics.received \in Nat /\ statistics.errors \in Nat
        BY <3>1
      <4> QED BY ONLY <1>4, <3>1, <3>4, <4>1, <4>2, <4>3
    <3>6. CASE ~ok
      <4>1. statistics' = [sent |-> statistics.sent, received |-> statistics.received + 1,
                           errors |-> statistics.errors + 1]
        BY <3>1, <3>2, <3>6
      <4>2. Len(answered') = Len(answered)
        BY <2>4, <3>6
      <4>3. /\ statistics.sent \in Nat /\ statistics.received \in Nat /\ statistics.errors \in Nat
        BY <3>1
      <4> QED BY ONLY <1>4, <3>1, <3>4, <4>1, <4>2, <4>3
    <3> QED BY <3>5, <3>6
  <2>6. AnswersFollowRequests'
    BY <2>3, <2>5 DEF AnswersFollowRequests
  <2>7. BootTypes'
    BY <1>1, <1>2, <1>4, <2>1, <2>4, <2>5 DEF BootInv, BootTypes, LoadSteps
  <2>8. RingsOK'
    <3>1. RingOK(kernel_to_daemon')
      BY <1>1, <1>3
    <3> QED BY <2>2, <3>1 DEF RingsOK
  <2>9. message_count' = Len(taken')
    BY <1>2, <1>4, <2>1
  <2>10. BeginsWithTests(taken' \o Queued(kernel_to_daemon'))
    BY <1>2, <1>4
  <2>11. ASSUME boot' = "demo_completed" PROVE BeginsWithTests(taken')
    <3>1. m.type = "SHUTDOWN"
      BY <2>1, <2>11
    <3>2. /\ (taken \o Queued(kernel_to_daemon))[1].type = "GET_TIME"
          /\ (taken \o Queued(kernel_to_daemon))[2].type = "RESET_SYSTEM"
      BY <1>2 DEF BeginsWithTests, GetTime, Resets
    <3>3. Len(taken) + 1 # 1 /\ Len(taken) + 1 # 2 /\ Len(taken) \in Nat
      <4>1. m.type # "GET_TIME" /\ m.type # "RESET_SYSTEM"
        BY <3>1
      <4> HIDE DEF m
      <4>2. Len(taken) \in Nat
        BY <1>2
      <4>3. Len(taken) + 1 # 1
        BY <1>5, <3>2, <4>1, Zenon
      <4>4. Len(taken) + 1 # 2
        BY <1>5, <3>2, <4>1, Zenon
      <4> QED BY <4>2, <4>3, <4>4
    <3>4. Queued(kernel_to_daemon') \in Seq(Message)
      BY <1>1, <1>3 DEF RingOK
    <3>5. Len(taken') >= 2
      BY <1>4, <3>3
    <3>6. /\ (taken' \o Queued(kernel_to_daemon'))[1] = taken'[1]
          /\ (taken' \o Queued(kernel_to_daemon'))[2] = taken'[2]
      BY <1>4, <3>4, <3>5
    <3> QED BY <2>10, <3>5, <3>6 DEF BeginsWithTests
  <2>12. BootStages'
    <3>1. boot' \in {"demo_completed", "daemon"}
      BY <2>1
    <3>2. (taken \o Queued(kernel_to_daemon))' = taken' \o Queued(kernel_to_daemon')
      BY DEF Queued
    <3> QED BY <2>1, <2>9, <2>10, <2>11, <3>1, <3>2 DEF BootStages, LoadSteps
  <2> QED BY <2>6, <2>7, <2>8, <2>12 DEF BootInv
<1> QED BY <1>1, <1>6, <1>7

LEMMA BootNextInv == BootInv /\ [BootNext]_bootVars => BootInv'
<1> SUFFICES ASSUME BootInv, [BootNext]_bootVars PROVE BootInv'
  OBVIOUS
<1>1. CASE get_memory_map_simple \/ setup_shared_memory \/ load_kernel
  BY <1>1, LoadInv
<1>2. CASE run_ipc_tests
  BY <1>2, TestsInv
<1>3. CASE jump_to_kernel
  BY <1>3, JumpInv
<1>4. CASE DaemonServes
  BY <1>4, DaemonServesInv
<1>5. CASE DaemonEnds
  BY <1>5, DaemonEndsInv
<1>6. CASE KernelSends
  BY <1>6, KernelSendsInv
<1>7. CASE KernelTakes
  BY <1>7, KernelTakesInv
<1>8. CASE UNCHANGED bootVars
  <2>1. AnswersFollowRequests'
    BY <1>8 DEF BootInv, AnswersFollowRequests, bootVars, Queued
  <2>2. BootTypes' /\ RingsOK'
    BY <1>8 DEF BootInv, BootTypes, RingsOK, RingOK, Queued, Ring, bootVars
  <2>3. BootStages'
    BY <1>8 DEF BootInv, BootStages, NothingServed, EmptyQueue, NoMessage, Queued, bootVars
  <2> QED BY <2>1, <2>2, <2>3 DEF BootInv
<1> QED BY <1>1, <1>2, <1>3, <1>4, <1>5, <1>6, <1>7, <1>8 DEF BootNext

LEMMA BootInvIsEnough == BootInv => BootCorrect
<1> SUFFICES ASSUME BootInv PROVE BootCorrect
  OBVIOUS
<1>1. BootTypeOK
  BY DEF BootInv, RingsOK, RingOK, Ring, Places, BootTypeOK
<1>2. CompletesIfResetRefused
  <2> SUFFICES ASSUME boot = "demo_completed"
               PROVE  power = "on" /\ \E n \in DOMAIN taken : n <= 2 /\ Resets(taken[n])
    BY DEF CompletesIfResetRefused
  <2>1. power = "on" /\ BeginsWithTests(taken) /\ taken \in Seq(Message)
    BY DEF BootInv, BootStages, BootTypes
  <2>2. 2 \in DOMAIN taken /\ Resets(taken[2])
    BY <2>1 DEF BeginsWithTests
  <2> QED BY <2>1, <2>2
<1> QED BY <1>1, <1>2 DEF BootInv, BootCorrect

\* The rings between the kernel and the daemon never lose, repeat or reorder a
\* request or an answer, also when they wrap or are full; the answers and the
\* statistics follow the requests; and the loader says that it completed only on
\* a machine whose firmware refused the reset of its self-test (daemon.c,
\* runtime.c, ipc_test.c); for every ring size and number of requests.
THEOREM BootStaysCorrect == BootSpec => []BootCorrect
<1>1. BootInit => BootInv
  BY BootInitInv
<1>2. BootInv /\ [BootNext]_bootVars => BootInv'
  BY BootNextInv
<1>3. BootInv => BootCorrect
  BY BootInvIsEnough
<1> QED BY <1>1, <1>2, <1>3, PTL DEF BootSpec

----------------------------------------------------------------------------
(***************************************************************************)
(* The message bus of ESMCP                                                *)
(*                                                                         *)
(* No pending entry is left behind, and sendMessage is the call of         *)
(* RequestReply.  The invariant follows each message: it is in a delivery, *)
(* in one place of one inbox, or handled, never in two of them, and only   *)
(* after its call was submitted.                                           *)
(***************************************************************************)
Held(r, s) == \E k \in 1 .. Len(inbox[s]) : inbox[s][k] = r

\* Message r has left the caller for service s.
Out(r, s) == <<r, s>> \in deliveries \/ Held(r, s) \/ handled[s][r] > 0

\* A message is in one place and handled once.
OnePlace ==
    /\ \A r \in Requests, s \in Services :
         /\ handled[s][r] \in {0, 1}
         /\ <<r, s>> \in deliveries => ~Held(r, s) /\ handled[s][r] = 0
         /\ Held(r, s) => handled[s][r] = 0
    /\ \A s \in Services : \A j, k \in 1 .. Len(inbox[s]) : inbox[s][j] = inbox[s][k] => j = k

\* Only submitted messages are out, a call's only to its addressee.
OutAfterSubmit ==
    \A r \in Requests, s \in Services : Out(r, s) =>
        /\ call[r] \in {"waiting", "answered", "timeout", "broadcast"}
        /\ call[r] # "broadcast" => s = to[r]

\* A thread completes only what it handled, and only for a call.
ThreadsHandled ==
    \A s \in Services :
        /\ thread[s].at \in {"remove", "complete"} => handled[s][thread[s].req] > 0
        /\ thread[s].at = "complete" => call[thread[s].req] # "broadcast"

\* An answer has been made by the addressee.
AnswersMade ==
    \A r \in Requests :
        /\ future[r] = "done" => handled[to[r]][r] > 0
        /\ call[r] = "answered" => future[r] = "done"

BusInv ==
    /\ TypeOK
    /\ NoPendingLeak
    /\ OnePlace
    /\ OutAfterSubmit
    /\ ThreadsHandled
    /\ AnswersMade

USE AddressAssumption

\* Service.receive appends to the inbox.
LEMMA AppendFacts ==
  ASSUME NEW S, NEW q \in Seq(S), NEW e \in S
  PROVE  /\ Append(q, e) \in Seq(S)
         /\ Len(Append(q, e)) = Len(q) + 1
         /\ \A k \in 1 .. Len(q) : Append(q, e)[k] = q[k]
         /\ Append(q, e)[Len(q) + 1] = e
OBVIOUS

\* inbox.take removes the oldest message.
LEMMA TailFacts ==
  ASSUME NEW S, NEW q \in Seq(S), q # << >>
  PROVE  /\ Tail(q) \in Seq(S)
         /\ Len(q) \in Nat \ {0}
         /\ Len(Tail(q)) = Len(q) - 1
         /\ \A k \in 1 .. Len(q) - 1 : Tail(q)[k] = q[k + 1]
         /\ Head(q) = q[1] /\ Head(q) \in S
OBVIOUS

\* Before start nothing is registered, pending or out.
LEMMA BusInit == Init => BusInv
<1> SUFFICES ASSUME Init PROVE BusInv
  OBVIOUS
<1>1. TypeOK
  BY DEF Init, TypeOK, Calls, Exited
<1>2. \A r, s : s \in Services => ~Held(r, s)
  BY DEF Init, Held
<1>3. NoPendingLeak /\ AnswersMade
  BY DEF Init, NoPendingLeak, AnswersMade
<1>4. OnePlace
  BY <1>2 DEF Init, OnePlace
<1>5. OutAfterSubmit
  BY <1>2 DEF Init, OutAfterSubmit, Out
<1>6. ThreadsHandled
  BY DEF Init, ThreadsHandled, Exited
<1> QED BY <1>1, <1>3, <1>4, <1>5, <1>6 DEF BusInv

\* A service thread past inbox.take is busy with a request.
LEMMA BusyWithRequest ==
  ASSUME NEW t \in {Taking, Exited} \cup [at : {"remove", "complete"}, req : Requests],
         t.at \in {"remove", "complete"}
  PROVE  t.req \in Requests
BY DEF Taking, Exited

\* Every step of the bus keeps its types.
LEMMA TypeStep == TypeOK /\ [Next]_vars => TypeOK'
<1> SUFFICES ASSUME TypeOK, [Next]_vars PROVE TypeOK'
  OBVIOUS
<1> USE DEF TypeOK, Calls, busVars, callVars, serviceVars
<1>1. CASE start \/ shutdown \/ ShutdownExecutor
  BY <1>1 DEF start, shutdown, ShutdownExecutor
<1>2. ASSUME NEW s \in Services,
             registerService(s) \/ unregisterService(s) \/ Interrupt(s) \/ ShutdownService(s)
      PROVE  TypeOK'
  BY <1>2 DEF registerService, unregisterService, Interrupt, ShutdownService, Stop, Taking, Exited
<1>3. ASSUME NEW s \in Services, Handle(s) PROVE TypeOK'
  <2>1. Head(inbox[s]) \in Requests /\ Tail(inbox[s]) \in Seq(Requests)
    BY <1>3, TailFacts DEF Handle
  <2>2. At("remove", Head(inbox[s])) \in [at : {"remove", "complete"}, req : Requests]
    BY <2>1 DEF At
  <2>3. handled' \in [Services -> [Requests -> Nat]]
    <3>1. handled[s] \in [Requests -> Nat]
      OBVIOUS
    <3>2. [handled[s] EXCEPT ![Head(inbox[s])] = handled[s][Head(inbox[s])] + 1]
            \in [Requests -> Nat]
      BY <2>1, <3>1
    <3>3. handled' = [handled EXCEPT ![s] =
              [handled[s] EXCEPT ![Head(inbox[s])] = handled[s][Head(inbox[s])] + 1]]
      BY <1>3 DEF Handle
    <3> QED BY <3>2, <3>3
  <2>4. inbox' \in [Services -> Seq(Requests)]
    BY <1>3, <2>1 DEF Handle
  <2>5. thread' \in [Services -> {Taking, Exited} \cup [at : {"remove", "complete"}, req : Requests]]
    BY <1>3, <2>2 DEF Handle, Again
  <2>6. UNCHANGED <<bus, executor_open, services, service, deliveries, call, pendingRequests,
                    future>>
    BY <1>3 DEF Handle
  <2> QED BY <2>3, <2>4, <2>5, <2>6
<1>4. ASSUME NEW s \in Services, Leave(s) PROVE TypeOK'
  BY <1>4 DEF Leave
<1>5. ASSUME NEW s \in Services, RemovePending(s) PROVE TypeOK'
  <2>1. thread[s].req \in Requests
    <3>1. thread[s] \in {Taking, Exited} \cup [at : {"remove", "complete"}, req : Requests]
      OBVIOUS
    <3>2. thread[s].at = "remove"
      BY <1>5 DEF RemovePending
    <3> HIDE DEF TypeOK
    <3> QED BY <3>1, <3>2, BusyWithRequest
  <2>2. At("complete", thread[s].req) \in [at : {"remove", "complete"}, req : Requests]
    BY <2>1 DEF At
  <2> QED BY <1>5, <2>1, <2>2 DEF RemovePending, Again
<1>6. ASSUME NEW s \in Services, CompleteFuture(s) PROVE TypeOK'
  BY <1>6 DEF CompleteFuture, Again
<1>7. ASSUME NEW r \in Requests,
             Refuse(r) \/ AddPending(r) \/ Return(r) \/ Timeout(r) \/ broadcastMessage(r)
      PROVE  TypeOK'
  <2>1. CASE Refuse(r) \/ AddPending(r)
    BY <2>1 DEF Refuse, AddPending
  <2>2. CASE Return(r) \/ Timeout(r)
    BY <2>2 DEF Return, Timeout
  <2>3. CASE broadcastMessage(r)
    <3>1. deliveries' \subseteq Requests \X Services
      BY <2>3 DEF broadcastMessage
    <3>2. call' \in [Requests -> Calls]
      BY <2>3 DEF broadcastMessage
    <3> QED BY <2>3, <3>1, <3>2 DEF broadcastMessage
  <2> QED BY <1>7, <2>1, <2>2, <2>3
<1>8. ASSUME NEW r \in Requests, Submit(r) PROVE TypeOK'
  <2>1. deliveries' \subseteq Requests \X Services
    <3>1. <<r, to[r]>> \in Requests \X Services
      BY AddressAssumption
    <3>2. deliveries' = deliveries \cup {<<r, to[r]>>} \/ deliveries' = deliveries
      BY <1>8 DEF Submit
    <3> QED BY <3>1, <3>2
  <2>2. call' \in [Requests -> Calls]
    <3>1. \A c \in Calls : [call EXCEPT ![r] = c] \in [Requests -> Calls]
      OBVIOUS
    <3>2. "waiting" \in Calls /\ "rejected" \in Calls
      BY DEF Calls
    <3>3. call' = [call EXCEPT ![r] = "waiting"] \/ call' = [call EXCEPT ![r] = "rejected"]
      BY <1>8 DEF Submit
    <3> QED BY <3>1, <3>2, <3>3
  <2> QED BY <1>8, <2>1, <2>2 DEF Submit
<1>9. ASSUME NEW r \in Requests, NEW s \in Services, Deliver(r, s) PROVE TypeOK'
  BY <1>9, AppendFacts DEF Deliver
<1>10. CASE UNCHANGED vars
  BY <1>10 DEF vars
<1> QED BY <1>1, <1>2, <1>3, <1>4, <1>5, <1>6, <1>7, <1>8, <1>9, <1>10
        DEF Next, Caller, ServiceThread

\* Every step keeps the pending entries to calls inside sendMessage.
LEMMA LeakStep == TypeOK /\ NoPendingLeak /\ [Next]_vars => NoPendingLeak'
<1> SUFFICES ASSUME TypeOK, NoPendingLeak, [Next]_vars PROVE NoPendingLeak'
  OBVIOUS
<1> USE DEF TypeOK, NoPendingLeak, busVars, callVars, serviceVars
<1>1. CASE start \/ shutdown \/ ShutdownExecutor
  BY <1>1 DEF start, shutdown, ShutdownExecutor
<1>2. ASSUME NEW s \in Services,
             registerService(s) \/ unregisterService(s) \/ Interrupt(s) \/ ShutdownService(s)
      PROVE  NoPendingLeak'
  BY <1>2 DEF registerService, unregisterService, Interrupt, ShutdownService
<1>3. ASSUME NEW s \in Services, ServiceThread(s) PROVE NoPendingLeak'
  BY <1>3 DEF ServiceThread, Handle, Leave, RemovePending, CompleteFuture
<1>4. ASSUME NEW r \in Requests, Caller(r) \/ broadcastMessage(r) PROVE NoPendingLeak'
  <2>1. CASE Refuse(r) \/ broadcastMessage(r)
    BY <2>1 DEF Refuse, broadcastMessage
  <2>2. CASE AddPending(r)
    BY <2>2 DEF AddPending
  <2>3. CASE Submit(r)
    BY <2>3 DEF Submit
  <2>4. CASE Return(r) \/ Timeout(r)
    BY <2>4 DEF Return, Timeout
  <2> QED BY <1>4, <2>1, <2>2, <2>3, <2>4 DEF Caller
<1>5. ASSUME NEW r \in Requests, NEW s \in Services, Deliver(r, s) PROVE NoPendingLeak'
  BY <1>5 DEF Deliver
<1>6. CASE UNCHANGED vars
  BY <1>6 DEF vars
<1> QED BY <1>1, <1>2, <1>3, <1>4, <1>5, <1>6 DEF Next

\* What depends only on where messages are is kept by a step that moves none.
LEMMA Unmoved ==
  ASSUME UNCHANGED <<deliveries, inbox, handled>>
  PROVE  /\ \A r, s : Held(r, s)' <=> Held(r, s)
         /\ \A r, s : Out(r, s)' <=> Out(r, s)
         /\ OnePlace => OnePlace'
BY DEF Held, Out, OnePlace

\* Steps of the executor and the service threads that move a message.
LEMMA DeliverStep ==
  ASSUME BusInv, NEW r \in Requests, NEW s \in Services, Deliver(r, s)
  PROVE  OnePlace' /\ OutAfterSubmit'
<1>1. inbox[s] \in Seq(Requests) /\ inbox \in [Services -> Seq(Requests)]
  BY DEF BusInv, TypeOK
<1>2. /\ inbox' = [inbox EXCEPT ![s] = Append(inbox[s], r)]
      /\ deliveries' = deliveries \ {<<r, s>>} /\ <<r, s>> \in deliveries
      /\ handled' = handled /\ call' = call
  BY DEF Deliver, callVars
<1>3. /\ Len(inbox'[s]) = Len(inbox[s]) + 1 /\ Len(inbox[s]) \in Nat
      /\ \A k \in 1 .. Len(inbox[s]) : inbox'[s][k] = inbox[s][k]
      /\ inbox'[s][Len(inbox[s]) + 1] = r
      /\ \A u \in Services : u # s => inbox'[u] = inbox[u]
  BY <1>1, <1>2, AppendFacts
<1>4. \A q \in Requests, u \in Services : Held(q, u)' <=> Held(q, u) \/ (q = r /\ u = s)
  <2> SUFFICES ASSUME NEW q \in Requests, NEW u \in Services
               PROVE  Held(q, u)' <=> Held(q, u) \/ (q = r /\ u = s)
    OBVIOUS
  <2>1. CASE u # s
    BY <1>3, <2>1 DEF Held
  <2>2. CASE u = s
    <3>1. Held(q, s)' => Held(q, s) \/ q = r
      BY <1>3 DEF Held
    <3>2. Held(q, s) => Held(q, s)'
      BY <1>3 DEF Held
    <3>3. Held(r, s)'
      BY <1>3 DEF Held
    <3> QED BY <2>2, <3>1, <3>2, <3>3
  <2> QED BY <2>1, <2>2
<1>5. ~Held(r, s) /\ handled[s][r] = 0
  BY <1>2 DEF BusInv, OnePlace
<1>6. \A u \in Services : \A j, k \in 1 .. Len(inbox'[u]) : inbox'[u][j] = inbox'[u][k] => j = k
  <2>1. \A j, k \in 1 .. Len(inbox[s]) + 1 : inbox'[s][j] = inbox'[s][k] => j = k
    <3>1. \A j, k \in 1 .. Len(inbox[s]) : inbox[s][j] = inbox[s][k] => j = k
      BY DEF BusInv, OnePlace
    <3>2. \A k \in 1 .. Len(inbox[s]) : inbox[s][k] # r
      BY <1>5 DEF Held
    <3>3. \A k \in 1 .. Len(inbox[s]) + 1 : k \in 1 .. Len(inbox[s]) \/ k = Len(inbox[s]) + 1
      BY <1>3
    <3> QED BY <1>3, <3>1, <3>2, <3>3
  <2> QED BY <1>3, <2>1 DEF BusInv, OnePlace
<1>7. OnePlace'
  BY <1>2, <1>4, <1>5, <1>6 DEF BusInv, OnePlace
<1>8. \A q \in Requests, u \in Services : Out(q, u)' => Out(q, u)
  BY <1>2, <1>4 DEF Out
<1>9. OutAfterSubmit'
  BY <1>2, <1>8 DEF BusInv, OutAfterSubmit
<1> QED BY <1>7, <1>9

\* Service.run takes the oldest message: it was in that inbox only, and is
\* now handled and nowhere else.
LEMMA HandleStep ==
  ASSUME BusInv, NEW s \in Services, Handle(s)
  PROVE  /\ OnePlace' /\ OutAfterSubmit' /\ ThreadsHandled' /\ AnswersMade'
         /\ Head(inbox[s]) \in Requests /\ Held(Head(inbox[s]), s)
         /\ handled[s][Head(inbox[s])] = 0
         /\ \A q \in Requests, u \in Services :
              handled'[u][q] = IF q = Head(inbox[s]) /\ u = s THEN 1 ELSE handled[u][q]
<1> DEFINE h == Head(inbox[s])
<1>1. inbox[s] \in Seq(Requests) /\ inbox \in [Services -> Seq(Requests)] /\ inbox[s] # << >>
  BY DEF BusInv, TypeOK, Handle
<1>2. /\ inbox' = [inbox EXCEPT ![s] = Tail(inbox[s])]
      /\ handled' = [handled EXCEPT ![s] = [handled[s] EXCEPT ![h] = handled[s][h] + 1]]
      /\ UNCHANGED <<deliveries, call, future>>
  BY DEF Handle, callVars
<1>3. /\ Len(inbox'[s]) = Len(inbox[s]) - 1 /\ Len(inbox[s]) \in Nat \ {0}
      /\ \A k \in 1 .. Len(inbox[s]) - 1 : inbox'[s][k] = inbox[s][k + 1]
      /\ h = inbox[s][1] /\ h \in Requests
      /\ \A u \in Services : u # s => inbox'[u] = inbox[u]
  BY <1>1, <1>2, TailFacts
<1>4. Held(h, s)
  BY <1>3 DEF Held
<1>5. handled[s][h] = 0 /\ <<h, s>> \notin deliveries
  BY <1>3, <1>4 DEF BusInv, OnePlace
<1>a. \A q \in Requests, u \in Services :
        handled'[u][q] = IF q = h /\ u = s THEN 1 ELSE handled[u][q]
  <2>1. handled \in [Services -> [Requests -> Nat]] /\ h \in Requests
    BY <1>3 DEF BusInv, TypeOK
  <2>2. handled[s] \in [Requests -> Nat]
    BY <2>1
  <2>3. handled'[s] = [handled[s] EXCEPT ![h] = handled[s][h] + 1]
        /\ \A u \in Services : u # s => handled'[u] = handled[u]
    BY <1>2, <2>1
  <2>4. \A q \in Requests : handled'[s][q] = IF q = h THEN 1 ELSE handled[s][q]
    BY <1>5, <2>1, <2>2, <2>3
  <2> QED BY <2>3, <2>4
<1>6. \A j, k \in 1 .. Len(inbox[s]) : inbox[s][j] = inbox[s][k] => j = k
  BY DEF BusInv, OnePlace
<1>7. \A q \in Requests, u \in Services : Held(q, u)' => Held(q, u) /\ ~(q = h /\ u = s)
  <2> SUFFICES ASSUME NEW q \in Requests, NEW u \in Services, Held(q, u)'
               PROVE  Held(q, u) /\ ~(q = h /\ u = s)
    OBVIOUS
  <2>1. CASE u # s
    BY <1>3, <2>1 DEF Held
  <2>2. CASE u = s
    <3> PICK k \in 1 .. Len(inbox'[s]) : inbox'[s][k] = q
      BY <2>2 DEF Held
    <3>1. k + 1 \in 1 .. Len(inbox[s]) /\ inbox[s][k + 1] = q /\ k + 1 # 1
      BY <1>3
    <3>2. Held(q, s)
      BY <3>1 DEF Held
    <3>3. q # h
      BY <1>3, <1>6, <3>1
    <3> QED BY <2>2, <3>2, <3>3
  <2> QED BY <2>1, <2>2
<1>8. \A u \in Services : \A j, k \in 1 .. Len(inbox'[u]) : inbox'[u][j] = inbox'[u][k] => j = k
  <2>1. ASSUME NEW j \in 1 .. Len(inbox[s]) - 1, NEW k \in 1 .. Len(inbox[s]) - 1,
               inbox'[s][j] = inbox'[s][k]
        PROVE  j = k
    <3>1. /\ j + 1 \in 1 .. Len(inbox[s]) /\ k + 1 \in 1 .. Len(inbox[s])
          /\ j \in Nat /\ k \in Nat
      BY <1>3
    <3>2. inbox[s][j + 1] = inbox[s][k + 1]
      BY <1>3, <2>1
    <3>3. j + 1 = k + 1
      BY <1>6, <3>1, <3>2
    <3> QED BY <3>1, <3>3
  <2>2. \A u \in Services : u # s =>
           \A j, k \in 1 .. Len(inbox[u]) : inbox[u][j] = inbox[u][k] => j = k
    BY DEF BusInv, OnePlace
  <2> QED BY <1>3, <2>1, <2>2
<1>9. OnePlace'
  BY <1>2, <1>5, <1>7, <1>8, <1>a DEF BusInv, OnePlace
<1>10. \A q \in Requests, u \in Services : Out(q, u)' => Out(q, u)
  BY <1>2, <1>4, <1>7, <1>a DEF Out
<1>11. OutAfterSubmit'
  BY <1>2, <1>10 DEF BusInv, OutAfterSubmit
<1>12. ThreadsHandled'
  <2>1. /\ thread' = [thread EXCEPT ![s] = thread'[s]]
        /\ thread'[s] = At("remove", h) \/ thread'[s] = Taking \/ thread'[s] = Exited
    BY DEF Handle, Again, BusInv, TypeOK
  <2>2. thread'[s].at # "complete" /\ (thread'[s].at = "remove" => thread'[s].req = h)
    BY <2>1 DEF At, Taking, Exited
  <2>3. ASSUME NEW u \in Services
        PROVE  /\ thread'[u].at \in {"remove", "complete"} => handled'[u][thread'[u].req] > 0
               /\ thread'[u].at = "complete" => call[thread'[u].req] # "broadcast"
    <3>1. CASE u = s
      BY <1>3, <1>a, <2>2, <3>1
    <3>2. CASE u # s
      <4>1. thread'[u] = thread[u]
        BY <2>1, <3>2 DEF BusInv, TypeOK
      <4>2. thread[u] \in {Taking, Exited} \cup [at : {"remove", "complete"}, req : Requests]
        BY DEF BusInv, TypeOK
      <4>3. thread[u].at \in {"remove", "complete"} => thread[u].req \in Requests
        BY <4>2, BusyWithRequest
      <4> QED BY <1>a, <3>2, <4>1, <4>3 DEF BusInv, ThreadsHandled
    <3> QED BY <3>1, <3>2
  <2> QED BY <1>2, <2>3 DEF ThreadsHandled
<1>13. AnswersMade'
  BY <1>2, <1>a DEF BusInv, AnswersMade
<1> QED BY <1>3, <1>4, <1>5, <1>9, <1>11, <1>12, <1>13, <1>a

\* Steps that leave messages, calls, threads and futures as they are.
LEMMA QuietStep ==
  ASSUME BusInv, UNCHANGED <<deliveries, inbox, handled, thread, call, future>>
  PROVE  OnePlace' /\ OutAfterSubmit' /\ ThreadsHandled' /\ AnswersMade'
<1>1. OnePlace' /\ OutAfterSubmit'
  BY Unmoved DEF BusInv, OutAfterSubmit
<1>2. ThreadsHandled' /\ AnswersMade'
  BY DEF BusInv, ThreadsHandled, AnswersMade
<1> QED BY <1>1, <1>2

\* A thread that is not left at "complete" for a broadcast, nor at a step for
\* a message it has not handled.
LEMMA ThreadStep ==
  ASSUME BusInv, NEW s \in Services,
         registerService(s) \/ Leave(s) \/ RemovePending(s) \/ CompleteFuture(s)
  PROVE  OnePlace' /\ OutAfterSubmit' /\ ThreadsHandled' /\ AnswersMade'
<1> USE DEF busVars, callVars, serviceVars
<1>1. UNCHANGED <<deliveries, inbox, handled, call>>
  BY DEF registerService, Leave, RemovePending, CompleteFuture
<1>2. OnePlace' /\ OutAfterSubmit'
  BY <1>1, Unmoved DEF BusInv, OutAfterSubmit
<1>3. thread \in [Services -> {Taking, Exited} \cup [at : {"remove", "complete"}, req : Requests]]
  BY DEF BusInv, TypeOK
<1>4. Again(s).at \notin {"remove", "complete"}
  BY DEF Again, Taking, Exited
<1>5. CASE registerService(s) \/ Leave(s)
  <2>1. ThreadsHandled'
    BY <1>1, <1>3, <1>5 DEF registerService, Leave, BusInv, ThreadsHandled, Taking, Exited
  <2>2. AnswersMade'
    BY <1>1, <1>5 DEF registerService, Leave, BusInv, AnswersMade
  <2> QED BY <1>2, <2>1, <2>2
<1>6. CASE RemovePending(s)
  <2> DEFINE r == thread[s].req
  <2>1. r \in Requests /\ handled[s][r] > 0
    BY <1>3, <1>6 DEF RemovePending, BusInv, ThreadsHandled, Taking, Exited
  <2>2. r \in pendingRequests => call[r] # "broadcast"
    BY DEF BusInv, NoPendingLeak
  <2>3. At("complete", r).at = "complete" /\ At("complete", r).req = r
    BY DEF At
  <2>4. /\ \A u \in Services : u # s => thread'[u] = thread[u]
        /\ thread'[s] = IF r \in pendingRequests THEN At("complete", r) ELSE Again(s)
    BY <1>3, <1>6 DEF RemovePending
  <2> HIDE DEF r
  <2>5. ThreadsHandled'
    BY <1>1, <1>4, <2>1, <2>2, <2>3, <2>4 DEF BusInv, ThreadsHandled
  <2>6. AnswersMade'
    BY <1>1, <1>6 DEF RemovePending, BusInv, AnswersMade
  <2> QED BY <1>2, <2>5, <2>6
<1>7. CASE CompleteFuture(s)
  <2> DEFINE r == thread[s].req
  <2>1. r \in Requests /\ handled[s][r] > 0 /\ call[r] # "broadcast"
    BY <1>3, <1>7 DEF CompleteFuture, BusInv, ThreadsHandled, Taking, Exited
  <2>2. s = to[r]
    BY <2>1 DEF BusInv, OutAfterSubmit, Out
  <2>3. /\ \A u \in Services : u # s => thread'[u] = thread[u]
        /\ thread'[s] = Again(s)
        /\ future' = [future EXCEPT ![r] = "done"]
    BY <1>3, <1>7 DEF CompleteFuture
  <2> HIDE DEF r
  <2>4. ThreadsHandled'
    BY <1>1, <1>4, <2>3 DEF BusInv, ThreadsHandled
  <2>5. AnswersMade'
    BY <1>1, <2>1, <2>2, <2>3 DEF BusInv, TypeOK, AnswersMade
  <2> QED BY <1>2, <2>4, <2>5
<1> QED BY <1>5, <1>6, <1>7

\* Steps of the callers.
LEMMA CallerStep ==
  ASSUME BusInv, NEW r \in Requests, Caller(r) \/ broadcastMessage(r)
  PROVE  OnePlace' /\ OutAfterSubmit' /\ ThreadsHandled' /\ AnswersMade'
<1> USE DEF busVars, callVars, serviceVars
<1>1. UNCHANGED <<inbox, handled, thread, future>>
  BY DEF Caller, Refuse, AddPending, Submit, Return, Timeout, broadcastMessage
<1>2. call \in [Requests -> Calls] /\ services \subseteq Services /\ to[r] \in Services
  BY DEF BusInv, TypeOK
<1>3. \A q, u : Held(q, u)' <=> Held(q, u)
  BY <1>1 DEF Held
<1>4. call[r] \in {"none", "submit"} => \A u \in Services : ~Out(r, u)
  BY DEF BusInv, OutAfterSubmit
<1>5. \A u \in Services : thread[u].at = "complete" => thread[u].req \in Requests
  <2>1. thread \in [Services -> {Taking, Exited} \cup [at : {"remove", "complete"}, req : Requests]]
    BY DEF BusInv, TypeOK
  <2>2. Taking.at # "complete" /\ Exited.at # "complete"
    BY DEF Taking, Exited
  <2> QED BY <2>1, <2>2
<1>6. CASE Refuse(r) \/ AddPending(r) \/ Return(r) \/ Timeout(r)
  <2>1. /\ deliveries' = deliveries /\ call' = [call EXCEPT ![r] = call'[r]]
        /\ call'[r] # "broadcast" /\ call[r] # "broadcast"
        /\ call[r] = "none" \/ call'[r] \in {"answered", "timeout"}
        /\ call'[r] = "answered" => future[r] = "done"
    BY <1>2, <1>6 DEF Refuse, AddPending, Return, Timeout
  <2>2. OnePlace' /\ \A q, u : Out(q, u)' <=> Out(q, u)
    BY <1>1, <2>1, Unmoved DEF BusInv
  <2>3. OutAfterSubmit'
    BY <1>2, <1>4, <2>1, <2>2 DEF BusInv, OutAfterSubmit
  <2>4. ThreadsHandled'
    BY <1>1, <1>2, <1>5, <2>1 DEF BusInv, ThreadsHandled
  <2>5. AnswersMade'
    BY <1>1, <1>2, <2>1 DEF BusInv, AnswersMade
  <2> QED BY <2>2, <2>3, <2>4, <2>5
<1>7. CASE Submit(r) \/ broadcastMessage(r)
  <2>1. /\ call[r] \in {"none", "submit"} /\ call' = [call EXCEPT ![r] = call'[r]]
        /\ call'[r] \in {"waiting", "rejected", "broadcast"}
        /\ call'[r] = "broadcast" => call[r] = "none"
        /\ \A q \in Requests, u \in Services : <<q, u>> \in deliveries' =>
               \/ <<q, u>> \in deliveries
               \/ q = r /\ (call'[r] = "broadcast" \/ (call'[r] = "waiting" /\ u = to[r]))
    <3>1. CASE Submit(r)
      BY <1>2, <3>1 DEF Submit
    <3>2. CASE broadcastMessage(r)
      BY <1>2, <3>2 DEF broadcastMessage
    <3> QED BY <1>7, <3>1, <3>2
  <2>2. OnePlace'
    BY <1>1, <1>3, <1>4, <2>1 DEF BusInv, OnePlace, Out
  <2>3. OutAfterSubmit'
    BY <1>1, <1>2, <1>3, <1>4, <2>1 DEF BusInv, OutAfterSubmit, Out
  <2>4. ThreadsHandled'
    BY <1>1, <1>2, <1>4, <1>5, <2>1 DEF BusInv, ThreadsHandled, Out
  <2>5. AnswersMade'
    BY <1>1, <1>2, <2>1 DEF BusInv, AnswersMade
  <2> QED BY <2>2, <2>3, <2>4, <2>5
<1> QED BY <1>6, <1>7 DEF Caller

\* Every step of the bus keeps the invariant.
LEMMA BusInvStep == BusInv /\ [Next]_vars => BusInv'
<1> SUFFICES ASSUME BusInv, [Next]_vars PROVE BusInv'
  OBVIOUS
<1> USE DEF busVars, callVars, serviceVars
<1> DEFINE Kept == OnePlace' /\ OutAfterSubmit' /\ ThreadsHandled' /\ AnswersMade'
<1>1. TypeOK' /\ NoPendingLeak'
  BY TypeStep, LeakStep DEF BusInv
<1>2. ASSUME start \/ shutdown \/ ShutdownExecutor \/ UNCHANGED vars
      PROVE  Kept
  BY <1>2, QuietStep DEF start, shutdown, ShutdownExecutor, vars
<1>3. ASSUME NEW s \in Services, unregisterService(s) \/ Interrupt(s) \/ ShutdownService(s)
      PROVE  Kept
  BY <1>3, QuietStep DEF unregisterService, Interrupt, ShutdownService
<1>4. ASSUME NEW s \in Services, registerService(s) \/ ServiceThread(s) PROVE Kept
  BY <1>4, ThreadStep, HandleStep DEF ServiceThread
<1>5. ASSUME NEW r \in Requests, Caller(r) \/ broadcastMessage(r) PROVE Kept
  BY <1>5, CallerStep
<1>6. ASSUME NEW r \in Requests, NEW s \in Services, Deliver(r, s) PROVE Kept
  <2>1. ThreadsHandled' /\ AnswersMade'
    BY <1>6 DEF Deliver, BusInv, ThreadsHandled, AnswersMade
  <2> QED BY <1>6, <2>1, DeliverStep
<1>7. Kept
  <2> HIDE DEF Kept
  <2> QED BY <1>2, <1>3, <1>4, <1>5, <1>6 DEF Next, Kept
<1> QED BY <1>1, <1>7 DEF BusInv

\* Each message of the bus is in one place, and only after its call submitted
\* it; what is answered was handled by the addressee.
THEOREM BusInvariant == Spec => []BusInv
BY BusInit, BusInvStep, PTL DEF Spec

\* No late answer and no timeout leaves an entry in pendingRequests behind;
\* only a call that executor.submit rejects does.
THEOREM NoPendingLeft == Spec => []NoPendingLeak
<1>1. BusInv => NoPendingLeak
  BY DEF BusInv
<1> QED BY <1>1, BusInvariant, PTL

----------------------------------------------------------------------------
(***************************************************************************)
(* Refinement                                                              *)
(***************************************************************************)
outcomes == [r \in Requests |-> Outcome(r)]
handledCalls == [r \in Requests |-> IF call[r] = "broadcast" THEN 0 ELSE handled[to[r]][r]]

\* A fresh bus is a fresh RequestReply.
LEMMA RpcInit == Init => Rpc!Init
BY DEF Init, Rpc!Init, Outcome

\* Steps that change neither a call nor what was handled.
LEMMA RpcStutter ==
  ASSUME UNCHANGED <<call, handled>>
  PROVE  UNCHANGED <<outcomes, handledCalls>>
BY DEF outcomes, handledCalls, Outcome

\* A caller's step takes the outcome of its own call one step further; a
\* broadcast is no call.
LEMMA RpcCaller ==
  ASSUME BusInv, NEW r \in Requests, Caller(r) \/ broadcastMessage(r)
  PROVE  Rpc!Next \/ UNCHANGED <<outcomes, handledCalls>>
<1> USE DEF busVars, callVars, serviceVars
<1>1. call \in [Requests -> Calls] /\ handled' = handled
  BY DEF BusInv, TypeOK, Caller, Refuse, AddPending, Submit, Return, Timeout, broadcastMessage
<1>2. \A q \in Requests : q # r => call'[q] = call[q]
  BY <1>1 DEF Caller, Refuse, AddPending, Submit, Return, Timeout, broadcastMessage
<1>3. ASSUME call[r] # "broadcast", call'[r] # "broadcast"
      PROVE  /\ handledCalls' = handledCalls
             /\ outcomes' = [outcomes EXCEPT ![r] = Outcome(r)']
  <2>1. handledCalls' = handledCalls
    BY <1>1, <1>2, <1>3 DEF handledCalls
  <2>2. \A q \in Requests : q # r => Outcome(q)' = Outcome(q)
    BY <1>2 DEF Outcome
  <2> QED BY <2>1, <2>2 DEF outcomes
<1>4. CASE Refuse(r) \/ AddPending(r)
  <2>1. call[r] = "none" /\ call'[r] \in {"refused", "submit"}
    BY <1>1, <1>4 DEF Refuse, AddPending
  <2>2. Outcome(r) = "none" /\ Outcome(r)' \in {"open", "refused"}
    BY <2>1 DEF Outcome
  <2>3. Rpc!Call(r)
    BY <1>3, <2>1, <2>2 DEF Rpc!Call, outcomes, handledCalls
  <2> QED BY <2>3 DEF Rpc!Next
<1>5. CASE Submit(r)
  <2>1. call[r] = "submit" /\ call'[r] \in {"waiting", "rejected"}
    BY <1>1, <1>5 DEF Submit
  <2>2. Outcome(r) = "open" /\ Outcome(r)' \in {"open", "failed"}
    BY <2>1 DEF Outcome
  <2>3. CASE Outcome(r)' = "failed"
    <3>1. Rpc!Fail(r)
      BY <1>3, <2>1, <2>2, <2>3 DEF Rpc!Fail, outcomes, handledCalls
    <3> QED BY <3>1 DEF Rpc!Next
  <2>4. CASE Outcome(r)' = "open"
    BY <1>3, <2>1, <2>2, <2>4 DEF outcomes
  <2> QED BY <2>2, <2>3, <2>4
<1>6. CASE Return(r)
  <2>1. call[r] = "waiting" /\ call'[r] = "answered" /\ handled[to[r]][r] = 1
    <3>1. call[r] = "waiting" /\ call'[r] = "answered" /\ handled[to[r]][r] > 0
      BY <1>1, <1>6 DEF Return, BusInv, AnswersMade
    <3>2. handled[to[r]][r] \in {0, 1}
      BY AddressAssumption DEF BusInv, OnePlace
    <3> QED BY <3>1, <3>2
  <2>2. Outcome(r) = "open" /\ Outcome(r)' = "answered" /\ handledCalls[r] = 1
    BY <2>1 DEF Outcome, handledCalls
  <2>3. Rpc!Answer(r)
    BY <1>3, <2>1, <2>2 DEF Rpc!Answer, outcomes, handledCalls
  <2> QED BY <2>3 DEF Rpc!Next
<1>7. CASE Timeout(r)
  <2>1. call[r] = "waiting" /\ call'[r] = "timeout"
    BY <1>1, <1>7 DEF Timeout
  <2>2. Outcome(r) = "open" /\ Outcome(r)' = "failed"
    BY <2>1 DEF Outcome
  <2>3. Rpc!Fail(r)
    BY <1>3, <2>1, <2>2 DEF Rpc!Fail, outcomes, handledCalls
  <2> QED BY <2>3 DEF Rpc!Next
<1>8. CASE broadcastMessage(r)
  <2>1. call[r] = "none" /\ call'[r] = "broadcast"
    BY <1>1, <1>8 DEF broadcastMessage
  <2>2. handled[to[r]][r] = 0
    <3>1. to[r] \in Services /\ handled[to[r]][r] \in {0, 1}
      BY AddressAssumption DEF BusInv, OnePlace
    <3>2. ~Out(r, to[r])
      BY <2>1, <3>1 DEF BusInv, OutAfterSubmit
    <3> QED BY <3>1, <3>2 DEF Out
  <2>3. handledCalls' = handledCalls
    BY <1>1, <1>2, <2>1, <2>2 DEF handledCalls
  <2>4. \A q \in Requests : Outcome(q)' = Outcome(q)
    BY <1>2, <2>1 DEF Outcome
  <2> QED BY <2>3, <2>4 DEF outcomes
<1> QED BY <1>4, <1>5, <1>6, <1>7, <1>8 DEF Caller

\* Handling a call's message is the one Handle of its request.
LEMMA RpcHandle ==
  ASSUME BusInv, NEW s \in Services, Handle(s)
  PROVE  Rpc!Next \/ UNCHANGED <<outcomes, handledCalls>>
<1> PICK h \in Requests : h = Head(inbox[s])
  BY HandleStep
<1>1. Held(h, s) /\ handled[s][h] = 0
  BY HandleStep
<1>2. /\ \A q \in Requests, u \in Services :
           handled'[u][q] = IF q = h /\ u = s THEN 1 ELSE handled[u][q]
      /\ call' = call
  <2>1. call' = call
    BY DEF Handle, callVars
  <2> QED BY <2>1, HandleStep
<1>3. outcomes' = outcomes
  BY <1>2 DEF outcomes, Outcome
<1>4. CASE call[h] = "broadcast"
  BY <1>2, <1>3, <1>4 DEF handledCalls
<1>5. CASE call[h] # "broadcast"
  <2>1. s = to[h] /\ call[h] \in {"waiting", "answered", "timeout"}
    BY <1>1, <1>5 DEF BusInv, OutAfterSubmit, Out
  <2>2. call[h] # "answered"
    BY <1>1, <2>1 DEF BusInv, AnswersMade
  <2>3. Outcome(h) \in {"open", "failed"} /\ handledCalls[h] = 0
    BY <1>1, <2>1, <2>2 DEF Outcome, handledCalls
  <2>4. handledCalls' = [handledCalls EXCEPT ![h] = 1]
    <3>1. \A q \in Requests : handledCalls'[q] = IF q = h THEN 1 ELSE handledCalls[q]
      BY <1>2, <1>5, <2>1, AddressAssumption DEF handledCalls
    <3>2. DOMAIN handledCalls' = Requests /\ DOMAIN handledCalls = Requests
      BY DEF handledCalls
    <3>3. handledCalls' = [q \in Requests |-> handledCalls'[q]]
      BY <3>2, Zenon DEF handledCalls
    <3>4. [handledCalls EXCEPT ![h] = 1]
            = [q \in Requests |-> IF q = h THEN 1 ELSE handledCalls[q]]
      BY <3>2
    <3> QED BY <3>1, <3>3, <3>4
  <2>5. Rpc!Handle(h)
    BY <1>1, <1>3, <2>3, <2>4 DEF Rpc!Handle, outcomes, handledCalls
  <2> QED BY <2>5 DEF Rpc!Next
<1> QED BY <1>4, <1>5

\* sendMessage is the request/reply call of RequestReply for any number of
\* callers and services: a request is handled at most once, and answered only
\* after it was, through every timeout, late completion and shutdown.
THEOREM BusIsRequestReply == Spec => ImplementsRequestReply
<1>1. BusInv /\ [Next]_vars => [Rpc!Next]_(Rpc!vars)
  <2> SUFFICES ASSUME BusInv, [Next]_vars
               PROVE  Rpc!Next \/ UNCHANGED <<outcomes, handledCalls>>
    BY DEF Rpc!vars, outcomes, handledCalls
  <2> USE DEF busVars, callVars, serviceVars
  <2> DEFINE Mapped == Rpc!Next \/ UNCHANGED <<outcomes, handledCalls>>
  <2>1. ASSUME start \/ shutdown \/ ShutdownExecutor \/ UNCHANGED vars
        PROVE  Mapped
    BY <2>1, RpcStutter DEF start, shutdown, ShutdownExecutor, vars
  <2>2. ASSUME NEW s \in Services,
               \/ registerService(s) \/ unregisterService(s) \/ Interrupt(s)
               \/ ShutdownService(s) \/ Leave(s) \/ RemovePending(s) \/ CompleteFuture(s)
        PROVE  Mapped
    BY <2>2, RpcStutter DEF registerService, unregisterService, Interrupt, ShutdownService,
                            Leave, RemovePending, CompleteFuture
  <2>3. ASSUME NEW r \in Requests, NEW s \in Services, Deliver(r, s) PROVE Mapped
    BY <2>3, RpcStutter DEF Deliver
  <2>4. ASSUME NEW r \in Requests, Caller(r) \/ broadcastMessage(r) PROVE Mapped
    BY <2>4, RpcCaller
  <2>5. ASSUME NEW s \in Services, Handle(s) PROVE Mapped
    BY <2>5, RpcHandle
  <2>6. Mapped
    <3> HIDE DEF Mapped
    <3> QED BY <2>1, <2>2, <2>3, <2>4, <2>5 DEF Next, ServiceThread
  <2> QED BY <2>6
<1> QED BY <1>1, RpcInit, BusInvariant, PTL DEF Spec, ImplementsRequestReply, Rpc!Spec
====
