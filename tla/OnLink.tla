------------------------------- MODULE OnLink -------------------------------
(***************************************************************************)
(* RFC 6762 section 11's source check (hick-onlink/src/lib.rs) and the     *)
(* snapshot of the interface's addresses it is run against (hick-udp/src/  *)
(* onlink.rs): whether a received datagram may be read at all, from its    *)
(* source and whatever the receive path could witness of its destination,  *)
(* its link-layer delivery and the interface it arrived on.                *)
(*                                                                         *)
(* Addresses are numbers of ADDRESS_BITS bits in two families, with one    *)
(* member (or a small block) of each kind the code tells apart.  The       *)
(* machine is an interface that is renumbered, a clock, and datagrams that *)
(* carry the truth beside the evidence.                                    *)
(***************************************************************************)
EXTENDS Clock, Sequences, FiniteSets

CONSTANTS OCTET,                    \* bits in an octet (8)
          OCTETS,                   \* octets in an address (4 and 16)
          SUBNET_REFRESH_INTERVAL,  \* 1 s
          Confs,                    \* address lists the interface may have: sets of <<addr, prefix>>
          Sources, Destinations,    \* addresses datagrams carry
          MaxRenumbers,             \* model bound on renumberings per instant
          MaxLinkTicks              \* model bound on the clock

ADDRESS_BITS == OCTET * OCTETS

Addr(fam, n) == [fam |-> fam, n |-> n]

Addresses == [fam : {"v4", "v6"}, n : 0 .. 2^ADDRESS_BITS - 1]

ASSUME OnLinkAssumption ==
  /\ OCTET \in Nat \ {0} /\ OCTETS \in Nat \ {0}
  /\ SUBNET_REFRESH_INTERVAL \in Nat \ {0} /\ MaxRenumbers \in Nat
  /\ MaxLinkTicks \in Nat /\ MaxLinkTicks <= MaxInstant
  /\ Sources \subseteq Addresses /\ Destinations \subseteq Addresses
  /\ \A c \in Confs : c \subseteq Addresses \X (0 .. ADDRESS_BITS)
  /\ None \notin Addresses /\ None \notin {"Unicast", "Multicast", "Broadcast"}

-----------------------------------------------------------------------------
(***************************************************************************)
(* The special addresses, in the order they have in the real spaces:       *)
(* unspecified, loopback (a block in v4, one address in v6), v4-mapped v6, *)
(* the v6 link-local network, multicast, v4 limited broadcast.             *)
(***************************************************************************)
TopAddress == 2^ADDRESS_BITS - 1

MDNS_GROUP == TopAddress - 2

LINK_LOCAL_V6_NET == Addr("v6", TopAddress \div 2 + 1)

LINK_LOCAL_V6_PREFIX_LEN == ADDRESS_BITS - 1

is_unspecified(a) == a.n = 0

is_loopback(a) == IF a.fam = "v4" THEN a.n \in 1 .. 2 ELSE a.n = 1

is_mapped(a) == a.fam = "v6" /\ a.n = 2

is_broadcast(a) == a.fam = "v4" /\ a.n = TopAddress

is_multicast(a) == a.n >= TopAddress - 3 /\ ~is_broadcast(a)

is_mdns_group(a) == a.n = MDNS_GROUP

(***************************************************************************)
(* An interface is assigned unicast addresses only: a host refuses to hold *)
(* a group or the broadcast address.                                       *)
(***************************************************************************)
ASSUME HeldAddressesAreUnicast ==
  \A c \in Confs : \A e \in c : ~is_multicast(e[1]) /\ ~is_broadcast(e[1])

-----------------------------------------------------------------------------
(***************************************************************************)
(* What the receive path witnessed.  A reporting path that has no answer   *)
(* lost it if the control data was truncated, else it declined.            *)
(***************************************************************************)
Witnessed(x) == [kind |-> "Witnessed", value |-> x]

Lost == [kind |-> "Lost"]

Declined == [kind |-> "Declined"]

Blind == [kind |-> "Blind"]

DestinationWitness(destination, truncated) ==
  IF destination # None THEN Witnessed(destination)
  ELSE IF truncated THEN Lost ELSE Declined

(***************************************************************************)
(* An interface index of zero, or a negative one, names no interface.      *)
(***************************************************************************)
IfaceWitness(index, truncated) ==
  IF index > 0 THEN Witnessed(index) ELSE IF truncated THEN Lost ELSE Declined

(***************************************************************************)
(* The binding a datagram is weighed against.  (Every driver gives one     *)
(* list for the addresses held and the prefixes on-link.)                  *)
(***************************************************************************)
BoundLink(iface, loopback, local_addrs) ==
  [iface |-> iface, is_loopback |-> loopback, local_addrs |-> local_addrs]

Admit(why) == [admit |-> TRUE, why |-> why]

Refuse(why) == [admit |-> FALSE, why |-> why]

(***************************************************************************)
(* A socket address: only v6 carries a scope.                              *)
(***************************************************************************)
scope_of(src) == IF src.addr.fam = "v6" THEN src.scope ELSE 0

(***************************************************************************)
(* Every witness of the link must name the bound interface; loopback       *)
(* traffic of a loopback binding needs none.  The result is the provenance *)
(* or a refusal.                                                           *)
(***************************************************************************)
arrived_on_bound_interface(src, link, iface) ==
  LET witnesses == ({scope_of(src)} \ {0})
                     \cup (IF iface.kind = "Witnessed" THEN {iface.value} ELSE {})
  IN CASE link.iface = 0 -> "Unbound"
       [] link.iface # 0 /\ \E w \in witnesses : w # link.iface -> "ForeignLink"
       [] link.iface # 0 /\ witnesses = {link.iface} -> "Established"
       [] link.iface # 0 /\ witnesses = {} ->
            IF link.is_loopback /\ is_loopback(src.addr) THEN "Established"
            ELSE IF iface = Lost THEN "LinkWitnessLost" ELSE "Unproven"

LinkProvenance == {"Established", "Unbound", "Unproven"}

octets(n) == [i \in 1 .. OCTETS |-> (n \div 2^(OCTET * (OCTETS - i))) % 2^OCTET]

(***************************************************************************)
(* prefix_match: whole octets, then the leading bits of the next one.      *)
(***************************************************************************)
prefix_match(net, addr, prefix) ==
  LET full == prefix \div OCTET
      rem  == prefix % OCTET
  IN /\ prefix <= ADDRESS_BITS
     /\ SubSeq(net, 1, full) = SubSeq(addr, 1, full)
     /\ rem # 0 => net[full + 1] \div 2^(OCTET - rem) = addr[full + 1] \div 2^(OCTET - rem)

addr_in_subnet(net, prefix, addr) ==
  net.fam = addr.fam /\ prefix_match(octets(net.n), octets(addr.n), prefix)

(***************************************************************************)
(* src_on_local_link: loopback for a loopback binding; the v6 link-local   *)
(* prefix where the link is established; else a configured prefix.         *)
(***************************************************************************)
src_on_local_link(src, link, iface, provenance) ==
  IF is_loopback(src.addr)
  THEN link.is_loopback /\ arrived_on_bound_interface(src, link, iface) \in LinkProvenance
  ELSE \/ /\ provenance = "Established"
          /\ addr_in_subnet(LINK_LOCAL_V6_NET, LINK_LOCAL_V6_PREFIX_LEN, src.addr)
       \/ \E e \in link.local_addrs : addr_in_subnet(e[1], e[2], src.addr)

source_arm(src, link, iface, provenance, admit, refuse) ==
  IF src_on_local_link(src, link, iface, provenance) THEN Admit(admit) ELSE Refuse(refuse)

(***************************************************************************)
(* The mDNS group, on a link nothing witnessed.                            *)
(***************************************************************************)
unscoped_group_arm(src, delivery, link, iface, provenance) ==
  CASE delivery = "Broadcast" -> Refuse("BroadcastDelivery")
    [] delivery = "Multicast" -> Admit("UnscopedMdnsGroup")
    [] OTHER -> source_arm(src, link, iface, provenance,
                           "UnscopedMdnsGroup", "UnscopedGroupSourceOffLink")

(***************************************************************************)
(* Why a destination the interface does not hold is refused.               *)
(***************************************************************************)
classify_unheld(dst, link) ==
  CASE is_loopback(dst) /\ ~link.is_loopback -> "LoopbackDestinationOffLoopbackBinding"
    [] is_unspecified(dst) -> "UnspecifiedDestination"
    [] is_broadcast(dst) -> "BroadcastAddressed"
    [] is_mapped(dst) -> "Ipv4MappedDestination"
    [] is_multicast(dst) -> "ForeignGroup"
    [] OTHER -> "DestinationNotHeld"

SnapshotOrBinding(dst, link) ==
  (is_loopback(dst) /\ link.is_loopback) \/ \E e \in link.local_addrs : e[1] = dst

(***************************************************************************)
(* The binding alone decides the loopback block; anything else is held by  *)
(* being assigned to the interface.                                        *)
(***************************************************************************)
is_bound_address(dst, link) ==
  IF is_loopback(dst) THEN link.is_loopback ELSE \E e \in link.local_addrs : e[1] = dst

(***************************************************************************)
(* admits_ingress where the destination was witnessed.                     *)
(***************************************************************************)
WitnessedDestination(src, dst, delivery, link, iface, provenance) ==
  IF is_mdns_group(dst)
  THEN IF provenance = "Unproven"
       THEN unscoped_group_arm(src, delivery, link, iface, provenance)
       ELSE Admit("MdnsGroup")
  ELSE IF is_bound_address(dst, link)
  THEN source_arm(src, link, iface, provenance, "HeldDestination", "SourceOffLink")
  ELSE IF link.local_addrs = {} /\ classify_unheld(dst, link) = "DestinationNotHeld"
  THEN source_arm(src, link, iface, provenance, "UnenumeratedDestination", "SourceOffLink")
  ELSE Refuse(classify_unheld(dst, link))

(***************************************************************************)
(* admits_ingress where the path could not say: the delivery decides.      *)
(***************************************************************************)
UnwitnessedDestination(src, delivery, link, iface, provenance) ==
  CASE delivery = "Broadcast" -> Refuse("BroadcastDelivery")
    [] delivery = "Multicast" -> Admit("BlindMulticastDelivery")
    [] OTHER -> source_arm(src, link, iface, provenance, "BlindSourceOnLink", "SourceOffLink")

admits_ingress(src, destination, delivery, link, iface) ==
  LET provenance == arrived_on_bound_interface(src, link, iface)
  IN IF provenance \notin LinkProvenance THEN Refuse(provenance)
     ELSE CASE destination.kind = "Witnessed" ->
                 WitnessedDestination(src, destination.value, delivery, link, iface, provenance)
            [] destination.kind = "Lost" -> Refuse("DestinationWitnessLost")
            [] destination.kind \in {"Declined", "Blind"} ->
                 UnwitnessedDestination(src, delivery, link, iface, provenance)

-----------------------------------------------------------------------------
VARIABLES lmono,         \* the monotonic clock
          binding,       \* the interface the sockets are bound to, 0 for none
          loopback,      \* whether that is the loopback interface
          conf,          \* the addresses the interface really has
          subnets,       \* the driver's snapshot of them
          refreshed_at,  \* when it was taken
          arrival,       \* the datagram just decided, and the verdict; or None
          hist           \* ghost: the configurations of each instant of the last interval

linkVars == <<lmono, binding, loopback, conf, subnets, refreshed_at, arrival, hist>>

Interfaces == {1, 2}

(***************************************************************************)
(* collect_local_subnets: nothing for no binding; a failed enumeration is  *)
(* an interface that reports nothing, which {} stands for.                 *)
(***************************************************************************)
collect_local_subnets(iface, c) == IF iface = 0 THEN {} ELSE c

(***************************************************************************)
(* is_loopback_interface is read once, when the driver is built.           *)
(***************************************************************************)
is_loopback_interface(iface) == IF iface = 0 THEN {FALSE} ELSE BOOLEAN

LinkInit ==
  /\ lmono = 0 /\ binding \in {0, 1} /\ loopback \in is_loopback_interface(binding)
  /\ conf \in Confs
  /\ subnets = collect_local_subnets(binding, conf) /\ refreshed_at = 0
  /\ arrival = None
  /\ hist = [t \in Instant |-> IF t = 0 THEN {conf} ELSE {}]

RefreshNever(c) ==
  subnets' = subnets /\ refreshed_at' = refreshed_at

(***************************************************************************)
(* refresh_subnets_if_stale, called before every datagram is weighed.      *)
(***************************************************************************)
refresh_subnets_if_stale(c) ==
  IF lmono - refreshed_at < SUBNET_REFRESH_INTERVAL
  THEN UNCHANGED <<subnets, refreshed_at>>
  ELSE subnets' = collect_local_subnets(binding, c) /\ refreshed_at' = lmono

(***************************************************************************)
(* Datagrams, with the truth (link, dst) and what the receive path tells   *)
(* of it.  A link layer that reports a delivery reports it truly; a v6     *)
(* link-local source carries the arrival link's scope, where any.          *)
(***************************************************************************)
TrueDelivery(dst) ==
  IF is_multicast(dst) THEN "Multicast" ELSE IF is_broadcast(dst) THEN "Broadcast" ELSE "Unicast"

LinkLocal(a) == addr_in_subnet(LINK_LOCAL_V6_NET, LINK_LOCAL_V6_PREFIX_LEN, a)

Evidence == {"both", "iface", "dst", "neither", "truncated", "truncated_dst", "blind"}

Datagram(src, dst, link, evidence, scoped, delivered) ==
  [src |-> [addr |-> src, scope |-> IF scoped /\ LinkLocal(src) THEN link ELSE 0],
   dst |-> dst, link |-> link, evidence |-> evidence,
   delivery |-> IF delivered THEN TrueDelivery(dst) ELSE None]

Datagrams ==
  UNION {{Datagram(p[1], p[2], link, evidence, scoped, delivered) :
            link \in Interfaces, evidence \in Evidence, scoped \in BOOLEAN, delivered \in BOOLEAN} :
         p \in {q \in Sources \X Destinations : q[1].fam = q[2].fam}}

Destination(d) ==
  IF d.evidence = "blind" THEN Blind
  ELSE DestinationWitness(IF d.evidence \in {"both", "dst", "truncated_dst"} THEN d.dst ELSE None,
                          d.evidence \in {"truncated", "truncated_dst"})

Iface(d) ==
  IF d.evidence = "blind" THEN Blind
  ELSE IfaceWitness(IF d.evidence \in {"both", "iface"} THEN d.link ELSE 0,
                    d.evidence \in {"truncated", "truncated_dst"})

(***************************************************************************)
(* A datagram is received: the snapshot is refreshed, then it is weighed.  *)
(***************************************************************************)
Arrive(d) ==
  /\ arrival = None
  /\ refresh_subnets_if_stale(conf)
  /\ arrival' = [d |-> d, verdict |-> admits_ingress(d.src, Destination(d), d.delivery,
                                        BoundLink(binding, loopback, subnets'), Iface(d))]
  /\ UNCHANGED <<lmono, binding, loopback, conf, hist>>

Handled ==
  /\ arrival # None /\ arrival' = None
  /\ UNCHANGED <<lmono, binding, loopback, conf, subnets, refreshed_at, hist>>

(***************************************************************************)
(* The host's addresses change; the driver is not told.                    *)
(***************************************************************************)
Renumber(c) ==
  /\ arrival = None /\ c # conf
  /\ Cardinality(hist[lmono]) <= MaxRenumbers
  /\ conf' = c /\ hist' = [hist EXCEPT ![lmono] = @ \cup {c}]
  /\ UNCHANGED <<lmono, binding, loopback, subnets, refreshed_at, arrival>>

LinkTick ==
  /\ arrival = None /\ lmono < MaxLinkTicks
  /\ lmono' = lmono + 1
  /\ hist' = [t \in Instant |-> IF t = lmono' THEN {conf}
                                ELSE IF lmono' - t < SUBNET_REFRESH_INTERVAL THEN hist[t]
                                ELSE {}]
  /\ UNCHANGED <<binding, loopback, conf, subnets, refreshed_at, arrival>>

LinkNext ==
  \/ \E d \in Datagrams : Arrive(d)
  \/ \E c \in Confs : Renumber(c)
  \/ Handled \/ LinkTick

LinkSpec == LinkInit /\ [][LinkNext]_linkVars

-----------------------------------------------------------------------------
(***************************************************************************)
(* Section 11's prefix, by its definition: the leading bits agree.         *)
(***************************************************************************)
InPrefix(e, a) ==
  /\ e[1].fam = a.fam
  /\ e[1].n \div 2^(ADDRESS_BITS - e[2]) = a.n \div 2^(ADDRESS_BITS - e[2])

(***************************************************************************)
(* What the interface reported at some point of the last interval.         *)
(***************************************************************************)
Recent ==
  IF binding = 0 THEN {{}}
  ELSE UNION {hist[t] : t \in Instant}

(***************************************************************************)
(* Whether the path told the driver, rightly, the datagram's own link.     *)
(***************************************************************************)
LinkTold(d) == d.src.scope # 0 \/ d.evidence \in {"both", "iface"}

DstTold(d) == d.evidence \in {"both", "dst", "truncated_dst"}

OwnLoopback(a) == loopback /\ is_loopback(a)

(***************************************************************************)
(* Nothing off-link is read.  An admitted datagram did not arrive on an    *)
(* interface the driver was told is foreign; it was not sent to another    *)
(* host, a broadcast or another group as far as the driver was told; and   *)
(* unless it was multicast, its source was inside a prefix the interface   *)
(* had within SUBNET_REFRESH_INTERVAL (or is link-local or loopback on a   *)
(* link known to be this one), however often the host was renumbered.      *)
(***************************************************************************)
OnLinkSound ==
  arrival # None /\ arrival.verdict.admit =>
    LET d == arrival.d
    IN /\ binding # 0 /\ LinkTold(d) => d.link = binding
       /\ DstTold(d) => \/ is_mdns_group(d.dst)
                        \/ OwnLoopback(d.dst)
                        \/ /\ ~is_loopback(d.dst) /\ TrueDelivery(d.dst) = "Unicast"
                           /\ \E c \in Recent : c = {} \/ \E e \in c : e[1] = d.dst
       /\ TrueDelivery(d.dst) # "Multicast" =>
            \/ OwnLoopback(d.src.addr)
            \/ ~is_loopback(d.src.addr) /\ \E c \in Recent : \E e \in c : InPrefix(e, d.src.addr)
            \/ LinkLocal(d.src.addr) /\ d.link = binding /\ LinkTold(d)

(***************************************************************************)
(* Nothing on-link is lost to the check: a group datagram whose link and   *)
(* destination the path named, one delivered as multicast, and a unicast   *)
(* one from a prefix, to an address, the interface had throughout the      *)
(* interval, is read whatever else the path declined to say; a link-local  *)
(* peer is read even when the enumeration reports nothing.  Only truncated *)
(* control data refuses such a datagram.                                   *)
(***************************************************************************)
OnLinkComplete ==
  arrival # None /\ arrival.d.link = binding
  /\ arrival.d.evidence \notin {"truncated", "truncated_dst"} =>
    LET d == arrival.d
        near == \/ \A c \in Recent : \E e \in c : InPrefix(e, d.src.addr)
                \/ LinkLocal(d.src.addr) /\ LinkTold(d)
    IN \/ arrival.verdict.admit
       \/ /\ is_mdns_group(d.dst) => /\ ~(LinkTold(d) /\ DstTold(d)) /\ d.delivery = None
                                     /\ is_loopback(d.src.addr) \/ ~near
          /\ TrueDelivery(d.dst) = "Unicast" /\ ~is_loopback(d.dst) =>
               \/ is_loopback(d.src.addr)
               \/ ~near
               \/ \E c \in Recent : \A e \in c : e[1] # d.dst

=============================================================================
