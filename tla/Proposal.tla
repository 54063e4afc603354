------------------------------ MODULE Proposal ------------------------------
(***************************************************************************)
(* RFC 6762 section 8.2.1's simultaneous-probe comparison                  *)
(* (mdns-proto/src/service/proposal.rs): the peer's records for the name   *)
(* are folded, in wire order and in space bounded by OUR record count,     *)
(* into a comparison of the two sorted lists.  An element is a record's    *)
(* type code and canonical rdata, as one number that sorts as the bytes do.*)
(***************************************************************************)
EXTENDS Message

TypeCode == [A |-> 1, TXT |-> 16, AAAA |-> 28, SRV |-> 33]

Element(rtype, rdata) == 100 * TypeCode[rtype] + rdata

(***************************************************************************)
(* `sort`: the n-th least, where a repeated element counts as often as it  *)
(* occurs.                                                                 *)
(***************************************************************************)
Sorted(s) ==
  [n \in DOMAIN s |-> CHOOSE x \in ToSet(s) : /\ Cardinality({i \in DOMAIN s : s[i] < x}) < n
                                            /\ n <= Cardinality({i \in DOMAIN s : s[i] <= x})]

(***************************************************************************)
(* The addresses belong to the proposal only when the instance name is the *)
(* host name.  (A set: an address given twice at registration counts once  *)
(* here, twice in the code's vector.)                                      *)
(***************************************************************************)
OurElements(s) ==
  {Element("SRV", s.srv), Element("TXT", s.txt)}
    \cup (IF s.name = s.host THEN {Element(a.rtype, a.addr) : a \in s.addrs} ELSE {})

our_proposal(s) == Sorted(SetToSeq(OurElements(s)))

(***************************************************************************)
(* ProposalFold: the `keep` smallest elements offered, and how many there  *)
(* were.                                                                   *)
(***************************************************************************)
NewFold(keep) == [smallest |-> <<>>, count |-> 0, keep |-> keep]

OfferDropsTheLast(fold, elem) ==
  LET at == 1 + Cardinality({i \in DOMAIN fold.smallest : fold.smallest[i] <= elem})
  IN [fold EXCEPT !.count = @ + 1,
                  !.smallest = IF Len(@) < fold.keep THEN InsertAt(@, at, elem) ELSE @]

offer(fold, elem) ==
  LET at == 1 + Cardinality({i \in DOMAIN fold.smallest : fold.smallest[i] <= elem})
      inserted == InsertAt(fold.smallest, at, elem)
  IN [fold EXCEPT !.count = @ + 1,
                  !.smallest = IF at > fold.keep THEN @
                               ELSE SubSeq(inserted, 1, LET n == Len(inserted)
                                                        IN IF n < fold.keep THEN n ELSE fold.keep)]

peer_wins(fold, ours) ==
  LET both == {i \in DOMAIN fold.smallest : i \in DOMAIN ours}
      differ == {i \in both : fold.smallest[i] # ours[i]}
  IN IF differ = {} THEN fold.count > Len(ours)
     ELSE LET i == Min(differ) IN fold.smallest[i] > ours[i]

Folded(elems, keep) ==
  LET fold[n \in 0 .. Len(elems)] == IF n = 0 THEN NewFold(keep) ELSE offer(fold[n - 1], elems[n])
  IN fold[Len(elems)]

Compare(theirs, ours) == peer_wins(Folded(theirs, Len(ours)), ours)

(***************************************************************************)
(* The records of the peer's proposal for the name `s` holds.              *)
(***************************************************************************)
Offered(m, s) == {i \in DOMAIN Read(m, "authority") : admits(m, s.name, Read(m, "authority")[i]) = "Ours"}

(***************************************************************************)
(* Anything unreadable in the section abandons the whole comparison.       *)
(***************************************************************************)
Abandons(m, s) ==
  \E r \in ToSet(Read(m, "authority")) :
    \/ r = Junk
    \/ ~name_fully_decodes(r.name)
    \/ admits(m, s.name, r) = "Unreadable"
    \/ admits(m, s.name, r) = "Ours" /\ r.rdata = Undecodable

(***************************************************************************)
(* Their elements, in wire order.                                          *)
(***************************************************************************)
PeerElements(m, s) ==
  [n \in 1 .. Cardinality(Offered(m, s)) |->
     LET r == Read(m, "authority")[Sorted(SetToSeq(Offered(m, s)))[n]]
     IN Element(r.rtype, r.rdata)]

adjudicate(m, s) ==
  IF Abandons(m, s) THEN "Abandoned"
  ELSE IF Compare(PeerElements(m, s), our_proposal(s)) THEN "PeerWins" ELSE "WeHold"

=============================================================================
