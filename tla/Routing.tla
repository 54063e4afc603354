------------------------------- MODULE Routing ------------------------------
(***************************************************************************)
(* Endpoint::handle and the RouteEvents iterator it returns (mdns-proto/   *)
(* src/endpoint/receive.rs, admits.rs, received.rs, route.rs): what one    *)
(* received datagram is allowed to do, and the walk that takes every entry *)
(* of it to every service and query concerned.                             *)
(*                                                                         *)
(* A step is one turn of the loop in RouteEvents::next.  A section's own   *)
(* index and cursors start at zero and are never returned to, so one set,  *)
(* reset on entering a section, stands for them.  What a service does with *)
(* an event is Service's, what a query does with an answer is Query's and  *)
(* what handle puts in the cache is Cache's.                               *)
(***************************************************************************)
EXTENDS Proposal

CONSTANTS MDNS_PORT,
          Tables,       \* the endpoints a datagram may reach
          Packets       \* [message, src, provenance]: the datagrams

(***************************************************************************)
(* Services, queries and sections are sequences, and canonical records are *)
(* numbers, of which a service proposes finitely many.                     *)
(***************************************************************************)
ASequence(s) == s \in Seq(ToSet(s))

ASSUME RoutingAssumption ==
  /\ \A t \in Tables :
       /\ ASequence(t.services) /\ ASequence(t.queries)
       /\ \A s \in ToSet(t.services) : IsFiniteSet(OurElements(s)) /\ OurElements(s) \subseteq Nat
  /\ \A p \in Packets :
       /\ \A section \in DOMAIN Before : ASequence(p.message[section])
       /\ \A r \in ToSet(p.message.authority) \ {Junk} : Element(r.rtype, r.rdata) \in Nat

VARIABLES
  table,        \* [services, queries, answer_questions, trust_advertised_src_as_self]
  packet,       \* the datagram being handled
  admitted,     \* its Admits
  at,           \* RouteEvents: section, index and cursors
  screen,       \* relinquished_screen: the record last screened, and the answer
  routed,       \* history: what was routed, in order
  fed, quieted  \* history: answers handed to queries; queries quieted

routeVars == <<table, packet, admitted, at, screen, routed, fed, quieted>>

msg == packet.message

FromMdnsPort == packet.src.port = MDNS_PORT

-----------------------------------------------------------------------------
(* Admits: what a datagram may do, by where it came from.                  *)

Nothing == [observation |-> FALSE, quieting |-> FALSE, adjudication |-> FALSE, answering |-> "None"]

Everything(answer_questions) ==
  [observation |-> TRUE, quieting |-> TRUE, adjudication |-> TRUE,
   answering |-> IF answer_questions THEN "All" ELSE "DefenceOnly"]

(***************************************************************************)
(* A datagram that may be our own says nothing to us, except about names:  *)
(* only a conflict and the defence against a probe cannot be put off.      *)
(***************************************************************************)
NamesOnly == [Nothing EXCEPT !.adjudication = TRUE, !.answering = "DefenceOnly"]

(***************************************************************************)
(* A link-local address is only ours on the interface it is scoped to.     *)
(***************************************************************************)
src_matches_advertised(services, src) ==
  \E k \in DOMAIN services : \E a \in services[k].addrs :
    /\ a.rtype = src.rtype /\ a.addr = src.addr
    /\ a.link_local => a.scope \in {0, src.interface}

for_datagram(provenance, matched_advertised, answer_questions, untrusted_response) ==
  IF untrusted_response THEN Nothing
  ELSE CASE provenance = "OwnEcho" -> Nothing
         [] provenance = "OwnEchoLikely" -> NamesOnly
         [] provenance = "NotFromUs" -> Everything(answer_questions)
         [] provenance = "Unknown" ->
              IF matched_advertised THEN NamesOnly ELSE Everything(answer_questions)

all_denied(a) == a = Nothing

-----------------------------------------------------------------------------
(* Endpoint::handle.                                                       *)

Open(q) == q.state # "done"

(***************************************************************************)
(* Every readable answer, wherever the responder put it, is handed to the  *)
(* queries that asked, before any routing.                                 *)
(***************************************************************************)
EagerAnswers(m, queries) ==
  UNION {{<<k, section, i>> : i \in {j \in DOMAIN Read(m, section) :
            LET r == Read(m, section)[j]
            IN /\ r # Junk /\ Open(queries[k])
               /\ names_match(queries[k].name, r.name) /\ qry_query_accepts(queries[k], r)}}
         : k \in DOMAIN queries, section \in {"answers", "additional"}}

(***************************************************************************)
(* Section 7.3: another querier's whole multicast question stands for ours.*)
(***************************************************************************)
DuplicateQuestions(m, queries) ==
  {k \in DOMAIN queries : Open(queries[k]) /\ \E q \in ToSet(Read(m, "questions")) :
     /\ q # Junk /\ ~q.unicast /\ q.class = "IN"
     /\ queries[k].rtype = q.rtype /\ queries[k].class = q.class
     /\ names_match(queries[k].name, q.name)}

Enter(section) ==
  [section |-> section, idx |-> 1, cursor |-> 1, served |-> FALSE, query_cursor |-> 1]

handle(t, p) ==
  LET m == p.message
      may == for_datagram(p.provenance,
                          t.trust_advertised_src_as_self /\ src_matches_advertised(t.services, p.src),
                          t.answer_questions,
                          m.is_response /\ p.src.port # MDNS_PORT)
  IN /\ table' = t /\ packet' = p
     /\ screen' = [slot |-> <<>>, relinquished |-> FALSE]
     /\ routed' = <<>>
     /\ IF ~m.plain
        THEN admitted' = Nothing /\ at' = Enter("done") /\ fed' = {} /\ quieted' = {}
        ELSE /\ admitted' = may
             /\ at' = Enter(IF all_denied(may) THEN "done" ELSE "questions")
             /\ fed' = IF may.observation /\ m.is_response THEN EagerAnswers(m, t.queries) ELSE {}
             /\ quieted' = IF /\ may.quieting /\ ~m.is_response /\ p.src.port = MDNS_PORT
                              /\ m.answers = <<>> /\ ~m.truncated
                           THEN DuplicateQuestions(m, t.queries) ELSE {}

-----------------------------------------------------------------------------
(* RouteEvents.                                                            *)

Services == {k \in DOMAIN table.services : ~table.services[k].withdrawing}

service(k) == table.services[k]

Here == Read(msg, at.section)

entry == Here[at.idx]

Entry(section) == at.section = section /\ at.idx \in DOMAIN Here /\ entry # Junk

(* The section has nothing more to read, or what is next does not parse.   *)
Unreadable == at.idx \in DOMAIN Here => entry = Junk

(***************************************************************************)
(* The first of `keys` the pass has not had yet.                           *)
(***************************************************************************)
Unserved(keys, cursor) == {k \in keys : k >= cursor}

dispatch(key, what) ==
  /\ routed' = Append(routed, [to |-> key, what |-> what, section |-> at.section, idx |-> at.idx])
  /\ at' = [at EXCEPT !.cursor = key + 1]

NextEntryKeepingCursor == at' = [at EXCEPT !.idx = @ + 1, !.served = FALSE]

NextEntry == at' = [Enter(at.section) EXCEPT !.idx = at.idx + 1]

Leave(section) ==
  /\ at' = Enter(section)
  /\ UNCHANGED <<routed, screen>>

(***************************************************************************)
(* The Question Section.  In defence only, a question about a name of ours *)
(* counts when the datagram is a probe for that name.                      *)
(***************************************************************************)
could_be_a_probe == ~msg.is_response /\ msg.authority # <<>> /\ FromMdnsPort

AnswersNothing ==
  \/ admitted.answering = "None"
  \/ admitted.answering = "DefenceOnly" /\ ~could_be_a_probe

questioned(q) ==
  {k \in Services :
     \/ q.name \in {service(k).name, service(k).host}
        /\ (admitted.answering = "DefenceOnly" => is_probe_for(msg, q.name))
     \/ admitted.answering = "All"
        /\ q.name \in {service(k).type, Meta} \cup service(k).subtypes}

LeaveQuestions ==
  /\ at.section = "questions"
  /\ AnswersNothing \/ Unreadable
  /\ Leave("answers")

RouteQuestion ==
  /\ Entry("questions") /\ ~AnswersNothing
  /\ LET keys == Unserved(questioned(entry), at.cursor)
     IN IF keys = {} THEN NextEntry /\ UNCHANGED routed
        ELSE dispatch(Min(keys), "Question")
  /\ UNCHANGED screen

(***************************************************************************)
(* relinquished_screens: the screen is asked once a record, however many   *)
(* services it is taken to.                                                *)
(***************************************************************************)
Slot == <<at.section, at.idx>>

relinquished_screens(r) == IF screen.slot = Slot THEN screen.relinquished ELSE r.relinquished

Screened(r) == screen' = IF r.class = "IN"
                         THEN [slot |-> Slot, relinquished |-> relinquished_screens(r)]
                         ELSE screen

HostClash(k, r) ==
  /\ names_match(service(k).host, r.name)
  /\ is_host_conflict_rtype(r.rtype) /\ route_publishes_host_rtype(service(k), r.rtype)

(***************************************************************************)
(* A probe's records bear on host names only; its instance records are     *)
(* judged together, as a proposal.                                         *)
(***************************************************************************)
next_host_conflict(r, relinquished) ==
  IF r.class # "IN" \/ relinquished THEN [k \in {} |-> ""]
  ELSE [k \in {j \in Services : HostClash(j, r)} |-> "HostConflict"]

(***************************************************************************)
(* An address we gave up ourselves is no conflict over the host name, but  *)
(* the service whose instance name it also is still hears of it.           *)
(***************************************************************************)
next_service_conflict(r, relinquished) ==
  LET host == {k \in Services : HostClash(k, r)}
      instance == {k \in Services : names_match(service(k).name, r.name)}
  IN IF r.class # "IN" THEN [k \in {} |-> ""]
     ELSE [k \in (IF relinquished THEN instance ELSE host \cup instance) |->
             IF k \notin host THEN "Instance"
             ELSE IF relinquished THEN "InstanceAndHost" ELSE "HostConflict"]

known_answer(r) ==
  [k \in {j \in Services : r.name \in {service(j).name, service(j).host, service(j).type, Meta}}
     |-> "KnownAnswer"]

(***************************************************************************)
(* One record's services, as a function from slot to event: those of a     *)
(* response, of a query's known answers, of a probe's Authority Section.   *)
(***************************************************************************)
ForServices(r, relinquished) ==
  CASE at.section # "authority" /\ msg.is_response ->
         IF admitted.adjudication THEN next_service_conflict(r, relinquished) ELSE [k \in {} |-> ""]
    [] at.section = "answers" /\ ~msg.is_response ->
         IF admitted.quieting THEN known_answer(r) ELSE [k \in {} |-> ""]
    [] at.section = "authority" ->
         IF msg.is_response THEN next_service_conflict(r, relinquished)
         ELSE next_host_conflict(r, relinquished)

Screens == \/ msg.is_response /\ admitted.adjudication
           \/ at.section = "authority"

(***************************************************************************)
(* The service pass over one record, then (for an answer) the query pass.  *)
(***************************************************************************)
ServicePass(r) ==
  LET hears == ForServices(r, relinquished_screens(r))
      keys == Unserved(DOMAIN hears, at.cursor)
  IN /\ ~at.served
     /\ IF Screens THEN Screened(r) ELSE UNCHANGED screen
     /\ IF keys # {} THEN dispatch(Min(keys), hears[Min(keys)])
        ELSE at' = [at EXCEPT !.served = TRUE] /\ UNCHANGED routed

Asked(r) ==
  {k \in DOMAIN table.queries :
     /\ table.queries[k].state = "open"
     /\ names_match(table.queries[k].name, r.name) /\ qry_query_accepts(table.queries[k], r)}

QueryPass(r) ==
  LET keys == IF msg.is_response /\ admitted.observation
              THEN Unserved(Asked(r), at.query_cursor) ELSE {}
  IN /\ at.served
     /\ IF keys = {} THEN NextEntry /\ UNCHANGED routed
        ELSE /\ at' = [at EXCEPT !.query_cursor = Min(keys) + 1]
             /\ routed' = Append(routed, [to |-> Min(keys), what |-> "Answer",
                                          section |-> at.section, idx |-> at.idx])
     /\ UNCHANGED screen

(***************************************************************************)
(* A goodbye contests nothing and answers nothing.                         *)
(***************************************************************************)
RouteGoodbye ==
  /\ at.section \in {"answers", "additional"} /\ Entry(at.section) /\ entry.ttl = 0
  /\ at.section = "additional" => msg.is_response
  /\ NextEntry
  /\ UNCHANGED <<routed, screen>>

RouteAnswer ==
  /\ Entry("answers") /\ entry.ttl # 0
  /\ ServicePass(entry) \/ QueryPass(entry)

LeaveAnswers ==
  /\ at.section = "answers" /\ Unreadable
  /\ Leave("proposals")

(***************************************************************************)
(* A probe's Authority Section goes, whole and once, to each service it    *)
(* may contest.                                                            *)
(***************************************************************************)
Proposes == ~msg.is_response /\ FromMdnsPort /\ admitted.adjudication

proposed_to == {k \in Services : authority_proposes_for(msg, service(k).name)}

RouteProposal ==
  /\ at.section = "proposals" /\ Proposes
  /\ LET keys == Unserved(proposed_to, at.cursor)
     IN /\ keys # {}
        /\ dispatch(Min(keys), "ProbeProposal")
  /\ UNCHANGED screen

LeaveProposals ==
  /\ at.section = "proposals"
  /\ ~Proposes \/ Unserved(proposed_to, at.cursor) = {}
  /\ Leave("authority")

AuthorityHeard == FromMdnsPort /\ admitted.adjudication

RouteAuthority ==
  /\ Entry("authority") /\ AuthorityHeard
  /\ IF entry.ttl = 0 THEN NextEntry /\ UNCHANGED <<routed, screen>>
     ELSE LET hears == ForServices(entry, relinquished_screens(entry))
              keys == Unserved(DOMAIN hears, at.cursor)
          IN /\ Screened(entry)
             /\ IF keys = {} THEN NextEntry /\ UNCHANGED routed
                ELSE dispatch(Min(keys), hears[Min(keys)])

LeaveAuthority ==
  /\ at.section = "authority"
  /\ ~AuthorityHeard \/ Unreadable
  /\ Leave(IF AuthorityHeard /\ at.idx \in DOMAIN Here THEN "done" ELSE "additional")

RouteAdditional ==
  /\ Entry("additional") /\ msg.is_response /\ entry.ttl # 0
  /\ ServicePass(entry) \/ QueryPass(entry)

LeaveAdditional ==
  /\ at.section = "additional"
  /\ ~msg.is_response \/ Unreadable
  /\ Leave("done")

RouteStep ==
  /\ \/ LeaveQuestions \/ RouteQuestion
     \/ RouteGoodbye \/ RouteAnswer \/ LeaveAnswers
     \/ RouteProposal \/ LeaveProposals
     \/ RouteAuthority \/ LeaveAuthority
     \/ RouteAdditional \/ LeaveAdditional
  /\ UNCHANGED <<table, packet, admitted, fed, quieted>>

RouteIdle ==
  /\ table = [services |-> <<>>, queries |-> <<>>]
  /\ packet = [message |-> Junk]
  /\ admitted = Nothing /\ at = Enter("idle")
  /\ screen = [slot |-> <<>>, relinquished |-> FALSE]
  /\ routed = <<>> /\ fed = {} /\ quieted = {}

RouteInit == RouteIdle

(***************************************************************************)
(* The endpoint is borrowed for as long as a datagram is being routed.     *)
(***************************************************************************)
HandleDatagram == at.section = "idle" /\ \E t \in Tables, p \in Packets : handle(t, p)

RouteNext == HandleDatagram \/ RouteStep

RouteSpec == RouteInit /\ [][RouteNext]_routeVars

-----------------------------------------------------------------------------
(* What the walk must amount to, over the whole datagram at once.          *)

Readable(section, i) == i \in DOMAIN Read(msg, section) /\ Read(msg, section)[i] # Junk

Record(e) == Read(msg, e.section)[e.idx]

IsRecord(e) == /\ e.section \in {"answers", "authority", "additional"}
               /\ Readable(e.section, e.idx) /\ Record(e).ttl # 0

Contests(e) == /\ IsRecord(e) /\ admitted.adjudication /\ FromMdnsPort
               /\ Record(e).class = "IN" /\ e.to \in Services
               /\ msg.is_response \/ e.section = "authority"

Concerns(e) ==
  CASE e.what = "Question" ->
         /\ e.section = "questions" /\ Readable("questions", e.idx) /\ ~AnswersNothing
         /\ e.to \in questioned(Record(e))
    [] e.what = "KnownAnswer" ->
         /\ e.section = "answers" /\ IsRecord(e) /\ ~msg.is_response /\ admitted.quieting
         /\ e.to \in DOMAIN known_answer(Record(e))
    [] e.what = "ProbeProposal" ->
         e.section = "proposals" /\ e.idx = 1 /\ Proposes /\ e.to \in proposed_to
    [] e.what = "HostConflict" ->
         Contests(e) /\ HostClash(e.to, Record(e)) /\ ~Record(e).relinquished
    [] e.what = "Instance" ->
         /\ Contests(e) /\ msg.is_response
         /\ names_match(service(e.to).name, Record(e).name) /\ ~HostClash(e.to, Record(e))
    [] e.what = "InstanceAndHost" ->
         /\ Contests(e) /\ msg.is_response /\ Record(e).relinquished
         /\ names_match(service(e.to).name, Record(e).name) /\ HostClash(e.to, Record(e))
    [] e.what = "Answer" ->
         /\ <<e.to, e.section, e.idx>> \in fed /\ IsRecord(e)
         /\ table.queries[e.to].state = "open"

EntrySlots ==
  (UNION {{<<s, i>> : i \in DOMAIN msg[s]} : s \in DOMAIN Before}) \cup {<<"proposals", 1>>}

Event(k, what, slot) == [to |-> k, what |-> what, section |-> slot[1], idx |-> slot[2]]

Kinds == {"Question", "KnownAnswer", "ProbeProposal", "HostConflict", "Instance", "InstanceAndHost", "Answer"}

Events == {Event(k, what, slot) : k \in DOMAIN table.services \cup DOMAIN table.queries,
                                  what \in Kinds, slot \in EntrySlots}

(***************************************************************************)
(* RouteEvents takes every readable entry of an admitted datagram to every *)
(* service and every query it concerns, and to each exactly once, however  *)
(* the cursors resume in mid-record, a record is unreadable, or an earlier *)
(* record's screening is remembered; the answers it routes are those       *)
(* `handle` has already fed to the query, less goodbyes and late ones.     *)
(* (Two comments in route.rs, at 1058 and 1337, describe an older routing  *)
(* of authority and additional records than the code beside them does;     *)
(* Concerns follows the code.)                                             *)
(***************************************************************************)
RoutesExactly ==
  at.section = "done" /\ ~all_denied(admitted) =>
    /\ Len(routed) = Cardinality(ToSet(routed))
    /\ ToSet(routed) = {e \in Events : Concerns(e)}

(***************************************************************************)
(* The router's own reading of a probe never hides a defeat: whenever      *)
(* `adjudicate` would yield a name to the peer, authority_proposes_for     *)
(* handed the probe to that service, though the two read the section with  *)
(* different tolerance for what they cannot decode.                        *)
(***************************************************************************)
DefeatsReachTheJudge ==
  at.section = "done" /\ Proposes =>
    \A k \in Services : adjudicate(msg, service(k)) = "PeerWins" =>
      \E i \in DOMAIN routed : routed[i].to = k /\ routed[i].what = "ProbeProposal"

(***************************************************************************)
(* Of two hosts running ProposalFold on each other's probes for one name,  *)
(* never both keep it and never both give it up, unless the two record     *)
(* sets are the same: each folds the other's list in space bounded by its  *)
(* own, and still they agree who is later.                                 *)
(***************************************************************************)
OneProberYields ==
  at.section = "done" /\ Proposes =>
    \A k \in {j \in Services : ~Abandons(msg, service(j))} :
      LET ours == our_proposal(service(k))
          theirs == Sorted(PeerElements(msg, service(k)))
      IN /\ Compare(theirs, ours) = Compare(PeerElements(msg, service(k)), ours)
         /\ ours # theirs => (Compare(theirs, ours) <=> ~Compare(ours, theirs))
         /\ ours = theirs => ~Compare(theirs, ours)

=============================================================================
