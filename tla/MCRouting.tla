----------------------------- MODULE MCRouting ------------------------------
(***************************************************************************)
(* The endpoints and the datagrams of the routing run.  Two services share *)
(* a host and a third is named as its own host; datagrams are probes (with *)
(* whole, partial, unreadable and foreign proposals), responses whose      *)
(* records stand in each of the three sections, and queries with known     *)
(* answers, from each provenance and from addresses that are ours or not.  *)
(***************************************************************************)
EXTENDS Routing

Printer ==
  [name |-> "a", host |-> "h", type |-> "t", subtypes |-> {"sub"}, withdrawing |-> FALSE,
   srv |-> 1, txt |-> 1, addrs |-> {[rtype |-> "A", addr |-> 1, link_local |-> FALSE, scope |-> 0]}]

Scanner ==
  [Printer EXCEPT !.name = "b", !.srv = 2,
                  !.addrs = {[rtype |-> "AAAA", addr |-> 2, link_local |-> TRUE, scope |-> 1]}]

Alone == [Printer EXCEPT !.host = "a"]

Ask(name, rtype, class, state) == [name |-> name, rtype |-> rtype, class |-> class, state |-> state]

TwoTables ==
  {[services |-> s, answer_questions |-> aq, trust_advertised_src_as_self |-> TRUE,
    queries |-> <<Ask("a", "ANY", "IN", "open"), Ask("a", "A", "IN", "shut"), Ask("h", "A", "ANY", "open")>>] :
     s \in {<<Printer, Scanner, Alone>>, <<[Alone EXCEPT !.withdrawing = TRUE], Printer>>},
     aq \in BOOLEAN}

Rec(name, rtype, rdata) ==
  [name |-> name, rtype |-> rtype, class |-> "IN", ttl |-> 1, rdata |-> rdata, relinquished |-> FALSE]

Chaos(r) == [r EXCEPT !.class = "CH"]

GivenUp(r) == [r EXCEPT !.relinquished = TRUE]

Goodbye(r) == [r EXCEPT !.ttl = 0]

Qn(name) == [name |-> name, rtype |-> "ANY", class |-> "IN", unicast |-> FALSE]

Empty == [plain |-> TRUE, is_response |-> FALSE, truncated |-> FALSE,
          questions |-> <<>>, answers |-> <<>>, authority |-> <<>>, additional |-> <<>>]

AtMostOne(S) == {<<>>} \cup {<<x>> : x \in S}

AtMostTwo(S) == AtMostOne(S) \cup {<<x, y>> : x \in S, y \in S}

ProbeQuestions ==
  {<<>>, <<Qn("a")>>, <<Qn("h"), Qn("a")>>, <<Chaos(Qn("a"))>>, <<Qn("a"), Qn(Garbled)>>, <<Qn("a"), Junk>>}

ProbeRecords ==
  {Rec("a", "SRV", 1), Rec("a", "SRV", 2), Rec("a", "TXT", 0), Rec("a", "TXT", 1), Rec("a", "A", 1),
   Rec("a", "TXT", Undecodable), Rec("h", "A", 1), Rec(Garbled, "A", 1), Chaos(Rec("a", "TXT", 2)), Junk}

OurOwn == <<Rec("a", "SRV", 1), Rec("a", "TXT", 1), Rec("a", "A", 1)>>

Probes ==
  {[Empty EXCEPT !.questions = q, !.authority = a] : q \in ProbeQuestions, a \in AtMostTwo(ProbeRecords)}
  \cup {[Empty EXCEPT !.questions = <<Qn("a")>>, !.authority = a \o <<r>>] :
          a \in {OurOwn, Reverse(OurOwn), Tail(OurOwn)}, r \in ProbeRecords}

AnswerRecords ==
  {Rec("a", "SRV", 1), Rec("h", "A", 1), GivenUp(Rec("a", "A", 1)), GivenUp(Rec("h", "A", 1)),
   Goodbye(Rec("a", "A", 1)), Chaos(Rec("h", "A", 2)), Junk}

Response == [Empty EXCEPT !.is_response = TRUE]

Responses ==
  {[Response EXCEPT !.answers = a] : a \in AtMostTwo(AnswerRecords)}
  \cup {[Response EXCEPT !.additional = a] : a \in AtMostTwo(AnswerRecords)}
  \cup {[Response EXCEPT !.answers = a, !.authority = u, !.additional = d] :
          a \in AtMostOne(AnswerRecords), u \in AtMostOne(AnswerRecords),
          d \in AtMostOne({Rec("a", "SRV", 1), Rec("h", "A", 1)})}

KnownAnswers == {Rec("a", "SRV", 1), Rec("h", "A", 1), Rec("t", "PTR", 1), Goodbye(Rec("a", "A", 1)), Junk}

Queries ==
  {[Empty EXCEPT !.questions = q, !.answers = a] :
     q \in {<<>>, <<Qn("a"), Qn("t")>>, <<Qn("sub"), Qn(Meta)>>, <<Qn("h"), Junk>>},
     a \in AtMostTwo(KnownAnswers)}
  \cup {[Empty EXCEPT !.questions = <<q>>, !.truncated = tc] :
          q \in {[Qn("h") EXCEPT !.rtype = "A"], [Qn("a") EXCEPT !.unicast = TRUE]}, tc \in BOOLEAN}
  \cup {[Empty EXCEPT !.plain = FALSE]}

Messages == Probes \cup Responses \cup Queries

Short == {m \in Messages : Len(m.answers) + Len(m.authority) <= 1}

From(port, rtype, addr, interface) ==
  [port |-> port, rtype |-> rtype, addr |-> addr, interface |-> interface]

SomePackets ==
  {[message |-> m, provenance |-> v, src |-> From(5353, "A", 7, 1)] :
     m \in Messages, v \in {"OwnEchoLikely", "NotFromUs"}}
  \cup {[message |-> m, provenance |-> v, src |-> s] :
          m \in Short, v \in {"OwnEcho", "Unknown"},
          s \in {From(5353, "A", 1, 2), From(5353, "AAAA", 2, 1), From(5353, "AAAA", 2, 2), From(53, "A", 7, 1)}}

=============================================================================
