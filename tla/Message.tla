------------------------------ MODULE Message -------------------------------
(***************************************************************************)
(* A received DNS message as the endpoint reads it: the lazy section       *)
(* readers (mdns-proto/src/wire/reader.rs) and the rules that match a      *)
(* record to a name (mdns-proto/src/endpoint/matching.rs).                 *)
(*                                                                         *)
(* A message has four sections of entries.  An entry that does not parse   *)
(* is Junk; a name that parses but whose labels do not decode is Garbled,  *)
(* which matches no stored name.  rdata is a number in canonical order, or *)
(* Undecodable.                                                            *)
(***************************************************************************)
EXTENDS Integers, SequencesExt

Junk == [junk |-> TRUE]

Garbled == "garbled"

Meta == "_services._dns-sd._udp.local."

Undecodable == 99

Before == [questions |-> {}, answers |-> {"questions"}, authority |-> {"questions", "answers"},
           additional |-> {"questions", "answers", "authority"}]

(***************************************************************************)
(* What iterating a section yields: nothing when an earlier section cannot *)
(* be skipped over, and nothing past an entry that does not parse.         *)
(***************************************************************************)
Read(m, section) ==
  LET entries == m[section]
      stop == SelectInSeq(entries, LAMBDA e : e = Junk)
  IN IF \E s \in Before[section] : \E i \in DOMAIN m[s] : m[s][i] = Junk THEN <<>>
     ELSE IF stop = 0 THEN entries ELSE SubSeq(entries, 1, stop)

names_match(stored, incoming) == stored = incoming

is_meta_query_name(name) == names_match(Meta, name)

name_fully_decodes(name) == name # Garbled

question_is_about(q, name) == q.class \in {"IN", "ANY"} /\ names_match(name, q.name)

is_host_conflict_rtype(rtype) == rtype \in {"A", "AAAA"}

route_publishes_host_rtype(route, rtype) == \E a \in route.addrs : a.rtype = rtype

qry_query_accepts(q, r) == q.rtype \in {"ANY", r.rtype} /\ q.class \in {"ANY", r.class}

-----------------------------------------------------------------------------
(***************************************************************************)
(* ProposalScope: whether a record of the Authority Section is part of a   *)
(* proposal for `name`, which the Question Section must be about.  The     *)
(* questions are read to their end, and only for a record of that owner.   *)
(***************************************************************************)
QuestionsUnreadable(m) ==
  \E q \in ToSet(Read(m, "questions")) : q = Junk \/ ~name_fully_decodes(q.name)

read_questions(m, name) == \E q \in ToSet(Read(m, "questions")) : question_is_about(q, name)

admits(m, name, r) ==
  CASE r.class # "IN" \/ ~names_match(name, r.name) -> "NotOurs"
    [] OTHER -> IF QuestionsUnreadable(m) THEN "Unreadable"
                ELSE IF read_questions(m, name) THEN "Ours" ELSE "NotOurs"

ProposedByFirstRecord(m, name) ==
  LET records == Read(m, "authority")
  IN records # <<>> /\ records[1] # Junk /\ admits(m, name, records[1]) = "Ours"

(***************************************************************************)
(* Whether to hand the Authority Section to the service named `name`: the  *)
(* first record to settle it does, and an unreadable one settles it as no. *)
(***************************************************************************)
authority_proposes_for(m, name) ==
  LET records == Read(m, "authority")
      settles == SelectInSeq(records, LAMBDA r : r = Junk \/ admits(m, name, r) # "NotOurs")
  IN settles # 0 /\ records[settles] # Junk /\ admits(m, name, records[settles]) = "Ours"

(***************************************************************************)
(* Whether a query is a probe for `name`, and so worth defending against:  *)
(* a doubt about the questions counts as yes.                              *)
(***************************************************************************)
is_probe_for(m, name) ==
  LET records == Read(m, "authority")
      settles == SelectInSeq(records, LAMBDA r :
                   r = Junk \/ (name_fully_decodes(r.name) /\ admits(m, name, r) # "NotOurs"))
  IN settles # 0 /\ records[settles] # Junk

=============================================================================
