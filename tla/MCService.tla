----------------------------- MODULE MCService ------------------------------
(***************************************************************************)
(* Socket behaviours and response contents for the runs of Service.        *)
(***************************************************************************)
EXTENDS Service

Fan(outcomes) == [Families -> outcomes]

(* Every family may carry a datagram or fail to.                           *)
Flaky == Fan({"accepted", "refused"})

(* IPv4 always carries, IPv6 comes and goes.                               *)
OneSound == {s \in Flaky : s["v4"] = "accepted"}

(* Only IPv4 is bound.                                                     *)
SingleStack == {s \in Fan({"accepted", "no_socket"}) : s["v4"] = "accepted" /\ s["v6"] = "no_socket"}

(* Everything a socket can answer.                                         *)
AllOutcomes == Fan({"accepted", "refused", "refused_permanent", "no_socket"})

=============================================================================
