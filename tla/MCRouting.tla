----------------------------- MODULE MCRouting -----------------------------
(* Routing on two IPv4 addresses and one IPv6 address: the lists of rules  *)
(* have up to two rules that hold the first, the second or both addresses, *)
(* so that the first match, a rule whose tree is late and a GEOIP rule     *)
(* behind an IP-CIDR rule all occur.                                       *)
EXTENDS Routing

CONSTANTS a1, a2, s1

MCIpv4 == {a1, a2}
MCIpv6 == {s1}

Rule(how, as, r) == [by |-> how, addrs |-> as, route |-> r]

MCRuleLists ==
    {<<>>}
    \cup {<<Rule("tree", {a1}, r), Rule("geoip", {a1, a2}, q)>> :
              r \in Routes, q \in Routes}
    \cup {<<Rule("tree", {a1, a2}, r), Rule("tree", {a1}, q)>> :
              r \in Routes, q \in Routes}

MCAnswers == {<<a>> : a \in Addresses}
    \cup {<<a, b>> : a \in Addresses, b \in Addresses}
=============================================================================
