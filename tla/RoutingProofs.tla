---------------------------- MODULE RoutingProofs ----------------------------
(***************************************************************************)
(* Routing for every set of addresses, every list of rules and every       *)
(* answer: the invariant RoutingInv is inductive and implies the safety    *)
(* properties of Routing.                                                  *)
(***************************************************************************)
EXTENDS Routing, WellFoundedInduction, TLAPS

(* No decision was made and no URL rule matched: only IPv6 addresses were  *)
(* contacted, and without one nothing has set a route.                     *)
BeforeDecision ==
    stage = "none" /\ determined = 0 =>
        /\ tried \cap Ipv4 = {}
        /\ step \in {"route", "resolve", "next", "connect", "done"}
        /\ step # "done" /\ tried \cap Ipv6 = {} => routing = "NONE"

(* What a step of the request relies on.                                   *)
StepRoute ==
    /\ step = "route" => routing = "NONE" /\ stage = "none" /\ determined = 0
                         /\ tried = {}
    /\ step = "resolve" => tried = {} /\ determined = 0
    /\ step \in {"resolve", "next", "connect"} =>
           /\ routing \in {"NONE", "DIRECT"}
           /\ Usable(urlRoute) \in {"NONE", "DIRECT"}
           /\ urlRoute # "NONE" => stage = "url"
    /\ step = "gateway" => routing = "PROXY" /\ HasProxy
    /\ stage = "url" => urlRoute # "NONE"

(* A complete decision stays what it was.                                  *)
Ruled ==
    ruledOn # NoAddress => AllLoaded /\ determined = 1 /\ urlRoute = "NONE"

(* The control of a request, whatever the rules say.                       *)
ControlInv ==
    /\ TypeOK
    /\ StepRoute
    /\ BeforeDecision
    /\ Ruled
    /\ RecordedRoute
    /\ UrlRuleWins

RoutingInv == ControlInv /\ RulesObeyed /\ SameRoute

-----------------------------------------------------------------------------
(* A non-empty set of numbers has a smallest one.                          *)
LEMMA SmallestIndex ==
    ASSUME NEW S, S \subseteq Nat, S # {}
    PROVE  \E i \in S : \A j \in S : i <= j
<1> DEFINE Less == {ss \in Nat \X Nat : ss[1] < ss[2]}
<1>1. IsWellFoundedOn(Less, Nat)
    BY NatLessThanWellFounded DEF OpToRel
<1>2. PICK i \in S : \A j \in S : ~(<<j, i>> \in Less)
    <2> HIDE DEF Less
    <2> QED BY <1>1, WFMin
<1>3. \A j \in S : ~(j < i)
    BY <1>2
<1> QED BY <1>3

(* The rule that decides on an address is the first whose tree, when it    *)
(* has one, is filled.                                                     *)
FirstMatch(a) ==
    CHOOSE i \in Matching(a) : \A j \in Matching(a) : i <= j

LEMMA FirstMatchIsFirst ==
    ASSUME NEW a, Matching(a) # {}
    PROVE  FirstMatch(a) \in Matching(a)
           /\ \A j \in Matching(a) : FirstMatch(a) <= j
<1>1. Matching(a) \subseteq Nat
    BY DEF Matching
<1>2. \E i \in Matching(a) : \A j \in Matching(a) : i <= j
    BY <1>1, SmallestIndex
<1> QED BY <1>2 DEF FirstMatch

LEMMA RouteOfMatch ==
    ASSUME NEW a, Matching(a) # {}
    PROVE  ForwardIpRouting(a) = ipRules[FirstMatch(a)].route
BY DEF ForwardIpRouting, FirstMatch

(* What the IP rules say of an address is a route or nothing.              *)
LEMMA RoutingType ==
    ASSUME NEW a, ipRules \in Seq(Rules)
    PROVE  /\ Matching(a) = {} => ForwardIpRouting(a) = "NONE"
           /\ Matching(a) # {} => ForwardIpRouting(a) \in Routes
<1>1. CASE Matching(a) = {}
    BY <1>1 DEF ForwardIpRouting
<1>2. CASE Matching(a) # {}
    <2>1. FirstMatch(a) \in 1 .. Len(ipRules)
        BY <1>2, FirstMatchIsFirst DEF Matching
    <2>2. ipRules[FirstMatch(a)] \in Rules
        BY <2>1
    <2>3. ipRules[FirstMatch(a)].route \in Routes
        BY <2>2 DEF Rules
    <2> QED BY <1>2, <2>3, RouteOfMatch
<1> QED BY <1>1, <1>2

(* With every tree filled, the rule that decides is the first that holds   *)
(* the address.                                                            *)
LEMMA FirstRuleDecides ==
    ASSUME NEW a, NEW r, ipRules \in Seq(Rules), AllLoaded,
           FirstRuleSays(a, r)
    PROVE  Matching(a) # {} /\ ForwardIpRouting(a) = r
<1>1. PICK i \in 1 .. Len(ipRules) :
          /\ a \in ipRules[i].addrs /\ ipRules[i].route = r
          /\ \A j \in 1 .. i - 1 : a \notin ipRules[j].addrs
    BY DEF FirstRuleSays
<1>2. Len(ipRules) \in Nat
    OBVIOUS
<1>3. ipRules[i].by \in {"tree", "geoip"}
    <2>1. ipRules[i] \in Rules
        OBVIOUS
    <2> QED BY <2>1 DEF Rules
<1>4. i \in Matching(a)
    BY <1>1, <1>3 DEF Matching, Matches, AllLoaded, TreeRules
<1>5. \A j \in Matching(a) : j \in 1 .. Len(ipRules) /\ a \in ipRules[j].addrs
    BY DEF Matching, Matches
<1>6. \A j \in Matching(a) : i <= j
    BY <1>1, <1>2, <1>5
<1>7. FirstMatch(a) \in 1 .. Len(ipRules) /\ FirstMatch(a) <= i /\ i <= FirstMatch(a)
    BY <1>4, <1>5, <1>6, FirstMatchIsFirst
<1>8. FirstMatch(a) = i
    BY <1>2, <1>7
<1> QED BY <1>1, <1>4, <1>8, RouteOfMatch

LEMMA NoRuleMatches ==
    ASSUME NEW a, NoRuleHolds(a)
    PROVE  Matching(a) = {}
BY DEF NoRuleHolds, Matching, Matches

-----------------------------------------------------------------------------
(* The control of a request.                                               *)

LEMMA ControlInit == Init => ControlInv
<1> SUFFICES ASSUME Init PROVE ControlInv
    OBVIOUS
<1> USE DEF Init
<1>1. TypeOK
    BY ListAssumption DEF TypeOK, TreeRules
<1>2. StepRoute /\ BeforeDecision /\ Ruled /\ RecordedRoute /\ UrlRuleWins
    BY DEF StepRoute, BeforeDecision, Ruled, RecordedRoute, UrlRuleWins
<1> QED BY <1>1, <1>2 DEF ControlInv

(* What a decision may be.                                                 *)
LEMMA DecisionType ==
    ASSUME TypeOK, NEW a, routing \in {"NONE", "DIRECT"}
    PROVE  /\ Decision(a) \in Routes
           /\ Decision(a) = "PROXY" => HasProxy
           /\ DecisionStage(a) \in {"none", "ip", "pollution"}
<1>1. ForwardIpRouting(a) \in Routes \cup {"NONE"}
    BY RoutingType, ListAssumption DEF TypeOK, Routes
<1> QED BY <1>1 DEF Decision, DecisionStage, ByIpRule, DefaultRoute, Usable,
              Routes

LEMMA ControlStep == ControlInv /\ [Next]_vars => ControlInv'
<1> SUFFICES ASSUME ControlInv, [Next]_vars PROVE ControlInv'
    OBVIOUS
<1> USE DEF ControlInv, TypeOK, StepRoute, BeforeDecision, Ruled,
            RecordedRoute, UrlRuleWins, Addresses, Routes, rules, trees,
            request, HasProxy, Usable, Finish
<1>1. CASE LoadRule
    <2>1. ruledOn = NoAddress /\ UNCHANGED <<rules, request>>
        BY <1>1 DEF LoadRule, AllLoaded
    <2>2. loaded' \subseteq TreeRules' /\ loadedDns' \subseteq polluted'
        BY <1>1 DEF LoadRule, TreeRules
    <2> QED BY <2>1, <2>2
<1>2. CASE ForwardUrl
    BY <1>2 DEF ForwardUrl, AfterUrl, UrlStage, AllLoaded, TreeRules
<1>3. CASE ResolveAnswers
    BY <1>3, ListAssumption DEF ResolveAnswers, AllLoaded, TreeRules
<1>4. CASE ResolveFails
    BY <1>4 DEF ResolveFails, GatewayResolves, AllLoaded, TreeRules
<1>5. CASE Unnameable
    BY <1>5 DEF Unnameable, AllLoaded, TreeRules
<1>6. CASE TakeIpv6
    BY <1>6, AddressAssumption DEF TakeIpv6, Contact, AllLoaded, TreeRules
<1>7. CASE TakeIpv4
    BY <1>7 DEF TakeIpv4, Contact, Undecided, AllLoaded, TreeRules
<1>8. CASE DecideIpv4
    <2>1. /\ routing' \in Routes
          /\ routing' = "PROXY" => HasProxy
          /\ stage' \in {"none", "ip", "pollution"}
        BY <1>8, DecisionType DEF DecideIpv4
    <2> QED BY <1>8, <2>1, AddressAssumption
              DEF DecideIpv4, Follow, Contact, Undecided, AllLoaded, TreeRules
<1>9. CASE NoMoreAddresses
    BY <1>9 DEF NoMoreAddresses, AllLoaded, TreeRules
<1>10. CASE Connect
    BY <1>10 DEF Connect, AllLoaded, TreeRules
<1>11. CASE Gateway
    BY <1>11 DEF Gateway, GatewayFails, AllLoaded, TreeRules
<1>12. CASE UNCHANGED vars
    BY <1>12 DEF vars, AllLoaded, TreeRules
<1> QED BY <1>1, <1>2, <1>3, <1>4, <1>5, <1>6, <1>7, <1>8, <1>9, <1>10,
          <1>11, <1>12 DEF Next, Request

-----------------------------------------------------------------------------
(* The decision.                                                           *)

(* A complete decision does what the rules say and what the SOCKS proxy    *)
(* does.                                                                   *)
LEMMA DecideObeys ==
    ControlInv /\ DecideIpv4 => RulesObeyed' /\ SameRoute'
<1> SUFFICES ASSUME ControlInv, DecideIpv4, ruledOn' # NoAddress
             PROVE  RulesObeyed' /\ SameRoute'
    BY AddressAssumption DEF RulesObeyed, SameRoute
<1> DEFINE a == Head(pending)
<1>1. /\ AllLoaded /\ ruledOn' = a /\ a \in Ipv4 /\ a \notin tried
      /\ routing \in {"NONE", "DIRECT"}
      /\ tried \cap Ipv6 = {} => routing = "NONE"
      /\ routing' = Decision(a) /\ Follow(a)
      /\ ipRules \in Seq(Rules) /\ loadedDns = polluted
    BY ListAssumption DEF ControlInv, TypeOK, StepRoute, BeforeDecision,
       Ruled, DecideIpv4, Undecided, AllLoaded
<1>2. UNCHANGED <<rules, trees>>
    BY DEF DecideIpv4
<1>3. tried \subseteq tried'
    BY <1>1 DEF Follow, Contact
<1>4. routing' \in {"PROXY", "BLOCK"} => tried' = tried
    BY <1>1 DEF Follow, Contact
<1>5. routing' = "BLOCK" => outcome' = "blocked"
    BY <1>1 DEF Follow, Finish
<1> HIDE DEF a
<1>6. /\ Matching(a) = {} => ForwardIpRouting(a) = "NONE"
      /\ Matching(a) # {} => ForwardIpRouting(a) \in Routes
    BY <1>1, RoutingType
<1>7. RulesObeyed'
    <2>1. ASSUME NEW r \in Routes, FirstRuleSays(a, r), r # "PROXY" \/ HasProxy
          PROVE  routing' = r
        BY <1>1, <2>1, FirstRuleDecides DEF Decision, ByIpRule, Usable, Routes
    <2>2. ASSUME NoRuleHolds(a), tried \cap Ipv6 = {}, HasProxy,
                 a \in polluted \/ GlobalMode
          PROVE  routing' = "PROXY"
        BY <1>1, <2>2, NoRuleMatches DEF Decision, ByIpRule, DefaultRoute
    <2> QED BY <1>1, <1>2, <1>3, <1>4, <1>5, <2>1, <2>2
              DEF RulesObeyed, FirstRuleSays, NoRuleHolds, HasProxy,
                  GlobalMode, Routes, rules
<1>8. SameRoute'
    <2>1. SocksRoute(ruledOn)' = SocksRoute(a)
        BY <1>1, <1>2 DEF SocksRoute, ForwardIpRouting, Matching, Matches,
           HasProxy, DefaultRoute, GlobalMode, rules, trees
    <2>2. ASSUME a \notin polluted, tried \cap Ipv6 = {}
          PROVE  Decision(a) = SocksRoute(a)
        BY <1>1, <1>6, <2>2 DEF Decision, ByIpRule, SocksRoute,
           DefaultRoute, Usable, Routes
    <2> QED BY <1>1, <1>2, <1>3, <2>1, <2>2 DEF SameRoute, rules
<1> QED BY <1>7, <1>8

(* No other step undoes a complete decision.                               *)
LEMMA DecisionStays ==
    RoutingInv /\ [Next]_vars /\ ~DecideIpv4 => RulesObeyed' /\ SameRoute'
<1> SUFFICES ASSUME RoutingInv, [Next]_vars, ~DecideIpv4,
                    ruledOn' # NoAddress
             PROVE  RulesObeyed' /\ SameRoute'
    BY AddressAssumption DEF RulesObeyed, SameRoute
<1> USE DEF rules, trees, request
<1>1. ruledOn' = ruledOn
    BY DEF Next, Request, vars, LoadRule, ForwardUrl, ResolveAnswers,
       ResolveFails, Unnameable, TakeIpv6, TakeIpv4, NoMoreAddresses,
       Connect, Gateway
<1>2. AllLoaded /\ determined = 1 /\ step # "route" /\ step # "resolve"
    BY <1>1 DEF RoutingInv, ControlInv, Ruled, StepRoute
<1>3. ~LoadRule /\ ~ForwardUrl /\ ~ResolveAnswers /\ ~ResolveFails
    BY <1>2 DEF LoadRule, AllLoaded, ForwardUrl, ResolveAnswers, ResolveFails
<1>4. UNCHANGED <<rules, trees>>
    BY <1>3 DEF Next, Request, vars, Unnameable, TakeIpv6, TakeIpv4,
       NoMoreAddresses, Connect, Gateway
<1>5. \/ routing' = routing
      \/ routing' = "DIRECT" /\ tried' \cap Ipv6 # {} /\ step = "next"
    BY <1>3 DEF Next, Request, vars, Unnameable, TakeIpv6, TakeIpv4, Contact,
       NoMoreAddresses, Connect, Gateway
<1>6. routing \in {"PROXY", "BLOCK"} =>
          tried' = tried /\ routing' = routing
          /\ (outcome = "blocked" => outcome' = outcome)
    BY <1>3 DEF Next, Request, vars, Unnameable, TakeIpv6, TakeIpv4, Contact,
       NoMoreAddresses, Connect, Gateway, GatewayFails, Finish, RoutingInv,
       ControlInv, StepRoute, TypeOK
<1>7. tried \subseteq tried'
    BY <1>3 DEF Next, Request, vars, Unnameable, TakeIpv6, TakeIpv4, Contact,
       NoMoreAddresses, Connect, Gateway
<1>8. outcome = "blocked" => routing = "BLOCK"
    BY DEF RoutingInv, ControlInv, RecordedRoute
<1>9. RulesObeyed'
    BY <1>1, <1>4, <1>5, <1>6, <1>7, <1>8
       DEF RoutingInv, RulesObeyed, FirstRuleSays, NoRuleHolds, HasProxy,
           GlobalMode
<1>10. SameRoute'
    <2>1. SocksRoute(ruledOn)' = SocksRoute(ruledOn)
        BY <1>1, <1>4 DEF SocksRoute, ForwardIpRouting, Matching, Matches,
           HasProxy, DefaultRoute, GlobalMode
    <2> QED BY <1>1, <1>4, <1>5, <1>7, <2>1 DEF RoutingInv, SameRoute
<1> QED BY <1>9, <1>10

-----------------------------------------------------------------------------
(* The theorems.                                                           *)

(* RoutingInv holds in every state of every request.                       *)
THEOREM RoutingSafe == Spec => []RoutingInv
<1>1. Init => RoutingInv
    BY ControlInit, AddressAssumption
       DEF RoutingInv, RulesObeyed, SameRoute, Init
<1>2. RoutingInv /\ [Next]_vars => RoutingInv'
    BY ControlStep, DecideObeys, DecisionStays DEF RoutingInv
<1> QED BY <1>1, <1>2, PTL DEF Spec

(* The request log records the route a request took.                       *)
THEOREM RouteIsRecorded == Spec => []RecordedRoute
BY RoutingSafe, PTL DEF RoutingInv, ControlInv

(* Type correctness of Routing.                                            *)
THEOREM RoutingTyped == Spec => []TypeOK
BY RoutingSafe, PTL DEF RoutingInv, ControlInv

(* A URL rule decides before any server is contacted.                      *)
THEOREM UrlRuleDecides == Spec => []UrlRuleWins
BY RoutingSafe, PTL DEF RoutingInv, ControlInv

(* An address decided on with every tree filled gets what the rules say.   *)
THEOREM RulesAreObeyed == Spec => []RulesObeyed
BY RoutingSafe, PTL DEF RoutingInv

(* The HTTP proxy and the SOCKS proxy agree.                               *)
THEOREM ProxiesAgree == Spec => []SameRoute
BY RoutingSafe, PTL DEF RoutingInv

(* Nothing is contacted directly once a request is proxied or refused.     *)
THEOREM NeverFallsBack == Spec => NoFallback
<1>1. RoutingInv /\ [Next]_vars
      => [(routing \in {"PROXY", "BLOCK"}) => tried' = tried]_vars
    <2> SUFFICES ASSUME RoutingInv, Next, routing \in {"PROXY", "BLOCK"}
                 PROVE  tried' = tried
        OBVIOUS
    <2>1. step \notin {"next", "connect", "resolve", "route"}
        BY DEF RoutingInv, ControlInv, StepRoute
    <2> QED BY <2>1 DEF Next, Request, LoadRule, request, ForwardUrl,
              ResolveAnswers, ResolveFails, Unnameable, TakeIpv6, TakeIpv4,
              DecideIpv4, NoMoreAddresses, Connect, Gateway
<1> QED BY <1>1, RoutingSafe, PTL DEF Spec, NoFallback
=============================================================================
