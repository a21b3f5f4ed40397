------------------------------- MODULE Routing -------------------------------
(***************************************************************************)
(* How the HTTP proxy routes one request: directly to the server, through  *)
(* the gateway (the local Shadowsocks port), or not at all.                *)
(*                                                                         *)
(* forward_url (filters.c) matches the URL rules before the server's name  *)
(* is resolved. rfc2553_connect_to (jbsockets.c) resolves it and, unless a *)
(* URL rule matched, decides by the first IPv4 address it reaches in the   *)
(* answer: IP rules, then the list of addresses forged DNS answers carry,  *)
(* then the default route. Addresses that are to be contacted directly are *)
(* tried one after the other.                                              *)
(*                                                                         *)
(* The IP rules are in the list as soon as the actions file is read, but   *)
(* the tree of an IP-CIDR or DNS-IP-CIDR rule is filled later, by a block  *)
(* on a concurrent queue (actions.m:1656, 1669), while requests already    *)
(* run. The SOCKS proxy looks its destinations up in the same list.        *)
(*                                                                         *)
(* Requests share nothing but the rules, so one is modelled.               *)
(***************************************************************************)
EXTENDS Integers, Sequences

CONSTANTS
    Ipv4, Ipv6,  \* the addresses of each family
    RuleLists,   \* the lists of IP rules a configuration may hold
    Answers,     \* the lists of addresses a name may resolve to
    NoAddress    \* no address

Addresses == Ipv4 \cup Ipv6
Routes == {"PROXY", "DIRECT", "BLOCK"}

(* An IP rule names its addresses by a tree, filled later, or by a country *)
(* of the GEOIP database, opened when the rule is read.                    *)
Rules == [by : {"tree", "geoip"}, addrs : SUBSET Ipv4, route : Routes]

ASSUME AddressAssumption ==
    Ipv4 \cap Ipv6 = {} /\ NoAddress \notin Ipv4 \cup Ipv6
ASSUME ListAssumption ==
    RuleLists \subseteq Seq(Rules) /\ Answers \subseteq Seq(Addresses)

VARIABLES
    ipRules,   \* po_ip_rules
    polluted,  \* the addresses of po_dns_ip_rules
    urlRoute,  \* routing of the first URL rule that matches, "NONE" if none
    options,   \* "proxy": proxy_list is set; "global": global_mode is on
    loaded,    \* the indices of the IP rules whose tree is filled
    loadedDns, \* the addresses of polluted whose tree is filled
    step,      \* where the thread that serves the request is
    pending,   \* the addresses of the DNS answer still to be considered
    address,   \* the address being connected to
    routing,   \* csp->routing
    stage,     \* csp->current_forward_stage
    determined,\* csp->forward_determined
    outcome,   \* how the request ended
    tried,     \* history: the addresses contacted directly
    ruledOn    \* history: the address decided on with every tree filled

rules == <<ipRules, polluted, urlRoute, options>>
trees == <<loaded, loadedDns>>
request == <<step, pending, address, routing, stage, determined, outcome,
             tried, ruledOn>>
vars == <<rules, trees, request>>

HasProxy == "proxy" \in options
GlobalMode == "global" \in options

(* The indices of the IP rules a block has to fill a tree for.             *)
TreeRules == {i \in 1 .. Len(ipRules) : ipRules[i].by = "tree"}
AllLoaded == loaded = TreeRules /\ loadedDns = polluted

(* What each variable may hold; a request under way has no outcome.        *)
TypeOK ==
    /\ ipRules \in RuleLists
    /\ polluted \subseteq Ipv4
    /\ urlRoute \in Routes \cup {"NONE"}
    /\ options \subseteq {"proxy", "global"}
    /\ loaded \subseteq TreeRules
    /\ loadedDns \subseteq polluted
    /\ step \in {"route", "resolve", "next", "connect", "gateway", "done"}
    /\ pending \in Seq(Addresses)
    /\ address \in Addresses \cup {NoAddress}
    /\ routing \in Routes \cup {"NONE"}
    /\ stage \in {"none", "url", "ip", "pollution", "dnsfailure"}
    /\ determined \in {0, 1}
    /\ outcome \in {"none", "direct", "proxied", "blocked", "failed"}
    /\ outcome = "none" <=> step # "done"
    /\ tried \subseteq Addresses
    /\ ruledOn \in Ipv4 \cup {NoAddress}

(* The actions file was read; the blocks that fill the trees and the first *)
(* request are yet to run. ProxyManager sets proxy_list when the port of   *)
(* Shadowsocks is known; global_mode comes from the configuration file.    *)
Init ==
    /\ ipRules \in RuleLists
    /\ polluted \in SUBSET Ipv4
    /\ urlRoute \in Routes \cup {"NONE"}
    /\ options \in SUBSET {"proxy", "global"}
    /\ loaded = {}
    /\ loadedDns = {}
    /\ step = "route"
    /\ pending = <<>>
    /\ address = NoAddress
    /\ routing = "NONE"
    /\ stage = "none"
    /\ determined = 0
    /\ outcome = "none"
    /\ tried = {}
    /\ ruledOn = NoAddress

-----------------------------------------------------------------------------
(* loadIPCIDR fills the tree of one rule.                                  *)

LoadRule ==
    /\ \/ \E i \in TreeRules \ loaded :
              loaded' = loaded \cup {i} /\ UNCHANGED loadedDns
       \/ \E a \in polluted \ loadedDns :
              loadedDns' = loadedDns \cup {a} /\ UNCHANGED loaded
    /\ UNCHANGED <<rules, request>>

-----------------------------------------------------------------------------
(* What the rules say of an IPv4 address.                                  *)

Matches(i, a) ==
    /\ a \in ipRules[i].addrs
    /\ ipRules[i].by = "geoip" \/ i \in loaded

Matching(a) == {i \in 1 .. Len(ipRules) : Matches(i, a)}

(* Mutant: the last rule that matches decides.                             *)
MutForwardIpRouting(a) ==
    IF Matching(a) = {} THEN "NONE"
    ELSE ipRules[CHOOSE i \in Matching(a) :
                     \A j \in Matching(a) : j <= i].route

(* The first rule of the list that matches.                                *)
ForwardIpRouting(a) ==
    IF Matching(a) = {} THEN "NONE"
    ELSE ipRules[CHOOSE i \in Matching(a) :
                     \A j \in Matching(a) : i <= j].route

(* Mutant: without a proxy the rule is kept.                               *)
MutUsable(route) == route

(* A PROXY rule is ignored when there is no proxy.                         *)
Usable(route) == IF route = "PROXY" /\ ~HasProxy THEN "NONE" ELSE route

DefaultRoute == IF GlobalMode /\ HasProxy THEN "PROXY" ELSE "DIRECT"

(* config_isallowed: the SOCKS proxy's route to an IPv4 address.           *)
SocksRoute(a) ==
    LET r == ForwardIpRouting(a)
    IN  IF r = "PROXY" /\ HasProxy THEN "PROXY"
        ELSE IF r \in {"BLOCK", "DIRECT"} THEN r
        ELSE DefaultRoute

-----------------------------------------------------------------------------
(* The thread of the request.                                              *)

Finish(how) == step' = "done" /\ outcome' = how

UrlStage == IF urlRoute = "NONE" THEN "none" ELSE "url"

(* Mutant: a rejected URL is only refused when no server can be reached.   *)
MutAfterUrl ==
    \/ routing' = "PROXY" /\ step' = "gateway" /\ UNCHANGED outcome
    \/ routing' # "PROXY" /\ step' = "resolve" /\ UNCHANGED outcome

(* Where the request goes once the URL rules are matched.                  *)
AfterUrl ==
    \/ routing' = "BLOCK" /\ Finish("blocked")
    \/ routing' = "PROXY" /\ step' = "gateway" /\ UNCHANGED outcome
    \/ /\ routing' \in {"NONE", "DIRECT"}
       /\ step' = "resolve" /\ UNCHANGED outcome

(* forward_url, then block_url: a rejected request is answered here.       *)
ForwardUrl ==
    /\ step = "route"
    /\ routing' = Usable(urlRoute)
    /\ stage' = UrlStage
    /\ AfterUrl
    /\ UNCHANGED <<rules, trees, pending, address, determined, tried, ruledOn>>

ResolveAnswers ==
    /\ step = "resolve"
    /\ \E answer \in Answers : pending' = answer
    /\ step' = "next"
    /\ UNCHANGED <<rules, trees, address, routing, stage, determined, outcome,
                   tried, ruledOn>>

(* Mutant: a name that does not resolve is left to the gateway even when   *)
(* there is none.                                                          *)
MutGatewayResolves == routing' = "PROXY" /\ stage' = "dnsfailure"
                      /\ step' = "gateway" /\ UNCHANGED outcome

(* A name that does not resolve is left to the gateway to resolve, be the  *)
(* URL rule what it may.                                                   *)
GatewayResolves ==
    \/ /\ HasProxy
       /\ routing' = "PROXY"
       /\ stage' = "dnsfailure"
       /\ step' = "gateway"
       /\ UNCHANGED outcome
    \/ ~HasProxy /\ Finish("failed") /\ UNCHANGED <<routing, stage>>

ResolveFails ==
    /\ step = "resolve"
    /\ GatewayResolves
    /\ UNCHANGED <<rules, trees, pending, address, determined, tried, ruledOn>>

(* The next address of the answer, if getnameinfo can name it.             *)
Unnameable ==
    /\ step = "next"
    /\ pending # <<>>
    /\ pending' = Tail(pending)
    /\ UNCHANGED <<rules, trees, step, address, routing, stage, determined,
                   outcome, tried, ruledOn>>

Contact(a) ==
    /\ step' = "connect"
    /\ address' = a
    /\ tried' = tried \cup {a}
    /\ UNCHANGED outcome

(* IPv6 addresses are always contacted directly; no rule is about them.    *)
TakeIpv6 ==
    /\ step = "next"
    /\ pending # <<>>
    /\ Head(pending) \in Ipv6
    /\ routing' = "DIRECT"
    /\ Contact(Head(pending))
    /\ pending' = Tail(pending)
    /\ UNCHANGED <<rules, trees, stage, determined, ruledOn>>

Undecided == stage = "none" /\ determined = 0

(* An earlier decision holds for every further address.                    *)
TakeIpv4 ==
    /\ step = "next"
    /\ pending # <<>>
    /\ Head(pending) \in Ipv4
    /\ ~Undecided
    /\ Contact(Head(pending))
    /\ pending' = Tail(pending)
    /\ UNCHANGED <<rules, trees, routing, stage, determined, ruledOn>>

(* forward_ip: without a match, routing keeps what an IPv6 address left.   *)
ByIpRule(a) ==
    IF Matching(a) = {} THEN routing ELSE Usable(ForwardIpRouting(a))

(* forward_ip, forward_dns_pollution_ip and the default route in turn.     *)
Decision(a) ==
    IF ByIpRule(a) # "NONE" THEN ByIpRule(a)
    ELSE IF a \in loadedDns /\ HasProxy THEN "PROXY"
    ELSE DefaultRoute

DecisionStage(a) ==
    IF ByIpRule(a) = "NONE" /\ a \in loadedDns THEN "pollution"
    ELSE IF Matching(a) # {} THEN "ip" ELSE "none"

Follow(a) ==
    \/ /\ routing' = "BLOCK"
       /\ Finish("blocked")
       /\ UNCHANGED <<address, tried>>
    \/ /\ routing' = "PROXY"
       /\ step' = "gateway"
       /\ UNCHANGED <<address, tried, outcome>>
    \/ /\ routing' \in {"NONE", "DIRECT"}
       /\ Contact(a)

DecideIpv4 ==
    /\ step = "next"
    /\ pending # <<>>
    /\ Head(pending) \in Ipv4
    /\ Undecided
    /\ routing' = Decision(Head(pending))
    /\ stage' = DecisionStage(Head(pending))
    /\ determined' = 1
    /\ Follow(Head(pending))
    /\ ruledOn' = IF AllLoaded THEN Head(pending) ELSE ruledOn
    /\ pending' = Tail(pending)
    /\ UNCHANGED <<rules, trees>>

NoMoreAddresses ==
    /\ step = "next"
    /\ pending = <<>>
    /\ Finish("failed")
    /\ UNCHANGED <<rules, trees, pending, address, routing, stage, determined,
                   tried, ruledOn>>

(* The server answers, or the next address is tried, or the descriptor is  *)
(* too high for select.                                                    *)
Connect ==
    /\ step = "connect"
    /\ \/ Finish("direct")
       \/ step' = "next" /\ UNCHANGED outcome
       \/ Finish("failed")
    /\ UNCHANGED <<rules, trees, pending, address, routing, stage, determined,
                   tried, ruledOn>>

(* Mutant: when the gateway cannot be reached the next address is tried.   *)
MutGatewayFails == step' = "next" /\ UNCHANGED outcome

GatewayFails == Finish("failed")

(* socks5_connect to the gateway: one address, no retries.                 *)
Gateway ==
    /\ step = "gateway"
    /\ Finish("proxied") \/ GatewayFails
    /\ UNCHANGED <<rules, trees, pending, address, routing, stage, determined,
                   tried, ruledOn>>

Request == ForwardUrl \/ ResolveAnswers \/ ResolveFails \/ Unnameable
           \/ TakeIpv6 \/ TakeIpv4 \/ DecideIpv4 \/ NoMoreAddresses
           \/ Connect \/ Gateway

Next == LoadRule \/ Request

Spec == Init /\ [][Next]_vars

-----------------------------------------------------------------------------
(* What the request log says and what the rules promise.                   *)

(* What the request log records of a request is what happened to it: a     *)
(* request answered by the server is recorded as not proxied, one answered *)
(* through the gateway as proxied, which takes a proxy, and one refused as *)
(* rejected (csp->routing, shown by the app).                              *)
RecordedRoute ==
    /\ outcome = "direct" => routing \in {"NONE", "DIRECT"}
    /\ outcome = "proxied" => routing = "PROXY" /\ HasProxy
    /\ outcome = "blocked" <=> step = "done" /\ routing = "BLOCK"

(* A URL rule decides before any address is known: a rejected request      *)
(* contacts nobody, a proxied one no server, and one that is to go direct  *)
(* is only handed to the gateway when its name does not resolve.           *)
UrlRuleWins ==
    /\ urlRoute = "BLOCK" => tried = {} /\ step \in {"route", "done"}
    /\ urlRoute = "PROXY" /\ HasProxy => tried = {}
    /\ urlRoute # "NONE" /\ Usable(urlRoute) # "PROXY" /\ step = "gateway"
           => stage = "dnsfailure" /\ tried = {}

(* Once a request is to go through the gateway or to be refused, it never  *)
(* contacts a server directly again: no failure of the gateway falls back  *)
(* to the remaining addresses (rfc2553_connect_to returns).                *)
NoFallback ==
    [][(routing \in {"PROXY", "BLOCK"}) => tried' = tried]_vars

(* What the rules promise for an address, however their trees are filled.  *)
FirstRuleSays(a, r) ==
    \E i \in 1 .. Len(ipRules) :
        /\ a \in ipRules[i].addrs /\ ipRules[i].route = r
        /\ \A j \in 1 .. i - 1 : a \notin ipRules[j].addrs
NoRuleHolds(a) == \A i \in 1 .. Len(ipRules) : a \notin ipRules[i].addrs

(* An address decided on with every tree filled gets what the first rule   *)
(* that holds it says: when that is REJECT, or PROXY and there is a proxy, *)
(* the address is never contacted; nor is an address no rule holds when it *)
(* is a forged one or the default is the proxy, unless an IPv6 address was *)
(* tried before.                                                           *)
RulesObeyed ==
    ruledOn # NoAddress =>
        /\ FirstRuleSays(ruledOn, "BLOCK") =>
               outcome = "blocked" /\ ruledOn \notin tried
        /\ FirstRuleSays(ruledOn, "PROXY") /\ HasProxy =>
               routing = "PROXY" /\ ruledOn \notin tried
        /\ FirstRuleSays(ruledOn, "DIRECT") =>
               routing \notin {"PROXY", "BLOCK"}
        /\ NoRuleHolds(ruledOn) /\ tried \cap Ipv6 = {} /\ HasProxy
               /\ (ruledOn \in polluted \/ GlobalMode) =>
                   routing = "PROXY" /\ ruledOn \notin tried

(* With every tree filled, the HTTP proxy and the SOCKS proxy route an     *)
(* address alike, unless it is one of the forged addresses, which only the *)
(* HTTP proxy knows, or an IPv6 address of the same server was tried       *)
(* before (forward_ip and config_isallowed, config.m:1282).                *)
SameRoute ==
    ruledOn \in Ipv4 \ polluted /\ tried \cap Ipv6 = {}
        => routing = SocksRoute(ruledOn)
=============================================================================
