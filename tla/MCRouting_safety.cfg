SPECIFICATION Spec
CONSTANTS
    a1 = a1
    a2 = a2
    s1 = s1
    NoAddress = NoAddress
    Ipv4 <- MCIpv4
    Ipv6 <- MCIpv6
    RuleLists <- MCRuleLists
    Answers <- MCAnswers
INVARIANTS
    RecordedRoute
    UrlRuleWins
    RulesObeyed
    SameRoute
PROPERTIES
    NoFallback
CHECK_DEADLOCK FALSE
