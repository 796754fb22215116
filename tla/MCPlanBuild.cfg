SPECIFICATION Spec
CONSTANTS
    Address <- MCAddress
    Service <- MCService
    Proto <- MCProto
    ServerName <- MCServerName
    Upgrade <- MCUpgrade
    ProxyURL <- MCProxyURL
    HttpURL <- MCProxyURL
    NoURL = NoURL
    OptionSets <- MCOptionSets
    DNSAnswers <- MCDNSAnswers
INVARIANTS
    TypeOK
    PlanIsTheMatrix
    VariantsAreComparable
    UnknownServicesRefused
