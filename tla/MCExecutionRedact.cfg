SPECIFICATION ExecutionSpec
CONSTANTS
    Address <- MCAddress
    Service <- MCService
    Proto <- MCProto
    ServerName <- MCServerName
    Upgrade <- MCUpgrade
    ProxyURL <- MCProxyURL
    HttpURL <- MCProxyURL
    NoURL = NoURL
    OptionSets <- OneWithHeaders
    DNSAnswers <- MCDNSAnswers
    ServerCert <- MCServerCert
    Cert <- MCCert
    Malformed = Malformed
    NoCert = NoCert
    ClientPairs <- MCClientPairs
    Bundles <- MCBundles
    Verdicts <- MCVerdicts
INVARIANTS
    ReportIsRedacted
