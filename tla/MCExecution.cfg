SPECIFICATION FairExecutionSpec
CONSTANTS
    Address <- MCAddress
    Service <- MCService
    Proto <- MCProto
    ServerName <- MCServerName
    Upgrade <- MCUpgrade
    ProxyURL <- MCProxyURL
    HttpURL <- MCProxyURL
    NoURL = NoURL
    OptionSets <- MCOptionSets
    DNSAnswers <- MCDNSAnswers
    ServerCert <- MCServerCert
    Cert <- MCCert
    Malformed = Malformed
    NoCert = NoCert
    ClientPairs <- MCClientPairs
    Bundles <- MCBundles
    Verdicts <- MCVerdicts
INVARIANTS
    ExecutionTypeOK
    MatrixIsReported
    ExitCodeTells
    EarlierReportKept
    EveryFingerprintExplained
    PlanIsRedacted
PROPERTIES
    InvocationEnds
