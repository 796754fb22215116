SPECIFICATION FairSpec
CONSTANTS
    Address <- MCAddress
    Service <- MCService
    Proto <- MCProto
    ServerName <- MCServerName
    Upgrade <- MCUpgrade
    ProxyURL <- MCProxyURL
    HttpURL <- MCHttpURL
    NoURL = NoURL
    Plans <- OneProxied
    Cert <- MCCert
    NoCert = NoCert
    Key <- MCKey
    KeyId <- MCKeyId
    NoKeyId = NoKeyId
    CommonName <- MCCommonName
    X509 <- MCX509
    Chains <- MCChains
    SystemRoots <- MCSystemRoots
    HostCAPools <- MCHostCAPools
    ClientPairs <- MCClientPairs
    NoPair = NoPair
    ReferenceCA <- MCReferenceCA
    NoProto = NoProto
PROPERTIES
    EveryRunEnds
