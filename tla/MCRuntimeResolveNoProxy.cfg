SPECIFICATION Spec
CONSTANTS
    Host <- MCHost
    NoAddr = NoAddr
    Absent = Absent
    Broken = Broken
    Empty = Empty
    ProfileName <- MCProfileName
    NoName = NoName
    PEM <- MCPEM
    HeaderName <- MCHeaderName
    HeaderValue <- MCHeaderValue
    Homes <- OnlyLoggedIn
    CommandLines <- MCCommandLines
    Pings <- MCPings
    Blank = Blank
    NoColon = NoColon
    NewLogin = "renewed"
    ProxyHost = {"p", "q"}
    NoURL = NoURL
    Unparsable = Unparsable
    Bundle <- MCBundle
    NoBundle = NoBundle
INVARIANTS
    NoProxyIsRespected
