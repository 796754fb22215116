SPECIFICATION Spec
CONSTANTS
    Net <- MCNet
    AnyNet = "any"
    HeaderWord = "Kernel"
    Gateway <- MCGateway
    NoGateway = "none"
    OnLink = "on-link"
    Link <- MCLink
    NoLink = "none"
    AddressOf <- MCAddressOf
    Machines <- MCMachines
    Contained <- MCContained
    NoType = "unknown"
    Server <- MCServer
    NoServer = "none"
    Service <- MCService
    PACURL <- MCPACURL
    NoURL = "none"
    PACLength <- MCPACLength
    PACBuffer = 2
    Nothing = Nothing
    MaxChanges = 0
INVARIANTS
    TunnelRoutesAreReported
