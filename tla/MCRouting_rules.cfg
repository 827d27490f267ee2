\* Lists of two addresses.
SPECIFICATION RoutingSpec
CONSTANTS
    Offered <- Listings
    MaxListed = 2
    Nodes <- MCNodes
    HostNames <- MCHostNames
    Ips <- MCIps
    Ports = {1, 2}
    Resolve <- MCResolve
    Unstar <- MCUnstar
    Odd = {"a b"}
    Block = 4
    None = None
INVARIANTS RouteFollowsList PacAgrees KeepaliveTargetFound
CHECK_DEADLOCK FALSE
