SPECIFICATION Spec
SYMMETRY Swap
CONSTANTS
    s1 = s1
    s2 = s2
    gateway = gateway
    screen = screen
    ethernet = ethernet
    wifi = wifi
    Selectors <- TwoSelectors
    Catalog <- ThreeAdapters
    Gateways <- OneGateway
    Neighbour = neighbour
    BroadcastMac = BroadcastMac
    NoAdapter = NoAdapter
INVARIANT TypeOK
INVARIANT SameChannel
PROPERTY GatewayTrafficStays
