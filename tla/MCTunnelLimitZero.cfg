CONSTANTS
    ann = ann
    bob = bob
    i1 = i1
    i2 = i2
    i3 = i3
    i4 = i4
    UserOrder <- MCUserOrder
    Ids <- MCIds
    ProxyOf <- MCProxyOf
    Protocols = {TCP}
    Ports <- MCPorts
    Reserved <- MCReserved
    Pool <- MCPool
    MaxPlan = 2
    FirstLimit = 1
    NoUser = NoUser
    Failed = Failed
SPECIFICATION PlanSpec
PROPERTY LimitZeroForbidsCreating
