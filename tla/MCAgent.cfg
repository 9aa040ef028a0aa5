SPECIFICATION RunSpec
CHECK_DEADLOCK FALSE
CONSTANTS
    a1 = a1
    a2 = a2
    Slots = {s1, s2}
    Agents <- MCAgents
    Setups <- MCSetups
    MaxFaults = 1
    ServerCA = ServerCA
    OtherCA = OtherCA
    AgentToken = AgentToken
    None = None
INVARIANTS
    OneOwner
    NeverLockedOut
PROPERTIES
    AgentJoins
    TunnelsConverge
    LoadBalancersConverge
    SetupCompletes
