SPECIFICATION FairSpec
CONSTANTS
    a = a
    b = b
    c = c
    p1 = p1
    p2 = p2
    n1 = n1
    n2 = n2
    ia = ia
    ib = ib
    ic = ic
    e1 = e1
    e2 = e2
    e3 = e3
    Nil = Nil
    NoIP = NoIP
    Anything = Anything
    Pods <- MCPods
    Policies = {p1, p2}
    Namespaces = {n1, n2}
    Labels = {"web", "db"}
    Addresses <- MCAddresses
    NamespaceOf <- MCNamespaceOf
    NamedPorts <- MCNamedPorts
    OnNode = {a, b}
    AllNets <- MCAddresses
    Halves <- MCHalves
    PolicySpecs <- MCPolicySpecs
    InitPods <- MCInitPods
    InitNs <- MCInitNs
    InitPolicies <- MCInitPolicies
    PodStates <- MCPodStates
    Packets <- MCPackets
    Unwanted <- MCUnwanted
    MaxChanges = 1
    MaxFaults = 1
INVARIANTS
    Enforced
    NoGap
PROPERTIES
    NothingStale
    WholeSets
    Converges
CHECK_DEADLOCK FALSE
