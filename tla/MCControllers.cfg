SPECIFICATION FairSpec
CHECK_DEADLOCK FALSE
PROPERTIES
    Deployed
    StatusRight
    DaemonSetRight
    HostsRight
    PortsRight
