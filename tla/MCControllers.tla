---------------------------- MODULE MCControllers ----------------------------
(***************************************************************************)
(* The controllers of a server: AddonDeploy, ServiceLB, NodeHosts and      *)
(* RootlessPorts.  They share no state, so a behaviour is one of the       *)
(* module in focus, and the others stay as they begin.                     *)
(***************************************************************************)
EXTENDS Integers, Sequences, FiniteSets

VARIABLES focus,
    dSetup, dDisk, dClock, dModTime, dForce, dPass, dAddon, dCache, dObjects, dRevision, dEdits, dFaults,
    lSetup, lApi, lCache, lStale, lQueued, lSh, lNh, lRead, lDropped, lChanges, lFaults,
    hConfig, hCache, hStale, hNode, hSeen, hLag, hQueue, hWorker, hHeld, hEscaped, hChanges,
    pEnabled, pPorts, pCache, pQueued, pBound, pJob, pChanges, pFaults

dVars == <<dSetup, dDisk, dClock, dModTime, dForce, dPass, dAddon, dCache, dObjects, dRevision, dEdits, dFaults>>
lVars == <<lSetup, lApi, lCache, lStale, lQueued, lSh, lNh, lRead, lDropped, lChanges, lFaults>>
hVars == <<hConfig, hCache, hStale, hNode, hSeen, hLag, hQueue, hWorker, hHeld, hEscaped, hChanges>>
pVars == <<pEnabled, pPorts, pCache, pQueued, pBound, pJob, pChanges, pFaults>>

\* Two servers with the same manifest, one with a manifest of its own, and
\* both with theirs disabled.
Servers == {"s1", "s2"}
Files == {"coredns"}
DeploySetup(other, disabled) ==
    [bundled |-> [s \in Servers |-> [f \in Files |-> IF s = "s1" THEN 1 ELSE other]], disabled |-> disabled]
Deploy == INSTANCE AddonDeploy WITH Skipped <- {}, MaxEdits <- 1, MaxFaults <- 1,
    Setups <- {DeploySetup(1, {}), DeploySetup(0, {}), DeploySetup(1, Files)},
    setup <- dSetup, disk <- dDisk, clock <- dClock, modTime <- dModTime, force <- dForce, pass <- dPass,
    addon <- dAddon, cache <- dCache, objects <- dObjects, revision <- dRevision, edits <- dEdits, faults <- dFaults

\* Internal addresses only, after an upgrade; an external address on the one
\* node there is; a rootless server; servicelb disabled.
Nodes == {"n1", "n2"}
LBSetup(enabled, rootless, external, nodes, old, changes, faults) ==
    [enabled |-> enabled, rootless |-> rootless, external |-> external, nodes |-> nodes, old |-> old,
     changes |-> changes, faults |-> faults]
LBSetups ==
    { LBSetup(TRUE, FALSE, {}, Nodes, TRUE, 1, 1), LBSetup(TRUE, FALSE, {"n1"}, {"n1"}, FALSE, 2, 0),
      LBSetup(TRUE, TRUE, {}, Nodes, FALSE, 0, 1), LBSetup(FALSE, FALSE, {}, {"n1"}, TRUE, 1, 1) }
LB == INSTANCE ServiceLB WITH Setups <- LBSetups,
    setup <- lSetup, api <- lApi, cache <- lCache, stale <- lStale, queued <- lQueued, sh <- lSh, nh <- lNh,
    read <- lRead, dropped <- lDropped, changes <- lChanges, faults <- lFaults

Hosts == INSTANCE NodeHosts WITH IPs <- {"i1", "i2"}, NoIP <- "", MaxChanges <- 2,
    config <- hConfig, cache <- hCache, stale <- hStale, node <- hNode, seen <- hSeen, lag <- hLag, queue <- hQueue,
    worker <- hWorker, held <- hHeld, escaped <- hEscaped, changes <- hChanges

\* Ports at the limit, 10000 apart, and the port of the supervisor.
Services == {"a", "b"}
Offers == [s \in Services |-> IF s = "a" THEN {{}, {80}, {1024, 80}} ELSE {{}, {10080, 1025}, {6443}}]
Ports == INSTANCE RootlessPorts WITH HttpsPort <- 6443, MaxChanges <- 3, MaxFaults <- 1,
    enabled <- pEnabled, ports <- pPorts, cache <- pCache, queued <- pQueued, bound <- pBound, job <- pJob,
    changes <- pChanges, faults <- pFaults

vars == <<focus, dVars, lVars, hVars, pVars>>

Init ==
    /\ focus \in {"deploy", "lb", "hosts", "ports"}
    /\ Deploy!Init
    /\ focus # "deploy" => dSetup = DeploySetup(1, {})
    /\ LB!Init
    /\ focus # "lb" => lSetup = LBSetup(TRUE, TRUE, {}, Nodes, FALSE, 0, 1)
    /\ Hosts!Init
    /\ focus # "hosts" => hHeld /\ hConfig.there
    /\ Ports!Init
    /\ focus # "ports" => pEnabled

Next ==
    /\ UNCHANGED focus
    /\ \/ focus = "deploy" /\ Deploy!Next /\ UNCHANGED <<lVars, hVars, pVars>>
       \/ focus = "lb" /\ LB!Next /\ UNCHANGED <<dVars, hVars, pVars>>
       \/ focus = "hosts" /\ Hosts!Next /\ UNCHANGED <<dVars, lVars, pVars>>
       \/ focus = "ports" /\ Ports!Next /\ UNCHANGED <<dVars, lVars, hVars>>

Spec == Init /\ [][Next]_vars

\* The fairness of each module, where it is in focus.
Fairness ==
    /\ \A s \in Servers : WF_dVars(focus = "deploy" /\ Deploy!Work(s)) /\ WF_dVars(focus = "deploy" /\ Deploy!Sync(s))
    /\ WF_lVars(focus = "lb" /\ LB!Handle)
    /\ \A k \in LB!Caches : WF_lVars(focus = "lb" /\ LB!Sync(k))
    /\ \A n \in Nodes : WF_lVars(focus = "lb" /\ LB!HandleNode(n)) /\ WF_lVars(focus = "lb" /\ LB!Schedule(n))
    /\ WF_hVars(focus = "hosts" /\ Hosts!Sync)
    /\ \A n \in Nodes : /\ WF_hVars(focus = "hosts" /\ Hosts!Handle(n)) /\ WF_hVars(focus = "hosts" /\ Hosts!SyncNode(n))
                        /\ WF_hVars(focus = "hosts" /\ Hosts!Heartbeat(n))
    /\ WF_pVars(focus = "ports" /\ Ports!Handle)
    /\ WF_pVars(focus = "ports" /\ Ports!Sync)

FairSpec == Spec /\ Fairness
-----------------------------------------------------------------------------
(* The properties of the modules                                           *)

\* The cluster ends up with the objects of the manifests (listFilesIn, deploy).
Deployed == focus = "deploy" => Deploy!Deployed

\* A load balancer ends up with the addresses of its nodes (updateService).
StatusRight == focus = "lb" => LB!StatusRight

\* It ends up with its DaemonSet, on the nodes labelled (deployPod,
\* updateDaemonSets).
DaemonSetRight == focus = "lb" => LB!DaemonSetRight

\* CoreDNS ends up with the addresses of the nodes (onChange, onRemove).
HostsRight == focus = "hosts" => Hosts!HostsRight

\* The ports of load balancers end up bound (serviceChanged).
PortsRight == focus = "ports" => Ports!PortsRight
=============================================================================
