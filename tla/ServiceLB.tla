------------------------------ MODULE ServiceLB ------------------------------
(***************************************************************************)
(* The service load balancer (pkg/servicelb): a Service of the type        *)
(* LoadBalancer gets a DaemonSet whose pods forward its ports, and the     *)
(* addresses of the nodes with a ready pod become the status of the        *)
(* Service.  Once a node has the enablelb label, only such nodes get pods. *)
(*                                                                         *)
(* Handlers run off the queues of services and of nodes, at the same time, *)
(* and read caches that lag behind the cluster each on its own.            *)
(***************************************************************************)
EXTENDS Integers, FiniteSets

CONSTANTS Nodes,
          Setups      \* records of enabled, rootless: flags of the server;
                      \*   external: the nodes that have an external address at first;
                      \*   nodes: those there at first; old: whether a former
                      \*   version has left its Deployment and its DaemonSet;
                      \*   changes, faults: bounds on what users do, and on
                      \*   failed calls and pods that die

VARIABLES setup,
          api,     \* the cluster: the Service, its DaemonSet ({} if none), the
                   \*   old Deployment, the nodes and those with a ready pod
          cache,   \* what the informers have delivered of it
          stale,   \* whether the Service in the cache is out of date
          queued,  \* whether the Service is in the queue
          sh,      \* the handler of the Service
          nh,      \* node -> its handler
          read,    \* the addresses of the nodes when the Service's handler last read them
          dropped, \* whether a node has lost the label
          changes, faults

vars == <<setup, api, cache, stale, queued, sh, nh, read, dropped, changes, faults>>

Idle == [pc |-> "idle"]
OldSet == {[label |-> FALSE, sel |-> FALSE, applied |-> FALSE]}

Init ==
    /\ setup \in Setups
    /\ api = [svc |-> [lb |-> TRUE, ips |-> {}], ds |-> IF setup.old THEN OldSet ELSE {}, dep |-> setup.old,
              nodes |-> [n \in Nodes |-> [here |-> n \in setup.nodes, label |-> FALSE, ext |-> n \in setup.external]],
              pods |-> {}]
    /\ cache = api
    /\ stale = FALSE
    /\ queued = TRUE
    /\ sh = Idle /\ nh = [n \in Nodes |-> "idle"]
    /\ read = [n \in Nodes |-> "none"] /\ dropped = FALSE
    /\ changes = 0 /\ faults = 0
-----------------------------------------------------------------------------
(* The Service's handler                                                   *)

Labelled(nodes) == \E n \in Nodes : nodes[n].here /\ nodes[n].label

\* What addresses the nodes have; all have an internal one.
Addresses(nodes) ==
    [n \in Nodes |-> IF ~ nodes[n].here THEN "none" ELSE IF nodes[n].ext THEN "external" ELSE "internal"]

\* The lists that podIPs may come to for the nodes in ready, each with a ready
\* pod.  Internal addresses count while nothing has been found, that is for
\* the pod the list begins with, and lists have no order.  A node that the
\* informer does not have is passed over.
podIPs(ready, address) ==
    LET P == {n \in ready : address[n] # "none"}
        External == {<<n, "external">> : n \in {m \in P : address[m] = "external"}}
    IN IF P = {} THEN {{}}
       ELSE IF setup.rootless THEN {{<<"127.0.0.1", "internal">>}}
       ELSE {External \union {<<first, address[first]>>} : first \in P}

\* newDaemonSet: whether it selects nodes.
newDaemonSet == Labelled(cache.nodes)

\* The handler takes the Service, deletes the Deployment of old and works out
\* the DaemonSet.
onChangeService ==
    /\ queued /\ sh.pc = "idle"
    /\ LET gone == cache.svc.lb /\ cache.dep /\ ~ api.dep IN
         /\ queued' = gone
         /\ api' = IF cache.svc.lb /\ cache.dep THEN [api EXCEPT !.dep = FALSE] ELSE api
         /\ sh' = IF ~ cache.svc.lb \/ gone THEN Idle
                  ELSE [pc |-> "apply", svc |-> cache.svc, stale |-> stale,
                        want |-> IF setup.enabled THEN {newDaemonSet} ELSE {}]
    /\ UNCHANGED <<setup, cache, stale, nh, read, dropped, changes, faults>>

\* Apply patches what the cache has to what is wanted.  A selector that the
\* last Apply did not set is not taken away.
Patched(d, known, sel) ==
    [label |-> IF known.label = sel THEN d.label ELSE sel,
     sel |-> IF sel THEN d.sel \/ ~ known.sel ELSE d.sel /\ ~ known.applied,
     applied |-> sel]

\* A patch of what is no longer there fails.  What is there against expectation
\* is taken over.
ApplyOK == ~ (sh.want # {} /\ cache.ds # {} /\ api.ds = {})
Applied ==
    IF sh.want = {} THEN IF cache.ds = {} THEN api.ds ELSE {}
    ELSE LET sel == CHOOSE w \in sh.want : TRUE IN
         IF api.ds = {} THEN {[label |-> sel, sel |-> sel, applied |-> sel]}
         ELSE {Patched(d, known, sel) : d \in api.ds, known \in IF cache.ds = {} THEN api.ds ELSE cache.ds}

\* updateService for an address list that is not compared with the one there.
updateServiceOnce(ips) ==
    sh' = IF sh.svc.ips # {} THEN Idle
          ELSE [pc |-> "status", svc |-> sh.svc, stale |-> sh.stale, ips |-> ips]

updateService(ips) ==
    sh' = IF ips = sh.svc.ips THEN Idle
          ELSE [pc |-> "status", svc |-> sh.svc, stale |-> sh.stale, ips |-> ips]

\* What has the DaemonSet of before has an outdated one now.
DsWritten(ds) ==
    IF ds = api.ds THEN nh ELSE [n \in Nodes |-> IF nh[n] = "idle" THEN "idle" ELSE "stale"]

deployPod ==
    /\ sh.pc = "apply"
    /\ IF ~ ApplyOK
       THEN sh' = Idle /\ queued' = TRUE /\ UNCHANGED <<api, nh, read>>
       ELSE /\ api' = [api EXCEPT !.ds = Applied]
            /\ nh' = DsWritten(Applied)
            /\ queued' = queued
            /\ IF ~ setup.enabled THEN sh' = Idle /\ UNCHANGED read
               ELSE /\ read' = Addresses(cache.nodes)
                    /\ \E ips \in podIPs(cache.pods, read') : updateService(ips)
    /\ UNCHANGED <<setup, cache, stale, dropped, changes, faults>>

\* A write of the Service, which outdates every copy of it.
UpdateStatus ==
    /\ sh.pc = "status"
    /\ sh' = Idle
    /\ IF sh.stale THEN queued' = TRUE /\ UNCHANGED <<api, stale>>
       ELSE api' = [api EXCEPT !.svc.ips = sh.ips] /\ stale' = TRUE /\ queued' = queued
    /\ UNCHANGED <<setup, cache, nh, read, dropped, changes, faults>>

ServiceCallFails ==
    /\ sh.pc # "idle" /\ faults < setup.faults
    /\ faults' = faults + 1
    /\ sh' = Idle /\ queued' = TRUE
    /\ UNCHANGED <<setup, api, cache, stale, nh, read, dropped, changes>>
-----------------------------------------------------------------------------
(* The handler of nodes                                                    *)

\* onChangeNode that lists the DaemonSets that have a selector.
onChangeNodeSwapped(n) ==
    /\ nh[n] = "idle"
    /\ cache.nodes[n].here /\ cache.nodes[n].label
    /\ \E d \in api.ds : d.label /\ ~ d.sel
    /\ nh' = [nh EXCEPT ![n] = "update"]
    /\ UNCHANGED <<setup, api, cache, stale, queued, sh, read, dropped, changes, faults>>

\* onChangeNode lists the DaemonSets of the cluster that select no nodes.  A
\* node comes up again and again, when it changes and whenever its kubelet
\* reports its status.
onChangeNode(n) ==
    /\ nh[n] = "idle"
    /\ cache.nodes[n].here /\ cache.nodes[n].label
    /\ \E d \in api.ds : ~ d.label
    /\ nh' = [nh EXCEPT ![n] = "update"]
    /\ UNCHANGED <<setup, api, cache, stale, queued, sh, read, dropped, changes, faults>>

updateDaemonSets(n) ==
    /\ nh[n] # "idle"
    /\ IF nh[n] = "stale"
       THEN nh' = [nh EXCEPT ![n] = "idle"] /\ UNCHANGED api
       ELSE LET ds == {[d EXCEPT !.label = TRUE, !.sel = TRUE] : d \in api.ds} IN
            /\ api' = [api EXCEPT !.ds = ds]
            /\ nh' = [DsWritten(ds) EXCEPT ![n] = "idle"]
    /\ UNCHANGED <<setup, cache, stale, queued, sh, read, dropped, changes, faults>>
-----------------------------------------------------------------------------
(* The informers, the cluster and its users                                *)

Behind(k) == IF k = "svc" THEN stale ELSE cache[k] # api[k]

\* A cache catches up and its handlers hear of it; pods and endpoints lead to
\* their Service (onResourceChange).
Sync(k) ==
    /\ Behind(k)
    /\ cache' = [cache EXCEPT ![k] = api[k]]
    /\ stale' = (stale /\ k # "svc")
    /\ queued' = (queued \/ k \in {"svc", "pods"})
    /\ UNCHANGED <<setup, api, sh, nh, read, dropped, changes, faults>>

\* The DaemonSet controller has a pod on the nodes it is to be on.
Selected(n) == api.nodes[n].here /\ \E d \in api.ds : d.sel => api.nodes[n].label
Schedule(n) ==
    /\ Selected(n) # (n \in api.pods)
    /\ api' = [api EXCEPT !.pods = IF Selected(n) THEN @ \union {n} ELSE @ \ {n}]
    /\ UNCHANGED <<setup, cache, stale, queued, sh, nh, read, dropped, changes, faults>>

PodDies(n) ==
    /\ n \in api.pods /\ faults < setup.faults
    /\ faults' = faults + 1
    /\ api' = [api EXCEPT !.pods = @ \ {n}]
    /\ UNCHANGED <<setup, cache, stale, queued, sh, nh, read, dropped, changes>>

\* A user labels a node or takes the label away; a node gets or loses its
\* external address, comes or goes.
ChangeNode(n) ==
    /\ changes < setup.changes
    /\ changes' = changes + 1
    /\ \/ api.nodes[n].here /\ api' = [api EXCEPT !.nodes[n].label = ~ @]
       \/ api.nodes[n].here /\ api' = [api EXCEPT !.nodes[n].ext = ~ @]
       \/ api' = [api EXCEPT !.nodes[n] = [here |-> ~ @.here, label |-> FALSE, ext |-> @.ext]]
    /\ dropped' = (dropped \/ (api.nodes[n].label /\ ~ api'.nodes[n].label))
    /\ UNCHANGED <<setup, cache, stale, queued, sh, nh, read, faults>>

\* A user changes the type of the Service.
ChangeType ==
    /\ changes < setup.changes
    /\ changes' = changes + 1
    /\ api' = [api EXCEPT !.svc.lb = ~ @]
    /\ stale' = TRUE
    /\ sh' = IF sh.pc = "idle" THEN sh ELSE [sh EXCEPT !.stale = TRUE]
    /\ UNCHANGED <<setup, cache, queued, nh, read, dropped, faults>>

Caches == {"svc", "ds", "dep", "nodes", "pods"}
Handle == onChangeService \/ deployPod \/ UpdateStatus
HandleNode(n) == onChangeNode(n) \/ updateDaemonSets(n)

Next ==
    \/ Handle \/ ServiceCallFails \/ ChangeType
    \/ \E k \in Caches : Sync(k)
    \/ \E n \in Nodes : HandleNode(n) \/ Schedule(n) \/ PodDies(n) \/ ChangeNode(n)

Spec == Init /\ [][Next]_vars

\* Queues are worked off, watches deliver, kubelets report and the DaemonSet
\* controller does its work.
Fairness ==
    /\ WF_vars(Handle)
    /\ \A k \in Caches : WF_vars(Sync(k))
    /\ \A n \in Nodes : WF_vars(HandleNode(n)) /\ WF_vars(Schedule(n))
FairSpec == Spec /\ Fairness
-----------------------------------------------------------------------------
(* Properties                                                              *)

\* In the end a load balancer has the addresses of the nodes that have a ready
\* pod, in one of the choices that the code makes among internal addresses, for
\* the addresses that the handler last read (updateService, podIPs).  It does not
\* come back for a node that the informer delivers later, or that gets another
\* address later: nodes lead to no Service (onResourceChange).
StatusRight ==
    <>[](setup.enabled /\ api.svc.lb => api.svc.ips \in podIPs(api.pods, read))

\* In the end a load balancer has its DaemonSet, which selects nodes if there
\* are labelled ones, and nothing of an older version; a server with servicelb
\* disabled has taken the DaemonSet away (deployPod, updateDaemonSets).  Not so
\* once a label has been taken away: a patch for no labels and an update for a
\* new one can leave the mark of a selector without the selector, and then
\* updateDaemonSets passes the DaemonSet over.
DaemonSetRight ==
    <>[](api.svc.lb =>
            /\ ~ api.dep
            /\ IF setup.enabled
               THEN api.ds # {} /\ (Labelled(api.nodes) /\ ~ dropped => \A d \in api.ds : d.sel)
               ELSE api.ds = {})
=============================================================================
