---------------------------- MODULE RootlessPorts ----------------------------
(***************************************************************************)
(* Port forwarding of a rootless server (pkg/rootlessports): the ports of  *)
(* load balancers are bound on the host through the API of RootlessKit.    *)
(* Every change of a Service puts the one key _all_ into the queue, and    *)
(* the handler of that key brings the bound ports in line with all of      *)
(* them, one call after the other.                                         *)
(***************************************************************************)
EXTENDS Integers, FiniteSets, Functions

CONSTANTS Services,
          Offers,     \* service -> sets of TCP ports it may have, as a load balancer
          HttpsPort,  \* port of the supervisor
          MaxChanges, MaxFaults

VARIABLES enabled, \* whether servicelb is
          ports,   \* service -> its ports, {} if it has no address
          cache,   \* what the informer has delivered of it
          queued,  \* whether _all_ is in the queue
          bound,   \* parent port -> child port: what RootlessKit forwards
          job,     \* the handler: ports to add and to remove
          changes, faults

vars == <<enabled, ports, cache, queued, bound, job, changes, faults>>

None == [p \in {} |-> p]
Idle == [pc |-> "idle", add |-> None, remove |-> {}]

Init ==
    /\ enabled \in BOOLEAN
    /\ ports = [s \in Services |-> {}]
    /\ cache = ports
    /\ queued = TRUE
    /\ bound = None
    /\ job = Idle
    /\ changes = 0 /\ faults = 0
-----------------------------------------------------------------------------
\* Ports that only root may bind are bound 10000 higher.
ParentPort(port) == IF port <= 1024 THEN 10000 + port ELSE port

\* The ports of load balancers; the port of the supervisor is always bound, and
\* as it is.
Wanted(svcs) == IF enabled THEN UNION {svcs[s] : s \in Services} ELSE {}
Parents(svcs) == {HttpsPort} \union {ParentPort(p) : p \in Wanted(svcs)}

\* The maps that toBindPorts may return: of two ports with one parent port,
\* the one that the list of services, which has no order, has last.
toBindPorts(svcs) ==
    {m \in [Parents(svcs) -> Wanted(svcs) \union {HttpsPort}] :
        \A parent \in DOMAIN m :
            IF \E p \in Wanted(svcs) : ParentPort(p) = parent
            THEN m[parent] \in Wanted(svcs) /\ ParentPort(m[parent]) = parent
            ELSE m[parent] = HttpsPort}

\* serviceChanged that forgets to take the ports it keeps off those to remove.
serviceChangedAll ==
    /\ queued /\ job = Idle
    /\ queued' = FALSE
    /\ \E m \in toBindPorts(cache) :
          job' = [pc |-> "work", add |-> Restrict(m, DOMAIN m \ DOMAIN bound),
                  remove |-> DOMAIN bound]
    /\ UNCHANGED <<enabled, ports, cache, bound, changes, faults>>

\* serviceChanged for _all_ lists the ports bound and works out the others.
serviceChanged ==
    /\ queued /\ job = Idle
    /\ queued' = FALSE
    /\ \E m \in toBindPorts(cache) :
          job' = [pc |-> "work", add |-> Restrict(m, DOMAIN m \ DOMAIN bound),
                  remove |-> DOMAIN bound \ DOMAIN m]
    /\ UNCHANGED <<enabled, ports, cache, bound, changes, faults>>

AddPort(p) ==
    /\ p \in DOMAIN job.add
    /\ bound' = [q \in DOMAIN bound \union {p} |-> IF q = p THEN job.add[p] ELSE bound[q]]
    /\ job' = [job EXCEPT !.add = Restrict(@, DOMAIN @ \ {p})]
    /\ UNCHANGED <<enabled, ports, cache, queued, changes, faults>>

RemovePort(p) ==
    /\ job.add = None /\ p \in job.remove
    /\ bound' = Restrict(bound, DOMAIN bound \ {p})
    /\ job' = [job EXCEPT !.remove = @ \ {p}]
    /\ UNCHANGED <<enabled, ports, cache, queued, changes, faults>>

Return ==
    /\ job.pc = "work" /\ job.add = None /\ job.remove = {}
    /\ job' = Idle
    /\ UNCHANGED <<enabled, ports, cache, queued, bound, changes, faults>>

\* A call fails; the rest is left and the key goes back into the queue.
CallFails ==
    /\ job.pc = "work" /\ (job.add # None \/ job.remove # {})
    /\ faults < MaxFaults
    /\ faults' = faults + 1
    /\ job' = Idle /\ queued' = TRUE
    /\ UNCHANGED <<enabled, ports, cache, bound, changes>>

\* The informer delivers, and the handler of the service enqueues _all_.
Sync ==
    /\ cache # ports
    /\ cache' = ports
    /\ queued' = TRUE
    /\ UNCHANGED <<enabled, ports, bound, job, changes, faults>>

ChangeService(s) ==
    /\ changes < MaxChanges
    /\ changes' = changes + 1
    /\ \E P \in Offers[s] \ {ports[s]} : ports' = [ports EXCEPT ![s] = P]
    /\ UNCHANGED <<enabled, cache, queued, bound, job, faults>>

Handle ==
    \/ serviceChanged \/ Return
    \/ \E p \in DOMAIN job.add : AddPort(p)
    \/ \E p \in job.remove : RemovePort(p)
Next == Handle \/ CallFails \/ Sync \/ \E s \in Services : ChangeService(s)

Spec == Init /\ [][Next]_vars

\* The queue is worked off and the watch delivers.
Fairness == WF_vars(Handle) /\ WF_vars(Sync)
FairSpec == Spec /\ Fairness
-----------------------------------------------------------------------------
(* Properties                                                              *)

\* The ports that share their parent port with another one of the offers, or that
\* of the supervisor.
Contested == {p \in UNION UNION {Offers[s] : s \in Services} :
    \/ p # HttpsPort /\ ParentPort(p) = HttpsPort
    \/ \E q \in UNION UNION {Offers[s] : s \in Services} : q # p /\ ParentPort(q) = ParentPort(p)}

\* In the end exactly the ports of the supervisor and of the load balancers
\* are bound, whichever calls failed, each to its own port.  The exception are
\* services on ports 10000 apart: the code tells bound ports by the parent port
\* only, and leaves one bound to the other's port (serviceChanged).
PortsRight ==
    <>[](/\ DOMAIN bound = Parents(ports)
         /\ \A p \in Wanted(ports) \ Contested : bound[ParentPort(p)] = p
         /\ (\A p \in Contested : ParentPort(p) # HttpsPort) => bound[HttpsPort] = HttpsPort)
=============================================================================
