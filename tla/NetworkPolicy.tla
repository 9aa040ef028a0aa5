--------------------------- MODULE NetworkPolicy ---------------------------
(***************************************************************************)
(* The network policy controller of one node (pkg/agent/netpol).  Sync,    *)
(* under its mutex, reads the listers, runs one kernel command after the   *)
(* other and cleans up what earlier syncs left; it is called by the ticker *)
(* of Run and by the informers' handlers.  A command may fail, and the     *)
(* agent may end between any two commands; the kernel keeps what it has.   *)
(*                                                                         *)
(* version stands for the start time in the names of the chains: a number  *)
(* no chain in the kernel has.  The listers change between the reads of    *)
(* them (changes commute with the kernel commands).                        *)
(***************************************************************************)
EXTENDS NetpolRules

CONSTANTS
    PolicySpecs,          \* the specs a policy may get
    InitPods, InitNs, InitPolicies,
    PodStates,            \* [ip, label] of a pod
    Packets,              \* [src, dst, port, flags]
    Unwanted,             \* new connections that no spec of PolicySpecs admits,
                          \* read by the API or by the controller
    MaxChanges, MaxFaults

\* The lists of an API object are finite.
ASSUME SpecsAssumption ==
    /\ InitPolicies \in [Policies -> PolicySpecs \cup {Nil}]
    /\ \A spec \in PolicySpecs, d \in {"ingress", "egress"} : spec[d] # Nil =>
           /\ spec[d] \in Seq(Range(spec[d]))
           /\ \A r \in Range(spec[d]) :
                 /\ IsFiniteSet(r.peers) /\ IsFiniteSet(r.ports)
                 /\ \A x \in r.peers : x.block # Nil => IsFiniteSet(x.block.except)

VARIABLES
    pods, nsLabel, policies,   \* the listers
    table, sets,               \* the kernel
    phase,                     \* "down", "idle" or what Sync is doing
    byTicker,                  \* Run called this Sync
    ready, event,              \* readyForUpdates; a handler waits for the mutex
    infos, version, fwChains,  \* networkPoliciesInfo, syncVersion, activePodFwChains
    wanted,                    \* activePolicyIPSets, with what they shall hold
    todo,                      \* commands left of this part of Sync
    changes, faults,           \* counted, for the bounds
    clean,                     \* ghost: this sync, or the last, was not disturbed
    guarded                    \* ghost: <<pod, direction>> that completed syncs protect

listers == <<pods, nsLabel, policies>>
kernel == <<table, sets>>
vars == <<listers, kernel, phase, byTicker, ready, event, infos, version, fwChains, wanted, todo,
          changes, faults, clean, guarded>>

Init ==
    /\ pods = InitPods /\ nsLabel = InitNs /\ policies = InitPolicies
    /\ table = [h \in {FORWARD, OUTPUT} |-> <<>>]
    /\ sets = <<>>
    /\ phase = "down" /\ byTicker = FALSE /\ ready = FALSE /\ event = FALSE
    /\ infos = <<>> /\ version = 1 /\ fwChains = {} /\ wanted = <<>> /\ todo = <<>>
    /\ changes = 0 /\ faults = 0
    /\ clean = FALSE /\ guarded = {}

\* ------------------------------------------------------------- the listers

\* The pods the policies isolate, and in which direction.
Isolated(is) == {qd \in OnNode \X {"ingress", "egress"} : qd[1] \in EnabledPods(pods, is, qd[2])}

Change ==
    /\ changes < MaxChanges /\ changes' = changes + 1
    /\ todo = <<>>
    /\ clean' = FALSE
    /\ UNCHANGED <<kernel, phase, byTicker, ready, infos, version, fwChains, wanted, todo, faults>>

\* A pod gets an address, loses it or ends: the handler calls Sync, unless
\* the first Sync is not over.  A change of the labels has no handler.
PodChanges(q, state) ==
    /\ Change
    /\ pods' = [pods EXCEPT ![q] = state]
    /\ state # pods[q]
    /\ state.ip = NoIP \/ \A r \in Pods \ {q} : pods[r].ip # state.ip
    /\ event' = (event \/ (ready /\ state.ip # pods[q].ip))
    /\ guarded' = IF state.ip = pods[q].ip THEN guarded ELSE {qd \in guarded : qd[1] # q}
    /\ UNCHANGED <<nsLabel, policies>>

PolicyChanges(p, spec) ==
    /\ Change
    /\ policies' = [policies EXCEPT ![p] = spec]
    /\ spec # policies[p]
    /\ event' = (event \/ ready)
    /\ UNCHANGED <<pods, nsLabel, guarded>>

\* OnNamespaceUpdate returns at once for networking/v1 policies.
NamespaceChanges(n, label) ==
    /\ Change
    /\ nsLabel' = [nsLabel EXCEPT ![n] = label]
    /\ label # nsLabel[n]
    /\ UNCHANGED <<pods, policies, event, guarded>>

\* -------------------------------------------------------------------- Sync

Temps == {s \in DOMAIN sets : s[1] = "temp"}

BeginSync ==
    LET is == buildNetworkPoliciesInfo(pods, nsLabel, policies)
        v == CHOOSE n \in 1 .. Cardinality(DOMAIN table) :
                 /\ \A c \in DOMAIN table : Len(c) = 3 => c[3] # n
                 /\ \A m \in 1 .. n - 1 : \E c \in DOMAIN table : Len(c) = 3 /\ c[3] = m
        cmds == syncNetworkPolicyChains(is, v)
    IN  /\ phase = "idle"
        /\ phase' = "policies"
        /\ infos' = is /\ version' = v /\ fwChains' = {}
        /\ todo' = cmds
        /\ wanted' = [s \in {x.on : x \in {y \in Range(cmds) : y.op = "create" /\ y.on[1] = "set"}}
                        |-> {x.arg : x \in {y \in Range(cmds) :
                                               y.op = "add" /\ y.on = TempName(s)}}]
        /\ clean' = (Temps = {})
        /\ guarded' = guarded \cap Isolated(is)
        /\ UNCHANGED <<listers, kernel, ready, changes, faults>>

\* Without the ticker.
RunsOnce == phase = "idle" /\ ~ ready

\* Run calls Sync at once, and then at every tick.
Runs == phase = "idle"

RunSync == Runs /\ BeginSync /\ byTicker' = TRUE /\ UNCHANGED event

\* OnPodUpdate, OnNetworkPolicyUpdate, when they get the mutex.
OnUpdate == event /\ BeginSync /\ byTicker' = FALSE /\ event' = FALSE

Execute(c) ==
    /\ table' = ExecTable(table, c)
    /\ sets' = ExecSets(sets, c)

Command ==
    /\ todo # <<>>
    /\ ~ Refused(table, Head(todo))
    /\ Execute(Head(todo))
    /\ todo' = Tail(todo)
    /\ UNCHANGED <<listers, phase, byTicker, ready, event, infos, version, fwChains, wanted,
                   changes, faults, clean, guarded>>

EndSync ==
    /\ phase' = "idle"
    /\ ready' = (ready \/ byTicker)

\* An error inside Refresh is logged, one of runThroughPolicies may be passed
\* over; any other ends the Sync.
CommandFails ==
    /\ todo # <<>>
    /\ \/ Refused(table, Head(todo)) /\ UNCHANGED faults
       \/ faults < MaxFaults /\ faults' = faults + 1
    /\ clean' = FALSE
    /\ \/ /\ Head(todo).skip > 0
          /\ todo' = SubSeq(todo, Head(todo).skip + 1, Len(todo))
          /\ UNCHANGED <<phase, ready>>
       \/ /\ PassedOver(Head(todo))
          /\ todo' = Tail(todo)
          /\ UNCHANGED <<phase, ready>>
       \/ /\ Head(todo).skip = 0
          /\ todo' = <<>>
          /\ EndSync
    /\ UNCHANGED <<listers, kernel, byTicker, event, infos, version, fwChains, wanted, changes,
                   guarded>>

\* The listers are read again for the pods' chains, in both directions.
Firewalls(before, dir) ==
    /\ phase = before /\ todo = <<>>
    /\ phase' = dir
    /\ fwChains' = fwChains \cup {podFwChainName(q, version) :
                                      q \in EnabledPods(pods, infos, dir)}
    /\ todo' = syncPodFirewallChains(dir, pods, infos, version)
    /\ UNCHANGED <<listers, kernel, byTicker, ready, event, infos, version, wanted, changes,
                   faults, clean, guarded>>

policyChains == {policyChainName(p, version) : p \in DOMAIN infos}

CleanUp ==
    /\ phase = "egress" /\ todo = <<>>
    /\ phase' = "cleanup"
    /\ todo' = cleanupStaleRules(table, sets, policyChains, fwChains, DOMAIN wanted)
    /\ UNCHANGED <<listers, kernel, byTicker, ready, event, infos, version, fwChains, wanted,
                   changes, faults, clean, guarded>>

\* ListChains fails, which nobody looks at: no chain is found stale, and the
\* ipsets that no chain uses any more are destroyed.
CleanUpUnlisted ==
    /\ phase = "egress" /\ todo = <<>>
    /\ faults < MaxFaults /\ faults' = faults + 1
    /\ phase' = "unlisted" /\ clean' = FALSE
    /\ todo' = destroyStaleSets(sets, DOMAIN wanted)
    /\ UNCHANGED <<listers, kernel, byTicker, ready, event, infos, version, fwChains, wanted,
                   changes, guarded>>

SyncDone ==
    /\ phase \in {"cleanup", "unlisted"} /\ todo = <<>>
    /\ EndSync
    /\ guarded' = {qd \in Isolated(infos) :
                     \E r \in Range(table[FORWARD]) :
                         /\ r.to = podFwChainName(qd[1], version)
                         /\ pods[qd[1]].ip = IF qd[2] = "ingress" THEN r.dst ELSE r.src}
    /\ UNCHANGED <<listers, kernel, byTicker, event, infos, version, fwChains, wanted, todo,
                   changes, faults, clean>>

\* --------------------------------------------------------------- the agent

\* NewNetworkPolicyController: the informers' first events come before ready.
Start ==
    /\ phase = "down"
    /\ phase' = "idle"
    /\ ready' = FALSE /\ event' = FALSE
    /\ UNCHANGED <<listers, kernel, byTicker, infos, version, fwChains, wanted, todo,
                   changes, faults, clean, guarded>>

Crash ==
    /\ phase # "down" /\ faults < MaxFaults /\ faults' = faults + 1
    /\ phase' = "down" /\ todo' = <<>> /\ clean' = FALSE
    /\ infos' = <<>> /\ fwChains' = {} /\ wanted' = <<>> /\ ready' = FALSE /\ event' = FALSE
    /\ UNCHANGED <<listers, kernel, byTicker, version, changes, guarded>>

Sync ==
    \/ RunSync
    \/ OnUpdate
    \/ Command
    \/ CommandFails
    \/ Firewalls("policies", "ingress")
    \/ Firewalls("ingress", "egress")
    \/ CleanUp
    \/ CleanUpUnlisted
    \/ SyncDone

Next ==
    \/ \E q \in Pods, state \in PodStates : PodChanges(q, state)
    \/ \E p \in Policies, spec \in PolicySpecs \cup {Nil} : PolicyChanges(p, spec)
    \/ \E n \in Namespaces, label \in Labels : NamespaceChanges(n, label)
    \/ Start
    \/ Crash
    \/ Sync

Spec == Init /\ [][Next]_vars

\* The ticker fires, the kernel answers, and a node starts its agent again:
\* WF_vars(Sync) and WF_vars(Start), with ENABLED Sync written out (a Sync that
\* has begun always has a step), which TLC evaluates faster.
SyncEnabled ==
    \/ Runs
    \/ event /\ phase = "idle"
    \/ phase \notin {"down", "idle"}

Fairness ==
    /\ []<>(~ SyncEnabled) \/ []<><<Sync>>_vars
    /\ []<>(phase # "down") \/ []<><<Start>>_vars

FairSpec == Spec /\ Fairness

\* -------------------------------------------------------------- properties

TypeOK ==
    /\ pods \in [Pods -> PodStates \cup Range(InitPods)]
    /\ policies \in [Policies -> PolicySpecs \cup {Nil}]
    /\ phase \in {"down", "idle", "policies", "ingress", "egress", "cleanup", "unlisted"}
    /\ todo # <<>> => phase \notin {"down", "idle"}
    /\ {FORWARD, OUTPUT} \subseteq DOMAIN table
    /\ \A r \in RulesOf(table) :
           /\ r.to \in DOMAIN table \cup {ACCEPT, REJECT}
           /\ \A m \in {r.src, r.dst} :
                  m \in DOMAIN sets \cup Addresses \cup {Anything}
    /\ guarded \subseteq OnNode \X {"ingress", "egress"}

\* What the Kubernetes API says a policy means, for the packet of a new
\* connection: a pod that policies of a direction select accepts only what a
\* rule of one of them admits.
PeerAdmits(ns, peer, a) ==
    IF peer.block # Nil
    THEN a \in peer.block.cidr \ UNION peer.block.except
    ELSE \E q \in Pods :
            /\ pods[q].ip = a
            /\ peer.pod = Nil \/ pods[q].label \in peer.pod.labels \cap peer.pod.exprs
            /\ IF peer.ns = Nil THEN NamespaceOf[q] = ns
               ELSE nsLabel[NamespaceOf[q]] \in peer.ns.labels \cap peer.ns.exprs

PortAdmits(port, receiver, n) ==
    IF port.name = Nil THEN port.number \in {Anything, n}
    ELSE \E q \in Pods : pods[q].ip = receiver /\ <<port.name, n>> \in NamedPorts[q]

RuleAdmits(ns, rule, peer, receiver, n) ==
    /\ rule.peers = {} \/ \E x \in rule.peers : PeerAdmits(ns, x, peer)
    /\ rule.ports = {} \/ \E pt \in rule.ports : PortAdmits(pt, receiver, n)

Selects(p, q) ==
    /\ policies[p] # Nil
    /\ NamespaceOf[p] = NamespaceOf[q]
    /\ pods[q].label \in policies[p].sel.labels \cap policies[p].sel.exprs

Selecting(q, dir) == {p \in Policies : Selects(p, q) /\ dir \in policyType(policies[p])}

Admitted(q, dir, peer, receiver, n) ==
    \/ Selecting(q, dir) = {}
    \/ \E p \in Selecting(q, dir) :
           /\ policies[p][dir] # Nil
           /\ \E r \in Range(policies[p][dir]) :
                  RuleAdmits(NamespaceOf[p], r, peer, receiver, n)

\* The controller reads policy p as the API does.  It does not when a selector
\* has matchExpressions, of which it takes no notice; when the ports of a rule
\* for pods are all names that no receiving pod offers, which it takes for a
\* rule without ports; and when an egress rule for everyone or for an address
\* block has a named port, which it leaves out.
Plain(sel) == sel = Nil \/ sel.exprs = Labels

Offered(p, dir, rule, port) ==
    \E q \in Pods :
        /\ pods[q].ip # NoIP
        /\ IF dir = "ingress" THEN Selects(p, q)
           ELSE \E x \in rule.peers : PeerAdmits(NamespaceOf[p], x, pods[q].ip)
        /\ \E np \in NamedPorts[q] : np[1] = port.name

Understood(p) ==
    /\ Plain(policies[p].sel)
    /\ \A dir \in {"ingress", "egress"} : policies[p][dir] # Nil =>
           \A rule \in Range(policies[p][dir]) :
               LET named == {pt \in rule.ports : pt.name # Nil}
                   forPods == {x \in rule.peers : x.block = Nil}
               IN  /\ \A x \in forPods : Plain(x.pod) /\ Plain(x.ns)
                   /\ named = rule.ports /\ named # {} /\ forPods # {} =>
                          \E pt \in named : Offered(p, dir, rule, pt)
                   /\ named # {} /\ dir = "egress" => rule.peers = forPods /\ forPods # {}

\* Every policy whose matchLabels select an end of the packet is read so.
AsWritten(pkt) ==
    \A p \in Policies, q \in Pods :
        /\ pods[q].ip \in {pkt.src, pkt.dst}
        /\ policies[p] # Nil /\ NamespaceOf[p] = NamespaceOf[q]
        /\ pods[q].label \in policies[p].sel.labels
        => Understood(p)

\* No pod with the address is selected by a policy with rules for dir.
Free(a, dir) ==
    \A q \in Pods, p \in Policies :
        pods[q].ip = a /\ Selects(p, q)
            => policies[p][dir] = Nil /\ dir \notin policyType(policies[p])

\* After a Sync that nothing disturbed, the kernel rejects exactly the new
\* connections that the policies do not admit, and no packet of an
\* established one, for the packets whose ends no policy selects that the
\* controller reads otherwise than the API (see Understood).  (Where both ends
\* are isolated the chains of the sender come first and their ACCEPT is final,
\* so the property is about packets with one end that is free.)
Enforced ==
    phase = "idle" /\ clean =>
        \A pkt \in {x \in Packets : AsWritten(x)}, q \in OnNode :
            /\ (pkt.dst = pods[q].ip /\ Free(pkt.src, "egress")) =>
                   \A hook \in {FORWARD, OUTPUT} :
                       (Verdict(table, sets, hook, pkt) = REJECT) <=>
                           (pkt.flags = {}
                              /\ ~ Admitted(q, "ingress", pkt.src, pkt.dst, pkt.port))
            /\ (pkt.src = pods[q].ip /\ Free(pkt.dst, "ingress")) =>
                   (Verdict(table, sets, FORWARD, pkt) = REJECT) <=>
                       (pkt.flags = {}
                          /\ ~ Admitted(q, "egress", pkt.dst, pkt.dst, pkt.port))

\* Between syncs, inside them, after one that failed half way and after a
\* crash, a pod that a completed Sync isolated, and that every Sync since has
\* found isolated, still rejects the connections no policy admits: the new
\* chains are complete before the old ones go.
NoGap ==
    \A pkt \in Unwanted, qd \in guarded :
        pods[qd[1]].ip = (IF qd[2] = "ingress" THEN pkt.dst ELSE pkt.src)
            => Verdict(table, sets, FORWARD, pkt) = REJECT

\* A Sync that returns no error, and that got the list of the chains, leaves
\* nothing of the syncs before it: no chain, no jump, no ipset and no
\* half-filled second set.  (One that did not get the list returns no error
\* either, see CleanUpUnlisted, and leaves the cleaning to the next.)
NothingStale ==
    [][SyncDone /\ phase = "cleanup" =>
          /\ DOMAIN table = {FORWARD, OUTPUT} \cup policyChains \cup fwChains
          /\ DOMAIN sets = DOMAIN wanted]_vars

\* Whatever failed, and whatever change had no event or came before ready,
\* the ticker brings the kernel in line once changes and failures end.
Converges == <>[](phase = "idle" => clean)

\* The ipsets, as the chains see them, change only as a whole.
Live == {s \in DOMAIN sets : s[1] = "set"}
Atomic == INSTANCE AtomicSets WITH
    content <- [s \in Live |-> sets[s]],
    torn <- {s \in DOMAIN wanted : /\ TempName(s) \in DOMAIN sets
                                   /\ ~ sets[TempName(s)] \subseteq wanted[s]}
WholeSets == Atomic!Spec

=============================================================================
