---------------------------- MODULE NetpolRules ----------------------------
(***************************************************************************)
(* What the network policy controller computes: the policies as it sees    *)
(* them (buildNetworkPoliciesInfo) and the commands that put them into the *)
(* kernel (syncNetworkPolicyChains, syncPodFirewallChains,                 *)
(* cleanupStaleRules), each function as the sequence of commands it runs.  *)
(*                                                                         *)
(* A label selector is [labels, exprs]: the labels that its matchLabels    *)
(* and its matchExpressions accept.  A protocol and a port are one value.  *)
(* Go's map orders, which only decide the order of independent rules, are  *)
(* one fixed order.                                                        *)
(***************************************************************************)
EXTENDS Netfilter

CONSTANTS
    Pods, Policies, Namespaces, Labels,
    Nil,                  \* a nil pointer or slice of the API objects
    NoIP,                 \* "", the address of a pod that has none yet
    NamespaceOf,          \* of a pod or a policy
    NamedPorts,           \* pod -> set of <<name, number>> of its containers
    OnNode,               \* the pods whose HostIP is this node's
    AllNets, Halves       \* 0.0.0.0/0, and the two networks that make it up

ASSUME ClusterAssumption ==
    /\ IsFiniteSet(Pods) /\ IsFiniteSet(Policies) /\ OnNode \subseteq Pods
    /\ IsFiniteSet(Halves)
    /\ \A q \in Pods : IsFiniteSet(NamedPorts[q])

\* The sequences F gives to the members of its domain, one after the other,
\* and the members of a set in that order.
Concat(F) == FoldSet(LAMBDA x, seq : seq \o F[x], <<>>, DOMAIN F)
Listed(S) == Concat([x \in S |-> <<x>>])

\* The same for the members of a list, in their order.
InTurn(lists) ==
    IF Len(lists) = 0 THEN <<>>
    ELSE LET upTo[n \in 1 .. Len(lists)] ==
                 IF n = 1 THEN lists[n] ELSE upTo[n - 1] \o lists[n]
         IN  upTo[Len(lists)]

SetName(p, kind, i, j) == <<"set", p, kind, i, j>>
TempName(s) == <<"temp", s>>
policyChainName(p, version) == <<"KUBE-NWPLCY-", p, version>>
podFwChainName(pod, version) == <<"KUBE-POD-FW-", pod, version>>

\* --------------------------------------------- buildNetworkPoliciesInfo

\* Of every selector only the matchLabels are handed on.
ListPods(pods, ns, labelsToMatch) ==
    {q \in Pods : NamespaceOf[q] = ns /\ pods[q].label \in labelsToMatch}

IPsOf(pods, qs) == {pods[q].ip : q \in qs} \ {NoIP}

\* A peer is [ns, pod, block]; a missing pod selector selects every pod.
evalPodPeer(pods, nsLabel, ns, peer) ==
    IF peer.ns # Nil
    THEN UNION {ListPods(pods, n, IF peer.pod = Nil THEN Labels ELSE peer.pod.labels) :
                    n \in {m \in Namespaces : nsLabel[m] \in peer.ns.labels}}
    ELSE IF peer.pod # Nil THEN ListPods(pods, ns, peer.pod.labels)
    ELSE {}

\* Without the exceptions of the block.
evalIPBlockPeerNoExcept(peer) ==
    IF peer.pod # Nil \/ peer.ns # Nil \/ peer.block = Nil THEN {}
    ELSE {[net |-> peer.block.cidr, no |-> FALSE]}

\* ipset has no /0 network, so it becomes two.
evalIPBlockPeer(peer) ==
    LET Entries(net, no) ==
            {[net |-> n, no |-> no] : n \in IF net = AllNets THEN Halves ELSE {net}}
    IN  IF peer.pod # Nil \/ peer.ns # Nil \/ peer.block = Nil THEN {}
        ELSE Entries(peer.block.cidr, FALSE)
               \cup UNION {Entries(x, TRUE) : x \in peer.block.except}

\* The endpoints that pods qs offer under the port name: one per number.
grabNamedPort(pods, qs, name) ==
    LET numbers == {n \in UNION {{np[2] : np \in NamedPorts[q]} : q \in qs} :
                        \E q \in qs : <<name, n>> \in NamedPorts[q] /\ pods[q].ip # NoIP}
    IN  {[port |-> n, ips |-> IPsOf(pods, {q \in qs : <<name, n>> \in NamedPorts[q]})] :
            n \in numbers}

\* A port of a rule is [name] or [number], a number that may be Anything (nil).
processNetworkPolicyPorts(pods, qs, ports) ==
    [numeric |-> {pt.number : pt \in {x \in ports : x.name = Nil}},
     named |-> UNION {grabNamedPort(pods, qs, pt.name) :
                          pt \in {x \in ports : x.name # Nil}}]

\* Named ports are those of the pods that receive: the policy's own for an
\* ingress rule, the peers for an egress rule.
ruleInfo(pods, nsLabel, ns, rule, ownPods) ==
    LET peers == UNION {evalPodPeer(pods, nsLabel, ns, x) : x \in rule.peers}
        ports == processNetworkPolicyPorts(
                     pods, IF ownPods = Nil THEN peers ELSE ownPods, rule.ports)
    IN  [all |-> rule.peers = {}, pods |-> IPsOf(pods, peers),
         blocks |-> UNION {evalIPBlockPeer(x) : x \in rule.peers},
         allPorts |-> rule.ports = {}, ports |-> ports.numeric, named |-> ports.named]

policyType(spec) ==
    LET has == IF spec.types # {} THEN spec.types
               ELSE {d \in {"ingress", "egress"} : spec[d] # Nil}
    IN  IF has = {} THEN {"ingress"} ELSE has

policyInfo(pods, nsLabel, ns, spec) ==
    LET own == ListPods(pods, ns, spec.sel.labels)
        Rules(d, ownPods) ==
            IF spec[d] = Nil THEN <<>>
            ELSE [i \in DOMAIN spec[d] |-> ruleInfo(pods, nsLabel, ns, spec[d][i], ownPods)]
    IN  [targets |-> IPsOf(pods, own), type |-> policyType(spec),
         ingress |-> Rules("ingress", own), egress |-> Rules("egress", Nil)]

\* policies[p] is Nil when there is no policy p.
buildNetworkPoliciesInfo(pods, nsLabel, policies) ==
    [p \in {q \in Policies : policies[q] # Nil} |->
        policyInfo(pods, nsLabel, NamespaceOf[p], policies[p])]

\* ---------------------------------------------- syncNetworkPolicyChains

Entry(ip) == [net |-> {ip}, no |-> FALSE]

\* Filling the set in place, without a second set.
RefreshInPlace(s, entries) ==
    Concat([e \in entries |-> <<[Cmd("add", s, e) EXCEPT !.skip = 1]>>])

\* Set.Refresh: fill a second set and swap.  A failure skips what is left.
Refresh(s, entries) ==
    LET t == TempName(s)
        cmds == <<Cmd("create", t, Nil)>>
                  \o Concat([e \in entries |-> <<Cmd("add", t, e)>>])
                  \o <<Cmd("swap", s, t), Cmd("destroy", t, Nil)>>
    IN  [k \in DOMAIN cmds |-> [cmds[k] EXCEPT !.skip = Len(cmds) - k + 1]]

CreateAndRefresh(s, entries) == <<Cmd("create", s, Nil)>> \o Refresh(s, entries)

appendRuleToPolicyChain(chain, src, dst, port) ==
    <<Cmd("append", chain, Rule(src, dst, port, "", ACCEPT))>>

\* What goes between a peer (an ipset, or Anything) and the policy's own pods:
\* on the numeric ports, on the named ports (whose ipset takes the place of
\* the receiver), on all ports.  r is [p, dir, i, rule, target, chain].
Accept(r, peer, port) ==
    IF r.dir = "ingress" THEN appendRuleToPolicyChain(r.chain, peer, r.target, port)
    ELSE appendRuleToPolicyChain(r.chain, r.target, peer, port)

numericPortRules(r, peer) == Concat([n \in r.rule.ports |-> Accept(r, peer, n)])

namedPortRules(r, peer) ==
    InTurn([j \in DOMAIN Listed(r.rule.named) |->
        LET ep == Listed(r.rule.named)[j]
            s == SetName(r.p, <<r.dir, "named">>, r.i, j)
        IN  CreateAndRefresh(s, {Entry(a) : a \in ep.ips})
              \o appendRuleToPolicyChain(
                     r.chain, IF r.dir = "ingress" THEN peer ELSE r.target, s, ep.port)])

\* Egress rules for everyone and for IP blocks have no named ports.
somePortsRules(r, peer) ==
    numericPortRules(r, peer)
      \o (IF r.dir = "ingress" THEN namedPortRules(r, peer) ELSE <<>>)

podPeerRules(r) ==
    LET s == SetName(r.p, <<r.dir, "pod">>, r.i, 0)
    IN  IF r.rule.pods = {} THEN <<>>
        ELSE CreateAndRefresh(s, {Entry(a) : a \in r.rule.pods})
               \o numericPortRules(r, s) \o namedPortRules(r, s)
               \o (IF r.rule.ports = {} /\ r.rule.named = {}
                   THEN Accept(r, s, Anything) ELSE <<>>)

everyoneRules(r) ==
    IF ~ r.rule.all THEN <<>>
    ELSE IF r.rule.allPorts THEN Accept(r, Anything, Anything)
    ELSE somePortsRules(r, Anything)

ipBlockRules(r) ==
    LET s == SetName(r.p, <<r.dir, "ipblock">>, r.i, 0)
    IN  IF r.rule.blocks = {} THEN <<>>
        ELSE CreateAndRefresh(s, r.rule.blocks)
               \o (IF r.rule.allPorts THEN Accept(r, s, Anything) ELSE somePortsRules(r, s))

processRules(p, dir, rules, target, chain) ==
    InTurn([i \in DOMAIN rules |->
        LET r == [p |-> p, dir |-> dir, i |-> i, rule |-> rules[i],
                  target |-> target, chain |-> chain]
        IN  podPeerRules(r) \o everyoneRules(r) \o ipBlockRules(r)])

processIngressRules(p, info, target, chain) ==
    processRules(p, "ingress", info.ingress, target, chain)

processEgressRules(p, info, target, chain) ==
    processRules(p, "egress", info.egress, target, chain)

policyCommands(p, info, version) ==
    LET chain == policyChainName(p, version)
        dst == SetName(p, <<"target">>, 0, 0)
        src == SetName(p, <<"source">>, 0, 0)
        targets == {Entry(a) : a \in info.targets}
    IN  <<Cmd("newchain", chain, Nil), Cmd("create", dst, Nil), Cmd("create", src, Nil)>>
          \o Refresh(src, targets) \o Refresh(dst, targets)
          \o processIngressRules(p, info, dst, chain)
          \o processEgressRules(p, info, src, chain)

syncNetworkPolicyChains(infos, version) ==
    Concat([p \in DOMAIN infos |-> policyCommands(p, infos[p], version)])

\* ------------------------------------------------- syncPodFirewallChains

\* The pods of this node whose address is a target of a policy of that type.
EnabledPods(pods, infos, dir) ==
    {q \in OnNode : pods[q].ip # NoIP /\
        \E p \in DOMAIN infos : /\ NamespaceOf[p] = NamespaceOf[q]
                                /\ pods[q].ip \in infos[p].targets
                                /\ dir \in infos[p].type}

getIngressNetworkPolicyEnabledPods(pods, infos) == EnabledPods(pods, infos, "ingress")
getEgressNetworkPolicyEnabledPods(pods, infos) == EnabledPods(pods, infos, "egress")

\* An -I that ends with exit status 1 is passed over: the chain goes without it.
PassedOver(c) == c.op = "insert" /\ c.arg.to[1] = "KUBE-NWPLCY-"

runThroughPolicies(chain, ip, infos, version) ==
    Concat([p \in {x \in DOMAIN infos : ip \in infos[x].targets} |->
        <<Cmd("insert", chain,
              Rule(Anything, Anything, Anything, "", policyChainName(p, version)))>>])

\* A failure to append the last rule is only logged.
rejectRestLogged(chain) ==
    <<[Cmd("append", chain, Rule(Anything, Anything, Anything, "", REJECT)) EXCEPT !.skip = 1],
      Cmd("insert", chain, Rule(Anything, Anything, Anything, "established", ACCEPT))>>

rejectRest(chain) ==
    <<Cmd("append", chain, Rule(Anything, Anything, Anything, "", REJECT)),
      Cmd("insert", chain, Rule(Anything, Anything, Anything, "established", ACCEPT))>>

ingressFirewall(pod, ip, infos, version) ==
    LET chain == podFwChainName(pod, version)
        jump == Rule(Anything, ip, Anything, "", chain)
    IN  <<Cmd("newchain", chain, Nil)>>
          \o runThroughPolicies(chain, ip, infos, version)
          \o <<Cmd("insert", chain, Rule(Anything, ip, Anything, "local", ACCEPT)),
               Cmd("insert", FORWARD, jump),
               Cmd("insert", OUTPUT, jump),
               Cmd("insert", FORWARD, [jump EXCEPT !.only = "bridged"])>>
          \o rejectRest(chain)

egressFirewall(pod, ip, infos, version) ==
    LET chain == podFwChainName(pod, version)
        jump == Rule(ip, Anything, Anything, "", chain)
    IN  <<Cmd("newchain", chain, Nil)>>
          \o runThroughPolicies(chain, ip, infos, version)
          \o <<Cmd("insert", FORWARD, jump),
               Cmd("insert", FORWARD, [jump EXCEPT !.only = "bridged"])>>
          \o rejectRest(chain)

syncPodFirewallChains(dir, pods, infos, version) ==
    IF dir = "ingress"
    THEN Concat([q \in getIngressNetworkPolicyEnabledPods(pods, infos) |->
                    ingressFirewall(q, pods[q].ip, infos, version)])
    ELSE Concat([q \in getEgressNetworkPolicyEnabledPods(pods, infos) |->
                    egressFirewall(q, pods[q].ip, infos, version)])

\* ---------------------------------------------------- cleanupStaleRules

StaleChains(table, prefix, active) == {c \in DOMAIN table : c[1] = prefix} \ active

\* Rules are deleted by their number in the listing less the number of rules
\* deleted since; the listing is read again for every chain, when the jumps
\* to the chains before it (done) are gone.
deleteJumps(table, hook, chain, done) ==
    LET rules == table[hook]
        at == {i \in DOMAIN rules : rules[i].to = chain}
        Nth(k) == CHOOSE i \in at : Cardinality({j \in at : j < i}) = k - 1
        Listing(i) == Cardinality({j \in 1 .. i : rules[j].to \notin done})
    IN  [k \in 1 .. Cardinality(at) |-> Cmd("delete", hook, Listing(Nth(k)) - (k - 1))]

deleteAllJumps(table, chains) ==
    InTurn([k \in DOMAIN chains |->
        LET done == {chains[m] : m \in 1 .. k - 1}
        IN  deleteJumps(table, FORWARD, chains[k], done)
              \o deleteJumps(table, OUTPUT, chains[k], done)])

flushAndDelete(chain) == <<Cmd("clear", chain, Nil), Cmd("delchain", chain, Nil)>>

\* First the references to a stale policy chain in the chains in use.
deleteReference(table, chain, active) ==
    Concat([c \in {x \in active : \E r \in Range(table[x]) : r.to = chain} |->
        <<Cmd("delete", c, CHOOSE i \in DOMAIN table[c] :
                               /\ table[c][i].to = chain
                               /\ \A j \in 1 .. i - 1 : table[c][j].to # chain)>>])

\* Leaving the second sets of a Refresh that failed.
cleanupKeepsTemps(table, sets, policyChains, podFwChains, policySets) ==
    LET fw == StaleChains(table, "KUBE-POD-FW-", podFwChains)
        pol == StaleChains(table, "KUBE-NWPLCY-", policyChains)
    IN  deleteAllJumps(table, Listed(fw))
          \o Concat([c \in fw \cup pol |-> flushAndDelete(c)])
          \o Concat([s \in {x \in DOMAIN sets : x[1] = "set"} \ policySets |->
                        <<Cmd("destroy", s, Nil)>>])

destroyStaleSets(sets, policySets) ==
    Concat([s \in DOMAIN sets \ policySets |-> <<Cmd("destroy", s, Nil)>>])

cleanupStaleRules(table, sets, policyChains, podFwChains, policySets) ==
    LET fw == StaleChains(table, "KUBE-POD-FW-", podFwChains)
        pol == StaleChains(table, "KUBE-NWPLCY-", policyChains)
    IN  deleteAllJumps(table, Listed(fw))
          \o Concat([c \in fw |-> flushAndDelete(c)])
          \o Concat([c \in pol |-> deleteReference(table, c, podFwChains) \o flushAndDelete(c)])
          \o destroyStaleSets(sets, policySets)

=============================================================================
