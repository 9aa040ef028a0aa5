------------------------ MODULE NetworkPolicyProofs ------------------------
(***************************************************************************)
(* Proofs about the network policy controller, for any number of pods,     *)
(* policies, rules and peers, of failed commands, crashes and changes:     *)
(* a Sync that got the list of the chains and returns no error leaves      *)
(* nothing stale (NothingStale), and the ipsets change only as a whole     *)
(* (WholeSets, a refinement of AtomicSets).  Both rest on the inductive    *)
(* invariant IInv, which relates the commands that are left to the kernel. *)
(***************************************************************************)
EXTENDS NetworkPolicy, NetpolRulesProofs

\* ------------------------------------------- buildNetworkPoliciesInfo

\* The rules of policyInfo in one direction.
RuleInfos(ps, nl, ns, spec, d, own) ==
    IF spec[d] = Nil THEN <<>>
    ELSE [i \in DOMAIN spec[d] |-> ruleInfo(ps, nl, ns, spec[d][i], own)]

\* What the controller computes for the rules of a policy has finite lists.
LEMMA RuleInfosOK ==
  ASSUME NEW ps, NEW nl, NEW ns, NEW spec \in PolicySpecs, NEW d \in {"ingress", "egress"},
         NEW own, own = Nil \/ own \subseteq Pods
  PROVE  /\ IsSeq(RuleInfos(ps, nl, ns, spec, d, own))
         /\ \A i \in DOMAIN RuleInfos(ps, nl, ns, spec, d, own) :
               RuleOK(RuleInfos(ps, nl, ns, spec, d, own)[i])
<1>1. CASE spec[d] = Nil
  <2>1. RuleInfos(ps, nl, ns, spec, d, own) = <<>>
    BY <1>1, Zenon DEF RuleInfos
  <2>2. PICK e : e = <<>>
    BY Zenon
  <2>3. IsSeq(e) /\ DOMAIN e = {}
    BY <2>2 DEF IsSeq, Range
  <2> QED
    BY <2>1, <2>2, <2>3, Zenon
<1>2. CASE spec[d] # Nil
  <2>1. PICK l : l = RuleInfos(ps, nl, ns, spec, d, own)
    BY Zenon
  <2>2. l = [i \in DOMAIN spec[d] |-> ruleInfo(ps, nl, ns, spec[d][i], own)]
    BY <1>2, <2>1, Zenon DEF RuleInfos
  <2>3. /\ IsSeq(spec[d])
        /\ \A r \in Range(spec[d]) :
              /\ IsFiniteSet(r.peers) /\ IsFiniteSet(r.ports)
              /\ \A x \in r.peers : x.block # Nil => IsFiniteSet(x.block.except)
    BY <1>2, SpecsAssumption, Zenon DEF IsSeq
  <2>4. PICK s, n : s = spec[d] /\ n = Len(s)
    BY Zenon
  <2>5. n \in Nat /\ DOMAIN s = 1 .. n
    BY <2>3, <2>4 DEF IsSeq
  <2>6. l = [i \in 1 .. n |-> l[i]]
    BY <2>2, <2>4, <2>5, Zenon
  <2>7. IsSeq(l)
    BY <2>5, <2>6, FunctionSeq, Zenon
  <2>8. ASSUME NEW i \in DOMAIN l PROVE RuleOK(l[i])
    <3>1. i \in DOMAIN spec[d] /\ l[i] = ruleInfo(ps, nl, ns, spec[d][i], own)
      BY <2>2, Zenon
    <3>2. PICK r : r = spec[d][i]
      BY Zenon
    <3>3. r \in Range(spec[d])
      BY <3>1, <3>2, Zenon DEF Range
    <3>4. RuleOK(ruleInfo(ps, nl, ns, r, own))
      BY <2>3, <3>3, RuleInfoOK, Zenon
    <3> QED
      BY <3>1, <3>2, <3>4, Zenon
  <2> QED
    BY <2>1, <2>7, <2>8, Zenon
<1> QED
  BY <1>1, <1>2, Zenon

\* buildNetworkPoliciesInfo makes finite lists of rules with finite sets of
\* addresses, blocks and ports.
LEMMA BuildOK ==
  ASSUME NEW ps, NEW nl, NEW pol \in [Policies -> PolicySpecs \cup {Nil}]
  PROVE  InfosOK(buildNetworkPoliciesInfo(ps, nl, pol))
<1>1. PICK is, D : is = buildNetworkPoliciesInfo(ps, nl, pol) /\ D = {q \in Policies : pol[q] # Nil}
  BY Zenon
<1>2. /\ DOMAIN is = D
      /\ \A p \in D : is[p] = policyInfo(ps, nl, NamespaceOf[p], pol[p])
  BY <1>1, Zenon DEF buildNetworkPoliciesInfo
<1>3. D \subseteq Policies
  BY <1>1, Zenon
<1>4. IsFiniteSet(D)
  BY <1>3, ClusterAssumption, FS_Subset, Zenon
<1>5. ASSUME NEW p \in D
      PROVE  /\ IsFiniteSet(is[p].targets)
             /\ \A dir \in {"ingress", "egress"} :
                   /\ IsSeq(RulesFor(is, p, dir))
                   /\ \A i \in DOMAIN RulesFor(is, p, dir) : RuleOK(RulesFor(is, p, dir)[i])
  <2>1. PICK spec, ns : spec = pol[p] /\ ns = NamespaceOf[p]
    BY Zenon
  <2>2. spec \in PolicySpecs
    BY <1>1, <2>1
  <2>3. PICK own, in, out : /\ own = ListPods(ps, ns, spec.sel.labels)
                            /\ in = RuleInfos(ps, nl, ns, spec, "ingress", own)
                            /\ out = RuleInfos(ps, nl, ns, spec, "egress", Nil)
    BY Zenon
  <2>4. own \subseteq Pods
    BY <2>3, Zenon DEF ListPods
  <2>5. policyInfo(ps, nl, ns, spec) = [targets |-> IPsOf(ps, own), type |-> policyType(spec),
                                        ingress |-> in, egress |-> out]
    BY <2>3, Zenon DEF policyInfo, RuleInfos
  <2>6. is[p] = policyInfo(ps, nl, ns, spec)
    BY <1>2, <2>1, Zenon
  <2>7. is[p].targets = IPsOf(ps, own) /\ is[p].ingress = in /\ is[p].egress = out
    BY <2>5, <2>6
  <2>8. IsFiniteSet(is[p].targets)
    BY <2>4, <2>7, FiniteIPs, Zenon
  <2>9. IsSeq(in) /\ \A i \in DOMAIN in : RuleOK(in[i])
    BY <2>2, <2>3, <2>4, RuleInfosOK, Zenon
  <2>10. IsSeq(out) /\ \A i \in DOMAIN out : RuleOK(out[i])
    BY <2>2, <2>3, RuleInfosOK, Zenon
  <2>11. ASSUME NEW dir \in {"ingress", "egress"}
         PROVE  RulesFor(is, p, dir) = in \/ RulesFor(is, p, dir) = out
    BY <2>7, Zenon DEF RulesFor
  <2> QED
    BY <2>8, <2>9, <2>10, <2>11, Zenon
<1>6. InfosOK(is)
  BY <1>2, <1>4, <1>5, Zenon DEF InfosOK
<1> QED
  BY <1>1, <1>6, Zenon

\* ------------------------------------------------------- the invariant

KernelInv == TableOK(table) /\ IsFiniteSet(DOMAIN sets)

Known ==
    /\ InfosOK(infos)
    /\ policies \in [Policies -> PolicySpecs \cup {Nil}]
    /\ IsFiniteSet(fwChains) /\ \A ch \in fwChains : ch[1] = "KUBE-POD-FW-"
    /\ \A s \in DOMAIN wanted : s[1] = "set"

PhaseInv ==
    /\ IsSeq(todo)
    /\ phase \in {"down", "idle", "policies", "ingress", "egress", "cleanup", "unlisted"}
    /\ phase \in {"down", "idle"} => todo = <<>>

\* The chains and sets that this Sync uses are there or will be made.
Promised ==
    phase \notin {"down", "idle"} =>
        /\ \A ch \in policyChains \cup fwChains : ch \in DOMAIN table \/ Gives(todo, "newchain", ch)
        /\ \A s \in DOMAIN wanted : s \in DOMAIN sets \/ Gives(todo, "create", s)

Chains == {FORWARD, OUTPUT} \cup policyChains \cup fwChains

\* What the commands left of a part of Sync do.
Sweeping ==
    /\ SweepList(todo, Chains, DOMAIN wanted)
    /\ \A ch \in DOMAIN table \ Chains : Gives(todo, "delchain", ch)
    /\ \A s \in DOMAIN sets \ DOMAIN wanted : Gives(todo, "destroy", s)

Left ==
    /\ phase = "policies" => Filling(todo, infos, sets, wanted)
    /\ phase \in {"ingress", "egress"} => FwList(todo)
    /\ phase = "cleanup" => Sweeping
    /\ phase = "unlisted" => SweepList(todo, Chains, DOMAIN wanted)

IInv == KernelInv /\ Known /\ PhaseInv /\ Promised /\ Left

\* What BeginSync wants in the sets that the list creates.
WantedOf(l) ==
    [s \in {x.on : x \in {y \in Range(l) : y.op = "create" /\ y.on[1] = "set"}}
        |-> {x.arg : x \in {y \in Range(l) : y.op = "add" /\ y.on = TempName(s)}}]

\* At the start of a Sync nothing of any Refresh is done yet, so every Refresh is
\* still to be run whole.
LEMMA FillingBegins ==
  ASSUME NEW l, NEW is, NEW S, Ready(l, is)
  PROVE  /\ Filling(l, is, S, WantedOf(l))
         /\ \A s \in DOMAIN WantedOf(l) : s[1] = "set" /\ Gives(l, "create", s)
<1>1. /\ Steps(l, is) /\ IsSeq(l)
      /\ \A k \in DOMAIN l : Whole(l, k, is) /\ (l[k].op = "swap" => Makes(l, k))
  BY Zenon DEF Ready, Plan, Steps
<1>2. PICK W : W = WantedOf(l)
  BY Zenon
<1>3. /\ \A s : s \in DOMAIN W <=> \E y \in Range(l) : y.op = "create" /\ y.on[1] = "set" /\ y.on = s
      /\ \A s \in DOMAIN W : \A e \in W[s] :
            \E y \in Range(l) : y.op = "add" /\ y.on = TempName(s) /\ y.arg = e
  BY <1>2, Zenon DEF WantedOf
<1>4. \A s \in DOMAIN W : s[1] = "set" /\ Gives(l, "create", s)
  <2> TAKE s \in DOMAIN W
  <2>1. PICK y \in Range(l) : y.op = "create" /\ y.on[1] = "set" /\ y.on = s
    BY <1>3, Zenon
  <2> QED
    BY <2>1, Zenon DEF Gives
<1>5. ASSUME NEW k \in DOMAIN l, l[k].op = "create", l[k].skip = 0
      PROVE  l[k].on \in DOMAIN W
  <2>1. Step(l[k], is)
    BY <1>1, Zenon DEF Steps
  <2>2. l[k].op # "newchain" /\ l[k].op # "append"
    BY <1>5
  <2>3. l[k].on[1] = "set"
    BY <1>5, <2>1, <2>2, Zenon DEF Step, Outside
  <2> QED
    BY <1>3, <1>5, <2>3, Zenon DEF Range
<1>6. ASSUME NEW s \in DOMAIN W, NEW e \in W[s]
      PROVE  e \in Content(is, s)
  <2>1. PICK y \in Range(l) : y.op = "add" /\ y.on = TempName(s) /\ y.arg = e
    <3>1. \A r \in DOMAIN W : \A d \in W[r] :
             \E y \in Range(l) : y.op = "add" /\ y.on = TempName(r) /\ y.arg = d
      BY <1>3, Zenon
    <3> QED
      BY <1>6, <3>1
  <2>2. PICK k \in DOMAIN l : y = l[k]
    BY Zenon DEF Range
  <2>3. Inside(y, is)
    BY <1>1, <2>1, <2>2, InRefresh, Zenon
  <2>4. y.op # "swap"
    BY <2>1
  <2>5. SetOf(y) = y.on[2]
    BY <2>4, Zenon DEF SetOf
  <2>6. y.on[2] = s
    BY <2>1 DEF TempName
  <2> QED
    BY <2>1, <2>3, <2>5, <2>6, Zenon DEF Inside
<1>7. ASSUME NEW k \in DOMAIN l PROVE Filled(l, k, is, S, W)
  <2>1. Whole(l, k, is) /\ (l[k].op = "swap" => Makes(l, k))
    BY <1>1, Zenon
  <2>2. l[k].op = "swap" => l[k].on \in DOMAIN W
    BY <1>5, <2>1, Zenon DEF Makes
  <2> QED
    BY <1>5, <1>6, <2>1, <2>2, Zenon DEF Filled, Whole
<1>8. Filling(l, is, S, W)
  BY <1>1, <1>7, Zenon DEF Filling
<1> QED
  BY <1>2, <1>4, <1>8, Zenon

\* At the beginning nothing is there and nothing is to do.
LEMMA InitInv == Init => IInv
<1> SUFFICES ASSUME Init PROVE IInv
  BY Zenon
<1>1. PICK E : E = <<>>
  BY Zenon
<1>2. IsSeq(E) /\ DOMAIN E = {}
  BY <1>1 DEF IsSeq, Range
<1>3. table = [h \in {FORWARD, OUTPUT} |-> E] /\ sets = E /\ infos = E /\ wanted = E /\ todo = E
      /\ fwChains = {} /\ phase = "down" /\ policies = InitPolicies
  BY <1>1, Zenon DEF Init
<1>4. KernelInv
  <2>1. DOMAIN table = {FORWARD, OUTPUT} /\ \A h \in DOMAIN table : table[h] = E
    BY <1>3, Zenon
  <2>2. IsFiniteSet({FORWARD, OUTPUT}) /\ IsFiniteSet({})
    <3>1. {FORWARD, OUTPUT} = {FORWARD} \cup {OUTPUT}
      BY Zenon
    <3>2. IsFiniteSet({FORWARD}) /\ IsFiniteSet({OUTPUT}) /\ IsFiniteSet({})
      BY FS_EmptySet, FS_Singleton, Zenon
    <3> QED
      BY <3>1, <3>2, FS_Union, Zenon
  <2>3. TableOK(table)
    BY <1>2, <2>1, <2>2, Zenon DEF TableOK
  <2> QED
    BY <1>2, <1>3, <2>2, <2>3, Zenon DEF KernelInv
<1>5. Known
  <2>1. IsFiniteSet({})
    BY FS_EmptySet, Zenon
  <2>2. InfosOK(infos)
    BY <1>2, <1>3, <2>1, Zenon DEF InfosOK
  <2>3. policies \in [Policies -> PolicySpecs \cup {Nil}]
    BY <1>3, SpecsAssumption, Zenon
  <2> QED
    BY <1>2, <1>3, <2>1, <2>2, <2>3, Zenon DEF Known
<1>6. PhaseInv
  BY <1>1, <1>2, <1>3, Zenon DEF PhaseInv
<1>7. phase \notin {"policies", "ingress", "egress", "cleanup", "unlisted"} /\ phase \in {"down", "idle"}
  BY <1>3
<1>8. Promised /\ Left
  BY <1>7, Zenon DEF Promised, Left
<1> QED
  BY <1>4, <1>5, <1>6, <1>8, Zenon DEF IInv

\* What holds of a state holds of one with the same variables.
LEMMA SameInv ==
  ASSUME IInv, UNCHANGED <<kernel, phase, infos, version, fwChains, wanted, todo>>,
         policies' \in [Policies -> PolicySpecs \cup {Nil}]
  PROVE  IInv'
<1>1. /\ table' = table /\ sets' = sets /\ phase' = phase /\ infos' = infos /\ version' = version
      /\ fwChains' = fwChains /\ wanted' = wanted /\ todo' = todo
  BY Zenon DEF kernel
<1>2. policyChains' = policyChains
  BY <1>1, Zenon DEF policyChains
<1>3. KernelInv' /\ Known'
  BY <1>1, Zenon DEF IInv, KernelInv, Known
<1>4. PhaseInv'
  BY <1>1, Zenon DEF IInv, PhaseInv
<1>5. Promised'
  BY <1>1, <1>2, Zenon DEF IInv, Promised
<1>6. Chains' = Chains
  BY <1>1, <1>2, Zenon DEF Chains
<1>7. Sweeping' <=> Sweeping
  BY <1>1, <1>6, Zenon DEF Sweeping
<1>8. Left'
  BY <1>1, <1>6, <1>7, Zenon DEF IInv, Left
<1> QED
  BY <1>3, <1>4, <1>5, <1>8, Zenon DEF IInv

\* Outside a Sync only the kernel and what is known have to be in order.
LEMMA IdleInv ==
  ASSUME IInv, UNCHANGED <<kernel, policies>>, phase' \in {"down", "idle"}, todo' = <<>>,
         Known'
  PROVE  IInv'
<1>1. KernelInv'
  BY Zenon DEF IInv, KernelInv, kernel
<1>2. IsSeq(<<>>)
  BY NoCommands, OwnMembers, Zenon
<1>3. PhaseInv'
  BY <1>2, Zenon DEF PhaseInv
<1>4. phase' \notin {"policies", "ingress", "egress", "cleanup", "unlisted"}
  OBVIOUS
<1>5. Promised' /\ Left'
  BY <1>4, Zenon DEF Promised, Left
<1> QED
  BY <1>1, <1>3, <1>5, Zenon DEF IInv

\* BeginSync, which reads the cluster and plans the policies' chains.
LEMMA BeginInv ==
  ASSUME IInv, BeginSync
  PROVE  IInv'
<1>1. /\ phase' = "policies" /\ infos' = buildNetworkPoliciesInfo(pods, nsLabel, policies)
      /\ todo' = syncNetworkPolicyChains(infos', version') /\ wanted' = WantedOf(todo')
      /\ fwChains' = {} /\ policies' = policies /\ table' = table /\ sets' = sets
  BY Zenon DEF BeginSync, WantedOf, listers, kernel
<1>2. policies \in [Policies -> PolicySpecs \cup {Nil}]
  BY Zenon DEF IInv, Known
<1>3. InfosOK(infos')
  <2>1. InfosOK(buildNetworkPoliciesInfo(pods, nsLabel, policies))
    BY <1>2, BuildOK, Zenon
  <2> QED
    BY <1>1, <2>1, Zenon
<1>4. /\ Ready(todo', infos')
      /\ \A p \in DOMAIN infos' : \E c \in Range(todo') : NewChain(c, policyChainName(p, version'))
  <2>1. PICK is, v : is = infos' /\ v = version'
    BY Zenon
  <2>2. /\ Ready(syncNetworkPolicyChains(is, v), is)
        /\ \A p \in DOMAIN is : \E c \in Range(syncNetworkPolicyChains(is, v)) :
              NewChain(c, policyChainName(p, v))
    BY <1>3, <2>1, ReadySync, Zenon
  <2> QED
    BY <1>1, <2>1, <2>2, Zenon
<1>5. /\ Filling(todo', infos', sets', wanted')
      /\ \A s \in DOMAIN wanted' : s[1] = "set" /\ Gives(todo', "create", s)
  <2>1. PICK l, is, S : l = todo' /\ is = infos' /\ S = sets'
    BY Zenon
  <2>2. /\ Filling(l, is, S, WantedOf(l))
        /\ \A s \in DOMAIN WantedOf(l) : s[1] = "set" /\ Gives(l, "create", s)
    BY <1>4, <2>1, FillingBegins, Zenon
  <2> QED
    BY <1>1, <2>1, <2>2, Zenon
<1>6. KernelInv'
  BY <1>1, Zenon DEF IInv, KernelInv
<1>7. Known'
  <2>1. IsFiniteSet({})
    BY FS_EmptySet, Zenon
  <2> QED
    BY <1>1, <1>2, <1>3, <1>5, <2>1, Zenon DEF Known
<1>8. phase' \notin {"down", "idle", "ingress", "egress", "cleanup", "unlisted"}
  BY <1>1
<1>9. PhaseInv'
  <2>1. IsSeq(todo')
    BY <1>4, Zenon DEF Ready, Plan, Steps
  <2> QED
    BY <1>1, <1>8, <2>1, Zenon DEF PhaseInv
<1>10. Promised'
  <2>1. \A ch \in policyChains' : Gives(todo', "newchain", ch)
    BY <1>4, Zenon DEF policyChains, Gives, NewChain
  <2> QED
    BY <1>1, <1>5, <2>1, Zenon DEF Promised
<1>11. Left'
  BY <1>5, <1>8, Zenon DEF Left
<1> QED
  BY <1>6, <1>7, <1>9, <1>10, <1>11, Zenon DEF IInv

\* The chains that a policy of this Sync uses have the policies' prefix.
LEMMA PolicyPrefix == \A ch \in policyChains : ch[1] = "KUBE-NWPLCY-"
<1>1. \A p, v : policyChainName(p, v)[1] = "KUBE-NWPLCY-"
  BY DEF policyChainName
<1> QED
  BY <1>1, Zenon DEF policyChains

\* What a command of Sync never does: end a chain or a set in use, or one of
\* the kernel's own chains.
LEMMA HeadIsTame ==
  ASSUME IInv, todo # <<>>
  PROVE  /\ Tame(Head(todo))
         /\ Head(todo).op = "delchain" => Head(todo).on \notin Chains
         /\ Head(todo).op = "destroy" => Head(todo).on \notin DOMAIN wanted
<1>1. IsSeq(todo) /\ phase \in {"policies", "ingress", "egress", "cleanup", "unlisted"}
  BY DEF IInv, PhaseInv
<1>2. PICK c : c = Head(todo)
  BY Zenon
<1>3. 1 \in DOMAIN todo /\ c = todo[1] /\ c \in Range(todo)
  BY <1>1, <1>2, TailPart, Zenon DEF Range
<1>4. CASE phase = "policies"
  <2>1. Steps(todo, infos)
    BY <1>4, Zenon DEF IInv, Left, Filling
  <2>2. Step(c, infos)
    BY <1>3, <2>1, Zenon DEF Steps
  <2>3. c.op # "delchain"
    <3>1. c.op \in {"newchain", "create", "append", "add", "swap", "destroy"}
      BY <2>2, Zenon DEF Step, Outside, Inside
    <3> QED
      BY <3>1
  <2>4. c.op = "newchain" => c.on[1] = "KUBE-NWPLCY-"
    <3>1. ASSUME c.op = "newchain" PROVE c.on[1] = "KUBE-NWPLCY-"
      <4>1. c.op \notin {"create", "append", "add", "swap", "destroy"}
        BY <3>1
      <4> QED
        BY <2>2, <4>1, Zenon DEF Step, Outside, Inside
    <3> QED
      BY <3>1, Zenon
  <2>5. ASSUME c.op = "destroy" PROVE c.on \notin DOMAIN wanted
    <3>1. Inside(c, infos)
      BY <1>3, <2>1, <2>5, InRefresh, Zenon
    <3>2. c.op # "swap"
      BY <2>5
    <3>3. c.on = TempName(SetOf(c))
      BY <3>1, <3>2, Zenon DEF Inside, SecondSet
    <3>4. c.on[1] = "temp"
      BY <3>3 DEF TempName
    <3>5. "temp" # "set"
      OBVIOUS
    <3>6. \A s \in DOMAIN wanted : s[1] = "set"
      BY Zenon DEF IInv, Known
    <3> QED
      BY <3>4, <3>5, <3>6, Zenon
  <2> QED
    BY <1>2, <2>3, <2>4, <2>5, Zenon DEF Tame
<1>5. CASE phase \in {"ingress", "egress"}
  <2>1. FwCommand(c)
    BY <1>3, <1>5, Zenon DEF IInv, Left, FwList
  <2>2. c.op \in {"insert", "append", "newchain"}
    BY <2>1, Zenon DEF FwCommand
  <2>3. c.op # "delchain" /\ c.op # "destroy" /\ (c.op = "newchain" => c.op \notin {"insert", "append"})
    BY <2>2
  <2> QED
    BY <1>2, <2>1, <2>3, Zenon DEF Tame, FwCommand
<1>6. CASE phase \in {"cleanup", "unlisted"}
  <2>1. Sweeps(c, Chains, DOMAIN wanted)
    BY <1>3, <1>6, Zenon DEF IInv, Left, Sweeping, SweepList
  <2>2. c.op \in {"delete", "clear", "delchain", "destroy"}
    BY <2>1, Zenon DEF Sweeps
  <2>3. /\ c.op # "newchain"
        /\ c.op = "delchain" => c.op \notin {"delete", "clear", "destroy"}
        /\ c.op = "destroy" => c.op \notin {"delete", "clear", "delchain"}
    BY <2>2
  <2>4. c.op = "delchain" => c.on \notin Chains
    BY <2>1, <2>3, Zenon DEF Sweeps
  <2>5. c.op = "destroy" => c.on \notin DOMAIN wanted
    BY <2>1, <2>3, Zenon DEF Sweeps
  <2>6. {FORWARD, OUTPUT} \subseteq Chains
    BY Zenon DEF Chains
  <2> QED
    BY <1>2, <2>3, <2>4, <2>5, <2>6, Zenon DEF Tame
<1> QED
  BY <1>1, <1>4, <1>5, <1>6, Zenon

\* The commands left after the first are some of the commands.
LEMMA FwTail ==
  ASSUME NEW l, l # <<>>, IsSeq(l)
  PROVE  IsSeq(Tail(l)) /\ Range(Tail(l)) \subseteq Range(l)
<1>1. Part(Tail(l), l, 1)
  BY TailPart, Zenon
<1>2. PICK m : m = Tail(l)
  BY Zenon
<1>3. IsSeq(m) /\ \A i \in DOMAIN m : 1 + i \in DOMAIN l /\ m[i] = l[1 + i]
  BY <1>1, <1>2, PartPositions
<1>4. Range(m) \subseteq Range(l)
  BY <1>3, Zenon DEF Range
<1> QED
  BY <1>2, <1>3, <1>4, Zenon

\* One command of a Sync that the kernel accepts.
LEMMA CommandInv ==
  ASSUME IInv, Command
  PROVE  IInv'
<1>1. /\ todo # <<>> /\ table' = ExecTable(table, Head(todo)) /\ sets' = ExecSets(sets, Head(todo))
      /\ todo' = Tail(todo) /\ phase' = phase /\ infos' = infos /\ version' = version
      /\ fwChains' = fwChains /\ wanted' = wanted /\ policies' = policies
  BY Zenon DEF Command, Execute, listers
<1>2. PICK c : c = Head(todo)
  BY Zenon
<1>3. /\ Tame(c) /\ (c.op = "delchain" => c.on \notin Chains)
      /\ (c.op = "destroy" => c.on \notin DOMAIN wanted)
  BY <1>1, <1>2, HeadIsTame, Zenon
<1>4. IsSeq(todo) /\ phase \notin {"down", "idle"}
  BY <1>1, Zenon DEF IInv, PhaseInv
<1>5. IsSeq(todo') /\ Range(todo') \subseteq Range(todo)
  BY <1>1, <1>4, FwTail, Zenon
<1>6. policyChains' = policyChains
  BY <1>1, Zenon DEF policyChains
<1>7. Chains' = Chains
  BY <1>1, <1>6, Zenon DEF Chains
<1>8. TableOK(table)
  BY Zenon DEF IInv, KernelInv
<1>9. DOMAIN table' = IF c.op = "newchain" THEN DOMAIN table \cup {c.on}
                      ELSE IF c.op = "delchain" THEN DOMAIN table \ {c.on} ELSE DOMAIN table
  <2>1. \A ch \in DOMAIN table : IsSeq(table[ch])
    BY <1>8, Zenon DEF TableOK
  <2>2. DOMAIN ExecTable(table, c) =
          IF c.op = "newchain" THEN DOMAIN table \cup {c.on}
          ELSE IF c.op = "delchain" THEN DOMAIN table \ {c.on} ELSE DOMAIN table
    BY <2>1, TableAfter, Zenon
  <2> QED
    BY <1>1, <1>2, <2>2, Zenon
<1>10. DOMAIN sets' = IF c.op = "create" THEN DOMAIN sets \cup {c.on}
                      ELSE IF c.op = "destroy" THEN DOMAIN sets \ {c.on} ELSE DOMAIN sets
  <2>1. DOMAIN ExecSets(sets, c) =
          IF c.op = "create" THEN DOMAIN sets \cup {c.on}
          ELSE IF c.op = "destroy" THEN DOMAIN sets \ {c.on} ELSE DOMAIN sets
    BY SetsAfter, Zenon
  <2> QED
    BY <1>1, <1>2, <2>1, Zenon
<1>11. KernelInv'
  <2>1. TableOK(ExecTable(table, c))
    BY <1>3, <1>8, TableStays, Zenon
  <2>2. IsFiniteSet(DOMAIN sets)
    BY Zenon DEF IInv, KernelInv
  <2>3. IsFiniteSet(DOMAIN sets \cup {c.on})
    BY <2>2, FS_Singleton, FS_Union, Zenon
  <2>4. DOMAIN sets' \subseteq DOMAIN sets \cup {c.on}
    BY <1>10, Zenon
  <2>5. IsFiniteSet(DOMAIN sets')
    BY <2>3, <2>4, FS_Subset, Zenon
  <2> QED
    BY <1>1, <1>2, <2>1, <2>5, Zenon DEF KernelInv
<1>12. Known'
  BY <1>1, Zenon DEF IInv, Known
<1>13. PhaseInv'
  BY <1>1, <1>4, <1>5, Zenon DEF IInv, PhaseInv
<1>14. ASSUME NEW op, NEW x, Gives(todo, op, x)
       PROVE  Gives(todo', op, x) \/ (c.op = op /\ c.on = x)
  BY <1>1, <1>2, <1>4, <1>14, GivesTail, Zenon
<1>15. "delchain" # "newchain" /\ "destroy" # "create"
  OBVIOUS
<1>16. Promised'
  <2>1. ASSUME NEW ch \in policyChains \cup fwChains
        PROVE  ch \in DOMAIN table' \/ Gives(todo', "newchain", ch)
    <3>1. ch \in DOMAIN table \/ Gives(todo, "newchain", ch)
      BY <1>4, <2>1, Zenon DEF IInv, Promised
    <3>2. ch \in Chains
      BY <2>1, Zenon DEF Chains
    <3>3. CASE ch \in DOMAIN table
      BY <1>3, <1>9, <3>2, <3>3, Zenon
    <3>4. CASE Gives(todo, "newchain", ch)
      BY <1>9, <1>14, <3>4, Zenon
    <3> QED
      BY <3>1, <3>3, <3>4, Zenon
  <2>2. ASSUME NEW s \in DOMAIN wanted
        PROVE  s \in DOMAIN sets' \/ Gives(todo', "create", s)
    <3>1. s \in DOMAIN sets \/ Gives(todo, "create", s)
      BY <1>4, <2>2, Zenon DEF IInv, Promised
    <3>2. CASE s \in DOMAIN sets
      BY <1>3, <1>10, <3>2, Zenon
    <3>3. CASE Gives(todo, "create", s)
      BY <1>10, <1>14, <3>3, Zenon
    <3> QED
      BY <3>1, <3>2, <3>3, Zenon
  <2> QED
    BY <1>1, <1>6, <2>1, <2>2, Zenon DEF Promised
<1>17. phase = "policies" => Filling(todo', infos', sets', wanted')
  <2>1. SUFFICES ASSUME phase = "policies" PROVE Filling(todo', infos', sets', wanted')
    BY Zenon
  <2>2. Filling(todo, infos, sets, wanted)
    BY <2>1, Zenon DEF IInv, Left
  <2>3. Filling(Tail(todo), infos, ExecSets(sets, Head(todo)), wanted)
    BY <1>1, <2>2, FillingAfter, Zenon
  <2> QED
    BY <1>1, <2>3, Zenon
<1>18. phase \in {"ingress", "egress"} => FwList(todo')
  BY <1>5, Zenon DEF IInv, Left, FwList
<1>19. phase = "cleanup" => Sweeping'
  <2>1. SUFFICES ASSUME phase = "cleanup" PROVE Sweeping'
    BY Zenon
  <2>2. Sweeping
    BY <2>1, Zenon DEF IInv, Left
  <2>3. SweepList(todo', Chains', DOMAIN wanted')
    BY <1>1, <1>5, <1>7, <2>2, Zenon DEF Sweeping, SweepList
  <2>4. c \in Range(todo)
    BY <1>1, <1>2, <1>4, TailPart, Zenon DEF Range
  <2>5. c.op \in {"delete", "clear", "delchain", "destroy"}
    BY <2>2, <2>4, Zenon DEF Sweeping, SweepList, Sweeps
  <2>6. c.op # "newchain" /\ c.op # "create"
    BY <2>5
  <2>7. ASSUME NEW ch \in DOMAIN table' \ Chains PROVE Gives(todo', "delchain", ch)
    <3>1. ch \in DOMAIN table \ Chains
      BY <1>9, <2>6, Zenon
    <3>2. Gives(todo, "delchain", ch)
      BY <2>2, <3>1, Zenon DEF Sweeping
    <3>3. ~ (c.op = "delchain" /\ c.on = ch)
      BY <1>9, <2>6, Zenon
    <3> QED
      BY <1>14, <3>2, <3>3, Zenon
  <2>8. ASSUME NEW s \in DOMAIN sets' \ DOMAIN wanted PROVE Gives(todo', "destroy", s)
    <3>1. s \in DOMAIN sets \ DOMAIN wanted
      BY <1>10, <2>6, Zenon
    <3>2. Gives(todo, "destroy", s)
      BY <2>2, <3>1, Zenon DEF Sweeping
    <3>3. ~ (c.op = "destroy" /\ c.on = s)
      BY <1>10, <2>6, Zenon
    <3> QED
      BY <1>14, <3>2, <3>3, Zenon
  <2> QED
    BY <1>1, <1>7, <2>3, <2>7, <2>8, Zenon DEF Sweeping
<1>20. phase = "unlisted" => SweepList(todo', Chains', DOMAIN wanted')
  BY <1>1, <1>5, <1>7, Zenon DEF IInv, Left, SweepList
<1>21. Left'
  BY <1>1, <1>17, <1>18, <1>19, <1>20, Zenon DEF Left
<1> QED
  BY <1>11, <1>12, <1>13, <1>16, <1>21, Zenon DEF IInv

\* One command of a Sync that fails: the rest of its Refresh is skipped, or the
\* command is passed over, or the Sync ends.
LEMMA FailInv ==
  ASSUME IInv, CommandFails
  PROVE  IInv'
<1>1. /\ todo # <<>> /\ table' = table /\ sets' = sets /\ infos' = infos /\ version' = version
      /\ fwChains' = fwChains /\ wanted' = wanted /\ policies' = policies
  BY Zenon DEF CommandFails, listers, kernel
<1>2. \/ Head(todo).skip > 0 /\ phase' = phase /\ todo' = SubSeq(todo, Head(todo).skip + 1, Len(todo))
      \/ PassedOver(Head(todo)) /\ phase' = phase /\ todo' = Tail(todo)
      \/ phase' = "idle" /\ todo' = <<>>
  BY Zenon DEF CommandFails, EndSync
<1>3. Known'
  BY <1>1, Zenon DEF IInv, Known
<1>4. CASE phase' = "idle" /\ todo' = <<>>
  BY <1>1, <1>3, <1>4, IdleInv, Zenon DEF kernel
<1>5. CASE /\ Head(todo).skip > 0 /\ phase' = phase
           /\ todo' = SubSeq(todo, Head(todo).skip + 1, Len(todo))
  <2>1. IsSeq(todo) /\ phase \in {"policies", "ingress", "egress", "cleanup", "unlisted"}
    BY <1>1 DEF IInv, PhaseInv
  <2>2. PICK c : c = Head(todo)
    BY Zenon
  <2>3. 1 \in DOMAIN todo /\ c = todo[1] /\ c \in Range(todo)
    BY <1>1, <2>1, <2>2, TailPart, Zenon DEF Range
  <2>4. c.skip # 0
    BY <1>5, <2>2
  <2>5. phase = "policies"
    <3>1. phase \in {"ingress", "egress"} => c.skip = 0
      BY <2>3, Zenon DEF IInv, Left, FwList, FwCommand
    <3>2. phase \in {"cleanup", "unlisted"} => c.skip = 0
      BY <2>3, Zenon DEF IInv, Left, Sweeping, SweepList, Sweeps
    <3> QED
      BY <2>1, <2>4, <3>1, <3>2, Zenon
  <2>6. Filling(todo, infos, sets, wanted)
    BY <2>5, Zenon DEF IInv, Left
  <2>7. Steps(todo, infos)
    BY <2>6, Zenon DEF Filling
  <2>8. todo' = SubSeq(todo, todo[1].skip + 1, Len(todo)) /\ todo[1].skip # 0
    BY <1>5, <2>2, <2>3, <2>4, Zenon
  <2>9. Filling(SubSeq(todo, todo[1].skip + 1, Len(todo)), infos, sets, wanted)
    BY <1>1, <2>6, <2>8, FillingSkips, Zenon
  <2>10. Filling(todo', infos', sets', wanted')
    BY <1>1, <2>8, <2>9, Zenon
  <2>11. KernelInv'
    BY <1>1, Zenon DEF IInv, KernelInv
  <2>12. phase' \notin {"down", "idle", "ingress", "egress", "cleanup", "unlisted"} /\ phase' = "policies"
    BY <1>5, <2>5
  <2>13. PhaseInv'
    BY <2>10, <2>12, Zenon DEF PhaseInv, Filling, Steps
  <2>14. policyChains' = policyChains
    BY <1>1, Zenon DEF policyChains
  <2>15. ASSUME NEW op, NEW x, Gives(todo, op, x), op = "newchain" \/ (op = "create" /\ x[1] = "set")
         PROVE  Gives(todo', op, x)
    <3>1. Gives(SubSeq(todo, todo[1].skip + 1, Len(todo)), op, x)
      BY <1>1, <2>7, <2>8, <2>15, GivesSkips, Zenon
    <3> QED
      BY <2>8, <3>1, Zenon
  <2>16. phase \notin {"down", "idle"}
    BY <2>5
  <2>17. Promised'
    <3>1. \A ch \in policyChains \cup fwChains : ch \in DOMAIN table \/ Gives(todo', "newchain", ch)
      BY <2>15, <2>16, Zenon DEF IInv, Promised
    <3>2. \A s \in DOMAIN wanted : s \in DOMAIN sets \/ Gives(todo', "create", s)
      BY <2>15, <2>16, Zenon DEF IInv, Promised, Known
    <3> QED
      BY <1>1, <2>14, <3>1, <3>2, Zenon DEF Promised
  <2>18. Left'
    BY <2>10, <2>12, Zenon DEF Left
  <2> QED
    BY <1>3, <2>11, <2>13, <2>17, <2>18, Zenon DEF IInv
<1>6. CASE PassedOver(Head(todo)) /\ phase' = phase /\ todo' = Tail(todo)
  <2>1. IsSeq(todo) /\ phase \in {"policies", "ingress", "egress", "cleanup", "unlisted"}
    BY <1>1 DEF IInv, PhaseInv
  <2>2. PICK c : c = Head(todo)
    BY Zenon
  <2>3. 1 \in DOMAIN todo /\ c = todo[1] /\ c \in Range(todo)
    BY <1>1, <2>1, <2>2, TailPart, Zenon DEF Range
  <2>4. c.op = "insert"
    BY <1>6, <2>2, Zenon DEF PassedOver
  <2>5. phase \in {"ingress", "egress"}
    <3>1. phase = "policies" => c.op \in {"newchain", "create", "append", "add", "swap", "destroy"}
      BY <2>3, Zenon DEF IInv, Left, Filling, Steps, Step, Outside, Inside
    <3>2. phase \in {"cleanup", "unlisted"} => c.op \in {"delete", "clear", "delchain", "destroy"}
      BY <2>3, Zenon DEF IInv, Left, Sweeping, SweepList, Sweeps
    <3> QED
      BY <2>1, <2>4, <3>1, <3>2
  <2>6. IsSeq(todo') /\ Range(todo') \subseteq Range(todo)
    BY <1>1, <1>6, <2>1, FwTail, Zenon
  <2>7. FwList(todo')
    BY <2>5, <2>6, Zenon DEF IInv, Left, FwList
  <2>8. phase' \notin {"down", "idle", "policies", "cleanup", "unlisted"} /\ phase \notin {"down", "idle"}
    BY <1>6, <2>5
  <2>9. KernelInv' /\ PhaseInv' /\ Left'
    BY <1>1, <1>6, <2>6, <2>7, <2>8, Zenon DEF IInv, KernelInv, PhaseInv, Left
  <2>10. "insert" # "newchain" /\ "insert" # "create"
    OBVIOUS
  <2>11. ASSUME NEW op, NEW x, Gives(todo, op, x), op # "insert"
         PROVE  Gives(todo', op, x)
    BY <1>1, <1>6, <2>1, <2>2, <2>4, <2>11, GivesTail, Zenon
  <2>12. policyChains' = policyChains
    BY <1>1, Zenon DEF policyChains
  <2>13. Promised'
    <3>1. \A ch \in policyChains \cup fwChains : ch \in DOMAIN table \/ Gives(todo', "newchain", ch)
      BY <2>8, <2>10, <2>11, Zenon DEF IInv, Promised
    <3>2. \A s \in DOMAIN wanted : s \in DOMAIN sets \/ Gives(todo', "create", s)
      BY <2>8, <2>10, <2>11, Zenon DEF IInv, Promised
    <3> QED
      BY <1>1, <2>12, <3>1, <3>2, Zenon DEF Promised
  <2> QED
    BY <1>3, <2>9, <2>13, Zenon DEF IInv
<1> QED
  BY <1>2, <1>4, <1>5, <1>6, Zenon

\* An empty list makes and destroys nothing.
LEMMA GivesNothing ==
  ASSUME NEW op, NEW x
  PROVE  ~ Gives(<<>>, op, x)
<1>1. PICK l : l = <<>>
  BY Zenon
<1>2. DOMAIN l = {}
  BY <1>1
<1>3. Range(l) = {}
  BY <1>2, Zenon DEF Range
<1> QED
  BY <1>1, <1>3, Zenon DEF Gives

\* syncPodFirewallChains is planned once the commands before it are done.
LEMMA FirewallsInv ==
  ASSUME IInv, NEW before \in {"policies", "ingress"}, NEW dir \in {"ingress", "egress"},
         Firewalls(before, dir)
  PROVE  IInv'
<1>1. /\ phase = before /\ todo = <<>> /\ phase' = dir
      /\ fwChains' = fwChains \cup {podFwChainName(q, version) : q \in EnabledPods(pods, infos, dir)}
      /\ todo' = syncPodFirewallChains(dir, pods, infos, version)
      /\ table' = table /\ sets' = sets /\ infos' = infos /\ version' = version
      /\ wanted' = wanted /\ policies' = policies
  BY Zenon DEF Firewalls, listers, kernel
<1>2. IsFiniteSet(OnNode)
  BY ClusterAssumption, FS_Subset, Zenon
<1>3. InfosOK(infos) /\ IsFiniteSet(DOMAIN infos)
  BY Zenon DEF IInv, Known, InfosOK
<1>4. /\ FwList(todo')
      /\ \A q \in EnabledPods(pods, infos, dir) : \E c \in Range(todo') :
            NewChain(c, podFwChainName(q, version))
  <2>1. /\ FwList(syncPodFirewallChains(dir, pods, infos, version))
        /\ \A q \in EnabledPods(pods, infos, dir) :
              \E c \in Range(syncPodFirewallChains(dir, pods, infos, version)) :
                  NewChain(c, podFwChainName(q, version))
    BY <1>2, <1>3, FwSync, Zenon
  <2> QED
    BY <1>1, <2>1, Zenon
<1>5. phase \notin {"down", "idle"} /\ phase' \in {"ingress", "egress"}
      /\ phase' \notin {"down", "idle", "policies", "cleanup", "unlisted"}
  BY <1>1
<1>6. KernelInv'
  BY <1>1, Zenon DEF IInv, KernelInv
<1>7. Known'
  <2>1. PICK f : f = [q \in EnabledPods(pods, infos, dir) |-> podFwChainName(q, version)]
    BY Zenon
  <2>2. /\ DOMAIN f = EnabledPods(pods, infos, dir) /\ f = [x \in DOMAIN f |-> f[x]]
        /\ Range(f) = {podFwChainName(q, version) : q \in EnabledPods(pods, infos, dir)}
    BY <2>1, Zenon DEF Range
  <2>3. EnabledPods(pods, infos, dir) \subseteq OnNode
    BY Zenon DEF EnabledPods
  <2>4. IsFiniteSet(DOMAIN f)
    BY <1>2, <2>2, <2>3, FS_Subset, Zenon
  <2>5. IsFiniteSet(Range(f))
    BY <2>2, <2>4, FiniteRange, Zenon
  <2>6. IsFiniteSet(fwChains)
    BY Zenon DEF IInv, Known
  <2>7. IsFiniteSet(fwChains \cup Range(f))
    BY <2>5, <2>6, FS_Union, Zenon
  <2>8. fwChains' = fwChains \cup Range(f)
    BY <1>1, <2>2, Zenon
  <2>9. \A q : podFwChainName(q, version)[1] = "KUBE-POD-FW-"
    BY DEF podFwChainName
  <2>10. \A ch \in fwChains' : ch[1] = "KUBE-POD-FW-"
    BY <1>1, <2>9, Zenon DEF IInv, Known
  <2> QED
    BY <1>1, <2>7, <2>8, <2>10, Zenon DEF IInv, Known
<1>8. PhaseInv'
  BY <1>4, <1>5, Zenon DEF PhaseInv, FwList
<1>9. policyChains' = policyChains
  BY <1>1, Zenon DEF policyChains
<1>10. \A op, x : ~ Gives(todo, op, x)
  BY <1>1, GivesNothing, Zenon
<1>11. Promised'
  <2>1. \A ch \in policyChains \cup fwChains : ch \in DOMAIN table
    BY <1>5, <1>10, Zenon DEF IInv, Promised
  <2>2. \A s \in DOMAIN wanted : s \in DOMAIN sets
    BY <1>5, <1>10, Zenon DEF IInv, Promised
  <2>3. \A q \in EnabledPods(pods, infos, dir) : Gives(todo', "newchain", podFwChainName(q, version))
    BY <1>4, Zenon DEF Gives, NewChain
  <2>4. \A ch \in policyChains' \cup fwChains' : ch \in DOMAIN table' \/ Gives(todo', "newchain", ch)
    BY <1>1, <1>9, <2>1, <2>3, Zenon
  <2> QED
    BY <1>1, <2>2, <2>4, Zenon DEF Promised
<1>12. Left'
  BY <1>4, <1>5, Zenon DEF Left
<1> QED
  BY <1>6, <1>7, <1>8, <1>11, <1>12, Zenon DEF IInv

\* cleanupStaleRules is planned from the table and the sets as they then are.
LEMMA CleanUpInv ==
  ASSUME IInv, CleanUp
  PROVE  IInv'
<1>1. /\ phase = "egress" /\ todo = <<>> /\ phase' = "cleanup"
      /\ todo' = cleanupStaleRules(table, sets, policyChains, fwChains, DOMAIN wanted)
      /\ table' = table /\ sets' = sets /\ infos' = infos /\ version' = version
      /\ fwChains' = fwChains /\ wanted' = wanted /\ policies' = policies
  BY Zenon DEF CleanUp, listers, kernel
<1>2. policyChains' = policyChains
  BY <1>1, Zenon DEF policyChains
<1>3. Chains' = Chains
  BY <1>1, <1>2, Zenon DEF Chains
<1>4. phase \notin {"down", "idle"}
      /\ phase' \notin {"down", "idle", "policies", "ingress", "egress", "unlisted"}
  BY <1>1
<1>5. /\ IsSeq(table[FORWARD]) /\ IsSeq(table[OUTPUT]) /\ IsFiniteSet(DOMAIN table)
      /\ IsFiniteSet(DOMAIN sets) /\ IsFiniteSet(fwChains)
      /\ \A ch \in fwChains : ch[1] = "KUBE-POD-FW-"
  BY Zenon DEF IInv, KernelInv, TableOK, Known
<1>6. PICK l, K, W : /\ l = cleanupStaleRules(table, sets, policyChains, fwChains, DOMAIN wanted)
                     /\ K = Chains /\ W = DOMAIN wanted
  BY Zenon
<1>7. K = {FORWARD, OUTPUT} \cup policyChains \cup fwChains
  BY <1>6, Zenon DEF Chains
<1>8. /\ SweepList(cleanupStaleRules(table, sets, policyChains, fwChains, W), K, W)
      /\ \A ch \in DOMAIN table \ K : ch[1] \in {"KUBE-NWPLCY-", "KUBE-POD-FW-"} =>
            Gives(cleanupStaleRules(table, sets, policyChains, fwChains, W), "delchain", ch)
      /\ \A s \in DOMAIN sets \ W :
            Gives(cleanupStaleRules(table, sets, policyChains, fwChains, W), "destroy", s)
  BY <1>5, <1>7, PolicyPrefix, SweepAll, Zenon
<1>9. \A ch \in DOMAIN table \ K : ch[1] \in {"KUBE-NWPLCY-", "KUBE-POD-FW-"}
  BY <1>7, Zenon DEF IInv, KernelInv, TableOK
<1>10. Sweeping'
  BY <1>1, <1>3, <1>6, <1>8, <1>9, Zenon DEF Sweeping
<1>11. KernelInv' /\ Known'
  BY <1>1, Zenon DEF IInv, KernelInv, Known
<1>12. PhaseInv'
  BY <1>1, <1>4, <1>10, Zenon DEF PhaseInv, Sweeping, SweepList
<1>13. \A op, x : ~ Gives(todo, op, x)
  BY <1>1, GivesNothing, Zenon
<1>14. Promised'
  <2>1. \A ch \in policyChains \cup fwChains : ch \in DOMAIN table
    BY <1>4, <1>13, Zenon DEF IInv, Promised
  <2>2. \A s \in DOMAIN wanted : s \in DOMAIN sets
    BY <1>4, <1>13, Zenon DEF IInv, Promised
  <2> QED
    BY <1>1, <1>2, <2>1, <2>2, Zenon DEF Promised
<1>15. Left'
  BY <1>4, <1>10, Zenon DEF Left
<1> QED
  BY <1>11, <1>12, <1>14, <1>15, Zenon DEF IInv

\* Without the list of the chains only sets that are not in use are destroyed.
LEMMA UnlistedInv ==
  ASSUME IInv, CleanUpUnlisted
  PROVE  IInv'
<1>1. /\ phase = "egress" /\ todo = <<>> /\ phase' = "unlisted"
      /\ todo' = destroyStaleSets(sets, DOMAIN wanted)
      /\ table' = table /\ sets' = sets /\ infos' = infos /\ version' = version
      /\ fwChains' = fwChains /\ wanted' = wanted /\ policies' = policies
  BY Zenon DEF CleanUpUnlisted, listers, kernel
<1>2. policyChains' = policyChains
  BY <1>1, Zenon DEF policyChains
<1>3. phase \notin {"down", "idle"}
      /\ phase' \notin {"down", "idle", "policies", "ingress", "egress", "cleanup"}
  BY <1>1
<1>4. IsFiniteSet(DOMAIN sets)
  BY Zenon DEF IInv, KernelInv
<1>5. SweepList(todo', Chains', DOMAIN wanted')
  BY <1>1, <1>4, SweepStaleSets, Zenon
<1>6. KernelInv' /\ Known'
  BY <1>1, Zenon DEF IInv, KernelInv, Known
<1>7. PhaseInv' /\ Left'
  BY <1>1, <1>3, <1>5, Zenon DEF PhaseInv, Left, SweepList
<1>8. \A op, x : ~ Gives(todo, op, x)
  BY <1>1, GivesNothing, Zenon
<1>9. Promised'
  BY <1>1, <1>2, <1>3, <1>8, Zenon DEF IInv, Promised
<1> QED
  BY <1>6, <1>7, <1>9, Zenon DEF IInv

\* The agent stops between two commands; the kernel keeps table and sets.
LEMMA CrashInv ==
  ASSUME IInv, Crash
  PROVE  IInv'
<1>1. PICK E : E = <<>>
  BY Zenon
<1>2. DOMAIN E = {}
  BY <1>1
<1>3. /\ phase' = "down" /\ todo' = <<>> /\ infos' = E /\ fwChains' = {} /\ wanted' = E
      /\ UNCHANGED <<kernel, policies>>
  BY <1>1, Zenon DEF Crash, listers
<1>4. IsFiniteSet({})
  BY FS_EmptySet, Zenon
<1>5. Known'
  <2>1. InfosOK(infos')
    BY <1>2, <1>3, <1>4, Zenon DEF InfosOK
  <2> QED
    BY <1>2, <1>3, <1>4, <2>1, Zenon DEF IInv, Known
<1> QED
  BY <1>3, <1>5, IdleInv, Zenon

\* Every step of the controller, of the cluster and of the kernel keeps IInv.
LEMMA NextInv ==
  ASSUME IInv, [Next]_vars
  PROVE  IInv'
<1>1. policies \in [Policies -> PolicySpecs \cup {Nil}]
  BY Zenon DEF IInv, Known
<1>2. ASSUME NEW q \in Pods, NEW state \in PodStates, PodChanges(q, state) PROVE IInv'
  BY <1>1, <1>2, SameInv, Zenon DEF PodChanges, Change
<1>3. ASSUME NEW p \in Policies, NEW spec \in PolicySpecs \cup {Nil}, PolicyChanges(p, spec)
      PROVE  IInv'
  <2>1. policies' = [policies EXCEPT ![p] = spec]
    BY <1>3, Zenon DEF PolicyChanges
  <2>2. policies' \in [Policies -> PolicySpecs \cup {Nil}]
    BY <1>1, <1>3, <2>1
  <2> QED
    BY <1>3, <2>2, SameInv, Zenon DEF PolicyChanges, Change
<1>4. ASSUME NEW n \in Namespaces, NEW label \in Labels, NamespaceChanges(n, label) PROVE IInv'
  BY <1>1, <1>4, SameInv, Zenon DEF NamespaceChanges, Change
<1>5. CASE Start
  <2>1. /\ phase' = "idle" /\ UNCHANGED <<kernel, policies>> /\ todo' = todo /\ phase = "down"
        /\ infos' = infos /\ fwChains' = fwChains /\ wanted' = wanted
    BY <1>5, Zenon DEF Start, listers
  <2>2. Known' /\ todo' = <<>>
    BY <2>1, Zenon DEF IInv, Known, PhaseInv
  <2> QED
    BY <2>1, <2>2, IdleInv, Zenon
<1>6. CASE Crash
  BY <1>6, CrashInv, Zenon
<1>7. CASE RunSync
  BY <1>7, BeginInv, Zenon DEF RunSync
<1>8. CASE OnUpdate
  BY <1>8, BeginInv, Zenon DEF OnUpdate
<1>9. CASE Command
  BY <1>9, CommandInv, Zenon
<1>10. CASE CommandFails
  BY <1>10, FailInv, Zenon
<1>11. CASE Firewalls("policies", "ingress")
  BY <1>11, FirewallsInv, Zenon
<1>12. CASE Firewalls("ingress", "egress")
  BY <1>12, FirewallsInv, Zenon
<1>13. CASE CleanUp
  BY <1>13, CleanUpInv, Zenon
<1>14. CASE SyncDone
  <2>1. /\ phase' = "idle" /\ UNCHANGED <<kernel, policies>> /\ todo' = <<>>
        /\ infos' = infos /\ fwChains' = fwChains /\ wanted' = wanted
    BY <1>14, Zenon DEF SyncDone, EndSync, listers
  <2>2. Known'
    BY <2>1, Zenon DEF IInv, Known
  <2> QED
    BY <2>1, <2>2, IdleInv, Zenon
<1>15. CASE UNCHANGED vars
  BY <1>1, <1>15, SameInv, Zenon DEF vars, listers
<1>16. CASE CleanUpUnlisted
  BY <1>16, UnlistedInv, Zenon
<1> QED
  BY <1>2, <1>3, <1>4, <1>5, <1>6, <1>7, <1>8, <1>9, <1>10, <1>11, <1>12, <1>13, <1>14, <1>15, <1>16,
     Zenon
  DEF Next, Sync

\* ----------------------------------------------------------- the theorems

\* Whatever failed before and however the agent ended, what a Sync has left to
\* do fits what is in the kernel: the chains and sets it needs are there or
\* still to be made, a set is swapped in only when its second set holds
\* everything it shall hold, and cleanupStaleRules deletes nothing that is in
\* use and, if it got the list of the chains, still deletes all that is not.
THEOREM InvariantHolds == Spec => []IInv
<1>1. Init => IInv
  BY InitInv, Zenon
<1>2. IInv /\ [Next]_vars => IInv'
  BY NextInv, Zenon
<1> QED
  BY <1>1, <1>2, PTL DEF Spec

\* NothingStale: a Sync that returns no error, and whose ListChains did not fail
\* (an error that cleanupStaleRules drops), leaves exactly the chains and the
\* sets it made, whatever the syncs before it left behind.
THEOREM NothingStaleHolds == Spec => NothingStale
<1> DEFINE Exact == /\ DOMAIN table = {FORWARD, OUTPUT} \cup policyChains \cup fwChains
                    /\ DOMAIN sets = DOMAIN wanted
<1>1. ASSUME IInv, SyncDone, phase = "cleanup" PROVE Exact
  <2>1. phase = "cleanup" /\ todo = <<>>
    BY <1>1, Zenon DEF SyncDone
  <2>2. phase \notin {"down", "idle"}
    BY <2>1
  <2>3. \A op, x : ~ Gives(todo, op, x)
    BY <2>1, GivesNothing, Zenon
  <2>4. Chains \subseteq DOMAIN table /\ DOMAIN wanted \subseteq DOMAIN sets
    BY <1>1, <2>2, <2>3, Zenon DEF IInv, Promised, KernelInv, TableOK, Chains
  <2>5. DOMAIN table \subseteq Chains /\ DOMAIN sets \subseteq DOMAIN wanted
    BY <1>1, <2>1, <2>3, Zenon DEF IInv, Left, Sweeping
  <2>6. DOMAIN table = Chains /\ DOMAIN sets = DOMAIN wanted
    BY <2>4, <2>5, Zenon
  <2> QED
    BY <2>6, Zenon DEF Chains
<1>2. IInv /\ [Next]_vars => [SyncDone /\ phase = "cleanup" => Exact]_vars
  BY <1>1, Zenon
<1> QED
  BY <1>2, InvariantHolds, PTL DEF Spec, NothingStale

\* --------------------------------------------------- sets change as a whole

\* The ipsets as the chains see them, and the sets whose last Refresh was cut
\* short, as WholeSets has them.
ContentsOf(S) == [s \in {x \in DOMAIN S : x[1] = "set"} |-> S[s]]
Torn == {s \in DOMAIN wanted : /\ TempName(s) \in DOMAIN sets
                               /\ ~ sets[TempName(s)] \subseteq wanted[s]}

\* What is in the named sets depends on the named sets alone.
LEMMA ContentsSame ==
  ASSUME NEW S, NEW T,
         \A s : s[1] = "set" => (s \in DOMAIN S <=> s \in DOMAIN T) /\ (s \in DOMAIN S => T[s] = S[s])
  PROVE  ContentsOf(T) = ContentsOf(S)
<1>1. {x \in DOMAIN T : x[1] = "set"} = {x \in DOMAIN S : x[1] = "set"}
  BY Zenon
<1>2. PICK D : D = {x \in DOMAIN S : x[1] = "set"}
  BY Zenon
<1>3. \A s \in D : T[s] = S[s]
  BY <1>2, Zenon
<1>4. ContentsOf(T) = [s \in D |-> T[s]] /\ ContentsOf(S) = [s \in D |-> S[s]]
  BY <1>1, <1>2, Zenon DEF ContentsOf
<1>5. [s \in D |-> T[s]] = [s \in D |-> S[s]]
  BY <1>3, Zenon
<1> QED
  BY <1>4, <1>5, Zenon

\* Which sets are seen, and with what.
LEMMA ContentsOfSets ==
  ASSUME NEW S
  PROVE  /\ \A s : s \in DOMAIN ContentsOf(S) <=> s \in DOMAIN S /\ s[1] = "set"
         /\ \A s \in DOMAIN ContentsOf(S) : ContentsOf(S)[s] = S[s]
BY Zenon DEF ContentsOf

\* A command on another set than one in use changes nothing the chains see.
LEMMA CreateContents ==
  ASSUME NEW S, NEW s
  PROVE  \/ ContentsOf(ipsetCreate(S, s)) = ContentsOf(S)
         \/ /\ s \notin DOMAIN ContentsOf(S) /\ s[1] = "set"
            /\ ContentsOf(ipsetCreate(S, s)) =
                  [x \in DOMAIN ContentsOf(S) \cup {s} |-> IF x = s THEN {} ELSE ContentsOf(S)[x]]
<1>1. CASE s \in DOMAIN S
  BY <1>1, Zenon DEF ipsetCreate
<1>2. CASE s \notin DOMAIN S
  <2>1. PICK T : T = ipsetCreate(S, s)
    BY Zenon
  <2>2. T = [x \in DOMAIN S \cup {s} |-> IF x = s THEN {} ELSE S[x]]
    BY <1>2, <2>1, Zenon DEF ipsetCreate, Put
  <2>3. DOMAIN T = DOMAIN S \cup {s} /\ T[s] = {} /\ \A x \in DOMAIN S : x # s => T[x] = S[x]
    BY <2>2, Zenon
  <2>4. CASE s[1] # "set"
    <3>1. ContentsOf(T) = ContentsOf(S)
      BY <1>2, <2>3, <2>4, ContentsSame, Zenon
    <3> QED
      BY <2>1, <3>1, Zenon
  <2>5. CASE s[1] = "set"
    <3>1. PICK A, B : A = ContentsOf(S) /\ B = ContentsOf(T)
      BY Zenon
    <3>2. /\ \A x : x \in DOMAIN A <=> x \in DOMAIN S /\ x[1] = "set"
          /\ \A x \in DOMAIN A : A[x] = S[x]
      BY <3>1, ContentsOfSets, Zenon
    <3>3. /\ \A x : x \in DOMAIN B <=> x \in DOMAIN T /\ x[1] = "set"
          /\ \A x \in DOMAIN B : B[x] = T[x]
      BY <3>1, ContentsOfSets, Zenon
    <3>4. DOMAIN B = DOMAIN A \cup {s} /\ s \notin DOMAIN A
      BY <1>2, <2>3, <2>5, <3>2, <3>3, Zenon
    <3>5. \A x \in DOMAIN B : B[x] = IF x = s THEN {} ELSE A[x]
      BY <2>3, <3>2, <3>3, <3>4, Zenon
    <3>6. B = [x \in DOMAIN B |-> B[x]]
      BY <3>1 DEF ContentsOf
    <3>7. B = [x \in DOMAIN A \cup {s} |-> IF x = s THEN {} ELSE A[x]]
      BY <3>4, <3>5, <3>6
    <3> QED
      BY <2>1, <2>5, <3>1, <3>4, <3>7, Zenon
  <2> QED
    BY <2>4, <2>5, Zenon
<1> QED
  BY <1>1, <1>2, Zenon

\* Destroying a set takes at most that set from view.
LEMMA DestroyContents ==
  ASSUME NEW S, NEW s
  PROVE  \/ ContentsOf(ipsetDestroy(S, s)) = ContentsOf(S)
         \/ /\ s \in DOMAIN ContentsOf(S)
            /\ ContentsOf(ipsetDestroy(S, s)) = [x \in DOMAIN ContentsOf(S) \ {s} |-> ContentsOf(S)[x]]
<1>1. PICK T : T = ipsetDestroy(S, s)
  BY Zenon
<1>2. T = [x \in DOMAIN S \ {s} |-> S[x]]
  BY <1>1, Zenon DEF ipsetDestroy, Drop
<1>3. DOMAIN T = DOMAIN S \ {s} /\ \A x \in DOMAIN T : T[x] = S[x]
  BY <1>2, Zenon
<1>4. CASE s \notin DOMAIN S \/ s[1] # "set"
  <2>1. ContentsOf(T) = ContentsOf(S)
    BY <1>3, <1>4, ContentsSame, Zenon
  <2> QED
    BY <1>1, <2>1, Zenon
<1>5. CASE s \in DOMAIN S /\ s[1] = "set"
  <2>1. PICK A, B : A = ContentsOf(S) /\ B = ContentsOf(T)
    BY Zenon
  <2>2. /\ \A x : x \in DOMAIN A <=> x \in DOMAIN S /\ x[1] = "set"
        /\ \A x \in DOMAIN A : A[x] = S[x]
    BY <2>1, ContentsOfSets, Zenon
  <2>3. /\ \A x : x \in DOMAIN B <=> x \in DOMAIN T /\ x[1] = "set"
        /\ \A x \in DOMAIN B : B[x] = T[x]
    BY <2>1, ContentsOfSets, Zenon
  <2>4. DOMAIN B = DOMAIN A \ {s} /\ s \in DOMAIN A
    BY <1>3, <1>5, <2>2, <2>3, Zenon
  <2>5. \A x \in DOMAIN B : B[x] = A[x]
    BY <1>3, <2>2, <2>3, <2>4, Zenon
  <2>6. B = [x \in DOMAIN B |-> B[x]]
    BY <2>1 DEF ContentsOf
  <2>7. B = [x \in DOMAIN A \ {s} |-> A[x]]
    BY <2>4, <2>5, <2>6
  <2> QED
    BY <1>1, <2>1, <2>4, <2>7, Zenon
<1> QED
  BY <1>4, <1>5, Zenon

\* B is A with v for s.
Swapped(A, B, s, v) ==
    /\ DOMAIN B = DOMAIN A /\ s \in DOMAIN A /\ B[s] = v
    /\ \A x \in DOMAIN A \ {s} : B[x] = A[x]

\* Swapping a named set with its second one changes the named one, at once.
LEMMA SwapContents ==
  ASSUME NEW S, NEW s, NEW t, s \in DOMAIN S, t \in DOMAIN S, s[1] = "set", t[1] # "set"
  PROVE  Swapped(ContentsOf(S), ContentsOf(ipsetSwap(S, s, t)), s, S[t])
<1>1. PICK T : T = ipsetSwap(S, s, t)
  BY Zenon
<1>2. s # t
  BY Zenon
<1>3. T = [S EXCEPT ![s] = S[t], ![t] = S[s]]
  BY <1>1, Zenon DEF ipsetSwap
<1>4. DOMAIN T = DOMAIN S /\ T[s] = S[t] /\ \A x \in DOMAIN S : x # s /\ x # t => T[x] = S[x]
  BY <1>2, <1>3
<1>5. PICK A, B : A = ContentsOf(S) /\ B = ContentsOf(T)
  BY Zenon
<1>6. /\ \A x : x \in DOMAIN A <=> x \in DOMAIN S /\ x[1] = "set"
      /\ \A x \in DOMAIN A : A[x] = S[x]
  BY <1>5, ContentsOfSets, Zenon
<1>7. /\ \A x : x \in DOMAIN B <=> x \in DOMAIN T /\ x[1] = "set"
      /\ \A x \in DOMAIN B : B[x] = T[x]
  BY <1>5, ContentsOfSets, Zenon
<1>8. DOMAIN B = DOMAIN A /\ s \in DOMAIN A /\ B[s] = S[t]
  BY <1>4, <1>6, <1>7, Zenon
<1>9. ASSUME NEW x \in DOMAIN A \ {s} PROVE B[x] = A[x]
  <2>1. x \in DOMAIN S /\ x[1] = "set" /\ A[x] = S[x] /\ x \in DOMAIN B /\ B[x] = T[x]
    BY <1>6, <1>7, <1>8, Zenon
  <2>2. x # t
    BY <2>1, Zenon
  <2> QED
    BY <1>4, <2>1, <2>2, Zenon
<1> QED
  BY <1>1, <1>5, <1>8, <1>9, Zenon DEF Swapped

\* What a command does to the sets that the chains see, in the terms of
\* AtomicSets.
SeesSame == ContentsOf(sets') = ContentsOf(sets)
SeesCreate(s) ==
    /\ s \in DOMAIN wanted /\ s \notin DOMAIN ContentsOf(sets)
    /\ ContentsOf(sets') = [x \in DOMAIN ContentsOf(sets) \cup {s} |->
                               IF x = s THEN {} ELSE ContentsOf(sets)[x]]
    /\ wanted' = wanted
SeesReplace(s) ==
    /\ s \in DOMAIN wanted /\ s \in DOMAIN ContentsOf(sets)
    /\ DOMAIN ContentsOf(sets') = DOMAIN ContentsOf(sets)
    /\ \A x \in DOMAIN ContentsOf(sets) \ {s} : ContentsOf(sets')[x] = ContentsOf(sets)[x]
    /\ wanted[s] \subseteq ContentsOf(sets')[s]
    /\ s \notin Torn => ContentsOf(sets')[s] = wanted[s]
    /\ wanted' = wanted
SeesDestroy(s) ==
    /\ s \in DOMAIN ContentsOf(sets) /\ s \notin DOMAIN wanted
    /\ ContentsOf(sets') = [x \in DOMAIN ContentsOf(sets) \ {s} |-> ContentsOf(sets)[x]]
    /\ wanted' = wanted

\* Refresh swaps a set only for one that holds all that is wanted in it.
LEMMA SwapReplaces ==
  ASSUME IInv, Command, phase = "policies", Head(todo).op = "swap"
  PROVE  SeesReplace(Head(todo).on)
<1>1. /\ todo # <<>> /\ sets' = ExecSets(sets, Head(todo)) /\ wanted' = wanted
  BY Zenon DEF Command, Execute
<1>2. IsSeq(todo) /\ Filling(todo, infos, sets, wanted) /\ Steps(todo, infos)
  BY Zenon DEF IInv, PhaseInv, Left, Filling
<1>3. PICK c, s, t : c = Head(todo) /\ s = c.on /\ t = c.arg
  BY Zenon
<1>4. 1 \in DOMAIN todo /\ c = todo[1]
  BY <1>1, <1>2, <1>3, TailPart, Zenon
<1>5. \A j \in DOMAIN todo : ~ (j < 1)
  BY <1>2, Positions
<1>6. c.op = "swap" /\ Inside(c, infos)
  <2>1. todo[1].op \in {"add", "swap", "destroy"}
    BY <1>3, <1>4, Zenon
  <2> QED
    BY <1>2, <1>3, <1>4, <2>1, InRefresh, Zenon
<1>7. SetOf(c) = s /\ SecondSet(c) = t
  BY <1>3, <1>6, Zenon DEF SetOf, SecondSet
<1>8. s[1] = "set" /\ t = TempName(s)
  BY <1>6, <1>7, Zenon DEF Inside
<1>9. t[1] # "set"
  BY <1>8 DEF TempName
<1>10. Filled(todo, 1, infos, sets, wanted)
  BY <1>2, <1>4, Zenon DEF Filling
<1>11. t \in DOMAIN sets
  BY <1>4, <1>5, <1>6, <1>7, <1>8, <1>10, Zenon DEF Filled, Creates
<1>12. /\ \A e \in Content(infos, s) : e \in sets[t]
       /\ s \in DOMAIN sets /\ s \in DOMAIN wanted /\ wanted[s] \subseteq Content(infos, s)
  BY <1>3, <1>4, <1>5, <1>6, <1>8, <1>10, Zenon DEF Filled, Adds, Makes, Holds
<1>13. wanted[s] \subseteq sets[t]
  BY <1>12, Zenon
<1>14. ExecSets(sets, c) = ipsetSwap(sets, s, t)
  BY <1>3, <1>6 DEF ExecSets
<1>15. PICK A, B : A = ContentsOf(sets) /\ B = ContentsOf(ipsetSwap(sets, s, t))
  BY Zenon
<1>16. /\ DOMAIN B = DOMAIN A /\ s \in DOMAIN A /\ B[s] = sets[t]
       /\ \A x \in DOMAIN A \ {s} : B[x] = A[x]
  <2>1. Swapped(ContentsOf(sets), ContentsOf(ipsetSwap(sets, s, t)), s, sets[t])
    BY <1>8, <1>9, <1>11, <1>12, SwapContents, Zenon
  <2> QED
    BY <1>15, <2>1, Zenon DEF Swapped
<1>17. B = ContentsOf(sets')
  BY <1>1, <1>3, <1>14, <1>15, Zenon
<1>18. s \notin Torn => B[s] = wanted[s]
  <2>1. s \notin Torn => sets[t] \subseteq wanted[s]
    BY <1>8, <1>11, <1>12, Zenon DEF Torn
  <2> QED
    BY <1>13, <1>16, <2>1, Zenon
<1>19. SeesReplace(s)
  BY <1>1, <1>12, <1>13, <1>15, <1>16, <1>17, <1>18, Zenon DEF SeesReplace
<1> QED
  BY <1>3, <1>19, Zenon

\* An add of a Refresh goes to a second set, which no chain sees.
LEMMA AddContents ==
  ASSUME NEW S, NEW s, NEW e, s[1] # "set"
  PROVE  ContentsOf(ipsetAdd(S, s, e)) = ContentsOf(S)
<1>1. PICK T, v : T = ipsetAdd(S, s, e) /\ v = S[s] \cup {e}
  BY Zenon
<1>2. T = [S EXCEPT ![s] = v]
  BY <1>1, Zenon DEF ipsetAdd
<1>3. DOMAIN T = DOMAIN S /\ \A x \in DOMAIN S : x # s => T[x] = S[x]
  BY <1>2, ExceptDomain, Zenon
<1>4. ContentsOf(T) = ContentsOf(S)
  BY <1>3, ContentsSame, Zenon
<1> QED
  BY <1>1, <1>4, Zenon

\* What a packet can see of the sets before and after one command.
LEMMA CommandSees ==
  ASSUME IInv, Command
  PROVE  SeesSame \/ \E s : SeesCreate(s) \/ SeesReplace(s) \/ SeesDestroy(s)
<1>1. /\ todo # <<>> /\ sets' = ExecSets(sets, Head(todo)) /\ wanted' = wanted
  BY Zenon DEF Command, Execute
<1>2. IsSeq(todo) /\ phase \in {"policies", "ingress", "egress", "cleanup", "unlisted"}
  BY <1>1 DEF IInv, PhaseInv
<1>3. PICK c : c = Head(todo)
  BY Zenon
<1>4. 1 \in DOMAIN todo /\ c = todo[1] /\ c \in Range(todo)
  BY <1>1, <1>2, <1>3, TailPart, Zenon DEF Range
<1>5. sets' = ExecSets(sets, c)
  BY <1>1, <1>3, Zenon
<1>6. CASE c.op \notin {"create", "add", "swap", "destroy"}
  <2>1. sets' = sets
    BY <1>5, <1>6 DEF ExecSets
  <2> QED
    BY <2>1, Zenon DEF SeesSame
<1>7. CASE c.op = "create"
  <2>1. phase = "policies"
    <3>1. phase \in {"ingress", "egress"} => c.op \in {"insert", "append", "newchain"}
      BY <1>4, Zenon DEF IInv, Left, FwList, FwCommand
    <3>2. phase \in {"cleanup", "unlisted"} => c.op \in {"delete", "clear", "delchain", "destroy"}
      BY <1>4, Zenon DEF IInv, Left, Sweeping, SweepList, Sweeps
    <3> QED
      BY <1>2, <1>7, <3>1, <3>2
  <2>2. Filled(todo, 1, infos, sets, wanted) /\ Step(c, infos)
    BY <1>4, <2>1, Zenon DEF IInv, Left, Filling, Steps
  <2>3. sets' = ipsetCreate(sets, c.on)
    BY <1>5, <1>7 DEF ExecSets
  <2>4. \/ SeesSame
        \/ /\ c.on \notin DOMAIN ContentsOf(sets) /\ c.on[1] = "set"
           /\ ContentsOf(sets') = [x \in DOMAIN ContentsOf(sets) \cup {c.on} |->
                                      IF x = c.on THEN {} ELSE ContentsOf(sets)[x]]
    <3>1. PICK S, s : S = sets /\ s = c.on
      BY Zenon
    <3>2. \/ ContentsOf(ipsetCreate(S, s)) = ContentsOf(S)
          \/ /\ s \notin DOMAIN ContentsOf(S) /\ s[1] = "set"
             /\ ContentsOf(ipsetCreate(S, s)) =
                   [x \in DOMAIN ContentsOf(S) \cup {s} |-> IF x = s THEN {} ELSE ContentsOf(S)[x]]
      BY CreateContents, Zenon
    <3> QED
      BY <2>3, <3>1, <3>2, Zenon DEF SeesSame
  <2>5. c.on[1] = "set" => c.skip = 0
    <3>1. SUFFICES ASSUME c.skip # 0 PROVE c.on[1] # "set"
      BY Zenon
    <3>2. c.op # "swap"
      BY <1>7
    <3>3. c.on = TempName(SetOf(c))
      BY <2>2, <3>1, <3>2, Zenon DEF Step, Inside, SecondSet
    <3> QED
      BY <3>3 DEF TempName
  <2>6. c.on[1] = "set" => c.on \in DOMAIN wanted
    BY <1>4, <1>7, <2>2, <2>5, Zenon DEF Filled
  <2>7. SeesSame \/ SeesCreate(c.on)
    BY <1>1, <2>4, <2>6, Zenon DEF SeesCreate
  <2> QED
    BY <2>7, Zenon
<1>8. CASE c.op \in {"add", "swap"}
  <2>1. phase = "policies"
    <3>1. phase \in {"ingress", "egress"} => c.op \in {"insert", "append", "newchain"}
      BY <1>4, Zenon DEF IInv, Left, FwList, FwCommand
    <3>2. phase \in {"cleanup", "unlisted"} => c.op \in {"delete", "clear", "delchain", "destroy"}
      BY <1>4, Zenon DEF IInv, Left, Sweeping, SweepList, Sweeps
    <3> QED
      BY <1>2, <1>8, <3>1, <3>2
  <2>2. CASE c.op = "swap"
    <3>1. SeesReplace(Head(todo).on)
      BY <1>3, <2>1, <2>2, SwapReplaces, Zenon
    <3> QED
      BY <3>1, Zenon
  <2>3. CASE c.op = "add"
    <3>1. Steps(todo, infos)
      BY <2>1, Zenon DEF IInv, Left, Filling
    <3>2. todo[1].op \in {"add", "swap", "destroy"}
      BY <1>4, <2>3, Zenon
    <3>3. Inside(c, infos)
      BY <1>4, <3>1, <3>2, InRefresh, Zenon
    <3>4. c.op # "swap"
      BY <2>3
    <3>5. c.on = TempName(SetOf(c))
      BY <3>3, <3>4, Zenon DEF Inside, SecondSet
    <3>6. c.on[1] # "set"
      BY <3>5 DEF TempName
    <3>7. sets' = ipsetAdd(sets, c.on, c.arg)
      BY <1>5, <2>3 DEF ExecSets
    <3>8. ContentsOf(ipsetAdd(sets, c.on, c.arg)) = ContentsOf(sets)
      BY <3>6, AddContents, Zenon
    <3> QED
      BY <3>7, <3>8, Zenon DEF SeesSame
  <2> QED
    BY <1>8, <2>2, <2>3, Zenon
<1>9. CASE c.op = "destroy"
  <2>1. c.on \notin DOMAIN wanted
    BY <1>1, <1>3, <1>9, HeadIsTame, Zenon
  <2>2. sets' = ipsetDestroy(sets, c.on)
    BY <1>5, <1>9 DEF ExecSets
  <2>3. \/ SeesSame
        \/ /\ c.on \in DOMAIN ContentsOf(sets)
           /\ ContentsOf(sets') = [x \in DOMAIN ContentsOf(sets) \ {c.on} |-> ContentsOf(sets)[x]]
    <3>1. PICK S, s : S = sets /\ s = c.on
      BY Zenon
    <3>2. \/ ContentsOf(ipsetDestroy(S, s)) = ContentsOf(S)
          \/ /\ s \in DOMAIN ContentsOf(S)
             /\ ContentsOf(ipsetDestroy(S, s)) = [x \in DOMAIN ContentsOf(S) \ {s} |-> ContentsOf(S)[x]]
      BY DestroyContents, Zenon
    <3> QED
      BY <2>2, <3>1, <3>2, Zenon DEF SeesSame
  <2>4. SeesSame \/ SeesDestroy(c.on)
    BY <1>1, <2>1, <2>3, Zenon DEF SeesDestroy
  <2> QED
    BY <2>4, Zenon
<1> QED
  BY <1>6, <1>7, <1>8, <1>9, Zenon

\* Every step of the controller, seen through the chains, is one of AtomicSets.
LEMMA StepIsAtomic ==
  ASSUME IInv, [Next]_vars
  PROVE  Atomic!Next
<1>1. ContentsOf(sets) = [s \in Live |-> sets[s]] /\ (ContentsOf(sets))' = [s \in Live |-> sets[s]]'
  BY Zenon DEF ContentsOf, Live
<1>2. ASSUME SeesSame PROVE Atomic!Next
  BY <1>1, <1>2, Zenon DEF SeesSame, Atomic!Next, Atomic!Want
<1>3. ASSUME NEW s, SeesCreate(s) PROVE Atomic!Next
  <2>1. s \in DOMAIN ContentsOf(sets) \cup DOMAIN wanted
    BY <1>3, Zenon DEF SeesCreate
  <2>2. Atomic!Create(s)
    BY <1>1, <1>3, Zenon DEF SeesCreate, Atomic!Create
  <2> QED
    BY <1>1, <2>1, <2>2, Zenon DEF Atomic!Next
<1>4. ASSUME NEW s, SeesReplace(s) PROVE Atomic!Next
  <2>1. s \in DOMAIN ContentsOf(sets) \cup DOMAIN wanted
    BY <1>4, Zenon DEF SeesReplace
  <2>2. Atomic!Replace(s)
    BY <1>1, <1>4, Zenon DEF SeesReplace, Torn, Atomic!Replace
  <2> QED
    BY <1>1, <2>1, <2>2, Zenon DEF Atomic!Next
<1>5. ASSUME NEW s, SeesDestroy(s) PROVE Atomic!Next
  <2>1. s \in DOMAIN ContentsOf(sets) \cup DOMAIN wanted
    BY <1>5, Zenon DEF SeesDestroy
  <2>2. Atomic!Destroy(s)
    BY <1>1, <1>5, Zenon DEF SeesDestroy, Atomic!Destroy
  <2> QED
    BY <1>1, <2>1, <2>2, Zenon DEF Atomic!Next
<1>6. CASE Command
  BY <1>2, <1>3, <1>4, <1>5, <1>6, CommandSees, Zenon
<1>7. CASE sets' = sets
  BY <1>2, <1>7, Zenon DEF SeesSame
<1>8. Command \/ sets' = sets
  <2>1. BeginSync => sets' = sets
    BY Zenon DEF BeginSync, kernel
  <2>2. Sync => Command \/ sets' = sets
    BY <2>1, Zenon DEF Sync, RunSync, OnUpdate, CommandFails, Firewalls, CleanUp,
      CleanUpUnlisted, SyncDone, kernel
  <2>3. Start \/ Crash => sets' = sets
    BY Zenon DEF Start, Crash, kernel
  <2>4. Change => sets' = sets
    BY Zenon DEF Change, kernel
  <2>5. UNCHANGED vars => sets' = sets
    BY Zenon DEF vars, kernel
  <2> QED
    BY <2>2, <2>3, <2>4, <2>5, Zenon DEF Next, PodChanges, PolicyChanges, NamespaceChanges
<1> QED
  BY <1>6, <1>7, <1>8, Zenon

\* WholeSets: as the chains see them, the ipsets of the controller are created
\* empty, replaced as a whole by what is wanted and destroyed when unwanted,
\* whatever fails inside Refresh and wherever the agent ends.
THEOREM WholeSetsHolds == Spec => WholeSets
<1>1. Init => Atomic!Init
  <2> SUFFICES ASSUME Init PROVE Atomic!Init
    BY Zenon
  <2>1. PICK E : E = <<>>
    BY Zenon
  <2>2. DOMAIN E = {}
    BY <2>1
  <2>3. sets = E /\ wanted = E
    BY <2>1, Zenon DEF Init
  <2>4. Live = {}
    BY <2>2, <2>3, Zenon DEF Live
  <2>5. [s \in Live |-> sets[s]] = E
    <3>1. PICK f : f = [s \in Live |-> sets[s]]
      BY Zenon
    <3>2. DOMAIN f = {} /\ f = [s \in {} |-> f[s]]
      BY <2>4, <3>1, Zenon
    <3>3. f = <<>>
      BY <3>2
    <3> QED
      BY <2>1, <3>1, <3>3, Zenon
  <2>6. {s \in DOMAIN wanted : /\ TempName(s) \in DOMAIN sets
                               /\ ~ sets[TempName(s)] \subseteq wanted[s]} = {}
    BY <2>2, <2>3, Zenon
  <2> QED
    BY <2>1, <2>5, <2>6, Zenon DEF Atomic!Init
<1>2. IInv /\ [Next]_vars => Atomic!Next
  BY StepIsAtomic, Zenon
<1> QED
  BY <1>1, <1>2, InvariantHolds, PTL DEF Spec, WholeSets, Atomic!Spec

=============================================================================
