--------------------------- MODULE MCNetworkPolicy ---------------------------
(***************************************************************************)
(* An instance of NetworkPolicy for TLC: pods a and b on the node, c       *)
(* elsewhere in another namespace, and addresses outside the cluster.      *)
(***************************************************************************)
EXTENDS NetworkPolicy, TLC

CONSTANTS a, b, c, p1, p2, n1, n2, ia, ib, ic, e1, e2, e3

MCPods == {a, b, c}
MCAddresses == {ia, ib, ic, e1, e2, e3}
MCNamespaceOf == (a :> n1) @@ (b :> n1) @@ (c :> n2) @@ (p1 :> n1) @@ (p2 :> n1)
MCNamedPorts == (a :> {<<"http", 80>>}) @@ (b :> {<<"http", 80>>}) @@ (c :> {<<"http", 81>>})
MCHalves == {{ia, ib, ic}, {e1, e2, e3}}

Pod(ip, label) == [ip |-> ip, label |-> label]
MCPodStates == {Pod(ip, label) : ip \in {NoIP, ib}, label \in {"web", "db"}}
MCInitPods == (a :> Pod(ia, "web")) @@ (b :> Pod(NoIP, "db")) @@ (c :> Pod(ic, "db"))
MCInitNs == (n1 :> "db") @@ (n2 :> "db")

Number(n) == [name |-> Nil, number |-> n]
Name(n) == [name |-> n, number |-> Nil]
Sel(labels) == [labels |-> labels, exprs |-> Labels]
PodPeer(sel) == [ns |-> Nil, pod |-> sel, block |-> Nil]
NsPeer(ns, sel) == [ns |-> ns, pod |-> sel, block |-> Nil]
Block(cidr, except) == [ns |-> Nil, pod |-> Nil, block |-> [cidr |-> cidr, except |-> except]]
RuleSpec(peers, ports) == [peers |-> peers, ports |-> ports]

\* Pods of the own namespace on a port, pods of other namespaces on a named one.
WebPolicy == [sel |-> Sel({"web"}), types |-> {}, egress |-> Nil,
    ingress |-> <<RuleSpec({PodPeer(Sel({"db"}))}, {Number(80)}),
                  RuleSpec({NsPeer(Sel({"db"}), Nil)}, {Name("http")})>>]
\* An address block with an exception, everyone on one port, and egress to
\* the pods of a namespace on their named port.
BlockPolicy == [sel |-> Sel({"web", "db"}), types |-> {"ingress", "egress"},
    ingress |-> <<RuleSpec({Block(MCAddresses, {{e2, e3}})}, {Number(81)})>>,
    egress |-> <<RuleSpec({NsPeer(Sel({"db"}), Sel({"db"}))}, {Name("http")}),
                 RuleSpec({}, {Number(80)})>>]
\* Nothing in, everything to a block out.
DenyPolicy == [sel |-> Sel({"web"}), types |-> {"ingress", "egress"}, ingress |-> <<>>,
    egress |-> <<RuleSpec({Block({e1, e2, e3}, {{e2}, {e3}})}, {})>>]

\* A matchExpression that leaves out the pods with label web, and a named port
\* that no pod offers.
OddPolicy == [sel |-> [labels |-> {"web", "db"}, exprs |-> {"db"}], types |-> {}, egress |-> Nil,
    ingress |-> <<RuleSpec({PodPeer(Sel({"db"}))}, {Name("dns")})>>]

MCPolicySpecs == {WebPolicy, BlockPolicy, DenyPolicy, OddPolicy}
MCInitPolicies == (p1 :> WebPolicy) @@ (p2 :> Nil)

MCPackets ==
    {[src |-> s, dst |-> d, port |-> n, flags |-> {}] :
        s \in MCAddresses, d \in MCAddresses, n \in {80, 81}}
      \cup {[src |-> s, dst |-> ia, port |-> 80, flags |-> {"established"}] : s \in MCAddresses}

MCUnwanted == {pkt \in MCPackets : pkt.port = 81 /\ e2 \in {pkt.src, pkt.dst}}

=============================================================================
