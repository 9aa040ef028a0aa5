---------------------------- MODULE AgentTunnel -----------------------------
(***************************************************************************)
(* The agent follows the endpoints of the kubernetes service: Setup in     *)
(* pkg/agent/tunnel reads and watches them, keeps one tunnel to each       *)
(* server, and hands every list to the proxy (pkg/agent/proxy), which      *)
(* hands it to the load balancers.                                         *)
(*                                                                         *)
(* The API server keeps the addresses sorted, so a list is a set here. Of  *)
(* a load balancer only the server list matters (LoadBalancer has the      *)
(* rest): it is what Update was last given, unless that was empty.         *)
(***************************************************************************)
EXTENDS Naturals, Sequences

CONSTANTS
    Hosts,        \* hosts of servers
    URLHost,      \* the host in the URL the agent was given
    MaxChanges,   \* bound: changes of the endpoints
    MaxFailures   \* bound: ends of a watch, deaths of a host

VARIABLES
    history,              \* all values of the endpoints so far; the last is current
    dead,                 \* hosts that cannot be reached
    apiServerEnabled,     \* the API server has a port of its own
    supervisorAddresses,
    apiServerLB,          \* ServerAddresses of the two load balancers
    supervisorLB,
    setup,                \* where Setup is
    watch,                \* the position in history of the next event, 0: no watch
    disconnect,           \* the keys of the map: addresses with a tunnel goroutine
    up,                   \* those of them that are connected
    first,                \* what wg waits for: the tunnels Setup began with
    failures

server == <<history, dead>>
proxy == <<apiServerEnabled, supervisorAddresses, apiServerLB, supervisorLB>>
tunnels == <<disconnect, up, first>>
vars == <<server, proxy, tunnels, setup, watch, failures>>

AllHosts == Hosts \cup {URLHost}
Address(h, p) == [host |-> h, port |-> p]
Addresses(hs, p) == {Address(h, p) : h \in hs}

Current == history[Len(history)]
fallbackSupervisorAddress == Address(URLHost, "supervisor")

\* An agent that starts: the load balancers have what their files say.
Init ==
    /\ \E hs \in SUBSET Hosts : history = <<hs>>
    /\ dead = {}
    /\ apiServerEnabled \in BOOLEAN
    /\ supervisorAddresses = {}
    /\ \E hs \in SUBSET AllHosts \ {{}} :
        /\ apiServerLB = Addresses(hs, "api")
        /\ supervisorLB = Addresses(hs, "supervisor")
    /\ setup = "get"
    /\ watch = 0
    /\ disconnect = {}
    /\ up = {}
    /\ first = [a \in Addresses(AllHosts, "supervisor") |-> "none"]
    /\ failures = 0

-----------------------------------------------------------------------------
(* The proxy *)

\* The port in the endpoints is that of the API server.
getAddresses(hs) == Addresses(hs, IF apiServerEnabled THEN "api" ELSE "supervisor")

setSupervisorPort(as) == {Address(a.host, "supervisor") : a \in as}

SupervisorAddresses(as) == IF as # {} THEN as ELSE {fallbackSupervisorAddress}

\* Update; setServers of a load balancer ignores an empty list.
Update(as) ==
    LET sas == IF apiServerEnabled THEN setSupervisorPort(as) ELSE as IN
    /\ supervisorAddresses' = sas
    /\ apiServerLB' = IF apiServerEnabled /\ as # {} THEN as ELSE apiServerLB
    /\ supervisorLB' = IF sas # {} THEN sas ELSE supervisorLB
    /\ UNCHANGED apiServerEnabled

-----------------------------------------------------------------------------
(* Setup *)

\* Get returns the endpoints, or none when it fails: the object is never nil.
SetupGet ==
    /\ setup = "get"
    /\ \E hs \in {Current, {}} : Update(getAddresses(hs))
    /\ setup' = "connect"
    /\ UNCHANGED <<server, tunnels, watch, failures>>

\* A tunnel is begun to every address, and the watch after them.
SetupConnect ==
    /\ setup = "connect"
    /\ disconnect' = SupervisorAddresses(supervisorAddresses)
    /\ first' = [a \in DOMAIN first |-> IF a \in disconnect' THEN "waiting" ELSE "none"]
    /\ setup' = "wait"
    /\ UNCHANGED <<server, proxy, watch, up, failures>>

\* wg.Wait: each of the first tunnels has connected, or ended.
SetupReturns ==
    /\ setup = "wait"
    /\ \A a \in DOMAIN first : first[a] \in {"none", "done"}
    /\ setup' = "done"
    /\ UNCHANGED <<server, proxy, tunnels, watch, failures>>

\* Slip: the watch begins with the next change.
WatchFromNow ==
    /\ setup \in {"wait", "done"}
    /\ watch = 0
    /\ watch' = Len(history) + 1
    /\ UNCHANGED <<server, proxy, tunnels, setup, failures>>

\* The watch begins with the endpoints at any time: ResourceVersion "0" lets a
\* server answer from its cache.
Watch ==
    /\ setup \in {"wait", "done"}
    /\ watch = 0
    /\ watch' \in 1 .. Len(history)
    /\ UNCHANGED <<server, proxy, tunnels, setup, failures>>

\* The channel is closed or an error comes; the loop watches again.
WatchEnds ==
    /\ watch # 0
    /\ failures < MaxFailures
    /\ failures' = failures + 1
    /\ watch' = 0
    /\ UNCHANGED <<server, proxy, tunnels, setup>>

\* Tunnels to new addresses are begun, those to others are canceled.
Follow(as) ==
    /\ disconnect' = as
    /\ up' = up \cap as
    /\ first' = [a \in DOMAIN first |->
                    IF first[a] = "waiting" /\ a \notin as THEN "canceled" ELSE first[a]]

\* An event with the addresses known changes nothing; else the proxy is updated,
\* and the tunnels follow it.
WatchEvent ==
    /\ watch \in 1 .. Len(history)
    /\ watch' = watch + 1
    /\ LET newAddresses == getAddresses(history[watch]) IN
        IF newAddresses = SupervisorAddresses(supervisorAddresses)
          THEN UNCHANGED <<proxy, tunnels>>
          ELSE /\ Update(newAddresses)
               /\ Follow(SupervisorAddresses(supervisorAddresses'))
    /\ UNCHANGED <<server, setup, failures>>

-----------------------------------------------------------------------------
(* The goroutine of connect *)

\* ClientConnect connects, and the first time onConnect tells wg.
Connected(a) ==
    /\ a \in disconnect \ up
    /\ a.host \notin dead
    /\ up' = up \cup {a}
    /\ first' = [first EXCEPT ![a] = IF @ = "waiting" THEN "done" ELSE @]
    /\ UNCHANGED <<server, proxy, disconnect, setup, watch, failures>>

\* The session ends; the loop connects again.
Disconnected(a) ==
    /\ a \in up
    /\ failures < MaxFailures
    /\ failures' = failures + 1
    /\ up' = up \ {a}
    /\ UNCHANGED <<server, proxy, disconnect, first, setup, watch>>

\* Slip: the goroutine returns without telling wg.
CanceledSilently(a) ==
    /\ first[a] = "canceled"
    /\ UNCHANGED vars

\* The context is canceled, which is seen when ClientConnect returns.
Canceled(a) ==
    /\ first[a] = "canceled"
    /\ first' = [first EXCEPT ![a] = "done"]
    /\ UNCHANGED <<server, proxy, disconnect, up, setup, watch, failures>>

-----------------------------------------------------------------------------
(* The servers *)

\* A server comes or goes, or all have gone.
EndpointsChange ==
    /\ Len(history) <= MaxChanges
    /\ \E hs \in SUBSET Hosts \ {Current} : history' = Append(history, hs)
    /\ UNCHANGED <<dead, proxy, tunnels, setup, watch, failures>>

HostDies(h) ==
    /\ h \notin dead
    /\ failures < MaxFailures
    /\ failures' = failures + 1
    /\ dead' = dead \cup {h}
    /\ up' = {a \in up : a.host # h}
    /\ UNCHANGED <<history, proxy, disconnect, first, setup, watch>>

Goroutine(a) == Connected(a) \/ Canceled(a)

Next ==
    \/ SetupGet
    \/ SetupConnect
    \/ SetupReturns
    \/ Watch
    \/ WatchEnds
    \/ WatchEvent
    \/ EndpointsChange
    \/ \E h \in AllHosts : HostDies(h)
    \/ \E a \in DOMAIN first : Goroutine(a) \/ Disconnected(a)

Spec == Init /\ [][Next]_vars

\* Goroutines go on; a watch that is asked for is answered in the end, and its
\* events come; a server that can be reached lets an agent connect.
Fairness ==
    /\ WF_vars(SetupGet) /\ WF_vars(SetupConnect) /\ WF_vars(SetupReturns)
    /\ WF_vars(Watch) /\ WF_vars(WatchEvent)
    /\ \A a \in Addresses(AllHosts, "supervisor") : WF_vars(Connected(a)) /\ WF_vars(Canceled(a))

FairSpec == Spec /\ Fairness

-----------------------------------------------------------------------------

\* Types; tunnels and supervisor addresses have the supervisor's port.
TypeOK ==
    /\ Len(history) \in 1 .. MaxChanges + 1
    /\ \A i \in DOMAIN history : history[i] \subseteq Hosts
    /\ dead \subseteq AllHosts
    /\ apiServerEnabled \in BOOLEAN
    /\ supervisorAddresses \subseteq Addresses(Hosts, "supervisor")
    /\ apiServerLB \subseteq Addresses(AllHosts, "api")
    /\ supervisorLB \subseteq Addresses(AllHosts, "supervisor")
    /\ setup \in {"get", "connect", "wait", "done"}
    /\ watch \in 0 .. Len(history) + 1
    /\ disconnect \subseteq Addresses(AllHosts, "supervisor")
    /\ up \subseteq disconnect
    /\ first \in [Addresses(AllHosts, "supervisor") -> {"none", "waiting", "canceled", "done"}]
    /\ failures \in 0 .. MaxFailures

\* What the tunnels are to follow.
Wanted == SupervisorAddresses(Addresses(Current, "supervisor"))

\* When the endpoints change no more, the agent has in the end a tunnel to each
\* server that can be reached and to no other, whatever the watches missed or
\* repeated.
TunnelsConverge ==
    <>[](disconnect = Wanted /\ \A a \in Wanted : a.host \notin dead => a \in up)

\* When the endpoints change no more, both load balancers have in the end the
\* servers in them; but for an empty list, and for a list of the fallback
\* address alone, which Setup may take for one that it knows.
LoadBalancersConverge ==
    <>[](Current # {} /\ getAddresses(Current) # {fallbackSupervisorAddress} =>
            /\ supervisorLB = Addresses(Current, "supervisor")
            /\ apiServerEnabled => apiServerLB = Addresses(Current, "api"))

\* Setup, and so the start of the agent, waits for no server that is not in the
\* endpoints any more: it returns if in the end all that are wanted can be
\* reached.
SetupCompletes ==
    <>[](\A a \in Wanted : a.host \notin dead) => <>(setup = "done")

=============================================================================
