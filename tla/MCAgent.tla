------------------------------ MODULE MCAgent -------------------------------
(***************************************************************************)
(* Agents that join (NodeJoin) and one that then follows the servers       *)
(* (AgentTunnel).  The two share no state, so a behaviour is one of the    *)
(* module in focus, and the other stays as it begins.                      *)
(*                                                                         *)
(* NodeJoin has two agents: of two names or of one, with and without a     *)
(* node id, one of them of an older version, one with a token for another  *)
(* cluster.  AgentTunnel has two servers.                                  *)
(***************************************************************************)
EXTENDS NodeJoin, TLC

CONSTANTS a1, a2, OtherCA

VARIABLES focus,
    tHistory, tDead, tEnabled, tAddresses, tApiLB, tSupLB, tSetup, tWatch, tDisconnect, tUp, tFirst, tFailures

tVars == <<tHistory, tDead, tEnabled, tAddresses, tApiLB, tSupLB, tSetup, tWatch, tDisconnect, tUp, tFirst, tFailures>>

MCAgents == {a1, a2}
JoinSetup(h2, withID, olds, pin2) ==
    [host |-> (a1 :> "h1") @@ (a2 :> h2), withID |-> withID, old |-> olds,
     token |-> (a1 :> [pin |-> None, pass |-> AgentToken]) @@ (a2 :> [pin |-> pin2, pass |-> AgentToken])]
MCSetups ==
    { JoinSetup("h2", {}, {a1}, ServerCA), JoinSetup("h1", {}, {}, ServerCA),
      JoinSetup("h1", {a2}, {a1}, None), JoinSetup("h2", {}, {}, OtherCA) }

Hosts == {"h1", "h2"}
Tunnel == INSTANCE AgentTunnel WITH URLHost <- "h1", MaxChanges <- 2, MaxFailures <- 1,
    history <- tHistory, dead <- tDead, apiServerEnabled <- tEnabled, supervisorAddresses <- tAddresses,
    apiServerLB <- tApiLB, supervisorLB <- tSupLB, setup <- tSetup, watch <- tWatch,
    disconnect <- tDisconnect, up <- tUp, first <- tFirst, failures <- tFailures

runVars == <<focus, vars, tVars>>

RunInit ==
    /\ focus \in {"join", "tunnel"}
    /\ Init
    /\ focus # "join" => setup = JoinSetup("h1", {}, {}, ServerCA)
    /\ Tunnel!Init
    /\ focus # "tunnel" => tHistory = <<{}>> /\ tEnabled /\ tApiLB = {Tunnel!Address("h1", "api")}

RunNext ==
    /\ UNCHANGED focus
    /\ \/ focus = "join" /\ Next /\ UNCHANGED tVars
       \/ focus = "tunnel" /\ Tunnel!Next /\ UNCHANGED vars

\* The fairness of each module, where it is in focus.
Fairness ==
    /\ \A a \in Agents :
          SF_vars(focus = "join" /\ (Fetch(a) \/ Upgrade(a) \/ EnsureNodeID(a) \/ EnsureNodePassword(a)
                                    \/ \E s \in Slots : Ask(a, s)))
    /\ \A s \in Slots : WF_vars(focus = "join" /\ Handle(s))
    /\ WF_tVars(focus = "tunnel" /\ Tunnel!SetupGet)
    /\ WF_tVars(focus = "tunnel" /\ Tunnel!SetupConnect)
    /\ WF_tVars(focus = "tunnel" /\ Tunnel!SetupReturns)
    /\ WF_tVars(focus = "tunnel" /\ Tunnel!Watch)
    /\ WF_tVars(focus = "tunnel" /\ Tunnel!WatchEvent)
    /\ \A a \in Tunnel!Addresses(Hosts, "supervisor") :
          WF_tVars(focus = "tunnel" /\ Tunnel!Connected(a)) /\ WF_tVars(focus = "tunnel" /\ Tunnel!Canceled(a))

RunSpec == RunInit /\ [][RunNext]_runVars /\ Fairness
-----------------------------------------------------------------------------
(* The properties of the modules; OneOwner and NeverLockedOut are those of *)
(* NodeJoin                                                                *)

\* An agent with a name of its own gets all it asks for in the end (Get in
\* pkg/agent/config).
AgentJoins == focus = "join" => Joins

\* The tunnels follow the endpoints in the end (Setup).
TunnelsConverge == focus = "tunnel" => Tunnel!TunnelsConverge

\* The load balancers follow the endpoints in the end (Setup, Update).
LoadBalancersConverge == focus = "tunnel" => Tunnel!LoadBalancersConverge

\* Setup returns, if the servers it is to reach can be reached.
SetupCompletes == focus = "tunnel" => Tunnel!SetupCompletes
=============================================================================
