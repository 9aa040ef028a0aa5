------------------------------ MODULE NodeHosts ------------------------------
(***************************************************************************)
(* The names of the nodes in CoreDNS (pkg/node): the controller keeps a    *)
(* line for each node in the hosts of the coredns ConfigMap.               *)
(*                                                                         *)
(* Nodes are handled at the same time, one worker to a node.  All of them  *)
(* write the one ConfigMap, from a cache that lags behind, and each its    *)
(* node, from another one; a write of an outdated copy is refused.  A node *)
(* that is deleted stays until the finalizers of the controllers are off,  *)
(* this one's and, on servers with etcd, that of the etcd controller.      *)
(***************************************************************************)
EXTENDS Integers, FiniteSets

CONSTANTS Nodes, IPs,
          NoIP,       \* no address, or no line
          MaxChanges  \* bound on how often nodes come, go or report their status

VARIABLES config,  \* the ConfigMap: whether it is there, and its lines, node -> address
          cache,   \* what the informer has delivered of it
          stale,   \* whether that is out of date
          node,    \* node -> its state, its address and whether it has the finalizers
          seen,    \* node -> what the informer has delivered of it
          lag,     \* the nodes of which that is out of date
          queue,   \* nodes to be handled
          worker,  \* node -> the worker that handles it
          held,    \* whether the etcd controller has a finalizer on nodes as well
          escaped, \* nodes deleted without the finalizer, or with a line written
                   \*   after it was off
          changes

vars == <<config, cache, stale, node, seen, lag, queue, worker, held, escaped, changes>>

FirstIP == CHOOSE ip \in IPs : TRUE
Idle == [pc |-> "idle"]
Absent == [st |-> "absent", ip |-> NoIP, fin |-> FALSE, etcd |-> FALSE]

\* A new cluster, or one whose nodes have their lines and finalizers, in which the
\* controller is started again: the informer delivers the nodes there are.
Init ==
    /\ held \in BOOLEAN
    /\ \E there \in BOOLEAN :
          /\ config = [there |-> there, hosts |-> IF there THEN [n \in Nodes |-> FirstIP] ELSE [n \in Nodes |-> NoIP]]
          /\ node = [n \in Nodes |-> IF there THEN [st |-> "here", ip |-> FirstIP, fin |-> TRUE, etcd |-> held] ELSE Absent]
    /\ cache = config /\ stale = FALSE
    /\ seen = node /\ lag = {}
    /\ queue = {n \in Nodes : node[n] # Absent}
    /\ worker = [n \in Nodes |-> Idle]
    /\ escaped = {}
    /\ changes = 0
-----------------------------------------------------------------------------
(* A worker                                                                *)

\* updateHosts, up to the Update: what to write, if anything.
updateHosts(ip, n, removed) ==
    LET nothing == ip = NoIP \/ ~ cache.there \/ (~ removed /\ cache.hosts[n] = ip)
    IN IF nothing THEN {}
       ELSE {[hosts |-> [cache.hosts EXCEPT ![n] = IF removed THEN NoIP ELSE ip], stale |-> stale]}

\* The queue's worker takes the node as the informer has it, and onChange runs:
\* for one that is being deleted too.
onChange(n) ==
    /\ n \in queue /\ worker[n] = Idle
    /\ queue' = queue \ {n}
    /\ worker' = [worker EXCEPT ![n] =
           IF seen[n].st = "absent" THEN Idle
           ELSE [pc |-> "change", obj |-> seen[n], old |-> n \in lag, todo |-> updateHosts(seen[n].ip, n, FALSE)]]
    /\ UNCHANGED <<config, cache, stale, node, seen, lag, held, escaped, changes>>

\* The write is refused if the ConfigMap has changed since the cache had it.
UpdateOK(n) == \A w \in worker[n].todo : ~ w.stale
Outdated(ws) ==
    [m \in Nodes |-> IF ws[m].pc \notin {"change", "remove"} THEN ws[m]
                     ELSE [ws[m] EXCEPT !.todo = {[w EXCEPT !.stale = TRUE] : w \in @}]]

\* Update of the ConfigMap; the worker goes on to next.
Update(n, next) ==
    IF worker[n].todo = {} \/ ~ UpdateOK(n)
    THEN worker' = [worker EXCEPT ![n] = next] /\ UNCHANGED <<config, stale>>
    ELSE /\ config' = [config EXCEPT !.hosts = (CHOOSE w \in worker[n].todo : TRUE).hosts]
         /\ stale' = TRUE
         /\ worker' = [Outdated(worker) EXCEPT ![n] = next]

\* An error puts the node back into the queue; the handlers that come after
\* are called all the same.
Changed(n) ==
    /\ worker[n].pc = "change"
    /\ Update(n, [pc |-> "lifecycle", obj |-> worker[n].obj, old |-> worker[n].old])
    /\ queue' = IF UpdateOK(n) THEN queue ELSE queue \union {n}
    /\ escaped' = IF config' # config /\ node[n].st # "here" /\ ~ node[n].fin THEN escaped \union {n} ELSE escaped
    /\ UNCHANGED <<cache, node, seen, lag, held, changes>>

\* A write of the node, which outdates the informer's copy of it.
Written(n, new) == node' = [node EXCEPT ![n] = new] /\ lag' = lag \union {n}
Without(obj) == IF obj.fin \/ obj.etcd THEN obj ELSE Absent

\* The wrapper of onRemove: a node that is not being deleted gets the
\* finalizer, one that is goes to onRemove if it has it.
Lifecycle(n) ==
    /\ worker[n].pc = "lifecycle"
    /\ LET obj == worker[n].obj IN
       \/ /\ obj.st = "here" /\ ~ obj.fin
          /\ IF worker[n].old THEN queue' = queue \union {n} /\ UNCHANGED <<node, lag>>
             ELSE Written(n, [node[n] EXCEPT !.fin = TRUE]) /\ UNCHANGED queue
          /\ worker' = [worker EXCEPT ![n] = Idle]
       \/ /\ IF obj.st = "here" THEN obj.fin ELSE ~ obj.fin
          /\ worker' = [worker EXCEPT ![n] = Idle]
          /\ UNCHANGED <<node, lag, queue>>
       \/ /\ obj.st = "leaving" /\ obj.fin
          /\ worker' = [worker EXCEPT ![n] = [pc |-> "remove", old |-> worker[n].old,
                                              todo |-> updateHosts(obj.ip, n, TRUE)]]
          /\ UNCHANGED <<node, lag, queue>>
    /\ UNCHANGED <<config, cache, stale, seen, held, escaped, changes>>

\* onRemove that gives up on a refused write.
onRemoveOnce(n) ==
    /\ worker[n].pc = "remove"
    /\ Update(n, [pc |-> "release", old |-> worker[n].old])
    /\ UNCHANGED <<cache, node, seen, lag, queue, held, escaped, changes>>

onRemove(n) ==
    /\ worker[n].pc = "remove"
    /\ Update(n, IF UpdateOK(n) THEN [pc |-> "release", old |-> worker[n].old] ELSE Idle)
    /\ queue' = IF UpdateOK(n) THEN queue ELSE queue \union {n}
    /\ UNCHANGED <<cache, node, seen, lag, held, escaped, changes>>

\* The finalizer comes off, and with the last one the node goes.  The write is
\* refused if the node has changed since the informer had it.
Release(n) ==
    /\ worker[n].pc = "release"
    /\ worker' = [worker EXCEPT ![n] = Idle]
    /\ IF worker[n].old THEN queue' = queue \union {n} /\ UNCHANGED <<node, lag>>
       ELSE Written(n, Without([node[n] EXCEPT !.fin = FALSE])) /\ UNCHANGED queue
    /\ UNCHANGED <<config, cache, stale, seen, held, escaped, changes>>
-----------------------------------------------------------------------------
(* The cluster                                                             *)

Sync ==
    /\ stale
    /\ stale' = FALSE
    /\ cache' = config
    /\ UNCHANGED <<config, node, seen, lag, queue, worker, held, escaped, changes>>

\* The informer of nodes delivers, and the node is put into the queue.
SyncNode(n) ==
    /\ n \in lag
    /\ lag' = lag \ {n}
    /\ seen' = [seen EXCEPT ![n] = node[n]]
    /\ queue' = queue \union {n}
    /\ UNCHANGED <<config, cache, stale, node, worker, held, escaped, changes>>

\* The coredns addon is deployed, maybe after the first nodes are there.
CreateConfig ==
    /\ ~ config.there
    /\ config' = [config EXCEPT !.there = TRUE]
    /\ stale' = TRUE
    /\ UNCHANGED <<cache, node, seen, lag, queue, worker, held, escaped, changes>>

\* Someone else writes the node: the copy that its worker has is outdated too.
WrittenByOther(n, new) ==
    /\ Written(n, new)
    /\ worker' = IF worker[n] = Idle THEN worker ELSE [worker EXCEPT ![n].old = TRUE]

\* The kubelet reports the status of its node every few minutes.  Here, where the
\* line is not right; other reports are among the changes.
Heartbeat(n) ==
    /\ node[n].st = "here" /\ n \notin queue /\ n \notin lag
    /\ cache.there /\ cache.hosts[n] # node[n].ip
    /\ WrittenByOther(n, node[n])
    /\ UNCHANGED <<config, cache, stale, seen, queue, held, escaped, changes>>

\* A node joins, reports its status, perhaps with another address, or is deleted.
ChangeNode(n) ==
    /\ changes < MaxChanges
    /\ changes' = changes + 1
    /\ \/ /\ node[n].st = "absent"
          /\ \E ip \in IPs : WrittenByOther(n, [st |-> "here", ip |-> ip, fin |-> FALSE, etcd |-> held])
          /\ escaped' = escaped \ {n}
       \/ /\ node[n].st # "absent"
          /\ \E ip \in IPs : WrittenByOther(n, [node[n] EXCEPT !.ip = ip])
          /\ UNCHANGED escaped
       \/ /\ node[n].st = "here"
          /\ WrittenByOther(n, Without([node[n] EXCEPT !.st = "leaving"]))
          /\ escaped' = IF node[n].fin THEN escaped ELSE escaped \union {n}
    /\ UNCHANGED <<config, cache, stale, seen, queue, held>>

\* The etcd controller takes its finalizer off.
EtcdReleases(n) ==
    /\ node[n].st = "leaving" /\ node[n].etcd
    /\ WrittenByOther(n, Without([node[n] EXCEPT !.etcd = FALSE]))
    /\ UNCHANGED <<config, cache, stale, seen, queue, held, escaped, changes>>

Handle(n) == onChange(n) \/ Changed(n) \/ Lifecycle(n) \/ onRemove(n) \/ Release(n)

Next ==
    \/ Sync \/ CreateConfig
    \/ \E n \in Nodes : Handle(n) \/ SyncNode(n) \/ Heartbeat(n) \/ ChangeNode(n) \/ EtcdReleases(n)

Spec == Init /\ [][Next]_vars

\* The queue is worked off, the watches deliver, kubelets report.
Fairness ==
    /\ WF_vars(Sync)
    /\ \A n \in Nodes : WF_vars(Handle(n)) /\ WF_vars(SyncNode(n)) /\ WF_vars(Heartbeat(n))
FairSpec == Spec /\ Fairness
-----------------------------------------------------------------------------
(* Properties                                                              *)

\* In the end CoreDNS has the address of every node, also if the ConfigMap came
\* later than the node or the node has changed its address, and has none for a
\* node that is gone, whichever writes were refused.  The exceptions are a node
\* deleted before it had the finalizer, and one whose line was written after
\* onRemove and the finalizer: onChange writes the line of a node that is being
\* deleted, for which the etcd controller may keep it or the informer's copy
\* still be there (onChange, onRemove).
HostsRight ==
    <>[](config.there =>
            \A n \in Nodes :
               /\ node[n].st = "here" => config.hosts[n] = node[n].ip
               /\ node[n].st = "absent" /\ n \notin escaped => config.hosts[n] = NoIP)
=============================================================================
