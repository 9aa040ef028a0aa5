# A TLA+ verification of k3s

This directory holds TLA+ models of the parts of k3s in which the order of
events matters, the TLC instances that check them, and theorems about them that
TLAPS proves for every value of the constants. The models are translated from
the Go code under `src/`. `PROJECT.json` maps every definition to its lines.

## The system

k3s is a Kubernetes distribution in one binary. A **server** runs the control
plane on a datastore (embedded etcd, or an external database behind kine). An
**agent** runs the kubelet, containerd and the pod network. The parts whose code
is in this repository, with their state and what is hard about them:

| Part | State | What is hard | Module |
|---|---|---|---|
| agent load balancer (`pkg/agent/loadbalancer`) | server list, current server, index, config file | dials and updates interleave; unlocked reads; restart from the file | LoadBalancer |
| agent proxy and tunnel (`pkg/agent/proxy`, `pkg/agent/tunnel`) | known supervisor addresses, one tunnel per server | two load balancers and the tunnels follow one endpoints list; the watch ends and restarts | AgentTunnel |
| agent configuration, supervisor API, node passwords (`pkg/agent/config`, `pkg/server/router.go`, `pkg/passwd`) | the agent's password and id, the server's password file | concurrent requests read and rewrite one file; retries; crashes on both sides | NodeJoin |
| cluster bootstrap (`pkg/cluster`, `pkg/bootstrap`) | CA and key files, stamp, bootstrap key of the datastore | servers race on an empty datastore; crashes between the steps | ClusterBootstrap |
| certificates, keys, passwords, tokens (`pkg/daemons/control/server.go`, `pkg/server/server.go`) | the files of a server | regeneration after a CA change; crashes inside a write; other flags | ServerFiles |
| etcd members (`pkg/etcd`) | members, learners, name file, data directory | crash during a join; eviction and promotion race with it; node deletion | EtcdMembership |
| etcd reset, restore and snapshots (`pkg/etcd`, `pkg/cluster/managed.go`) | data directory, reset file, snapshot files | crash between two steps; overlapping jobs | EtcdReset, EtcdSnapshots |
| network policy (`pkg/agent/netpol`) | iptables chains, ipsets, listers | a failed sync leaves half of the rules; versions of chains | Netfilter, NetpolRules, NetworkPolicy, AtomicSets |
| manifest deployment (`pkg/deploy`) | files, Addon objects, checksums | several servers, stale caches, files that change while they are applied | AddonDeploy |
| service load balancer (`pkg/servicelb`) | DaemonSets, service status | two handlers on caches that lag each on its own | ServiceLB |
| node hosts (`pkg/node`) | the coredns ConfigMap | several workers, one object | NodeHosts |
| rootless ports (`pkg/rootlessports`) | bound ports | failures in the middle; two services mapped to one port | RootlessPorts |
| binary and data directory (`cmd/k3s`, `pkg/flock`, `pkg/untar`, `pkg/dataverify`) | unpacked directories, lock, links | several processes; killed between link and rename | DataDir |

How they interact: a server runs bootstrap, then certificates, then its
datastore member, then the API server and the controllers. An agent asks a server
for its configuration through its load balancer, follows the `kubernetes`
endpoints, and passes every list it sees to the load balancers and to the tunnel.

## How the instances are put together

Modules that share no state are checked in one run. The MC module then has the
variables of all of them and a variable `focus`, chosen once: a behaviour is one
of the module in focus, and the others stay as they begin. Fairness is that of
the module in focus, and its temporal properties are stated for the behaviours
in which it is in focus. So nothing is lost and no product of unrelated states is
explored.

| Run | Module | Focus on | Distinct states |
|---|---|---|---|
| `lb` | MCLoadBalancer | | 1.7 million |
| `lb_live` | MCLoadBalancer | | 26 thousand |
| `bootstrap_external` | MCClusterBootstrap | | 3.8 million |
| `bootstrap_live` | MCClusterBootstrap | | 647 thousand |
| `etcd_learners` | MCEtcdMembership | | 347 thousand |
| `etcd_nodes` | MCEtcdMembership | | 862 thousand |
| `etcd_evict` | MCEtcdMembership | | violation |
| `reset_performed` | EtcdReset | | violation |
| `netpol` | MCNetworkPolicy | | 559 thousand |
| `server_disk` | MCServerDisk | ServerFiles, EtcdReset, EtcdSnapshots, DataDir | 1.3 million |
| `agent` | MCAgent | NodeJoin, AgentTunnel | 181 thousand |
| `controllers` | MCControllers | AddonDeploy, ServiceLB, NodeHosts, RootlessPorts | 429 thousand |

Deadlock is checked in `lb` and `lb_live`. In all the others the bounds on
crashes, changes and starts end every behaviour, so a state without a successor
means nothing; what must not stop there is stated as liveness.

Where a property holds only with an exception, the exception is written in the
property, it is what the code does, and the hazard in `PROJECT.json` says what
TLC finds without it.

Definitions whose comment begins with "Slip", or that stand right before the
definition they differ from in one point (`VerifyNot` before `Verify`), are
mistakes one could make in that code; `PROJECT.json` lists for each property one
that violates it. No specification uses them.

The `TypeOK` of each module documents its state. Those of LoadBalancer and
EtcdReset are proved, and the other proofs have their own types, without the
bounds; the runs are kept for properties that say more.

## Modules

### LoadBalancer

One load balancer of the agent. The variables are the fields of the Go struct,
the config file, and for each dialer the local variables of `dialContext`. Every
step that the mutex does not make atomic with the next is an action of its own:
`dialContext` reads the current server, dials, calls `nextServer`, and compares
the index in four separate actions, and `setServers`, which reads of other
goroutines can see half done, takes four. A read of the current server while it
is being assigned may give a torn value. `Crash` ends the agent, and the file may
be left half written. `reported`, `stable` and `unsaved` only observe.

Runs:

* `lb`: two servers, two URLs, two dials, one Update, one crash, also inside the
  write of the file. The list is always the known addresses and the original one,
  each once; the file agrees with it; and "all servers failed" is said only when
  every server's failure was reported during the dial. Two dials are enough for
  one to report what the other tried. The dialers are symmetric. The same with
  three servers (23.7 million states, nine minutes) passes as well.
* `lb_live`: two servers of which one is healthy, two dials. Every dial returns,
  and reaches a healthy server. Fairness: each goroutine goes on (weak), a
  goroutine that waits for the mutex gets it (strong: `sync.Mutex` does not
  starve), and a dial's deadline passes.

`AllServersFailed` speaks of dials that no Update disturbs. An Update during a
dial sets the index to 1, which may be the index the dial began with; the dial
then gives up although it tried no server of the new list.

### LoadBalancerProofs

For any finite set of servers and any dialers, `TypeOK`, `IndexInRange`,
`ListConsistent`, `AllServersFailed` and `ConfigFollowsServers`. None is
inductive. The invariant adds who holds the mutex at which step (`Locks`), what
the list is in the middle of `setServers` (`Listed`), where the index may be
(`Indexed`), and `Walked`: the servers from the position where a dial began up to
the current position have all been reported during the dial. `nextServer` moves
the current server only from a reported server, one position at a time, so when
the index is back at the start every server has been reported. The assumptions
are the three named ones in `LoadBalancer`.

### ClusterBootstrap

Any number of servers with one token. `prepare` is one phase after the other;
every file that is written is a step. A key or certificate is represented by the
server that generated it, which is all that agreement needs. Four files stand
for the fourteen of `ControlRuntimeBootstrap`: a CA key and its certificate, one
that is generated when it is absent (the service account key), and one that is
generated when absent or empty. `managed`, chosen
once, says whether the datastore is etcd on the servers themselves, which hand
their files to others over HTTP, or an external one.

Runs:

* `bootstrap_external`: three servers race on an empty datastore, two crashes,
  also inside a write. Those that serve agree with the datastore, the stamp is
  only found beside the cluster's files, and leaf certificates are signed by the
  CA in use. The servers are symmetric.
* `bootstrap_live`: both kinds of datastore, three servers, one crash between
  writes. With embedded etcd s2 joins s1 and s3 joins s2; with an external
  datastore two of them lose the race. All agree and all come up. Fairness:
  `k3s.service` has `Restart=always`, and no step of `prepare` waits for ever.

Deadlock is not checked: when all servers are up and the crashes are used up
there is nothing left to do. `bootstrap_live` has no crash inside a write
(`Tears`), because a torn service account key is kept by `genServiceAccount`
(`server.go:775` looks only whether the file exists), is saved for the whole
cluster, and no server can start with it.

### ClusterBootstrapProofs

`Agreement`, `StampSound` and `LeafTrusted` for any servers, any way in which they
join one another, both kinds of datastore, and any number of crashes, also inside a
write. The assumptions are the named ones of ClusterBootstrap. `FounderAssumption`
is what k3s asks of its user: with embedded etcd one server is told to join nobody,
for each such server founds a cluster of its own. `ContentsAssumption` says that a
file made by a server is neither absent nor cut short.

What the servers have on disk differs while they race, so none of the three is
inductive. The files of the cluster are those in the datastore, or those of a
server whose etcd data exists. The invariant says that they are complete and the
same wherever they are (`Common`); that a stamp (`Stamped`), a read in progress
(`Reading`) and every phase after it (`Copied`) go with a full copy of them, unless
the server is one that makes them; what each step of `prepare` has left behind
(`Made`); and that whoever may still make the files has the CA of its own key
(`Pair`). A lemma on steps that leave the cluster's files alone (`Steady`, `Others`)
takes care of all servers but the one that moves.

### EtcdMembership

The embedded etcd cluster: how servers create and join it, how the leader's
`manageLearners` promotes or evicts the one learner, and how the deletion of a
node removes a member. etcd is external and is modelled by how the code uses it:
one member list that changes only while a majority of the voting members runs,
one learner at a time, one member per peer URL, promotion of learners in sync
only. Every call to etcd in `join` and in a round of `manageLearners` is a step
of its own, since other servers act in between. A member ID, a name and a raft
index are numbers; time is the age of the progress record, in ticks. The client
of a server talks to its own etcd (`endpoint`), so a server that was removed gets
no answer (`Answered`).

Runs:

* `etcd_learners`: three servers, one crash or lost answer, no deletions. No
  change of the member list costs the cluster its quorum, and no learner is
  evicted before it had the stall time.
  `s2` and `s3` are symmetric.
* `etcd_nodes`: two servers, one crash, node deletions. Voting members have
  their data, and a member leaves only while the node of its server is being
  deleted and carries its name, although `onRemove` is retried and the server may
  have rejoined. (A server that has rejoined writes its new name also on a node
  that is still being deleted, and the retry then removes the new member:
  `handleSelf` does not look at the deletion timestamp.) A joining server
  becomes ready in the end, with three exceptions that the code has: its member
  was removed; its process is "hung" (`executor.ETCD` drops the error of
  `StartEtcd`, and nothing restarts a process that does not end); or a deletion
  stays undone, because the only ready server ends whenever it is to remove
  itself. Fairness: `Restart=always`, the ticker of `manageLearners`, and raft
  replication, all weak.
* `etcd_evict` is a violation, see the findings.

Deadlock is not checked: the bounds end every behaviour. The progress record
ages only while no round is in progress, because `testTimeout` (10 s) is shorter
than the ticker's interval.

### EtcdMembershipProofs

For any servers, any number of crashes, elections, lost answers, deletions and
ticks: `VotersHaveData` and `GraceKept`, without a hypothesis; `LeavesOnRequest` (a
voting member leaves only while its server's node is being deleted and carries its
name) for the behaviours in which no leader loses the leadership while it is up
(`elections = 0`), as in the runs: `etcd_evict` shows that it fails otherwise; and
`KeepsQuorum` for those in which besides no node is deleted (`deletes = 0`), since
the user may delete whichever node they like. No assumption on a constant is used.

None of the four is inductive. The invariant says whose the entries of the
member list are: IDs and addresses are taken once, a write-ahead log is that of
the member its server is, a learner is the last member added (`Listing`); what a
server has at each point of its start (`Started`); that the node of a server that
is no member, or a learner, carries no name but one of an earlier life
(`Annotated`), without which the retry of `onRemove` could hit a server that is
still joining again; that no record of
progress of the last member is older than the member (`Grace`); and that while the
leader stays the leader the only round of `manageLearners` is its own and about a
learner (`OneManager`), which is what makes an eviction harmless.

### EtcdSnapshots

The directory of one server's scheduled snapshots. A snapshot is its time and
whether its name still ends in `.part`. In `server_disk` two jobs overlap, are
interrupted and fail anywhere, with up to five snapshots (six were tried as
well), two restarts, and a retention of one or two. `NewestKept`: the newest
complete snapshot is not removed, unless the job that removes it was overtaken: a
`.part` file of a younger job counts as a snapshot, and the complete one is removed
for it. The
number of snapshots is no property: one file is removed per job, so a surplus
that a crash or a lower retention left stays. `NewestKept` is proved in
`ServerDiskProofs`.

### EtcdReset

`--cluster-reset` with and without a restore path on a server that joins no other.
`server_disk` starts the server four times with any flags and ends it anywhere:
the cluster's data is never lost, and a reset is not repeated before a normal
start. `reset_performed` is a violation, see the findings.

### ServerDiskProofs

Theorems about MCServerDisk, the composition that `server_disk` checks.

`NewestKept` for any number of jobs at once, any retention, any number of
snapshots, failures and restarts. It is an action property, and needs to know what
a job's list, made earlier, still says about the directory. The invariant adds two
facts about the list of each job. Everything in the directory was listed, under its
name or with `.part`, or is younger than all that was listed (`Listed`): names only
ever get later. And a complete file that was listed is still there, or everything
in the directory is younger than it (`OldestFirst`): a job removes only the oldest
file of its list, and by `Listed` nothing older than that is left. So if a job is
about to remove the newest complete file, the second file of its list, which it has
because the retention is at least one, is younger and was not removed, hence is
still being saved. That `sort` and the first element give the oldest file is a
lemma from the well-foundedness of the naturals.

`DataKept` and `ResetOnce` for any number of starts. `ResetInv` adds `ResetRecorded`
(the file is there from `Touch` on, and there was no reset before it) and
`ResetMovedAway` (when the restore writes, the cluster's data has been moved away);
without these neither is inductive. The proof does not look at the bound on starts.

`RunsWhole` for any processes, versions and entries, and any number of starts and
faults, first of DataDir by itself (`DirectoryWhole`), then of the composition, in
which every step is one of DataDir or leaves its variables alone. `UnpackInv` adds
`UnpackHolds` (who is between `Acquire` and `Release` has the lock), `UnpackVerified`
(from `Verify` to `Rename` the `-tmp` directory is whole, which `UnpackHolds` protects
from the others), `UnpackWhole` (what has its name is whole) and `UnpackFound` (who
returns a directory has seen it or named it, and an error on the way cannot return
one). Nothing is proved of `Extracts`, which is liveness.

`DiskAssumption` says that retentions are natural numbers and that "no process" is
not a process; a free lock must mean that nobody is between `Acquire` and `Release`.

### AgentTunnel

The agent's `Setup`: the endpoints of the `kubernetes` service, the proxy's lists,
and the tunnel goroutines. The watch is a position in the history of the
endpoints, and a new watch begins at any earlier position, because it asks for
`ResourceVersion: "0"`, which a server may answer from its cache. `agent` has two
hosts (one of them that of the agent's URL, the case in which the fallback
address is also an endpoint), two changes and one failure, and checks both
settings of `apiServerEnabled`. Fairness is weak and on the agent's own steps, on
the answer to a watch and on connecting to a host that can be reached.
`LoadBalancersConverge` excepts a list that is the fallback address alone. After
an empty list `SupervisorAddresses` returns the fallback, `Setup` takes the event
for one it knows, and the load balancers keep their older list. Nothing in the
repository promises otherwise, so this is recorded as a hazard and not a finding.

### NodeJoin

Agents that run `get` step after step until all of it was answered, and a server
whose handlers check and extend `node-passwd`. The file is replaced by writing
`node-passwd.tmp` and renaming it; the model keeps inodes, because two handlers
that write the temporary file at once hold the same one open. In `agent` two
agents, of two names or of one, one with a node id, one of an older version whose
password is to be moved, one with a token for another cluster, meet two handlers
and one fault (a crash on either side, also inside a write, or a timeout, after
which the agent asks again while the server still handles the first request).
`OneOwner` excepts requests that overlapped: one then drops the line of the other,
although a comment says "we save this password for future validation"
(`router.go:290`). `NeverLockedOut` excepts them too, and `AgentJoins` a file they
have written over one another. Both have one file open and write it from its
beginning, and the shorter list leaves the end of the longer one behind it
(`Overwrite`): whole lines, which Read takes as later ones, and one that has lost its
beginning, which is still a line of its name but with another password (`Cut`), or
cannot be read at all (`Garbled`). `AgentJoins` also excepts an agent whose own
password file was cut short. Fairness: an agent goes on and retries (strong,
since requests are lost and slots are taken by others), a handler goes on (weak).

### NodeJoinProofs

`OneOwner` and `NeverLockedOut` for any agents, host names, setups, numbers of
handlers, crashes and timeouts. `JoinAssumption` says that the handlers are finitely
many (an open file other than theirs can be found), that "none" is none of the
values it stands beside, and that agents of an older version are agents.

An agent has one password in its life, the one it brings from an older version or
the first it draws (`OnePassword`, `Own`). As long as no request has read the file
while another replaces it, at most one replaces it, and what it writes is what is
there with its own line added (`Serial`). So every line of the file is in a name of
some agent and has that agent's own password (`Sound`), and who is refused shares the
name with another. `Requests` and `Files` say what a request has read and keep the
file and its temporary one apart, also when requests overlap.

### ServerFiles

What `prepare` and `StartServer` do to the disk. `Program` is the list of their
calls; a call looks at the disk as it is and gives the files it writes, which are
then written one by one. A certificate is the key, the CA, the names and the age
it was made with. In `server_disk` the server is started four times, with a
further name, a token in its long form, a token for agents, or encryption;
certificates come near their end, and the server is interrupted twice, between
writes or inside one. `Chosen` names two CAs and their leaves, which have all the
kinds there are: with and without a kubeconfig, of the administrator and of a
component (the controller manager; the scheduler and the cloud controller manager
are like it), client and serving. Once the API server is ready the components read
their kubeconfigs, and one that cannot ends the whole process (`Exit`), perhaps
inside a write or when the server already serves. The model's server runs all of
its components (no `--disable-scheduler`, no `--disable-cloud-controller`).
`LeavesUsable`: what a start leaves fits together, or cannot be parsed because a
write was cut short; `Kept`: CAs and keys stay; `HandedTokensWork`: no token given
out stops working. `FilesComeUp`: the server serves in the end and goes on serving,
unless for good a file stays cut short, or the certificate of the administrator or of
a component stays without its kubeconfig, because the server ended between the two
writes and only a renewal of the certificate writes the kubeconfig again. Fairness: a
start goes on, `Restart=always`, and a component that cannot run ends the process.

### ServerFilesProofs

`LeavesUsable`, `HandedTokensWork` and `Kept` for any configurations, any number of
starts, renewals and crashes, and any choice of certificates that has the server CA
and the administrator's, and with a leaf its CA (`ChosenAssumption`).
`ConfigsAssumption` says that a configured token is none, a bare or a long one.

The invariant is in three parts. `DiskInv` holds whoever is interrupted: a CA's
certificate goes with its key, was cut short, or comes from an interrupted upgrade
(`CAInv`); a leaf's goes with its key, was cut short, or is one the next start renews
(`LeafInv`), which is what writing the key before the certificate is for; only leaves
age. `HandedInv` ties the tokens handed out to the CA and the password that are there.
The third part is about a start under way: the calls that have returned have done
their work (`PastInv`), a CA made by this start has signed nothing (`RegenInv`,
without which a new CA would leave the leaves of an old one behind), and the call under
way has of its writes a rest that fits what is on the disk (`MakingInv`), which is what
makes a crash before, inside or after each write harmless. A server that serves has
nothing left to write (`Idle`), so a component that ends it then tears no file. `Kept`
is an action property;
it follows from `MakingInv`, since a call that still writes looked before it began.

### DataDir

`extract`, by two processes at a time of two versions in the data directory of
root or of a user, three starts and one fault: an error of any call, a file that
is not what was written, or a kill between any two steps. Every system call that
others can see is a step. `RunsWhole`: a process runs only from a directory that
has all of its archive. `Extracts`: a process that meets no fault itself runs in
the end, whatever another has left; that rests on `Lstat` rather than `Stat` for
the link, on the second look under the lock, and on the order of the deferred
calls. Fairness: a process goes on (weak; the starts are bounded, so a waiting
process gets the lock). What the links name is no property: after a kill between
`Symlink` and `Rename`, `current` names nothing, and the next start makes that
link `previous`.

### Netfilter, NetpolRules, NetworkPolicy

The network policy controller of one node. Netfilter is the kernel as the
controller uses it (external): chains of rules, ipsets, the commands on them, and
`Verdict`, what becomes of a packet. NetpolRules is what the controller computes:
from pods, namespaces and policies to the commands of each part of `Sync`.
NetworkPolicy runs them one by one, with `Run`'s ticker and the event handlers,
failing commands, crashes, and listers that change between two reads.

`netpol` has two pods on the node and one elsewhere, four kinds of policy (named
and numbered ports, namespaces, address blocks with exceptions, denial, and one
with a matchExpression and a port name that nobody offers), one
change and one fault. `Enforced` compares what the chains do with packets with
`Admitted`, which reads the policies as the API defines them and knows nothing
of chains. It is claimed of the packets on which every policy that could bear is one
the controller understands as the API means it (`Understood`, `AsWritten`). It does
not where a selector has matchExpressions (`ListPods` matches labels only), where all
the ports of a rule are names that no receiver offers (the rule is taken for one
without ports), and with named ports of egress rules for everyone or for address
blocks (left out). Without this restriction TLC finds each of the first two.
`NoGap`: a pod that a completed sync has isolated stays so through
failures and crashes. `NothingStale`: a sync that returns no error leaves only its own
chains and sets, if it got the list of the chains. `cleanupStaleRules` drops the error
of `ListChains` and then finds no chain stale (`CleanUpUnlisted`); the next sync cleans
up. An insertion of a policy's chain that fails with exit status 1 is passed over
(`PassedOver`), and the sync goes on without the jump. `Converges`. Fairness (weak): the
ticker calls `Sync`, `Sync` goes on, and an agent that ended is started again.

The names of chains and sets are tuples in the model. The code hashes namespace and
name written one after the other without a separator (`podFirewallChainName` and the
functions after it), so that two policies, or a rule and a port number of another,
may have one name; the model leaves such pairs out.

`WholeSets` is a refinement: `NetworkPolicy` implements AtomicSets, in which an
ipset that rules refer to is replaced as a whole. `content` is mapped to the sets
without the second ones that `Refresh` fills and swaps, and `torn` to those whose
second set a failure has left behind, which the next `Refresh` does not empty.

### NetpolRulesProofs, NetworkPolicyProofs

NetworkPolicyProofs proves `NothingStaleHolds` and `WholeSetsHolds` for any number
of pods, policies, rules and peers, of failed commands at any place, of crashes and
of changes. The assumptions (`ClusterAssumption`, `SpecsAssumption`) say that the
lists of API objects are finite, that the pods of the node are pods of the cluster
and that the first policies are of the given specs. Both rest on `IInv`, which
relates the commands that are left (`todo`) to the kernel:

* `Promised`: a chain or set that this Sync uses is there or a command left makes it;
* `Filling`, while the policies' chains are written: every command of a Refresh that
  is left has its beginning either left too or done, that is, the second set exists
  and holds each entry whose `add` is gone. A failure must skip the rest of its own
  Refresh and no more (`Skips`), or a swap would meet a second set that is half full;
* `Sweeping`, during the cleanup: what is left deletes no chain and no set in use, and
  every chain and set that is not in use has a command left that takes it away, if
  the chains were listed. This is not implied by `NothingStale`, which only speaks of
  the end;
* `Known`, `KernelInv`: finiteness, and the names that chains and sets have.

That the lists of commands have this form is shown in NetpolRulesProofs, along the
code, one lemma per function: `Ready...` for syncNetworkPolicyChains down to
`Refresh`, `Fw...` for syncPodFirewallChains, `Sweep...` for cleanupStaleRules.
Loops over maps are folds, and `ConcatMembers`, `FlattenMembers` say what they
concatenate; both are proved with the least counterexample of a well-founded order,
because the library's induction theorems cannot be instantiated. `WholeSets` then
follows step by step: `StepIsAtomic` maps a command to a Create, Replace or Destroy
of AtomicSets or, like every other step, to one that leaves `content` alone (Want).
TLC checked `IInv` on the instance of `netpol` before it was proved.

### AddonDeploy, ServiceLB, NodeHosts, RootlessPorts

The controllers of a server. Each has the cluster as the API server has it, a cache
that lags behind, handlers that work from the cache in steps, and calls that fail
or are refused because the copy is out of date. `controllers` checks of each that it
converges, with changes and faults in the middle of its handlers:

* AddonDeploy: two servers, one manifest, the same, different or disabled; one
  edit and one fault (a failed call or a restart).
* ServiceLB: one Service and two nodes, four setups (after an upgrade, with an
  external address, rootless, disabled), up to two changes: of labels, of nodes, of
  their external addresses. `read` has the addresses that the handler last read.
* NodeHosts: two nodes, two addresses, with and without etcd, from an empty cluster
  or one that has its lines, two changes. The informer of nodes lags too (`seen`,
  `lag`), so the writes of finalizers are refused like those of the ConfigMap.
* RootlessPorts: two services with ports around the limit of 1024 and 10000
  apart, three changes, one fault.

Fairness, all weak: informers deliver, queues are worked off, and the passes of
`pkg/deploy` go on. The exceptions, each of which TLC shows to be needed: the status
follows the addresses of nodes as they were read last, for no change of a node brings
the Service back (`StatusRight`); a label that was taken away (`DaemonSetRight`); a node
deleted before it had the finalizer, or whose line was written after the finalizer was
off (`HostsRight`); ports 10000 apart, or mapped to the supervisor's (`PortsRight`).

## Findings

| Run | Code | What the run shows |
|---|---|---|
| `etcd_evict` | `etcd.go:619` | a leader that was replaced in the middle of its round removes a member that has since been promoted |
| `reset_performed` | `managed.go:66` | a reset interrupted before etcd started is reported as performed |

## What is proved and what is only checked

Proved for every value of the constants that satisfies the named assumptions:

| Module | Theorems on properties of the runs | Inductive invariant |
|---|---|---|
| LoadBalancerProofs | `ListConsistent`, `AllServersFailed`, `ConfigFollowsServers` (and `TypeOK`, `IndexInRange`) | `Locks`, `Listed`, `Indexed`, `Walked` |
| ClusterBootstrapProofs | `Agreement`, `StampSound`, `LeafTrusted` | `IInv` |
| EtcdMembershipProofs | `VotersHaveData`, `GraceKept`, `LeavesOnRequest`, `KeepsQuorum` | `IInv` |
| NodeJoinProofs | `OneOwner`, `NeverLockedOut` | `IInv` |
| ServerDiskProofs | `NewestKept`, `DataKept`, `ResetOnce`, `RunsWhole` (and `TypeOK` of EtcdReset) | `SnapshotInv`, `ResetInv`, `UnpackInv` |
| ServerFilesProofs | `LeavesUsable`, `HandedTokensWork`, `Kept` | `IInv` |
| NetworkPolicyProofs | `NothingStale`, `WholeSets` | `IInv` |

Everything else is model-checked on the instances above:

* The liveness properties (`DialReturns`, `HealthyServerReached`, `AllUp`,
  `JoinCompletes`, `FilesComeUp`, `Extracts`, `AgentJoins`, `Converges`, all of the tunnel
  and of the controllers): liveness under fairness and ENABLED are beyond TLAPS.
* `Enforced` and `NoGap` of NetworkPolicy: they say what becomes of a packet, and so
  depend on the order of the rules in every chain, not only on which commands are left.
  The invariant of NetworkPolicyProofs has no order of rules within a chain.

No module that theorems use declares a RECURSIVE operator.

## Not modelled

* The start of server and agent (`pkg/server/server.go`, `pkg/agent/run.go`): parts
  are called one after the other or wait for a channel that is closed once. The
  parts themselves are modelled. Left out are `setMasterRoleLabel`,
  `setClusterDNSConfig` and `configureNode`, loops around one call to the API server.
* The rest of the supervisor API (`pkg/server/router.go`): static files, ping, and
  the answers that only read. That component is "partly" modelled.
* containerd, flannel, the executor, rootless: write the configuration of other
  programs and start them.
* The config file parser and the node's annotations: pure string functions.
* The authenticator, the cloud provider, the command line, generated code: no state.
* An outage of the whole etcd cluster (time passes in EtcdMembership only while
  the cluster answers), a crash inside the write of the etcd name file, and other
  programs that change iptables between two commands of a sync.
