--------------------------- MODULE EtcdMembership ---------------------------
(***************************************************************************)
(* The members of the embedded etcd cluster (pkg/etcd): a server creates   *)
(* the cluster, others join it as learners, the leader's manageLearners    *)
(* promotes a learner that has caught up and evicts one that has stalled,  *)
(* and the deletion of a Kubernetes node removes the member of its server. *)
(*                                                                         *)
(* etcd itself is external: its member list is one value that changes only *)
(* while a majority of the voting members runs, it takes one learner at a  *)
(* time and one member per peer URL, and it promotes a learner only when   *)
(* that runs and is in sync.                                               *)
(***************************************************************************)
EXTENDS Naturals, FiniteSets

CONSTANTS
    Servers,      \* the servers; one is the host of one peer URL
    First,        \* the one started with --cluster-init
    None,         \* no server
    InSync,       \* the raft index at which a learner has caught up
    MaxStall,     \* learnerMaxStallTime in ticks of manageLearners
    MaxIDs,       \* bound: members ever added
    MaxNames,     \* bound: lives of one server's data directory
    MaxCrashes,   \* bound: crashes and lost answers
    MaxDeletes,   \* bound: nodes deleted by the user
    MaxElections  \* bound: leader changes while the leader is still running

ASSUME EtcdAssumption ==
    /\ IsFiniteSet(Servers)
    /\ First \in Servers
    /\ None \notin Servers
    /\ {InSync, MaxStall} \subseteq Nat
    /\ {MaxIDs, MaxNames, MaxCrashes, MaxDeletes, MaxElections} \subseteq Nat

VARIABLES
    members,    \* etcd's member list
    lastID,     \* the last member ID given
    progress,   \* the value of learnerProgressKey; age is now - LastProgress
    leader,     \* the raft leader
    proc,       \* where each server's Start is
    nameFile,   \* db/etcd/name: the n-th name made up by the server, 0: none
    names,      \* how many names the server has made up
    wal,        \* db/etcd/member/wal: the member ID in it, 0: no directory
    index,      \* RaftAppliedIndex of the server's data
    cluster,    \* the local variable of join: the peers
    manager,    \* where each server's manageLearners is, with its variables
    node,       \* the etcd name annotated on the Kubernetes node, 0: no node
    deleting,   \* the node has a deletion timestamp
    crashes, deletes, elections,
    ticks       \* observer: ticks since the last member was added

bounds == <<crashes, deletes, elections>>
disk == <<nameFile, names, wal, index>>
etcd == <<members, lastID, progress, leader, ticks>>
kube == <<node, deleting>>
vars == <<etcd, disk, proc, cluster, manager, kube, bounds>>

Unnamed == 0
NoProgress == [id |-> 0, name |-> Unnamed, index |-> 0, age |-> 0]
NoMember == [id |-> 0, addr |-> None, name |-> Unnamed, learner |-> FALSE]
Idle == [at |-> "idle", member |-> NoMember, progress |-> NoProgress]

Running == {"running", "ready"}

Init ==
    /\ members = {}
    /\ lastID = 0
    /\ progress = NoProgress
    /\ leader = None
    /\ proc = [s \in Servers |-> "down"]
    /\ nameFile = [s \in Servers |-> Unnamed]
    /\ names = [s \in Servers |-> 0]
    /\ wal = [s \in Servers |-> 0]
    /\ index = [s \in Servers |-> 0]
    /\ cluster = [s \in Servers |-> {}]
    /\ manager = [s \in Servers |-> Idle]
    /\ node = [s \in Servers |-> Unnamed]
    /\ deleting = [s \in Servers |-> FALSE]
    /\ crashes = 0 /\ deletes = 0 /\ elections = 0
    /\ ticks = 0

-----------------------------------------------------------------------------
(* etcd, as the code uses it *)

IDs == {m.id : m \in members}
Voters == {m \in members : ~m.learner}

\* The member's server runs, with the data of this member.
Alive(m) == proc[m.addr] \in Running /\ wal[m.addr] = m.id

\* A majority of the voting members runs: requests are answered.
Quorum == 2 * Cardinality({m \in Voters : Alive(m)}) > Cardinality(Voters)

IsLeader(s) == leader = s /\ \E m \in Voters : m.addr = s /\ Alive(m)

\* etcd elects a running voting member.
Elect(s) ==
    /\ Quorum
    /\ s # leader
    /\ \E m \in Voters : m.addr = s /\ Alive(m)
    /\ leader' = s
    /\ IF leader # None /\ IsLeader(leader)
         THEN elections < MaxElections /\ elections' = elections + 1
         ELSE UNCHANGED elections
    /\ UNCHANGED <<members, lastID, progress, ticks, disk, proc, cluster, manager,
                   kube, crashes, deletes>>

\* A server publishes its name once it is connected to the others.
Publish(s) ==
    /\ proc[s] \in Running
    /\ Quorum
    /\ \E m \in members :
        /\ m.id = wal[s]
        /\ m.name = Unnamed
        /\ members' = (members \ {m}) \cup {[m EXCEPT !.name = nameFile[s]]}
    /\ UNCHANGED <<lastID, progress, leader, ticks, disk, proc, cluster, manager, kube,
                   bounds>>

\* The leader sends entries to a learner.
CatchUp(s) ==
    /\ proc[s] \in Running
    /\ wal[s] \in IDs
    /\ Quorum
    /\ index[s] < InSync
    /\ index' = [index EXCEPT ![s] = @ + 1]
    /\ UNCHANGED <<etcd, nameFile, names, wal, proc, cluster, manager, kube, bounds>>

Removed(s) == wal[s] # 0 /\ wal[s] \notin IDs

\* The requests of a server go to its own etcd (endpoint), which answers while it
\* is of the cluster and that has a quorum.
Answered(s) == Quorum /\ ~Removed(s)

\* A server whose member was removed stops: executor.ETCD ends the process.
RemovedStops(s) ==
    /\ proc[s] \in Running
    /\ Removed(s)
    /\ proc' = [proc EXCEPT ![s] = "down"]
    /\ manager' = [manager EXCEPT ![s] = Idle]
    /\ UNCHANGED <<etcd, disk, cluster, kube, bounds>>

-----------------------------------------------------------------------------
(* Start *)

Goto(s, p) == proc' = [proc EXCEPT ![s] = p]

\* Slip: every start makes up a new name.
setNameForce(s) ==
    /\ names' = [names EXCEPT ![s] = @ + 1]
    /\ nameFile' = [nameFile EXCEPT ![s] = names[s] + 1]

\* setName, called by Register: a new name unless the file has one.
setName(s) ==
    IF nameFile[s] = Unnamed
      THEN /\ names' = [names EXCEPT ![s] = @ + 1]
           /\ nameFile' = [nameFile EXCEPT ![s] = names[s] + 1]
      ELSE UNCHANGED <<names, nameFile>>

\* newCluster: the cluster has one voting member.
NewCluster(s) ==
    /\ s = First
    /\ proc[s] = "down"
    /\ lastID = 0
    /\ setName(s)
    /\ lastID' = 1
    /\ members' = {[id |-> 1, addr |-> s, name |-> names'[s], learner |-> FALSE]}
    /\ wal' = [wal EXCEPT ![s] = 1]
    /\ index' = [index EXCEPT ![s] = InSync]
    /\ Goto(s, "running")
    /\ UNCHANGED <<progress, leader, ticks, cluster, manager, kube, bounds>>

\* The data directory exists: etcd starts from it.  (If its member was removed
\* the process ends again, as if it had not started.)
StartExisting(s) ==
    /\ proc[s] = "down"
    /\ wal[s] # 0
    /\ ~Removed(s)
    /\ setName(s)
    /\ Goto(s, "running")
    /\ UNCHANGED <<etcd, wal, index, cluster, manager, kube, bounds>>

\* A server that is ready answers /db/info.
Register(s) ==
    /\ proc[s] = "down"
    /\ wal[s] = 0
    /\ \E r \in Servers : proc[r] = "ready"
    /\ setName(s)
    /\ Goto(s, "join")
    /\ UNCHANGED <<etcd, wal, index, cluster, manager, kube, bounds>>

\* The member list has this server, under its name or without one.
Listed(s) == \E m \in members : m.addr = s /\ m.name \in {nameFile[s], Unnamed}

Peers == {m.addr : m \in members}

\* join reads the member list and decides whether the member is to be added.
JoinList(s) ==
    /\ proc[s] = "join"
    /\ Quorum
    /\ cluster' = [cluster EXCEPT ![s] = Peers \cup {s}]
    /\ Goto(s, IF Listed(s) THEN "start" ELSE "add")
    /\ UNCHANGED <<etcd, disk, manager, kube, bounds>>

\* MemberList fails: join assumes that the member was added, and takes the peers
\* from what /db/info said: all of them, or the asked server alone.
JoinListFails(s) ==
    /\ proc[s] = "join"
    /\ ~Quorum
    /\ \E r \in Servers :
        /\ proc[r] = "ready"
        /\ \E peers \in {Peers, {r}} :
            cluster' = [cluster EXCEPT ![s] = peers \cup {s}]
    /\ Goto(s, "start")
    /\ UNCHANGED <<etcd, disk, manager, kube, bounds>>

\* /db/info cannot be had: the process ends.
JoinInfoFails(s) ==
    /\ proc[s] = "join"
    /\ ~Quorum
    /\ \A r \in Servers : proc[r] # "ready"
    /\ Goto(s, "down")
    /\ UNCHANGED <<etcd, disk, cluster, manager, kube, bounds>>

\* What etcd asks of a member to be added.
MayAdd(s) ==
    /\ Quorum
    /\ \A m \in members : m.addr # s /\ ~m.learner

\* Slip: MemberAdd, which adds a voting member.
MemberAdd(s) ==
    /\ lastID < MaxIDs
    /\ lastID' = lastID + 1
    /\ members' = members \cup
        {[id |-> lastID + 1, addr |-> s, name |-> Unnamed, learner |-> FALSE]}
    /\ ticks' = 0
    /\ UNCHANGED <<progress, leader>>

MemberAddAsLearner(s) ==
    /\ lastID < MaxIDs
    /\ lastID' = lastID + 1
    /\ members' = members \cup
        {[id |-> lastID + 1, addr |-> s, name |-> Unnamed, learner |-> TRUE]}
    /\ ticks' = 0
    /\ UNCHANGED <<progress, leader>>

JoinAdd(s) ==
    /\ proc[s] = "add"
    /\ MayAdd(s)
    /\ MemberAddAsLearner(s)
    /\ Goto(s, "start")
    /\ UNCHANGED <<disk, cluster, manager, kube, bounds>>

\* The member is added and the answer is lost: the process ends.
JoinAddUnanswered(s) ==
    /\ proc[s] = "add"
    /\ MayAdd(s)
    /\ crashes < MaxCrashes
    /\ crashes' = crashes + 1
    /\ MemberAddAsLearner(s)
    /\ Goto(s, "down")
    /\ UNCHANGED <<disk, cluster, manager, kube, deletes, elections>>

JoinAddFails(s) ==
    /\ proc[s] = "add"
    /\ ~MayAdd(s)
    /\ Goto(s, "down")
    /\ UNCHANGED <<etcd, disk, cluster, manager, kube, bounds>>

\* etcd starts as an existing member if the peers it is given are the members.
JoinStart(s) ==
    /\ proc[s] = "start"
    /\ cluster[s] = Peers
    /\ \E m \in members :
        /\ m.addr = s
        /\ wal' = [wal EXCEPT ![s] = m.id]
    /\ index' = [index EXCEPT ![s] = 0]
    /\ Goto(s, "running")
    /\ UNCHANGED <<etcd, nameFile, names, cluster, manager, kube, bounds>>

\* It does not start, executor.ETCD returns no error, and the process goes on
\* without etcd, testing its connection for ever.
JoinStartFails(s) ==
    /\ proc[s] = "start"
    /\ cluster[s] # Peers
    /\ Goto(s, "hung")
    /\ UNCHANGED <<etcd, disk, cluster, manager, kube, bounds>>

\* Test: the server is a voting member under its own name and URL.
Test(s) ==
    /\ proc[s] = "running"
    /\ \E m \in Voters : m.id = wal[s] /\ m.addr = s /\ m.name = nameFile[s]
    /\ Goto(s, "ready")
    /\ UNCHANGED <<etcd, disk, cluster, manager, kube, bounds>>

Crash(s) ==
    /\ proc[s] # "down"
    /\ crashes < MaxCrashes
    /\ crashes' = crashes + 1
    /\ Goto(s, "down")
    /\ manager' = [manager EXCEPT ![s] = Idle]
    /\ UNCHANGED <<etcd, disk, cluster, kube, deletes, elections>>

\* The user deletes db/etcd of a server that was removed, as the message of
\* executor.ETCD tells them, to let it join again.
DeleteDB(s) ==
    /\ proc[s] = "down"
    /\ Removed(s)
    /\ names[s] < MaxNames
    /\ wal' = [wal EXCEPT ![s] = 0]
    /\ nameFile' = [nameFile EXCEPT ![s] = Unnamed]
    /\ index' = [index EXCEPT ![s] = 0]
    /\ UNCHANGED <<etcd, names, proc, cluster, manager, kube, bounds>>

-----------------------------------------------------------------------------
(* manageLearners *)

\* Time passes; a tick is longer than testTimeout, within which a round ends.
Tick ==
    /\ \A s \in Servers : manager[s] = Idle
    /\ progress.id # 0
    /\ progress.age <= MaxStall
    /\ progress' = [progress EXCEPT !.age = @ + 1]
    /\ ticks' = IF ticks > MaxStall THEN ticks ELSE ticks + 1
    /\ UNCHANGED <<members, lastID, leader, disk, proc, cluster, manager, kube,
                   bounds>>

\* The leader reads the progress recorded and picks the first learner.
ManageRead(s) ==
    /\ proc[s] \in Running
    /\ manager[s] = Idle
    /\ IsLeader(s)
    /\ Quorum
    /\ \E m \in members \ Voters :
        manager' = [manager EXCEPT ![s] =
            [at |-> "promote", member |-> m, progress |-> progress]]
    /\ UNCHANGED <<etcd, disk, proc, cluster, kube, bounds>>

\* etcd promotes a learner that is in sync.
MayPromote(m) == m.learner /\ Alive(m) /\ index[m.addr] = InSync

\* MemberPromote; the member is looked up by its ID.
ManagePromote(s) ==
    /\ manager[s].at = "promote"
    /\ Answered(s)
    /\ \E m \in members :
        /\ m.id = manager[s].member.id
        /\ MayPromote(m)
        /\ members' = (members \ {m}) \cup {[m EXCEPT !.learner = FALSE]}
    /\ manager' = [manager EXCEPT ![s] = Idle]
    /\ UNCHANGED <<lastID, progress, leader, ticks, disk, proc, cluster, kube, bounds>>

\* Slip: the record of another learner is carried over.
TrackedCarriedOver(p, m) == [p EXCEPT !.id = m.id, !.name = m.name]

\* The recorded progress, or a new record if it is of another member.
Tracked(p, m) ==
    IF p.id = m.id /\ p.name = m.name
      THEN p
      ELSE [id |-> m.id, name |-> m.name, index |-> 0, age |-> 0]

\* MemberPromote fails; the progress is looked at instead.
ManageNotPromoted(s) ==
    /\ manager[s].at = "promote"
    /\ Answered(s) => ~\E m \in members : m.id = manager[s].member.id /\ MayPromote(m)
    /\ manager' = [manager EXCEPT ![s].at = "status",
                                  ![s].progress = Tracked(@, manager[s].member)]
    /\ UNCHANGED <<etcd, disk, proc, cluster, kube, bounds>>

\* The learner answers at a client URL, which it published with its name, and
\* has progressed since the record, or has not.
ManageStatus(s) ==
    /\ manager[s].at = "status"
    /\ LET m == manager[s].member IN
        /\ m.name # Unnamed
        /\ proc[m.addr] \in Running
        /\ manager' = [manager EXCEPT
            ![s].at = "store",
            ![s].progress = IF @.index < index[m.addr]
                              THEN [@ EXCEPT !.index = index[m.addr], !.age = 0]
                              ELSE @]
    /\ UNCHANGED <<etcd, disk, proc, cluster, kube, bounds>>

\* It does not answer: the dial may time out whether it runs or not.
ManageNoStatus(s) ==
    /\ manager[s].at = "status"
    /\ manager' = [manager EXCEPT ![s].at = "store"]
    /\ UNCHANGED <<etcd, disk, proc, cluster, kube, bounds>>

Stalled(p) == p.age > MaxStall

\* The learner has stalled for too long: MemberRemove, by its ID.
ManageEvict(s) ==
    /\ manager[s].at = "store"
    /\ Answered(s)
    /\ Stalled(manager[s].progress)
    /\ members' = {m \in members : m.id # manager[s].member.id}
    /\ manager' = [manager EXCEPT ![s] = Idle]
    /\ UNCHANGED <<lastID, progress, leader, ticks, disk, proc, cluster, kube, bounds>>

\* setLearnerProgress.
ManageStore(s) ==
    /\ manager[s].at = "store"
    /\ Answered(s)
    /\ ~Stalled(manager[s].progress)
    /\ progress' = manager[s].progress
    /\ manager' = [manager EXCEPT ![s] = Idle]
    /\ UNCHANGED <<members, lastID, leader, ticks, disk, proc, cluster, kube, bounds>>

\* MemberRemove or Put fails.
ManageFails(s) ==
    /\ manager[s].at = "store"
    /\ ~Answered(s)
    /\ manager' = [manager EXCEPT ![s] = Idle]
    /\ UNCHANGED <<etcd, disk, proc, cluster, kube, bounds>>

-----------------------------------------------------------------------------
(* The node controller *)

\* handleSelf writes the name of the server's member on its node.
HandleSelf(s) ==
    /\ proc[s] = "ready"
    /\ Answered(s)
    /\ node[s] # nameFile[s]
    /\ node' = [node EXCEPT ![s] = nameFile[s]]
    /\ UNCHANGED <<etcd, disk, proc, cluster, manager, deleting, bounds>>

DeleteNode(s) ==
    /\ node[s] # Unnamed
    /\ ~deleting[s]
    /\ Quorum
    /\ deletes < MaxDeletes
    /\ deletes' = deletes + 1
    /\ deleting' = [deleting EXCEPT ![s] = TRUE]
    /\ UNCHANGED <<etcd, disk, proc, cluster, manager, node, crashes, elections>>

\* Slip: the member is found by its address alone.
peerByAddress(s) == {m \in members : m.addr = s}

\* The member that removePeer looks for: both the name and the address match.
peer(s) == {m \in members : m.addr = s /\ m.name = node[s]}

\* onRemove on server r, which runs the controllers.
OnRemove(r, s) ==
    /\ deleting[s]
    /\ proc[r] = "ready"
    /\ Answered(r)
    /\ r # s
    /\ peer(s) # {}
    /\ members' = members \ peer(s)
    /\ UNCHANGED <<lastID, progress, leader, ticks, disk, proc, cluster, manager,
                   kube, bounds>>

\* onRemove found no member, or removed it: the finalizer is taken off and the
\* node is gone.  Until then onRemove is called again whenever that fails.
NodeGone(s) ==
    /\ deleting[s]
    /\ Quorum
    /\ peer(s) = {}
    /\ node' = [node EXCEPT ![s] = Unnamed]
    /\ deleting' = [deleting EXCEPT ![s] = FALSE]
    /\ UNCHANGED <<etcd, disk, proc, cluster, manager, bounds>>

\* A server asked to remove itself ends, for another one to do it.
OnRemoveSelf(s) ==
    /\ deleting[s]
    /\ proc[s] = "ready"
    /\ Quorum
    /\ peer(s) # {}
    /\ Goto(s, "down")
    /\ manager' = [manager EXCEPT ![s] = Idle]
    /\ UNCHANGED <<etcd, disk, cluster, kube, bounds>>

-----------------------------------------------------------------------------

StartStep(s) ==
    \/ NewCluster(s)
    \/ StartExisting(s)
    \/ Register(s)
    \/ JoinList(s)
    \/ JoinListFails(s)
    \/ JoinInfoFails(s)
    \/ JoinAdd(s)
    \/ JoinAddFails(s)
    \/ JoinStart(s)
    \/ JoinStartFails(s)
    \/ Test(s)

ManageStep(s) ==
    \/ ManageRead(s)
    \/ ManagePromote(s)
    \/ ManageNotPromoted(s)
    \/ ManageStatus(s)
    \/ ManageNoStatus(s)
    \/ ManageEvict(s)
    \/ ManageStore(s)
    \/ ManageFails(s)

EtcdStep(s) == Publish(s) \/ CatchUp(s) \/ RemovedStops(s)

Next ==
    \/ Tick
    \/ \E s \in Servers :
        \/ StartStep(s)
        \/ ManageStep(s)
        \/ EtcdStep(s)
        \/ Elect(s)
        \/ JoinAddUnanswered(s)
        \/ Crash(s)
        \/ DeleteDB(s)
        \/ HandleSelf(s)
        \/ DeleteNode(s)
        \/ OnRemoveSelf(s)
        \/ NodeGone(s)
        \/ \E r \in Servers : OnRemove(r, s)

Spec == Init /\ [][Next]_vars

\* Every server is started again when it ended (Restart=always), its goroutines
\* go on, etcd makes progress while it has a quorum, and time passes.
Fairness ==
    /\ WF_vars(Tick)
    /\ \A s \in Servers :
        /\ WF_vars(StartStep(s))
        /\ WF_vars(ManageStep(s))
        /\ WF_vars(EtcdStep(s))
        /\ WF_vars(Elect(s))

FairSpec == Spec /\ Fairness

-----------------------------------------------------------------------------

Members == [id : 1 .. MaxIDs, addr : Servers, name : 0 .. MaxNames, learner : BOOLEAN]
Records == [id : 0 .. MaxIDs, name : 0 .. MaxNames, index : 0 .. InSync,
            age : 0 .. MaxStall + 1]

\* Types; a server makes up a name only once per life of its data directory.
TypeOK ==
    /\ members \subseteq Members
    /\ lastID \in 0 .. MaxIDs
    /\ progress \in Records
    /\ leader \in Servers \cup {None}
    /\ proc \in [Servers ->
        {"down", "join", "add", "start", "running", "ready", "hung"}]
    /\ nameFile \in [Servers -> 0 .. MaxNames]
    /\ names \in [Servers -> 0 .. MaxNames]
    /\ wal \in [Servers -> 0 .. MaxIDs]
    /\ index \in [Servers -> 0 .. InSync]
    /\ cluster \in [Servers -> SUBSET Servers]
    /\ manager \in [Servers -> [at : {"idle", "promote", "status", "store"},
                                member : Members \cup {NoMember},
                                progress : Records]]
    /\ node \in [Servers -> 0 .. MaxNames]
    /\ deleting \in [Servers -> BOOLEAN]
    /\ crashes \in 0 .. MaxCrashes
    /\ deletes \in 0 .. MaxDeletes
    /\ elections \in 0 .. MaxElections
    /\ ticks \in 0 .. MaxStall + 1

\* A voting member is a server that has the member's data, and, once the name
\* is published, has it under the name in its name file: otherwise Test never
\* succeeds and removePeer never finds it (join, setName, cluster).
VotersHaveData ==
    \A m \in Voters :
        /\ wal[m.addr] = m.id
        /\ m.name \in {nameFile[m.addr], Unnamed}

\* A join, a promotion or an eviction never costs the cluster its quorum, which
\* is what learners are for.
KeepsQuorum == [][Quorum /\ members' # members => Quorum']_vars

\* The member with this ID leaves the list in this step.
Leaves(m) == \A n \in members' : n.id # m.id

\* A learner is evicted only when it has been a member for longer than
\* learnerMaxStallTime, also when it is the successor of one that stalled
\* (trackLearnerProgress resets the record).
GraceKept ==
    [][\A m \in members \ Voters : Leaves(m) => ticks > MaxStall]_vars

\* A voting member leaves only while the node of its server is being deleted and
\* carries the member's name: a node that still carries the name of an earlier life
\* of the server removes nothing (removePeer).  That is not to say that the user
\* asked for this member to go: a server that joins again while its former node is
\* still being deleted writes its new name on it (handleSelf), and is removed too.
LeavesOnRequest ==
    [][\A m \in Voters :
          Leaves(m) => deleting[m.addr] /\ node[m.addr] = m.name]_vars

\* "If the learner does not make any progress in a reasonable amount of time, it
\* is evicted" (etcd.go:574): what manageLearners removes is a learner.
EvictsLearners ==
    [][\A m \in Voters : ~(Leaves(m) /\ manager' # manager)]_vars

\* Every server becomes ready and stays so, whatever interrupts its join, unless
\* its member was removed after etcd was started, or before it could start, or a
\* node stays marked for deletion: the only server that is ready ends whenever it
\* is asked to remove itself (join, Test, trackLearnerProgress, removePeer).
JoinCompletes ==
    \A s \in Servers :
        <>[](proc[s] \in {"ready", "hung"} \/ Removed(s) \/ \E r \in Servers : deleting[r])

=============================================================================
