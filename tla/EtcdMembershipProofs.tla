------------------------ MODULE EtcdMembershipProofs ------------------------
(***************************************************************************)
(* VotersHaveData, GraceKept, LeavesOnRequest and KeepsQuorum of           *)
(* EtcdMembership for any servers and any bounds.                          *)
(*                                                                         *)
(* The argument is about who the entries of the member list belong to: IDs *)
(* and addresses are taken once, a write-ahead log is of the member of its *)
(* server, the one learner there may be is the last member that was added, *)
(* and a node carries no name that a learner has or will publish.          *)
(***************************************************************************)
EXTENDS EtcdMembership, FiniteSetTheorems, TLAPS

Procs == {"down", "join", "add", "start", "running", "ready", "hung"}
Entries == [id : Nat, addr : Servers, name : Nat, learner : BOOLEAN]
Tracks == [id : Nat, name : Nat, index : Nat, age : Nat]

\* TypeOK without its bounds.
Types ==
    /\ members \subseteq Entries
    /\ lastID \in Nat
    /\ progress \in Tracks
    /\ proc \in [Servers -> Procs]
    /\ nameFile \in [Servers -> Nat]
    /\ names \in [Servers -> Nat]
    /\ wal \in [Servers -> Nat]
    /\ index \in [Servers -> Nat]
    /\ node \in [Servers -> Nat]
    /\ ticks \in Nat
    /\ elections \in Nat
    /\ deletes \in Nat
    /\ deleting \in [Servers -> BOOLEAN]

\* The variables of manageLearners, outside a round and in one.
Rounds == [at : {"promote", "status", "store"}, member : Entries, progress : Tracks]

ManagerTypes ==
    /\ manager \in [Servers -> {Idle} \cup Rounds]
    /\ \A s \in Servers :
        manager[s].at \in {"status", "store"} => manager[s].progress.id = manager[s].member.id

\* Whose the members are.
Listing ==
    /\ \A m, n \in members : m.id = n.id \/ m.addr = n.addr => m = n
    /\ \A m \in members :
         /\ 1 <= m.id /\ m.id <= lastID
         /\ m.learner => m.id = lastID
         /\ ~m.learner => wal[m.addr] = m.id
         /\ m.name # Unnamed => wal[m.addr] = m.id /\ nameFile[m.addr] = m.name
         /\ \A s \in Servers : wal[s] = m.id => m.addr = s
    /\ \A s \in Servers : wal[s] <= lastID

\* What each server has when it is where it is.
Started ==
    \A s \in Servers :
        /\ proc[s] \in {"join", "add", "start", "hung"} => wal[s] = 0
        /\ proc[s] \in Running => wal[s] # 0
        /\ proc[s] # "down" => nameFile[s] # Unnamed
        /\ nameFile[s] \in {Unnamed, names[s]}
        /\ proc[s] = "ready" => \A m \in members : m.id = wal[s] => ~m.learner

\* A node has the name of an earlier life of its server while that is no member
\* or a learner.
Annotated ==
    \A s \in Servers :
        /\ node[s] <= names[s]
        /\ deleting[s] => node[s] # Unnamed
        /\ wal[s] = 0 \/ (\E m \in members : m.learner /\ m.addr = s /\ m.id = wal[s])
             => node[s] = Unnamed \/ node[s] # nameFile[s]

\* Nobody has waited for the last member for longer than it is one.
Waited(p) == p.id <= lastID /\ (p.id = lastID => p.age <= ticks \/ ticks > MaxStall)

Grace ==
    /\ Waited(progress)
    /\ \A s \in Servers : manager[s] # Idle => Waited(manager[s].progress) /\ manager[s].member.id <= lastID

\* While the leader has stayed the leader, a round is its own, and of a learner.
OneManager ==
    elections = 0 =>
        \A s \in Servers : manager[s] # Idle =>
            \/ Removed(s)
            \/ /\ IsLeader(s)
               /\ \A m \in members : m.id = manager[s].member.id => m.learner

\* A node is being deleted only when someone asked for it.
Deleted == deletes = 0 => \A s \in Servers : ~deleting[s]

\* A round is one of a process that runs.
ManagerRuns == \A s \in Servers : manager[s] # Idle => proc[s] \in Running

IInv == /\ Types /\ ManagerTypes /\ Listing /\ Started /\ Annotated /\ Grace
        /\ OneManager /\ Deleted /\ ManagerRuns

-----------------------------------------------------------------------------
(* What the conjuncts depend on                                            *)

\* A name is made up only where there is none.
LEMMA ListingSame ==
  ASSUME Listing, Types, UNCHANGED <<members, lastID, wal>>,
         \A t \in Servers : nameFile'[t] = nameFile[t] \/ nameFile[t] = Unnamed
  PROVE  Listing'
<1>1. \A m \in members : m.addr \in Servers
  BY DEF Types, Entries
<1> QED
  BY <1>1 DEF Listing

\* The other servers have what they had.
LEMMA StartedOthers ==
  ASSUME Started, UNCHANGED <<members, wal>>, NEW s \in Servers,
         \A t \in Servers : t # s => proc'[t] = proc[t] /\ nameFile'[t] = nameFile[t] /\ names'[t] = names[t],
         proc'[s] \in {"join", "add", "start", "hung"} => wal[s] = 0,
         proc'[s] \in Running => wal[s] # 0,
         proc'[s] # "down" => nameFile'[s] # Unnamed,
         nameFile'[s] \in {Unnamed, names'[s]},
         proc'[s] = "ready" => \A m \in members : m.id = wal[s] => ~m.learner
  PROVE  Started'
BY DEF Started

\* Rounds end, or go on where the process does.
LEMMA GraceSame ==
  ASSUME Grace, UNCHANGED <<lastID, progress, ticks>>,
         \A t \in Servers : manager'[t] = Idle \/ manager'[t] = manager[t]
  PROVE  Grace'
BY DEF Grace, Waited

\* A step that only ends rounds of manageLearners keeps the one manager and that
\* it runs on a running server.
LEMMA OneManagerSame ==
  ASSUME OneManager, ManagerRuns, Types, UNCHANGED <<members, wal, leader, elections>>,
         \A t \in Servers :
            manager'[t] = Idle \/ (manager'[t] = manager[t] /\ (proc[t] \in Running => proc'[t] \in Running))
  PROVE  OneManager' /\ ManagerRuns'
<1>1. ManagerRuns'
  BY DEF ManagerRuns
<1>2. ASSUME elections = 0, NEW t \in Servers, manager'[t] # Idle
      PROVE  Removed(t)' \/ (IsLeader(t)' /\ \A m \in members' : m.id = manager'[t].member.id => m.learner)
  <2>1. manager'[t] = manager[t] /\ manager[t] # Idle /\ proc'[t] \in Running /\ proc[t] \in Running
    BY <1>2 DEF ManagerRuns
  <2>2. Removed(t) => Removed(t)'
    BY DEF Removed, IDs
  <2>3. IsLeader(t) => IsLeader(t)'
    BY <2>1 DEF IsLeader, Voters, Alive
  <2> QED
    BY <1>2, <2>1, <2>2, <2>3 DEF OneManager
<1> QED
  BY <1>1, <1>2 DEF OneManager

\* setName leaves the name of its server, or makes one up that no node carries.
LEMMA SetName ==
  ASSUME Types, Started, Annotated, NEW s \in Servers, setName(s) \/ UNCHANGED <<names, nameFile>>
  PROVE  /\ names' \in [Servers -> Nat] /\ nameFile' \in [Servers -> Nat]
         /\ \A t \in Servers : t # s => nameFile'[t] = nameFile[t] /\ names'[t] = names[t]
         /\ \A t \in Servers : nameFile'[t] = nameFile[t] \/ nameFile[t] = Unnamed
         /\ nameFile'[s] \in {Unnamed, names'[s]}
         /\ setName(s) => nameFile'[s] # Unnamed
         /\ names'[s] >= names[s]
         /\ nameFile'[s] # nameFile[s] => nameFile'[s] > node[s]
BY DEF Types, Started, Annotated, setName, Unnamed

\* A name that setName (etcd.go:329) writes is newer than every annotation of a
\* node, so no node is taken for the server's next member.
LEMMA AnnotatedNames ==
  ASSUME Types, Started, Annotated, NEW s \in Servers, setName(s) \/ UNCHANGED <<names, nameFile>>,
         UNCHANGED <<members, wal, node, deleting>>
  PROVE  Annotated'
<1>1. \A t \in Servers : node[t] \in Nat /\ names[t] \in Nat /\ names'[t] \in Nat /\ nameFile'[t] \in Nat
  BY SetName DEF Types
<1>2. ASSUME NEW t \in Servers
      PROVE  names'[t] >= names[t] /\ (nameFile'[t] # nameFile[t] => nameFile'[t] > node[t])
  BY SetName, <1>1
<1> QED
  BY <1>1, <1>2 DEF Annotated

-----------------------------------------------------------------------------
(* Steps that leave the member list alone                                  *)

\* A server goes on to another phase of its Start, or ends, which ends its round.
LEMMA MovesIInv ==
  ASSUME IInv, NEW s \in Servers, NEW p \in Procs, proc' = [proc EXCEPT ![s] = p],
         setName(s) \/ UNCHANGED <<names, nameFile>>,
         UNCHANGED <<members, lastID, progress, leader, ticks, wal, index, node, deleting, deletes, elections>>,
         manager' = manager \/ manager' = [manager EXCEPT ![s] = Idle],
         p \in Running \/ manager'[s] = Idle,
         p \in {"join", "add", "start", "hung"} => wal[s] = 0,
         p \in Running => wal[s] # 0,
         p # "down" => nameFile'[s] # Unnamed,
         p = "ready" => \A m \in members : m.id = wal[s] => ~m.learner
  PROVE  IInv'
<1>0. Types /\ ManagerTypes /\ Listing /\ Started /\ Annotated /\ Grace /\ OneManager /\ Deleted /\ ManagerRuns
  BY DEF IInv
<1>1. /\ proc'[s] = p /\ \A t \in Servers : t # s => proc'[t] = proc[t]
      /\ \A t \in Servers : manager'[t] = manager[t] \/ manager'[t] = Idle
      /\ \A t \in Servers : t # s => manager'[t] = manager[t]
  BY <1>0 DEF Types, ManagerTypes
<1>2. Types'
  BY <1>0, SetName DEF Types
<1>3. ManagerTypes'
  BY <1>0, <1>1 DEF ManagerTypes, Idle
<1>4. Listing'
  BY <1>0, SetName, ListingSame
<1>5. Started'
  BY <1>0, <1>1, SetName, StartedOthers
<1>6. Annotated'
  BY <1>0, AnnotatedNames
<1>7. Grace'
  BY <1>0, <1>1, GraceSame
<1>8. OneManager' /\ ManagerRuns'
  <2>1. ASSUME NEW t \in Servers
        PROVE  manager'[t] = Idle \/ (manager'[t] = manager[t] /\ (proc[t] \in Running => proc'[t] \in Running))
    <3>1. CASE t = s
      BY <1>1, <3>1
    <3>2. CASE t # s
      BY <1>1, <3>2
    <3> QED
      BY <3>1, <3>2
  <2> QED
    BY <1>0, <2>1, OneManagerSame
<1>9. Deleted'
  BY <1>0 DEF Deleted
<1> QED
  BY <1>2, <1>3, <1>4, <1>5, <1>6, <1>7, <1>8, <1>9 DEF IInv

\* The actions of this kind.  A process that ends takes its round with it, and
\* there is none while it is not running.
LEMMA NotRunningIdle ==
  ASSUME IInv, NEW s \in Servers, proc[s] \in {"join", "add", "start", "hung", "down"}
  PROVE  manager[s] = Idle
BY DEF IInv, ManagerRuns, Running

\* A server that ends, by the fatal error of executor.ETCD (executor/etcd.go:32), of
\* removePeer (etcd.go:514) or by a crash, keeps what is on its disk.
LEMMA EndsIInv ==
  ASSUME IInv, NEW s \in Servers, RemovedStops(s) \/ Crash(s) \/ OnRemoveSelf(s)
  PROVE  IInv'
<1>1. /\ proc' = [proc EXCEPT ![s] = "down"] /\ manager' = [manager EXCEPT ![s] = Idle]
      /\ UNCHANGED <<members, lastID, progress, leader, ticks, nameFile, names, wal, index, node, deleting,
                     deletes, elections>>
  BY DEF RemovedStops, Crash, OnRemoveSelf, Goto, etcd, disk, kube, bounds
<1>2. manager'[s] = Idle
  BY <1>1 DEF IInv, ManagerTypes
<1> QED
  BY <1>1, <1>2, MovesIInv, Zenon DEF Procs, Running

\* The steps of join (etcd.go:234) before a log is begun, and its failures.
LEMMA JoinIInv ==
  ASSUME IInv, NEW s \in Servers,
         JoinList(s) \/ JoinListFails(s) \/ JoinInfoFails(s) \/ JoinAddFails(s) \/ JoinStartFails(s)
  PROVE  IInv'
<1>1. PICK p \in {"start", "add", "down", "hung"} : proc' = [proc EXCEPT ![s] = p]
  BY DEF JoinList, JoinListFails, JoinInfoFails, JoinAddFails, JoinStartFails, Goto
<1>2. /\ proc[s] \in {"join", "add", "start"}
      /\ UNCHANGED <<members, lastID, progress, leader, ticks, nameFile, names, wal, index, node, deleting,
                     deletes, elections, manager>>
  BY DEF JoinList, JoinListFails, JoinInfoFails, JoinAddFails, JoinStartFails, etcd, disk, kube, bounds
<1>3. manager'[s] = Idle /\ wal[s] = 0 /\ nameFile'[s] # Unnamed
  BY <1>2, NotRunningIdle DEF IInv, Started
<1> QED
  BY <1>1, <1>2, <1>3, MovesIInv, Zenon DEF Procs, Running

\* Test (etcd.go:88) only lets the server go on when its member has started.
LEMMA TestIInv ==
  ASSUME IInv, NEW s \in Servers, Test(s)
  PROVE  IInv'
<1>1. /\ proc[s] = "running" /\ proc' = [proc EXCEPT ![s] = "ready"]
      /\ UNCHANGED <<members, lastID, progress, leader, ticks, nameFile, names, wal, index, node, deleting,
                     deletes, elections, manager>>
  BY DEF Test, Goto, etcd, disk, kube, bounds
<1>2. wal[s] # 0 /\ nameFile'[s] # Unnamed
  BY <1>1 DEF IInv, Started, Running
<1>3. \A m \in members : m.id = wal[s] => ~m.learner
  BY DEF Test, Voters, IInv, Listing
<1> QED
  BY <1>1, <1>2, <1>3, MovesIInv, Zenon DEF Procs, Running

\* A start with data runs the member again, one without data joins under a name of
\* its own (Start, etcd.go:200; Register, etcd.go:301).
LEMMA StartsIInv ==
  ASSUME IInv, NEW s \in Servers, StartExisting(s) \/ Register(s)
  PROVE  IInv'
<1>1. PICK p \in {"running", "join"} : proc' = [proc EXCEPT ![s] = p] /\ (p = "running" => wal[s] # 0)
                                       /\ (p = "join" => wal[s] = 0)
  BY DEF StartExisting, Register, Goto
<1>2. /\ proc[s] = "down" /\ setName(s)
      /\ UNCHANGED <<members, lastID, progress, leader, ticks, wal, index, node, deleting,
                     deletes, elections, manager>>
  BY DEF StartExisting, Register, etcd, kube, bounds
<1>3. manager'[s] = Idle /\ nameFile'[s] # Unnamed
  BY <1>2, NotRunningIdle, SetName DEF IInv
<1> QED
  BY <1>1, <1>2, <1>3, MovesIInv, Zenon DEF Procs, Running

\* A step of manageLearners that leaves the members alone.
LEMMA RoundIInv ==
  ASSUME IInv, NEW s \in Servers, NEW r \in {Idle} \cup Rounds, manager' = [manager EXCEPT ![s] = r],
         proc[s] \in Running, progress' \in Tracks, Waited(progress'),
         UNCHANGED <<members, lastID, leader, ticks, nameFile, names, wal, index, node, deleting,
                     deletes, elections, proc>>,
         r # Idle => /\ Waited(r.progress) /\ r.member.id <= lastID
                     /\ r.at \in {"status", "store"} => r.progress.id = r.member.id
                     /\ elections = 0 => \/ Removed(s)
                                         \/ IsLeader(s) /\ \A m \in members : m.id = r.member.id => m.learner
  PROVE  IInv'
<1>0. Types /\ ManagerTypes /\ Listing /\ Started /\ Annotated /\ Grace /\ OneManager /\ Deleted /\ ManagerRuns
  BY DEF IInv
<1>1. manager'[s] = r /\ \A t \in Servers : t # s => manager'[t] = manager[t]
  BY <1>0 DEF ManagerTypes
<1>2. Types' /\ Listing' /\ Started' /\ Annotated' /\ Deleted' /\ ManagerRuns'
  <2>1. Types' /\ Deleted'
    BY <1>0 DEF Types, Deleted
  <2>2. Listing' /\ Started'
    BY <1>0 DEF Listing, Started
  <2>3. Annotated' /\ ManagerRuns'
    BY <1>0, <1>1 DEF Annotated, ManagerRuns
  <2> QED
    BY <2>1, <2>2, <2>3
<1>3. ManagerTypes'
  BY <1>0, <1>1 DEF ManagerTypes, Idle
<1>4. Grace'
  BY <1>0, <1>1 DEF Grace, Waited
<1>5. OneManager'
  <2>1. ASSUME elections = 0, NEW t \in Servers, manager'[t] # Idle
        PROVE  Removed(t)' \/ (IsLeader(t)' /\ \A m \in members' : m.id = manager'[t].member.id => m.learner)
    <3>1. Removed(t) \/ (IsLeader(t) /\ \A m \in members : m.id = manager'[t].member.id => m.learner)
      BY <1>0, <1>1, <2>1 DEF OneManager
    <3> QED
      BY <3>1 DEF Removed, IDs, IsLeader, Voters, Alive
  <2> QED
    BY <2>1 DEF OneManager
<1> QED
  BY <1>2, <1>3, <1>4, <1>5 DEF IInv

\* In a round the variables have their types, and the process runs.
LEMMA InRound ==
  ASSUME IInv, NEW s \in Servers, manager[s].at # "idle"
  PROVE  /\ manager[s] # Idle /\ manager[s] \in Rounds /\ proc[s] \in Running
         /\ Waited(manager[s].progress) /\ manager[s].member.id <= lastID
         /\ elections = 0 => \/ Removed(s)
                             \/ IsLeader(s) /\ \A m \in members : m.id = manager[s].member.id => m.learner
<1>1. manager[s] # Idle
  BY DEF Idle
<1>2. manager[s] \in Rounds
  BY <1>1 DEF IInv, ManagerTypes
<1> QED
  BY <1>1, <1>2 DEF IInv, ManagerRuns, Grace, OneManager

\* The leader begins a round with a learner.
LEMMA ManageReadIInv ==
  ASSUME IInv, NEW s \in Servers, ManageRead(s)
  PROVE  IInv'
<1>1. PICK m \in members \ Voters :
        manager' = [manager EXCEPT ![s] = [at |-> "promote", member |-> m, progress |-> progress]]
  BY Zenon DEF ManageRead
<1>2. PICK r : r = [at |-> "promote", member |-> m, progress |-> progress]
  BY Zenon
<1>3. /\ proc[s] \in Running /\ IsLeader(s)
      /\ UNCHANGED <<members, lastID, progress, leader, ticks, nameFile, names, wal, index, node, deleting,
                     deletes, elections, proc>>
  BY DEF ManageRead, etcd, disk, kube, bounds
<1>4. m.learner /\ m \in members /\ m \in Entries /\ progress \in Tracks /\ Waited(progress)
  BY <1>1 DEF Voters, IInv, Types, Grace
<1>5. r \in Rounds /\ r.progress = progress /\ r.member = m /\ r.at = "promote"
  BY <1>2, <1>4 DEF Rounds
<1>6. m.id <= lastID /\ \A n \in members : n.id = m.id => n.learner
  BY <1>4 DEF IInv, Listing
<1> QED
  BY <1>1, <1>2, <1>3, <1>4, <1>5, <1>6, RoundIInv, Zenon

\* The record a round follows a learner with has waited no longer than the
\* learner: it is the stored one, or a new one.
LEMMA TrackedWaited ==
  ASSUME NEW q \in Tracks, NEW m \in Entries, Waited(q), m.id <= lastID, lastID \in Nat, ticks \in Nat
  PROVE  Tracked(q, m) \in Tracks /\ Tracked(q, m).id = m.id /\ Waited(Tracked(q, m))
<1>1. CASE q.id = m.id /\ q.name = m.name
  BY <1>1, Zenon DEF Tracked
<1>2. CASE ~(q.id = m.id /\ q.name = m.name)
  <2>1. PICK p : p = [id |-> m.id, name |-> m.name, index |-> 0, age |-> 0]
    BY Zenon
  <2>2. Tracked(q, m) = p
    BY <1>2, <2>1, Zenon DEF Tracked
  <2>3. p \in Tracks /\ p.id = m.id /\ p.age = 0
    BY <2>1 DEF Tracks, Entries
  <2>4. 0 <= ticks
    OBVIOUS
  <2> QED
    BY <2>2, <2>3, <2>4, Zenon DEF Waited
<1> QED
  BY <1>1, <1>2, Zenon

\* A round of s goes on or ends.
LEMMA ManageIInv ==
  ASSUME IInv, NEW s \in Servers,
         ManageNotPromoted(s) \/ ManageStatus(s) \/ ManageNoStatus(s) \/ ManageStore(s) \/ ManageFails(s)
  PROVE  IInv'
<1>0. manager[s].at \in {"promote", "status", "store"}
  BY DEF ManageNotPromoted, ManageStatus, ManageNoStatus, ManageStore, ManageFails
<1>1. /\ manager[s] \in Rounds /\ proc[s] \in Running
      /\ manager[s].member \in Entries /\ manager[s].progress \in Tracks
      /\ Waited(manager[s].progress) /\ manager[s].member.id <= lastID
      /\ elections = 0 => \/ Removed(s)
                          \/ IsLeader(s) /\ \A m \in members : m.id = manager[s].member.id => m.learner
  BY <1>0, InRound DEF Rounds
<1>2. progress \in Tracks /\ Waited(progress) /\ lastID \in Nat /\ ticks \in Nat /\ index \in [Servers -> Nat]
  BY DEF IInv, Types, Grace
<1>3. UNCHANGED <<members, lastID, leader, ticks, nameFile, names, wal, index, node, deleting,
                  deletes, elections, proc>>
  BY DEF ManageNotPromoted, ManageStatus, ManageNoStatus, ManageStore, ManageFails, etcd, disk, kube, bounds
<1>4. CASE ManageNotPromoted(s)
  <2>1. PICK p : p = Tracked(manager[s].progress, manager[s].member)
    OBVIOUS
  <2>2. p \in Tracks /\ p.id = manager[s].member.id /\ Waited(p)
    BY <1>1, <1>2, <2>1, TrackedWaited, Zenon
  <2>3. PICK r : r = [manager[s] EXCEPT !.at = "status", !.progress = p]
    OBVIOUS
  <2>4. r \in Rounds /\ r.progress = p /\ r.member = manager[s].member
    BY <1>1, <2>2, <2>3, Zenon DEF Rounds
  <2>5. manager' = [manager EXCEPT ![s] = r] /\ progress' = progress
    BY <1>4, <2>1, <2>3, Zenon DEF ManageNotPromoted, etcd, IInv, ManagerTypes
  <2> QED
    BY <1>1, <1>2, <1>3, <2>2, <2>4, <2>5, RoundIInv, Zenon
<1>5. CASE ManageStatus(s)
  <2>1. PICK p : p = IF manager[s].progress.index < index[manager[s].member.addr]
                       THEN [manager[s].progress EXCEPT !.index = index[manager[s].member.addr], !.age = 0]
                       ELSE manager[s].progress
    OBVIOUS
  <2>2. manager[s].member.addr \in Servers /\ manager[s].progress.id = manager[s].member.id
    BY <1>1, <1>5 DEF Entries, ManageStatus, IInv, ManagerTypes
  <2>3. p \in Tracks /\ p.id = manager[s].progress.id /\ Waited(p)
    <3>1. PICK q \in Tracks : q = manager[s].progress
      BY <1>1
    <3>2. PICK i \in Nat : i = index[manager[s].member.addr]
      BY <1>2, <2>2
    <3>3. p = q \/ p = [q EXCEPT !.index = i, !.age = 0]
      BY <2>1, <3>1, <3>2
    <3>4. p \in Tracks /\ p.id = q.id /\ (p.age = q.age \/ p.age = 0)
      <4>1. CASE p = q
        BY <4>1
      <4>2. CASE p = [q EXCEPT !.index = i, !.age = 0]
        BY <4>2, Zenon DEF Tracks
      <4> QED
        BY <3>3, <4>1, <4>2
    <3> QED
      BY <1>1, <1>2, <3>1, <3>4 DEF Waited
  <2>4. PICK r : r = [manager[s] EXCEPT !.at = "store", !.progress = p]
    OBVIOUS
  <2>5. r \in Rounds /\ r.progress = p /\ r.member = manager[s].member
    BY <1>1, <2>3, <2>4, Zenon DEF Rounds
  <2>6. manager' = [manager EXCEPT ![s] = r] /\ progress' = progress
    BY <1>5, <2>1, <2>4, Zenon DEF ManageStatus, etcd, IInv, ManagerTypes
  <2> QED
    BY <1>1, <1>2, <1>3, <2>2, <2>3, <2>5, <2>6, RoundIInv, Zenon
<1>6. CASE ManageNoStatus(s)
  <2>1. PICK r : r = [manager[s] EXCEPT !.at = "store"]
    BY Zenon
  <2>2. r \in Rounds /\ r.progress = manager[s].progress /\ r.member = manager[s].member
    BY <1>1, <2>1 DEF Rounds
  <2>3. manager' = [manager EXCEPT ![s] = r] /\ progress' = progress
    BY <1>6, <2>1 DEF ManageNoStatus, etcd, IInv, ManagerTypes
  <2>4. manager[s].progress.id = manager[s].member.id
    BY <1>6 DEF ManageNoStatus, IInv, ManagerTypes
  <2> QED
    BY <1>1, <1>2, <1>3, <2>2, <2>3, <2>4, RoundIInv, Zenon
<1>7. CASE ManageStore(s) \/ ManageFails(s)
  <2>1. manager' = [manager EXCEPT ![s] = Idle] /\ (progress' = progress \/ progress' = manager[s].progress)
    BY <1>7 DEF ManageStore, ManageFails, etcd
  <2> QED
    BY <1>1, <1>2, <1>3, <2>1, RoundIInv, Zenon
<1> QED
  BY <1>4, <1>5, <1>6, <1>7

\* etcd elects a leader: while the last one is up that counts as an election.
LEMMA ElectIInv ==
  ASSUME IInv, NEW s \in Servers, Elect(s)
  PROVE  IInv'
<1>1. UNCHANGED <<members, lastID, progress, ticks, nameFile, names, wal, index, node, deleting,
                  deletes, proc, manager>>
  BY DEF Elect, disk, kube
<1>2. elections' \in Nat /\ (elections' = 0 => elections = 0 /\ ~(leader # None /\ IsLeader(leader)))
  BY DEF Elect, IInv, Types
<1>3. Types' /\ ManagerTypes' /\ Deleted' /\ ManagerRuns'
  BY <1>1, <1>2 DEF IInv, Types, ManagerTypes, Deleted, ManagerRuns
<1>4. Listing' /\ Started'
  BY <1>1 DEF IInv, Listing, Started
<1>5. Annotated' /\ Grace'
  BY <1>1 DEF IInv, Annotated, Grace, Waited
<1>6. OneManager'
  <2>1. ASSUME elections' = 0, NEW t \in Servers, manager[t] # Idle
        PROVE  Removed(t)'
    <3>1. Removed(t) \/ IsLeader(t)
      BY <1>2, <2>1 DEF IInv, OneManager
    <3>2. ~IsLeader(t)
      BY <1>2, <2>1, EtcdAssumption DEF IsLeader
    <3> QED
      BY <1>1, <3>1, <3>2 DEF Removed, IDs
  <2> QED
    BY <1>1, <2>1 DEF OneManager
<1> QED
  BY <1>3, <1>4, <1>5, <1>6 DEF IInv

\* What does not change any of the conjuncts but the types.
LEMMA CatchUpIInv ==
  ASSUME IInv, NEW s \in Servers, CatchUp(s)
  PROVE  IInv'
<1>1. UNCHANGED <<members, lastID, progress, ticks, leader, nameFile, names, wal, node, deleting,
                  deletes, elections, proc, manager>>
  BY DEF CatchUp, etcd, kube, bounds
<1>2. index' \in [Servers -> Nat]
  BY DEF CatchUp, IInv, Types
<1>3. Types' /\ ManagerTypes' /\ Deleted' /\ ManagerRuns'
  BY <1>1, <1>2 DEF IInv, Types, ManagerTypes, Deleted, ManagerRuns
<1>4. Listing' /\ Started'
  BY <1>1 DEF IInv, Listing, Started
<1>5. Annotated' /\ Grace'
  BY <1>1 DEF IInv, Annotated, Grace, Waited
<1>6. OneManager'
  BY <1>1, OneManagerSame DEF IInv
<1> QED
  BY <1>3, <1>4, <1>5, <1>6 DEF IInv

\* Time passes between the rounds.
LEMMA TickIInv ==
  ASSUME IInv, Tick
  PROVE  IInv'
<1>1. /\ \A s \in Servers : manager[s] = Idle
      /\ progress' = [progress EXCEPT !.age = @ + 1]
      /\ ticks' = IF ticks > MaxStall THEN ticks ELSE ticks + 1
      /\ UNCHANGED <<members, lastID, leader, nameFile, names, wal, index, node, deleting,
                     deletes, elections, proc, manager>>
  BY DEF Tick, disk, kube, bounds
<1>2. progress \in Tracks /\ ticks \in Nat /\ lastID \in Nat /\ MaxStall \in Nat
  BY EtcdAssumption DEF IInv, Types
<1>3. progress' \in Tracks /\ progress'.id = progress.id /\ progress'.age = progress.age + 1 /\ progress.age \in Nat
  BY <1>1, <1>2 DEF Tracks
<1>4. ticks' \in Nat /\ Waited(progress)'
  BY <1>1, <1>2, <1>3 DEF IInv, Grace, Waited
<1>5. Types' /\ ManagerTypes' /\ Deleted' /\ ManagerRuns'
  BY <1>1, <1>3, <1>4 DEF IInv, Types, ManagerTypes, Deleted, ManagerRuns
<1>6. Listing' /\ Started'
  BY <1>1 DEF IInv, Listing, Started
<1>7. Annotated'
  BY <1>1 DEF IInv, Annotated
<1>8. Grace' /\ OneManager'
  BY <1>1, <1>4 DEF Grace, OneManager
<1> QED
  BY <1>5, <1>6, <1>7, <1>8 DEF IInv

\* The nodes change, and nothing of etcd.
LEMMA NodesIInv ==
  ASSUME IInv, node' \in [Servers -> Nat], deleting' \in [Servers -> BOOLEAN], deletes' \in Nat, Annotated', Deleted',
         UNCHANGED <<members, lastID, progress, ticks, leader, nameFile, names, wal, index, elections, proc, manager>>
  PROVE  IInv'
<1>1. Types' /\ ManagerTypes' /\ ManagerRuns'
  BY DEF IInv, Types, ManagerTypes, ManagerRuns
<1>2. Listing' /\ Started' /\ Grace'
  BY DEF IInv, Listing, Started, Grace, Waited
<1>3. OneManager'
  BY OneManagerSame DEF IInv
<1> QED
  BY <1>1, <1>2, <1>3 DEF IInv

\* handleSelf (controller.go:57) annotates the node with the name of the member that
\* runs, which is a voting one by then.
LEMMA HandleSelfIInv ==
  ASSUME IInv, NEW s \in Servers, HandleSelf(s)
  PROVE  IInv'
<1>1. /\ proc[s] = "ready" /\ node' = [node EXCEPT ![s] = nameFile[s]]
      /\ UNCHANGED <<members, lastID, progress, ticks, leader, nameFile, names, wal, index, elections, proc, manager,
                     deletes, deleting>>
  BY DEF HandleSelf, etcd, disk, bounds
<1>2. /\ node' \in [Servers -> Nat] /\ node'[s] = nameFile[s] /\ nameFile[s] # Unnamed /\ nameFile[s] <= names[s]
      /\ wal[s] # 0 /\ \A m \in members : m.id = wal[s] => ~m.learner
      /\ \A t \in Servers : t # s => node'[t] = node[t]
  BY <1>1 DEF IInv, Types, Started, Running, Unnamed
<1>3. Annotated'
  BY <1>1, <1>2 DEF IInv, Annotated
<1>4. deletes' \in Nat /\ deleting' \in [Servers -> BOOLEAN] /\ Deleted'
  BY <1>1 DEF IInv, Types, Deleted
<1> QED
  BY <1>1, <1>2, <1>3, <1>4, NodesIInv

\* The node of a server is deleted; its finalizer keeps the annotation.
LEMMA DeleteNodeIInv ==
  ASSUME IInv, NEW s \in Servers, DeleteNode(s)
  PROVE  IInv'
<1>1. /\ node[s] # Unnamed /\ deletes' = deletes + 1 /\ deleting' = [deleting EXCEPT ![s] = TRUE]
      /\ UNCHANGED <<members, lastID, progress, ticks, leader, nameFile, names, wal, index, elections, proc, manager, node>>
  BY DEF DeleteNode, etcd, disk
<1>2. deletes' \in Nat /\ deletes' # 0 /\ deleting' \in [Servers -> BOOLEAN] /\ node' \in [Servers -> Nat]
  BY <1>1 DEF IInv, Types
<1>3. \A t \in Servers : deleting'[t] => t = s \/ deleting[t]
  BY <1>1 DEF IInv, Types
<1>4. Annotated'
  BY <1>1, <1>3, Zenon DEF IInv, Annotated
<1>5. Deleted'
  BY <1>2 DEF Deleted
<1> QED
  BY <1>1, <1>2, <1>4, <1>5, NodesIInv

\* The last handler of the deleted node is done and the node is gone.
LEMMA NodeGoneIInv ==
  ASSUME IInv, NEW s \in Servers, NodeGone(s)
  PROVE  IInv'
<1>1. /\ node' = [node EXCEPT ![s] = Unnamed] /\ deleting' = [deleting EXCEPT ![s] = FALSE]
      /\ UNCHANGED <<members, lastID, progress, ticks, leader, nameFile, names, wal, index, elections, proc, manager,
                     deletes>>
  BY DEF NodeGone, etcd, disk, bounds
<1>2. /\ deletes' \in Nat /\ deleting' \in [Servers -> BOOLEAN] /\ node' \in [Servers -> Nat]
      /\ names[s] \in Nat /\ node'[s] = Unnamed /\ ~deleting'[s]
      /\ \A t \in Servers : t # s => node'[t] = node[t] /\ deleting'[t] = deleting[t]
  BY <1>1 DEF IInv, Types, Unnamed
<1>3. Annotated'
  BY <1>1, <1>2 DEF IInv, Annotated, Unnamed
<1>4. Deleted'
  BY <1>1, <1>2 DEF IInv, Deleted
<1> QED
  BY <1>1, <1>2, <1>3, <1>4, NodesIInv

-----------------------------------------------------------------------------
(* Steps that change the member list                                       *)

\* The cluster is created.
LEMMA NewClusterIInv ==
  ASSUME IInv, NEW s \in Servers, NewCluster(s)
  PROVE  IInv'
<1>0. Types /\ ManagerTypes /\ Listing /\ Started /\ Annotated /\ Grace /\ OneManager /\ Deleted /\ ManagerRuns
  BY DEF IInv
<1>1. /\ proc[s] = "down" /\ lastID = 0 /\ setName(s) /\ lastID' = 1
      /\ wal' = [wal EXCEPT ![s] = 1] /\ index' = [index EXCEPT ![s] = InSync]
      /\ proc' = [proc EXCEPT ![s] = "running"]
      /\ UNCHANGED <<progress, leader, ticks, manager, node, deleting, deletes, elections>>
  BY DEF NewCluster, Goto, kube, bounds
<1>2. PICK n : n = [id |-> 1, addr |-> s, name |-> names'[s], learner |-> FALSE]
  BY Zenon
<1>3. members' = {n} /\ n.id = 1 /\ n.addr = s /\ n.name = names'[s] /\ ~n.learner
  BY <1>2 DEF NewCluster
<1>4. /\ names' \in [Servers -> Nat] /\ nameFile' \in [Servers -> Nat]
      /\ nameFile'[s] = names'[s] /\ nameFile'[s] # Unnamed
      /\ \A t \in Servers : t # s => nameFile'[t] = nameFile[t] /\ names'[t] = names[t]
      /\ names'[s] >= names[s]
  BY <1>0, <1>1, SetName
<1>5. n \in Entries
  BY <1>2, <1>4 DEF Entries
<1>6. \A t \in Servers : wal[t] = 0 /\ (t # s => wal'[t] = 0)
  BY <1>0, <1>1 DEF Types, Listing
<1>7. wal' \in [Servers -> Nat] /\ wal'[s] = 1
  BY <1>0, <1>1 DEF Types
<1>8. members = {} /\ \A t \in Servers : t # s => proc'[t] = proc[t] /\ proc[t] \notin Running
  BY <1>0, <1>1, <1>6 DEF Types, Listing, Entries, Started
<1>9. proc'[s] = "running"
  BY <1>0, <1>1 DEF Types
<1>10. Types'
  BY <1>0, <1>1, <1>3, <1>4, <1>5, <1>7, EtcdAssumption, Zenon DEF Types, Procs
<1>11. Listing'
  <2>1. 1 <= 1 /\ 0 <= 1 /\ 0 # 1
    OBVIOUS
  <2>2. \A m \in members' : m = n
    BY <1>3, Zenon
  <2>3. \A t \in Servers : wal'[t] \in {0, 1} /\ (wal'[t] = 1 => t = s)
    BY <1>6, <1>7, <2>1, Zenon
  <2>4. \A t \in Servers : wal'[t] <= 1
    BY <2>1, <2>3, Zenon
  <2> QED
    BY <1>1, <1>3, <1>4, <1>7, <2>1, <2>2, <2>3, <2>4, Zenon DEF Listing
<1>12. Started'
  <2> DEFINE Fits(t) == /\ proc'[t] \in {"join", "add", "start", "hung"} => wal'[t] = 0
                        /\ proc'[t] \in Running => wal'[t] # 0
                        /\ proc'[t] # "down" => nameFile'[t] # Unnamed
                        /\ nameFile'[t] \in {Unnamed, names'[t]}
                        /\ proc'[t] = "ready" => \A m \in members' : m.id = wal'[t] => ~m.learner
  <2>1. ASSUME NEW t \in Servers, t # s
        PROVE  Fits(t)
    <3>1. wal'[t] = wal[t] /\ proc'[t] = proc[t] /\ nameFile'[t] = nameFile[t] /\ names'[t] = names[t]
      BY <1>4, <1>6, <1>8, <2>1, Zenon
    <3>2. proc[t] \notin Running /\ proc[t] # "ready"
      BY <1>8, <2>1 DEF Running
    <3> QED
      BY <1>0, <3>1, <3>2, Zenon DEF Started
  <2>2. "running" \notin {"join", "add", "start", "hung"} /\ "running" # "ready" /\ 1 # 0
    OBVIOUS
  <2>3. Fits(s)
    BY <1>4, <1>7, <1>9, <2>2, Zenon
  <2> QED
    BY <2>1, <2>3, Zenon DEF Started
<1>13. Annotated'
  <2>1. ASSUME NEW t \in Servers
        PROVE  /\ node'[t] <= names'[t] /\ (deleting'[t] => node'[t] # Unnamed)
               /\ wal'[t] = 0 => node'[t] = Unnamed \/ node'[t] # nameFile'[t]
    <3>1. /\ node[t] <= names[t] /\ (deleting[t] => node[t] # Unnamed)
          /\ wal[t] = 0 => node[t] = Unnamed \/ node[t] # nameFile[t]
      BY <1>0, Zenon DEF Annotated
    <3>2. node'[t] = node[t] /\ deleting'[t] = deleting[t]
      BY <1>1, Zenon
    <3>3. CASE t # s
      <4>1. wal[t] = 0 /\ names'[t] = names[t] /\ nameFile'[t] = nameFile[t]
        BY <1>4, <1>6, <3>3, Zenon
      <4> QED
        BY <3>1, <3>2, <4>1, Zenon
    <3>4. CASE t = s
      <4>1. node[t] \in Nat /\ names[t] \in Nat /\ names'[t] \in Nat /\ names'[t] >= names[t]
        BY <1>0, <1>4, <3>4, Zenon DEF Types
      <4>2. node[t] <= names'[t]
        BY <3>1, <4>1
      <4>3. wal'[t] # 0
        BY <1>7, <3>4
      <4> QED
        BY <3>1, <3>2, <4>2, <4>3, Zenon
    <3> QED
      BY <3>3, <3>4, Zenon
  <2> QED
    BY <1>3, <2>1, Zenon DEF Annotated
<1>14. \A t \in Servers : manager[t] = Idle
  BY <1>0, <1>1, <1>8 DEF ManagerRuns, Running
<1>15. Grace' /\ OneManager' /\ ManagerRuns' /\ ManagerTypes' /\ Deleted'
  <2>1. progress.id \in Nat /\ progress.id <= lastID
    BY <1>0 DEF Grace, Waited, Types, Tracks
  <2>2. Waited(progress)'
    BY <1>1, <2>1 DEF Waited
  <2> QED
    BY <1>0, <1>1, <1>14, <2>2, Zenon DEF Grace, OneManager, ManagerRuns, ManagerTypes, Deleted
<1> QED
  BY <1>10, <1>11, <1>12, <1>13, <1>15 DEF IInv

\* A learner is added: it is the only one, and has an ID that nobody had.
LEMMA AddIInv ==
  ASSUME IInv, NEW s \in Servers, JoinAdd(s) \/ JoinAddUnanswered(s)
  PROVE  IInv'
<1>0. Types /\ ManagerTypes /\ Listing /\ Started /\ Annotated /\ Grace /\ OneManager /\ Deleted /\ ManagerRuns
  BY DEF IInv
<1>1. PICK p \in {"start", "down"} : proc' = [proc EXCEPT ![s] = p]
  BY DEF JoinAdd, JoinAddUnanswered, Goto
<1>2. PICK n : n = [id |-> lastID + 1, addr |-> s, name |-> Unnamed, learner |-> TRUE]
  BY Zenon
<1>3. /\ proc[s] = "add" /\ lastID' = lastID + 1 /\ members' = members \cup {n} /\ ticks' = 0
      /\ UNCHANGED <<progress, leader, nameFile, names, wal, index, manager, node, deleting, deletes, elections>>
      /\ \A m \in members : m.addr # s /\ ~m.learner
  BY <1>2 DEF JoinAdd, JoinAddUnanswered, MemberAddAsLearner, MayAdd, disk, kube, bounds
<1>4. n \in Entries /\ n.id = lastID + 1 /\ n.addr = s /\ n.name = Unnamed /\ n.learner
  BY <1>0, <1>2 DEF Entries, Types, Unnamed
<1>5. /\ proc'[s] = p /\ \A t \in Servers : t # s => proc'[t] = proc[t]
      /\ lastID \in Nat /\ \A t \in Servers : wal[t] \in Nat /\ wal[t] <= lastID /\ wal[t] # lastID + 1
      /\ wal[s] = 0 /\ nameFile[s] # Unnamed
  BY <1>0, <1>1, <1>3 DEF Types, Listing, Started
<1>6. \A m \in members : m.id \in Nat /\ m.addr \in Servers /\ m.id <= lastID
  BY <1>0 DEF Types, Entries, Listing
<1>7. Types'
  BY <1>0, <1>1, <1>3, <1>4 DEF Types, Procs
<1>8. Listing'
  <2>1. \A m \in members : /\ 1 <= m.id /\ m.id # n.id /\ m.id <= lastID + 1 /\ m.addr # n.addr /\ ~m.learner
                           /\ wal[m.addr] = m.id
    <3>1. \A m \in members : 1 <= m.id /\ m.addr # s /\ ~m.learner /\ wal[m.addr] = m.id
      BY <1>0, <1>3, Zenon DEF Listing
    <3>2. \A m \in members : m.id # lastID + 1 /\ m.id <= lastID + 1
      BY <1>5, <1>6
    <3> QED
      BY <1>4, <3>1, <3>2, Zenon
  <2>2. \A m, o \in members' : m.id = o.id \/ m.addr = o.addr => m = o
    <3>1. \A m, o \in members : m.id = o.id \/ m.addr = o.addr => m = o
      BY <1>0 DEF Listing
    <3> QED
      BY <1>3, <2>1, <3>1, Zenon
  <2>3. \A m \in members' : /\ 1 <= m.id /\ m.id <= lastID' /\ (m.learner => m.id = lastID')
                            /\ (~m.learner => wal'[m.addr] = m.id)
    <3>1. lastID \in Nat
      BY <1>5, Zenon
    <3>2. 1 <= lastID + 1 /\ lastID + 1 <= lastID + 1
      BY <3>1
    <3>3. 1 <= n.id /\ n.id <= lastID' /\ n.learner /\ n.id = lastID'
      BY <1>3, <1>4, <3>2, Zenon
    <3> QED
      BY <1>3, <2>1, <3>3, Zenon
  <2>4. \A m \in members' : m.name # Unnamed => wal'[m.addr] = m.id /\ nameFile'[m.addr] = m.name
    BY <1>0, <1>3, <1>4, Zenon DEF Listing
  <2>5. ASSUME NEW m \in members', NEW t \in Servers, wal'[t] = m.id
        PROVE  m.addr = t
    <3>1. m # n
      BY <1>3, <1>4, <1>5, <2>5
    <3>2. m \in members /\ wal[t] = m.id
      BY <1>3, <2>5, <3>1, Zenon
    <3> QED
      BY <1>0, <3>2, Zenon DEF Listing
  <2>6. \A t \in Servers : wal'[t] <= lastID'
    <3>1. \A t \in Servers : wal[t] <= lastID + 1
      BY <1>5
    <3> QED
      BY <1>3, <3>1, Zenon
  <2> QED
    BY <2>2, <2>3, <2>4, <2>5, <2>6, Zenon DEF Listing
<1>9. Started'
  <2>1. p \notin Running /\ p # "ready"
    BY <1>1 DEF Running
  <2>2. ASSUME NEW t \in Servers, t # s, proc[t] = "ready"
        PROVE  \A m \in members' : m.id = wal[t] => ~m.learner
    BY <1>3, <1>4, <1>5, <2>2, Zenon
  <2> QED
    BY <1>0, <1>3, <1>5, <2>1, <2>2, Zenon DEF Started
<1>10. Annotated'
  BY <1>0, <1>3, <1>4, <1>5, Zenon DEF Annotated
<1>11. Grace'
  <2>1. ASSUME NEW q \in Tracks, q.id <= lastID
        PROVE  q.id <= lastID' /\ q.id # lastID'
    BY <1>3, <1>5, <2>1 DEF Tracks
  <2>2. Waited(progress)'
    BY <1>0, <1>3, <2>1, Zenon DEF Grace, Waited, Types
  <2>3. ASSUME NEW t \in Servers, manager[t] # Idle
        PROVE  Waited(manager[t].progress)' /\ manager[t].member.id <= lastID + 1
    <3>1. manager[t].progress \in Tracks /\ manager[t].member \in Entries
      BY <1>0, <2>3 DEF ManagerTypes, Rounds
    <3>2. manager[t].progress.id <= lastID /\ manager[t].member.id <= lastID /\ manager[t].member.id \in Nat
      BY <1>0, <2>3, <3>1 DEF Grace, Waited, Entries
    <3>3. manager[t].member.id <= lastID + 1
      BY <1>5, <3>2
    <3> QED
      BY <1>3, <2>1, <3>1, <3>2, <3>3, Zenon DEF Waited
  <2> QED
    BY <1>3, <2>2, <2>3, Zenon DEF Grace
<1>12. ManagerRuns' /\ ManagerTypes' /\ Deleted'
  BY <1>0, <1>3, <1>5, Zenon DEF ManagerRuns, ManagerTypes, Deleted, Running
<1>13. OneManager'
  <2>1. ASSUME elections = 0, NEW t \in Servers, manager[t] # Idle
        PROVE  Removed(t)' \/ (IsLeader(t)' /\ \A m \in members' : m.id = manager'[t].member.id => m.learner)
    <3>1. proc'[t] = proc[t]
      BY <1>0, <1>3, <1>5, <2>1 DEF ManagerRuns, Running
    <3>2. Removed(t) => Removed(t)'
      BY <1>3, <1>4, <1>5 DEF Removed, IDs
    <3>3. IsLeader(t) => IsLeader(t)'
      BY <1>3, <3>1 DEF IsLeader, Voters, Alive
    <3>4. n.learner
      BY <1>4
    <3> QED
      BY <1>0, <1>3, <2>1, <3>2, <3>3, <3>4, Zenon DEF OneManager
  <2> QED
    BY <1>3, <2>1 DEF OneManager
<1> QED
  BY <1>7, <1>8, <1>9, <1>10, <1>11, <1>12, <1>13 DEF IInv

\* An entry is replaced by one of the same member: it has a name now, or a vote.
LEMMA ReplaceIInv ==
  ASSUME IInv, NEW m \in members, NEW n \in Entries, members' = (members \ {m}) \cup {n},
         n.id = m.id, n.addr = m.addr, n.learner => m.learner, wal[m.addr] = m.id,
         n.name = m.name \/ n.name = nameFile[m.addr],
         UNCHANGED <<lastID, progress, leader, ticks, nameFile, names, wal, index, proc, node, deleting,
                     deletes, elections>>,
         ManagerTypes', \A t \in Servers : manager'[t] = Idle \/ manager'[t] = manager[t],
         elections = 0 => n.learner \/ ~m.learner \/ \A t \in Servers : manager'[t] # Idle => Removed(t)
  PROVE  IInv'
<1>0. Types /\ ManagerTypes /\ Listing /\ Started /\ Annotated /\ Grace /\ OneManager /\ Deleted /\ ManagerRuns
  BY DEF IInv
<1>1. Types' /\ Deleted'
  BY <1>0, Zenon DEF Types, Deleted
<1>2. \A o \in members' : o = n \/ (o \in members /\ o # m)
  OBVIOUS
<1>3. m.addr \in Servers
  BY <1>0, Zenon DEF Types, Entries
<1>4. Listing'
  <2>1. \A o, q \in members' : o.id = q.id \/ o.addr = q.addr => o = q
    <3>1. \A o, q \in members : o.id = q.id \/ o.addr = q.addr => o = q
      BY <1>0, Zenon DEF Listing
    <3>2. \A o \in members : o # m => o.id # n.id /\ o.addr # n.addr
      BY <3>1
    <3> QED
      BY <1>2, <3>1, <3>2, Zenon
  <2>2. \A o \in members' : 1 <= o.id /\ o.id <= lastID /\ (o.learner => o.id = lastID)
                            /\ (~o.learner => wal[o.addr] = o.id)
    BY <1>0, <1>2, Zenon DEF Listing
  <2>3. \A o \in members' : /\ (o.name # Unnamed => wal[o.addr] = o.id /\ nameFile[o.addr] = o.name)
                            /\ \A t \in Servers : wal[t] = o.id => o.addr = t
    <3>1. \A o \in members : /\ (o.name # Unnamed => wal[o.addr] = o.id /\ nameFile[o.addr] = o.name)
                             /\ \A t \in Servers : wal[t] = o.id => o.addr = t
      BY <1>0, Zenon DEF Listing
    <3>2. /\ (n.name # Unnamed => wal[n.addr] = n.id /\ nameFile[n.addr] = n.name)
          /\ \A t \in Servers : wal[t] = n.id => n.addr = t
      BY <3>1, Zenon
    <3> QED
      BY <1>2, <3>1, <3>2, Zenon
  <2> QED
    BY <1>0, <2>1, <2>2, <2>3, Zenon DEF Listing
<1>5. Started'
  <2>1. ASSUME NEW t \in Servers, proc[t] = "ready", NEW o \in members', o.id = wal[t]
        PROVE  ~o.learner
    <3>1. \A q \in members : q.id = wal[t] => ~q.learner
      BY <1>0, <2>1, Zenon DEF Started
    <3> QED
      BY <1>2, <2>1, <3>1, Zenon
  <2> QED
    BY <1>0, <2>1, Zenon DEF Started
<1>6. Annotated'
  <2>1. ASSUME NEW t \in Servers, NEW o \in members', o.learner, o.addr = t, o.id = wal[t]
        PROVE  \E q \in members : q.learner /\ q.addr = t /\ q.id = wal[t]
    <3>1. CASE o = n
      <4>1. m.learner /\ m.addr = t /\ m.id = wal[t]
        BY <2>1, <3>1, Zenon
      <4> QED
        BY <4>1, Zenon
    <3>2. CASE o \in members
      BY <2>1, <3>2, Zenon
    <3> QED
      BY <1>2, <3>1, <3>2, Zenon
  <2> QED
    BY <1>0, <2>1, Zenon DEF Annotated
<1>7. Grace'
  BY <1>0, GraceSame, Zenon
<1>8. ManagerRuns'
  BY <1>0, Zenon DEF ManagerRuns
<1>9. OneManager'
  <2>1. ASSUME elections = 0, NEW t \in Servers, manager'[t] # Idle
        PROVE  Removed(t)' \/ (IsLeader(t)' /\ \A o \in members' : o.id = manager'[t].member.id => o.learner)
    <3>1. Removed(t) => Removed(t)'
      <4>1. \A o \in members' : \E q \in members : q.id = o.id
        BY <1>2, Zenon
      <4>2. Removed(t) => \A q \in members : q.id # wal[t]
        BY Zenon DEF Removed, IDs
      <4>3. ASSUME Removed(t), NEW o \in members', o.id = wal'[t]
            PROVE  FALSE
        <5>1. wal' = wal /\ \E q \in members : q.id = o.id
          BY <4>1, Zenon
        <5>2. PICK q \in members : q.id = wal[t]
          BY <4>3, <5>1, Zenon
        <5> QED
          BY <4>2, <4>3, <5>2, Zenon
      <4> QED
        BY <4>3, Zenon DEF Removed, IDs
    <3>2. CASE Removed(t)
      BY <3>1, <3>2, Zenon
    <3>3. CASE ~Removed(t)
      <4>1. IsLeader(t) /\ \A o \in members : o.id = manager'[t].member.id => o.learner
        BY <1>0, <2>1, <3>3, Zenon DEF OneManager
      <4>2. n.learner \/ ~m.learner
        BY <2>1, <3>3, Zenon
      <4>3. IsLeader(t)'
        BY <4>1, Zenon DEF IsLeader, Voters, Alive
      <4>4. \A o \in members' : o.id = manager'[t].member.id => o.learner
        BY <1>2, <4>1, <4>2, Zenon
      <4> QED
        BY <4>3, <4>4, Zenon
    <3> QED
      BY <3>2, <3>3, Zenon
  <2> QED
    BY <2>1, Zenon DEF OneManager
<1> QED
  BY <1>1, <1>4, <1>5, <1>6, <1>7, <1>8, <1>9 DEF IInv

\* The entry of s after it published its name.
LEMMA PublishEffect ==
  ASSUME IInv, NEW s \in Servers, Publish(s)
  PROVE  \E m \in members, n \in Entries :
            /\ members' = (members \ {m}) \cup {n} /\ n.id = m.id /\ n.addr = m.addr /\ n.learner = m.learner
            /\ n.name = nameFile[m.addr] /\ wal[m.addr] = m.id
<1>1. PICK m \in members : m.id = wal[s] /\ members' = (members \ {m}) \cup {[m EXCEPT !.name = nameFile[s]]}
  BY DEF Publish
<1>2. m \in Entries /\ nameFile[s] \in Nat /\ m.addr = s
  BY <1>1 DEF IInv, Types, Listing
<1>3. PICK n : n = [m EXCEPT !.name = nameFile[s]]
  BY Zenon
<1>4. n.id = m.id /\ n.addr = m.addr /\ n.learner = m.learner /\ n.name = nameFile[s] /\ n \in Entries
  BY <1>2, <1>3 DEF Entries
<1> QED
  BY <1>1, <1>2, <1>3, <1>4, Zenon

\* A started member publishes its name.
LEMMA PublishIInv ==
  ASSUME IInv, NEW s \in Servers, Publish(s)
  PROVE  IInv'
<1>1. UNCHANGED <<lastID, progress, leader, ticks, nameFile, names, wal, index, proc, node, deleting,
                  deletes, elections, manager>>
  BY DEF Publish, disk, kube, bounds
<1>2. ManagerTypes'
  BY <1>1, Zenon DEF IInv, ManagerTypes
<1>3. PICK m \in members, n \in Entries :
            /\ members' = (members \ {m}) \cup {n} /\ n.id = m.id /\ n.addr = m.addr /\ n.learner = m.learner
            /\ n.name = nameFile[m.addr] /\ wal[m.addr] = m.id
  BY PublishEffect
<1>4. n.learner \/ ~m.learner
  BY <1>3
<1> QED
  BY <1>1, <1>2, <1>3, <1>4, ReplaceIInv, Zenon

\* A learner that is promoted has its data, and runs.
LEMMA PromoteEffect ==
  ASSUME IInv, NEW s \in Servers, ManagePromote(s)
  PROVE  \E m \in members, n \in Entries :
            /\ members' = (members \ {m}) \cup {n} /\ n.id = m.id /\ n.addr = m.addr /\ n.name = m.name
            /\ m.learner /\ ~n.learner /\ Alive(m)
<1>1. PICK m \in members : MayPromote(m) /\ members' = (members \ {m}) \cup {[m EXCEPT !.learner = FALSE]}
  BY DEF ManagePromote
<1>2. m \in Entries
  BY DEF IInv, Types
<1>3. PICK n : n = [m EXCEPT !.learner = FALSE]
  BY Zenon
<1>4. n.id = m.id /\ n.addr = m.addr /\ n.name = m.name /\ ~n.learner /\ n \in Entries
  BY <1>2, <1>3, Zenon DEF Entries
<1> QED
  BY <1>1, <1>3, <1>4, Zenon DEF MayPromote

\* manageLearners promotes a learner (etcd.go:578): it has caught up, so its server
\* has a log of it, and no other round holds a stale view of it.
LEMMA ManagePromoteIInv ==
  ASSUME IInv, NEW s \in Servers, ManagePromote(s)
  PROVE  IInv'
<1>1. /\ manager[s].at = "promote" /\ ~Removed(s) /\ manager' = [manager EXCEPT ![s] = Idle]
      /\ UNCHANGED <<lastID, progress, leader, ticks, nameFile, names, wal, index, proc, node, deleting,
                     deletes, elections>>
  BY DEF ManagePromote, Answered, disk, kube, bounds
<1>2. ManagerTypes' /\ manager'[s] = Idle /\ \A t \in Servers : t # s => manager'[t] = manager[t]
  BY <1>1, Zenon DEF IInv, ManagerTypes, Idle
<1>3. PICK m \in members, n \in Entries :
            /\ members' = (members \ {m}) \cup {n} /\ n.id = m.id /\ n.addr = m.addr /\ n.name = m.name
            /\ m.learner /\ ~n.learner /\ Alive(m)
  BY PromoteEffect
<1>4. elections = 0 => \A t \in Servers : manager'[t] # Idle => Removed(t)
  <2>1. manager[s] # Idle
    BY <1>1 DEF Idle
  <2> QED
    BY <1>1, <1>2, <2>1, Zenon DEF IInv, OneManager, IsLeader
<1>5. wal[m.addr] = m.id
  BY <1>3 DEF Alive
<1> QED
  BY <1>1, <1>2, <1>3, <1>4, <1>5, ReplaceIInv, Zenon

\* Members are removed.
LEMMA RemoveIInv ==
  ASSUME IInv, members' \subseteq members,
         UNCHANGED <<lastID, progress, leader, ticks, nameFile, names, wal, index, proc, node, deleting,
                     deletes, elections>>,
         ManagerTypes', \A t \in Servers : manager'[t] = Idle \/ manager'[t] = manager[t]
  PROVE  IInv'
<1>0. Types /\ ManagerTypes /\ Listing /\ Started /\ Annotated /\ Grace /\ OneManager /\ Deleted /\ ManagerRuns
  BY DEF IInv
<1>1. Types' /\ Deleted'
  BY <1>0 DEF Types, Deleted
<1>2. Listing'
  BY <1>0, Zenon DEF Listing
<1>3. Started' /\ Annotated'
  BY <1>0, Zenon DEF Started, Annotated
<1>4. Grace' /\ ManagerRuns'
  BY <1>0, GraceSame, Zenon DEF ManagerRuns
<1>5. OneManager'
  <2>1. ASSUME elections = 0, NEW t \in Servers, manager'[t] # Idle
        PROVE  Removed(t)' \/ (IsLeader(t)' /\ \A o \in members' : o.id = manager'[t].member.id => o.learner)
    <3>1. Removed(t) => Removed(t)'
      BY Zenon DEF Removed, IDs
    <3>2. IsLeader(t) => IsLeader(t)' \/ Removed(t)'
      <4>1. ASSUME IsLeader(t), ~IsLeader(t)'
            PROVE  Removed(t)'
        <5>1. PICK m \in members : ~m.learner /\ m.addr = t /\ proc[t] \in Running /\ wal[t] = m.id /\ leader = t
          BY <4>1, Zenon DEF IsLeader, Voters, Alive
        <5>2. m \notin members'
          BY <4>1, <5>1, Zenon DEF IsLeader, Voters, Alive
        <5>3. \A o \in members : o.id = m.id => o = m
          BY <1>0, <5>1, Zenon DEF Listing
        <5>4. m.id # 0
          BY <1>0, <5>1, Zenon DEF Started
        <5>5. wal'[t] = m.id /\ \A o \in members' : o.id # m.id
          BY <5>1, <5>2, <5>3, Zenon
        <5> QED
          BY <5>4, <5>5, Zenon DEF Removed, IDs
      <4> QED
        BY <4>1
    <3> QED
      BY <1>0, <2>1, <3>1, <3>2, Zenon DEF OneManager
  <2> QED
    BY <2>1, Zenon DEF OneManager
<1> QED
  BY <1>1, <1>2, <1>3, <1>4, <1>5, Zenon DEF IInv

\* A member leaves the list: evicted (etcd.go:619) or with its node (controller.go:77).
LEMMA RemovesIInv ==
  ASSUME IInv, NEW s \in Servers, ManageEvict(s) \/ \E r \in Servers : OnRemove(r, s)
  PROVE  IInv'
<1>1. CASE ManageEvict(s)
  <2>1. /\ members' \subseteq members /\ manager' = [manager EXCEPT ![s] = Idle]
        /\ UNCHANGED <<lastID, progress, leader, ticks, nameFile, names, wal, index, proc, node, deleting,
                       deletes, elections>>
    BY <1>1, Zenon DEF ManageEvict, disk, kube, bounds
  <2>2. ManagerTypes' /\ \A t \in Servers : manager'[t] = Idle \/ manager'[t] = manager[t]
    BY <2>1, Zenon DEF IInv, ManagerTypes, Idle
  <2> QED
    BY <2>1, <2>2, RemoveIInv
<1>2. CASE \E r \in Servers : OnRemove(r, s)
  <2>1. /\ members' \subseteq members
        /\ UNCHANGED <<lastID, progress, leader, ticks, nameFile, names, wal, index, proc, node, deleting,
                       deletes, elections, manager>>
    BY <1>2, Zenon DEF OnRemove, disk, kube, bounds
  <2>2. ManagerTypes'
    BY <2>1, Zenon DEF IInv, ManagerTypes
  <2> QED
    BY <2>1, <2>2, RemoveIInv
<1> QED
  BY <1>1, <1>2

-----------------------------------------------------------------------------
(* Steps that change what a server has on its disk                         *)

\* A joined server begins a write-ahead log for the learner that was added.
LEMMA JoinStartIInv ==
  ASSUME IInv, NEW s \in Servers, JoinStart(s)
  PROVE  IInv'
<1>0. Types /\ ManagerTypes /\ Listing /\ Started /\ Annotated /\ Grace /\ OneManager /\ Deleted /\ ManagerRuns
  BY DEF IInv
<1>1. PICK m \in members : m.addr = s /\ wal' = [wal EXCEPT ![s] = m.id]
  BY Zenon DEF JoinStart
<1>2. /\ proc[s] = "start" /\ index' = [index EXCEPT ![s] = 0] /\ proc' = [proc EXCEPT ![s] = "running"]
      /\ UNCHANGED <<members, lastID, progress, leader, ticks, nameFile, names, manager, node, deleting,
                     deletes, elections>>
  BY Zenon DEF JoinStart, Goto, etcd, kube, bounds
<1>3. wal[s] = 0 /\ nameFile[s] # Unnamed /\ manager[s] = Idle
  BY <1>0, <1>2, NotRunningIdle, Zenon DEF Started
<1>4. m.id \in Nat /\ m.id >= 1 /\ m.id <= lastID /\ m.learner /\ \A o \in members : o.id = m.id \/ o.addr = s => o = m
  BY <1>0, <1>1, <1>3 DEF Types, Entries, Listing
<1>5. /\ wal' \in [Servers -> Nat] /\ wal'[s] = m.id /\ \A t \in Servers : t # s => wal'[t] = wal[t]
      /\ proc'[s] = "running" /\ \A t \in Servers : t # s => proc'[t] = proc[t]
  BY <1>0, <1>1, <1>2, <1>4 DEF Types
<1>6. Types' /\ Deleted'
  BY <1>0, <1>2, <1>5, Zenon DEF Types, Deleted, Procs
<1>7. Listing'
  <2>1. \A o \in members : /\ (~o.learner => wal'[o.addr] = o.id)
                           /\ (o.name # Unnamed => wal'[o.addr] = o.id /\ nameFile[o.addr] = o.name)
    <3>1. \A o \in members : o.addr \in Servers
      BY <1>0 DEF Types, Entries
    <3> QED
      BY <1>0, <1>3, <1>4, <1>5, <3>1, Zenon DEF Listing
  <2>2. ASSUME NEW o \in members, NEW t \in Servers, wal'[t] = o.id
        PROVE  o.addr = t
    <3>1. CASE t = s
      BY <1>1, <1>4, <1>5, <2>2, <3>1, Zenon
    <3>2. CASE t # s
      <4>1. wal[t] = o.id
        BY <1>5, <2>2, <3>2, Zenon
      <4>2. \A x \in members, u \in Servers : wal[u] = x.id => x.addr = u
        BY <1>0, Zenon DEF Listing
      <4> QED
        BY <4>1, <4>2, Zenon
    <3> QED
      BY <3>1, <3>2, Zenon
  <2>3. \A t \in Servers : wal'[t] <= lastID
    BY <1>0, <1>4, <1>5, Zenon DEF Listing
  <2> QED
    BY <1>0, <1>2, <2>1, <2>2, <2>3, Zenon DEF Listing
<1>8. Started'
  <2>1. nameFile[s] \in {Unnamed, names[s]}
    BY <1>0, Zenon DEF Started
  <2>2. wal'[s] # 0
    BY <1>4, <1>5
  <2>3. ASSUME NEW t \in Servers
        PROVE  /\ proc'[t] \in {"join", "add", "start", "hung"} => wal'[t] = 0
               /\ proc'[t] \in Running => wal'[t] # 0
               /\ proc'[t] # "down" => nameFile'[t] # Unnamed
               /\ nameFile'[t] \in {Unnamed, names'[t]}
               /\ proc'[t] = "ready" => \A o \in members' : o.id = wal'[t] => ~o.learner
    <3>1. CASE t = s
      BY <1>2, <1>3, <1>5, <2>1, <2>2, <3>1, Zenon
    <3>2. CASE t # s
      BY <1>0, <1>2, <1>5, <3>2, Zenon DEF Started
    <3> QED
      BY <3>1, <3>2, Zenon
  <2> QED
    BY <2>3, Zenon DEF Started
<1>9. Annotated'
  <2>1. node[s] = Unnamed \/ node[s] # nameFile[s]
    BY <1>0, <1>3, Zenon DEF Annotated
  <2>2. /\ node' = node /\ names' = names /\ deleting' = deleting /\ nameFile' = nameFile /\ members' = members
        /\ \A t \in Servers : t # s => wal'[t] = wal[t]
    BY <1>2, <1>5
  <2>3. ASSUME NEW t \in Servers
        PROVE  node'[t] <= names'[t] /\ (deleting'[t] => node'[t] # Unnamed)
    BY <1>0, <2>2, Zenon DEF Annotated
  <2>4. ASSUME NEW t \in Servers, wal'[t] = 0 \/ \E o \in members' : o.learner /\ o.addr = t /\ o.id = wal'[t]
        PROVE  node'[t] = Unnamed \/ node'[t] # nameFile'[t]
    <3>1. CASE t = s
      BY <2>1, <2>2, <3>1, Zenon
    <3>2. CASE t # s
      BY <1>0, <2>2, <2>4, <3>2, Zenon DEF Annotated
    <3> QED
      BY <3>1, <3>2, Zenon
  <2> QED
    BY <2>3, <2>4, Zenon DEF Annotated
<1>10. Grace' /\ ManagerTypes'
  BY <1>0, <1>2, GraceSame DEF ManagerTypes
<1>11. ManagerRuns'
  BY <1>0, <1>2, <1>5 DEF ManagerRuns, Running
<1>12. OneManager'
  <2>1. ASSUME elections = 0, NEW t \in Servers, manager[t] # Idle
        PROVE  Removed(t)' \/ (IsLeader(t)' /\ \A o \in members' : o.id = manager'[t].member.id => o.learner)
    <3>1. wal'[t] = wal[t] /\ proc'[t] = proc[t]
      BY <1>3, <1>5, <2>1, Zenon
    <3>2. Removed(t) => Removed(t)'
      BY <1>2, <3>1 DEF Removed, IDs
    <3>3. IsLeader(t) => IsLeader(t)'
      BY <1>2, <3>1 DEF IsLeader, Voters, Alive
    <3> QED
      BY <1>0, <1>2, <2>1, <3>2, <3>3, Zenon DEF OneManager
  <2> QED
    BY <1>2, <2>1 DEF OneManager
<1> QED
  BY <1>6, <1>7, <1>8, <1>9, <1>10, <1>11, <1>12 DEF IInv

\* The data of a member that was removed is deleted, with its name.
LEMMA DeleteDBIInv ==
  ASSUME IInv, NEW s \in Servers, DeleteDB(s)
  PROVE  IInv'
<1>0. Types /\ ManagerTypes /\ Listing /\ Started /\ Annotated /\ Grace /\ OneManager /\ Deleted /\ ManagerRuns
  BY DEF IInv
<1>1. /\ proc[s] = "down" /\ Removed(s) /\ wal' = [wal EXCEPT ![s] = 0]
      /\ nameFile' = [nameFile EXCEPT ![s] = Unnamed] /\ index' = [index EXCEPT ![s] = 0]
      /\ UNCHANGED <<members, lastID, progress, leader, ticks, names, proc, manager, node, deleting,
                     deletes, elections>>
  BY DEF DeleteDB, etcd, kube, bounds
<1>2. manager[s] = Idle /\ \A m \in members : m.id # wal[s]
  BY <1>1, NotRunningIdle, Zenon DEF Removed, IDs
<1>3. \A m \in members : m.addr = s => m.learner /\ m.name = Unnamed
  BY <1>0, <1>2, Zenon DEF Listing
<1>4. /\ wal' \in [Servers -> Nat] /\ nameFile' \in [Servers -> Nat] /\ wal'[s] = 0 /\ nameFile'[s] = Unnamed
      /\ \A t \in Servers : t # s => wal'[t] = wal[t] /\ nameFile'[t] = nameFile[t]
  BY <1>0, <1>1 DEF Types, Unnamed
<1>5. Types' /\ Deleted'
  BY <1>0, <1>1, <1>4 DEF Types, Deleted
<1>6. Listing'
  <2>1. \A o \in members : o.addr \in Servers /\ o.id >= 1 /\ o.id \in Nat
    BY <1>0, Zenon DEF Types, Entries, Listing
  <2>2. \A o \in members : /\ (~o.learner => wal'[o.addr] = o.id)
                           /\ (o.name # Unnamed => wal'[o.addr] = o.id /\ nameFile'[o.addr] = o.name)
    BY <1>0, <1>3, <1>4, <2>1, Zenon DEF Listing
  <2>3. \A o \in members : \A t \in Servers : wal'[t] = o.id => o.addr = t
    <3>1. \A o \in members : o.id # 0
      BY <2>1
    <3>2. \A o \in members, t \in Servers : wal[t] = o.id => o.addr = t
      BY <1>0, Zenon DEF Listing
    <3> QED
      BY <1>4, <3>1, <3>2, Zenon
  <2>4. \A t \in Servers : wal'[t] <= lastID
    <3>1. 0 <= lastID
      BY <1>0 DEF Types
    <3>2. \A t \in Servers : wal[t] <= lastID
      BY <1>0, Zenon DEF Listing
    <3> QED
      BY <1>4, <3>1, <3>2, Zenon
  <2> QED
    BY <1>0, <1>1, <2>2, <2>3, <2>4, Zenon DEF Listing
<1>7. Started'
  BY <1>0, <1>1, <1>4, Zenon DEF Started, Running
<1>8. Annotated'
  BY <1>0, <1>1, <1>3, <1>4, Zenon DEF Annotated
<1>9. Grace' /\ ManagerTypes' /\ ManagerRuns'
  BY <1>0, <1>1, GraceSame, Zenon DEF ManagerTypes, ManagerRuns
<1>10. OneManager'
  <2>1. ASSUME elections = 0, NEW t \in Servers, manager[t] # Idle
        PROVE  Removed(t)' \/ (IsLeader(t)' /\ \A o \in members' : o.id = manager'[t].member.id => o.learner)
    <3>1. wal'[t] = wal[t] /\ proc'[t] = proc[t]
      BY <1>1, <1>2, <1>4, <2>1, Zenon
    <3>2. Removed(t) => Removed(t)'
      BY <1>1, <3>1, Zenon DEF Removed, IDs
    <3>3. IsLeader(t) => IsLeader(t)'
      BY <1>1, <3>1, Zenon DEF IsLeader, Voters, Alive
    <3> QED
      BY <1>0, <1>1, <2>1, <3>2, <3>3, Zenon DEF OneManager
  <2> QED
    BY <1>1, <2>1, Zenon DEF OneManager
<1> QED
  BY <1>5, <1>6, <1>7, <1>8, <1>9, <1>10 DEF IInv

-----------------------------------------------------------------------------
(* The invariant                                                           *)

\* At first there is no cluster.
LEMMA InitIInv ==
  ASSUME Init
  PROVE  IInv
<1>1. Types
  <2>1. NoProgress \in Tracks
    BY DEF NoProgress, Tracks, Unnamed
  <2> QED
    BY <2>1 DEF Init, Types, Procs, Unnamed
<1>2. ManagerTypes
  BY Zenon DEF Init, ManagerTypes, Idle
<1>3. Listing /\ Started
  BY DEF Init, Listing, Started, Running
<1>4. Annotated /\ Deleted
  BY DEF Init, Annotated, Deleted, Unnamed
<1>5. Grace /\ OneManager /\ ManagerRuns
  <2>1. /\ \A s \in Servers : manager[s] = Idle
        /\ lastID = 0 /\ progress.id = 0 /\ progress.age = 0 /\ ticks \in Nat
    BY <1>1, Zenon DEF Init, Types, NoProgress
  <2> QED
    <3>1. Waited(progress)
      BY <2>1 DEF Waited
    <3> QED
      BY <2>1, <3>1, Zenon DEF Grace, OneManager, ManagerRuns
<1> QED
  BY <1>1, <1>2, <1>3, <1>4, <1>5 DEF IInv

\* Every step keeps the invariant.
LEMMA NextIInv ==
  ASSUME IInv, [Next]_vars
  PROVE  IInv'
<1>1. CASE Next
  BY <1>1, TickIInv, NewClusterIInv, StartsIInv, JoinIInv, AddIInv, JoinStartIInv, TestIInv, ManageReadIInv,
     ManagePromoteIInv, ManageIInv, RemovesIInv, PublishIInv, CatchUpIInv, EndsIInv, ElectIInv, DeleteDBIInv,
     HandleSelfIInv, DeleteNodeIInv, NodeGoneIInv, Zenon
     DEF Next, StartStep, ManageStep, EtcdStep
<1>2. CASE UNCHANGED vars
  <2>1. UNCHANGED <<members, lastID, progress, leader, ticks, nameFile, names, wal, index, proc, manager, node,
                    deleting, deletes, elections>>
    BY <1>2 DEF vars, etcd, disk, kube, bounds
  <2>2. node' \in [Servers -> Nat] /\ deleting' \in [Servers -> BOOLEAN] /\ deletes' \in Nat /\ Annotated' /\ Deleted'
    BY <2>1 DEF IInv, Types, Annotated, Deleted
  <2> QED
    BY <2>1, <2>2, NodesIInv
<1> QED
  BY <1>1, <1>2

\* The inductive invariant: whose the entries of the member list are, and whose
\* the rounds of manageLearners (join, setName, manageLearners, removePeer).
THEOREM Invariance == Spec => []IInv
<1>1. Init => IInv
  BY InitIInv
<1>2. IInv /\ [Next]_vars => IInv'
  BY NextIInv
<1> QED
  BY <1>1, <1>2, PTL DEF Spec

\* A voting member is a server that has the member's data, under the name in its
\* name file once that is published (join, setName, cluster).
THEOREM VotersHaveDataHolds == Spec => []VotersHaveData
<1>1. IInv => VotersHaveData
  BY DEF IInv, Listing, VotersHaveData, Voters
<1> QED
  BY <1>1, Invariance, PTL

-----------------------------------------------------------------------------
(* How the member list changes                                             *)

\* A learner is added.
Adds ==
    \E n \in Entries, s \in Servers :
        /\ members' = members \cup {n} /\ n.learner
        /\ proc[s] \notin Running /\ proc'[s] \notin Running
        /\ \A t \in Servers : t # s => proc'[t] = proc[t]
        /\ UNCHANGED wal

\* An entry gets its name.
Names ==
    \E m \in members, n \in Entries :
        /\ members' = (members \ {m}) \cup {n} /\ n.id = m.id /\ n.addr = m.addr /\ n.learner = m.learner
        /\ UNCHANGED <<proc, wal>>

\* A learner that runs gets a vote.
Promotes ==
    \E m \in members, n \in Entries :
        /\ members' = (members \ {m}) \cup {n} /\ n.id = m.id /\ n.addr = m.addr
        /\ m.learner /\ ~n.learner /\ Alive(m)
        /\ UNCHANGED <<proc, wal>>

\* The member of a round that finds it stalled is removed.
Evicts ==
    \E s \in Servers :
        /\ manager[s].at = "store" /\ ~Removed(s) /\ Stalled(manager[s].progress)
        /\ members' = {m \in members : m.id # manager[s].member.id}
        /\ UNCHANGED <<proc, wal>>

\* The member of a node that is being deleted is removed.
Deletes ==
    \E s \in Servers :
        /\ deleting[s] /\ members' = members \ peer(s)
        /\ UNCHANGED <<proc, wal>>

\* There is no other way (JoinAdd, Publish, MemberPromote, MemberRemove).
LEMMA Changes ==
  ASSUME IInv, [Next]_vars
  PROVE  members' = members \/ members = {} \/ Adds \/ Names \/ Promotes \/ Evicts \/ Deletes
<1>1. ASSUME NEW s \in Servers, NewCluster(s)
      PROVE  members = {}
  <2>1. \A m \in members : 1 <= m.id /\ m.id <= 0 /\ m.id \in Nat
    BY <1>1, Zenon DEF NewCluster, IInv, Listing, Types, Entries
  <2> QED
    BY <2>1
<1>2. ASSUME NEW s \in Servers, JoinAdd(s) \/ JoinAddUnanswered(s)
      PROVE  Adds
  <2>1. PICK n : n = [id |-> lastID + 1, addr |-> s, name |-> Unnamed, learner |-> TRUE]
    BY Zenon
  <2>2. members' = members \cup {n} /\ proc[s] = "add" /\ UNCHANGED wal
    BY <1>2, <2>1, Zenon DEF JoinAdd, JoinAddUnanswered, MemberAddAsLearner, disk
  <2>3. n \in Entries /\ n.learner
    BY <2>1 DEF IInv, Types, Entries, Unnamed
  <2>4. proc'[s] \in {"start", "down"} /\ \A t \in Servers : t # s => proc'[t] = proc[t]
    BY <1>2 DEF JoinAdd, JoinAddUnanswered, Goto, IInv, Types
  <2> QED
    BY <2>2, <2>3, <2>4, Zenon DEF Adds, Running
<1>3. ASSUME NEW s \in Servers, Publish(s)
      PROVE  Names
  BY <1>3, PublishEffect DEF Names, Publish, disk
<1>4. ASSUME NEW s \in Servers, ManagePromote(s)
      PROVE  Promotes
  BY <1>4, PromoteEffect, Zenon DEF Promotes, ManagePromote, disk
<1>5. ASSUME NEW s \in Servers, ManageEvict(s)
      PROVE  Evicts
  BY <1>5, Zenon DEF Evicts, ManageEvict, Answered, disk
<1>6. ASSUME NEW r \in Servers, NEW s \in Servers, OnRemove(r, s)
      PROVE  Deletes
  BY <1>6, Zenon DEF Deletes, OnRemove, disk
<1>7. ASSUME NEW s \in Servers,
             \/ StartExisting(s) \/ Register(s) \/ JoinList(s) \/ JoinListFails(s) \/ JoinInfoFails(s)
             \/ JoinAddFails(s) \/ JoinStart(s) \/ JoinStartFails(s) \/ Test(s)
             \/ CatchUp(s) \/ RemovedStops(s) \/ Elect(s) \/ Crash(s) \/ DeleteDB(s)
             \/ HandleSelf(s) \/ DeleteNode(s) \/ OnRemoveSelf(s) \/ NodeGone(s)
      PROVE  members' = members
  BY <1>7, Zenon DEF StartExisting, Register, JoinList, JoinListFails, JoinInfoFails, JoinAddFails, JoinStart,
     JoinStartFails, Test, CatchUp, RemovedStops, Elect, Crash, DeleteDB, HandleSelf, DeleteNode, OnRemoveSelf,
     NodeGone, etcd
<1>8. ASSUME NEW s \in Servers,
             \/ ManageRead(s) \/ ManageNotPromoted(s) \/ ManageStatus(s) \/ ManageNoStatus(s) \/ ManageStore(s)
             \/ ManageFails(s)
      PROVE  members' = members
  BY <1>8 DEF ManageRead, ManageNotPromoted, ManageStatus, ManageNoStatus, ManageStore, ManageFails, etcd
<1>9. CASE Tick \/ UNCHANGED vars
  BY <1>9 DEF Tick, vars, etcd
<1> QED
  BY <1>1, <1>2, <1>3, <1>4, <1>5, <1>6, <1>7, <1>8, <1>9 DEF Next, StartStep, ManageStep, EtcdStep

\* Who leaves was evicted or deleted.
LEMMA LeavesBy ==
  ASSUME IInv, [Next]_vars, NEW m \in members, Leaves(m)
  PROVE  Evicts \/ Deletes
<1>1. CASE members' = members \/ members = {} \/ Adds
  BY <1>1, Zenon DEF Leaves, Adds
<1>2. CASE Names \/ Promotes
  BY <1>2 DEF Leaves, Names, Promotes
<1> QED
  BY <1>1, <1>2, Changes

\* What is evicted is the member the round is about, and it has waited.
LEMMA Evicted ==
  ASSUME IInv, Evicts, NEW m \in members, Leaves(m)
  PROVE  /\ m.learner => ticks > MaxStall
         /\ elections = 0 => m.learner
<1>1. PICK s \in Servers : /\ manager[s].at = "store" /\ ~Removed(s) /\ Stalled(manager[s].progress)
                           /\ members' = {o \in members : o.id # manager[s].member.id}
  BY DEF Evicts
<1>2. m.id = manager[s].member.id
  BY <1>1 DEF Leaves
<1>3. /\ manager[s].progress.id = manager[s].member.id /\ Waited(manager[s].progress)
      /\ manager[s].progress \in Tracks
      /\ elections = 0 => \A o \in members : o.id = manager[s].member.id => o.learner
  BY <1>1, InRound DEF IInv, ManagerTypes, Rounds
<1>4. m.learner => m.id = lastID
  BY Zenon DEF IInv, Listing
<1>5. ticks \in Nat /\ MaxStall \in Nat /\ manager[s].progress.age \in Nat
  BY <1>3, EtcdAssumption, Zenon DEF IInv, Types, Tracks
<1> QED
  <2>1. manager[s].progress.age > MaxStall
    BY <1>1, Zenon DEF Stalled
  <2>2. ASSUME m.learner
        PROVE  manager[s].progress.age <= ticks \/ ticks > MaxStall
    BY <1>2, <1>3, <1>4, <2>2 DEF Waited
  <2>3. m.learner => ticks > MaxStall
    BY <1>5, <2>1, <2>2
  <2> QED
    BY <1>2, <1>3, <2>3

\* What is deleted is no learner: those have a name no node carries.
LEMMA DeletedVoter ==
  ASSUME IInv, Deletes, NEW m \in members, Leaves(m)
  PROVE  deleting[m.addr] /\ node[m.addr] = m.name /\ ~m.learner
<1>1. PICK s \in Servers : deleting[s] /\ members' = members \ peer(s)
  BY DEF Deletes
<1>2. m.addr = s /\ m.name = node[s]
  BY <1>1, Zenon DEF Leaves, peer
<1>3. node[s] # Unnamed
  BY <1>1, Zenon DEF IInv, Annotated
<1>4. wal[s] = m.id /\ nameFile[s] = node[s]
  BY <1>2, <1>3, Zenon DEF IInv, Listing
<1> QED
  BY <1>1, <1>2, <1>3, <1>4, Zenon DEF IInv, Annotated

\* A learner is evicted only when it has been a member for longer than
\* learnerMaxStallTime, with any number of leaders that manage it and nodes that
\* are deleted (trackLearnerProgress).
THEOREM GraceKeptHolds == Spec => GraceKept
<1>1. IInv /\ [Next]_vars => [\A m \in members \ Voters : Leaves(m) => ticks > MaxStall]_vars
  <2>1. ASSUME IInv, [Next]_vars, NEW m \in members \ Voters, Leaves(m)
        PROVE  ticks > MaxStall
    <3>1. m \in members /\ m.learner
      BY DEF Voters
    <3> QED
      BY <2>1, <3>1, LeavesBy, Evicted, DeletedVoter, Zenon
  <2> QED
    BY <2>1
<1> QED
  BY <1>1, Invariance, PTL DEF Spec, GraceKept

\* A voting member leaves only while the node of its server is being deleted and
\* carries the member's name, which its server has written on it before or after
\* the user deleted it (handleSelf, removePeer), as long as no leader loses the
\* leadership while it is up: when it does, its manageLearners may evict a learner
\* that the next one has promoted (trackLearnerProgress).
THEOREM LeavesOnRequestHolds == Spec /\ [](elections = 0) => LeavesOnRequest
<1>1. IInv /\ elections = 0 /\ [Next]_vars =>
        [\A m \in Voters : Leaves(m) => deleting[m.addr] /\ node[m.addr] = m.name]_vars
  <2>1. ASSUME IInv, elections = 0, [Next]_vars, NEW m \in Voters, Leaves(m)
        PROVE  deleting[m.addr] /\ node[m.addr] = m.name
    <3>1. m \in members /\ ~m.learner
      BY DEF Voters
    <3> QED
      BY <2>1, <3>1, LeavesBy, Evicted, DeletedVoter, Zenon
  <2> QED
    BY <2>1
<1> QED
  BY <1>1, Invariance, PTL DEF Spec, LeavesOnRequest

-----------------------------------------------------------------------------
(* The quorum                                                              *)

AliveVoters == {m \in Voters : Alive(m)}

\* The member list is finite: every server is in it once.
LEMMA MembersFinite ==
  ASSUME IInv
  PROVE  IsFiniteSet(members) /\ IsFiniteSet(Voters) /\ IsFiniteSet(AliveVoters)
<1>1. PICK f : f = [m \in members |-> m.addr]
  BY Zenon
<1>2. f \in Injection(members, Servers)
  <2>1. f \in [members -> Servers]
    BY <1>1 DEF IInv, Types, Entries
  <2>2. \A m, n \in members : f[m] = f[n] => m = n
    BY <1>1, Zenon DEF IInv, Listing
  <2> QED
    BY <2>1, <2>2 DEF Injection, IsInjective
<1>3. IsFiniteSet(members)
  BY <1>2, FS_Injection, EtcdAssumption
<1> QED
  BY <1>3, FS_Subset DEF Voters, AliveVoters

\* There is a quorum still when the voting members and those that run are the
\* same, or have others in their place, or are one more that runs.
LEMMA QuorumSame ==
  ASSUME Quorum, Voters' = Voters, \A m \in Voters : Alive(m)' <=> Alive(m)
  PROVE  Quorum'
<1>1. {m \in Voters' : Alive(m)'} = {m \in Voters : Alive(m)}
  OBVIOUS
<1> QED
  BY <1>1 DEF Quorum

\* A set in which one element is replaced keeps its size.
LEMMA SameSize ==
  ASSUME NEW S, IsFiniteSet(S), NEW m \in S, NEW n, n \notin S \ {m}
  PROVE  Cardinality((S \ {m}) \cup {n}) = Cardinality(S)
<1>1. IsFiniteSet(S \ {m}) /\ Cardinality(S \ {m}) = Cardinality(S) - 1 /\ Cardinality(S) \in Nat
  BY FS_RemoveElement, FS_CardinalityType
<1>2. Cardinality((S \ {m}) \cup {n}) = Cardinality(S \ {m}) + 1
  BY <1>1, FS_AddElement, Zenon
<1> QED
  BY <1>1, <1>2

\* A learner has no vote: adding it (etcd.go:288) leaves the majority as it was.
LEMMA QuorumAdds ==
  ASSUME IInv, Quorum, Adds
  PROVE  Quorum'
<1>1. PICK n \in Entries, s \in Servers :
        /\ members' = members \cup {n} /\ n.learner /\ proc[s] \notin Running /\ proc'[s] \notin Running
        /\ \A t \in Servers : t # s => proc'[t] = proc[t]
        /\ UNCHANGED wal
  BY DEF Adds
<1>2. Voters' = Voters
  BY <1>1 DEF Voters
<1>3. ASSUME NEW m \in Voters
      PROVE  Alive(m)' <=> Alive(m)
  <2>1. m.addr \in Servers
    BY DEF Voters, IInv, Types, Entries
  <2> QED
    BY <1>1, <2>1 DEF Alive
<1> QED
  BY <1>2, <1>3, QuorumSame

\* A name changes nothing about who votes.
LEMMA QuorumNames ==
  ASSUME IInv, Quorum, Names
  PROVE  Quorum'
<1>1. PICK m \in members, n \in Entries :
        /\ members' = (members \ {m}) \cup {n} /\ n.id = m.id /\ n.addr = m.addr /\ n.learner = m.learner
        /\ UNCHANGED <<proc, wal>>
  BY DEF Names
<1>2. \A o : Alive(o)' <=> Alive(o)
  BY <1>1 DEF Alive
<1>3. Alive(n) <=> Alive(m)
  BY <1>1 DEF Alive
<1>4. n \notin members \ {m}
  BY <1>1 DEF IInv, Listing
<1>5. CASE m.learner
  <2>1. Voters' = Voters
    BY <1>1, <1>5, Zenon DEF Voters
  <2> QED
    BY <1>2, <2>1, QuorumSame
<1>6. CASE ~m.learner
  <2>1. PICK V, A : V = Voters /\ A = AliveVoters
    OBVIOUS
  <2>2. m \in V /\ A \subseteq V /\ IsFiniteSet(V) /\ IsFiniteSet(A) /\ n \notin V \ {m}
    BY <1>4, <1>6, <2>1, MembersFinite DEF Voters, AliveVoters
  <2>3. Voters' = (V \ {m}) \cup {n}
    BY <1>1, <1>6, <2>1 DEF Voters
  <2>4. PICK B : B = IF m \in A THEN (A \ {m}) \cup {n} ELSE A
    BY Zenon
  <2>5. {o \in Voters' : Alive(o)'} = B
    BY <1>2, <1>3, <2>1, <2>2, <2>3, <2>4 DEF AliveVoters
  <2>6. Cardinality((V \ {m}) \cup {n}) = Cardinality(V)
    BY <2>2, SameSize
  <2>7. Cardinality(B) = Cardinality(A)
    <3>1. CASE m \in A
      <4>1. n \notin A \ {m}
        BY <2>2
      <4>2. Cardinality((A \ {m}) \cup {n}) = Cardinality(A)
        BY <2>2, <3>1, <4>1, SameSize
      <4> QED
        BY <2>4, <3>1, <4>2
    <3>2. CASE m \notin A
      BY <2>4, <3>2
    <3> QED
      BY <3>1, <3>2
  <2>8. 2 * Cardinality(A) > Cardinality(V)
    BY <2>1 DEF Quorum, AliveVoters
  <2> QED
    BY <2>3, <2>5, <2>6, <2>7, <2>8 DEF Quorum
<1> QED
  BY <1>5, <1>6

\* MemberPromote (etcd.go:578) adds a vote that is alive.
LEMMA QuorumPromotes ==
  ASSUME IInv, Quorum, Promotes
  PROVE  Quorum'
<1>1. PICK m \in members, n \in Entries :
        /\ members' = (members \ {m}) \cup {n} /\ n.id = m.id /\ n.addr = m.addr
        /\ m.learner /\ ~n.learner /\ Alive(m)
        /\ UNCHANGED <<proc, wal>>
  BY DEF Promotes
<1>2. \A o : Alive(o)' <=> Alive(o)
  BY <1>1 DEF Alive
<1>3. Alive(n)
  BY <1>1 DEF Alive
<1>4. n \notin Voters
  BY <1>1, Zenon DEF IInv, Listing, Voters
<1>5. PICK V, A : V = Voters /\ A = AliveVoters
  OBVIOUS
<1>6. IsFiniteSet(V) /\ IsFiniteSet(A) /\ n \notin V /\ n \notin A
  BY <1>4, <1>5, MembersFinite DEF AliveVoters
<1>7. Voters' = V \cup {n}
  BY <1>1, <1>5 DEF Voters
<1>8. {o \in Voters' : Alive(o)'} = A \cup {n}
  BY <1>2, <1>3, <1>5, <1>7 DEF AliveVoters
<1>9. /\ Cardinality(V \cup {n}) = Cardinality(V) + 1 /\ Cardinality(A \cup {n}) = Cardinality(A) + 1
      /\ Cardinality(V) \in Nat /\ Cardinality(A) \in Nat
  BY <1>6, FS_AddElement, FS_CardinalityType
<1>10. 2 * Cardinality(A) > Cardinality(V)
  BY <1>5 DEF Quorum, AliveVoters
<1> QED
  BY <1>7, <1>8, <1>9, <1>10 DEF Quorum

\* An eviction removes no voting member while the leader stays the leader.
LEMMA QuorumEvicts ==
  ASSUME IInv, Quorum, Evicts, elections = 0
  PROVE  Quorum'
<1>1. members' \subseteq members /\ UNCHANGED <<proc, wal>>
  BY DEF Evicts
<1>2. ASSUME NEW m \in members, m \notin members'
      PROVE  m.learner
  <2>1. Leaves(m)
    BY <1>1, <1>2 DEF Leaves, IInv, Listing
  <2> QED
    BY <2>1, Evicted
<1>3. Voters' = Voters
  BY <1>1, <1>2 DEF Voters
<1>4. \A m : Alive(m)' <=> Alive(m)
  BY <1>1 DEF Alive
<1> QED
  BY <1>3, <1>4, QuorumSame

\* No join, promotion or eviction costs the cluster its quorum, as long as nobody
\* deletes a node and no leader loses the leadership while it is up (JoinAdd as
\* a learner, MemberPromote of one that runs, trackLearnerProgress).
THEOREM KeepsQuorumHolds == Spec /\ [](elections = 0 /\ deletes = 0) => KeepsQuorum
<1>1. IInv /\ (elections = 0 /\ deletes = 0) /\ [Next]_vars =>
        [Quorum /\ members' # members => Quorum']_vars
  <2>1. ASSUME IInv, elections = 0, deletes = 0, [Next]_vars, Quorum, members' # members
        PROVE  Quorum'
    <3>1. members # {}
      <4>1. ASSUME members = {}
            PROVE  FALSE
        <5>1. Voters = {} /\ {m \in Voters : Alive(m)} = {}
          BY <4>1 DEF Voters
        <5> QED
          BY <2>1, <5>1, FS_EmptySet DEF Quorum
      <4> QED
        BY <4>1
    <3>2. ~Deletes
      BY <2>1 DEF Deletes, IInv, Deleted
    <3> QED
      BY <2>1, <3>1, <3>2, Changes, QuorumAdds, QuorumNames, QuorumPromotes, QuorumEvicts
  <2> QED
    BY <2>1
<1> QED
  BY <1>1, Invariance, PTL DEF Spec, KeepsQuorum

=============================================================================
