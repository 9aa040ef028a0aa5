-------------------------- MODULE ServerDiskProofs --------------------------
(***************************************************************************)
(* Proofs about the disk of a server (MCServerDisk): that snapshotRetention *)
(* keeps the newest snapshot, that --cluster-reset loses no data and resets *)
(* once, and that extract gives a process a whole directory.                *)
(***************************************************************************)
EXTENDS MCServerDisk, FiniteSetTheorems, WellFoundedInduction, TLAPS

(***************************************************************************)
(* The snapshots                                                           *)
(***************************************************************************)

Snapshot == [time : Nat, part : BOOLEAN]

\* No two files are named for the same time.
Distinct(fs) == \A f, g \in fs : f.time = g.time => f = g

SnapshotTypes ==
    /\ nNow \in Nat
    /\ nRetention \in Nat
    /\ nJob \in [Jobs -> {"idle", "save", "walk", "remove"}]
    /\ nTime \in [Jobs -> Nat]
    /\ nListed \in [Jobs -> SUBSET Snapshot]
    /\ nFiles \in SUBSET Snapshot

\* A directory holds finitely many files, each of a time of its own that has come.
Directory(fs) ==
    /\ IsFiniteSet(fs)
    /\ Distinct(fs)
    /\ \A f \in fs : f.time <= nNow

\* A job about to remove found more files than desired.
Surplus(j) == nJob[j] = "remove" => Cardinality(nListed[j]) > nRetention

\* A file in the directory was listed by the walk of j, under its name or with
\* .part, or is younger than everything listed.
Listed(j) ==
    \A f \in nFiles :
        \/ \E g \in nListed[j] : g.time = f.time
        \/ \A g \in nListed[j] : f.time > g.time

\* A complete file that j listed is still there, unless everything older went
\* before it.
OldestFirst(j) ==
    \A g \in nListed[j] : ~g.part => \/ g \in nFiles
                                     \/ \A f \in nFiles : f.time > g.time

JobInv(j) ==
    /\ Directory(nListed[j])
    /\ Surplus(j)
    /\ Listed(j)
    /\ OldestFirst(j)

SnapshotInv ==
    /\ SnapshotTypes
    /\ Directory(nFiles)
    /\ \A j \in Jobs : JobInv(j)

\* snapshotRetention sorts what it listed and takes the first, which is the oldest.
LEMMA OldestIsOldest ==
  ASSUME NEW fs \in SUBSET Snapshot, fs # {}
  PROVE  /\ Snapshots!Oldest(fs) \in fs
         /\ \A g \in fs : Snapshots!Oldest(fs).time <= g.time
<1>1. PICK times : times = {f.time : f \in fs}
  BY Zenon
<1>2. times \subseteq Nat /\ times # {}
  BY <1>1 DEF Snapshot
<1>3. PICK less : less = {m \in Nat \X Nat : m[1] < m[2]}
  BY Zenon
<1>4. OpToRel(<, Nat) = {m \in Nat \X Nat : m[1] < m[2]}
  BY Zenon DEF OpToRel
<1>5. IsWellFoundedOn(less, Nat)
  BY <1>3, <1>4, NatLessThanWellFounded, Zenon
<1>6. PICK t \in times : \A u \in times : ~ (<<u, t>> \in less)
  BY <1>2, <1>5, WFMin, Zenon
<1>7. ASSUME NEW u \in times PROVE t <= u
  <2>1. u \in Nat /\ t \in Nat /\ ~ (<<u, t>> \in less)
    BY <1>2, <1>6
  <2>2. ~ (u < t)
    BY <2>1, <1>3
  <2> QED
    BY <2>1, <2>2
<1>8. PICK f \in fs : f.time = t
  BY <1>1, <1>6
<1>9. \A g \in fs : f.time <= g.time
  BY <1>1, <1>7, <1>8
<1> QED
  BY <1>9 DEF Snapshots!Oldest

\* len counts the files.
LEMMA SameCount == \A fs : Snapshots!Cardinality(fs) = Cardinality(fs)
  BY Zenon DEF Snapshots!Cardinality, Cardinality, Snapshots!IsFiniteSet, IsFiniteSet

\* The directory is empty when the first job starts.
LEMMA InitSnapshots == DiskInit => SnapshotInv
<1> SUFFICES ASSUME DiskInit PROVE SnapshotInv
  OBVIOUS
<1>1. Snapshots!Init /\ nFiles = {} /\ nListed = [j \in Jobs |-> {}]
  BY DEF DiskInit, Snapshots!Init
<1>2. SnapshotTypes
  BY <1>1, DiskAssumption DEF SnapshotTypes, Snapshots!Init
<1>3. Directory({})
  BY FS_EmptySet DEF Directory, Distinct
<1>4. ASSUME NEW j \in Jobs PROVE JobInv(j)
  <2>1. nListed[j] = {} /\ nJob[j] = "idle"
    BY <1>1 DEF Snapshots!Init
  <2> QED
    BY <1>3, <2>1 DEF JobInv, Surplus, Listed, OldestFirst
<1> QED
  BY <1>1, <1>2, <1>3, <1>4 DEF SnapshotInv

\* A new name comes after all the others: the time has moved on.
LEMMA SaveKeeps ==
  ASSUME SnapshotInv, NEW j \in Jobs, Snapshots!Save(j)
  PROVE  SnapshotInv'
<1>0. SnapshotTypes /\ Directory(nFiles) /\ \A k \in Jobs : JobInv(k)
  BY DEF SnapshotInv
<1>1. PICK p : p = [time |-> nNow + 1, part |-> TRUE]
  BY Zenon
<1>2. /\ nNow' = nNow + 1 /\ nFiles' = nFiles \cup {p}
      /\ nListed' = nListed /\ nRetention' = nRetention
  BY <1>1 DEF Snapshots!Save, Snapshots!Part
<1>3. p \in Snapshot /\ p.time = nNow + 1 /\ nNow \in Nat
  BY <1>0, <1>1 DEF SnapshotTypes, Snapshot
<1>4. \A f \in nFiles : f.time \in Nat /\ f.time <= nNow
  BY <1>0 DEF SnapshotTypes, Snapshot, Directory
<1>5. SnapshotTypes'
  <2>1. nTime' \in [Jobs -> Nat] /\ nJob' \in [Jobs -> {"idle", "save", "walk", "remove"}]
    BY <1>0, <1>3 DEF SnapshotTypes, Snapshots!Save
  <2> QED
    BY <1>0, <1>2, <1>3, <2>1 DEF SnapshotTypes
<1>6. Directory(nFiles)'
  <2>1. IsFiniteSet(nFiles)'
    BY <1>0, <1>2, FS_AddElement DEF Directory
  <2>2. \A f \in nFiles' : f.time <= nNow'
    BY <1>2, <1>3, <1>4
  <2>3. Distinct(nFiles)'
    BY <1>0, <1>2, <1>3, <1>4 DEF Directory, Distinct
  <2> QED
    BY <2>1, <2>2, <2>3 DEF Directory
<1>7. ASSUME NEW k \in Jobs PROVE JobInv(k)'
  <2>0. Directory(nListed[k]) /\ Surplus(k) /\ Listed(k) /\ OldestFirst(k)
    BY <1>0 DEF JobInv
  <2>1. Directory(nListed[k])'
    BY <1>0, <1>2, <2>0 DEF Directory, Distinct, SnapshotTypes, Snapshot
  <2>2. Surplus(k)'
    BY <1>0, <1>2, <2>0 DEF Surplus, Snapshots!Save, SnapshotTypes
  <2>3. \A g \in nListed[k] : g.time \in Nat /\ g.time < nNow + 1
    BY <1>0, <2>0 DEF SnapshotTypes, Snapshot, Directory
  <2>4. Listed(k)'
    BY <1>2, <1>3, <2>0, <2>3 DEF Listed
  <2>5. OldestFirst(k)'
    BY <1>2, <1>3, <2>0, <2>3 DEF OldestFirst
  <2> QED
    BY <2>1, <2>2, <2>4, <2>5, Zenon DEF JobInv
<1> QED
  BY <1>5, <1>6, <1>7, Zenon DEF SnapshotInv

\* A file that is renamed keeps its time.
LEMMA SavedKeeps ==
  ASSUME SnapshotInv, NEW j \in Jobs, Snapshots!Saved(j)
  PROVE  SnapshotInv'
<1>0. SnapshotTypes /\ Directory(nFiles) /\ \A k \in Jobs : JobInv(k)
  BY DEF SnapshotInv
<1>1. PICK p, f : p = [time |-> nTime[j], part |-> TRUE] /\ f = [time |-> nTime[j], part |-> FALSE]
  BY Zenon
<1>2. /\ p \in nFiles /\ nFiles' = (nFiles \ {p}) \cup {f}
      /\ nListed' = nListed /\ nRetention' = nRetention /\ nNow' = nNow
  BY <1>1 DEF Snapshots!Saved, Snapshots!Part, Snapshots!File
<1>3. f \in Snapshot /\ f.time = p.time /\ p.part /\ ~f.part /\ p.time \in Nat /\ p.time <= nNow
  BY <1>0, <1>1, <1>2 DEF SnapshotTypes, Snapshot, Directory
<1>4. SnapshotTypes'
  BY <1>0, <1>2, <1>3 DEF SnapshotTypes, Snapshots!Saved
<1>5. Directory(nFiles)'
  <2>1. IsFiniteSet(nFiles)'
    BY <1>0, <1>2, FS_AddElement, FS_RemoveElement, Zenon DEF Directory
  <2>2. Distinct(nFiles)'
    BY <1>0, <1>2, <1>3 DEF Directory, Distinct
  <2>3. \A g \in nFiles' : g.time <= nNow'
    BY <1>0, <1>2, <1>3 DEF Directory
  <2> QED
    BY <2>1, <2>2, <2>3 DEF Directory
<1>6. ASSUME NEW k \in Jobs PROVE JobInv(k)'
  <2>0. Directory(nListed[k]) /\ Surplus(k) /\ Listed(k) /\ OldestFirst(k)
    BY <1>0 DEF JobInv
  <2>1. Directory(nListed[k])'
    BY <1>2, <2>0 DEF Directory, Distinct
  <2>2. Surplus(k)'
    BY <1>0, <1>2, <2>0 DEF Surplus, Snapshots!Saved, SnapshotTypes
  <2>3. Listed(k)'
    BY <1>2, <1>3, <2>0 DEF Listed
  <2>4. OldestFirst(k)'
    BY <1>2, <1>3, <2>0 DEF OldestFirst
  <2> QED
    BY <2>1, <2>2, <2>3, <2>4, Zenon DEF JobInv
<1> QED
  BY <1>4, <1>5, <1>6, Zenon DEF SnapshotInv

\* A save that fails takes its .part file away, which no job counts as complete.
LEMMA SaveFailsKeeps ==
  ASSUME SnapshotInv, NEW j \in Jobs, Snapshots!SaveFails(j)
  PROVE  SnapshotInv'
<1>0. SnapshotTypes /\ Directory(nFiles) /\ \A k \in Jobs : JobInv(k)
  BY DEF SnapshotInv
<1>1. PICK p : p = [time |-> nTime[j], part |-> TRUE]
  BY Zenon
<1>2. /\ p.part /\ nFiles' = nFiles \ {p}
      /\ nListed' = nListed /\ nRetention' = nRetention /\ nNow' = nNow
  BY <1>1 DEF Snapshots!SaveFails, Snapshots!Part
<1>3. SnapshotTypes'
  BY <1>0, <1>2 DEF SnapshotTypes, Snapshots!SaveFails
<1>4. Directory(nFiles)'
  <2>1. IsFiniteSet(nFiles)'
    BY <1>0, <1>2, FS_RemoveElement DEF Directory
  <2> QED
    BY <1>0, <1>2, <2>1 DEF Directory, Distinct
<1>5. ASSUME NEW k \in Jobs PROVE JobInv(k)'
  <2>0. Directory(nListed[k]) /\ Surplus(k) /\ Listed(k) /\ OldestFirst(k)
    BY <1>0 DEF JobInv
  <2>1. Directory(nListed[k])'
    BY <1>2, <2>0 DEF Directory, Distinct
  <2>2. Surplus(k)'
    BY <1>0, <1>2, <2>0 DEF Surplus, Snapshots!SaveFails, SnapshotTypes
  <2>3. Listed(k)'
    BY <1>2, <2>0 DEF Listed
  <2>4. OldestFirst(k)'
    BY <1>2, <2>0 DEF OldestFirst
  <2> QED
    BY <2>1, <2>2, <2>3, <2>4, Zenon DEF JobInv
<1> QED
  BY <1>3, <1>4, <1>5, Zenon DEF SnapshotInv

\* The walk finds what is there.
LEMMA WalkKeeps ==
  ASSUME SnapshotInv, NEW j \in Jobs, Snapshots!Walk(j)
  PROVE  SnapshotInv'
<1>0. SnapshotTypes /\ Directory(nFiles) /\ \A k \in Jobs : JobInv(k)
  BY DEF SnapshotInv
<1>1. nFiles' = nFiles /\ nRetention' = nRetention /\ nNow' = nNow
  BY DEF Snapshots!Walk
<1>2. SnapshotTypes'
  BY <1>0, <1>1 DEF SnapshotTypes, Snapshots!Walk
<1>3. Directory(nFiles)'
  BY <1>0, <1>1 DEF Directory, Distinct
<1>4. ASSUME NEW k \in Jobs PROVE JobInv(k)'
  <2>0. Directory(nListed[k]) /\ Surplus(k) /\ Listed(k) /\ OldestFirst(k)
    BY <1>0 DEF JobInv
  <2>1. CASE k = j
    <3>1. nListed'[k] = nFiles /\ (nJob'[k] = "remove" => Snapshots!Exceeds(nFiles))
      BY <1>0, <2>1 DEF Snapshots!Walk, SnapshotTypes
    <3>2. Directory(nListed[k])' /\ Listed(k)' /\ OldestFirst(k)'
      BY <1>0, <1>1, <3>1 DEF Directory, Distinct, Listed, OldestFirst
    <3>3. nJob'[k] = "remove" => Cardinality(nFiles) > nRetention
      BY <3>1, SameCount, Zenon DEF Snapshots!Exceeds
    <3>4. Surplus(k)'
      BY <1>1, <3>1, <3>3, Zenon DEF Surplus
    <3> QED
      BY <3>2, <3>4, Zenon DEF JobInv
  <2>2. CASE k # j
    <3>1. nListed'[k] = nListed[k] /\ nJob'[k] = nJob[k]
      BY <1>0, <2>2 DEF Snapshots!Walk, SnapshotTypes
    <3> QED
      BY <1>1, <2>0, <3>1 DEF JobInv, Directory, Distinct, Surplus, Listed, OldestFirst
  <2> QED
    BY <2>1, <2>2
<1> QED
  BY <1>2, <1>3, <1>4, Zenon DEF SnapshotInv

\* What a job about to remove found is not nothing, and the oldest of it goes.
LEMMA RemovesOldest ==
  ASSUME SnapshotInv, NEW j \in Jobs, Snapshots!Remove(j)
  PROVE  \E o \in nListed[j] :
           /\ o \in Snapshot
           /\ \A g \in nListed[j] : g.time \in Nat /\ o.time <= g.time
           /\ nFiles' = nFiles \ {o}
<1>0. SnapshotTypes /\ Directory(nListed[j]) /\ Surplus(j) /\ nJob[j] = "remove"
  BY DEF SnapshotInv, JobInv, Snapshots!Remove
<1>1. nListed[j] \in SUBSET Snapshot /\ nRetention \in Nat
  BY <1>0 DEF SnapshotTypes
<1>2. nListed[j] # {}
  BY <1>0, <1>1, FS_EmptySet DEF Surplus
<1>3. PICK fs : fs = nListed[j]
  OBVIOUS
<1>4. fs \in SUBSET Snapshot /\ fs # {}
  BY <1>1, <1>2, <1>3
<1>5. Snapshots!Oldest(fs) \in fs /\ \A g \in fs : Snapshots!Oldest(fs).time <= g.time
  BY <1>4, OldestIsOldest, Zenon
<1>6. nFiles' = nFiles \ {Snapshots!Oldest(fs)}
  BY <1>3 DEF Snapshots!Remove
<1> QED
  BY <1>3, <1>4, <1>5, <1>6 DEF Snapshot

\* Nothing in the directory is older than the file removed.
LEMMA RemoveKeeps ==
  ASSUME SnapshotInv, NEW j \in Jobs, Snapshots!Remove(j)
  PROVE  SnapshotInv'
<1>0. SnapshotTypes /\ Directory(nFiles) /\ \A k \in Jobs : JobInv(k)
  BY DEF SnapshotInv
<1>1. PICK o \in nListed[j] :
        /\ o \in Snapshot
        /\ \A g \in nListed[j] : g.time \in Nat /\ o.time <= g.time
        /\ nFiles' = nFiles \ {o}
  BY RemovesOldest
<1>2. nRetention' = nRetention /\ nNow' = nNow
  BY DEF Snapshots!Remove
<1>3. SnapshotTypes'
  BY <1>0, <1>1 DEF SnapshotTypes, Snapshots!Remove
<1>4. Directory(nFiles)'
  <2>1. IsFiniteSet(nFiles)'
    BY <1>0, <1>1, FS_RemoveElement DEF Directory
  <2> QED
    BY <1>0, <1>1, <1>2, <2>1 DEF Directory, Distinct
<1>5. ASSUME o \in nFiles, NEW f \in nFiles, f # o PROVE f.time > o.time
  <2>1. f.time \in Nat /\ o.time \in Nat /\ f.time # o.time
    BY <1>0, <1>1, <1>5 DEF SnapshotTypes, Snapshot, Directory, Distinct
  <2>2. \/ \E g \in nListed[j] : g.time = f.time
        \/ \A g \in nListed[j] : f.time > g.time
    BY <1>0, <1>5 DEF JobInv, Listed
  <2> QED
    BY <1>1, <2>1, <2>2
<1>6. ASSUME NEW k \in Jobs PROVE JobInv(k)'
  <2>0. Directory(nListed[k]) /\ Surplus(k) /\ Listed(k) /\ OldestFirst(k)
    BY <1>0 DEF JobInv
  <2>1. CASE k = j
    <3>1. nListed'[k] = {} /\ nJob'[k] = "idle"
      BY <1>0, <2>1 DEF Snapshots!Remove, SnapshotTypes
    <3> QED
      BY <3>1, FS_EmptySet DEF JobInv, Directory, Distinct, Surplus, Listed, OldestFirst
  <2>2. CASE k # j
    <3>1. nListed'[k] = nListed[k] /\ nJob'[k] = nJob[k]
      BY <1>0, <2>2 DEF Snapshots!Remove, SnapshotTypes
    <3>2. Directory(nListed[k])' /\ Surplus(k)' /\ Listed(k)'
      BY <1>1, <1>2, <2>0, <3>1 DEF Directory, Distinct, Surplus, Listed
    <3>3. ASSUME NEW g \in nListed[k], ~g.part
          PROVE  g \in nFiles' \/ \A f \in nFiles' : f.time > g.time
      <4>1. g \in nFiles \/ \A f \in nFiles : f.time > g.time
        BY <2>0, <3>3 DEF OldestFirst
      <4>2. CASE g \in nFiles /\ g = o
        BY <1>1, <1>5, <4>2
      <4> QED
        BY <1>1, <4>1, <4>2
    <3>4. OldestFirst(k)'
      BY <3>1, <3>3 DEF OldestFirst
    <3> QED
      BY <3>2, <3>4, Zenon DEF JobInv
  <2> QED
    BY <2>1, <2>2
<1> QED
  BY <1>3, <1>4, <1>6, Zenon DEF SnapshotInv

\* A restart leaves the directory as it is and forgets every walk.
LEMMA RestartKeeps ==
  ASSUME SnapshotInv, Snapshots!Restart
  PROVE  SnapshotInv'
<1>0. SnapshotTypes /\ Directory(nFiles)
  BY DEF SnapshotInv
<1>1. nFiles' = nFiles /\ nNow' = nNow
  BY DEF Snapshots!Restart
<1>2. SnapshotTypes'
  BY <1>0, DiskAssumption DEF SnapshotTypes, Snapshots!Restart
<1>3. Directory(nFiles)'
  BY <1>0, <1>1 DEF Directory, Distinct
<1>4. ASSUME NEW k \in Jobs PROVE JobInv(k)'
  <2>1. nListed'[k] = {} /\ nJob'[k] = "idle"
    BY DEF Snapshots!Restart
  <2> QED
    BY <2>1, FS_EmptySet DEF JobInv, Directory, Distinct, Surplus, Listed, OldestFirst
<1> QED
  BY <1>2, <1>3, <1>4, Zenon DEF SnapshotInv

\* A walk that fails leaves all but the job as it is.
LEMMA WalkFailsKeeps ==
  ASSUME SnapshotInv, NEW j \in Jobs, Snapshots!WalkFails(j)
  PROVE  SnapshotInv'
<1>0. SnapshotTypes /\ Directory(nFiles) /\ \A k \in Jobs : JobInv(k)
  BY DEF SnapshotInv
<1>1. nFiles' = nFiles /\ nNow' = nNow /\ nRetention' = nRetention /\ nListed' = nListed
  BY DEF Snapshots!WalkFails
<1>2. SnapshotTypes'
  BY <1>0, <1>1 DEF SnapshotTypes, Snapshots!WalkFails
<1>3. Directory(nFiles)'
  BY <1>0, <1>1 DEF Directory, Distinct
<1>4. ASSUME NEW k \in Jobs PROVE JobInv(k)'
  <2>1. nJob'[k] = "remove" => nJob[k] = "remove"
    BY <1>0 DEF Snapshots!WalkFails, SnapshotTypes
  <2> QED
    BY <1>0, <1>1, <2>1 DEF JobInv, Directory, Distinct, Surplus, Listed, OldestFirst
<1> QED
  BY <1>2, <1>3, <1>4, Zenon DEF SnapshotInv

\* What is in the directory and what each job found there agree in every state.
THEOREM SnapshotInvariance == DiskSpec => []SnapshotInv
<1>1. ASSUME SnapshotInv, [DiskNext]_diskVars PROVE SnapshotInv'
  <2>1. CASE Snapshots!Restart
    BY <1>1, <2>1, RestartKeeps
  <2>2. ASSUME NEW j \in Jobs,
               \/ Snapshots!Save(j)
               \/ Snapshots!Saved(j)
               \/ Snapshots!SaveFails(j)
               \/ Snapshots!Walk(j)
               \/ Snapshots!WalkFails(j)
               \/ Snapshots!Remove(j)
        PROVE  SnapshotInv'
    BY <1>1, <2>2, SaveKeeps, SavedKeeps, SaveFailsKeeps, WalkKeeps, WalkFailsKeeps, RemoveKeeps, Zenon
  <2>3. CASE UNCHANGED nVars
    BY <1>1, <2>3 DEF SnapshotInv, SnapshotTypes, Directory, Distinct, JobInv, Surplus, Listed,
        OldestFirst, nVars
  <2>4. Snapshots!Next \/ UNCHANGED nVars
    BY <1>1 DEF DiskNext, diskVars
  <2> QED
    BY <2>1, <2>2, <2>3, <2>4 DEF Snapshots!Next
<1> QED
  BY InitSnapshots, <1>1, PTL DEF DiskSpec

\* A complete snapshot goes only when a job removes it.
LEMMA OnlyRemoveRemoves ==
  ASSUME [DiskNext]_diskVars, NEW f \in nFiles, ~f.part, f \notin nFiles'
  PROVE  \E j \in Jobs : Snapshots!Remove(j)
<1>1. Snapshots!Next
  BY DEF DiskNext, diskVars, nVars
<1>2. ~ Snapshots!Restart
  BY DEF Snapshots!Restart
<1>3. ASSUME NEW j \in Jobs
      PROVE  ~ (Snapshots!Save(j) \/ Snapshots!Walk(j) \/ Snapshots!WalkFails(j))
  BY DEF Snapshots!Save, Snapshots!Walk, Snapshots!WalkFails
<1>4. ASSUME NEW j \in Jobs
      PROVE  ~ (Snapshots!Saved(j) \/ Snapshots!SaveFails(j))
  BY DEF Snapshots!Saved, Snapshots!SaveFails, Snapshots!Part
<1> QED
  BY <1>1, <1>2, <1>3, <1>4 DEF Snapshots!Next

\* Wherever jobs fail, overlap or are interrupted, snapshotRetention never removes
\* the newest complete snapshot, if any is to be kept, unless a slow job found a
\* younger one still being saved.
THEOREM NewestKeptHolds == DiskSpec => NewestKept
<1>1. ASSUME SnapshotInv, [DiskNext]_diskVars, nRetention > 0, NEW f \in Snapshots!Complete,
             \A g \in Snapshots!Complete : g.time <= f.time
      PROVE  f \in nFiles' \/ Snapshots!Overtaken(f)
  <2> SUFFICES ASSUME f \notin nFiles' PROVE Snapshots!Overtaken(f)
    OBVIOUS
  <2>1. f \in nFiles /\ ~f.part
    BY DEF Snapshots!Complete
  <2>2. PICK j \in Jobs : Snapshots!Remove(j)
    BY <1>1, <2>1, OnlyRemoveRemoves
  <2>3. PICK o \in nListed[j] :
          /\ o \in Snapshot
          /\ \A g \in nListed[j] : g.time \in Nat /\ o.time <= g.time
          /\ nFiles' = nFiles \ {o}
    BY <1>1, <2>2, RemovesOldest
  <2>4. o = f
    BY <2>1, <2>3
  <2>5. SnapshotTypes /\ JobInv(j) /\ nJob[j] = "remove"
    BY <1>1, <2>2 DEF SnapshotInv, Snapshots!Remove
  <2>6. nListed[j] # {f}
    <3>1. nRetention \in Nat /\ Cardinality(nListed[j]) > nRetention
      BY <2>5 DEF SnapshotTypes, JobInv, Surplus
    <3>2. Cardinality({f}) = 1
      BY FS_Singleton
    <3> QED
      BY <1>1, <3>1, <3>2
  <2>7. PICK g \in nListed[j] : g # f
    BY <2>3, <2>4, <2>6
  <2>8. g.time > f.time
    <3>1. g.time # f.time
      BY <2>3, <2>4, <2>5, <2>7 DEF JobInv, Directory, Distinct
    <3>2. f.time \in Nat /\ g.time \in Nat /\ f.time <= g.time
      BY <2>3, <2>4, <2>7 DEF Snapshot
    <3> QED
      BY <3>1, <3>2
  <2>9. g.part
    <3> SUFFICES ASSUME ~g.part PROVE FALSE
      OBVIOUS
    <3>1. g \in nFiles \/ \A h \in nFiles : h.time > g.time
      BY <2>5, <2>7 DEF JobInv, OldestFirst
    <3>2. f.time \in Nat /\ g.time \in Nat
      BY <2>3, <2>4, <2>7 DEF Snapshot
    <3>3. g \notin nFiles
      BY <1>1, <2>8, <3>2 DEF Snapshots!Complete
    <3> QED
      BY <2>1, <2>8, <3>1, <3>2, <3>3
  <2> QED
    BY <2>5, <2>7, <2>8, <2>9 DEF Snapshots!Overtaken
<1>2. SnapshotInv /\ [DiskNext]_diskVars =>
        [nRetention > 0 =>
            \A f \in Snapshots!Complete :
                (\A g \in Snapshots!Complete : g.time <= f.time) =>
                    f \in nFiles' \/ Snapshots!Overtaken(f)]_(Snapshots!vars)
  BY <1>1
<1> QED
  BY SnapshotInvariance, <1>2, PTL DEF DiskSpec, NewestKept, Snapshots!NewestKept

(***************************************************************************)
(* --cluster-reset.  The invariant adds to the properties what holds at    *)
(* each step: that the file is there from Touch on, so that a reset        *)
(* performed is always on record, and that the cluster's data has been     *)
(* moved away before anything overwrites it.                               *)
(***************************************************************************)

ResetProcs == {"down", "start", "rename", "restore", "touch", "force", "test",
          "hung", "up", "sqlite"}

\* A reset is on record, and none was performed before the file is written.
ResetRecorded ==
    /\ rResets \in {0, 1}
    /\ rResets = 1 => rResetFile
    /\ rProc = "force" => rResets = 0 /\ rResetFile
    /\ rProc \in {"rename", "restore", "touch"} => ~rResetFile

\* What is about to be overwritten has been moved away.
ResetMovedAway ==
    /\ rData = "cluster" \/ "cluster" \in rOld
    /\ rProc = "restore" => "cluster" \in rOld

ResetTyped ==
    /\ rProc \in ResetProcs
    /\ rInit \in BOOLEAN
    /\ rReset \in BOOLEAN
    /\ rRestore \in BOOLEAN
    /\ rData \in Reset!Data
    /\ rAlone \in BOOLEAN
    /\ rOld \subseteq Reset!Data
    /\ rResetFile \in BOOLEAN
    /\ rStarts \in Nat
    /\ rRefused \in BOOLEAN

ResetInv == ResetTyped /\ ResetRecorded /\ ResetMovedAway

\* The server begins in such a state.
LEMMA ResetInitInv == Reset!Init => ResetInv
<1> SUFFICES ASSUME Reset!Init PROVE ResetInv
  OBVIOUS
<1>1. ResetTyped
  <2>1. 0 \in Nat
    OBVIOUS
  <2>2. rProc \in ResetProcs /\ rData \in Reset!Data /\ rOld \subseteq Reset!Data
    BY Zenon DEF Reset!Init, ResetProcs, Reset!Data
  <2> QED
    BY <2>1, <2>2, Zenon DEF Reset!Init, ResetTyped
<1>2. ResetRecorded
  BY DEF Reset!Init, ResetRecorded
<1>3. ResetMovedAway
  BY DEF Reset!Init, ResetMovedAway
<1> QED
  BY <1>1, <1>2, <1>3 DEF ResetInv

\* Every step keeps the types.
LEMMA ResetTypedNext == ResetTyped /\ [Reset!Next]_(Reset!vars) => ResetTyped'
<1> SUFFICES ASSUME ResetTyped, [Reset!Next]_(Reset!vars) PROVE ResetTyped'
  OBVIOUS
<1> USE DEF ResetTyped, ResetProcs, Reset!Data, Reset!flags
<1>1. CASE Reset!Start
  <2>1. rStarts' \in Nat
    BY <1>1 DEF Reset!Start
  <2>2. rReset' \in BOOLEAN /\ rRestore' \in BOOLEAN /\ rInit' \in BOOLEAN
    BY <1>1, Zenon DEF Reset!Start
  <2> QED
    BY <1>1, <2>1, <2>2, Zenon DEF Reset!Start
<1>2. CASE Reset!StartUnmanaged
  BY <1>2 DEF Reset!StartUnmanaged
<1>3. CASE Reset!StartNormally
  BY <1>3, Zenon DEF Reset!StartNormally
<1>4. CASE Reset!RefuseReset
  BY <1>4 DEF Reset!RefuseReset
<1>5. CASE Reset!StartReset
  BY <1>5 DEF Reset!StartReset
<1>6. CASE Reset!Rename
  BY <1>6, Zenon DEF Reset!Rename
<1>7. CASE Reset!RestoreSnapshot
  BY <1>7 DEF Reset!RestoreSnapshot
<1>8. CASE Reset!RestoreCut
  BY <1>8 DEF Reset!RestoreCut
<1>9. CASE Reset!Touch
  BY <1>9 DEF Reset!Touch
<1>10. CASE Reset!NewCluster
  BY <1>10 DEF Reset!NewCluster
<1>11. CASE Reset!NewClusterFails
  BY <1>11 DEF Reset!NewClusterFails
<1>12. CASE Reset!Exit
  BY <1>12 DEF Reset!Exit
<1>13. CASE Reset!Join
  BY <1>13, Zenon DEF Reset!Join
<1>14. CASE Reset!Crash
  BY <1>14 DEF Reset!Crash
<1>15. CASE UNCHANGED Reset!vars
  BY <1>15 DEF Reset!vars
<1> QED
  BY <1>1, <1>2, <1>3, <1>4, <1>5, <1>6, <1>7, <1>8, <1>9, <1>10, <1>11, <1>12,
     <1>13, <1>14, <1>15 DEF Reset!Next

\* Every step keeps the record: only NewCluster counts a reset, and Touch comes
\* before it.
LEMMA ResetRecordedNext == ResetInv /\ [Reset!Next]_(Reset!vars) => ResetRecorded'
<1> SUFFICES ASSUME ResetInv, [Reset!Next]_(Reset!vars) PROVE ResetRecorded'
  OBVIOUS
<1> USE DEF ResetInv, ResetTyped, ResetRecorded, Reset!flags
<1>1. CASE Reset!Start
  BY <1>1 DEF Reset!Start
<1>2. CASE Reset!StartUnmanaged
  BY <1>2 DEF Reset!StartUnmanaged
<1>3. CASE Reset!StartNormally
  BY <1>3 DEF Reset!StartNormally
<1>4. CASE Reset!RefuseReset
  BY <1>4 DEF Reset!RefuseReset
<1>5. CASE Reset!StartReset
  BY <1>5 DEF Reset!StartReset
<1>6. CASE Reset!Rename
  BY <1>6 DEF Reset!Rename
<1>7. CASE Reset!RestoreSnapshot
  BY <1>7 DEF Reset!RestoreSnapshot
<1>8. CASE Reset!RestoreCut
  BY <1>8 DEF Reset!RestoreCut
<1>9. CASE Reset!Touch
  BY <1>9 DEF Reset!Touch
<1>10. CASE Reset!NewCluster
  BY <1>10 DEF Reset!NewCluster
<1>11. CASE Reset!NewClusterFails
  BY <1>11 DEF Reset!NewClusterFails
<1>12. CASE Reset!Exit
  BY <1>12 DEF Reset!Exit
<1>13. CASE Reset!Join
  BY <1>13 DEF Reset!Join
<1>14. CASE Reset!Crash
  BY <1>14 DEF Reset!Crash
<1>15. CASE UNCHANGED Reset!vars
  BY <1>15 DEF Reset!vars
<1> QED
  BY <1>1, <1>2, <1>3, <1>4, <1>5, <1>6, <1>7, <1>8, <1>9, <1>10, <1>11, <1>12,
     <1>13, <1>14, <1>15, Zenon DEF Reset!Next

\* Every step keeps the cluster's data: Rename moves it away, RestoreSnapshot
\* and RestoreCut come after Rename, and a new cluster is made only where there
\* is no data.
LEMMA ResetMovedAwayNext == ResetInv /\ [Reset!Next]_(Reset!vars) => ResetMovedAway'
<1> SUFFICES ASSUME ResetInv, [Reset!Next]_(Reset!vars) PROVE ResetMovedAway'
  OBVIOUS
<1> USE DEF ResetInv, ResetMovedAway, Reset!flags
<1>1. CASE Reset!StartNormally
  BY <1>1 DEF Reset!StartNormally, Reset!IsInitialized
<1>2. CASE Reset!Rename
  BY <1>2 DEF Reset!Rename
<1>3. CASE Reset!RestoreSnapshot
  BY <1>3 DEF Reset!RestoreSnapshot
<1>4. CASE Reset!RestoreCut
  BY <1>4 DEF Reset!RestoreCut
<1>5. CASE Reset!NewCluster
  BY <1>5 DEF Reset!NewCluster, Reset!IsInitialized
<1>6. CASE Reset!Start \/ Reset!StartUnmanaged \/ Reset!RefuseReset \/ Reset!StartReset
  BY <1>6 DEF Reset!Start, Reset!StartUnmanaged, Reset!RefuseReset, Reset!StartReset
<1>7. CASE Reset!Touch \/ Reset!NewClusterFails \/ Reset!Exit \/ Reset!Join \/ Reset!Crash
  BY <1>7 DEF Reset!Touch, Reset!NewClusterFails, Reset!Exit, Reset!Join, Reset!Crash
<1>8. CASE UNCHANGED Reset!vars
  BY <1>8 DEF Reset!vars
<1> QED
  BY <1>1, <1>2, <1>3, <1>4, <1>5, <1>6, <1>7, <1>8 DEF Reset!Next

\* It holds in every state of the disk.
LEMMA ResetInvariance == DiskSpec => []ResetInv
<1>1. DiskInit => ResetInv
  BY ResetInitInv, Zenon DEF DiskInit
<1>2. ResetInv /\ [Reset!Next]_(Reset!vars) => ResetInv'
  BY ResetTypedNext, ResetRecordedNext, ResetMovedAwayNext, Zenon DEF ResetInv
<1>3. [DiskNext]_diskVars => [Reset!Next]_(Reset!vars)
  BY DEF DiskNext, diskVars, rVars, Reset!vars, Reset!flags
<1> QED
  BY <1>1, <1>2, <1>3, PTL DEF DiskSpec

\* Whatever is interrupted, the data of the cluster is in the data directory or in
\* one that Restore moved away.
THEOREM DataKeptHolds == DiskSpec => []DataKept
<1>1. ResetInv => DataKept
  BY DEF ResetInv, ResetMovedAway, DataKept, Reset!DataKept
<1> QED
  BY <1>1, ResetInvariance, PTL

\* Between two resets the server was started normally: the file that Reset touches
\* outlives every crash, and only a normal start removes it.
THEOREM ResetOnceHolds == DiskSpec => []ResetOnce
<1>1. ResetInv => ResetOnce
  BY DEF ResetInv, ResetRecorded, ResetOnce, Reset!ResetOnce
<1> QED
  BY <1>1, ResetInvariance, PTL

\* Type correctness; only a restore leaves the directory without data.
THEOREM ResetTypeCorrect == DiskSpec => []Reset!TypeOK
<1>1. ResetInv => Reset!TypeOK
  BY DEF ResetInv, ResetTyped, ResetRecorded, ResetMovedAway, ResetProcs, Reset!TypeOK
<1> QED
  BY <1>1, ResetInvariance, PTL

(***************************************************************************)
(* The programs                                                            *)
(*                                                                         *)
(* RunsWhole is not inductive: that a directory is whole when it gets its  *)
(* name rests on -tmp being whole from Verify to Rename, and that on no    *)
(* other process being between Acquire and Release in the data directory.  *)
(* Most steps move one process and leave the files alone (UnpackMoves) or  *)
(* write to the -tmp of a process that has the lock (UnpackWrites).        *)
(***************************************************************************)

\* A process, with B for its Boolean field, and a directory.
Todos == SUBSET Entries
Places == Unpack!Ended \cup {"global", "local", "lock", "again", "clean", "untar", "rotate", "symlink",
                              "rename", "remove", "release"}
Records(B) == [pc : Places, version : Versions \cup {None}, dataDir : Unpack!DataDirs,
               todo : Todos, out : {"failed", "run"}, hit : B]
Trees == (SUBSET Entries) \cup {Unpack!Gone}

\* Between Acquire and Release, and of that the part after Verify; where extract
\* has registered what it returns.
Locked == {"again", "clean", "untar", "rotate", "symlink", "rename", "remove", "release"}
Checked == {"rotate", "symlink", "rename"}
Returning == {"remove", "release"}

\* What the steps need of types: a process on its way has a version.
UnpackTyped ==
    /\ xAt \in [Procs -> Records(BOOLEAN)]
    /\ \A p \in Procs : xAt[p].pc # "ended" => xAt[p].version \in Versions
    /\ xLock \in [Unpack!DataDirs -> Procs \cup {None}]
    /\ xTree \in [Unpack!DataDirs -> [Versions -> Trees]]
    /\ xTemp \in [Unpack!DataDirs -> [Versions -> Trees]]

\* Who is between Acquire and Release has the lock.
UnpackHolds == \A p \in Procs : xAt[p].pc \in Locked => xLock[xAt[p].dataDir] = p

\* A directory that has its name is whole.
UnpackWhole == \A d \in Unpack!DataDirs, v \in Versions : xTree[d][v] \in {Entries, Unpack!Gone}

\* What is about to get its name has passed Verify.
UnpackVerified == \A p \in Procs : xAt[p].pc \in Checked => xTemp[xAt[p].dataDir][xAt[p].version] = Entries

\* Who returns a directory has found it or named it, and who is not there yet
\* would return an error.
UnpackFound ==
    \A p \in Procs :
        /\ xAt[p].pc = "run" \/ (xAt[p].pc \in Returning /\ xAt[p].out = "run")
              => xTree[xAt[p].dataDir][xAt[p].version] # Unpack!Gone
        /\ xAt[p].pc \notin Returning \cup Unpack!Ended => xAt[p].out = "failed"

UnpackInv == UnpackTyped /\ UnpackHolds /\ UnpackWhole /\ UnpackVerified /\ UnpackFound

\* p goes to c, to return o, and keeps its version and data directory.
Moved(B, f, g, p, c, o) ==
    /\ g \in [Procs -> Records(B)]
    /\ \A q \in Procs : q # p => g[q] = f[q]
    /\ g[p].pc = c
    /\ g[p].out = o
    /\ g[p].version = f[p].version
    /\ g[p].dataDir = f[p].dataDir

\* p goes to c, and to the data directory d.
Switched(B, f, g, p, c, d) ==
    /\ g \in [Procs -> Records(B)]
    /\ \A q \in Procs : q # p => g[q] = f[q]
    /\ g[p].pc = c
    /\ g[p].dataDir = d
    /\ g[p].version = f[p].version


\* An assignment to one directory (RemoveAll, Untar, Rename).
LEMMA TreeUpdate ==
  ASSUME NEW T, NEW f \in [Unpack!DataDirs -> [Versions -> T]], NEW d \in Unpack!DataDirs, NEW v \in Versions,
         NEW x \in T, NEW g, g = [f EXCEPT ![d][v] = x]
  PROVE  /\ g \in [Unpack!DataDirs -> [Versions -> T]]
         /\ \A e \in Unpack!DataDirs, w \in Versions : g[e][w] = IF e = d /\ w = v THEN x ELSE f[e][w]
OBVIOUS

\* What Untar leaves in -tmp is a set of entries.
LEMMA TreeAdd ==
  ASSUME NEW t \in Trees, NEW e \in Entries
  PROVE  t \ Unpack!Gone \in Trees /\ (t \ Unpack!Gone) \cup {e} \in Trees
BY DEF Trees, Unpack!Gone

\* A directory that is not there.
LEMMA TreeGone == Unpack!Gone \in Trees
BY DEF Trees

\* A process that starts, or has yet to.
LEMMA NewRecordAny ==
  ASSUME NEW B, NEW b \in B, NEW c \in Places, NEW v \in Versions \cup {None}, NEW d \in Unpack!DataDirs
  PROVE  [pc |-> c, version |-> v, dataDir |-> d, todo |-> {}, out |-> "failed", hit |-> b] \in Records(B)
BY DEF Records, Todos

\* The same with what Start and Init write.
LEMMA NewRecord ==
  ASSUME NEW c \in Places, NEW v \in Versions \cup {None}, NEW d \in Unpack!DataDirs
  PROVE  [pc |-> c, version |-> v, dataDir |-> d, todo |-> {}, out |-> "failed", hit |-> FALSE]
            \in Records(BOOLEAN)
<1>1. FALSE \in BOOLEAN
  OBVIOUS
<1> QED
  BY <1>1, NewRecordAny, Zenon

\* Goto moves a process.
LEMMA GotoMoves ==
  ASSUME NEW B, NEW f \in [Procs -> Records(B)], NEW p \in Procs, NEW c \in Places,
         NEW g, g = [f EXCEPT ![p].pc = c]
  PROVE  Moved(B, f, g, p, c, f[p].out)
BY DEF Records, Moved

\* So does Return.
LEMMA ReturnMoves ==
  ASSUME NEW B, NEW f \in [Procs -> Records(B)], NEW p \in Procs, NEW c \in Places,
         NEW o \in {"failed", "run"}, NEW g, g = [f EXCEPT ![p].pc = c, ![p].out = o]
  PROVE  Moved(B, f, g, p, c, o)
BY DEF Records, Moved

\* StatGlobal changes the data directory.
LEMMA GlobalMoves ==
  ASSUME NEW B, NEW f \in [Procs -> Records(B)], NEW p \in Procs, NEW c \in Places, NEW d \in Unpack!DataDirs,
         NEW g, g = [f EXCEPT ![p].pc = c, ![p].dataDir = d]
  PROVE  Switched(B, f, g, p, c, d)
BY DEF Records, Switched

\* So does RemoveTemp, with the entries it leaves to unpack.
LEMMA TodoMoves ==
  ASSUME NEW B, NEW f \in [Procs -> Records(B)], NEW p \in Procs, NEW c \in Places, NEW t \in Todos,
         NEW g, g = [f EXCEPT ![p].pc = c, ![p].todo = t]
  PROVE  Moved(B, f, g, p, c, f[p].out)
<1>1. g \in [Procs -> Records(B)]
  BY DEF Records
<1>2. \A q \in Procs : q # p => g[q] = f[q]
  BY DEF Records
<1>3. g[p].pc = c /\ g[p].out = f[p].out
  BY DEF Records
<1>4. g[p].version = f[p].version /\ g[p].dataDir = f[p].dataDir
  BY DEF Records
<1> QED
  BY <1>1, <1>2, <1>3, <1>4 DEF Moved

\* Untar leaves the process where it is.
LEMMA UntarMoves ==
  ASSUME NEW B, NEW f \in [Procs -> Records(B)], NEW p \in Procs, NEW e,
         NEW g, g = [f EXCEPT ![p].todo = @ \ {e}]
  PROVE  Moved(B, f, g, p, f[p].pc, f[p].out)
BY DEF Records, Moved, Todos

\* So does a fault, which is recorded in the process it hits.
LEMMA HitMovesAny ==
  ASSUME NEW B, NEW f \in [Procs -> Records(B)], NEW p \in Procs, NEW b \in B, NEW g
  PROVE  /\ \A c \in Places : g = [f EXCEPT ![p].pc = c, ![p].hit = b] => Moved(B, f, g, p, c, f[p].out)
         /\ \A e : g = [f EXCEPT ![p].todo = @ \ {e}, ![p].hit = b] => Moved(B, f, g, p, f[p].pc, f[p].out)
BY DEF Records, Moved, Todos

\* The same with what the faults write.
LEMMA HitMoves ==
  ASSUME NEW f \in [Procs -> Records(BOOLEAN)], NEW p \in Procs, NEW g
  PROVE  /\ \A c \in Places : g = [f EXCEPT ![p].pc = c, ![p].hit = TRUE] => Moved(BOOLEAN, f, g, p, c, f[p].out)
         /\ \A e : g = [f EXCEPT ![p].todo = @ \ {e}, ![p].hit = TRUE]
                      => Moved(BOOLEAN, f, g, p, f[p].pc, f[p].out)
<1>1. TRUE \in BOOLEAN
  OBVIOUS
<1> QED
  BY <1>1, HitMovesAny, Zenon


\* A step that moves a process and leaves the lock and the files alone.
LEMMA UnpackMoves ==
  ASSUME UnpackInv, NEW p \in Procs, NEW c, NEW o, Moved(BOOLEAN, xAt, xAt', p, c, o),
         UNCHANGED <<xLock, xTree, xTemp>>,
         xAt[p].pc # "ended",
         c \in Locked => xAt[p].pc \in Locked,
         c \in Checked => xTemp[xAt[p].dataDir][xAt[p].version] = Entries,
         c = "run" \/ (c \in Returning /\ o = "run") => xTree[xAt[p].dataDir][xAt[p].version] # Unpack!Gone,
         c \notin Returning \cup Unpack!Ended => o = "failed"
  PROVE  UnpackInv'
<1>1. UnpackTyped'
  BY DEF UnpackInv, UnpackTyped, Moved
<1>2. UnpackHolds'
  BY DEF UnpackInv, UnpackHolds, Moved
<1>3. UnpackWhole'
  BY DEF UnpackInv, UnpackWhole
<1>4. UnpackVerified'
  BY DEF UnpackInv, UnpackVerified, Moved
<1>5. UnpackFound'
  BY DEF UnpackInv, UnpackFound, Moved
<1> QED
  BY <1>1, <1>2, <1>3, <1>4, <1>5 DEF UnpackInv

\* A step of a process that has the lock and writes to its -tmp.
LEMMA UnpackWrites ==
  ASSUME UnpackInv, NEW p \in Procs, NEW c, Moved(BOOLEAN, xAt, xAt', p, c, xAt[p].out),
         UNCHANGED <<xLock, xTree>>,
         NEW x \in Trees, xTemp' = [xTemp EXCEPT ![xAt[p].dataDir][xAt[p].version] = x],
         \/ xAt[p].pc \in {"clean", "untar"} /\ c = "untar"
         \/ xAt[p].pc = "remove" /\ c = "release"
  PROVE  UnpackInv'
<1>1. xAt[p].dataDir \in Unpack!DataDirs /\ xAt[p].version \in Versions /\ xAt[p].pc \in Locked
  BY DEF UnpackInv, UnpackTyped, Records, Locked
<1>2. /\ xTemp' \in [Unpack!DataDirs -> [Versions -> Trees]]
      /\ \A e \in Unpack!DataDirs, w \in Versions :
           xTemp'[e][w] = IF e = xAt[p].dataDir /\ w = xAt[p].version THEN x ELSE xTemp[e][w]
  BY <1>1, TreeUpdate DEF UnpackInv, UnpackTyped
<1>3. UnpackTyped'
  BY <1>1, <1>2 DEF UnpackInv, UnpackTyped, Moved
<1>4. UnpackHolds'
  BY <1>1 DEF UnpackInv, UnpackHolds, Moved
<1>5. UnpackWhole'
  BY DEF UnpackInv, UnpackWhole
<1>6. UnpackVerified'
  <2> SUFFICES ASSUME NEW q \in Procs, xAt'[q].pc \in Checked
               PROVE  xTemp'[xAt'[q].dataDir][xAt'[q].version] = Entries
    BY DEF UnpackVerified
  <2>1. q # p /\ xAt'[q] = xAt[q]
    BY DEF Moved, Checked
  <2>2. xAt[q].dataDir \in Unpack!DataDirs /\ xAt[q].version \in Versions
    BY <2>1 DEF UnpackInv, UnpackTyped, Records, Checked
  <2>3. xAt[q].dataDir # xAt[p].dataDir
    BY <1>1, <2>1 DEF UnpackInv, UnpackHolds, Checked, Locked
  <2> QED
    BY <1>2, <2>1, <2>2, <2>3 DEF UnpackInv, UnpackVerified
<1>7. UnpackFound'
  BY DEF UnpackInv, UnpackFound, Moved, Returning, Unpack!Ended
<1> QED
  BY <1>3, <1>4, <1>5, <1>6, <1>7 DEF UnpackInv


\* In the initial state nobody is on the way.
LEMMA UnpackInitInv == Unpack!Init => UnpackInv
<1> SUFFICES ASSUME Unpack!Init PROVE UnpackInv
  OBVIOUS
<1>1. \A p \in Procs : xAt[p].pc = "ended"
  BY DEF Unpack!Init
<1>2. UnpackTyped
  <2>1. None \in Versions \cup {None} /\ "default" \in Unpack!DataDirs /\ "ended" \in Places
    BY DEF Unpack!DataDirs, Places, Unpack!Ended
  <2>2. xAt \in [Procs -> Records(BOOLEAN)]
    BY <2>1, NewRecord, Zenon DEF Unpack!Init
  <2> QED
    BY <1>1, <2>2, TreeGone DEF Unpack!Init, UnpackTyped
<1>3. UnpackWhole
  BY DEF Unpack!Init, UnpackWhole
<1>4. UnpackHolds /\ UnpackVerified /\ UnpackFound
  BY <1>1 DEF UnpackHolds, UnpackVerified, UnpackFound, Locked, Checked, Returning, Unpack!Ended
<1> QED
  BY <1>2, <1>3, <1>4 DEF UnpackInv

\* A new process has neither the lock nor a directory.
LEMMA UnpackStartInv ==
  ASSUME UnpackInv, NEW p \in Procs, NEW v \in Versions, NEW d \in Unpack!DataDirs, Unpack!Start(p, v, d)
  PROVE  UnpackInv'
<1> DEFINE r == [pc |-> "global", version |-> v, dataDir |-> d, todo |-> {}, out |-> "failed", hit |-> FALSE]
<1>1. r \in Records(BOOLEAN)
  <2>1. v \in Versions \cup {None} /\ "global" \in Places
    BY DEF Places
  <2> QED
    BY <2>1, NewRecord, Zenon
<1>2. r.pc = "global" /\ r.version = v /\ r.dataDir = d /\ r.out = "failed"
  OBVIOUS
<1>3. UNCHANGED <<xLock, xTree, xTemp>>
  BY DEF Unpack!Start, Unpack!Files
<1>4. xAt' = [xAt EXCEPT ![p] = r]
  BY Zenon DEF Unpack!Start
<1> HIDE DEF r
<1>5. xAt' \in [Procs -> Records(BOOLEAN)] /\ xAt'[p] = r /\ \A q \in Procs : q # p => xAt'[q] = xAt[q]
  BY <1>1, <1>4 DEF UnpackInv, UnpackTyped
<1>6. UnpackTyped'
  BY <1>2, <1>3, <1>5 DEF UnpackInv, UnpackTyped
<1>7. UnpackHolds' /\ UnpackWhole' /\ UnpackVerified' /\ UnpackFound'
  BY <1>2, <1>3, <1>5 DEF UnpackInv, UnpackHolds, UnpackWhole, UnpackVerified, UnpackFound, Locked,
      Checked, Returning, Unpack!Ended
<1> QED
  BY <1>6, <1>7 DEF UnpackInv

\* The directory in the default data directory is taken if it is there.
LEMMA UnpackStatGlobalInv ==
  ASSUME UnpackInv, NEW p \in Procs, Unpack!StatGlobal(p)
  PROVE  UnpackInv'
<1>1. UNCHANGED <<xLock, xTree, xTemp>> /\ xAt[p].pc = "global" /\ xAt[p].out = "failed"
  BY DEF Unpack!StatGlobal, Unpack!Files, UnpackInv, UnpackFound, Returning, Unpack!Ended
<1>2. CASE Unpack!Stat("default", Unpack!version(p))
  <2>1. xAt' = [xAt EXCEPT ![p].pc = "run", ![p].dataDir = "default"]
    BY <1>2 DEF Unpack!StatGlobal
  <2>2. Switched(BOOLEAN, xAt, xAt', p, "run", "default")
    <3>1. "default" \in Unpack!DataDirs /\ "run" \in Places /\ xAt \in [Procs -> Records(BOOLEAN)]
      BY DEF UnpackInv, UnpackTyped, Unpack!DataDirs, Places, Unpack!Ended
    <3> QED
      BY <2>1, <3>1, GlobalMoves
  <2>3. UnpackTyped'
    BY <1>1, <2>2 DEF UnpackInv, UnpackTyped, Switched
  <2>4. UnpackHolds' /\ UnpackWhole' /\ UnpackVerified' /\ UnpackFound'
    BY <1>1, <1>2, <2>2 DEF UnpackInv, UnpackHolds, UnpackWhole, UnpackVerified, UnpackFound, Locked,
        Checked, Returning, Unpack!Ended, Unpack!Stat, Unpack!version,
                           Switched
  <2> QED
    BY <2>3, <2>4 DEF UnpackInv
<1>3. CASE ~ Unpack!Stat("default", Unpack!version(p))
  <2>1. xAt' = [xAt EXCEPT ![p].pc = "local"] /\ "local" \in Places /\ xAt \in [Procs -> Records(BOOLEAN)]
    BY <1>3 DEF Unpack!StatGlobal, Unpack!Goto, UnpackInv, UnpackTyped, Places
  <2>2. Moved(BOOLEAN, xAt, xAt', p, "local", xAt[p].out)
    BY <2>1, GotoMoves
  <2> QED
    BY <1>1, <2>2, UnpackMoves DEF Locked, Checked, Returning
<1> QED
  BY <1>2, <1>3

\* Acquire: nobody is between Acquire and Release when the lock is free.
LEMMA UnpackAcquireInv ==
  ASSUME None \notin Procs, UnpackInv, NEW p \in Procs, Unpack!Acquire(p)
  PROVE  UnpackInv'
<1>1. /\ xAt[p].pc = "lock" /\ xAt[p].out = "failed" /\ xAt[p].dataDir \in Unpack!DataDirs
      /\ xLock[xAt[p].dataDir] = None /\ xLock' = [xLock EXCEPT ![xAt[p].dataDir] = p]
      /\ UNCHANGED <<xTree, xTemp>>
  BY DEF Unpack!Acquire, Unpack!dataDir, Unpack!Files, UnpackInv, UnpackTyped, Records, UnpackFound,
      Returning, Unpack!Ended
<1>2. xAt' = [xAt EXCEPT ![p].pc = "again"] /\ "again" \in Places /\ xAt \in [Procs -> Records(BOOLEAN)]
  BY DEF Unpack!Acquire, Unpack!Goto, UnpackInv, UnpackTyped, Places
<1>3. Moved(BOOLEAN, xAt, xAt', p, "again", xAt[p].out)
  BY <1>2, GotoMoves
<1>4. UnpackTyped'
  BY <1>1, <1>3 DEF UnpackInv, UnpackTyped, Moved
<1>5. UnpackHolds'
  <2> SUFFICES ASSUME NEW q \in Procs, xAt'[q].pc \in Locked
               PROVE  xLock'[xAt'[q].dataDir] = q
    BY DEF UnpackHolds
  <2>1. CASE q = p
    BY <1>1, <1>3, <2>1 DEF UnpackInv, UnpackTyped, Moved
  <2>2. CASE q # p
    <3>1. xAt'[q] = xAt[q] /\ xAt[q].dataDir \in Unpack!DataDirs
      BY <1>2, <1>3, <2>2 DEF Moved, Records
    <3>2. xLock[xAt[q].dataDir] = q
      BY <3>1 DEF UnpackInv, UnpackHolds
    <3> QED
      BY <1>1, <3>1, <3>2 DEF UnpackInv, UnpackTyped
  <2> QED
    BY <2>1, <2>2
<1>6. UnpackWhole' /\ UnpackVerified' /\ UnpackFound'
  BY <1>1, <1>3 DEF UnpackInv, UnpackWhole, UnpackVerified, UnpackFound, Moved, Checked, Returning,
      Unpack!Ended
<1> QED
  BY <1>4, <1>5, <1>6 DEF UnpackInv

\* Release: the lock goes, and with it the process to where it returns.
LEMMA UnpackReleaseInv ==
  ASSUME UnpackInv, NEW p \in Procs, Unpack!Release(p)
  PROVE  UnpackInv'
<1>1. /\ xAt[p].pc = "release" /\ xAt[p].dataDir \in Unpack!DataDirs /\ xAt[p].out \in {"failed", "run"}
      /\ xLock' = [xLock EXCEPT ![xAt[p].dataDir] = None]
      /\ UNCHANGED <<xTree, xTemp>>
  BY DEF Unpack!Release, Unpack!dataDir, Unpack!Files, UnpackInv, UnpackTyped, Records
<1>2. xAt' = [xAt EXCEPT ![p].pc = xAt[p].out] /\ xAt[p].out \in Places /\ xAt \in [Procs -> Records(BOOLEAN)]
  BY <1>1 DEF Unpack!Release, Unpack!Goto, UnpackInv, UnpackTyped, Places, Unpack!Ended
<1>3. Moved(BOOLEAN, xAt, xAt', p, xAt[p].out, xAt[p].out)
  BY <1>2, GotoMoves
<1>4. UnpackTyped'
  BY <1>1, <1>3 DEF UnpackInv, UnpackTyped, Moved
<1>5. UnpackHolds'
  BY <1>1, <1>2, <1>3 DEF UnpackInv, UnpackHolds, UnpackTyped, Records, Moved, Locked
<1>6. UnpackWhole' /\ UnpackVerified'
  BY <1>1, <1>3 DEF UnpackInv, UnpackWhole, UnpackVerified, Moved, Checked
<1>7. UnpackFound'
  BY <1>1, <1>3 DEF UnpackInv, UnpackFound, Moved, Returning, Unpack!Ended
<1> QED
  BY <1>4, <1>5, <1>6, <1>7 DEF UnpackInv

\* Crash: only the locks of the process that is killed are given back.
LEMMA UnpackCrashInv ==
  ASSUME UnpackInv, NEW p \in Procs, Unpack!Crash(p)
  PROVE  UnpackInv'
<1>1. /\ xLock' = [d \in Unpack!DataDirs |-> IF xLock[d] = p THEN None ELSE xLock[d]]
      /\ UNCHANGED <<xTree, xTemp>>
  BY DEF Unpack!Crash, Unpack!Files
<1>2. xAt' = [xAt EXCEPT ![p].pc = "ended", ![p].hit = TRUE]
  BY Zenon DEF Unpack!Crash
<1>3. "ended" \in Places /\ xAt \in [Procs -> Records(BOOLEAN)]
  BY DEF UnpackInv, UnpackTyped, Places, Unpack!Ended
<1>4. Moved(BOOLEAN, xAt, xAt', p, "ended", xAt[p].out)
  BY <1>2, <1>3, HitMoves, Zenon
<1>5. UnpackTyped'
  BY <1>1, <1>4 DEF UnpackInv, UnpackTyped, Moved
<1>6. UnpackHolds'
  BY <1>1, <1>3, <1>4 DEF UnpackInv, UnpackHolds, Records, Moved, Locked
<1>7. UnpackWhole' /\ UnpackVerified' /\ UnpackFound'
  BY <1>1, <1>4 DEF UnpackInv, UnpackWhole, UnpackVerified, UnpackFound, Moved, Checked, Returning,
      Unpack!Ended
<1> QED
  BY <1>5, <1>6, <1>7 DEF UnpackInv

\* Rename: what gets its name is whole, and nothing that has one is replaced.
LEMMA UnpackRenameInv ==
  ASSUME UnpackInv, NEW p \in Procs, Unpack!Rename(p)
  PROVE  UnpackInv'
<1> DEFINE d == xAt[p].dataDir
           v == xAt[p].version
<1>1. xAt[p].pc = "rename" /\ d \in Unpack!DataDirs /\ v \in Versions /\ UNCHANGED xLock /\ xTemp[d][v] = Entries
  BY DEF Unpack!Rename, UnpackInv, UnpackTyped, Records, UnpackVerified, Checked
<1>2. "remove" \in Places /\ xAt \in [Procs -> Records(BOOLEAN)]
  BY DEF UnpackInv, UnpackTyped, Places
<1>3. CASE xTemp[d][v] # Unpack!Gone /\ ~ Unpack!Stat(d, v)
  <2>1. /\ xTree' = [xTree EXCEPT ![d][v] = xTemp[d][v]]
        /\ xTemp' = [xTemp EXCEPT ![d][v] = Unpack!Gone]
        /\ xAt' = [xAt EXCEPT ![p].pc = "remove", ![p].out = "run"]
    BY <1>3 DEF Unpack!Rename, Unpack!Return, Unpack!dataDir, Unpack!version
  <2>2. Moved(BOOLEAN, xAt, xAt', p, "remove", "run")
    BY <1>2, <2>1, ReturnMoves
  <2>3. xTemp[d][v] \in Trees
    BY <1>1 DEF UnpackInv, UnpackTyped
  <2>4. /\ xTree' \in [Unpack!DataDirs -> [Versions -> Trees]]
        /\ \A e \in Unpack!DataDirs, w \in Versions : xTree'[e][w] = IF e = d /\ w = v THEN Entries ELSE xTree[e][w]
    BY <1>1, <2>1, <2>3, TreeUpdate DEF UnpackInv, UnpackTyped
  <2>5. /\ xTemp' \in [Unpack!DataDirs -> [Versions -> Trees]]
        /\ \A e \in Unpack!DataDirs, w \in Versions : xTemp'[e][w] = IF e = d /\ w = v THEN Unpack!Gone ELSE xTemp[e][w]
    BY <1>1, <2>1, TreeGone, TreeUpdate DEF UnpackInv, UnpackTyped
  <2>6. UnpackTyped'
    BY <1>1, <2>2, <2>4, <2>5 DEF UnpackInv, UnpackTyped, Moved
  <2>7. UnpackHolds'
    BY <1>1, <2>2 DEF UnpackInv, UnpackHolds, Moved, Locked
  <2>8. UnpackWhole'
    BY <2>4 DEF UnpackInv, UnpackWhole
  <2>9. UnpackVerified'
    <3> SUFFICES ASSUME NEW q \in Procs, xAt'[q].pc \in Checked
                 PROVE  xTemp'[xAt'[q].dataDir][xAt'[q].version] = Entries
      BY DEF UnpackVerified
    <3>1. q # p /\ xAt'[q] = xAt[q]
      BY <2>2 DEF Moved, Checked
    <3>2. xAt[q].dataDir \in Unpack!DataDirs /\ xAt[q].version \in Versions
      BY <1>2, <3>1 DEF UnpackInv, UnpackTyped, Records, Checked
    <3>3. xAt[q].dataDir # d
      BY <1>1, <3>1 DEF UnpackInv, UnpackHolds, Checked, Locked
    <3>4. xTemp'[xAt[q].dataDir][xAt[q].version] = xTemp[xAt[q].dataDir][xAt[q].version]
      BY <2>5, <3>2, <3>3
    <3>5. xTemp[xAt[q].dataDir][xAt[q].version] = Entries
      BY <3>1, Zenon DEF UnpackInv, UnpackVerified
    <3> QED
      BY <3>1, <3>4, <3>5
  <2>10. UnpackFound'
    <3> SUFFICES ASSUME NEW q \in Procs
                 PROVE  /\ xAt'[q].pc = "run" \/ (xAt'[q].pc \in Returning /\ xAt'[q].out = "run")
                              => xTree'[xAt'[q].dataDir][xAt'[q].version] # Unpack!Gone
                        /\ xAt'[q].pc \notin Returning \cup Unpack!Ended => xAt'[q].out = "failed"
      BY DEF UnpackFound
    <3>1. CASE q = p
      BY <1>1, <1>3, <2>2, <2>4, <3>1 DEF Moved, Returning
    <3>2. CASE q # p
      <4>1. xAt'[q] = xAt[q] /\ xAt[q].dataDir \in Unpack!DataDirs
        BY <1>2, <2>2, <3>2 DEF Moved, Records
      <4>2. xAt[q].pc = "run" \/ xAt[q].pc \in Returning => xAt[q].version \in Versions
        BY DEF UnpackInv, UnpackTyped, Returning
      <4>3. xTree[xAt[q].dataDir][xAt[q].version] # Unpack!Gone /\ xAt[q].version \in Versions
              => xTree'[xAt[q].dataDir][xAt[q].version] # Unpack!Gone
        BY <1>1, <1>3, <2>4, <4>1
      <4>4. /\ xAt[q].pc = "run" \/ (xAt[q].pc \in Returning /\ xAt[q].out = "run")
                 => xTree[xAt[q].dataDir][xAt[q].version] # Unpack!Gone
            /\ xAt[q].pc \notin Returning \cup Unpack!Ended => xAt[q].out = "failed"
        BY Zenon DEF UnpackInv, UnpackFound
      <4> QED
        BY <4>1, <4>2, <4>3, <4>4, Zenon
    <3> QED
      BY <3>1, <3>2
  <2> QED
    BY <2>6, <2>7, <2>8, <2>9, <2>10 DEF UnpackInv
<1>4. CASE ~ (xTemp[d][v] # Unpack!Gone /\ ~ Unpack!Stat(d, v))
  <2>1. UNCHANGED <<xTree, xTemp>> /\ xAt' = [xAt EXCEPT ![p].pc = "remove", ![p].out = "failed"]
    BY <1>4 DEF Unpack!Rename, Unpack!Return, Unpack!dataDir, Unpack!version, Unpack!Files
  <2>2. Moved(BOOLEAN, xAt, xAt', p, "remove", "failed")
    BY <1>2, <2>1, ReturnMoves
  <2> QED
    BY <1>1, <2>1, <2>2, UnpackMoves DEF Locked, Checked, Returning, Unpack!Ended
<1> QED
  BY <1>3, <1>4

\* The other steps that leave the lock and the files alone.
LEMMA UnpackMovesInv ==
  ASSUME UnpackInv, NEW p \in Procs,
         Unpack!StatLocal(p) \/ Unpack!StatAgain(p) \/ Unpack!Verify(p) \/ Unpack!Rotate(p) \/ Unpack!Symlink(p)
  PROVE  UnpackInv'
<1>1. xAt \in [Procs -> Records(BOOLEAN)] /\ UNCHANGED <<xLock, xTree, xTemp>>
  BY DEF UnpackInv, UnpackTyped, Unpack!StatLocal, Unpack!StatAgain, Unpack!Verify, Unpack!Rotate,
      Unpack!Symlink, Unpack!Files
<1>2. xAt[p].pc \in {"local", "again", "untar", "rotate", "symlink"} /\ xAt[p].out = "failed"
  BY DEF Unpack!StatLocal, Unpack!StatAgain, Unpack!Verify, Unpack!Rotate, Unpack!Symlink, UnpackInv,
      UnpackFound, Returning, Unpack!Ended
<1>3. {"run", "lock", "release", "clean", "rotate", "remove", "symlink", "rename"} \subseteq Places
  BY DEF Places, Unpack!Ended
<1>4. ASSUME NEW c \in Places, Unpack!Goto(p, c)
      PROVE  Moved(BOOLEAN, xAt, xAt', p, c, "failed")
  <2>1. xAt' = [xAt EXCEPT ![p].pc = c]
    BY <1>4 DEF Unpack!Goto
  <2> QED
    BY <1>1, <1>2, <2>1, GotoMoves
<1>5. ASSUME NEW c \in Places, NEW o \in {"failed", "run"}, Unpack!Return(p, c, o)
      PROVE  Moved(BOOLEAN, xAt, xAt', p, c, o)
  <2>1. xAt' = [xAt EXCEPT ![p].pc = c, ![p].out = o]
    BY <1>5 DEF Unpack!Return
  <2> QED
    BY <1>1, <2>1, ReturnMoves
<1>6. CASE Unpack!StatLocal(p)
  <2>1. CASE Unpack!Stat(Unpack!dataDir(p), Unpack!version(p))
    <3>1. Moved(BOOLEAN, xAt, xAt', p, "run", "failed")
      BY <1>3, <1>4, <1>6, <2>1 DEF Unpack!StatLocal
    <3> QED
      BY <1>1, <1>2, <2>1, <3>1, UnpackMoves DEF Locked, Checked, Returning, Unpack!Ended, Unpack!Stat,
          Unpack!dataDir, Unpack!version
  <2>2. CASE ~ Unpack!Stat(Unpack!dataDir(p), Unpack!version(p))
    <3>1. Moved(BOOLEAN, xAt, xAt', p, "lock", "failed")
      BY <1>3, <1>4, <1>6, <2>2 DEF Unpack!StatLocal
    <3> QED
      BY <1>1, <1>2, <3>1, UnpackMoves DEF Locked, Checked, Returning, Unpack!Ended
  <2> QED
    BY <2>1, <2>2
<1>7. CASE Unpack!StatAgain(p)
  <2>1. CASE Unpack!Stat(Unpack!dataDir(p), Unpack!version(p))
    <3>1. Moved(BOOLEAN, xAt, xAt', p, "release", "run") /\ xAt[p].pc = "again"
      BY <1>3, <1>5, <1>7, <2>1 DEF Unpack!StatAgain
    <3> QED
      BY <1>1, <2>1, <3>1, UnpackMoves DEF Locked, Checked, Returning, Unpack!Ended, Unpack!Stat,
          Unpack!dataDir, Unpack!version
  <2>2. CASE ~ Unpack!Stat(Unpack!dataDir(p), Unpack!version(p))
    <3>1. Moved(BOOLEAN, xAt, xAt', p, "clean", "failed") /\ xAt[p].pc = "again"
      BY <1>3, <1>4, <1>7, <2>2 DEF Unpack!StatAgain
    <3> QED
      BY <1>1, <3>1, UnpackMoves DEF Locked, Checked, Returning, Unpack!Ended
  <2> QED
    BY <2>1, <2>2
<1>8. CASE Unpack!Verify(p)
  <2>1. CASE xTemp[Unpack!dataDir(p)][Unpack!version(p)] = Entries
    <3>1. Moved(BOOLEAN, xAt, xAt', p, "rotate", "failed") /\ xAt[p].pc = "untar"
      BY <1>3, <1>4, <1>8, <2>1 DEF Unpack!Verify
    <3> QED
      BY <1>1, <2>1, <3>1, UnpackMoves DEF Locked, Checked, Returning, Unpack!Ended, Unpack!dataDir,
          Unpack!version
  <2>2. CASE xTemp[Unpack!dataDir(p)][Unpack!version(p)] # Entries
    <3>1. Moved(BOOLEAN, xAt, xAt', p, "remove", "failed") /\ xAt[p].pc = "untar"
      BY <1>3, <1>5, <1>8, <2>2 DEF Unpack!Verify
    <3> QED
      BY <1>1, <3>1, UnpackMoves DEF Locked, Checked, Returning, Unpack!Ended
  <2> QED
    BY <2>1, <2>2
<1>9. CASE Unpack!Rotate(p)
  <2>1. Moved(BOOLEAN, xAt, xAt', p, "symlink", "failed") /\ xAt[p].pc = "rotate"
    BY <1>3, <1>4, <1>9 DEF Unpack!Rotate
  <2>2. xTemp[xAt[p].dataDir][xAt[p].version] = Entries
    BY <2>1 DEF UnpackInv, UnpackVerified, Checked
  <2> QED
    BY <1>1, <2>1, <2>2, UnpackMoves DEF Locked, Returning, Unpack!Ended
<1>10. CASE Unpack!Symlink(p)
  <2>1. xAt[p].pc = "symlink" /\ xTemp[xAt[p].dataDir][xAt[p].version] = Entries
    BY <1>10 DEF Unpack!Symlink, UnpackInv, UnpackVerified, Checked
  <2>2. CASE Unpack!Goto(p, "rename")
    <3>1. Moved(BOOLEAN, xAt, xAt', p, "rename", "failed")
      BY <1>3, <1>4, <2>2
    <3> QED
      BY <1>1, <2>1, <3>1, UnpackMoves DEF Locked, Returning, Unpack!Ended
  <2>3. CASE Unpack!Return(p, "remove", "failed")
    <3>1. Moved(BOOLEAN, xAt, xAt', p, "remove", "failed")
      BY <1>3, <1>5, <2>3
    <3> QED
      BY <1>1, <2>1, <3>1, UnpackMoves DEF Locked, Checked, Returning, Unpack!Ended
  <2> QED
    BY <1>10, <2>2, <2>3 DEF Unpack!Symlink
<1> QED
  BY <1>6, <1>7, <1>8, <1>9, <1>10

\* Error: what a process returns after an error is an error.
LEMMA UnpackErrorInv ==
  ASSUME UnpackInv, NEW p \in Procs, Unpack!Error(p)
  PROVE  UnpackInv'
<1>1. PICK c \in {"failed", "release", "remove"} :
        /\ xAt' = [xAt EXCEPT ![p].pc = c, ![p].hit = TRUE]
        /\ xAt[p].pc \in {"lock", "clean", "untar", "rotate", "symlink", "rename"}
        /\ c \in Locked => xAt[p].pc \in Locked
  BY Zenon DEF Unpack!Error, Locked
<1>2. UNCHANGED <<xLock, xTree, xTemp>> /\ c \in Places /\ xAt \in [Procs -> Records(BOOLEAN)]
  BY DEF Unpack!Error, Unpack!Files, Places, Unpack!Ended, UnpackInv, UnpackTyped
<1>3. Moved(BOOLEAN, xAt, xAt', p, c, xAt[p].out)
  BY <1>1, <1>2, HitMoves, Zenon
<1>4. xAt[p].pc # "ended" /\ xAt[p].out = "failed" /\ (c \in Locked => xAt[p].pc \in Locked)
  BY <1>1 DEF UnpackInv, UnpackFound, Returning, Unpack!Ended
<1> QED
  BY <1>2, <1>3, <1>4, UnpackMoves DEF Checked, Returning, Unpack!Ended

\* The steps that write to -tmp.
LEMMA UnpackWritesInv ==
  ASSUME UnpackInv, NEW p \in Procs,
         Unpack!RemoveTemp(p) \/ Unpack!Untar(p) \/ Unpack!UntarWrong(p) \/ Unpack!DeferredRemove(p)
  PROVE  UnpackInv'
<1> DEFINE t == xTemp[xAt[p].dataDir][xAt[p].version]
<1>1. xAt \in [Procs -> Records(BOOLEAN)] /\ UNCHANGED <<xLock, xTree>>
  BY DEF UnpackInv, UnpackTyped, Unpack!RemoveTemp, Unpack!Untar, Unpack!UntarWrong, Unpack!DeferredRemove
<1>2. xAt[p].pc \in {"clean", "untar", "remove"}
  BY DEF Unpack!RemoveTemp, Unpack!Untar, Unpack!UntarWrong, Unpack!DeferredRemove
<1>3. xAt[p].dataDir \in Unpack!DataDirs /\ xAt[p].version \in Versions /\ xAt[p].todo \in SUBSET Entries
  BY <1>1, <1>2 DEF UnpackInv, UnpackTyped, Records, Todos
<1>4. t \in Trees
  BY <1>3 DEF UnpackInv, UnpackTyped
<1>5. CASE Unpack!RemoveTemp(p)
  <2>1. /\ xAt' = [xAt EXCEPT ![p].pc = "untar", ![p].todo = Entries]
        /\ xTemp' = [xTemp EXCEPT ![xAt[p].dataDir][xAt[p].version] = Unpack!Gone]
        /\ xAt[p].pc = "clean"
    BY <1>5 DEF Unpack!RemoveTemp, Unpack!dataDir, Unpack!version
  <2>2. "untar" \in Places /\ Entries \in Todos
    BY DEF Places, Todos
  <2>3. Moved(BOOLEAN, xAt, xAt', p, "untar", xAt[p].out)
    BY <1>1, <2>1, <2>2, TodoMoves
  <2> QED
    BY <1>1, <2>1, <2>3, TreeGone, UnpackWrites
<1>6. CASE Unpack!Untar(p)
  <2>1. PICK e \in xAt[p].todo :
          /\ xTemp' = [xTemp EXCEPT ![xAt[p].dataDir][xAt[p].version] = (t \ Unpack!Gone) \cup {e}]
          /\ xAt' = [xAt EXCEPT ![p].todo = @ \ {e}]
    BY <1>6 DEF Unpack!Untar, Unpack!dataDir, Unpack!version
  <2>2. xAt[p].pc = "untar"
    BY <1>6 DEF Unpack!Untar
  <2>3. Moved(BOOLEAN, xAt, xAt', p, xAt[p].pc, xAt[p].out)
    BY <1>1, <2>1, UntarMoves, Zenon
  <2>4. (t \ Unpack!Gone) \cup {e} \in Trees
    BY <1>3, <1>4, TreeAdd
  <2> HIDE DEF t
  <2> QED
    BY <1>1, <2>1, <2>2, <2>3, <2>4, UnpackWrites
<1>7. CASE Unpack!UntarWrong(p)
  <2>1. PICK e \in xAt[p].todo :
          /\ xTemp' = [xTemp EXCEPT ![xAt[p].dataDir][xAt[p].version] = t \ Unpack!Gone]
          /\ xAt' = [xAt EXCEPT ![p].todo = @ \ {e}, ![p].hit = TRUE]
    BY <1>7, Zenon DEF Unpack!UntarWrong, Unpack!dataDir, Unpack!version
  <2>2. xAt[p].pc = "untar"
    BY <1>7 DEF Unpack!UntarWrong
  <2>3. Moved(BOOLEAN, xAt, xAt', p, xAt[p].pc, xAt[p].out)
    BY <1>1, <2>1, HitMoves, Zenon
  <2>4. t \ Unpack!Gone \in Trees /\ xTemp' = [xTemp EXCEPT ![xAt[p].dataDir][xAt[p].version] = t \ Unpack!Gone]
    BY <1>3, <1>4, <2>1, TreeAdd
  <2> HIDE DEF t
  <2> QED
    BY <1>1, <2>2, <2>3, <2>4, UnpackWrites
<1>8. CASE Unpack!DeferredRemove(p)
  <2>1. /\ xAt' = [xAt EXCEPT ![p].pc = "release"]
        /\ xTemp' = [xTemp EXCEPT ![xAt[p].dataDir][xAt[p].version] = Unpack!Gone]
        /\ xAt[p].pc = "remove"
    BY <1>8 DEF Unpack!DeferredRemove, Unpack!Goto, Unpack!dataDir, Unpack!version
  <2>2. "release" \in Places
    BY DEF Places
  <2>3. Moved(BOOLEAN, xAt, xAt', p, "release", xAt[p].out)
    BY <1>1, <2>1, <2>2, GotoMoves
  <2> QED
    BY <1>1, <2>1, <2>3, TreeGone, UnpackWrites
<1> QED
  BY <1>5, <1>6, <1>7, <1>8


\* Whoever runs has found or named its directory, and what has its name is whole.
LEMMA UnpackInvRunsWhole == UnpackInv => Unpack!RunsWhole
<1> SUFFICES ASSUME UnpackInv, NEW p \in Procs, xAt[p].pc = "run"
             PROVE  xTree[Unpack!dataDir(p)][Unpack!version(p)] = Entries
  BY DEF Unpack!RunsWhole
<1>1. xAt[p].dataDir \in Unpack!DataDirs /\ xAt[p].version \in Versions
  BY DEF UnpackInv, UnpackTyped, Records
<1> QED
  BY <1>1 DEF UnpackInv, UnpackFound, UnpackWhole, Unpack!dataDir, Unpack!version
\* extract gives a process a whole directory of its own version, and nobody takes
\* it away: for any processes, versions and entries, and any number of errors,
\* bad writes and kills.
THEOREM DirectoryWhole == Unpack!Spec => []Unpack!RunsWhole
<1>0. None \notin Procs
  BY DiskAssumption
<1>1. ASSUME UnpackInv, [Unpack!Next]_(Unpack!vars) PROVE UnpackInv'
  <2>1. CASE Unpack!Next
    <3>1. PICK p \in Procs :
            \/ \E v \in Versions, d \in Unpack!DataDirs : Unpack!Start(p, v, d)
            \/ Unpack!Step(p)
            \/ Unpack!UntarWrong(p)
            \/ Unpack!Error(p)
            \/ Unpack!Crash(p)
      BY <2>1 DEF Unpack!Next
    <3>2. CASE \E v \in Versions, d \in Unpack!DataDirs : Unpack!Start(p, v, d)
      BY <1>1, <3>2, UnpackStartInv
    <3>3. CASE Unpack!Step(p)
      BY <1>0, <1>1, <3>3, UnpackStatGlobalInv, UnpackAcquireInv, UnpackReleaseInv, UnpackRenameInv,
          UnpackMovesInv, UnpackWritesInv DEF Unpack!Step
    <3>4. CASE Unpack!UntarWrong(p)
      BY <1>1, <3>4, UnpackWritesInv
    <3>5. CASE Unpack!Error(p)
      BY <1>1, <3>5, UnpackErrorInv
    <3>6. CASE Unpack!Crash(p)
      BY <1>1, <3>6, UnpackCrashInv
    <3> QED
      BY <3>1, <3>2, <3>3, <3>4, <3>5, <3>6
  <2>2. CASE UNCHANGED Unpack!vars
    BY <1>1, <2>2 DEF Unpack!vars, UnpackInv, UnpackTyped, UnpackHolds, UnpackWhole, UnpackVerified,
        UnpackFound
  <2> QED
    BY <1>1, <2>1, <2>2
<1> QED
  BY <1>1, UnpackInitInv, UnpackInvRunsWhole, PTL DEF Unpack!Spec

\* A behaviour of the disk is one of the processes that unpack their programs
\* (DataDir).
LEMMA DiskUnpacks == DiskSpec => Unpack!Spec
<1>1. DiskInit => Unpack!Init
  BY DEF DiskInit
<1>2. [DiskNext]_diskVars => [Unpack!Next]_(Unpack!vars)
  BY DEF DiskNext, diskVars, xVars, Unpack!vars
<1> QED
  BY <1>1, <1>2, PTL DEF DiskSpec, Unpack!Spec

\* A process that extract lets go on finds every entry of its archive, whoever else
\* unpacks and whoever is killed while it does.
THEOREM RunsWholeHolds == DiskSpec => []RunsWhole
<1>1. Unpack!RunsWhole => RunsWhole
  BY DEF RunsWhole
<1> QED
  BY <1>1, DirectoryWhole, DiskUnpacks, PTL

=============================================================================
