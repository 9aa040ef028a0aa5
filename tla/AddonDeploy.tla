----------------------------- MODULE AddonDeploy -----------------------------
(***************************************************************************)
(* Every server keeps the objects of the cluster in step with the files of *)
(* its manifests directory (pkg/deploy): a pass looks at every file every  *)
(* fifteen seconds, applies those that changed, records their checksum in  *)
(* an Addon object, and takes away those that are disabled.                *)
(*                                                                         *)
(* Servers work on the same Addon and the same objects, each from its own  *)
(* disk and its own cache, which lags behind the cluster.  A file is the   *)
(* version of its content, which stands for its checksum, and the time of  *)
(* its last change.                                                        *)
(***************************************************************************)
EXTENDS Integers, Sequences, FiniteSets

CONSTANTS Servers, Files,
          Setups,      \* what the servers may be: records of
                       \*   bundled: server -> file -> the version in its binary, 0 if none
                       \*   disabled: the files that --disable names
          Skipped,     \* the files with a .skip beside them, and those not YAML or JSON
          MaxEdits,    \* bound on changes of a file by a user
          MaxFaults    \* bound on failed calls and restarts

VARIABLES setup,   \* one of Setups
          disk,    \* server -> file -> [v |-> content, t |-> time], v = 0 if there is none
          clock,   \* time of the last change
          modTime, \* server -> file -> time of the change that has been dealt with
          force,   \* server -> whether checksums are disregarded
          pass,    \* server -> the pass under way
          addon,   \* file -> [sum |-> checksum, rv |-> resource version], rv = 0 if there is none
          cache,   \* server -> what it has seen of addon
          objects, \* file -> the version whose objects are in the cluster, 0 if none
          revision, \* the last resource version given
          edits, faults

vars == <<setup, disk, clock, modTime, force, pass, addon, cache, objects, revision, edits, faults>>

Disabled == setup.disabled
NoAddon == [sum |-> 0, rv |-> 0]
Waiting == [pc |-> "wait"]

\* Stage writes the manifests of the binary over those on disk.
Stage(s, now, was) ==
    [f \in Files |-> IF setup.bundled[s][f] # 0 /\ f \notin Disabled THEN [v |-> setup.bundled[s][f], t |-> now] ELSE was[f]]

Init ==
    /\ setup \in Setups
    /\ clock = 1
    /\ \E had \in BOOLEAN : disk = [s \in Servers |-> Stage(s, 1,
          [f \in Files |-> IF had /\ f \in Disabled THEN [v |-> 1, t |-> 1] ELSE [v |-> 0, t |-> 1]])]
    /\ modTime = [s \in Servers |-> [f \in Files |-> 0]]
    /\ force = [s \in Servers |-> TRUE]
    /\ pass = [s \in Servers |-> Waiting]
    /\ \E had \in BOOLEAN : addon = [f \in Files |-> IF had /\ f \in Disabled THEN [sum |-> 1, rv |-> 1] ELSE NoAddon]
    /\ cache = [s \in Servers |-> addon]
    /\ objects = [f \in Files |-> addon[f].sum]
    /\ revision = 1
    /\ edits = 0
    /\ faults = 0
-----------------------------------------------------------------------------
(* One server's pass                                                       *)

\* listFilesIn walks the directory.
Walk(s) ==
    /\ pass[s].pc = "wait"
    /\ pass' = [pass EXCEPT ![s] = [pc |-> "next", seen |-> disk[s],
                                    todo |-> {f \in Files : disk[s][f].v # 0}, err |-> FALSE]]
    /\ UNCHANGED <<setup, disk, clock, modTime, force, addon, cache, objects, revision, edits, faults>>

\* A file is done with, well or with an error that the end of the pass sees.
FileDone(s, f, ok) ==
    pass' = [pass EXCEPT ![s] = [pc |-> "next", seen |-> @.seen, todo |-> @.todo \ {f}, err |-> @.err \/ ~ ok]]

\* The time of the file once it has been dealt with.
MarkDoneLate(s, f) == modTime' = [modTime EXCEPT ![s][f] = disk[s][f].t]

\* The time that counts is the one the walk saw.
MarkDone(s, f) == modTime' = [modTime EXCEPT ![s][f] = pass[s].seen[f].t]

At(s, pc, f, v, was) ==
    pass' = [pass EXCEPT ![s] = [pc |-> pc, seen |-> @.seen, todo |-> @.todo, err |-> @.err,
                                 f |-> f, v |-> v, was |-> was]]

\* Files that are skipped, or have not changed since they were dealt with.
PassOver(s, f) ==
    /\ pass[s].pc = "next" /\ f \in pass[s].todo
    /\ f \notin Disabled
    /\ f \in Skipped \/ (~ force[s] /\ pass[s].seen[f].t = modTime[s][f])
    /\ FileDone(s, f, TRUE)
    /\ UNCHANGED <<setup, disk, clock, modTime, force, addon, cache, objects, revision, edits, faults>>

\* deploy reads the file and compares it with the Addon of the cache.
Deploy(s, f) ==
    /\ pass[s].pc = "next" /\ f \in pass[s].todo
    /\ f \notin Disabled \union Skipped
    /\ force[s] \/ pass[s].seen[f].t # modTime[s][f]
    /\ IF disk[s][f].v = 0 THEN FileDone(s, f, FALSE) /\ UNCHANGED modTime
       ELSE IF ~ force[s] /\ disk[s][f].v = cache[s][f].sum THEN FileDone(s, f, TRUE) /\ MarkDone(s, f)
       ELSE At(s, "apply", f, disk[s][f].v, cache[s][f]) /\ UNCHANGED modTime
    /\ UNCHANGED <<setup, disk, clock, force, addon, cache, objects, revision, edits, faults>>

Apply(s) ==
    /\ pass[s].pc = "apply"
    /\ objects' = [objects EXCEPT ![pass[s].f] = pass[s].v]
    /\ At(s, "save", pass[s].f, pass[s].v, pass[s].was)
    /\ UNCHANGED <<setup, disk, clock, modTime, force, addon, cache, revision, edits, faults>>

\* The Addon as deploy found it must be the one of the cluster: Create fails
\* if there is one, Update if it has changed or gone.
Save(s) ==
    /\ pass[s].pc = "save"
    /\ LET f == pass[s].f IN
         IF pass[s].was.rv = addon[f].rv
         THEN /\ addon' = [addon EXCEPT ![f] = [sum |-> pass[s].v, rv |-> revision + 1]]
              /\ revision' = revision + 1
              /\ FileDone(s, f, TRUE) /\ MarkDone(s, f)
         ELSE FileDone(s, f, FALSE) /\ UNCHANGED <<addon, revision, modTime>>
    /\ UNCHANGED <<setup, disk, clock, force, cache, objects, edits, faults>>

\* A disabled file: one pass deletes the Addon, and a later one that finds it
\* gone takes away the objects and then the file.
Delete(s, f) ==
    /\ pass[s].pc = "next" /\ f \in pass[s].todo /\ f \in Disabled
    /\ IF addon[f].rv # 0
       THEN addon' = [addon EXCEPT ![f] = NoAddon] /\ FileDone(s, f, TRUE)
       ELSE At(s, "unapply", f, 0, NoAddon) /\ UNCHANGED addon
    /\ UNCHANGED <<setup, disk, clock, modTime, force, cache, objects, revision, edits, faults>>

Unapply(s) ==
    /\ pass[s].pc = "unapply"
    /\ IF disk[s][pass[s].f].v = 0 THEN FileDone(s, pass[s].f, FALSE) /\ UNCHANGED objects
       ELSE /\ objects' = [objects EXCEPT ![pass[s].f] = 0]
            /\ At(s, "remove", pass[s].f, 0, NoAddon)
    /\ UNCHANGED <<setup, disk, clock, modTime, force, addon, cache, revision, edits, faults>>

Remove(s) ==
    /\ pass[s].pc = "remove"
    /\ disk' = [disk EXCEPT ![s][pass[s].f].v = 0]
    /\ FileDone(s, pass[s].f, TRUE)
    /\ UNCHANGED <<setup, clock, modTime, force, addon, cache, objects, revision, edits, faults>>

\* The next call of a pass fails.
CallFails(s) ==
    /\ pass[s].pc \in {"apply", "save", "unapply", "remove"}
    /\ faults < MaxFaults
    /\ faults' = faults + 1
    /\ FileDone(s, pass[s].f, FALSE)
    /\ UNCHANGED <<setup, disk, clock, modTime, force, addon, cache, objects, revision, edits>>

\* start: a pass without errors is the last one that is forced.
PassDone(s) ==
    /\ pass[s].pc = "next" /\ pass[s].todo = {}
    /\ force' = [force EXCEPT ![s] = @ /\ pass[s].err]
    /\ pass' = [pass EXCEPT ![s] = Waiting]
    /\ UNCHANGED <<setup, disk, clock, modTime, addon, cache, objects, revision, edits, faults>>
-----------------------------------------------------------------------------
\* The server is restarted: it stages its manifests and watches anew.
Restart(s) ==
    /\ faults < MaxFaults
    /\ faults' = faults + 1
    /\ clock' = clock + 1
    /\ disk' = [disk EXCEPT ![s] = Stage(s, clock + 1, @)]
    /\ modTime' = [modTime EXCEPT ![s] = [f \in Files |-> 0]]
    /\ force' = [force EXCEPT ![s] = TRUE]
    /\ pass' = [pass EXCEPT ![s] = Waiting]
    /\ cache' = [cache EXCEPT ![s] = addon]
    /\ UNCHANGED <<setup, addon, objects, revision, edits>>

\* A user changes a file.
Edit(s, f) ==
    /\ edits < MaxEdits
    /\ edits' = edits + 1
    /\ clock' = clock + 1
    /\ disk' = [disk EXCEPT ![s][f] = [v |-> 2 + clock, t |-> clock + 1]]
    /\ UNCHANGED <<setup, modTime, force, pass, addon, cache, objects, revision, faults>>

\* The cache catches up.
Sync(s) ==
    /\ cache[s] # addon
    /\ cache' = [cache EXCEPT ![s] = addon]
    /\ UNCHANGED <<setup, disk, clock, modTime, force, pass, addon, objects, revision, edits, faults>>

Work(s) ==
    \/ Walk(s) \/ Apply(s) \/ Save(s) \/ Unapply(s) \/ Remove(s) \/ PassDone(s)
    \/ \E f \in Files : PassOver(s, f) \/ Deploy(s, f) \/ Delete(s, f)

Next ==
    \E s \in Servers : Work(s) \/ Sync(s) \/ CallFails(s) \/ Restart(s) \/ \E f \in Files : Edit(s, f)

Spec == Init /\ [][Next]_vars

\* The loop of start never ends, and the informers deliver what happened.
Fairness == \A s \in Servers : WF_vars(Work(s)) /\ WF_vars(Sync(s))
FairSpec == Spec /\ Fairness
-----------------------------------------------------------------------------
(* Properties                                                              *)

\* A pass works on files it has seen, and no server knows of a resource
\* version that has not been given.
TypeOK ==
    /\ \A s \in Servers : pass[s].pc \in {"wait", "next", "apply", "save", "unapply", "remove"}
    /\ \A s \in Servers : pass[s].pc # "wait" => \A f \in pass[s].todo : pass[s].seen[f].v # 0
    /\ \A s \in Servers, f \in Files : cache[s][f].rv <= revision /\ modTime[s][f] <= clock

\* In the end the cluster has the objects of the file as some server has it
\* now, whoever applied last, however stale the caches were and whichever call
\* failed; what is disabled is gone, with its objects, unless no server had the
\* file, and then its Addon is left as well.  Where the servers have
\* the same file, the Addon has its checksum (deploy, listFilesIn).
Deployed ==
    <>[](\A f \in Files \ Skipped :
            LET versions == {disk[s][f].v : s \in Servers} \ {0} IN
            IF f \in Disabled
            THEN versions = {} /\ (objects[f] # 0 => addon[f] # NoAddon)
            ELSE versions # {} =>
                   /\ objects[f] \in versions
                   /\ Cardinality(versions) = 1 => addon[f].sum = objects[f])
=============================================================================
