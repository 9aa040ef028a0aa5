--------------------------- MODULE EtcdSnapshots ----------------------------
(***************************************************************************)
(* The scheduled etcd snapshots of one server and their retention          *)
(* (pkg/etcd).  cron runs every job in a goroutine of its own, so a slow   *)
(* snapshot overlaps the next one.  A snapshot is saved to a file named    *)
(* for its time with .part at the end, then renamed; both names begin with *)
(* snapshotPrefix, and sort by the time.                                   *)
(***************************************************************************)
EXTENDS Naturals, FiniteSets

CONSTANTS
    Jobs,         \* goroutines that may be inside snapshot at once
    Retentions,   \* values --etcd-snapshot-retention is started with
    MaxTime,      \* bound: snapshots begun
    MaxRestarts   \* bound: restarts, also inside a job

VARIABLES
    files,      \* the snapshots in the directory, those with .part included
    now,        \* the time of the last snapshot begun
    retention,  \* config.EtcdSnapshotRetention
    job,        \* where each job is
    time,       \* the time in the name of its snapshot
    listed,     \* the files its walk of the directory found
    restarts

vars == <<files, now, retention, job, time, listed, restarts>>

File(t) == [time |-> t, part |-> FALSE]
Part(t) == [time |-> t, part |-> TRUE]

Init ==
    /\ files = {}
    /\ now = 0
    /\ retention \in Retentions
    /\ job = [j \in Jobs |-> "idle"]
    /\ time = [j \in Jobs |-> 0]
    /\ listed = [j \in Jobs |-> {}]
    /\ restarts = 0

Oldest(fs) == CHOOSE f \in fs : \A g \in fs : f.time <= g.time

\* snapshot, on a server that is no learner: Save opens the .part file.
Save(j) ==
    /\ job[j] = "idle"
    /\ now < MaxTime
    /\ now' = now + 1
    /\ time' = [time EXCEPT ![j] = now + 1]
    /\ files' = files \cup {Part(now + 1)}
    /\ job' = [job EXCEPT ![j] = "save"]
    /\ UNCHANGED <<retention, listed, restarts>>

\* Save renames it when it is complete.
Saved(j) ==
    /\ job[j] = "save"
    /\ Part(time[j]) \in files
    /\ files' = (files \ {Part(time[j])}) \cup {File(time[j])}
    /\ job' = [job EXCEPT ![j] = "walk"]
    /\ UNCHANGED <<now, retention, time, listed, restarts>>

\* Save fails, as it does if the .part file has been removed, and cleans up; the
\* job ends.
SaveFails(j) ==
    /\ job[j] = "save"
    /\ files' = files \ {Part(time[j])}
    /\ job' = [job EXCEPT ![j] = "idle"]
    /\ UNCHANGED <<now, retention, time, listed, restarts>>

\* Slip: one is removed as soon as there are as many as desired.
ExceedsAtLimit(fs) == Cardinality(fs) >= retention

\* There are more than desired.
Exceeds(fs) == Cardinality(fs) > retention

\* snapshotRetention walks the directory.
Walk(j) ==
    /\ job[j] = "walk"
    /\ listed' = [listed EXCEPT ![j] = files]
    /\ job' = [job EXCEPT ![j] = IF Exceeds(files) THEN "remove" ELSE "idle"]
    /\ UNCHANGED <<files, now, retention, time, restarts>>

\* The walk fails, as it does when a file goes away meanwhile.
WalkFails(j) ==
    /\ job[j] = "walk"
    /\ job' = [job EXCEPT ![j] = "idle"]
    /\ UNCHANGED <<files, now, retention, time, listed, restarts>>

\* It removes the first in the order of the names, that is, of the times; if that
\* is gone or renamed by now os.Remove fails, and the job ends as well.
Remove(j) ==
    /\ job[j] = "remove"
    /\ files' = files \ {Oldest(listed[j])}
    /\ job' = [job EXCEPT ![j] = "idle"]
    /\ listed' = [listed EXCEPT ![j] = {}]
    /\ UNCHANGED <<now, retention, time, restarts>>

\* The server ends, perhaps inside a job, and starts with the same or another
\* retention.
Restart ==
    /\ restarts < MaxRestarts
    /\ restarts' = restarts + 1
    /\ retention' \in Retentions
    /\ job' = [j \in Jobs |-> "idle"]
    /\ listed' = [j \in Jobs |-> {}]
    /\ UNCHANGED <<files, now, time>>

Next ==
    \/ Restart
    \/ \E j \in Jobs :
        \/ Save(j)
        \/ Saved(j)
        \/ SaveFails(j)
        \/ Walk(j)
        \/ WalkFails(j)
        \/ Remove(j)

Spec == Init /\ [][Next]_vars

-----------------------------------------------------------------------------

Complete == {f \in files : ~f.part}

\* Types; a job removes a file only if its walk found more than were desired.
TypeOK ==
    /\ files \subseteq [time : 1 .. now, part : BOOLEAN]
    /\ now \in 0 .. MaxTime
    /\ retention \in Retentions
    /\ job \in [Jobs -> {"idle", "save", "walk", "remove"}]
    /\ time \in [Jobs -> 0 .. now]
    /\ listed \in [Jobs -> SUBSET [time : 1 .. now, part : BOOLEAN]]
    /\ restarts \in 0 .. MaxRestarts
    /\ \A j \in Jobs : job[j] = "remove" => Cardinality(listed[j]) > retention

\* A job about to remove a file has found a younger snapshot that was not complete:
\* one begun after its own.
Overtaken(f) == \E j \in Jobs : job[j] = "remove" /\ \E g \in listed[j] : g.part /\ g.time > f.time

\* Wherever jobs fail, overlap or are interrupted, the newest complete snapshot is
\* never removed, if any is to be kept, except by a slow job that the next one
\* has overtaken, whose .part file it counts (snapshotRetention).
NewestKept ==
    [][retention > 0 =>
        \A f \in Complete :
            (\A g \in Complete : g.time <= f.time) => f \in files' \/ Overtaken(f)]_vars

=============================================================================
