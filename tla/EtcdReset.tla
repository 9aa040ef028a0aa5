----------------------------- MODULE EtcdReset ------------------------------
(***************************************************************************)
(* --cluster-reset and --cluster-reset-restore-path on one server with     *)
(* embedded etcd (start in pkg/cluster/managed.go; Reset and Restore in    *)
(* pkg/etcd), with crashes between the steps.                              *)
(*                                                                         *)
(* The data directory is what it was made from: "cluster" is the data of   *)
(* the cluster the server was a member of, "snapshot" that of the snapshot *)
(* restored, "part" what an interrupted restore left, "empty" a directory  *)
(* without a WAL; data that was made a cluster of one member is alone. The *)
(* server is one that has no --server to join.                             *)
(***************************************************************************)
EXTENDS Naturals

CONSTANTS MaxStarts   \* bound: starts of the server

VARIABLES
    proc,       \* where start is
    init,       \* config.ClusterInit
    reset,      \* config.ClusterReset
    restore,    \* config.ClusterResetRestorePath is given
    data,       \* where the data in db/etcd came from
    alone,      \* db/etcd is a cluster of this member alone
    old,        \* the directories moved away by Restore
    resetFile,  \* db/reset-flag exists
    starts,
    resets,     \* observer: resets performed since the last normal start
    refused     \* observer: start refused to reset because it was performed

flags == <<init, reset, restore>>
vars == <<proc, flags, data, alone, old, resetFile, starts, resets, refused>>

Init ==
    /\ proc = "down"
    /\ init = FALSE
    /\ reset = FALSE
    /\ restore = FALSE
    /\ data = "cluster"
    /\ alone = FALSE
    /\ old = {}
    /\ resetFile = FALSE
    /\ starts = 0
    /\ resets = 0
    /\ refused = FALSE

IsInitialized == data # "empty"

\* The driver that assignManagedDriver finds: the data is there or is asked for.
Managed == IsInitialized \/ init

\* The server is started with some flags; a restore path without --cluster-reset
\* is refused. Register writes the name file, which makes the directory.
Start ==
    /\ proc = "down"
    /\ starts < MaxStarts
    /\ starts' = starts + 1
    /\ init' \in BOOLEAN
    /\ reset' \in BOOLEAN
    /\ restore' \in BOOLEAN
    /\ restore' => reset'
    /\ proc' = "start"
    /\ refused' = FALSE
    /\ UNCHANGED <<data, alone, old, resetFile, resets>>

\* No driver: start returns before it looks at the flags, and the server goes on
\* with sqlite.
StartUnmanaged ==
    /\ proc = "start"
    /\ ~Managed
    /\ proc' = "sqlite"
    /\ UNCHANGED <<flags, data, alone, old, resetFile, starts, resets, refused>>

\* A normal start removes the file and starts etcd on the data, or a new cluster
\* where there is none.
StartNormally ==
    /\ proc = "start"
    /\ Managed
    /\ ~reset
    /\ resetFile' = FALSE
    /\ resets' = 0
    /\ proc' = "up"
    /\ IF IsInitialized THEN UNCHANGED <<data, alone>>
                        ELSE data' = "new" /\ alone' = TRUE
    /\ UNCHANGED <<flags, old, starts, refused>>

\* The file says that the reset was performed.
RefuseReset ==
    /\ proc = "start"
    /\ Managed
    /\ reset
    /\ resetFile
    /\ proc' = "down"
    /\ refused' = TRUE
    /\ UNCHANGED <<flags, data, alone, old, resetFile, starts, resets>>

StartReset ==
    /\ proc = "start"
    /\ Managed
    /\ reset
    /\ ~resetFile
    /\ proc' = IF restore THEN "rename" ELSE "touch"
    /\ UNCHANGED <<flags, data, alone, old, resetFile, starts, resets, refused>>

\* Slip: the old data is removed.
RenameRemoves ==
    /\ proc = "rename"
    /\ data' = "empty"
    /\ alone' = FALSE
    /\ proc' = "restore"
    /\ UNCHANGED <<flags, old, resetFile, starts, resets, refused>>

\* Restore moves the directory away,
Rename ==
    /\ proc = "rename"
    /\ old' = old \cup {data}
    /\ data' = "empty"
    /\ alone' = FALSE
    /\ proc' = "restore"
    /\ UNCHANGED <<flags, resetFile, starts, resets, refused>>

\* and makes a new one from the snapshot.
RestoreSnapshot ==
    /\ proc = "restore"
    /\ data' = "snapshot"
    /\ alone' = TRUE
    /\ proc' = "touch"
    /\ UNCHANGED <<flags, old, resetFile, starts, resets, refused>>

\* The restore is cut short, by an error or a crash, before or after it made the
\* WAL directory.
RestoreCut ==
    /\ proc = "restore"
    /\ data' \in {"empty", "part"}
    /\ proc' = "down"
    /\ UNCHANGED <<flags, alone, old, resetFile, starts, resets, refused>>

\* Slip: the file is left to the end.
TouchLater ==
    /\ proc = "touch"
    /\ proc' = "force"
    /\ UNCHANGED <<flags, data, alone, old, resetFile, starts, resets, refused>>

\* Reset makes up a new name and writes the file,
Touch ==
    /\ proc = "touch"
    /\ resetFile' = TRUE
    /\ proc' = "force"
    /\ UNCHANGED <<flags, data, alone, old, starts, resets, refused>>

\* and starts etcd as a new cluster of this member, with the data there is.
NewCluster ==
    /\ proc = "force"
    /\ alone' = TRUE
    /\ data' = IF IsInitialized THEN data ELSE "new"
    /\ resets' = resets + 1
    /\ proc' = "test"
    /\ UNCHANGED <<flags, old, resetFile, starts, refused>>

\* etcd does not start; executor.ETCD drops the error and the server waits.
NewClusterFails ==
    /\ proc = "force"
    /\ proc' = "hung"
    /\ UNCHANGED <<flags, data, alone, old, resetFile, starts, resets, refused>>

\* The goroutine of Reset sees the single member and ends the process.
Exit ==
    /\ proc = "test"
    /\ proc' = "down"
    /\ UNCHANGED <<flags, data, alone, old, resetFile, starts, resets, refused>>

\* Other servers join the cluster.
Join ==
    /\ proc = "up"
    /\ alone' = FALSE
    /\ UNCHANGED <<proc, flags, data, old, resetFile, starts, resets, refused>>

\* The process ends: it crashes, is stopped, or start returns an error (the
\* snapshot is not there or is a directory; a rename or a write fails).
Crash ==
    /\ proc # "down"
    /\ proc' = "down"
    /\ UNCHANGED <<flags, data, alone, old, resetFile, starts, resets, refused>>

Next ==
    \/ Start
    \/ StartUnmanaged
    \/ StartNormally
    \/ RefuseReset
    \/ StartReset
    \/ Rename
    \/ RestoreSnapshot
    \/ RestoreCut
    \/ Touch
    \/ NewCluster
    \/ NewClusterFails
    \/ Exit
    \/ Join
    \/ Crash

Spec == Init /\ [][Next]_vars

-----------------------------------------------------------------------------

Data == {"cluster", "snapshot", "part", "new", "empty"}

\* Types; only a restore leaves the directory without data.
TypeOK ==
    /\ proc \in {"down", "start", "rename", "restore", "touch", "force", "test",
                "hung", "up", "sqlite"}
    /\ init \in BOOLEAN
    /\ reset \in BOOLEAN
    /\ restore \in BOOLEAN
    /\ data \in Data
    /\ alone \in BOOLEAN
    /\ old \subseteq Data
    /\ resetFile \in BOOLEAN
    /\ starts \in Nat
    /\ resets \in Nat
    /\ refused \in BOOLEAN
    /\ data \in {"empty", "part"} => old # {}

\* Whatever is interrupted, the data of the cluster is in the data directory or
\* in one that Restore moved away (Restore renames it before it writes).
DataKept == data = "cluster" \/ "cluster" \in old

\* "touch a file to avoid multiple resets" (etcd.go:193): between two resets the
\* server was started normally, wherever the first was interrupted.
ResetOnce == resets <= 1

\* "cluster-reset was successfully performed" (managed.go:66), the error of a
\* second start with the flag, is said when the member is alone.
ResetPerformed == refused => alone

=============================================================================
