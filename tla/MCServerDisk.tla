---------------------------- MODULE MCServerDisk ----------------------------
(***************************************************************************)
(* What a server keeps on its disk, with the server interrupted anywhere:  *)
(* the etcd data during a reset (EtcdReset), the snapshots (EtcdSnapshots),*)
(* the programs it unpacks (DataDir) and the certificates, keys and        *)
(* passwords (ServerFiles).  The four are in different directories, so a   *)
(* behaviour is one of the module in focus, and the others stay as they    *)
(* begin.                                                                  *)
(*                                                                         *)
(* ServerFiles has a server that is given a further name, a token in its   *)
(* long form, a token for agents, and encryption.                          *)
(***************************************************************************)
EXTENDS ServerFiles

CONSTANTS Jobs, Retentions, MaxTime, MaxRestarts,   \* of EtcdSnapshots
          Procs, Versions, Entries, None,           \* of DataDir
          UnpackStarts, UnpackFaults

\* The flags are numbers, and a process is not the absence of one.
ASSUME DiskAssumption ==
    /\ Retentions \subseteq Nat /\ MaxTime \in Nat
    /\ None \notin Procs

VARIABLES focus,
    nFiles, nNow, nRetention, nJob, nTime, nListed, nRestarts,
    rProc, rInit, rReset, rRestore, rData, rAlone, rOld, rResetFile, rStarts, rResets, rRefused,
    xAt, xLock, xTree, xTemp, xCurrent, xPrevious, xStarts, xFaults

nVars == <<nFiles, nNow, nRetention, nJob, nTime, nListed, nRestarts>>
rVars == <<rProc, rInit, rReset, rRestore, rData, rAlone, rOld, rResetFile, rStarts, rResets, rRefused>>
xVars == <<xAt, xLock, xTree, xTemp, xCurrent, xPrevious, xStarts, xFaults>>

Snapshots == INSTANCE EtcdSnapshots WITH
    files <- nFiles, now <- nNow, retention <- nRetention, job <- nJob, time <- nTime, listed <- nListed,
    restarts <- nRestarts

Reset == INSTANCE EtcdReset WITH
    proc <- rProc, init <- rInit, reset <- rReset, restore <- rRestore, data <- rData, alone <- rAlone, old <- rOld,
    resetFile <- rResetFile, starts <- rStarts, resets <- rResets, refused <- rRefused

Unpack == INSTANCE DataDir WITH MaxStarts <- UnpackStarts, MaxFaults <- UnpackFaults,
    at <- xAt, lock <- xLock, tree <- xTree, temp <- xTemp, current <- xCurrent, previous <- xPrevious,
    starts <- xStarts, faults <- xFaults

Config(sans, token, agentToken, encrypt) ==
    [sans |-> sans, token |-> token, agentToken |-> agentToken, encrypt |-> encrypt]
Plain == Config({"ip1"}, <<>>, <<>>, FALSE)
MCConfigs ==
    { Plain, Config({"ip1", "name2"}, <<>>, <<NodeUser, 90>>, TRUE),
      Config({"ip1", "name2"}, <<ServerUser, 91>>, <<>>, TRUE) }
MCChosen ==
    {"client-ca", "admin", "controller", "kube-proxy", "client-kubelet", "server-ca", "serving-kube-apiserver", "serving-kubelet"}

diskVars == <<focus, vars, nVars, rVars, xVars>>

DiskInit ==
    /\ focus \in {"reset", "snapshots", "files", "unpack"}
    /\ Reset!Init
    /\ Unpack!Init
    /\ Snapshots!Init
    /\ focus # "snapshots" => nRetention = 1
    /\ Init
    /\ focus # "files" => cfg = Plain /\ disk = [f \in {} |-> <<>>]

DiskNext ==
    /\ UNCHANGED focus
    /\ \/ focus = "reset" /\ Reset!Next /\ UNCHANGED <<vars, nVars, xVars>>
       \/ focus = "snapshots" /\ Snapshots!Next /\ UNCHANGED <<vars, rVars, xVars>>
       \/ focus = "files" /\ Next /\ UNCHANGED <<nVars, rVars, xVars>>
       \/ focus = "unpack" /\ Unpack!Next /\ UNCHANGED <<vars, nVars, rVars>>

\* The fairness of ServerFiles: a server that runs goes on, and one that ended
\* is started again; and of DataDir: a process that runs goes on.
DiskSpec ==
    /\ DiskInit
    /\ [][DiskNext]_diskVars
    /\ WF_vars(focus = "files" /\ (Enter \/ Fail \/ Write \/ Serve \/ Exit))
    /\ WF_vars(focus = "files" /\ \E c \in Configs : Start(c))
    /\ \A p \in Procs : WF_xVars(focus = "unpack" /\ Unpack!Step(p))
-----------------------------------------------------------------------------
(* The properties of the modules                                           *)

\* snapshotRetention never removes the newest complete snapshot, unless a younger
\* one is being saved.
NewestKept == Snapshots!NewestKept

\* The data of the cluster is never lost (Restore renames it).
DataKept == Reset!DataKept

\* Between two resets the server was started normally (Reset touches a file).
ResetOnce == Reset!ResetOnce

\* The server comes up in the end and goes on serving, unless a crash left a file
\* broken, or the administrator or a component without kubeconfig (StartServer).
FilesComeUp == focus = "files" => ComesUp

\* A process runs in a directory that was unpacked as a whole (extract).
RunsWhole == Unpack!RunsWhole

\* A process that meets no fault itself gets to run (extract, Acquire).
Extracts == focus = "unpack" => Unpack!Extracts
=============================================================================
