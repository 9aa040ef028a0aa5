------------------------------- MODULE DataDir -------------------------------
(***************************************************************************)
(* The k3s binary carries the programs it runs as one archive, and extract *)
(* (cmd/k3s/main.go) unpacks it into a directory named after its contents  *)
(* the first time it is needed.  Every k3s command does so first: a server *)
(* that starts, kubectl, crictl, of this version or, during an upgrade, of *)
(* another, so several processes extract at once.  They share a data       *)
(* directory, the lock in it, and the links current and previous.          *)
(*                                                                         *)
(* A version stands for an archive, and for the directory its hash names.  *)
(* A tree is the set of the entries of the archive that are in it and are  *)
(* as the archive has them.  A process that is killed leaves what it has   *)
(* written and loses the lock; an error on the way is followed by the      *)
(* deferred calls.                                                         *)
(***************************************************************************)
EXTENDS Naturals, FiniteSets

CONSTANTS
    Procs,          \* processes at any one time
    Versions,       \* archives
    Entries,        \* what each archive holds
    None,
    MaxStarts,      \* bound on processes started
    MaxFaults       \* bound on errors, bad writes and crashes

VARIABLES
    at,         \* for each process: where it is, its version and data directory,
                \* the entries still to unpack, what it returns, whether it was hit
    lock,       \* holder of .lock, for each data directory
    tree,       \* the unpacked archive of each version in each data directory
    temp,       \* the same with -tmp
    current,    \* the links in each data directory
    previous,
    starts,
    faults

vars == <<at, lock, tree, temp, current, previous, starts, faults>>

\* DefaultDataDir, and the one below a user's home (LocalHome).
DataDirs == {"default", "home"}

\* No directory of that name.
Gone == {"gone"}

Ended == {"ended", "failed", "run"}

Init ==
    /\ at = [p \in Procs |-> [pc |-> "ended", version |-> None, dataDir |-> "default",
                              todo |-> {}, out |-> "failed", hit |-> FALSE]]
    /\ lock = [d \in DataDirs |-> None]
    /\ tree = [d \in DataDirs |-> [v \in Versions |-> Gone]]
    /\ temp = [d \in DataDirs |-> [v \in Versions |-> Gone]]
    /\ current = [d \in DataDirs |-> None]
    /\ previous = [d \in DataDirs |-> None]
    /\ starts = 0
    /\ faults = 0

-----------------------------------------------------------------------------
(* Helpers                                                                 *)

dataDir(p) == at[p].dataDir
version(p) == at[p].version
Stat(d, v) == tree[d][v] # Gone

Goto(p, pc) == at' = [at EXCEPT ![p].pc = pc]

\* extract returns, after the deferred calls it has registered by now.
Return(p, deferred, out) == at' = [at EXCEPT ![p].pc = deferred, ![p].out = out]

Files == <<tree, temp>>
Links == <<current, previous>>
Bounds == <<starts, faults>>

-----------------------------------------------------------------------------
(* extract                                                                 *)

\* A command is run: by root in the default data directory, by a user in their
\* own (Resolve).
Start(p, v, d) ==
    /\ starts < MaxStarts
    /\ at[p].pc \in Ended
    /\ starts' = starts + 1
    /\ at' = [at EXCEPT ![p] = [pc |-> "global", version |-> v, dataDir |-> d,
                                todo |-> {}, out |-> "failed", hit |-> FALSE]]
    /\ UNCHANGED <<lock, Files, Links, faults>>

\* "first look for global asset folder so we don't create a HOME version".
StatGlobal(p) ==
    /\ at[p].pc = "global"
    /\ IF Stat("default", version(p))
         THEN at' = [at EXCEPT ![p].pc = "run", ![p].dataDir = "default"]
         ELSE Goto(p, "local")
    /\ UNCHANGED <<lock, Files, Links, Bounds>>

StatLocal(p) ==
    /\ at[p].pc = "local"
    /\ Goto(p, IF Stat(dataDir(p), version(p)) THEN "run" ELSE "lock")
    /\ UNCHANGED <<lock, Files, Links, Bounds>>

\* flock.Acquire waits until the lock is free.
Acquire(p) ==
    /\ at[p].pc = "lock"
    /\ lock[dataDir(p)] = None
    /\ lock' = [lock EXCEPT ![dataDir(p)] = p]
    /\ Goto(p, "again")
    /\ UNCHANGED <<Files, Links, Bounds>>

StatAgain(p) ==
    /\ at[p].pc = "again"
    /\ IF Stat(dataDir(p), version(p)) THEN Return(p, "release", "run") ELSE Goto(p, "clean")
    /\ UNCHANGED <<lock, Files, Links, Bounds>>

\* What an earlier process left in -tmp is removed.
RemoveTemp(p) ==
    /\ at[p].pc = "clean"
    /\ temp' = [temp EXCEPT ![dataDir(p)][version(p)] = Gone]
    /\ at' = [at EXCEPT ![p].pc = "untar", ![p].todo = Entries]
    /\ UNCHANGED <<lock, tree, Links, Bounds>>

\* Untar writes the entries one by one.
Untar(p) ==
    /\ at[p].pc = "untar"
    /\ \E e \in at[p].todo :
         /\ temp' = [temp EXCEPT ![dataDir(p)][version(p)] = (@ \ Gone) \cup {e}]
         /\ at' = [at EXCEPT ![p].todo = @ \ {e}]
    /\ UNCHANGED <<lock, tree, Links, Bounds>>

\* The disk keeps something else than what was written, and says nothing.
UntarWrong(p) ==
    /\ at[p].pc = "untar"
    /\ faults < MaxFaults
    /\ faults' = faults + 1
    /\ \E e \in at[p].todo :
         /\ temp' = [temp EXCEPT ![dataDir(p)][version(p)] = @ \ Gone]
         /\ at' = [at EXCEPT ![p].todo = @ \ {e}, ![p].hit = TRUE]
    /\ UNCHANGED <<lock, tree, Links, starts>>

VerifyNot(p) ==
    /\ at[p].pc = "untar"
    /\ at[p].todo = {}
    /\ Goto(p, "rotate")
    /\ UNCHANGED <<lock, Files, Links, Bounds>>

\* dataverify.Verify compares every file with its sum and every link with its
\* target.
Verify(p) ==
    /\ at[p].pc = "untar"
    /\ at[p].todo = {}
    /\ IF temp[dataDir(p)][version(p)] = Entries
         THEN Goto(p, "rotate")
         ELSE Return(p, "remove", "failed")
    /\ UNCHANGED <<lock, Files, Links, Bounds>>

RotateStat(p) ==
    LET d == dataDir(p) IN
    /\ at[p].pc = "rotate"
    /\ IF current[d] # None /\ Stat(d, current[d])
         THEN /\ previous' = [previous EXCEPT ![d] = current[d]]
              /\ current' = [current EXCEPT ![d] = None]
         ELSE UNCHANGED Links
    /\ Goto(p, "symlink")
    /\ UNCHANGED <<lock, Files, Bounds>>

\* The link current, whether or not what it names is there (Lstat), becomes
\* previous.
Rotate(p) ==
    LET d == dataDir(p) IN
    /\ at[p].pc = "rotate"
    /\ IF current[d] # None
         THEN /\ previous' = [previous EXCEPT ![d] = current[d]]
              /\ current' = [current EXCEPT ![d] = None]
         ELSE UNCHANGED Links
    /\ Goto(p, "symlink")
    /\ UNCHANGED <<lock, Files, Bounds>>

\* Symlink does not replace a link.
Symlink(p) ==
    LET d == dataDir(p) IN
    /\ at[p].pc = "symlink"
    /\ IF current[d] = None
         THEN /\ current' = [current EXCEPT ![d] = version(p)]
              /\ Goto(p, "rename")
         ELSE /\ UNCHANGED current
              /\ Return(p, "remove", "failed")
    /\ UNCHANGED <<lock, Files, previous, Bounds>>

\* -tmp gets its name; Rename needs it, and does not replace a directory with
\* something in it.
Rename(p) ==
    LET d == dataDir(p)
        v == version(p) IN
    /\ at[p].pc = "rename"
    /\ IF temp[d][v] # Gone /\ ~ Stat(d, v)
         THEN /\ tree' = [tree EXCEPT ![d][v] = temp[d][v]]
              /\ temp' = [temp EXCEPT ![d][v] = Gone]
              /\ Return(p, "remove", "run")
         ELSE /\ UNCHANGED Files
              /\ Return(p, "remove", "failed")
    /\ UNCHANGED <<lock, Links, Bounds>>

\* The deferred RemoveAll, which runs before the deferred Release.
DeferredRemove(p) ==
    /\ at[p].pc = "remove"
    /\ temp' = [temp EXCEPT ![dataDir(p)][version(p)] = Gone]
    /\ Goto(p, "release")
    /\ UNCHANGED <<lock, tree, Links, Bounds>>

\* extract returns the directory, in which stageAndRun finds the program it
\* becomes, or an error, with which the process ends.
Release(p) ==
    /\ at[p].pc = "release"
    /\ lock' = [lock EXCEPT ![dataDir(p)] = None]
    /\ Goto(p, at[p].out)
    /\ UNCHANGED <<Files, Links, Bounds>>

-----------------------------------------------------------------------------
(* Faults                                                                  *)

\* A call returns an error: Acquire before anything is deferred, Asset before the
\* removal of -tmp is, the others after.
Error(p) ==
    /\ faults < MaxFaults
    /\ faults' = faults + 1
    /\ \/ at[p].pc = "lock" /\ at' = [at EXCEPT ![p].pc = "failed", ![p].hit = TRUE]
       \/ at[p].pc = "clean" /\ at' = [at EXCEPT ![p].pc = "release", ![p].hit = TRUE]
       \/ /\ at[p].pc \in {"untar", "rotate", "symlink", "rename"}
          /\ at' = [at EXCEPT ![p].pc = "remove", ![p].hit = TRUE]
    /\ UNCHANGED <<lock, Files, Links, starts>>

\* The process is killed, or the machine goes down: the kernel gives the lock
\* back, and nothing deferred runs.
Crash(p) ==
    /\ faults < MaxFaults
    /\ faults' = faults + 1
    /\ at[p].pc \notin Ended
    /\ at' = [at EXCEPT ![p].pc = "ended", ![p].hit = TRUE]
    /\ lock' = [d \in DataDirs |-> IF lock[d] = p THEN None ELSE lock[d]]
    /\ UNCHANGED <<Files, Links, starts>>

-----------------------------------------------------------------------------
Step(p) ==
    \/ StatGlobal(p)
    \/ StatLocal(p)
    \/ Acquire(p)
    \/ StatAgain(p)
    \/ RemoveTemp(p)
    \/ Untar(p)
    \/ Verify(p)
    \/ Rotate(p)
    \/ Symlink(p)
    \/ Rename(p)
    \/ DeferredRemove(p)
    \/ Release(p)

Next ==
    \E p \in Procs :
        \/ \E v \in Versions, d \in DataDirs : Start(p, v, d)
        \/ Step(p)
        \/ UntarWrong(p)
        \/ Error(p)
        \/ Crash(p)

Spec == Init /\ [][Next]_vars

-----------------------------------------------------------------------------
(* Properties                                                              *)

\* Every variable holds a value of its type.
TypeOK ==
    /\ at \in [Procs -> [pc : Ended \cup { "global", "local", "lock", "again", "clean", "untar", "rotate",
                                          "symlink", "rename", "remove", "release" },
                         version : Versions \cup {None}, dataDir : DataDirs, todo : SUBSET Entries,
                         out : Ended, hit : BOOLEAN]]
    /\ lock \in [DataDirs -> Procs \cup {None}]
    /\ {tree, temp} \subseteq [DataDirs -> [Versions -> (SUBSET Entries) \cup {Gone}]]
    /\ {current, previous} \subseteq [DataDirs -> Versions \cup {None}]
    /\ starts \in 0 .. MaxStarts /\ faults \in 0 .. MaxFaults

\* A process goes on with a directory that has every entry of its own archive,
\* and has it as long as the process runs, whichever processes were killed
\* while they unpacked it and whatever their versions (extract).
RunsWhole ==
    \A p \in Procs : at[p].pc = "run" => tree[dataDir(p)][version(p)] = Entries

\* A process that meets no fault itself gets to run: none of the others makes
\* it fail or wait for ever, and neither does anything left by one that was
\* killed, be it the lock, -tmp, a link that names nothing or a missing link
\* (extract, Acquire).
Extracts ==
    \A p \in Procs : at[p].pc = "global" ~> at[p].pc = "run" \/ at[p].hit
==============================================================================
