----------------------- MODULE ClusterBootstrapProofs -----------------------
(***************************************************************************)
(* Agreement, StampSound and LeafTrusted of ClusterBootstrap for any       *)
(* number of servers, any way in which they join one another, and any      *)
(* number of crashes, with files cut short and without.                    *)
(*                                                                         *)
(* The files of the cluster are those in the datastore, or those of a      *)
(* server whose etcd data exists.  The argument is that they are complete  *)
(* when they become so, that a step writes no file that is there, and that *)
(* every other server has a full copy before it goes on.                   *)
(***************************************************************************)
EXTENDS ClusterBootstrap, TLAPS

\* No file is missing, and none that would be made again.
Complete(f) == (\A p \in Paths : f[p] # Absent) /\ f["IPSECKey"] # Torn

\* The CA is of the key beside it, if there is one and it can be parsed.
Paired(f) == f["ServerCA"] \in {Absent, Torn, f["ServerCAKey"]}

\* There are files of the cluster for s to read.
HasSource(s) ==
    IF managed THEN JoinURL[s] \in Servers /\ initialized[JoinURL[s]] ELSE datastore # NoData

\* s makes the files of the cluster, or is one that tries to.
Makes(s) == IF managed THEN JoinURL[s] = None ELSE saveBootstrap[s]

\* The phases after Bootstrap, after each step of the gen* functions and after
\* each step of Start.
Preparing == {"cakey", "ca", "leaf", "service", "ipsec", "start", "save", "stamp", "serve", "up"}
HaveCA == {"leaf", "service", "ipsec", "start", "save", "stamp", "serve", "up"}
HaveLeaf == {"service", "ipsec", "start", "save", "stamp", "serve", "up"}
HaveServiceKey == {"ipsec", "start", "save", "stamp", "serve", "up"}
HaveIPSECKey == {"start", "save", "stamp", "serve", "up"}
Started == {"save", "stamp", "serve", "up"}
Stored == {"stamp", "serve", "up"}

\* The files of the cluster are complete and the same wherever they are, and
\* the founder is the first to have them.
Common ==
    /\ datastore # NoData => Complete(datastore) /\ Paired(datastore)
    /\ \A s \in Servers : initialized[s] =>
         /\ managed
         /\ Complete(files[s])
         /\ Paired(files[s])
         /\ \A t \in Servers : initialized[t] => files[s] = files[t]
         /\ JoinURL[s] # None => initialized[JoinURL[s]]
         /\ \E t \in Servers : JoinURL[t] = None /\ initialized[t]

\* Who has left its stamp has a copy of them.
Stamped(s) ==
    stamp[s] =>
        /\ HasSource(s)
        /\ files[s] = Source(s)
        /\ managed => initialized[s]

\* Who is inside bootstrap.Read has a copy of what it has read.
Reading(s) ==
    /\ phase[s] \in {"bootstrap", "read"} =>
         /\ ~stamp[s] /\ ~initialized[s] /\ ~saveBootstrap[s] /\ shouldBootstrap[s]
         /\ managed => JoinURL[s] # None
    /\ phase[s] = "read" =>
         /\ HasSource(s)
         /\ incoming[s] = Source(s)
         /\ \A p \in Paths \ toRead[s] : files[s][p] = incoming[s][p]

\* Who is past it has a copy, unless it makes the files itself.
Copied(s) ==
    /\ phase[s] \in Preparing /\ ~Makes(s) => HasSource(s) /\ files[s] = Source(s)
    /\ phase[s] \in Stored /\ ~managed => datastore # NoData /\ files[s] = datastore
    /\ phase[s] \in Started /\ managed => initialized[s]
    /\ phase[s] \in Preparing /\ managed /\ JoinURL[s] = None => ~shouldBootstrap[s]
    /\ phase[s] = "down" => ~saveBootstrap[s] /\ ~shouldBootstrap[s]
    /\ saveBootstrap[s] => ~managed /\ (stamp[s] => phase[s] \in Stored)

\* What each step of prepare has left behind.
Made(s) ==
    /\ phase[s] = "ca" => files[s]["ServerCAKey"] \notin {Absent, Torn} /\ Makes(s) /\ ~initialized[s]
    /\ phase[s] \in HaveCA => files[s]["ServerCA"] # Absent /\ files[s]["ServerCAKey"] # Absent
    /\ phase[s] \in HaveLeaf => leaf[s] \in {Torn, files[s]["ServerCA"]}
    /\ phase[s] \in HaveServiceKey => files[s]["ServiceKey"] # Absent
    /\ phase[s] \in HaveIPSECKey => files[s]["IPSECKey"] \notin {Absent, Torn}
    /\ phase[s] = "up" => Readable(s)

\* Who may still make the files of the cluster has the CA of its own key.
Pair(s) ==
    (IF managed THEN JoinURL[s] = None ELSE datastore = NoData \/ saveBootstrap[s]) => Paired(files[s])

Good(s) == Stamped(s) /\ Reading(s) /\ Copied(s) /\ Made(s) /\ Pair(s)

IInv == TypeOK /\ Common /\ \A s \in Servers : Good(s)

-----------------------------------------------------------------------------
(* What a step of one server leaves alone                                  *)

\* The files of the cluster stay where they are and as they are.
Steady ==
    /\ managed' = managed
    /\ datastore # NoData => datastore' = datastore
    /\ \A t \in Servers : initialized[t] => initialized'[t] /\ files'[t] = files[t]

\* So does all of the other servers.
Others(s) ==
    \A t \in Servers : t # s =>
        /\ phase'[t] = phase[t] /\ files'[t] = files[t] /\ leaf'[t] = leaf[t]
        /\ stamp'[t] = stamp[t] /\ initialized'[t] = initialized[t]
        /\ incoming'[t] = incoming[t] /\ toRead'[t] = toRead[t]
        /\ shouldBootstrap'[t] = shouldBootstrap[t] /\ saveBootstrap'[t] = saveBootstrap[t]

\* What a server has read or will read is complete.
LEMMA SourceComplete ==
  ASSUME IInv, NEW s \in Servers, HasSource(s)
  PROVE  Complete(Source(s)) /\ Paired(Source(s))
BY DEF IInv, Common, HasSource, Source

\* It stays where it is.
LEMMA SourceKept ==
  ASSUME Steady, NEW s \in Servers, HasSource(s)
  PROVE  HasSource(s)' /\ Source(s)' = Source(s)
BY DEF Steady, HasSource, Source

\* The other servers are as good as they were.
LEMMA GoodOthers ==
  ASSUME IInv, Steady, NEW s \in Servers, Others(s), NEW t \in Servers, t # s
  PROVE  Good(t)'
<1>1. Stamped(t)'
  BY SourceKept DEF IInv, Good, Stamped, Others, Steady
<1>2. Reading(t)'
  BY SourceKept DEF IInv, Good, Reading, Others, Steady
<1>3. Copied(t)'
  BY SourceKept DEF IInv, Good, Copied, Others, Steady, Makes
<1>4. Made(t)'
  BY DEF IInv, Good, Made, Others, Steady, Makes, Readable
<1>5. Pair(t)'
  BY DEF IInv, Good, Pair, Others, Steady, Paired
<1> QED
  BY <1>1, <1>2, <1>3, <1>4, <1>5 DEF Good

\* A step that makes no files those of the cluster.
LEMMA CommonKept ==
  ASSUME IInv, Steady, NEW s \in Servers, Others(s), initialized'[s] = initialized[s], datastore' = datastore
  PROVE  Common'
BY ServersAssumption DEF IInv, Common, Steady, Others, Complete, Paired

\* Whose files are not complete is one that makes them, and nobody has a copy.
LEMMA Incomplete ==
  ASSUME IInv, NEW s \in Servers, phase[s] \in Preparing, ~Complete(files[s])
  PROVE  Makes(s) /\ ~initialized[s] /\ ~stamp[s] /\ phase[s] \notin Stored /\ Paired(files[s])
<1>0. TypeOK /\ Common /\ Stamped(s) /\ Reading(s) /\ Copied(s) /\ Made(s) /\ Pair(s)
  BY DEF IInv, Good
<1>1. Makes(s)
  BY <1>0, SourceComplete DEF Copied
<1>2. ~initialized[s] /\ ~stamp[s]
  BY <1>0, SourceComplete DEF Stamped, Common
<1>3. phase[s] \notin Stored
  BY <1>0, <1>2 DEF Copied, Common, Stored, Started
<1>4. Paired(files[s])
  BY <1>0, <1>1 DEF Pair, Makes
<1> QED
  BY <1>1, <1>2, <1>3, <1>4

-----------------------------------------------------------------------------
(* Kinds of steps                                                          *)

\* The rest of a step: the state of s is good, and the others are as they were.
LEMMA StepIInv ==
  ASSUME IInv, TypeOK', Steady, NEW s \in Servers, Others(s), Common', Good(s)'
  PROVE  IInv'
BY GoodOthers DEF IInv

\* A step that writes nothing and moves s.
Moves(s) ==
    /\ UNCHANGED <<files, leaf, stamp, initialized, managed, datastore>>
    /\ \A t \in Servers : t # s =>
         /\ phase'[t] = phase[t] /\ incoming'[t] = incoming[t] /\ toRead'[t] = toRead[t]
         /\ shouldBootstrap'[t] = shouldBootstrap[t] /\ saveBootstrap'[t] = saveBootstrap[t]

\* Such a step keeps the invariant if s is good after it.
LEMMA MovesIInv ==
  ASSUME IInv, TypeOK', NEW s \in Servers, Moves(s), Good(s)'
  PROVE  IInv'
<1>1. Steady
  BY DEF Moves, Steady
<1>2. Others(s)
  BY DEF Moves, Others
<1>3. Common'
  BY <1>1, <1>2, CommonKept DEF Moves
<1> QED
  BY <1>1, <1>2, <1>3, StepIInv

\* The process ends, and leaves its files as they are.
LEMMA EndsIInv ==
  ASSUME IInv, NEW s \in Servers, MemoryLost(s), UNCHANGED <<files, leaf, stamp, initialized, store>>,
         crashes' \in 0..MaxCrashes
  PROVE  IInv'
<1>0. TypeOK /\ Common /\ Stamped(s) /\ Reading(s) /\ Copied(s) /\ Made(s) /\ Pair(s)
  BY DEF IInv, Good
<1>1. TypeOK'
  BY <1>0 DEF TypeOK, MemoryLost, Goto, Phases, store, NoData, Contents
<1>2. Moves(s) /\ phase'[s] = "down" /\ ~saveBootstrap'[s] /\ ~shouldBootstrap'[s]
  BY <1>0 DEF TypeOK, MemoryLost, Goto, Moves, store
<1>3. Stamped(s)'
  BY <1>0, <1>2 DEF Stamped, Moves, HasSource, Source
<1>4. Reading(s)' /\ Copied(s)' /\ Made(s)'
  BY <1>2 DEF Reading, Copied, Made, Preparing, HaveCA, HaveLeaf, HaveServiceKey, HaveIPSECKey, Started, Stored
<1>5. Pair(s)'
  BY <1>0, <1>2 DEF Pair, Moves, Paired
<1> QED
  BY <1>1, <1>2, <1>3, <1>4, <1>5, MovesIInv DEF Good

\* The steps that only move s from one phase to the next.
LEMMA GotoIInv ==
  ASSUME IInv, NEW s \in Servers, NEW c \in Phases, Goto(s, c), Good(s)',
         UNCHANGED <<files, leaf, stamp, initialized, store, memory, crashes>>,
         toRead[s] = {}
  PROVE  IInv'
<1>0. TypeOK /\ Common /\ Stamped(s) /\ Reading(s) /\ Copied(s) /\ Made(s) /\ Pair(s)
  BY DEF IInv, Good
<1>1. TypeOK'
  BY <1>0 DEF TypeOK, Goto, store, memory
<1>2. Moves(s)
  BY <1>0 DEF TypeOK, Goto, Moves, store, memory
<1> QED
  BY <1>1, <1>2, MovesIInv

-----------------------------------------------------------------------------
(* Bootstrap                                                               *)

\* A server that skips the read founds the cluster or has a copy already.
LEMMA SkipBootstrapIInv ==
  ASSUME IInv, NEW s \in Servers, SkipBootstrap(s)
  PROVE  IInv'
<1>0. TypeOK /\ Common /\ Stamped(s) /\ Reading(s) /\ Copied(s) /\ Made(s) /\ Pair(s)
  BY DEF IInv, Good
<1>1. /\ phase[s] = "down" /\ phase' = [phase EXCEPT ![s] = "cakey"]
      /\ UNCHANGED <<files, leaf, stamp, initialized, managed, datastore,
                     incoming, toRead, shouldBootstrap, saveBootstrap, crashes>>
  BY DEF SkipBootstrap, Goto, store, memory
<1>2. phase'[s] = "cakey" /\ ~saveBootstrap[s] /\ ~shouldBootstrap[s]
  BY <1>0, <1>1 DEF TypeOK, Copied
<1>3. Stamped(s)' /\ Pair(s)'
  BY <1>0, <1>1 DEF Stamped, HasSource, Source, Pair, Paired
<1>4. Reading(s)' /\ Made(s)'
  BY <1>2 DEF Reading, Made, HaveCA, HaveLeaf, HaveServiceKey, HaveIPSECKey
<1>5. Copied(s)'
  <2>1. ~Makes(s) => HasSource(s) /\ files[s] = Source(s)
    BY <1>0, <1>2, ServersAssumption DEF SkipBootstrap, Stamped, Common, Makes, HasSource, Source
  <2> QED
    BY <1>1, <1>2, <2>1 DEF Copied, Makes, HasSource, Source, Started, Stored
<1>6. toRead[s] = {}
  BY <1>0, <1>1 DEF TypeOK
<1> QED
  BY <1>3, <1>4, <1>5, <1>6, GotoIInv DEF SkipBootstrap, Good, Phases

\* The server finds nothing of the cluster on its disk, and asks.
LEMMA NeedBootstrapIInv ==
  ASSUME IInv, NEW s \in Servers, NeedBootstrap(s)
  PROVE  IInv'
<1>0. TypeOK /\ Common /\ Stamped(s) /\ Reading(s) /\ Copied(s) /\ Made(s) /\ Pair(s)
  BY DEF IInv, Good
<1>1. /\ phase[s] = "down" /\ ~stamp[s] /\ (managed => ~initialized[s] /\ JoinURL[s] # None)
      /\ phase' = [phase EXCEPT ![s] = "bootstrap"]
      /\ shouldBootstrap' = [shouldBootstrap EXCEPT ![s] = TRUE]
      /\ UNCHANGED <<files, leaf, stamp, initialized, managed, datastore, incoming, toRead, saveBootstrap, crashes>>
  BY DEF NeedBootstrap, Goto, store
<1>2. TypeOK' /\ Moves(s) /\ phase'[s] = "bootstrap" /\ shouldBootstrap'[s]
  BY <1>0, <1>1 DEF TypeOK, Moves, Phases
<1>3. ~saveBootstrap[s] /\ ~initialized[s]
  BY <1>0, <1>1 DEF Copied, Common
<1>4. Stamped(s)' /\ Reading(s)'
  BY <1>1, <1>2, <1>3 DEF Stamped, Reading
<1>5. Copied(s)' /\ Made(s)'
  BY <1>1, <1>2, <1>3 DEF Copied, Made, Preparing, HaveCA, HaveLeaf, HaveServiceKey, HaveIPSECKey, Started, Stored
<1>6. Pair(s)'
  BY <1>0, <1>1 DEF Pair, Paired
<1> QED
  BY <1>2, <1>4, <1>5, <1>6, MovesIInv DEF Good

\* A server that answers has complete files, which it will keep.
LEMMA BootstrapFoundIInv ==
  ASSUME IInv, NEW s \in Servers, BootstrapFound(s)
  PROVE  IInv'
<1>0. TypeOK /\ Common /\ Stamped(s) /\ Reading(s) /\ Copied(s) /\ Made(s) /\ Pair(s)
  BY DEF IInv, Good
<1>1. /\ phase[s] = "bootstrap" /\ phase' = [phase EXCEPT ![s] = "read"]
      /\ incoming' = [incoming EXCEPT ![s] = Source(s)] /\ toRead' = [toRead EXCEPT ![s] = Paths]
      /\ UNCHANGED <<files, leaf, stamp, initialized, managed, datastore, shouldBootstrap, saveBootstrap, crashes>>
  BY DEF BootstrapFound, Goto, store
<1>2. HasSource(s)
  <2>1. CASE managed
    <3>1. JoinURL[s] \in Servers /\ phase[JoinURL[s]] = "up"
      BY <2>1, ServersAssumption DEF BootstrapFound, Serving
    <3> QED
      BY <2>1, <3>1 DEF IInv, Good, Copied, HasSource, Started
  <2>2. CASE ~managed
    BY <2>2 DEF BootstrapFound, HasSource
  <2> QED
    BY <2>1, <2>2
<1>3. Source(s) \in [Paths -> Contents]
  BY <1>0, <1>2 DEF HasSource, Source, TypeOK
<1>4. TypeOK'
  BY <1>0, <1>1, <1>3 DEF TypeOK, Phases
<1>5. Moves(s) /\ phase'[s] = "read" /\ incoming'[s] = Source(s) /\ toRead'[s] = Paths
  BY <1>0, <1>1 DEF TypeOK, Moves
<1>6. HasSource(s)' /\ Source(s)' = Source(s)
  BY <1>1, <1>2 DEF HasSource, Source
<1>7. Stamped(s)' /\ Reading(s)'
  BY <1>0, <1>1, <1>5, <1>6 DEF Stamped, Reading
<1>8. Copied(s)' /\ Made(s)'
  BY <1>0, <1>1, <1>5
     DEF Reading, Copied, Made, Preparing, HaveCA, HaveLeaf, HaveServiceKey, HaveIPSECKey, Started, Stored
<1>9. Pair(s)'
  BY <1>0, <1>1 DEF Pair, Paired
<1> QED
  BY <1>4, <1>5, <1>7, <1>8, <1>9, MovesIInv DEF Good

\* The datastore has no key yet: s makes the files and is to save them.
LEMMA BootstrapNotFoundIInv ==
  ASSUME IInv, NEW s \in Servers, BootstrapNotFound(s)
  PROVE  IInv'
<1>0. TypeOK /\ Common /\ Stamped(s) /\ Reading(s) /\ Copied(s) /\ Made(s) /\ Pair(s)
  BY DEF IInv, Good
<1>1. /\ phase[s] = "bootstrap" /\ ~managed /\ datastore = NoData
      /\ phase' = [phase EXCEPT ![s] = "cakey"] /\ saveBootstrap' = [saveBootstrap EXCEPT ![s] = TRUE]
      /\ UNCHANGED <<files, leaf, stamp, initialized, managed, datastore, incoming, toRead, shouldBootstrap, crashes>>
  BY DEF BootstrapNotFound, Goto, store
<1>2. Moves(s) /\ phase'[s] = "cakey" /\ saveBootstrap'[s]
  BY <1>0, <1>1 DEF TypeOK, Moves
<1>3. shouldBootstrap[s] /\ toRead[s] = {} /\ ~stamp[s]
  BY <1>0, <1>1, Zenon DEF TypeOK, Reading
<1>4. TypeOK'
  BY <1>0, <1>1, <1>3 DEF TypeOK, Phases
<1>5. Stamped(s)' /\ Reading(s)' /\ Made(s)'
  BY <1>1, <1>2, <1>3 DEF Stamped, Reading, Made, HaveCA, HaveLeaf, HaveServiceKey, HaveIPSECKey
<1>6. Copied(s)'
  BY <1>1, <1>2, <1>3 DEF Copied, Makes, Started, Stored
<1>7. Pair(s)'
  BY <1>0, <1>1 DEF Pair, Paired
<1> QED
  BY <1>2, <1>4, <1>5, <1>6, <1>7, MovesIInv DEF Good

\* When bootstrap.Read returns the copy is whole.
LEMMA ReadDoneIInv ==
  ASSUME IInv, NEW s \in Servers, ReadDone(s)
  PROVE  IInv'
<1>0. TypeOK /\ Common /\ Stamped(s) /\ Reading(s) /\ Copied(s) /\ Made(s) /\ Pair(s)
  BY DEF IInv, Good
<1>1. /\ phase[s] = "read" /\ toRead[s] = {} /\ phase' = [phase EXCEPT ![s] = "cakey"]
      /\ UNCHANGED <<files, leaf, stamp, initialized, managed, datastore,
                     incoming, toRead, shouldBootstrap, saveBootstrap, crashes>>
  BY DEF ReadDone, Goto, store, memory
<1>2. phase'[s] = "cakey"
  BY <1>0, <1>1 DEF TypeOK
<1>3. HasSource(s) /\ files[s] = Source(s)
  <2>1. HasSource(s) /\ incoming[s] = Source(s) /\ \A p \in Paths : files[s][p] = incoming[s][p]
    BY <1>0, <1>1 DEF Reading
  <2>2. files[s] \in [Paths -> Contents] /\ incoming[s] \in [Paths -> Contents]
    BY <1>0 DEF TypeOK
  <2> QED
    BY <2>1, <2>2
<1>4. Stamped(s)' /\ Pair(s)'
  BY <1>0, <1>1 DEF Stamped, HasSource, Source, Pair, Paired
<1>5. Reading(s)' /\ Made(s)'
  BY <1>2 DEF Reading, Made, HaveCA, HaveLeaf, HaveServiceKey, HaveIPSECKey
<1>6. Copied(s)'
  BY <1>0, <1>1, <1>2, <1>3 DEF Reading, Copied, HasSource, Source, Started, Stored
<1> QED
  BY <1>1, <1>4, <1>5, <1>6, GotoIInv DEF ReadDone, Good, Phases



\* A step that writes files that are not yet the cluster's.
LEMMA WritesIInv ==
  ASSUME IInv, TypeOK', NEW s \in Servers, Others(s), ~initialized[s], Good(s)',
         UNCHANGED <<initialized, managed, datastore>>
  PROVE  IInv'
<1>1. Steady
  BY DEF Steady, Others
<1>2. Common'
  BY <1>1, CommonKept
<1> QED
  BY <1>1, <1>2, StepIInv

\* bootstrap.Read writes over a file of s, which is nobody's source yet.
LEMMA ReadFileIInv ==
  ASSUME IInv, NEW s \in Servers, ReadFile(s)
  PROVE  IInv'
<1>0. TypeOK /\ Common /\ Stamped(s) /\ Reading(s) /\ Copied(s) /\ Made(s) /\ Pair(s)
  BY DEF IInv, Good
<1>1. PICK path \in toRead[s] : /\ files' = [files EXCEPT ![s][path] = incoming[s][path]]
                                /\ toRead' = [toRead EXCEPT ![s] = @ \ {path}]
  BY Zenon DEF ReadFile, Put
<1>2. phase[s] = "read" /\ UNCHANGED <<phase, leaf, stamp, initialized, managed, datastore, incoming,
                                       shouldBootstrap, saveBootstrap, crashes>>
  BY DEF ReadFile, store
<1>3. path \in Paths
  BY <1>0, <1>1 DEF TypeOK
<1>4. TypeOK'
  BY <1>0, <1>1, <1>2, <1>3 DEF TypeOK
<1>5. Others(s) /\ Steady /\ ~stamp[s] /\ ~initialized[s]
  BY <1>0, <1>1, <1>2, <1>3 DEF TypeOK, Others, Steady, Reading
<1>6. HasSource(s)' /\ Source(s)' = Source(s)
  BY <1>0, <1>2, <1>5, SourceKept DEF Reading
<1>7. Reading(s)'
  <2>1. \A p \in Paths \ toRead'[s] : files'[s][p] = incoming[s][p]
    BY <1>0, <1>1, <1>2, <1>3 DEF TypeOK, Reading
  <2> QED
    BY <1>0, <1>2, <1>6, <2>1 DEF Reading
<1>8. Stamped(s)' /\ Copied(s)' /\ Made(s)'
  BY <1>0, <1>2, <1>5
     DEF Reading, Stamped, Copied, Made, Preparing, HaveCA, HaveLeaf, HaveServiceKey, HaveIPSECKey, Started, Stored
<1>9. Pair(s)'
  BY <1>0, <1>2, <1>6 DEF Reading, Pair, HasSource
<1> QED
  BY <1>2, <1>4, <1>5, <1>7, <1>8, <1>9, WritesIInv DEF Good

-----------------------------------------------------------------------------
(* genCerts, genServiceAccount, genEncryptedNetworkInfo                    *)

\* A file is made only where the files are nobody else's.
LEMMA GenIInv ==
  ASSUME IInv, NEW s \in Servers, phase[s] \in Preparing, Makes(s), ~initialized[s], ~stamp[s],
         NEW path \in Paths, NEW content \in Contents, Put(s, path, content),
         NEW c \in Preparing \ Stored, c \notin Started, Goto(s, c),
         UNCHANGED <<leaf, stamp, initialized, store, memory, crashes>>,
         Made(s)', Paired(files'[s])
  PROVE  IInv'
<1>0. TypeOK /\ Common /\ Stamped(s) /\ Reading(s) /\ Copied(s) /\ Made(s) /\ Pair(s)
  BY DEF IInv, Good
<1>1. /\ files' = [files EXCEPT ![s][path] = content] /\ phase' = [phase EXCEPT ![s] = c]
      /\ UNCHANGED <<leaf, stamp, initialized, managed, datastore, incoming, toRead,
                     shouldBootstrap, saveBootstrap, crashes>>
  BY DEF Put, Goto, store, memory
<1>2. phase'[s] = c /\ c \in Phases /\ c \notin {"bootstrap", "read", "down"} /\ toRead[s] = {} /\ c \notin Stored
  BY <1>0, <1>1, Zenon DEF TypeOK, Preparing, Phases
<1>3. TypeOK'
  BY <1>0, <1>1, <1>2 DEF TypeOK
<1>4. Others(s)
  BY <1>0, <1>1 DEF TypeOK, Others
<1>5. Stamped(s)' /\ Reading(s)' /\ Pair(s)'
  BY <1>1, <1>2 DEF Stamped, Reading, Pair
<1>6. Copied(s)'
  BY <1>0, <1>1, <1>2 DEF Copied, Makes
<1> QED
  BY <1>1, <1>3, <1>4, <1>5, <1>6, WritesIInv DEF Good

\* A step of prepare that writes nothing shared.
LEMMA GenNothingIInv ==
  ASSUME IInv, NEW s \in Servers, phase[s] \in Preparing \ Stored,
         NEW c \in Preparing \ Stored, c \notin Started, Goto(s, c),
         UNCHANGED <<files, leaf, stamp, initialized, store, memory, crashes>>,
         Made(s)'
  PROVE  IInv'
<1>0. TypeOK /\ Common /\ Stamped(s) /\ Reading(s) /\ Copied(s) /\ Made(s) /\ Pair(s)
  BY DEF IInv, Good
<1>1. /\ phase' = [phase EXCEPT ![s] = c]
      /\ UNCHANGED <<files, leaf, stamp, initialized, managed, datastore, incoming, toRead,
                     shouldBootstrap, saveBootstrap, crashes>>
  BY DEF Goto, store, memory
<1>2. phase'[s] = c /\ c \in Phases /\ c \notin {"bootstrap", "read", "down"} /\ toRead[s] = {} /\ c \notin Stored
  BY <1>0, <1>1, Zenon DEF TypeOK, Preparing, Phases
<1>3. Stamped(s)' /\ Reading(s)' /\ Pair(s)'
  BY <1>0, <1>1, <1>2 DEF Stamped, Reading, Pair, HasSource, Source, Paired
<1>4. Copied(s)'
  <2>1. stamp[s] /\ saveBootstrap[s] => phase[s] \in Stored
    BY <1>0 DEF Copied
  <2> QED
    BY <1>0, <1>1, <1>2, <2>1 DEF Copied, Makes, HasSource, Source
<1> QED
  BY <1>2, <1>3, <1>4, GotoIInv DEF Good


\* A CA key is made only when the files are not complete.
LEMMA GenCAKeyIInv ==
  ASSUME IInv, NEW s \in Servers, GenCAKey(s)
  PROVE  IInv'
<1>0. TypeOK /\ Common /\ Stamped(s) /\ Reading(s) /\ Copied(s) /\ Made(s) /\ Pair(s)
  BY DEF IInv, Good
<1>1. /\ phase[s] = "cakey" /\ phase[s] \in Preparing \ Stored
      /\ UNCHANGED <<leaf, stamp, initialized, managed, saveBootstrap>>
      /\ UNCHANGED <<leaf, stamp, initialized, store, memory, crashes>>
  BY DEF GenCAKey, store, memory, Preparing, Stored
<1>2. CASE exists(s, "ServerCA") /\ exists(s, "ServerCAKey")
  <2>1. Goto(s, "leaf") /\ UNCHANGED files
    BY <1>2 DEF GenCAKey
  <2>2. phase'[s] = "leaf"
    BY <1>0, <2>1 DEF Goto, TypeOK
  <2>3. Made(s)'
    BY <1>2, <2>1, <2>2 DEF Made, exists, HaveCA, HaveLeaf, HaveServiceKey, HaveIPSECKey
  <2> QED
    BY <1>1, <2>1, <2>3, GenNothingIInv DEF Preparing, Stored, Started
<1>3. CASE ~(exists(s, "ServerCA") /\ exists(s, "ServerCAKey"))
  <2>1. files[s]["ServerCAKey"] # Torn /\ Goto(s, "ca") /\ ~Complete(files[s])
    BY <1>3 DEF GenCAKey, exists, Complete, Paths
  <2>2. phase'[s] = "ca"
    BY <1>0, <2>1 DEF Goto, TypeOK
  <2>3. Makes(s) /\ ~initialized[s] /\ ~stamp[s] /\ Paired(files[s])
    BY <1>1, <2>1, Incomplete
  <2>4. CASE exists(s, "ServerCAKey")
    <3>1. UNCHANGED files
      BY <1>3, <2>4, Zenon DEF GenCAKey
    <3>2. Made(s)'
      BY <1>1, <2>1, <2>2, <2>3, <2>4, <3>1
         DEF Made, Makes, exists, HaveCA, HaveLeaf, HaveServiceKey, HaveIPSECKey
    <3> QED
      BY <1>1, <2>1, <3>1, <3>2, GenNothingIInv DEF Preparing, Stored, Started
  <2>5. CASE ~exists(s, "ServerCAKey")
    <3>1. Put(s, "ServerCAKey", s)
      BY <1>3, <2>5 DEF GenCAKey
    <3>2. files'[s] = [files[s] EXCEPT !["ServerCAKey"] = s] /\ files[s] \in [Paths -> Contents]
      BY <1>0, <3>1 DEF Put, TypeOK
    <3>3. files'[s]["ServerCAKey"] = s /\ files'[s]["ServerCA"] = files[s]["ServerCA"]
      BY <3>2 DEF Paths
    <3>4. s \notin {Absent, Torn}
      BY ContentsAssumption
    <3>5. Made(s)'
      BY <1>1, <2>2, <2>3, <3>3, <3>4 DEF Made, Makes, HaveCA, HaveLeaf, HaveServiceKey, HaveIPSECKey
    <3>6. Paired(files'[s])
      BY <2>3, <2>5, <3>3 DEF Paired, exists
    <3> QED
      BY <1>1, <2>1, <2>3, <3>1, <3>5, <3>6, GenIInv DEF Preparing, Stored, Started, Paths, Contents
  <2> QED
    BY <2>4, <2>5, Zenon
<1> QED
  BY <1>2, <1>3, Zenon


\* The CA is made for the key beside it.
LEMMA GenCAIInv ==
  ASSUME IInv, NEW s \in Servers, GenCA(s)
  PROVE  IInv'
<1>0. TypeOK /\ Common /\ Stamped(s) /\ Reading(s) /\ Copied(s) /\ Made(s) /\ Pair(s)
  BY DEF IInv, Good
<1>1. /\ phase[s] = "ca" /\ phase[s] \in Preparing \ Stored
      /\ Put(s, "ServerCA", files[s]["ServerCAKey"]) /\ Goto(s, "leaf")
      /\ UNCHANGED <<leaf, stamp, initialized, store, memory, crashes>>
  BY DEF GenCA, Preparing, Stored
<1>2. files[s]["ServerCAKey"] \in Contents /\ files[s]["ServerCAKey"] # Absent
  BY <1>0, <1>1 DEF TypeOK, Made, Paths
<1>3. files[s] \in [Paths -> Contents] /\ phase'[s] = "leaf" /\ files'[s] = [files[s] EXCEPT !["ServerCA"] = files[s]["ServerCAKey"]]
  BY <1>0, <1>1 DEF TypeOK, Put, Goto
<1>4. files'[s]["ServerCA"] = files[s]["ServerCAKey"] /\ files'[s]["ServerCAKey"] = files[s]["ServerCAKey"]
  BY <1>3 DEF Paths
<1>5. Made(s)' /\ Paired(files'[s])
  BY <1>2, <1>3, <1>4 DEF Made, Paired, HaveCA, HaveLeaf, HaveServiceKey, HaveIPSECKey
<1>6. Makes(s) /\ ~initialized[s] /\ ~stamp[s]
  BY <1>0, <1>1, Zenon DEF Made, Makes, Stamped, Copied
<1> QED
  BY <1>1, <1>2, <1>5, <1>6, GenIInv DEF Preparing, Stored, Started, Paths

\* A service key is made only when there is none.
LEMMA GenServiceKeyIInv ==
  ASSUME IInv, NEW s \in Servers, GenServiceKey(s)
  PROVE  IInv'
<1>0. TypeOK /\ Common /\ Stamped(s) /\ Reading(s) /\ Copied(s) /\ Made(s) /\ Pair(s)
  BY DEF IInv, Good
<1>1. /\ phase[s] = "service" /\ phase[s] \in Preparing \ Stored /\ Goto(s, "ipsec")
      /\ UNCHANGED <<leaf, stamp, initialized, store, memory, crashes>> /\ leaf' = leaf
  BY DEF GenServiceKey, Preparing, Stored
<1>2. phase'[s] = "ipsec"
  BY <1>0, <1>1 DEF Goto, TypeOK
<1>3. CASE exists(s, "ServiceKey")
  <2>1. UNCHANGED files
    BY <1>3 DEF GenServiceKey
  <2>2. Made(s)'
    BY <1>0, <1>1, <1>2, <1>3, <2>1 DEF Made, exists, HaveCA, HaveLeaf, HaveServiceKey, HaveIPSECKey
  <2> QED
    BY <1>1, <2>1, <2>2, GenNothingIInv DEF Preparing, Stored, Started
<1>4. CASE ~exists(s, "ServiceKey")
  <2>1. Put(s, "ServiceKey", s) /\ ~Complete(files[s])
    BY <1>4 DEF GenServiceKey, exists, Complete, Paths
  <2>2. files'[s] = [files[s] EXCEPT !["ServiceKey"] = s] /\ files[s] \in [Paths -> Contents] /\ s # Absent
    BY <1>0, <2>1, ContentsAssumption DEF Put, TypeOK
  <2>3. files'[s]["ServiceKey"] = s /\ \A p \in {"ServerCA", "ServerCAKey"} : files'[s][p] = files[s][p]
    BY <2>2 DEF Paths
  <2>4. Made(s)'
    BY <1>0, <1>1, <1>2, <2>2, <2>3, Zenon DEF Made, HaveCA, HaveLeaf, HaveServiceKey, HaveIPSECKey
  <2>5. Makes(s) /\ ~initialized[s] /\ ~stamp[s] /\ Paired(files[s])
    BY <1>1, <2>1, Incomplete
  <2>6. Paired(files'[s])
    BY <2>3, <2>5 DEF Paired
  <2> QED
    BY <1>1, <2>1, <2>4, <2>5, <2>6, GenIInv DEF Preparing, Stored, Started, Paths, Contents
<1> QED
  BY <1>3, <1>4, Zenon

\* So is a passphrase, or when the one that is there is empty.
LEMMA GenIPSECKeyIInv ==
  ASSUME IInv, NEW s \in Servers, GenIPSECKey(s)
  PROVE  IInv'
<1>0. TypeOK /\ Common /\ Stamped(s) /\ Reading(s) /\ Copied(s) /\ Made(s) /\ Pair(s)
  BY DEF IInv, Good
<1>1. /\ phase[s] = "ipsec" /\ phase[s] \in Preparing \ Stored /\ Goto(s, "start")
      /\ UNCHANGED <<leaf, stamp, initialized, store, memory, crashes>> /\ leaf' = leaf
  BY DEF GenIPSECKey, Preparing, Stored
<1>2. phase'[s] = "start"
  BY <1>0, <1>1 DEF Goto, TypeOK
<1>3. CASE files[s]["IPSECKey"] \notin {Absent, Torn}
  <2>1. UNCHANGED files
    BY <1>3 DEF GenIPSECKey
  <2>2. Made(s)'
    BY <1>0, <1>1, <1>2, <1>3, <2>1 DEF Made, HaveCA, HaveLeaf, HaveServiceKey, HaveIPSECKey
  <2> QED
    BY <1>1, <2>1, <2>2, GenNothingIInv DEF Preparing, Stored, Started
<1>4. CASE files[s]["IPSECKey"] \in {Absent, Torn}
  <2>1. Put(s, "IPSECKey", s) /\ ~Complete(files[s])
    BY <1>4 DEF GenIPSECKey, Complete, Paths
  <2>2. files'[s] = [files[s] EXCEPT !["IPSECKey"] = s] /\ files[s] \in [Paths -> Contents] /\ s \notin {Absent, Torn}
    BY <1>0, <2>1, ContentsAssumption DEF Put, TypeOK
  <2>3. files'[s]["IPSECKey"] = s /\ \A p \in {"ServerCA", "ServerCAKey", "ServiceKey"} : files'[s][p] = files[s][p]
    BY <2>2 DEF Paths
  <2>4. Made(s)'
    BY <1>0, <1>1, <1>2, <2>2, <2>3, Zenon DEF Made, HaveCA, HaveLeaf, HaveServiceKey, HaveIPSECKey
  <2>5. Makes(s) /\ ~initialized[s] /\ ~stamp[s] /\ Paired(files[s])
    BY <1>1, <2>1, Incomplete
  <2>6. Paired(files'[s])
    BY <2>3, <2>5 DEF Paired
  <2> QED
    BY <1>1, <2>1, <2>4, <2>5, <2>6, GenIInv DEF Preparing, Stored, Started, Paths, Contents
<1> QED
  BY <1>3, <1>4

\* A leaf certificate is one the CA beside it signed, or cannot be parsed.
LEMMA GenLeafIInv ==
  ASSUME IInv, NEW s \in Servers, GenLeaf(s)
  PROVE  IInv'
<1>0. TypeOK /\ Common /\ Stamped(s) /\ Reading(s) /\ Copied(s) /\ Made(s) /\ Pair(s)
  BY DEF IInv, Good
<1>1. /\ phase[s] = "leaf" /\ phase' = [phase EXCEPT ![s] = "service"]
      /\ UNCHANGED <<files, stamp, initialized, managed, datastore, incoming, toRead,
                     shouldBootstrap, saveBootstrap, crashes>>
      /\ leaf' = leaf \/ leaf' = [leaf EXCEPT ![s] = files[s]["ServerCA"]]
  BY DEF GenLeaf, Goto, store, memory
<1>2. phase'[s] = "service" /\ files[s]["ServerCA"] \in Contents /\ toRead[s] = {}
  BY <1>0, <1>1 DEF TypeOK, Paths
<1>3. TypeOK'
  BY <1>0, <1>1, <1>2, Zenon DEF TypeOK, Phases
<1>4. Others(s) /\ Steady
  BY <1>0, <1>1 DEF TypeOK, Others, Steady
<1>5. leaf'[s] \in {Torn, files[s]["ServerCA"]}
  BY <1>0 DEF GenLeaf, TypeOK, expired
<1>6. Made(s)'
  BY <1>0, <1>1, <1>2, <1>5 DEF Made, HaveCA, HaveLeaf, HaveServiceKey, HaveIPSECKey
<1>7. Stamped(s)' /\ Reading(s)' /\ Pair(s)'
  BY <1>0, <1>1, <1>2, Zenon DEF Stamped, Reading, Pair, HasSource, Source, Paired
<1>8. Copied(s)'
  BY <1>0, <1>1, <1>2 DEF Copied, Makes, HasSource, Source, Preparing, Started, Stored
<1>9. Common'
  BY <1>1, <1>4, CommonKept
<1> QED
  BY <1>3, <1>4, <1>6, <1>7, <1>8, <1>9, StepIInv DEF Good

-----------------------------------------------------------------------------
(* Start                                                                   *)

\* At Start the files are complete, of whoever makes them too.
LEMMA StartComplete ==
  ASSUME IInv, NEW s \in Servers, phase[s] \in HaveIPSECKey
  PROVE  Complete(files[s])
BY DEF IInv, Good, Made, Complete, Paths, HaveCA, HaveServiceKey, HaveIPSECKey

\* The founder is the first whose etcd data exists, and a server that joins
\* has the files of one whose data exists.
LEMMA StartManagedIInv ==
  ASSUME IInv, NEW s \in Servers, StartManaged(s)
  PROVE  IInv'
<1>0. TypeOK /\ Common /\ Stamped(s) /\ Reading(s) /\ Copied(s) /\ Made(s) /\ Pair(s)
  BY DEF IInv, Good
<1>1. /\ phase[s] = "start" /\ phase' = [phase EXCEPT ![s] = "save"]
      /\ initialized' = [initialized EXCEPT ![s] = managed]
      /\ UNCHANGED <<files, leaf, stamp, managed, datastore, incoming, toRead,
                     shouldBootstrap, saveBootstrap, crashes>>
  BY DEF StartManaged, Goto, store, memory
<1>2. managed \in BOOLEAN
  BY <1>0, ServersAssumption DEF TypeOK
<1>3. TypeOK' /\ phase'[s] = "save" /\ initialized'[s] = managed
  BY <1>0, <1>1, <1>2 DEF TypeOK, Phases
<1>4. Others(s) /\ Steady
  BY <1>0, <1>1, <1>2 DEF TypeOK, Common, Others, Steady
<1>5. Complete(files[s]) /\ (managed /\ JoinURL[s] = None => Paired(files[s]))
  BY <1>0, <1>1, StartComplete, Zenon DEF Pair, HaveIPSECKey
<1>6. managed /\ JoinURL[s] # None => HasSource(s) /\ files[s] = Source(s)
  BY <1>0, <1>1 DEF Copied, Makes, Preparing
<1>7. Common'
  <2>1. CASE ~managed
    <3>1. initialized'[s] = initialized[s]
      BY <1>0, <1>2, <1>3, <2>1 DEF TypeOK, Common
    <3> QED
      BY <1>1, <1>4, <3>1, CommonKept
  <2>2. CASE managed /\ JoinURL[s] # None
    <3>1. initialized[JoinURL[s]] /\ JoinURL[s] \in Servers /\ files[s] = files[JoinURL[s]]
      BY <1>6, <2>2 DEF HasSource, Source
    <3>2. \A t \in Servers : initialized'[t] => t = s \/ initialized[t]
      BY <1>4 DEF Others
    <3>3. initialized'[s] /\ \A t \in Servers : initialized[t] => initialized'[t]
      BY <1>3, <1>4, <2>2 DEF Steady
    <3>4. \A t \in Servers : initialized'[t] => files'[t] = files[JoinURL[s]]
      BY <1>0, <1>1, <3>1, <3>2 DEF Common
    <3>5. \A t \in Servers : initialized'[t] /\ JoinURL[t] # None => initialized'[JoinURL[t]]
      BY <1>0, <3>1, <3>2, <3>3, ServersAssumption DEF Common
    <3>6. Complete(files[JoinURL[s]]) /\ Paired(files[JoinURL[s]])
          /\ \E t \in Servers : JoinURL[t] = None /\ initialized[t]
      BY <1>0, <3>1 DEF Common
    <3>7. \A t \in Servers : initialized'[t] => Complete(files'[t]) /\ Paired(files'[t])
      BY <3>4, <3>6
    <3>8. datastore' # NoData => Complete(datastore') /\ Paired(datastore')
      BY <1>0, <1>1 DEF Common
    <3> QED
      BY <1>1, <2>2, <3>3, <3>4, <3>5, <3>6, <3>7, <3>8 DEF Common, Complete, Paired
  <2>3. CASE managed /\ JoinURL[s] = None
    <3>1. \A t \in Servers : initialized[t] => initialized[s]
      BY <1>0, <1>2, <2>3, FounderAssumption, Zenon DEF TypeOK, Common
    <3>2. CASE initialized[s]
      <4>1. initialized'[s] = initialized[s]
        BY <1>0, <1>3, <2>3, <3>2 DEF TypeOK
      <4> QED
        BY <1>1, <1>4, <4>1, CommonKept
    <3>3. CASE ~initialized[s]
      <4>1. \A t \in Servers : initialized'[t] => t = s
        BY <1>4, <3>1, <3>3 DEF Others
      <4> QED
        BY <1>0, <1>1, <1>3, <1>5, <2>3, <4>1 DEF Common, Complete, Paired
    <3> QED
      BY <3>2, <3>3
  <2> QED
    BY <2>1, <2>2, <2>3
<1>8. HasSource(s) => HasSource(s)' /\ Source(s)' = Source(s)
  BY <1>4, SourceKept
<1>9. Stamped(s)' /\ Reading(s)' /\ Pair(s)'
  BY <1>0, <1>1, <1>3, <1>8 DEF Stamped, Reading, Pair, Paired
<1>10. Copied(s)' /\ Made(s)'
  BY <1>0, <1>1, <1>3, <1>8, Zenon
     DEF Copied, Makes, Made, Preparing, Started, Stored, HaveCA, HaveLeaf, HaveServiceKey, HaveIPSECKey
<1> QED
  BY <1>3, <1>4, <1>7, <1>9, <1>10, StepIInv DEF Good

\* The files that are stored are complete, and there were none before.
LEMMA CreateKeeps ==
  ASSUME IInv, NEW s \in Servers, phase[s] = "save", saveBootstrap[s], datastore = NoData,
         datastore' = files[s], UNCHANGED <<files, initialized, managed>>
  PROVE  Common' /\ Steady /\ datastore' # NoData /\ ~managed /\ ~stamp[s]
<1>0. TypeOK /\ Common /\ Stamped(s) /\ Reading(s) /\ Copied(s) /\ Made(s) /\ Pair(s)
  BY DEF IInv, Good
<1>1. ~managed /\ Complete(files[s]) /\ Paired(files[s])
  BY <1>0, StartComplete DEF Copied, Pair, HaveIPSECKey
<1>2. files[s] # NoData
  BY <1>1 DEF Complete, NoData, Paths
<1>3. Common'
  BY <1>0, <1>1, Zenon DEF Common, Complete, Paired
<1>4. ~stamp[s]
  BY <1>0 DEF Copied, Stored
<1> QED
  BY <1>1, <1>2, <1>3, <1>4 DEF Steady

\* save stores the files of s, or s has those that are stored.
LEMMA SaveIInv ==
  ASSUME IInv, NEW s \in Servers, Save(s)
  PROVE  IInv'
<1>0. TypeOK /\ Common /\ Stamped(s) /\ Reading(s) /\ Copied(s) /\ Made(s) /\ Pair(s)
  BY DEF IInv, Good
<1>1. /\ phase[s] = "save" /\ phase' = [phase EXCEPT ![s] = "stamp"]
      /\ UNCHANGED <<files, leaf, stamp, initialized, managed, incoming, toRead,
                     shouldBootstrap, saveBootstrap, crashes>>
  BY DEF Save, Goto, memory
<1>2. phase'[s] = "stamp" /\ toRead[s] = {} /\ files[s] \in [Paths -> Contents]
  BY <1>0, <1>1 DEF TypeOK
<1>3. Made(s)'
  BY <1>0, <1>1, <1>2 DEF Made, HaveCA, HaveLeaf, HaveServiceKey, HaveIPSECKey
<1>4. CASE saveBootstrap[s]
  <2>1. datastore = NoData /\ datastore' = files[s]
    BY <1>4 DEF Save
  <2>2. Common' /\ Steady /\ datastore' # NoData /\ ~managed /\ ~stamp[s]
    BY <1>1, <1>4, <2>1, CreateKeeps
  <2>3. TypeOK'
    BY <1>0, <1>1, <1>2, <2>1 DEF TypeOK, Phases
  <2>4. Others(s)
    BY <1>0, <1>1 DEF TypeOK, Others
  <2>5. Stamped(s)' /\ Reading(s)' /\ Pair(s)'
    BY <1>0, <1>1, <1>2, <1>4, <2>1, <2>2, Zenon DEF Stamped, Reading, Pair, Paired
  <2>6. Copied(s)'
    BY <1>1, <1>2, <1>4, <2>1, <2>2, Zenon DEF Copied, HasSource, Source, Stored
  <2> QED
    BY <1>3, <2>2, <2>3, <2>4, <2>5, <2>6, StepIInv DEF Good
<1>5. CASE ~saveBootstrap[s]
  <2>1. datastore' = datastore
    BY <1>5 DEF Save
  <2>2. Stamped(s)' /\ Reading(s)' /\ Pair(s)'
    BY <1>0, <1>1, <1>2, <2>1 DEF Stamped, Reading, Pair, HasSource, Source, Paired
  <2>3. Copied(s)'
    BY <1>0, <1>1, <1>2, <1>5, <2>1, Zenon DEF Copied, Makes, HasSource, Source, Preparing, Started, Stored
  <2> QED
    BY <1>1, <1>2, <1>3, <2>1, <2>2, <2>3, GotoIInv, Zenon DEF Good, Goto, Phases, store, memory
<1> QED
  BY <1>4, <1>5

\* The files are stored although s does not get to know it.
LEMMA SaveUnansweredIInv ==
  ASSUME IInv, NEW s \in Servers, SaveUnanswered(s)
  PROVE  IInv'
<1>0. TypeOK /\ Common /\ Stamped(s) /\ Reading(s) /\ Copied(s) /\ Made(s) /\ Pair(s)
  BY DEF IInv, Good
<1>1. /\ phase[s] = "save" /\ saveBootstrap[s] /\ datastore = NoData /\ datastore' = files[s]
      /\ MemoryLost(s) /\ UNCHANGED <<files, leaf, stamp, initialized, managed>>
      /\ crashes < MaxCrashes /\ crashes' = crashes + 1
  BY DEF SaveUnanswered
<1>2. Common' /\ Steady /\ datastore' # NoData /\ ~managed /\ ~stamp[s]
  BY <1>1, CreateKeeps
<1>3. TypeOK'
  BY <1>0, <1>1, CrashesAssumption DEF TypeOK, MemoryLost, Goto, Phases, NoData, Contents
<1>4. Others(s) /\ phase'[s] = "down" /\ ~saveBootstrap'[s] /\ ~shouldBootstrap'[s]
  BY <1>0, <1>1 DEF TypeOK, Others, MemoryLost, Goto
<1>5. Stamped(s)' /\ Reading(s)' /\ Copied(s)' /\ Made(s)'
  BY <1>1, <1>2, <1>4 DEF Stamped, Reading, Copied, Made, Preparing, Started, Stored,
                          HaveCA, HaveLeaf, HaveServiceKey, HaveIPSECKey
<1>6. Pair(s)'
  BY <1>1, <1>2, <1>4 DEF Pair
<1> QED
  BY <1>2, <1>3, <1>4, <1>5, <1>6, StepIInv, Zenon DEF Good

\* A server that leaves the stamp has bootstrapped, and the files are stored.
LEMMA BootstrappedIInv ==
  ASSUME IInv, NEW s \in Servers, Bootstrapped(s)
  PROVE  IInv'
<1>0. TypeOK /\ Common /\ Stamped(s) /\ Reading(s) /\ Copied(s) /\ Made(s) /\ Pair(s)
  BY DEF IInv, Good
<1>1. /\ phase[s] = "stamp" /\ phase' = [phase EXCEPT ![s] = "serve"]
      /\ stamp' = [stamp EXCEPT ![s] = @ \/ shouldBootstrap[s]]
      /\ UNCHANGED <<files, leaf, initialized, managed, datastore, incoming, toRead,
                     shouldBootstrap, saveBootstrap, crashes>>
  BY DEF Bootstrapped, Goto, store, memory
<1>2. phase'[s] = "serve" /\ toRead[s] = {} /\ stamp'[s] = (stamp[s] \/ shouldBootstrap[s])
  BY <1>0, <1>1 DEF TypeOK
<1>3. TypeOK'
  BY <1>0, <1>1, <1>2 DEF TypeOK, Phases
<1>4. Others(s) /\ Steady
  BY <1>0, <1>1 DEF TypeOK, Others, Steady
<1>5. shouldBootstrap[s] => HasSource(s) /\ files[s] = Source(s) /\ (managed => initialized[s])
  BY <1>0, <1>1 DEF Copied, Makes, HasSource, Source, Preparing, Started, Stored
<1>6. Stamped(s)'
  BY <1>0, <1>1, <1>2, <1>5, Zenon DEF Stamped, HasSource, Source
<1>7. Reading(s)' /\ Made(s)' /\ Pair(s)'
  BY <1>0, <1>1, <1>2, Zenon DEF Reading, Made, Pair, Paired, HaveCA, HaveLeaf, HaveServiceKey, HaveIPSECKey
<1>8. Copied(s)'
  BY <1>0, <1>1, <1>2, Zenon DEF Copied, Makes, HasSource, Source, Preparing, Started, Stored
<1>9. Common'
  BY <1>1, <1>4, CommonKept, Zenon
<1> QED
  BY <1>3, <1>4, <1>6, <1>7, <1>8, <1>9, StepIInv DEF Good

\* What a server that serves has, it could read.
LEMMA ServeIInv ==
  ASSUME IInv, NEW s \in Servers, Serve(s)
  PROVE  IInv'
<1>0. TypeOK /\ Common /\ Stamped(s) /\ Reading(s) /\ Copied(s) /\ Made(s) /\ Pair(s)
  BY DEF IInv, Good
<1>1. /\ phase[s] = "serve" /\ Goto(s, "up") /\ UNCHANGED <<files, leaf, stamp, initialized, store, memory, crashes>>
      /\ UNCHANGED <<files, leaf, stamp, initialized, managed, datastore, incoming, toRead,
                     shouldBootstrap, saveBootstrap, crashes>>
  BY DEF Serve, store, memory
<1>2. phase'[s] = "up" /\ toRead[s] = {}
  BY <1>0, <1>1 DEF TypeOK, Goto
<1>3. Stamped(s)' /\ Reading(s)' /\ Made(s)' /\ Pair(s)'
  BY <1>0, <1>1, <1>2
     DEF Serve, Readable, Stamped, Reading, Made, Pair, HasSource, Source, Paired, HaveCA, HaveLeaf, HaveServiceKey, HaveIPSECKey
<1>4. Copied(s)'
  BY <1>0, <1>1, <1>2, Zenon DEF Copied, Makes, HasSource, Source, Preparing, Started, Stored
<1> QED
  BY <1>1, <1>2, <1>3, <1>4, GotoIInv DEF Good, Phases


-----------------------------------------------------------------------------
(* Crashes                                                                 *)

\* A crash inside a write: the file that is cut short is one that s was to
\* read from the cluster, one that was not there, or a leaf certificate.
LEMMA CrashInWriteIInv ==
  ASSUME IInv, NEW s \in Servers, CrashInWrite(s)
  PROVE  IInv'
<1>0. TypeOK /\ Common /\ Stamped(s) /\ Reading(s) /\ Copied(s) /\ Made(s) /\ Pair(s)
  BY DEF IInv, Good
<1>1. /\ MemoryLost(s) /\ UNCHANGED <<stamp, initialized, managed, datastore>>
      /\ crashes < MaxCrashes /\ crashes' = crashes + 1
  BY Zenon DEF CrashInWrite, store
<1>2. /\ phase'[s] = "down" /\ ~saveBootstrap'[s] /\ ~shouldBootstrap'[s]
      /\ phase' \in [Servers -> Phases] /\ incoming' \in [Servers -> [Paths -> Contents]]
      /\ toRead' \in [Servers -> SUBSET Paths] /\ shouldBootstrap' \in [Servers -> BOOLEAN]
      /\ saveBootstrap' \in [Servers -> BOOLEAN]
      /\ \A t \in Servers : saveBootstrap'[t] => shouldBootstrap'[t]
      /\ \A t \in Servers : toRead'[t] # {} => phase'[t] = "read"
  BY <1>0, <1>1 DEF TypeOK, MemoryLost, Goto, Phases, NoData, Contents
<1>3. crashes' \in 0..MaxCrashes
  BY <1>0, <1>1, CrashesAssumption DEF TypeOK
<1>4. Reading(s)' /\ Copied(s)' /\ Made(s)'
  BY <1>2 DEF Reading, Copied, Made, Preparing, Started, Stored, HaveCA, HaveLeaf, HaveServiceKey, HaveIPSECKey
<1>5. ASSUME NEW path \in Paths, Put(s, path, Torn), leaf' = leaf, ~initialized[s], ~stamp[s], Pair(s)'
      PROVE  IInv'
  <2>1. files' = [files EXCEPT ![s][path] = Torn] /\ Torn \in Contents
    BY <1>5 DEF Put, Contents
  <2>2. files' \in [Servers -> [Paths -> Contents]]
    BY <1>0, <2>1 DEF TypeOK
  <2>3. TypeOK'
    BY <1>0, <1>1, <1>2, <1>3, <1>5, <2>2 DEF TypeOK
  <2>4. Others(s)
    BY <1>0, <1>1, <1>5, <2>1 DEF TypeOK, MemoryLost, Goto, Others
  <2>5. Stamped(s)'
    BY <1>1, <1>5 DEF Stamped
  <2> QED
    BY <1>1, <1>4, <1>5, <2>3, <2>4, <2>5, WritesIInv, Zenon DEF Good
<1>6. CASE phase[s] = "read" /\ (\E path \in toRead[s] : Put(s, path, Torn)) /\ leaf' = leaf
  <2>1. PICK path \in toRead[s] : Put(s, path, Torn)
    BY <1>6
  <2>2. path \in Paths /\ ~initialized[s] /\ ~stamp[s]
    BY <1>0, <1>6, <2>1 DEF TypeOK, Reading
  <2>3. Pair(s)'
    BY <1>0, <1>1, <1>2, <1>6, Zenon DEF Reading, HasSource, Pair
  <2> QED
    BY <1>5, <1>6, <2>1, <2>2, <2>3
<1>7. CASE /\ phase[s] \in DOMAIN WrittenPath /\ ~exists(s, WrittenPath[phase[s]])
           /\ Put(s, WrittenPath[phase[s]], Torn) /\ leaf' = leaf
  <2>1. WrittenPath[phase[s]] \in Paths /\ phase[s] \in Preparing
    BY <1>7 DEF WrittenPath, Paths, Preparing
  <2>2. PICK path \in Paths : path = WrittenPath[phase[s]]
    BY <2>1
  <2>3. files[s][path] = Absent /\ Put(s, path, Torn)
    BY <1>7, <2>2 DEF exists
  <2>4. ~initialized[s] /\ ~stamp[s] /\ Paired(files[s])
    BY <2>1, <2>3, Incomplete DEF Complete
  <2>5. files'[s] = [files[s] EXCEPT ![path] = Torn] /\ files[s] \in [Paths -> Contents]
    BY <1>0, <2>3 DEF Put, TypeOK
  <2>6. Paired(files'[s])
    BY <2>3, <2>4, <2>5 DEF Paired, Paths
  <2>7. Pair(s)'
    BY <2>6 DEF Pair
  <2> QED
    BY <1>5, <1>7, <2>3, <2>4, <2>7, Zenon
<1>8. CASE phase[s] = "leaf" /\ leaf' = [leaf EXCEPT ![s] = Torn] /\ UNCHANGED files
  <2>1. TypeOK'
    BY <1>0, <1>1, <1>2, <1>3, <1>8 DEF TypeOK, Contents
  <2>2. Others(s) /\ Steady
    BY <1>0, <1>1, <1>8 DEF TypeOK, MemoryLost, Goto, Others, Steady
  <2>3. Common'
    BY <1>1, <2>2, CommonKept
  <2>4. Stamped(s)' /\ Pair(s)'
    BY <1>0, <1>1, <1>2, <1>8 DEF Stamped, Pair, HasSource, Source, Paired
  <2> QED
    BY <1>4, <2>1, <2>2, <2>3, <2>4, StepIInv DEF Good
<1> QED
  BY <1>6, <1>7, <1>8, Zenon DEF CrashInWrite

-----------------------------------------------------------------------------
(* The invariant                                                           *)

\* Nobody has any file at first.
LEMMA InitIInv ==
  ASSUME Init
  PROVE  IInv
<1>1. NoData \in [Paths -> Contents] /\ Absent \in Contents
  BY DEF NoData, Contents
<1>2. TypeOK
  BY <1>1, CrashesAssumption DEF Init, TypeOK, Phases
<1>3. Common
  BY DEF Init, Common
<1>4. ASSUME NEW s \in Servers
      PROVE  Good(s)
  <2>1. Stamped(s) /\ Reading(s) /\ Copied(s) /\ Made(s)
    BY DEF Init, Stamped, Reading, Copied, Made, Preparing, Started, Stored, HaveCA, HaveLeaf, HaveServiceKey, HaveIPSECKey
  <2>2. Pair(s)
    BY DEF Init, Pair, Paired, NoData, Paths
  <2> QED
    BY <2>1, <2>2 DEF Good
<1> QED
  BY <1>2, <1>3, <1>4 DEF IInv

\* Every step keeps the invariant.
LEMMA NextIInv ==
  ASSUME IInv, [Next]_vars
  PROVE  IInv'
<1>1. CASE Next
  <2>1. PICK s \in Servers : Prepare(s) \/ SaveUnanswered(s) \/ Crash(s) \/ CrashInWrite(s)
    BY <1>1 DEF Next
  <2>2. CASE BootstrapFails(s) \/ GenCAKeyFails(s) \/ GenLeafFails(s) \/ SaveFails(s) \/ ServeFails(s)
    <3>1. Fail(s)
      BY <2>2, Zenon DEF BootstrapFails, GenCAKeyFails, GenLeafFails, SaveFails, ServeFails
    <3>2. crashes' \in 0..MaxCrashes
      BY <3>1 DEF Fail, IInv, TypeOK
    <3> QED
      BY <3>1, <3>2, EndsIInv DEF Fail
  <2>3. CASE Crash(s)
    <3>1. crashes' \in 0..MaxCrashes
      BY <2>3, CrashesAssumption DEF Crash, IInv, TypeOK
    <3> QED
      BY <2>3, <3>1, EndsIInv DEF Crash
  <2> QED
    BY <2>1, <2>2, <2>3, SkipBootstrapIInv, NeedBootstrapIInv, BootstrapFoundIInv, BootstrapNotFoundIInv,
       ReadFileIInv, ReadDoneIInv, GenCAKeyIInv, GenCAIInv, GenLeafIInv, GenServiceKeyIInv, GenIPSECKeyIInv,
       StartManagedIInv, SaveIInv, SaveUnansweredIInv, BootstrappedIInv, ServeIInv, CrashInWriteIInv
       DEF Prepare
<1>2. CASE UNCHANGED vars
  <2>1. UNCHANGED <<phase, files, leaf, stamp, initialized, managed, datastore,
                    incoming, toRead, shouldBootstrap, saveBootstrap, crashes>>
    BY <1>2 DEF vars, store, memory
  <2>2. TypeOK' /\ Common'
    BY <2>1 DEF IInv, TypeOK, Common, Complete, Paired
  <2>3. ASSUME NEW s \in Servers
        PROVE  Good(s)'
    <3>1. Stamped(s)' /\ Reading(s)' /\ Copied(s)'
      BY <2>1, Zenon DEF IInv, Good, Stamped, Reading, Copied, Makes, HasSource, Source
    <3>2. Made(s)' /\ Pair(s)'
      BY <2>1, Zenon DEF IInv, Good, Made, Pair, Makes, Paired, Readable
    <3> QED
      BY <3>1, <3>2 DEF Good
  <2> QED
    BY <2>2, <2>3 DEF IInv
<1> QED
  BY <1>1, <1>2

\* The inductive invariant: the files of the cluster are complete wherever they
\* are, and every server has a copy or makes them (prepare, Bootstrap, Start).
THEOREM Invariance == Spec => []IInv
<1>1. Init => IInv
  BY InitIInv
<1>2. IInv /\ [Next]_vars => IInv'
  BY NextIInv
<1> QED
  BY <1>1, <1>2, PTL DEF Spec

\* Whoever serves has the files of the cluster.
LEMMA UpHasFiles ==
  ASSUME IInv, NEW s \in Servers, phase[s] = "up"
  PROVE  /\ managed => initialized[s]
         /\ ~managed => datastore # NoData /\ files[s] = datastore
         /\ Paired(files[s])
BY Zenon DEF IInv, Common, Good, Copied, Started, Stored

\* All the servers that serve use the same CA, keys and passphrases, the ones in
\* the external datastore when there is one (storageBootstrap, save,
\* httpBootstrap).
THEOREM AgreementHolds == Spec => []Agreement
<1>1. IInv => Agreement
  BY UpHasFiles DEF IInv, Common, Agreement
<1> QED
  BY <1>1, Invariance, PTL

\* The stamp is only ever found beside files that are all those of the cluster
\* (bootstrapped).
THEOREM StampSoundHolds == Spec => []StampSound
<1>1. IInv => StampSound
  BY DEF IInv, Good, Stamped, Source, StampSound
<1> QED
  BY <1>1, Invariance, PTL

\* A server that serves has leaf certificates its CA signed, and the CA's key
\* (createSigningCertKey, createClientCertKey).
THEOREM LeafTrustedHolds == Spec => []LeafTrusted
<1>1. ASSUME IInv, NEW s \in Servers, phase[s] = "up"
      PROVE  leaf[s] = files[s]["ServerCA"] /\ files[s]["ServerCA"] = files[s]["ServerCAKey"]
  <2>1. Readable(s) /\ leaf[s] \in {Torn, files[s]["ServerCA"]} /\ files[s]["ServerCA"] # Absent
    BY <1>1 DEF IInv, Good, Made, HaveCA, HaveLeaf
  <2> QED
    BY <1>1, <2>1, UpHasFiles DEF Readable, Paired, Paths
<1>2. IInv => LeafTrusted
  BY <1>1 DEF LeafTrusted
<1> QED
  BY <1>2, Invariance, PTL


=============================================================================
