-------------------------- MODULE ClusterBootstrap --------------------------
(***************************************************************************)
(* How the servers of a cluster come to share one set of CA keys           *)
(* (pkg/cluster, pkg/bootstrap, and prepare in pkg/daemons/control).       *)
(*                                                                         *)
(* Every server runs prepare: Bootstrap (read the shared files, from the   *)
(* datastore or from another server, unless a stamp says they were read    *)
(* before), then the gen* functions (make what is missing), then Start     *)
(* (store the files if the datastore had none, and leave the stamp).  A    *)
(* process may end between any two of these steps, its files stay, and it  *)
(* is started again.                                                       *)
(*                                                                         *)
(* A key, certificate or passphrase is represented by the server that made *)
(* it: a server never makes the same file twice.                           *)
(***************************************************************************)
EXTENDS Naturals, FiniteSets

CONSTANTS
    Servers,     \* the servers, all given the same token
    None,        \* no server
    JoinURL,     \* the server each one is told to join, or None
    Modes,       \* the values of managed to be looked at
    Tears,       \* TRUE: a crash may cut a file that is being written
    MaxCrashes   \* bound: crashes of all the servers together

ASSUME ServersAssumption ==
    /\ None \notin Servers
    /\ JoinURL \in [Servers -> Servers \cup {None}]
    /\ Modes \subseteq BOOLEAN
    /\ Tears \in BOOLEAN

\* With embedded etcd a server that is told to join nobody founds a cluster:
\* there is one.
ASSUME FounderAssumption ==
    TRUE \in Modes => \A s, t \in Servers : JoinURL[s] = None /\ JoinURL[t] = None => s = t

ASSUME CrashesAssumption == MaxCrashes \in Nat

\* Four of the fields of ControlRuntimeBootstrap stand for the fourteen: a CA
\* key and its certificate, a file that is made when it is not there, and one
\* that is made when it is not there or empty.
Paths == {"ServerCAKey", "ServerCA", "ServiceKey", "IPSECKey"}

\* What a path may hold beside the file some server made: nothing, or what an
\* interrupted ioutil.WriteFile leaves, which exists and cannot be parsed.
Absent == "absent"
Torn == "torn"
Contents == Servers \cup {Absent, Torn}

\* A file that a server made is neither.
ASSUME ContentsAssumption == Servers \cap {Absent, Torn} = {}

NoData == [p \in Paths |-> Absent]

VARIABLES
    phase,            \* where each server's prepare is
    files,            \* its files under DataDir
    leaf,             \* the CA that signed its leaf certificates
    stamp,            \* the file db/joined-<hash> exists
    initialized,      \* managed: the etcd data directory exists
    managed,          \* TRUE: embedded etcd; FALSE: an external datastore
    datastore,        \* external: the value of /bootstrap/<hash>, or NoData
    incoming,         \* the data bootstrap.Read was given
    toRead,           \* the paths it has still to write
    shouldBootstrap,  \* the field of Cluster
    saveBootstrap,    \* the field of Cluster
    crashes           \* crashes so far

memory == <<incoming, toRead, shouldBootstrap, saveBootstrap>>
store == <<managed, datastore>>
vars == <<phase, files, leaf, stamp, initialized, store, memory, crashes>>

Phases == {"down", "bootstrap", "read", "cakey", "ca", "leaf", "service",
           "ipsec", "start", "save", "stamp", "serve", "up"}

Init ==
    /\ phase = [s \in Servers |-> "down"]
    /\ files = [s \in Servers |-> NoData]
    /\ leaf = [s \in Servers |-> Absent]
    /\ stamp = [s \in Servers |-> FALSE]
    /\ initialized = [s \in Servers |-> FALSE]
    /\ managed \in Modes
    /\ datastore = NoData
    /\ incoming = [s \in Servers |-> NoData]
    /\ toRead = [s \in Servers |-> {}]
    /\ shouldBootstrap = [s \in Servers |-> FALSE]
    /\ saveBootstrap = [s \in Servers |-> FALSE]
    /\ crashes = 0

Goto(s, p) == phase' = [phase EXCEPT ![s] = p]
Put(s, path, content) == files' = [files EXCEPT ![s][path] = content]

\* The process ends and what it had in memory is gone.
MemoryLost(s) ==
    /\ Goto(s, "down")
    /\ incoming' = [incoming EXCEPT ![s] = NoData]
    /\ toRead' = [toRead EXCEPT ![s] = {}]
    /\ shouldBootstrap' = [shouldBootstrap EXCEPT ![s] = FALSE]
    /\ saveBootstrap' = [saveBootstrap EXCEPT ![s] = FALSE]

\* prepare returns an error, which ends the process.
Fail(s) ==
    /\ MemoryLost(s)
    /\ UNCHANGED <<files, leaf, stamp, initialized, store, crashes>>

-----------------------------------------------------------------------------
(* Bootstrap *)

\* Slip: HTTPBootstrap, which adds the route, is set only where a server joins.
ServingJoined(s) == s # None /\ phase[s] = "up" /\ shouldBootstrap[s]

\* The server another one is told to join answers its requests.
Serving(s) == s # None /\ phase[s] = "up"

\* shouldBootstrapLoad needs nothing from anyone: the managed database exists
\* on disk, or is to be created, or the stamp exists.
SkipBootstrap(s) ==
    /\ phase[s] = "down"
    /\ \/ managed /\ (initialized[s] \/ JoinURL[s] = None)
       \/ stamp[s] /\ (managed => Serving(JoinURL[s]))
    /\ Goto(s, "cakey")
    /\ UNCHANGED <<files, leaf, stamp, initialized, store, memory, crashes>>

\* Slip: the stamp is left before anything is read.
NeedBootstrapStamped(s) ==
    /\ phase[s] = "down"
    /\ ~stamp[s]
    /\ managed => ~initialized[s] /\ JoinURL[s] # None /\ Serving(JoinURL[s])
    /\ Goto(s, "bootstrap")
    /\ shouldBootstrap' = [shouldBootstrap EXCEPT ![s] = TRUE]
    /\ stamp' = [stamp EXCEPT ![s] = TRUE]
    /\ UNCHANGED <<files, leaf, initialized, store, incoming, toRead,
                   saveBootstrap, crashes>>

\* shouldBootstrapLoad returns true.  (When the server to join does not answer
\* it returns an error and the process ends, as if it had not started.)
NeedBootstrap(s) ==
    /\ phase[s] = "down"
    /\ ~stamp[s]
    /\ managed => ~initialized[s] /\ JoinURL[s] # None /\ Serving(JoinURL[s])
    /\ Goto(s, "bootstrap")
    /\ shouldBootstrap' = [shouldBootstrap EXCEPT ![s] = TRUE]
    /\ UNCHANGED <<files, leaf, stamp, initialized, store, incoming, toRead,
                   saveBootstrap, crashes>>

\* The data to read: from the server to join, which reads its own files, or
\* from the datastore.
Source(s) == IF managed THEN files[JoinURL[s]] ELSE datastore

\* httpBootstrap, or storageBootstrap when the key is there.
BootstrapFound(s) ==
    /\ phase[s] = "bootstrap"
    /\ IF managed THEN Serving(JoinURL[s]) ELSE datastore # NoData
    /\ incoming' = [incoming EXCEPT ![s] = Source(s)]
    /\ toRead' = [toRead EXCEPT ![s] = Paths]
    /\ Goto(s, "read")
    /\ UNCHANGED <<files, leaf, stamp, initialized, store, shouldBootstrap,
                   saveBootstrap, crashes>>

\* storageBootstrap when it is not: this server's files are to be stored.
BootstrapNotFound(s) ==
    /\ phase[s] = "bootstrap"
    /\ ~managed
    /\ datastore = NoData
    /\ saveBootstrap' = [saveBootstrap EXCEPT ![s] = TRUE]
    /\ Goto(s, "cakey")
    /\ UNCHANGED <<files, leaf, stamp, initialized, store, incoming, toRead,
                   shouldBootstrap, crashes>>

\* The server to join has gone.
BootstrapFails(s) ==
    /\ phase[s] = "bootstrap"
    /\ managed
    /\ ~Serving(JoinURL[s])
    /\ Fail(s)

\* bootstrap.Read writes one file after the other, in the order of a Go map.
ReadFile(s) ==
    /\ phase[s] = "read"
    /\ \E path \in toRead[s] :
        /\ Put(s, path, incoming[s][path])
        /\ toRead' = [toRead EXCEPT ![s] = @ \ {path}]
    /\ UNCHANGED <<phase, leaf, stamp, initialized, store, incoming,
                   shouldBootstrap, saveBootstrap, crashes>>

ReadDone(s) ==
    /\ phase[s] = "read"
    /\ toRead[s] = {}
    /\ Goto(s, "cakey")
    /\ UNCHANGED <<files, leaf, stamp, initialized, store, memory, crashes>>

-----------------------------------------------------------------------------
(* genCerts, genServiceAccount, genEncryptedNetworkInfo *)

exists(s, path) == files[s][path] # Absent

\* createSigningCertKey makes the key unless it is there with its certificate.
GenCAKey(s) ==
    /\ phase[s] = "cakey"
    /\ IF exists(s, "ServerCA") /\ exists(s, "ServerCAKey")
         THEN Goto(s, "leaf") /\ UNCHANGED files
         ELSE /\ files[s]["ServerCAKey"] # Torn
              /\ Goto(s, "ca")
              /\ IF exists(s, "ServerCAKey") THEN UNCHANGED files
                                             ELSE Put(s, "ServerCAKey", s)
    /\ UNCHANGED <<leaf, stamp, initialized, store, memory, crashes>>

\* LoadOrGenerateKeyFile refuses a key file that is there and has no key in it.
GenCAKeyFails(s) ==
    /\ phase[s] = "cakey"
    /\ ~exists(s, "ServerCA")
    /\ files[s]["ServerCAKey"] = Torn
    /\ Fail(s)

\* The certificate of a key is represented like the key.
GenCA(s) ==
    /\ phase[s] = "ca"
    /\ Put(s, "ServerCA", files[s]["ServerCAKey"])
    /\ Goto(s, "leaf")
    /\ UNCHANGED <<leaf, stamp, initialized, store, memory, crashes>>

\* Slip: only the dates of the certificate are looked at.
expiredByDate(s) == FALSE

\* expired: the leaf certificate does not verify with the CA.  One that cannot
\* be parsed is not "expired".
expired(s) == leaf[s] \notin {Absent, Torn} /\ leaf[s] # files[s]["ServerCA"]

\* createClientCertKey signs a leaf certificate unless there is one that is
\* still good.
GenLeaf(s) ==
    /\ phase[s] = "leaf"
    /\ IF leaf[s] # Absent /\ ~expired(s)
         THEN UNCHANGED leaf
         ELSE /\ files[s]["ServerCA"] # Torn
              /\ files[s]["ServerCAKey"] # Torn
              /\ leaf' = [leaf EXCEPT ![s] = files[s]["ServerCA"]]
    /\ Goto(s, "service")
    /\ UNCHANGED <<files, stamp, initialized, store, memory, crashes>>

\* The CA or its key cannot be parsed.
GenLeafFails(s) ==
    /\ phase[s] = "leaf"
    /\ leaf[s] = Absent \/ expired(s)
    /\ Torn \in {files[s]["ServerCA"], files[s]["ServerCAKey"]}
    /\ Fail(s)

\* genServiceAccount looks only whether the file is there.
GenServiceKey(s) ==
    /\ phase[s] = "service"
    /\ IF exists(s, "ServiceKey") THEN UNCHANGED files ELSE Put(s, "ServiceKey", s)
    /\ Goto(s, "ipsec")
    /\ UNCHANGED <<leaf, stamp, initialized, store, memory, crashes>>

\* genEncryptedNetworkInfo also looks whether it is empty.
GenIPSECKey(s) ==
    /\ phase[s] = "ipsec"
    /\ IF files[s]["IPSECKey"] \in {Absent, Torn} THEN Put(s, "IPSECKey", s)
                                                  ELSE UNCHANGED files
    /\ Goto(s, "start")
    /\ UNCHANGED <<leaf, stamp, initialized, store, memory, crashes>>

-----------------------------------------------------------------------------
(* Start *)

\* initClusterAndHTTPS and start: the managed database exists from here on.
StartManaged(s) ==
    /\ phase[s] = "start"
    /\ initialized' = [initialized EXCEPT ![s] = managed]
    /\ Goto(s, "save")
    /\ UNCHANGED <<files, leaf, stamp, store, memory, crashes>>

\* Slip: Put, which replaces the value, in place of Create.
SavePut(s) ==
    /\ phase[s] = "save"
    /\ datastore' = IF saveBootstrap[s] THEN files[s] ELSE datastore
    /\ Goto(s, "stamp")
    /\ UNCHANGED <<files, leaf, stamp, initialized, managed, memory, crashes>>

\* save: Create the key, if it was not there before.
Save(s) ==
    /\ phase[s] = "save"
    /\ IF saveBootstrap[s]
         THEN datastore = NoData /\ datastore' = files[s]
         ELSE UNCHANGED datastore
    /\ Goto(s, "stamp")
    /\ UNCHANGED <<files, leaf, stamp, initialized, managed, memory, crashes>>

\* Create fails when another server was first.
SaveFails(s) ==
    /\ phase[s] = "save"
    /\ saveBootstrap[s]
    /\ datastore # NoData
    /\ Fail(s)

\* The key is created but the answer is lost, and the error ends the process.
SaveUnanswered(s) ==
    /\ phase[s] = "save"
    /\ saveBootstrap[s]
    /\ datastore = NoData
    /\ crashes < MaxCrashes
    /\ datastore' = files[s]
    /\ crashes' = crashes + 1
    /\ MemoryLost(s)
    /\ UNCHANGED <<files, leaf, stamp, initialized, managed>>

\* bootstrapped leaves the stamp.
Bootstrapped(s) ==
    /\ phase[s] = "stamp"
    /\ stamp' = [stamp EXCEPT ![s] = @ \/ shouldBootstrap[s]]
    /\ Goto(s, "serve")
    /\ UNCHANGED <<files, leaf, initialized, store, memory, crashes>>

Readable(s) == leaf[s] # Torn /\ \A path \in Paths : files[s][path] # Torn

\* The API server reads the files and starts, and the handler is installed.
Serve(s) ==
    /\ phase[s] = "serve"
    /\ Readable(s)
    /\ Goto(s, "up")
    /\ UNCHANGED <<files, leaf, stamp, initialized, store, memory, crashes>>

ServeFails(s) ==
    /\ phase[s] = "serve"
    /\ ~Readable(s)
    /\ Fail(s)

-----------------------------------------------------------------------------

\* The path each generating step writes.
WrittenPath == [cakey |-> "ServerCAKey", ca |-> "ServerCA",
                service |-> "ServiceKey", ipsec |-> "IPSECKey"]

Crash(s) ==
    /\ phase[s] # "down"
    /\ crashes < MaxCrashes
    /\ crashes' = crashes + 1
    /\ MemoryLost(s)
    /\ UNCHANGED <<files, leaf, stamp, initialized, store>>

\* The crash comes inside ioutil.WriteFile: the file is there, cut short.
CrashInWrite(s) ==
    /\ Tears
    /\ crashes < MaxCrashes
    /\ crashes' = crashes + 1
    /\ \/ /\ phase[s] = "read"
          /\ \E path \in toRead[s] : Put(s, path, Torn)
          /\ UNCHANGED leaf
       \/ /\ phase[s] \in DOMAIN WrittenPath
          /\ ~exists(s, WrittenPath[phase[s]])
          /\ Put(s, WrittenPath[phase[s]], Torn)
          /\ UNCHANGED leaf
       \/ /\ phase[s] = "leaf"
          /\ leaf[s] = Absent \/ expired(s)
          /\ leaf' = [leaf EXCEPT ![s] = Torn]
          /\ UNCHANGED files
    /\ MemoryLost(s)
    /\ UNCHANGED <<stamp, initialized, store>>

Prepare(s) ==
    \/ SkipBootstrap(s)
    \/ NeedBootstrap(s)
    \/ BootstrapFound(s)
    \/ BootstrapNotFound(s)
    \/ BootstrapFails(s)
    \/ ReadFile(s)
    \/ ReadDone(s)
    \/ GenCAKey(s)
    \/ GenCAKeyFails(s)
    \/ GenCA(s)
    \/ GenLeaf(s)
    \/ GenLeafFails(s)
    \/ GenServiceKey(s)
    \/ GenIPSECKey(s)
    \/ StartManaged(s)
    \/ Save(s)
    \/ SaveFails(s)
    \/ Bootstrapped(s)
    \/ Serve(s)
    \/ ServeFails(s)

Next == \E s \in Servers :
    Prepare(s) \/ SaveUnanswered(s) \/ Crash(s) \/ CrashInWrite(s)

Spec == Init /\ [][Next]_vars

\* systemd starts a server that ended again (Restart=always in k3s.service),
\* and no step of prepare waits for ever.
Fairness == \A s \in Servers : WF_vars(Prepare(s))

FairSpec == Spec /\ Fairness

-----------------------------------------------------------------------------

\* Types, and what the fields of Cluster mean: a server that is to save its
\* files is one that bootstraps (storageBootstrap runs only then), and only
\* bootstrap.Read has paths to write.
TypeOK ==
    /\ phase \in [Servers -> Phases]
    /\ files \in [Servers -> [Paths -> Contents]]
    /\ leaf \in [Servers -> Contents]
    /\ stamp \in [Servers -> BOOLEAN]
    /\ initialized \in [Servers -> BOOLEAN]
    /\ managed \in Modes
    /\ datastore \in [Paths -> Contents]
    /\ incoming \in [Servers -> [Paths -> Contents]]
    /\ toRead \in [Servers -> SUBSET Paths]
    /\ shouldBootstrap \in [Servers -> BOOLEAN]
    /\ saveBootstrap \in [Servers -> BOOLEAN]
    /\ crashes \in 0..MaxCrashes
    /\ \A s \in Servers : saveBootstrap[s] => shouldBootstrap[s]
    /\ \A s \in Servers : toRead[s] # {} => phase[s] = "read"

\* All the servers that serve use the same CA, keys and passphrases, the ones in
\* the external datastore when there is one, whoever was first to generate
\* them, however many servers raced to, and wherever each was interrupted
\* (storageBootstrap, save, httpBootstrap).
Agreement ==
    \A s \in Servers : phase[s] = "up" =>
        /\ ~managed => files[s] = datastore
        /\ \A t \in Servers : phase[t] = "up" => files[s] = files[t]

\* The stamp, which makes every later start skip the read, is only ever found
\* beside files that are all those of the cluster (bootstrapped comes after
\* save and after bootstrap.Read, and nothing regenerates a file after it).
StampSound ==
    \A s \in Servers : stamp[s] =>
        files[s] = IF managed THEN files[JoinURL[s]] ELSE datastore

\* A server that serves has leaf certificates its CA signed, and the CA's key,
\* also when it had signed them with a CA of its own before it lost the race
\* and read another (createClientCertKey's expired).
LeafTrusted ==
    \A s \in Servers : phase[s] = "up" =>
        leaf[s] = files[s]["ServerCA"] /\ files[s]["ServerCA"] = files[s]["ServerCAKey"]

\* Every server comes up and stays up, the losers of the race to create the key
\* and those that were interrupted included, unless a crash cut a file short.
AllUp ==
    [](\A s \in Servers : Readable(s)) => \A s \in Servers : <>[](phase[s] = "up")

=============================================================================
