----------------------------- MODULE ServerFiles -----------------------------
(***************************************************************************)
(* The files a k3s server keeps under its data directory and makes or      *)
(* renews on every start: CAs, leaf certificates with their keys and       *)
(* kubeconfigs, passwords, the IPsec key, the encryption configuration     *)
(* and the token that nodes join with (prepare in                          *)
(* pkg/daemons/control/server.go, StartServer in pkg/server/server.go).    *)
(*                                                                         *)
(* A start runs Program, one step per call of the code.  A step looks at   *)
(* the disk as it is then and works out the files to write; the files are  *)
(* written one by one, and the server may end between two writes or inside *)
(* one, which leaves a file empty or cut short.                            *)
(***************************************************************************)
EXTENDS Integers, Sequences

CONSTANTS Chosen,      \* the CAs, identities and keys that are looked at
          Configs,     \* the configurations the server may be started with
          MaxStarts,   \* bound on the number of starts
          MaxFaults    \* bound on crashes while a start is under way

VARIABLES disk,    \* file name -> content, for the files that are there
          up,      \* "down", "starting" or "serving"
          cfg,     \* the configuration of the last start
          at,      \* the step of Program that is next
          writes,  \* what the current step has still to write
          regen,   \* the CAs made by this start: createSigningCertKey's result
          starts, faults,
          cut,     \* the leaves a crash left with a certificate and no kubeconfig
          handed   \* the join tokens written since the configuration last named one

vars == <<disk, up, cfg, at, writes, regen, starts, faults, cut, handed>>
-----------------------------------------------------------------------------
(* Files and what is in them                                               *)

Crt(n) == <<n, "crt">>
Key(n) == <<n, "key">>
Conf(n) == <<n, "kubeconfig">>
One(n) == <<n>>

\* What a crash inside ioutil.WriteFile leaves: nothing, or the beginning.
Empty == <<>>
Torn == <<0>>
Broken(c) == c \in {Empty, Torn}

\* Random bytes: no two starts draw the same, and a start makes a file once.
Random == <<starts>>

\* A self-signed CA of a key; the time is part of its name.
CACert(key) == <<key, starts>>
\* A leaf: its key, the CA that signed it, its names, whether it is near its end.
Leaf(key, ca, sans) == <<key, ca, sans, FALSE>>
LeafKey(c) == c[1]
LeafCA(c) == c[2]
LeafNames(c) == c[3]
LeafOld(c) == c[4]

exists(files) == files \subseteq DOMAIN disk

\* A write to do: whole is a write through a temporary file and a rename.
Put(file, content) == [file |-> file, content |-> content, whole |-> FALSE]
PutWhole(file, content) == [file |-> file, content |-> content, whole |-> TRUE]
-----------------------------------------------------------------------------
(* Certificates                                                            *)

\* A CA's certificate is of the key beside it.
Matched(ca) == exists({Crt(ca), Key(ca)}) /\ Len(disk[Crt(ca)]) = 2 /\ disk[Crt(ca)][1] = disk[Key(ca)]
\* The CA a signature made now verifies against: none if the key is another's.
Signer(ca) == IF Matched(ca) THEN disk[Crt(ca)] ELSE Torn

\* A renewal is due when the certificate that is there was signed by another
\* CA or is near its end.  One that cannot be parsed is not due.
expired(n, ca) ==
    /\ Crt(n) \in DOMAIN disk
    /\ ~ Broken(disk[Crt(n)])
    /\ \/ LeafCA(disk[Crt(n)]) # disk[Crt(ca)]
       \/ LeafOld(disk[Crt(n)])

sansChanged(n, sans) ==
    /\ Crt(n) \in DOMAIN disk
    /\ ~ Broken(disk[Crt(n)])
    /\ ~ (sans \subseteq LeafNames(disk[Crt(n)]))

\* The key LoadOrGenerateKeyFile returns; it writes the one it generates.
KeyFor(n, force) == IF force \/ ~ exists({Key(n)}) THEN Random ELSE disk[Key(n)]
LoadOrGenerateKeyFile(n, force) ==
    IF force \/ ~ exists({Key(n)}) THEN <<Put(Key(n), Random)>> ELSE <<>>
UnreadableKey(n, force) == ~ force /\ exists({Key(n)}) /\ Broken(disk[Key(n)])

createSigningCertKey(ca) ==
    IF exists({Crt(ca), Key(ca)}) THEN <<>>
    ELSE LoadOrGenerateKeyFile(ca, FALSE) \o <<Put(Crt(ca), CACert(KeyFor(ca, FALSE)))>>

\* A server of an older version kept its CA as token-ca; it is linked, file
\* by file, to the new name.
Upgrades == exists({Crt("token-ca"), Key("token-ca")}) /\ ~ exists({Crt("server-ca")}) /\ ~ exists({Key("server-ca")})
createServerSigningCertKey(ca) ==
    IF Upgrades
    THEN <<PutWhole(Crt(ca), disk[Crt("token-ca")]), PutWhole(Key(ca), disk[Key("token-ca")])>>
    ELSE createSigningCertKey(ca)

addSANs(s) == IF s.names THEN cfg.sans ELSE {}

Renew(s) == s.ca \in regen \/ expired(s.name, s.ca) \/ sansChanged(s.name, addSANs(s))

\* createClientCertKey that writes the certificate before the key.
createClientCertKeySwapped(s) ==
    LET renew == Renew(s)
    IN  IF ~ renew /\ exists({Crt(s.name), Key(s.name)}) THEN <<>>
        ELSE <<Put(Crt(s.name), Leaf(KeyFor(s.name, renew), Signer(s.ca), addSANs(s)))>>
             \o LoadOrGenerateKeyFile(s.name, renew)
             \o (IF s.conf THEN <<Put(Conf(s.name), <<starts>>)>> ELSE <<>>)

\* createClientCertKey that tells its caller only of renewals.
createClientCertKeyQuiet(s) ==
    LET renew == Renew(s)
    IN  IF ~ renew /\ exists({Crt(s.name), Key(s.name)}) THEN <<>>
        ELSE LoadOrGenerateKeyFile(s.name, renew)
             \o <<Put(Crt(s.name), Leaf(KeyFor(s.name, renew), Signer(s.ca), addSANs(s)))>>
             \o (IF s.conf /\ renew THEN <<Put(Conf(s.name), <<starts>>)>> ELSE <<>>)

\* The key, if it is to be made anew, then the certificate, and then, in the
\* caller, the kubeconfig of the identities that have one.
createClientCertKey(s) ==
    LET renew == Renew(s)
    IN  IF ~ renew /\ exists({Crt(s.name), Key(s.name)}) THEN <<>>
        ELSE LoadOrGenerateKeyFile(s.name, renew)
             \o <<Put(Crt(s.name), Leaf(KeyFor(s.name, renew), Signer(s.ca), addSANs(s)))>>
             \o (IF s.conf THEN <<Put(Conf(s.name), <<starts>>)>> ELSE <<>>)

\* The returns with an error: a CA or a key that is there and cannot be parsed.
Unsignable(s) ==
    LET renew == Renew(s)
    IN  /\ renew \/ ~ exists({Crt(s.name), Key(s.name)})
        /\ Broken(disk[Key(s.ca)]) \/ Broken(disk[Crt(s.ca)]) \/ UnreadableKey(s.name, renew)
-----------------------------------------------------------------------------
(* Passwords and tokens: <<>> is none, <<p>> a bare password and           *)
(* <<user, p>> the long form K10<hash>::user:p.  The passwd file has a     *)
(* line for each of the two users.                                         *)

NodeUser == 1
ServerUser == 2

ParseUsernamePassword(t) == IF Len(t) = 2 THEN <<t[2]>> ELSE t

EnsureUser(names, user, t) ==
    LET p == IF Len(t) = 2 /\ t[1] = user THEN <<t[2]>> ELSE t
    IN  IF p # <<>> THEN [names EXCEPT ![user] = p]
        ELSE IF names[user] # <<>> THEN names ELSE [names EXCEPT ![user] = Random]

migratePassword(names) ==
    IF names[ServerUser] = <<>> /\ names[NodeUser] # <<>>
    THEN EnsureUser(names, ServerUser, names[NodeUser]) ELSE names

getServerPassAnew(names) == IF cfg.token # <<>> THEN cfg.token ELSE Random

getServerPass(names) ==
    IF cfg.token # <<>> THEN cfg.token
    ELSE IF names[ServerUser] # <<>> THEN names[ServerUser] ELSE Random

getNodePass(serverPass) ==
    IF cfg.agentToken = <<>> THEN ParseUsernamePassword(serverPass) ELSE cfg.agentToken

Users == IF exists({One("passwd")}) THEN disk[One("passwd")] ELSE <<<<>>, <<>>>>

genUsers ==
    LET old == migratePassword(Users)
        serverPass == getServerPass(old)
        new == EnsureUser(EnsureUser(old, NodeUser, getNodePass(serverPass)), ServerUser, serverPass)
    IN  IF new = Users THEN <<>> ELSE <<PutWhole(One("passwd"), new)>>
-----------------------------------------------------------------------------
(* Keys that are made once                                                 *)

genServiceAccount == IF exists({Key("service")}) THEN <<>> ELSE <<Put(Key("service"), Random)>>

Filled(file) == exists({file}) /\ disk[file] # Empty

genEncryptedNetworkInfo ==
    IF Filled(Key("ipsec")) THEN <<>> ELSE <<Put(Key("ipsec"), Random)>>

genEncryptionConfigAnew == IF ~ cfg.encrypt THEN <<>> ELSE <<Put(One("encryption"), Random)>>

genEncryptionConfig ==
    IF ~ cfg.encrypt \/ Filled(One("encryption")) THEN <<>> ELSE <<Put(One("encryption"), Random)>>
-----------------------------------------------------------------------------
(* What is written once the API server has been started                    *)

\* The token that readTokens found, pinned to the CA the nodes will see.
FormatToken == <<disk[Crt("server-ca")], Users[ServerUser]>>
printTokens == <<Put(One("token"), FormatToken), PutWhole(One("node-token"), <<1>>)>>
writeKubeConfig ==
    <<Put(One("k3s.yaml"), <<disk[Crt("server-ca")], disk[Crt("admin")], disk[Key("admin")]>>)>>

\* Whether an identity has a kubeconfig that can be read.
Configured(name) == Conf(name) \in DOMAIN disk /\ ~ Broken(disk[Conf(name)])

\* The components that run in the server's process, each with a kubeconfig of its
\* own: the server is not told to go without one of them.
Components == {"controller", "scheduler", "cloud-controller"}
-----------------------------------------------------------------------------
(* The program                                                             *)

Step(op, name, ca, names, conf) == [op |-> op, name |-> name, ca |-> ca, names |-> names, conf |-> conf]
CA(name) == Step("ca", name, name, FALSE, FALSE)
Identity(name, ca) == Step("leaf", name, ca, FALSE, FALSE)
WithNames(name, ca) == Step("leaf", name, ca, TRUE, FALSE)
WithConf(name, ca) == Step("leaf", name, ca, FALSE, TRUE)
KeyOf(name, ca) == Step("key", name, ca, FALSE, FALSE)
Call(op) == Step(op, op, op, FALSE, FALSE)

genClientCerts ==
    <<CA("client-ca"), WithConf("admin", "client-ca"), WithConf("controller", "client-ca"),
      WithConf("scheduler", "client-ca"), WithConf("kube-apiserver", "client-ca"),
      Identity("kube-proxy", "client-ca"), Identity("k3s-controller", "client-ca"),
      KeyOf("client-kubelet", "client-ca"), WithConf("cloud-controller", "client-ca")>>
genServerCerts ==
    <<CA("server-ca"), WithNames("serving-kube-apiserver", "server-ca"), KeyOf("serving-kubelet", "server-ca")>>
genRequestHeaderCerts == <<CA("request-header-ca"), Identity("auth-proxy", "request-header-ca")>>
genETCDCerts ==
    <<CA("etcd-server-ca"), WithNames("etcd-server", "etcd-server-ca"), Identity("etcd-client", "etcd-server-ca"),
      CA("etcd-peer-ca"), WithNames("etcd-peer", "etcd-peer-ca")>>
genCerts == genClientCerts \o genServerCerts \o genRequestHeaderCerts \o genETCDCerts

prepare ==
    genCerts \o <<Call("genServiceAccount"), Call("genUsers"), Call("genEncryptedNetworkInfo"), Call("genEncryptionConfig")>>
Program == prepare \o <<Call("apiServer"), Call("printTokens"), Call("writeKubeConfig")>>

\* Every CA is made like the others, and so is every leaf: a run looks at some.
Looked(s) == s.op \in {"ca", "leaf", "key"} => s.name \in Chosen

Leaves == {s \in {Program[i] : i \in 1..Len(Program)} : s.op = "leaf" /\ Looked(s)}
CAs == {Program[i].name : i \in {j \in 1..Len(Program) : Program[j].op = "ca"}}

\* A leaf is looked at with its CA, and with them the two that are read once the
\* API server has been started.
ASSUME ChosenAssumption ==
    /\ {"server-ca", "admin"} \subseteq Chosen
    /\ \A s \in Leaves : s.ca \in Chosen

\* The configured tokens are none, bare or long ones.
ASSUME ConfigsAssumption == \A c \in Configs : {c.token, c.agentToken} \subseteq Seq(Nat)

\* The files the current step writes.
Does(s) ==
    CASE s.op = "ca" -> IF s.name = "server-ca" THEN createServerSigningCertKey(s.name) ELSE createSigningCertKey(s.name)
      [] s.op = "leaf" -> createClientCertKey(s)
      [] s.op = "key" -> LoadOrGenerateKeyFile(s.name, s.ca \in regen)
      [] s.op = "genServiceAccount" -> genServiceAccount
      [] s.op = "genUsers" -> genUsers
      [] s.op = "genEncryptedNetworkInfo" -> genEncryptedNetworkInfo
      [] s.op = "genEncryptionConfig" -> genEncryptionConfig
      [] s.op = "apiServer" -> <<>>
      [] s.op = "printTokens" -> printTokens
      [] s.op = "writeKubeConfig" -> writeKubeConfig

\* Whether it returns an error instead (waitForAPIServerInBackground needs the
\* kubeconfig of the administrator).
Errs(s) ==
    CASE s.op = "ca" -> ~ exists({Crt(s.name), Key(s.name)}) /\ UnreadableKey(s.name, FALSE)
      [] s.op = "leaf" -> Unsignable(s)
      [] s.op = "key" -> UnreadableKey(s.name, s.ca \in regen)
      [] s.op = "apiServer" -> ~ Configured("admin")
      [] OTHER -> FALSE
-----------------------------------------------------------------------------
Init ==
    /\ \E files \in {{}, {Crt("token-ca"), Key("token-ca"), One("passwd")}} :
         disk = [f \in files |-> CASE f = Crt("token-ca") -> <<<<1>>, 1>>
                                   [] f = Key("token-ca") -> <<1>>
                                   [] f = One("passwd") -> <<<<1>>, <<>>>>]
    /\ up = "down"
    /\ cfg \in Configs
    /\ at = 1
    /\ writes = <<>>
    /\ regen = {}
    /\ starts = 1
    /\ faults = 0
    /\ cut = {}
    /\ handed = {}

\* systemd starts the server, perhaps with another configuration.  Names are
\* added to the certificates, never taken away.
Start(c) ==
    /\ up = "down"
    /\ starts < MaxStarts
    /\ cfg.sans \subseteq c.sans
    /\ up' = "starting"
    /\ cfg' = c
    /\ at' = 1
    /\ writes' = <<>>
    /\ regen' = {}
    /\ starts' = starts + 1
    /\ handed' = IF c.token = <<>> THEN handed ELSE {}
    /\ UNCHANGED <<disk, faults, cut>>

\* The next call of the program is the i-th.
Calls(i) ==
    /\ up = "starting"
    /\ writes = <<>>
    /\ Looked(Program[i])
    /\ \A j \in at..(i - 1) : ~ Looked(Program[j])

\* It works out what it has to write.
Enter ==
    \E i \in at..Len(Program) :
        /\ Calls(i)
        /\ ~ Errs(Program[i])
        /\ writes' = Does(Program[i])
        /\ regen' = IF Program[i].op = "ca" /\ Does(Program[i]) # <<>> THEN regen \union {Program[i].ca} ELSE regen
        /\ at' = i + 1
        /\ UNCHANGED <<disk, up, cfg, starts, faults, cut, handed>>

\* It fails, and the server with it.
Fail ==
    /\ \E i \in at..Len(Program) : Calls(i) /\ Errs(Program[i])
    /\ up' = "down"
    /\ UNCHANGED <<disk, cfg, at, writes, regen, starts, faults, cut, handed>>

\* The disk once the file has that content.
Written(file, content) == [f \in DOMAIN disk \union {file} |-> IF f = file THEN content ELSE disk[f]]

Write ==
    /\ up = "starting"
    /\ writes # <<>>
    /\ LET w == Head(writes) IN
         /\ disk' = Written(w.file, w.content)
         /\ cut' = IF w.file = Conf(w.file[1]) THEN cut \ {w.file[1]} ELSE cut
         /\ handed' = IF w.file = One("token") THEN handed \union {w.content} ELSE handed
    /\ writes' = Tail(writes)
    /\ UNCHANGED <<up, cfg, at, regen, starts, faults>>

Serve ==
    /\ up = "starting"
    /\ writes = <<>>
    /\ at > Len(Program)
    /\ up' = "serving"
    /\ UNCHANGED <<disk, cfg, at, writes, regen, starts, faults, cut, handed>>

\* The server is stopped or restarted.
Stop ==
    /\ up = "serving"
    /\ starts < MaxStarts
    /\ up' = "down"
    /\ UNCHANGED <<disk, cfg, at, writes, regen, starts, faults, cut, handed>>

Aged(c) == IF Len(c) = 4 THEN <<c[1], c[2], c[3], TRUE>> ELSE c

\* A year passes: the leaves that are there come near their end.
Age ==
    /\ up # "starting"
    /\ starts < MaxStarts
    /\ disk' = [f \in DOMAIN disk |-> Aged(disk[f])]
    /\ disk' # disk
    /\ UNCHANGED <<up, cfg, at, writes, regen, starts, faults, cut, handed>>

\* The server ends before the next write, or inside it.
Ends ==
    /\ up' = "down"
    /\ IF writes = <<>> THEN UNCHANGED <<disk, cut>>
       ELSE LET w == Head(writes) IN
              /\ \/ UNCHANGED disk
                 \/ ~ w.whole /\ \E c \in {Empty, Torn} : disk' = Written(w.file, c)
              /\ cut' = IF w.file = Conf(w.file[1]) \/ (WithConf(w.file[1], "client-ca") \in Leaves
                                                         /\ w.file = Crt(w.file[1]) /\ disk' # disk)
                        THEN cut \union {w.file[1]} ELSE cut
    /\ UNCHANGED <<cfg, at, writes, regen, starts, handed>>

Crash ==
    /\ up = "starting"
    /\ starts < MaxStarts
    /\ faults < MaxFaults
    /\ faults' = faults + 1
    /\ Ends

\* Once the API server is ready, a component that cannot read its kubeconfig
\* returns, and logrus.Fatalf ends the process whatever else it is doing.
Exit ==
    /\ up = "serving" \/ (up = "starting" /\ at > Len(prepare) + 1)
    /\ \E name \in Components \intersect Chosen : ~ Configured(name)
    /\ Ends
    /\ UNCHANGED faults

Next == (\E c \in Configs : Start(c)) \/ Enter \/ Fail \/ Write \/ Serve \/ Stop \/ Age \/ Crash \/ Exit

Spec == Init /\ [][Next]_vars

\* A server that runs goes on, and one that ended is started again
\* (Restart=always in k3s.service).
FairSpec == Spec /\ WF_vars(Enter \/ Fail \/ Write \/ Serve \/ Exit) /\ WF_vars(\E c \in Configs : Start(c))
-----------------------------------------------------------------------------
(* Properties                                                              *)

\* prepare has returned.
Prepared == up = "starting" /\ writes = <<>> /\ at = Len(prepare) + 1

\* The disk holds files of the program only, and the bounds are kept.
TypeOK ==
    /\ up \in {"down", "starting", "serving"}
    /\ cfg \in Configs
    /\ at \in 1..(Len(Program) + 1)
    /\ regen \subseteq CAs
    /\ starts \in 1..MaxStarts
    /\ faults \in 0..MaxFaults
    /\ cut \subseteq {s.name : s \in {l \in Leaves : l.conf}}
    /\ \A f \in DOMAIN disk : Len(f) \in {1, 2}
    /\ up = "serving" => One("passwd") \in DOMAIN disk

\* Whatever interrupted earlier starts, and whatever names and years have come
\* in between, when prepare returns a leaf certificate that can be parsed goes
\* with the key beside it, is signed by the CA beside it, has every name
\* asked for and is not near its end (createClientCertKey writes the key first).
\* The one exception is a server CA whose upgrade from token-ca was interrupted
\* between its links and then again: it may be left with the key of another.
LeavesUsable ==
    Prepared => \A s \in Leaves :
        LET c == disk[Crt(s.name)] IN
          \/ Broken(c)
          \/ s.ca = "server-ca" /\ exists({Crt("token-ca")}) /\ ~ Matched(s.ca)
          \/ /\ LeafKey(c) = disk[Key(s.name)]
             /\ LeafCA(c) = disk[Crt(s.ca)]
             /\ addSANs(s) \subseteq LeafNames(c)
             /\ ~ LeafOld(c)

\* A CA that is there with its own key, the service account key, the IPsec key and
\* the encryption key are never replaced: what they signed or encrypted stays
\* good (createSigningCertKey, genServiceAccount, genEncryptionConfig).
Kept ==
    [][ /\ \A ca \in CAs : Matched(ca)
                             => disk'[Crt(ca)] = disk[Crt(ca)] /\ disk'[Key(ca)] = disk[Key(ca)]
        /\ \A f \in {Key("service"), Key("ipsec"), One("encryption")} :
             Filled(f) => disk'[f] = disk[f] ]_vars

\* A node can still join with any token the server ever wrote, as long as the
\* configuration has not named another: the CA it pins is the one on disk, and
\* the password is the server's (printTokens, getServerPass).
HandedTokensWork ==
    up = "serving" => \A t \in handed : t = FormatToken

\* In the end the server serves and goes on serving, whatever interrupted earlier
\* starts, unless a crash left a file broken, or the administrator or a component
\* with a certificate and no kubeconfig, and no start has made it good since:
\* then every start ends in Fail or in Exit (genClientCerts writes a kubeconfig
\* only along with a new certificate).
ComesUp ==
    \/ <>[](up = "serving")
    \/ <>[](\E f \in DOMAIN disk : Broken(disk[f]))
    \/ <>[](cut \intersect ({"admin"} \union Components) # {})
=============================================================================
