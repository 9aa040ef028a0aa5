-------------------------- MODULE ServerFilesProofs --------------------------
(***************************************************************************)
(* Proofs about the files a server makes or renews on every start          *)
(* (ServerFiles): that what is made once is kept, that the tokens handed   *)
(* out go on working, and that prepare returns with leaves that can be     *)
(* used, whatever crashes came before.                                     *)
(***************************************************************************)
EXTENDS ServerFiles, SequenceTheorems, TLAPS

On(f) == f \in DOMAIN disk

\* The CA of an older version.
OldCrt == <<<<1>>, 1>>
OldCA == exists({Crt("token-ca"), Key("token-ca")})

Types ==
    /\ starts \in Nat \ {0}
    /\ up = "starting" => starts > 1
    /\ at \in Nat \ {0}
    /\ cfg \in Configs

OldCAInv == On(Crt("token-ca")) => OldCA /\ disk[Crt("token-ca")] = OldCrt

\* Only the leaves age.
LeafCrts == {Crt(s.name) : s \in Leaves}
Ageless == \A f \in DOMAIN disk : f \notin LeafCrts => Len(disk[f]) # 4

\* The certificate of a CA is of the key beside it, or was cut short; that of the
\* server CA may also have been linked by an upgrade that was interrupted.
CAInv(ca) ==
    On(Crt(ca)) =>
        \/ On(Key(ca)) /\ (Broken(disk[Crt(ca)]) \/ Matched(ca))
        \/ ca = "server-ca" /\ OldCA /\ (On(Key(ca)) \/ disk[Crt(ca)] = OldCrt)

\* The next start renews the leaf.
Stale(s) ==
    \/ LeafCA(disk[Crt(s.name)]) # disk[Crt(s.ca)]
    \/ LeafOld(disk[Crt(s.name)])
    \/ ~ (addSANs(s) \subseteq LeafNames(disk[Crt(s.name)]))

\* A leaf was made with a key and a CA, and is of its key while nobody renews it.
LeafInv(s) ==
    On(Crt(s.name)) =>
        /\ On(Key(s.name))
        /\ exists({Crt(s.ca), Key(s.ca)})
        /\ \/ Broken(disk[Crt(s.name)])
           \/ LeafKey(disk[Crt(s.name)]) = disk[Key(s.name)]
           \/ Stale(s)

Passwords == {p \in [1..2 -> Seq(Nat)] : ~ (Len(p[ServerUser]) = 2 /\ p[ServerUser][1] = ServerUser)}
UsersInv == Users \in Passwords

\* What is asked of a leaf when prepare returns.
Good(s) ==
    /\ exists({Crt(s.name), Key(s.name), Crt(s.ca), Key(s.ca)})
    /\ \/ Broken(disk[Crt(s.name)])
       \/ s.ca = "server-ca" /\ exists({Crt("token-ca")}) /\ ~ Matched(s.ca)
       \/ LeafKey(disk[Crt(s.name)]) = disk[Key(s.name)] /\ ~ Stale(s)

\* The i-th call of this start has returned.
Returned(i) == i < at - 1 \/ (i = at - 1 /\ writes = <<>>)

Done(s) ==
    /\ s.op = "ca" => exists({Crt(s.name), Key(s.name)})
    /\ s.op = "leaf" => Good(s)
    /\ s.op = "genUsers" => Users[ServerUser] # <<>>

PastInv == \A i \in 1..Len(Program) : Looked(Program[i]) /\ Returned(i) => Done(Program[i])

\* A CA that was made by this start has signed nothing before.
RegenInv ==
    \A i \in 1..Len(Program) :
        Program[i] \in Leaves /\ i >= at /\ Program[i].ca \in regen => ~ On(Crt(Program[i].name))

UsersCall == Len(genCerts) + 2

\* The tokens handed out are of the CA and of the password that are there.
HandedInv ==
    handed # {} =>
        /\ exists({Crt("server-ca"), Key("server-ca")})
        /\ Users[ServerUser] # <<>>
        /\ \A t \in handed : t = FormatToken
        /\ up = "starting" /\ cfg.token # <<>> => Returned(UsersCall)

Unsigned(ca) == \A s \in Leaves : s.ca = ca => ~ On(Crt(s.name))

\* What a call has still to write, w, and what holds of the disk until then.
MakingCA(ca, w) ==
    /\ Unsigned(ca)
    /\ ca = "server-ca" => handed = {}
    /\ \/ w = <<Put(Key(ca), Random), Put(Crt(ca), CACert(Random))>> /\ ~ On(Key(ca))
       \/ On(Key(ca)) /\ w = <<Put(Crt(ca), CACert(disk[Key(ca)]))>> /\ ~ Matched(ca)
       \/ /\ ca = "server-ca" /\ OldCA /\ ~ On(Key(ca)) /\ ~ On(Crt(ca))
          /\ w = <<PutWhole(Crt(ca), OldCrt), PutWhole(Key(ca), disk[Key("token-ca")])>>
       \/ /\ ca = "server-ca" /\ OldCA /\ ~ On(Key(ca)) /\ On(Crt(ca))
          /\ w = <<PutWhole(Key(ca), disk[Key("token-ca")])>>

Kubeconfig(s) == IF s.conf THEN <<Put(Conf(s.name), <<starts>>)>> ELSE <<>>

MakingLeaf(s, w) ==
    /\ exists({Crt(s.ca), Key(s.ca)})
    /\ ~ Broken(disk[Crt(s.ca)])
    /\ \/ /\ w = <<Put(Key(s.name), Random), Put(Crt(s.name), Leaf(Random, Signer(s.ca), addSANs(s)))>> \o Kubeconfig(s)
          /\ On(Crt(s.name)) => Stale(s)
       \/ /\ On(Key(s.name))
          /\ w = <<Put(Crt(s.name), Leaf(disk[Key(s.name)], Signer(s.ca), addSANs(s)))>> \o Kubeconfig(s)
       \/ w = Kubeconfig(s) /\ Good(s)

MakingUsers(w) ==
    /\ w = <<PutWhole(One("passwd"), Head(w).content)>>
    /\ Head(w).content \in Passwords
    /\ Head(w).content[ServerUser] # <<>>
    /\ handed # {} => Head(w).content[ServerUser] = Users[ServerUser]

MakingOnce(f, w) == w = <<Put(f, Random)>> /\ ~ Filled(f)

Making(s, w) ==
    /\ s.op = "ca" => MakingCA(s.name, w)
    /\ s.op = "leaf" => MakingLeaf(s, w)
    /\ s.op = "key" => w = <<Put(Key(s.name), Random)>>
    /\ s.op = "genServiceAccount" => MakingOnce(Key("service"), w)
    /\ s.op = "genUsers" => MakingUsers(w)
    /\ s.op = "genEncryptedNetworkInfo" => MakingOnce(Key("ipsec"), w)
    /\ s.op = "genEncryptionConfig" => MakingOnce(One("encryption"), w)
    /\ s.op # "apiServer"
    /\ s.op = "printTokens" => w \in {printTokens, <<PutWhole(One("node-token"), <<1>>)>>}
    /\ s.op = "writeKubeConfig" => w = <<Put(One("k3s.yaml"), Head(w).content)>> /\ Len(Head(w).content) = 3

MakingInv ==
    writes # <<>> =>
        /\ at - 1 \in 1..Len(Program)
        /\ Looked(Program[at - 1])
        /\ Making(Program[at - 1], writes)

DiskInv ==
    /\ Ageless
    /\ OldCAInv
    /\ \A ca \in CAs : CAInv(ca)
    /\ \A s \in Leaves : LeafInv(s)
    /\ UsersInv

IInv ==
    /\ Types
    /\ DiskInv
    /\ HandedInv
    /\ up = "starting" => PastInv /\ RegenInv /\ MakingInv

\* A server that serves has written all it had to.
Idle == up = "serving" => writes = <<>>
-----------------------------------------------------------------------------
(* Tuples, the names of files and what is in them                          *)

\* What is left of a list of writes after the first.
LEMMA Lists ==
  /\ \A a : <<a>> # <<>> /\ Head(<<a>>) = a /\ Tail(<<a>>) = <<>>
  /\ \A a, b : <<a, b>> # <<>> /\ Head(<<a, b>>) = a /\ Tail(<<a, b>>) = <<b>>
  /\ \A a, b, c : <<a, b, c>> # <<>> /\ Head(<<a, b, c>>) = a /\ Tail(<<a, b, c>>) = <<b, c>>
  OBVIOUS

\* The lists a call puts together.
LEMMA Concatenated ==
  \A a, b, c : /\ <<>> \o <<a>> = <<a>> /\ <<a>> \o <<>> = <<a>> /\ <<a, b>> \o <<>> = <<a, b>>
              /\ <<a>> \o <<b>> = <<a, b>> /\ <<a, b>> \o <<c>> = <<a, b, c>>
<1> TAKE a, b, c
<1> DEFINE S == {a, b, c}
<1>1. <<a>> \in Seq(S) /\ <<b>> \in Seq(S) /\ <<c>> \in Seq(S) /\ <<a, b>> \in Seq(S) /\ <<a, b, c>> \in Seq(S)
  OBVIOUS
<1>2. <<a>> \o <<b>> = <<a, b>>
  <2>1. <<a>> \o <<b>> \in Seq(S)
    BY <1>1
  <2>2. Len(<<a>> \o <<b>>) = 2 /\ (<<a>> \o <<b>>)[1] = a /\ (<<a>> \o <<b>>)[2] = b
    BY <1>1
  <2>3. Len(<<a, b>>) = 2 /\ \A i \in 1..2 : (<<a>> \o <<b>>)[i] = <<a, b>>[i]
    BY <2>2
  <2> QED
    BY <1>1, <2>1, <2>2, <2>3, SeqEqual, Zenon
<1>3. <<a, b>> \o <<c>> = <<a, b, c>>
  <2>1. <<a, b>> \o <<c>> \in Seq(S)
    BY <1>1
  <2>2. /\ Len(<<a, b>> \o <<c>>) = 3 /\ (<<a, b>> \o <<c>>)[1] = a /\ (<<a, b>> \o <<c>>)[2] = b
        /\ (<<a, b>> \o <<c>>)[3] = c
    BY <1>1
  <2>3. Len(<<a, b, c>>) = 3 /\ \A i \in 1..3 : (<<a, b>> \o <<c>>)[i] = <<a, b, c>>[i]
    BY <2>2
  <2> QED
    BY <1>1, <2>1, <2>2, <2>3, SeqEqual, Zenon
<1> QED
  BY <1>1, <1>2, <1>3, ConcatEmptySeq

\* No two names of files are the same.
LEMMA FileNames ==
  ASSUME NEW m, NEW n
  PROVE  /\ Crt(m) # Key(n) /\ Crt(m) # Conf(n) /\ Key(m) # Conf(n)
         /\ Crt(m) # One(n) /\ Key(m) # One(n) /\ Conf(m) # One(n)
         /\ m # n => Crt(m) # Crt(n) /\ Key(m) # Key(n) /\ Conf(m) # Conf(n) /\ One(m) # One(n)
  BY DEF Crt, Key, Conf, One

\* What a write puts there.
LEMMA Writes ==
  \A f, c : /\ Put(f, c).file = f /\ Put(f, c).content = c
           /\ PutWhole(f, c).file = f /\ PutWhole(f, c).content = c
  BY DEF Put, PutWhole

\* A leaf is what it was made of.
LEMMA LeafParts ==
  \A k, ca, sans : /\ LeafKey(Leaf(k, ca, sans)) = k /\ LeafCA(Leaf(k, ca, sans)) = ca
                  /\ LeafNames(Leaf(k, ca, sans)) = sans
  BY DEF Leaf, LeafKey, LeafCA, LeafNames

\* It is new.
LEMMA LeafFresh ==
  \A k, ca, sans : ~ LeafOld(Leaf(k, ca, sans))
  BY DEF Leaf, LeafOld

\* A leaf that ages keeps everything but its age.
LEMMA AgedParts ==
  ASSUME NEW c
  PROVE  /\ LeafKey(Aged(c)) = LeafKey(c) /\ LeafCA(Aged(c)) = LeafCA(c) /\ LeafNames(Aged(c)) = LeafNames(c)
         /\ Broken(c) => Aged(c) = c
<1>1. CASE Len(c) = 4
  <2>1. Aged(c) = <<c[1], c[2], c[3], TRUE>>
    BY <1>1 DEF Aged
  <2>2. ~ Broken(c)
    BY <1>1 DEF Broken, Empty, Torn
  <2>3. Aged(c)[1] = c[1] /\ Aged(c)[2] = c[2] /\ Aged(c)[3] = c[3]
    BY <2>1
  <2> QED
    BY <2>2, <2>3, Zenon DEF LeafKey, LeafCA, LeafNames
<1>2. CASE Len(c) # 4
  <2>1. Aged(c) = c
    BY <1>2, Zenon DEF Aged
  <2> QED
    BY <2>1, Zenon
<1> QED
  BY <1>1, <1>2, Zenon

\* One that is near its end stays there.
LEMMA AgedOld ==
  \A c : LeafOld(c) => LeafOld(Aged(c))
<1> TAKE c
<1>1. CASE Len(c) = 4
  BY <1>1 DEF Aged, LeafOld
<1>2. CASE Len(c) # 4
  <2>1. Aged(c) = c
    BY <1>2, Zenon DEF Aged
  <2> QED
    BY <2>1, Zenon
<1> QED
  BY <1>1, <1>2, Zenon

\* How long the contents are.
LEMMA Lengths ==
  /\ Len(Empty) # 4 /\ Len(Torn) # 4 /\ Len(OldCrt) = 2 /\ OldCrt[1] = <<1>>
  /\ \A a : Len(<<a>>) # 4
  /\ \A a, b : Len(<<a, b>>) = 2 /\ <<a, b>>[1] = a
  /\ \A a, b, c : Len(<<a, b, c>>) = 3
  BY DEF Empty, Torn, OldCrt
-----------------------------------------------------------------------------
(* The program                                                             *)

\* The calls in their order.
LEMMA ProgramIs ==
  /\ Len(genCerts) = 19 /\ Len(prepare) = 23 /\ Len(Program) = 26
  /\ Program[1] = CA("client-ca")
  /\ Program[2] = WithConf("admin", "client-ca")
  /\ Program[3] = WithConf("controller", "client-ca")
  /\ Program[4] = WithConf("scheduler", "client-ca")
  /\ Program[5] = WithConf("kube-apiserver", "client-ca")
  /\ Program[6] = Identity("kube-proxy", "client-ca")
  /\ Program[7] = Identity("k3s-controller", "client-ca")
  /\ Program[8] = KeyOf("client-kubelet", "client-ca")
  /\ Program[9] = WithConf("cloud-controller", "client-ca")
  /\ Program[10] = CA("server-ca")
  /\ Program[11] = WithNames("serving-kube-apiserver", "server-ca")
  /\ Program[12] = KeyOf("serving-kubelet", "server-ca")
  /\ Program[13] = CA("request-header-ca")
  /\ Program[14] = Identity("auth-proxy", "request-header-ca")
  /\ Program[15] = CA("etcd-server-ca")
  /\ Program[16] = WithNames("etcd-server", "etcd-server-ca")
  /\ Program[17] = Identity("etcd-client", "etcd-server-ca")
  /\ Program[18] = CA("etcd-peer-ca")
  /\ Program[19] = WithNames("etcd-peer", "etcd-peer-ca")
  /\ Program[20] = Call("genServiceAccount")
  /\ Program[21] = Call("genUsers")
  /\ Program[22] = Call("genEncryptedNetworkInfo")
  /\ Program[23] = Call("genEncryptionConfig")
  /\ Program[24] = Call("apiServer")
  /\ Program[25] = Call("printTokens")
  /\ Program[26] = Call("writeKubeConfig")
  BY DEF Program, prepare, genCerts, genClientCerts, genServerCerts, genRequestHeaderCerts, genETCDCerts

Ops == {"ca", "leaf", "key", "genServiceAccount", "genUsers", "genEncryptedNetworkInfo", "genEncryptionConfig",
        "apiServer", "printTokens", "writeKubeConfig"}

\* No two calls have the same name, and none the name of another file.
LEMMA CallNames ==
  /\ \A i \in 1..Len(Program) :
       /\ Program[i].op \in Ops
       /\ Program[i].op = "ca" => Program[i].ca = Program[i].name
       /\ Program[i].op \in {"ca", "leaf", "key"} => Program[i].name \notin {"service", "ipsec", "token-ca"}
  /\ \A i, j \in 1..Len(Program) : Program[i].name = Program[j].name => i = j
<1>1. \A i \in 1..Len(Program) :
       /\ Program[i].op \in Ops
       /\ Program[i].op = "ca" => Program[i].ca = Program[i].name
       /\ Program[i].op \in {"ca", "leaf", "key"} => Program[i].name \notin {"service", "ipsec", "token-ca"}
  BY ProgramIs DEF CA, WithConf, WithNames, Identity, KeyOf, Call, Step, Ops
<1>2. \A i, j \in 1..Len(Program) : Program[i].name = Program[j].name => i = j
  BY ProgramIs DEF CA, WithConf, WithNames, Identity, KeyOf, Call, Step
<1> QED
  BY <1>1, <1>2, Zenon

\* A CA is made before the leaves it signs, and these before prepare returns.
LEMMA CAFirst ==
  ASSUME NEW i \in 1..Len(Program), Program[i].op = "leaf"
  PROVE  /\ i <= Len(prepare)
         /\ \E k \in 1..(i - 1) : /\ k \in 1..Len(Program)
                                  /\ Program[k].op = "ca" /\ Program[k].name = Program[i].ca
<1>1. /\ i <= 23
      /\ \/ i > 1 /\ Program[i].ca = "client-ca"
         \/ i > 10 /\ Program[i].ca = "server-ca"
         \/ i > 13 /\ Program[i].ca = "request-header-ca"
         \/ i > 15 /\ Program[i].ca = "etcd-server-ca"
         \/ i > 18 /\ Program[i].ca = "etcd-peer-ca"
  BY ProgramIs DEF CA, WithConf, WithNames, Identity, KeyOf, Call, Step
<1>2. /\ Program[1].op = "ca" /\ Program[1].name = "client-ca"
      /\ Program[10].op = "ca" /\ Program[10].name = "server-ca"
      /\ Program[13].op = "ca" /\ Program[13].name = "request-header-ca"
      /\ Program[15].op = "ca" /\ Program[15].name = "etcd-server-ca"
      /\ Program[18].op = "ca" /\ Program[18].name = "etcd-peer-ca"
  BY ProgramIs DEF CA, Step
<1>3. Len(prepare) = 23 /\ Len(Program) = 26
  BY ProgramIs
<1> QED
  BY <1>1, <1>2, <1>3

\* The server CA and the passwords are there before the token is printed.
LEMMA TokensLast ==
  /\ UsersCall \in 1..Len(Program) /\ Program[UsersCall].op = "genUsers"
  /\ \A i \in 1..Len(Program) :
       /\ Program[i].op = "genUsers" => i = UsersCall
       /\ Program[i].op = "printTokens" => i > UsersCall
  /\ \E k \in 1..Len(Program) : k < UsersCall /\ Program[k].op = "ca" /\ Program[k].name = "server-ca"
<1>1. UsersCall = 21 /\ Len(Program) = 26
  BY ProgramIs DEF UsersCall
<1>2. Program[21].op = "genUsers" /\ Program[10].op = "ca" /\ Program[10].name = "server-ca"
  BY ProgramIs DEF CA, Call, Step
<1>3. \A i \in 1..26 : /\ Program[i].op = "genUsers" => i = 21
                       /\ Program[i].op = "printTokens" => i > 21
  BY ProgramIs DEF CA, WithConf, WithNames, Identity, KeyOf, Call, Step
<1> QED
  BY <1>1, <1>2, <1>3

\* A leaf or a CA that is looked at is a call of the program.
LEMMA LeafCalls ==
  /\ \A s \in Leaves : /\ s.op = "leaf" /\ Looked(s) /\ s.ca \in CAs
                       /\ \E i \in 1..Len(Program) : Program[i] = s
  /\ \A ca \in CAs : \E i \in 1..Len(Program) : Program[i].op = "ca" /\ Program[i].name = ca
<1>1. \A ca \in CAs : \E i \in 1..Len(Program) : Program[i].op = "ca" /\ Program[i].name = ca
  BY Zenon DEF CAs
<1>2. ASSUME NEW s \in Leaves
      PROVE  s.op = "leaf" /\ Looked(s) /\ \E i \in 1..Len(Program) : Program[i] = s
  BY <1>2, Zenon DEF Leaves
<1>3. ASSUME NEW s \in Leaves
      PROVE  s.ca \in CAs
  <2>1. PICK i \in 1..Len(Program) : Program[i] = s /\ Program[i].op = "leaf"
    BY <1>2, Zenon
  <2> QED
    BY <2>1, CAFirst, Zenon DEF CAs
<1> QED
  BY <1>1, <1>2, <1>3, Zenon

\* The files of a CA, of a leaf and of the others are different ones.
LEMMA Apart ==
  /\ \A s \in Leaves : s.name \notin CAs /\ s.name \notin {"service", "ipsec", "token-ca"}
  /\ \A ca \in CAs : ca \notin {"service", "ipsec", "token-ca"}
  /\ \A s, l \in Leaves : s.name = l.name => s = l
<1>1. ASSUME NEW s \in Leaves
      PROVE  s.name \notin CAs /\ s.name \notin {"service", "ipsec", "token-ca"}
  <2>0. s.op = "leaf" /\ \E i \in 1..Len(Program) : Program[i] = s
    BY LeafCalls, Zenon
  <2>1. PICK i \in 1..Len(Program) : Program[i] = s /\ Program[i].op = "leaf"
    BY <2>0, Zenon
  <2>2. ASSUME s.name \in CAs
        PROVE  FALSE
    <3>1. PICK k \in 1..Len(Program) : Program[k].op = "ca" /\ Program[k].name = s.name
      BY <2>2, LeafCalls, Zenon
    <3>2. k = i
      BY <2>1, <3>1, CallNames, Zenon
    <3> QED
      BY <2>1, <3>1, <3>2
  <2>3. Program[i].op \in {"ca", "leaf", "key"}
    BY <2>1
  <2> QED
    BY <2>1, <2>2, <2>3, CallNames, Zenon
<1>2. ASSUME NEW ca \in CAs
      PROVE  ca \notin {"service", "ipsec", "token-ca"}
  <2>1. PICK i \in 1..Len(Program) : Program[i].op = "ca" /\ Program[i].name = ca
    BY LeafCalls, Zenon
  <2>2. Program[i].op \in {"ca", "leaf", "key"}
    BY <2>1
  <2> QED
    BY <2>1, <2>2, CallNames, Zenon
<1>3. ASSUME NEW s \in Leaves, NEW l \in Leaves, s.name = l.name
      PROVE  s = l
  <2>1. PICK i \in 1..Len(Program) : Program[i] = s
    BY LeafCalls, Zenon
  <2>2. PICK j \in 1..Len(Program) : Program[j] = l
    BY LeafCalls, Zenon
  <2>3. i = j
    BY <1>3, <2>1, <2>2, CallNames, Zenon
  <2> QED
    BY <2>1, <2>2, <2>3, Zenon
<1> QED
  BY <1>1, <1>2, <1>3, Zenon
-----------------------------------------------------------------------------
(* What depends on which files                                             *)

\* The step leaves the file as it is.
Same(f) ==
    /\ f \in DOMAIN disk' <=> f \in DOMAIN disk
    /\ f \in DOMAIN disk => disk'[f] = disk[f]

\* A write changes the file, and no other.
LEMMA OneFile ==
  ASSUME NEW f, NEW c, disk' = Written(f, c)
  PROVE  /\ On(f)' /\ disk'[f] = c
         /\ \A g : g # f => Same(g)
         /\ \A g \in DOMAIN disk : On(g)'
         /\ \A g \in DOMAIN disk' : g = f \/ On(g)
  BY DEF Written, On, Same

\* Whether a CA's certificate goes with its key, and who signs with it, depend on
\* these two files only (createSigningCertKey's test).
LEMMA MatchedSame ==
  ASSUME NEW ca, Same(Crt(ca)), Same(Key(ca))
  PROVE  (Matched(ca)' <=> Matched(ca)) /\ Signer(ca)' = Signer(ca)
<1>1. Matched(ca)' <=> Matched(ca)
  BY DEF Same, Matched, exists
<1>2. Matched(ca) => disk'[Crt(ca)] = disk[Crt(ca)]
  BY DEF Same, Matched, exists
<1> QED
  BY <1>1, <1>2, Zenon DEF Signer

OldSame == Same(Crt("token-ca")) /\ Same(Key("token-ca"))

\* What is said of a CA of an older release depends on its two files only.
LEMMA OldCASame ==
  ASSUME OldSame
  PROVE  (OldCA' <=> OldCA) /\ (OldCAInv => OldCAInv')
  BY DEF OldSame, Same, OldCA, OldCAInv, exists, On

\* The certificate and the key of a CA are all that is said of it.
LEMMA CAInvSame ==
  ASSUME NEW ca, CAInv(ca), Same(Crt(ca)), Same(Key(ca)), OldSame
  PROVE  CAInv(ca)'
  BY MatchedSame, OldCASame, Zenon DEF CAInv, Same, On

LeafSame(s) == Same(Crt(s.name)) /\ Same(Key(s.name)) /\ Same(Crt(s.ca)) /\ Same(Key(s.ca))

\* createClientCertKey's tests read the leaf's certificate and its CA's.
LEMMA StaleSame ==
  ASSUME NEW s, On(Crt(s.name)), exists({Crt(s.ca), Key(s.ca)}), LeafSame(s), cfg' = cfg
  PROVE  Stale(s)' <=> Stale(s)
<1>1. disk'[Crt(s.name)] = disk[Crt(s.name)] /\ disk'[Crt(s.ca)] = disk[Crt(s.ca)]
  BY DEF LeafSame, Same, On, exists
<1>2. addSANs(s)' = addSANs(s)
  BY DEF addSANs
<1> QED
  BY <1>1, <1>2, Zenon DEF Stale

\* What is said of a leaf depends on its two files, its CA's and the configuration.
LEMMA LeafInvSame ==
  ASSUME NEW s, LeafInv(s), LeafSame(s), cfg' = cfg
  PROVE  LeafInv(s)'
<1>1. CASE On(Crt(s.name))
  <2>1. On(Key(s.name)) /\ exists({Crt(s.ca), Key(s.ca)})
    BY <1>1, Zenon DEF LeafInv
  <2>2. On(Key(s.name))' /\ exists({Crt(s.ca), Key(s.ca)})'
    BY <2>1 DEF LeafSame, Same, On, exists
  <2>3. disk'[Crt(s.name)] = disk[Crt(s.name)] /\ disk'[Key(s.name)] = disk[Key(s.name)]
    BY <1>1, <2>1 DEF LeafSame, Same, On
  <2> QED
    BY <1>1, <2>1, <2>2, <2>3, StaleSame, Zenon DEF LeafInv
<1>2. CASE ~ On(Crt(s.name))
  BY <1>2, Zenon DEF LeafInv, LeafSame, Same, On
<1> QED
  BY <1>1, <1>2, Zenon

\* A leaf that serves goes on to, as long as its files and its CA's stay.
LEMMA GoodSame ==
  ASSUME NEW s, Good(s), LeafSame(s), Same(Crt("token-ca")), cfg' = cfg
  PROVE  Good(s)'
<1>1. On(Crt(s.name)) /\ On(Key(s.name)) /\ exists({Crt(s.ca), Key(s.ca)})
  BY DEF Good, exists, On
<1>2. exists({Crt(s.name), Key(s.name), Crt(s.ca), Key(s.ca)})'
  BY <1>1 DEF LeafSame, Same, On, exists
<1>3. disk'[Crt(s.name)] = disk[Crt(s.name)] /\ disk'[Key(s.name)] = disk[Key(s.name)]
  BY <1>1 DEF LeafSame, Same, On
<1>4. (Stale(s)' <=> Stale(s)) /\ (Matched(s.ca)' <=> Matched(s.ca))
  BY <1>1, StaleSame, MatchedSame, Zenon DEF LeafSame
<1>5. exists({Crt("token-ca")})' <=> exists({Crt("token-ca")})
  BY DEF exists, Same
<1> QED
  BY <1>2, <1>3, <1>4, <1>5, Zenon DEF Good

\* The users are read from the password file only (passwd.Read).
LEMMA UsersSame ==
  ASSUME Same(One("passwd"))
  PROVE  Users' = Users
  BY DEF Same, Users, exists

\* A token is made of the password and the digest of the server CA (FormatToken).
LEMMA FormatSame ==
  ASSUME Same(One("passwd")), Same(Crt("server-ca")), On(Crt("server-ca"))
  PROVE  FormatToken' = FormatToken
  BY UsersSame DEF Same, FormatToken, On
-----------------------------------------------------------------------------
(* The writes                                                              *)

\* A write of f leaves alone what is said of other files.
LEMMA Elsewhere ==
  ASSUME DiskInv, cfg' = cfg, NEW f, NEW c, disk' = Written(f, c),
         f \notin {Crt("token-ca"), Key("token-ca")}, f \in LeafCrts \/ Len(c) # 4
  PROVE  /\ Ageless' /\ OldCAInv'
         /\ \A ca \in CAs : f \notin {Crt(ca), Key(ca)} => CAInv(ca)'
         /\ \A s \in Leaves : f \notin {Crt(s.name), Key(s.name), Crt(s.ca), Key(s.ca)} => LeafInv(s)'
         /\ f # One("passwd") => UsersInv'
<1>1. /\ disk'[f] = c
      /\ \A g : g # f => Same(g)
      /\ \A g \in DOMAIN disk' : g = f \/ On(g)
  BY OneFile, Zenon
<1>2. Ageless'
  <2>1. ASSUME NEW g \in DOMAIN disk', g \notin LeafCrts
        PROVE  Len(disk'[g]) # 4
    <3>1. CASE g = f
      BY <1>1, <2>1, <3>1, Zenon
    <3>2. CASE g # f
      <4>1. On(g) /\ disk'[g] = disk[g]
        BY <1>1, <2>1, <3>2, Zenon DEF Same, On
      <4> QED
        BY <2>1, <4>1, Zenon DEF DiskInv, Ageless, On
    <3> QED
      BY <3>1, <3>2, Zenon
  <2> QED
    BY <2>1, Zenon DEF Ageless, LeafCrts
<1>3. OldSame
  BY <1>1, Zenon DEF OldSame
<1>4. OldCAInv'
  BY <1>3, OldCASame, Zenon DEF DiskInv
<1>5. \A ca \in CAs : f \notin {Crt(ca), Key(ca)} => CAInv(ca)'
  BY <1>1, <1>3, CAInvSame, Zenon DEF DiskInv
<1>6. \A s \in Leaves : f \notin {Crt(s.name), Key(s.name), Crt(s.ca), Key(s.ca)} => LeafInv(s)'
  BY <1>1, LeafInvSame, Zenon DEF DiskInv, LeafSame
<1>7. f # One("passwd") => UsersInv'
  BY <1>1, UsersSame, Zenon DEF DiskInv, UsersInv, Passwords
<1> QED
  BY <1>2, <1>4, <1>5, <1>6, <1>7, Zenon

\* A file that nothing is said of.
LEMMA OtherWrite ==
  ASSUME DiskInv, cfg' = cfg, NEW f, NEW c, disk' = Written(f, c), Len(c) # 4,
         f \notin {Crt("token-ca"), Key("token-ca"), One("passwd")},
         \A ca \in CAs : f \notin {Crt(ca), Key(ca)},
         \A s \in Leaves : f \notin {Crt(s.name), Key(s.name)}
  PROVE  DiskInv'
  BY Elsewhere, LeafCalls, Zenon DEF DiskInv

\* The passwords.
LEMMA UsersWrite ==
  ASSUME DiskInv, cfg' = cfg, NEW p \in Passwords, disk' = Written(One("passwd"), p)
  PROVE  DiskInv' /\ Users' = p
<1>1. Len(p) # 4
  <2>1. PICK S : S = Seq(Nat)
    BY Zenon
  <2>2. p \in [1..2 -> S]
    BY <2>1, Zenon DEF Passwords
  <2> QED
    BY <2>2
<1>2. \A n : One("passwd") # Crt(n) /\ One("passwd") # Key(n)
  BY FileNames, Zenon
<1>3. Users' = p
  BY DEF Users, exists, Written
<1> QED
  BY <1>1, <1>2, <1>3, Elsewhere, Zenon DEF DiskInv, UsersInv, Passwords

\* Files of a CA that has signed nothing are of no leaf.
LEMMA UnsignedLeaves ==
  ASSUME DiskInv, cfg' = cfg, NEW ca \in CAs, Unsigned(ca), NEW f \in {Crt(ca), Key(ca)}, NEW c,
         disk' = Written(f, c), Len(c) # 4, CAInv(ca)'
  PROVE  DiskInv' /\ Unsigned(ca)'
<1>1. f \notin {Crt("token-ca"), Key("token-ca")} /\ f # One("passwd")
  BY Apart, FileNames, Zenon
<1>2. \A b \in CAs : b # ca => f \notin {Crt(b), Key(b)}
  BY FileNames, Zenon
<1>3. \A s \in Leaves : f \notin {Crt(s.name), Key(s.name)}
  BY Apart, FileNames, Zenon
<1>4. Unsigned(ca)'
  BY <1>3, OneFile, Zenon DEF Unsigned, Same, On
<1>5. ASSUME NEW s \in Leaves
      PROVE  LeafInv(s)'
  <2>1. CASE s.ca = ca
    BY <1>4, <2>1, Zenon DEF Unsigned, LeafInv
  <2>2. CASE s.ca # ca
    <3>1. f \notin {Crt(s.ca), Key(s.ca)}
      BY <1>2, <2>2, LeafCalls, Zenon
    <3> QED
      BY <1>1, <1>3, <3>1, Elsewhere, Zenon
  <2> QED
    BY <2>1, <2>2, Zenon
<1>6. Ageless' /\ OldCAInv' /\ UsersInv' /\ \A b \in CAs : CAInv(b)'
  BY <1>1, <1>2, Elsewhere, Zenon
<1> QED
  BY <1>4, <1>5, <1>6, Zenon DEF DiskInv

\* createSigningCertKey writes a key, of which there was none.
LEMMA CAKeyWrite ==
  ASSUME DiskInv, cfg' = cfg, NEW ca \in CAs, Unsigned(ca), ~ On(Key(ca)), NEW c,
         disk' = Written(Key(ca), c), Len(c) # 4
  PROVE  DiskInv' /\ Unsigned(ca)'
<1>1. CAInv(ca) /\ On(Key(ca))'
  BY OneFile, Zenon DEF DiskInv
<1>2. OldSame /\ Same(Crt(ca))
  BY Apart, FileNames, OneFile, Zenon DEF OldSame
<1>3. CAInv(ca)'
  BY <1>1, <1>2, OldCASame, Zenon DEF CAInv, Same, On
<1> QED
  BY <1>3, UnsignedLeaves, Zenon

\* It writes the certificate of the key.
LEMMA CACrtWrite ==
  ASSUME DiskInv, cfg' = cfg, NEW ca \in CAs, Unsigned(ca), On(Key(ca)), NEW c,
         disk' = Written(Crt(ca), c), Broken(c) \/ (Len(c) = 2 /\ c[1] = disk[Key(ca)])
  PROVE  DiskInv' /\ Unsigned(ca)'
<1>1. On(Crt(ca))' /\ disk'[Crt(ca)] = c /\ Same(Key(ca))
  BY FileNames, OneFile, Zenon
<1>2. On(Key(ca))' /\ disk'[Key(ca)] = disk[Key(ca)]
  BY <1>1, Zenon DEF Same, On
<1>3. Len(c) # 4
  BY DEF Broken, Empty, Torn
<1>4. Broken(c) \/ Matched(ca)'
  BY <1>1, <1>2 DEF Matched, exists, On
<1>5. CAInv(ca)'
  BY <1>1, <1>2, <1>4, Zenon DEF CAInv
<1> QED
  BY <1>3, <1>5, UnsignedLeaves, Zenon

\* createServerSigningCertKey links the certificate of an older version.
LEMMA LinkWrite ==
  ASSUME DiskInv, cfg' = cfg, "server-ca" \in CAs, Unsigned("server-ca"), OldCA,
         disk' = Written(Crt("server-ca"), OldCrt)
  PROVE  DiskInv' /\ Unsigned("server-ca")'
<1>1. On(Crt("server-ca"))' /\ disk'[Crt("server-ca")] = OldCrt
  BY OneFile, Zenon
<1>2. OldSame
  <2>1. "server-ca" # "token-ca"
    OBVIOUS
  <2>2. Crt("token-ca") # Crt("server-ca") /\ Key("token-ca") # Crt("server-ca")
    BY <2>1, FileNames, Zenon
  <2> QED
    BY <2>2, OneFile, Zenon DEF OldSame
<1>3. CAInv("server-ca")'
  BY <1>1, <1>2, OldCASame, Zenon DEF CAInv
<1>4. Len(OldCrt) # 4
  BY Lengths
<1> QED
  BY <1>3, <1>4, UnsignedLeaves, Zenon

\* The files of one leaf are of no CA and of no other leaf.
LEMMA LeafFiles ==
  ASSUME DiskInv, cfg' = cfg, NEW s \in Leaves, NEW f \in {Crt(s.name), Key(s.name)}, NEW c,
         disk' = Written(f, c), f \in LeafCrts \/ Len(c) # 4, LeafInv(s)'
  PROVE  DiskInv'
<1>1. f \notin {Crt("token-ca"), Key("token-ca")} /\ f # One("passwd")
  BY Apart, FileNames, Zenon
<1>2. \A ca \in CAs : f \notin {Crt(ca), Key(ca)}
  BY Apart, FileNames, Zenon
<1>3. ASSUME NEW l \in Leaves, l # s
      PROVE  LeafInv(l)'
  <2>1. l.name # s.name /\ l.ca \in CAs
    BY <1>3, Apart, LeafCalls, Zenon
  <2>2. f \notin {Crt(l.name), Key(l.name), Crt(l.ca), Key(l.ca)}
    BY <1>2, <2>1, FileNames, Zenon
  <2> QED
    BY <1>1, <2>2, Elsewhere, Zenon
<1> QED
  BY <1>1, <1>2, <1>3, Elsewhere, Zenon DEF DiskInv

\* createClientCertKey writes a new key, beside a certificate that is to be
\* renewed or beside none.
LEMMA LeafKeyWrite ==
  ASSUME DiskInv, cfg' = cfg, NEW s \in Leaves, On(Crt(s.name)) => Stale(s), NEW c,
         disk' = Written(Key(s.name), c), Len(c) # 4
  PROVE  DiskInv' /\ (On(Crt(s.name))' => Stale(s)')
<1>1. LeafInv(s) /\ s.ca # s.name
  <2>1. s.name \notin CAs /\ s.ca \in CAs
    BY Apart, LeafCalls, Zenon
  <2> QED
    BY <2>1, Zenon DEF DiskInv
<1>2. Same(Crt(s.name)) /\ Same(Crt(s.ca)) /\ Same(Key(s.ca)) /\ On(Key(s.name))'
  <2>1. Crt(s.name) # Key(s.name) /\ Crt(s.ca) # Key(s.name) /\ Key(s.ca) # Key(s.name)
    BY <1>1, FileNames, Zenon
  <2> QED
    BY <2>1, OneFile, Zenon
<1>3. CASE On(Crt(s.name))
  <2>1. exists({Crt(s.ca), Key(s.ca)})
    BY <1>1, <1>3, Zenon DEF LeafInv
  <2>2. exists({Crt(s.ca), Key(s.ca)})'
    BY <1>2, <2>1 DEF exists, Same
  <2>3. disk'[Crt(s.name)] = disk[Crt(s.name)] /\ disk'[Crt(s.ca)] = disk[Crt(s.ca)]
    BY <1>2, <1>3, <2>1 DEF exists, Same, On
  <2>4. addSANs(s)' = addSANs(s)
    BY DEF addSANs
  <2>5. Stale(s)'
    BY <1>3, <2>3, <2>4, Zenon DEF Stale
  <2>6. LeafInv(s)'
    BY <1>2, <2>2, <2>5, Zenon DEF LeafInv
  <2> QED
    BY <2>5, <2>6, LeafFiles, Zenon
<1>4. CASE ~ On(Crt(s.name))
  <2>1. ~ On(Crt(s.name))'
    BY <1>2, <1>4, Zenon DEF Same, On
  <2>2. LeafInv(s)'
    BY <2>1, Zenon DEF LeafInv
  <2> QED
    BY <2>1, <2>2, LeafFiles, Zenon
<1> QED
  BY <1>3, <1>4, Zenon

\* It writes the certificate, of the key that is there.
LEMMA LeafCrtWrite ==
  ASSUME DiskInv, cfg' = cfg, NEW s \in Leaves, On(Key(s.name)), exists({Crt(s.ca), Key(s.ca)}), NEW c,
         disk' = Written(Crt(s.name), c), Broken(c) \/ LeafKey(c) = disk[Key(s.name)]
  PROVE  DiskInv'
<1>1. s.ca # s.name
  <2>1. s.name \notin CAs /\ s.ca \in CAs
    BY Apart, LeafCalls, Zenon
  <2> QED
    BY <2>1, Zenon
<1>2. Same(Key(s.name)) /\ Same(Crt(s.ca)) /\ Same(Key(s.ca)) /\ On(Crt(s.name))' /\ disk'[Crt(s.name)] = c
  <2>1. Key(s.name) # Crt(s.name) /\ Crt(s.ca) # Crt(s.name) /\ Key(s.ca) # Crt(s.name)
    BY <1>1, FileNames, Zenon
  <2> QED
    BY <2>1, OneFile, Zenon
<1>3. exists({Crt(s.ca), Key(s.ca)})' /\ On(Key(s.name))' /\ disk'[Key(s.name)] = disk[Key(s.name)]
  BY <1>2 DEF exists, Same, On
<1>4. LeafInv(s)'
  BY <1>2, <1>3, Zenon DEF LeafInv
<1>5. Crt(s.name) \in LeafCrts
  BY Zenon DEF LeafCrts
<1> QED
  BY <1>4, <1>5, LeafFiles, Zenon
-----------------------------------------------------------------------------
(* What a call writes next                                                 *)

\* A file a crash cut short is not read as a leaf's certificate.
LEMMA BrokenLength ==
  ASSUME NEW c, Broken(c)
  PROVE  Len(c) # 4
  BY DEF Broken, Empty, Torn

\* What is said of the tokens handed out, after a write.
HandedDisk ==
    handed # {} =>
        /\ exists({Crt("server-ca"), Key("server-ca")})'
        /\ Users'[ServerUser] # <<>>
        /\ FormatToken' = FormatToken

\* A write that is neither of the server CA nor of the password file leaves the
\* tokens handed out good.
LEMMA HandedElsewhere ==
  ASSUME HandedInv, NEW f, NEW c, disk' = Written(f, c),
         f \notin {Crt("server-ca"), Key("server-ca"), One("passwd")}
  PROVE  HandedDisk
<1>1. \A g : g # f => Same(g)
  BY OneFile, Zenon
<1>2. Same(Crt("server-ca")) /\ Same(Key("server-ca")) /\ Same(One("passwd"))
  BY <1>1, Zenon
<1>3. CASE handed # {}
  <2>1. exists({Crt("server-ca"), Key("server-ca")}) /\ Users[ServerUser] # <<>>
    BY <1>3, Zenon DEF HandedInv
  <2>2. exists({Crt("server-ca"), Key("server-ca")})' /\ On(Crt("server-ca"))
    BY <1>2, <2>1 DEF exists, Same, On
  <2> QED
    BY <1>2, <2>1, <2>2, UsersSame, FormatSame, Zenon DEF HandedDisk
<1> QED
  BY <1>3, Zenon DEF HandedDisk

\* The writes of createSigningCertKey and createServerSigningCertKey.
LEMMA CALists ==
  ASSUME NEW ca, NEW w, MakingCA(ca, w)
  PROVE  \/ /\ Head(w).file = Key(ca) /\ Head(w).content = Random /\ ~ On(Key(ca))
            /\ Tail(w) = <<Put(Crt(ca), CACert(Random))>>
         \/ /\ Head(w).file = Crt(ca) /\ Head(w).content = CACert(disk[Key(ca)]) /\ On(Key(ca)) /\ ~ Matched(ca)
            /\ Tail(w) = <<>>
         \/ /\ ca = "server-ca" /\ OldCA /\ ~ On(Key(ca)) /\ ~ On(Crt(ca))
            /\ Head(w).file = Crt(ca) /\ Head(w).content = OldCrt /\ Head(w).whole
            /\ Tail(w) = <<PutWhole(Key(ca), disk[Key("token-ca")])>>
         \/ /\ ca = "server-ca" /\ OldCA /\ ~ On(Key(ca)) /\ On(Crt(ca))
            /\ Head(w).file = Key(ca) /\ Head(w).content = disk[Key("token-ca")] /\ Head(w).whole
            /\ Tail(w) = <<>>
<1>1. CASE w = <<Put(Key(ca), Random), Put(Crt(ca), CACert(Random))>> /\ ~ On(Key(ca))
  <2>1. Head(w) = Put(Key(ca), Random) /\ Tail(w) = <<Put(Crt(ca), CACert(Random))>>
    BY <1>1, Lists, Zenon
  <2>2. Head(w).file = Key(ca) /\ Head(w).content = Random
    BY <2>1 DEF Put
  <2> QED
    BY <1>1, <2>1, <2>2, Zenon
<1>2. CASE On(Key(ca)) /\ w = <<Put(Crt(ca), CACert(disk[Key(ca)]))>> /\ ~ Matched(ca)
  <2>1. Head(w) = Put(Crt(ca), CACert(disk[Key(ca)])) /\ Tail(w) = <<>>
    BY <1>2, Lists, Zenon
  <2>2. Head(w).file = Crt(ca) /\ Head(w).content = CACert(disk[Key(ca)])
    BY <2>1 DEF Put
  <2> QED
    BY <1>2, <2>1, <2>2, Zenon
<1>3. CASE /\ ca = "server-ca" /\ OldCA /\ ~ On(Key(ca)) /\ ~ On(Crt(ca))
           /\ w = <<PutWhole(Crt(ca), OldCrt), PutWhole(Key(ca), disk[Key("token-ca")])>>
  <2>1. Head(w) = PutWhole(Crt(ca), OldCrt) /\ Tail(w) = <<PutWhole(Key(ca), disk[Key("token-ca")])>>
    BY <1>3, Lists, Zenon
  <2>2. Head(w).whole
    BY <2>1 DEF PutWhole
  <2>3. Head(w).file = Crt(ca) /\ Head(w).content = OldCrt
    BY <2>1 DEF PutWhole
  <2> QED
    BY <1>3, <2>1, <2>2, <2>3, Zenon
<1>4. CASE /\ ca = "server-ca" /\ OldCA /\ ~ On(Key(ca)) /\ On(Crt(ca))
           /\ w = <<PutWhole(Key(ca), disk[Key("token-ca")])>>
  <2>1. Head(w) = PutWhole(Key(ca), disk[Key("token-ca")]) /\ Tail(w) = <<>>
    BY <1>4, Lists, Zenon
  <2>2. Head(w).whole
    BY <2>1 DEF PutWhole
  <2>3. Head(w).file = Key(ca) /\ Head(w).content = disk[Key("token-ca")]
    BY <2>1 DEF PutWhole
  <2> QED
    BY <1>4, <2>1, <2>2, <2>3, Zenon
<1> QED
  BY <1>1, <1>2, <1>3, <1>4, Zenon DEF MakingCA

\* A write of createSigningCertKey, whole or cut short by a crash, keeps what is
\* said of the disk.
LEMMA PutsCA ==
  ASSUME DiskInv, HandedInv, cfg' = cfg, NEW ca \in CAs, NEW w, MakingCA(ca, w), NEW c,
         disk' = Written(Head(w).file, c), c = Head(w).content \/ (~ Head(w).whole /\ Broken(c))
  PROVE  DiskInv' /\ HandedDisk
<1>1. Unsigned(ca) /\ (ca = "server-ca" => handed = {})
  BY Zenon DEF MakingCA
<1>2. Head(w).file \in {Crt(ca), Key(ca)}
  BY CALists, Zenon
<1>3. HandedDisk
  <2>1. CASE ca = "server-ca"
    BY <1>1, <2>1, Zenon DEF HandedDisk
  <2>2. CASE ca # "server-ca"
    <3>1. Head(w).file \notin {Crt("server-ca"), Key("server-ca"), One("passwd")}
      BY <1>2, <2>2, FileNames, Zenon
    <3> QED
      BY <3>1, HandedElsewhere, Zenon
  <2> QED
    BY <2>1, <2>2, Zenon
<1>4. CASE Head(w).file = Key(ca) /\ Head(w).content = Random /\ ~ On(Key(ca))
  <2>1. Len(c) # 4
    BY <1>4, BrokenLength, Lengths, Zenon DEF Random
  <2> QED
    BY <1>1, <1>3, <1>4, <2>1, CAKeyWrite, Zenon
<1>5. CASE Head(w).file = Crt(ca) /\ Head(w).content = CACert(disk[Key(ca)]) /\ On(Key(ca))
  <2>1. Broken(c) \/ (Len(c) = 2 /\ c[1] = disk[Key(ca)])
    <3>1. Broken(c) \/ c = <<disk[Key(ca)], starts>>
      BY <1>5, Zenon DEF CACert
    <3> QED
      BY <3>1
  <2> QED
    BY <1>1, <1>3, <1>5, <2>1, CACrtWrite, Zenon
<1>6. CASE ca = "server-ca" /\ OldCA /\ Head(w).file = Crt(ca) /\ Head(w).content = OldCrt /\ Head(w).whole
  <2>1. c = OldCrt /\ disk' = Written(Crt("server-ca"), OldCrt)
    BY <1>6, Zenon
  <2> QED
    BY <1>1, <1>3, <1>6, <2>1, LinkWrite, Zenon
<1>7. CASE OldCA /\ ~ On(Key(ca)) /\ Head(w).file = Key(ca) /\ Head(w).content = disk[Key("token-ca")] /\ Head(w).whole
  <2>1. On(Key("token-ca"))
    BY <1>7 DEF OldCA, exists, On
  <2>2. Key("token-ca") \notin LeafCrts
    BY FileNames, Zenon DEF LeafCrts
  <2>3. c = disk[Key("token-ca")] /\ Len(c) # 4
    BY <1>7, <2>1, <2>2, Zenon DEF DiskInv, Ageless, On
  <2> QED
    BY <1>1, <1>3, <1>7, <2>3, CAKeyWrite, Zenon
<1> QED
  BY <1>4, <1>5, <1>6, <1>7, CALists, Zenon

\* What it has still to write after that; in the end the CA is there.
LEMMA MakesCA ==
  ASSUME DiskInv, HandedInv, UNCHANGED <<cfg, starts, handed>>, starts \in Nat, starts > 1,
         NEW ca \in CAs, NEW w, MakingCA(ca, w), NEW c, c = Head(w).content, disk' = Written(Head(w).file, c)
  PROVE  /\ Tail(w) # <<>> => MakingCA(ca, Tail(w))'
         /\ Tail(w) = <<>> => exists({Crt(ca), Key(ca)})'
<1>0. Unsigned(ca)' /\ (ca = "server-ca" => handed' = {})
  <2>1. Head(w).file \in {Crt(ca), Key(ca)}
    BY CALists, Zenon
  <2>2. \A s \in Leaves : Crt(s.name) # Head(w).file
    BY <2>1, Apart, FileNames, Zenon
  <2>3. \A s \in Leaves : Same(Crt(s.name))
    BY <2>2, OneFile, Zenon
  <2> QED
    BY <2>3, Zenon DEF MakingCA, Unsigned, Same, On
<1>1. CASE /\ Head(w).file = Key(ca) /\ Head(w).content = Random /\ ~ On(Key(ca))
           /\ Tail(w) = <<Put(Crt(ca), CACert(Random))>>
  <2>1. c = Random /\ disk' = Written(Key(ca), c)
    BY <1>1, Zenon
  <2>2. On(Key(ca))' /\ disk'[Key(ca)] = Random /\ Same(Crt(ca))
    BY <2>1, FileNames, OneFile, Zenon
  <2>3. On(Crt(ca)) => disk[Crt(ca)] = OldCrt
    BY <1>1, Zenon DEF DiskInv, CAInv
  <2>4. Random # <<1>>
    BY DEF Random
  <2>5. ~ Matched(ca)'
    <3>1. ASSUME Matched(ca)' PROVE FALSE
      <4>1. Crt(ca) \in DOMAIN disk' /\ disk'[Crt(ca)][1] = disk'[Key(ca)]
        BY <3>1 DEF Matched, exists
      <4>2. disk'[Crt(ca)] = OldCrt
        BY <2>2, <2>3, <4>1, Zenon DEF Same, On
      <4> QED
        BY <2>2, <2>4, <4>1, <4>2, Lengths, Zenon
    <3> QED
      BY <3>1, Zenon
  <2>6. CACert(disk[Key(ca)])' = CACert(Random)
    BY <2>1, <2>2, Zenon DEF CACert
  <2>7. MakingCA(ca, Tail(w))'
    BY <1>0, <1>1, <2>2, <2>5, <2>6, Zenon DEF MakingCA
  <2> QED
    BY <1>1, <2>7, Lists, Zenon
<1>2. CASE Head(w).file = Crt(ca) /\ Head(w).content = CACert(disk[Key(ca)]) /\ On(Key(ca)) /\ Tail(w) = <<>>
  <2>1. disk' = Written(Crt(ca), c)
    BY <1>2, Zenon
  <2>2. On(Key(ca))' /\ On(Crt(ca))'
    BY <1>2, <2>1, OneFile, Zenon DEF On
  <2> QED
    BY <1>2, <2>2 DEF exists, On
<1>3. CASE /\ ca = "server-ca" /\ OldCA /\ ~ On(Key(ca)) /\ ~ On(Crt(ca))
           /\ Head(w).file = Crt(ca) /\ Head(w).content = OldCrt /\ Head(w).whole
           /\ Tail(w) = <<PutWhole(Key(ca), disk[Key("token-ca")])>>
  <2>1. disk' = Written(Crt(ca), c)
    BY <1>3, Zenon
  <2>2. Same(Key(ca)) /\ Same(Key("token-ca")) /\ Same(Crt("token-ca")) /\ On(Crt(ca))'
    <3>1. Key(ca) # Crt(ca) /\ Key("token-ca") # Crt(ca) /\ Crt("token-ca") # Crt(ca)
      BY Apart, FileNames, Zenon
    <3> QED
      BY <2>1, <3>1, OneFile, Zenon
  <2>3. OldCA' /\ ~ On(Key(ca))' /\ disk'[Key("token-ca")] = disk[Key("token-ca")]
    <3>1. On(Key("token-ca"))
      BY <1>3 DEF OldCA, exists, On
    <3> QED
      BY <1>3, <2>2, <3>1, OldCASame, Zenon DEF OldSame, Same, On
  <2>4. MakingCA(ca, Tail(w))'
    BY <1>0, <1>3, <2>2, <2>3, Zenon DEF MakingCA, PutWhole
  <2> QED
    BY <1>3, <2>4, Lists, Zenon
<1>4. CASE On(Crt(ca)) /\ Head(w).file = Key(ca) /\ Head(w).content = disk[Key("token-ca")] /\ Head(w).whole /\ Tail(w) = <<>>
  <2>1. disk' = Written(Key(ca), c)
    BY <1>4, Zenon
  <2>2. On(Key(ca))' /\ On(Crt(ca))'
    BY <1>4, <2>1, OneFile, Zenon DEF On
  <2> QED
    BY <1>4, <2>2 DEF exists, On
<1> QED
  BY <1>1, <1>2, <1>3, <1>4, CALists, Zenon
\* A list with a kubeconfig, or without one, behind it.
LEMMA FrontOne ==
  \A a, x, t : t = <<>> \/ t = <<x>> => <<a>> \o t # <<>> /\ Head(<<a>> \o t) = a /\ Tail(<<a>> \o t) = t
<1> TAKE a, x, t
<1>1. CASE t = <<>>
  <2>1. <<a>> \o t = <<a>>
    BY <1>1, Concatenated, Zenon
  <2> QED
    BY <1>1, <2>1, Lists, Zenon
<1>2. CASE t = <<x>>
  <2>1. <<a>> \o t = <<a, x>>
    BY <1>2, Concatenated, Zenon
  <2> QED
    BY <1>2, <2>1, Lists, Zenon
<1> QED
  BY <1>1, <1>2, Zenon

\* The first of a list of two writes, with or without a third after them.
LEMMA FrontTwo ==
  \A a, b, x, t : t = <<>> \/ t = <<x>> => Head(<<a, b>> \o t) = a /\ Tail(<<a, b>> \o t) = <<b>> \o t
<1> TAKE a, b, x, t
<1>1. CASE t = <<>>
  <2>1. <<b>> \o t = <<b>> /\ <<a, b>> \o t = <<a, b>>
    BY <1>1, Concatenated, Zenon
  <2> QED
    BY <2>1, Lists, Zenon
<1>2. CASE t = <<x>>
  <2>1. <<b>> \o t = <<b, x>> /\ <<a, b>> \o t = <<a, b, x>>
    BY <1>2, Concatenated, Zenon
  <2>2. Head(<<a, b, x>>) = a /\ Tail(<<a, b, x>>) = <<b, x>>
    BY Lists
  <2> QED
    BY <2>1, <2>2, Zenon
<1> QED
  BY <1>1, <1>2, Zenon

\* The caller of createClientCertKey writes at most one kubeconfig (KubeConfig).
LEMMA KubeconfigIs ==
  \A s : Kubeconfig(s) = <<>> \/ Kubeconfig(s) = <<Put(Conf(s.name), <<starts>>)>>
  BY DEF Kubeconfig

\* The writes of createClientCertKey and its caller.
LEMMA LeafLists ==
  ASSUME NEW s, NEW w, MakingLeaf(s, w), w # <<>>
  PROVE  \/ /\ Head(w).file = Key(s.name) /\ Head(w).content = Random /\ (On(Crt(s.name)) => Stale(s))
            /\ Tail(w) = <<Put(Crt(s.name), Leaf(Random, Signer(s.ca), addSANs(s)))>> \o Kubeconfig(s)
         \/ /\ Head(w).file = Crt(s.name) /\ Head(w).content = Leaf(disk[Key(s.name)], Signer(s.ca), addSANs(s))
            /\ On(Key(s.name)) /\ Tail(w) = Kubeconfig(s)
         \/ Head(w).file = Conf(s.name) /\ Head(w).content = <<starts>> /\ Good(s) /\ Tail(w) = <<>>
<1> DEFINE k == Put(Key(s.name), Random)
           l == Put(Crt(s.name), Leaf(Random, Signer(s.ca), addSANs(s)))
           m == Put(Crt(s.name), Leaf(disk[Key(s.name)], Signer(s.ca), addSANs(s)))
           t == Kubeconfig(s)
<1>0. t = <<>> \/ t = <<Put(Conf(s.name), <<starts>>)>>
  BY KubeconfigIs, Zenon
<1>1. CASE w = <<k, l>> \o t /\ (On(Crt(s.name)) => Stale(s))
  <2>1. Head(w) = k /\ Tail(w) = <<l>> \o t
    <3> HIDE DEF k, l, t
    <3>1. Head(<<k, l>> \o t) = k /\ Tail(<<k, l>> \o t) = <<l>> \o t
      BY <1>0, FrontTwo
    <3> QED
      BY <1>1, <3>1, Zenon
  <2>2. Head(w).file = Key(s.name) /\ Head(w).content = Random
    BY <2>1 DEF Put
  <2> QED
    BY <1>1, <2>1, <2>2, Zenon
<1>2. CASE w = <<m>> \o t /\ On(Key(s.name))
  <2>1. Head(w) = m /\ Tail(w) = t
    <3> HIDE DEF m, t
    <3> QED
      BY <1>0, <1>2, FrontOne, Zenon
  <2>2. Head(w).file = Crt(s.name) /\ Head(w).content = Leaf(disk[Key(s.name)], Signer(s.ca), addSANs(s))
    BY <2>1 DEF Put
  <2> QED
    BY <1>2, <2>1, <2>2, Zenon
<1>3. CASE w = t /\ Good(s)
  <2>1. w = <<Put(Conf(s.name), <<starts>>)>>
    BY <1>0, <1>3, Zenon
  <2>2. Head(w) = Put(Conf(s.name), <<starts>>) /\ Tail(w) = <<>>
    BY <2>1, Lists, Zenon
  <2>3. Head(w).file = Conf(s.name) /\ Head(w).content = <<starts>>
    BY <2>2 DEF Put
  <2> QED
    BY <1>3, <2>2, <2>3, Zenon
<1> QED
  BY <1>1, <1>2, <1>3, Zenon DEF MakingLeaf

\* The server CA is one of the CAs.
LEMMA ServerCA == "server-ca" \in CAs
  BY TokensLast, Zenon DEF CAs

\* A write of createClientCertKey or its caller, whole or cut short by a crash,
\* keeps what is said of the disk.
LEMMA PutsLeaf ==
  ASSUME DiskInv, HandedInv, cfg' = cfg, NEW s \in Leaves, NEW w, w # <<>>, MakingLeaf(s, w), NEW c,
         disk' = Written(Head(w).file, c), c = Head(w).content \/ Broken(c)
  PROVE  DiskInv' /\ HandedDisk
<1>1. exists({Crt(s.ca), Key(s.ca)})
  BY Zenon DEF MakingLeaf
<1>2. Head(w).file \in {Key(s.name), Crt(s.name), Conf(s.name)}
  BY LeafLists, Zenon
<1>3. HandedDisk
  <2>1. s.name # "server-ca"
    BY Apart, ServerCA, Zenon
  <2>2. Head(w).file \notin {Crt("server-ca"), Key("server-ca"), One("passwd")}
    BY <1>2, <2>1, FileNames, Zenon
  <2> QED
    BY <2>2, HandedElsewhere, Zenon
<1>4. CASE Head(w).file = Key(s.name) /\ Head(w).content = Random /\ (On(Crt(s.name)) => Stale(s))
  <2>1. Len(c) # 4
    BY <1>4, BrokenLength, Lengths, Zenon DEF Random
  <2> QED
    BY <1>3, <1>4, <2>1, LeafKeyWrite, Zenon
<1>5. CASE /\ Head(w).file = Crt(s.name) /\ Head(w).content = Leaf(disk[Key(s.name)], Signer(s.ca), addSANs(s))
           /\ On(Key(s.name))
  <2>1. Broken(c) \/ LeafKey(c) = disk[Key(s.name)]
    <3>1. PICK k, a, n : k = disk[Key(s.name)] /\ a = Signer(s.ca) /\ n = addSANs(s)
      BY Zenon
    <3>2. LeafKey(Leaf(k, a, n)) = k
      BY LeafParts
    <3> QED
      BY <1>5, <3>1, <3>2, Zenon
  <2> QED
    BY <1>1, <1>3, <1>5, <2>1, LeafCrtWrite, Zenon
<1>6. CASE Head(w).file = Conf(s.name) /\ Head(w).content = <<starts>>
  <2>1. Len(c) # 4
    BY <1>6, BrokenLength, Lengths, Zenon
  <2>2. /\ Conf(s.name) \notin {Crt("token-ca"), Key("token-ca"), One("passwd")}
        /\ \A n : Conf(s.name) \notin {Crt(n), Key(n)}
    BY FileNames, Zenon
  <2> QED
    BY <1>3, <1>6, <2>1, <2>2, OtherWrite, Zenon
<1> QED
  BY <1>4, <1>5, <1>6, LeafLists, Zenon

\* After its last write the leaf is good; before that the call is still at it.
LEMMA MakesLeaf ==
  ASSUME DiskInv, UNCHANGED <<cfg, starts>>, NEW s \in Leaves, NEW w, w # <<>>, MakingLeaf(s, w), NEW c,
         c = Head(w).content, disk' = Written(Head(w).file, c)
  PROVE  /\ Tail(w) # <<>> => MakingLeaf(s, Tail(w))'
         /\ Tail(w) = <<>> => Good(s)'
<1>1. exists({Crt(s.ca), Key(s.ca)}) /\ ~ Broken(disk[Crt(s.ca)])
  BY Zenon DEF MakingLeaf
<1>2. Same(Crt(s.ca)) /\ Same(Key(s.ca)) /\ Same(Crt("token-ca"))
  <2>1. Head(w).file \in {Key(s.name), Crt(s.name), Conf(s.name)}
    BY LeafLists, Zenon
  <2>2. s.name # s.ca /\ s.name # "token-ca"
    <3>1. s.name \notin CAs /\ s.ca \in CAs /\ s.name \notin {"service", "ipsec", "token-ca"}
      BY Apart, LeafCalls, Zenon
    <3> QED
      BY <3>1, Zenon
  <2>3. Head(w).file \notin {Crt(s.ca), Key(s.ca), Crt("token-ca")}
    BY <2>1, <2>2, FileNames, Zenon
  <2> QED
    BY <2>3, OneFile, Zenon
<1>3. /\ exists({Crt(s.ca), Key(s.ca)})' /\ disk'[Crt(s.ca)] = disk[Crt(s.ca)]
      /\ (Matched(s.ca)' <=> Matched(s.ca)) /\ Signer(s.ca)' = Signer(s.ca)
  <2>1. exists({Crt(s.ca), Key(s.ca)})' /\ disk'[Crt(s.ca)] = disk[Crt(s.ca)]
    BY <1>1, <1>2 DEF exists, Same
  <2> QED
    BY <1>2, <2>1, MatchedSame, Zenon
<1>4. addSANs(s)' = addSANs(s) /\ Kubeconfig(s)' = Kubeconfig(s)
  BY DEF addSANs, Kubeconfig
<1>5. ~ Broken(disk[Crt(s.ca)])'
  BY <1>1, <1>3, Zenon
<1>6. CASE /\ Head(w).file = Key(s.name) /\ Head(w).content = Random
           /\ Tail(w) = <<Put(Crt(s.name), Leaf(Random, Signer(s.ca), addSANs(s)))>> \o Kubeconfig(s)
  <2>1. disk' = Written(Key(s.name), c) /\ c = Random
    BY <1>6, Zenon
  <2>2. On(Key(s.name))' /\ disk'[Key(s.name)] = Random
    BY <2>1, OneFile, Zenon
  <2>3. Leaf(disk[Key(s.name)], Signer(s.ca), addSANs(s))' = Leaf(Random, Signer(s.ca), addSANs(s))
    BY <1>3, <1>4, <2>2, Zenon DEF Leaf
  <2>4. MakingLeaf(s, Tail(w))'
    BY <1>3, <1>4, <1>5, <1>6, <2>2, <2>3, Zenon DEF MakingLeaf
  <2>5. Tail(w) # <<>>
    <3>1. PICK x, t, l : /\ x = Put(Conf(s.name), <<starts>>) /\ t = Kubeconfig(s)
                         /\ l = Put(Crt(s.name), Leaf(Random, Signer(s.ca), addSANs(s)))
      BY Zenon
    <3>2. (t = <<>> \/ t = <<x>>) /\ Tail(w) = <<l>> \o t
      BY <1>6, <3>1, KubeconfigIs, Zenon
    <3> QED
      BY <3>2, FrontOne, Zenon
  <2> QED
    BY <2>4, <2>5, Zenon
<1>7. CASE /\ Head(w).file = Crt(s.name) /\ Head(w).content = Leaf(disk[Key(s.name)], Signer(s.ca), addSANs(s))
           /\ On(Key(s.name)) /\ Tail(w) = Kubeconfig(s)
  <2>1. disk' = Written(Crt(s.name), c)
    BY <1>7, Zenon
  <2>2. On(Crt(s.name))' /\ disk'[Crt(s.name)] = c /\ Same(Key(s.name))
    BY <2>1, FileNames, OneFile, Zenon
  <2>3. On(Key(s.name))' /\ disk'[Key(s.name)] = disk[Key(s.name)]
    BY <1>7, <2>2, Zenon DEF Same, On
  <2>4. exists({Crt(s.name), Key(s.name), Crt(s.ca), Key(s.ca)})'
    BY <1>3, <2>2, <2>3 DEF exists, On
  <2>5. CASE Matched(s.ca)
    <3>1. LeafKey(c) = disk[Key(s.name)] /\ LeafCA(c) = disk[Crt(s.ca)] /\ LeafNames(c) = addSANs(s) /\ ~ LeafOld(c)
      <4>1. c = Leaf(disk[Key(s.name)], disk[Crt(s.ca)], addSANs(s))
        BY <1>7, <2>5, Zenon DEF Signer
      <4>2. PICK k, a, n : k = disk[Key(s.name)] /\ a = disk[Crt(s.ca)] /\ n = addSANs(s)
        BY Zenon
      <4>3. LeafKey(Leaf(k, a, n)) = k /\ LeafCA(Leaf(k, a, n)) = a /\ LeafNames(Leaf(k, a, n)) = n
        BY LeafParts
      <4>4. ~ LeafOld(Leaf(k, a, n))
        BY LeafFresh
      <4>5. c = Leaf(k, a, n)
        BY <4>1, <4>2, Zenon
      <4> QED
        BY <4>2, <4>3, <4>4, <4>5, Zenon
    <3>2. ~ Stale(s)'
      BY <1>3, <1>4, <2>2, <3>1, Zenon DEF Stale
    <3> QED
      BY <2>2, <2>3, <2>4, <3>1, <3>2, <1>7, <1>3, <1>4, <1>5, Zenon DEF Good, MakingLeaf
  <2>6. CASE ~ Matched(s.ca)
    <3>1. CAInv(s.ca) /\ On(Crt(s.ca))
      BY <1>1, LeafCalls, Zenon DEF DiskInv, exists, On
    <3>2. s.ca = "server-ca" /\ OldCA
      BY <1>1, <2>6, <3>1, Zenon DEF CAInv
    <3>3. exists({Crt("token-ca")})'
      BY <1>2, <3>2 DEF OldCA, exists, Same
    <3>4. Good(s)'
      BY <1>3, <2>4, <2>6, <3>2, <3>3, Zenon DEF Good
    <3> QED
      BY <1>3, <1>4, <1>5, <1>7, <3>4, Zenon DEF MakingLeaf
  <2> QED
    BY <2>5, <2>6, Zenon
<1>8. CASE Head(w).file = Conf(s.name) /\ Good(s) /\ Tail(w) = <<>>
  <2>1. Same(Crt(s.name)) /\ Same(Key(s.name))
    BY <1>8, FileNames, OneFile, Zenon
  <2> QED
    BY <1>2, <1>8, <2>1, GoodSame, Zenon DEF LeafSame
<1> QED
  BY <1>6, <1>7, <1>8, LeafLists, Zenon

\* A list of one write.
LEMMA Single ==
  \A f, c : /\ <<Put(f, c)>> # <<>> /\ Head(<<Put(f, c)>>).file = f /\ Head(<<Put(f, c)>>).content = c
           /\ Tail(<<Put(f, c)>>) = <<>>
           /\ <<PutWhole(f, c)>> # <<>> /\ Head(<<PutWhole(f, c)>>).file = f
           /\ Head(<<PutWhole(f, c)>>).content = c /\ Tail(<<PutWhole(f, c)>>) = <<>>
  BY DEF Put, PutWhole

\* The writes of the other calls.
LEMMA OtherLists ==
  ASSUME NEW s, NEW w, Making(s, w),
         s.op \in {"key", "genServiceAccount", "genEncryptedNetworkInfo", "genEncryptionConfig", "printTokens",
                   "writeKubeConfig"}
  PROVE  /\ Len(Head(w).content) # 4
         /\ \/ s.op = "key" /\ Head(w).file = Key(s.name) /\ Tail(w) = <<>>
            \/ Head(w).file \in {Key("service"), Key("ipsec"), One("encryption")} /\ ~ Filled(Head(w).file) /\ Tail(w) = <<>>
            \/ /\ s.op = "printTokens" /\ Head(w).file = One("token") /\ Head(w).content = FormatToken
               /\ Tail(w) = <<PutWhole(One("node-token"), <<1>>)>>
            \/ Head(w).file \in {One("node-token"), One("k3s.yaml")} /\ Tail(w) = <<>>
<1>0. Len(Random) # 4 /\ Len(<<1>>) # 4
  BY Lengths, Zenon DEF Random
<1>1. CASE s.op = "key"
  <2>1. w = <<Put(Key(s.name), Random)>>
    BY <1>1, Zenon DEF Making
  <2>2. Head(w).file = Key(s.name) /\ Head(w).content = Random /\ Tail(w) = <<>>
    BY <2>1, Single, Zenon
  <2> QED
    BY <1>0, <1>1, <2>2, Zenon
<1>2. ASSUME NEW f \in {Key("service"), Key("ipsec"), One("encryption")}, MakingOnce(f, w)
      PROVE  /\ Len(Head(w).content) # 4
             /\ Head(w).file \in {Key("service"), Key("ipsec"), One("encryption")} /\ ~ Filled(Head(w).file) /\ Tail(w) = <<>>
  <2>1. w = <<Put(f, Random)>> /\ ~ Filled(f)
    BY <1>2, Zenon DEF MakingOnce
  <2>2. Head(w).file = f /\ Head(w).content = Random /\ Tail(w) = <<>>
    BY <2>1, Single, Zenon
  <2> QED
    BY <2>1, <2>2, Lengths, Zenon DEF Random
<1>3. CASE s.op \in {"genServiceAccount", "genEncryptedNetworkInfo", "genEncryptionConfig"}
  BY <1>2, <1>3, Zenon DEF Making
<1>4. CASE s.op = "printTokens" /\ w = printTokens
  <2>1. Head(w) = Put(One("token"), FormatToken) /\ Tail(w) = <<PutWhole(One("node-token"), <<1>>)>>
    BY <1>4, Lists, Zenon DEF printTokens
  <2>2. Head(w).file = One("token") /\ Head(w).content = FormatToken
    BY <2>1 DEF Put
  <2>3. Len(FormatToken) = 2
    BY Lengths, Zenon DEF FormatToken
  <2>4. Len(Head(w).content) # 4
    BY <2>2, <2>3
  <2> QED
    BY <1>4, <2>1, <2>2, <2>4, Zenon
<1>5. CASE s.op = "printTokens" /\ w = <<PutWhole(One("node-token"), <<1>>)>>
  <2>1. Head(w).file = One("node-token") /\ Head(w).content = <<1>> /\ Tail(w) = <<>>
    BY <1>5, Single, Zenon
  <2> QED
    BY <1>0, <2>1, Zenon
<1>6. CASE s.op = "writeKubeConfig"
  <2>1. w = <<Put(One("k3s.yaml"), Head(w).content)>> /\ Len(Head(w).content) = 3
    BY <1>6, Zenon DEF Making
  <2>2. PICK x : x = Head(w).content
    BY Zenon
  <2>3. w = <<Put(One("k3s.yaml"), x)>>
    BY <2>1, <2>2, Zenon
  <2>4. Head(w).file = One("k3s.yaml") /\ Tail(w) = <<>>
    BY <2>3, Single, Zenon
  <2>5. Len(Head(w).content) # 4
    BY <2>1
  <2> QED
    BY <2>4, <2>5, Zenon
<1>7. s.op = "printTokens" => w = printTokens \/ w = <<PutWhole(One("node-token"), <<1>>)>>
  BY Zenon DEF Making
<1> QED
  BY <1>1, <1>3, <1>4, <1>5, <1>6, <1>7, Zenon

\* A key that is made without certificate is of no CA and of no leaf.
LEMMA KeyApart ==
  ASSUME NEW i \in 1..Len(Program), Program[i].op = "key"
  PROVE  /\ Program[i].name \notin CAs /\ Program[i].name \notin {"service", "ipsec", "token-ca"}
         /\ \A l \in Leaves : l.name # Program[i].name
<1>1. Program[i].op \in {"ca", "leaf", "key"} /\ Program[i].op # "ca" /\ Program[i].op # "leaf"
  OBVIOUS
<1>2. Program[i].name \notin CAs
  BY <1>1, LeafCalls, CallNames, Zenon
<1>3. ASSUME NEW l \in Leaves, l.name = Program[i].name
      PROVE  FALSE
  <2>0. l.op = "leaf" /\ \E j \in 1..Len(Program) : Program[j] = l
    BY LeafCalls, Zenon
  <2>1. PICK j \in 1..Len(Program) : Program[j] = l /\ Program[j].op = "leaf"
    BY <2>0, Zenon
  <2>2. j = i
    BY <1>3, <2>1, CallNames, Zenon
  <2> QED
    BY <1>1, <2>1, <2>2, Zenon
<1> QED
  BY <1>1, <1>2, <1>3, CallNames, Zenon

OtherOps == {"key", "genServiceAccount", "genEncryptedNetworkInfo", "genEncryptionConfig", "printTokens", "writeKubeConfig"}

\* The other calls write no CA, no leaf and no password file.
LEMMA OtherFile ==
  ASSUME NEW i \in 1..Len(Program), Program[i].op \in OtherOps, NEW w, Making(Program[i], w)
  PROVE  /\ Head(w).file \notin {Crt("token-ca"), Key("token-ca"), One("passwd")}
         /\ \A ca \in CAs : Head(w).file \notin {Crt(ca), Key(ca)}
         /\ \A s \in Leaves : Head(w).file \notin {Crt(s.name), Key(s.name)}
<1>1. CASE Program[i].op = "key" /\ Head(w).file = Key(Program[i].name)
  <2>1. PICK n : n = Program[i].name
    BY Zenon
  <2>2. n \notin CAs /\ n # "token-ca" /\ \A s \in Leaves : s.name # n
    BY <1>1, <2>1, KeyApart, Zenon
  <2>3. Key(n) \notin {Crt("token-ca"), Key("token-ca"), One("passwd")}
    BY <2>2, FileNames, Zenon
  <2>4. \A m : m # n => Key(n) \notin {Crt(m), Key(m)}
    BY FileNames, Zenon
  <2> QED
    BY <1>1, <2>1, <2>2, <2>3, <2>4, Zenon
<1>2. ASSUME NEW n \in {"service", "ipsec"}, Head(w).file = Key(n)
      PROVE  /\ Head(w).file \notin {Crt("token-ca"), Key("token-ca"), One("passwd")}
             /\ \A ca \in CAs : Head(w).file \notin {Crt(ca), Key(ca)}
             /\ \A s \in Leaves : Head(w).file \notin {Crt(s.name), Key(s.name)}
  <2>1. n # "token-ca"
    OBVIOUS
  <2>2. n \notin CAs /\ \A s \in Leaves : s.name # n
    BY Apart, Zenon
  <2>3. Key(n) \notin {Crt("token-ca"), Key("token-ca"), One("passwd")}
    BY <2>1, FileNames, Zenon
  <2>4. \A m : m # n => Key(n) \notin {Crt(m), Key(m)}
    BY FileNames, Zenon
  <2> QED
    BY <1>2, <2>2, <2>3, <2>4, Zenon
<1>3. ASSUME NEW n, n # "passwd", Head(w).file = One(n)
      PROVE  /\ Head(w).file \notin {Crt("token-ca"), Key("token-ca"), One("passwd")}
             /\ \A m : Head(w).file \notin {Crt(m), Key(m)}
  BY <1>3, FileNames, Zenon
<1>4. "encryption" # "passwd" /\ "token" # "passwd" /\ "node-token" # "passwd" /\ "k3s.yaml" # "passwd"
  OBVIOUS
<1>5. \/ Program[i].op = "key" /\ Head(w).file = Key(Program[i].name)
      \/ Head(w).file \in {Key("service"), Key("ipsec"), One("encryption"), One("token"), One("node-token"), One("k3s.yaml")}
  BY OtherLists, Zenon DEF OtherOps
<1> QED
  BY <1>1, <1>2, <1>3, <1>4, <1>5, Zenon

\* So a write of theirs keeps what is said of the disk and the tokens.
LEMMA PutsOther ==
  ASSUME DiskInv, HandedInv, cfg' = cfg, NEW i \in 1..Len(Program), Program[i].op \in OtherOps, NEW w,
         Making(Program[i], w), NEW c, disk' = Written(Head(w).file, c), c = Head(w).content \/ Broken(c)
  PROVE  DiskInv' /\ HandedDisk
<1>1. PICK f : f = Head(w).file
  BY Zenon
<1>2. /\ f \notin {Crt("token-ca"), Key("token-ca"), One("passwd")}
      /\ \A ca \in CAs : f \notin {Crt(ca), Key(ca)}
      /\ \A s \in Leaves : f \notin {Crt(s.name), Key(s.name)}
  BY <1>1, OtherFile, Zenon
<1>3. Len(c) # 4
  BY OtherLists, BrokenLength, Zenon DEF OtherOps
<1>4. f \notin {Crt("server-ca"), Key("server-ca"), One("passwd")}
  BY <1>2, ServerCA, Zenon
<1> QED
  BY <1>1, <1>2, <1>3, <1>4, OtherWrite, HandedElsewhere, Zenon

\* genUsers writes the passwords through a temporary file.
LEMMA PutsUsers ==
  ASSUME DiskInv, HandedInv, cfg' = cfg, NEW w, MakingUsers(w), NEW c, disk' = Written(Head(w).file, c),
         c = Head(w).content \/ (~ Head(w).whole /\ Broken(c))
  PROVE  /\ DiskInv' /\ HandedDisk
         /\ Users'[ServerUser] # <<>> /\ Tail(w) = <<>> /\ Head(w).file = One("passwd")
<1>1. PICK p : p = Head(w).content
  BY Zenon
<1>2. w = <<PutWhole(One("passwd"), p)>> /\ p \in Passwords /\ p[ServerUser] # <<>>
  BY <1>1, Zenon DEF MakingUsers
<1>3. Head(w).file = One("passwd") /\ Tail(w) = <<>>
  BY <1>2, Single, Zenon
<1>4. Head(w).whole
  BY <1>2 DEF PutWhole
<1>5. c = p /\ disk' = Written(One("passwd"), p)
  BY <1>1, <1>3, <1>4, Zenon
<1>6. DiskInv' /\ Users' = p
  BY <1>2, <1>5, UsersWrite, Zenon
<1>7. Users'[ServerUser] # <<>>
  BY <1>2, <1>6
<1>8. CASE handed # {}
  <2>1. exists({Crt("server-ca"), Key("server-ca")}) /\ p[ServerUser] = Users[ServerUser]
    BY <1>1, <1>8, Zenon DEF HandedInv, MakingUsers
  <2>2. Same(Crt("server-ca")) /\ Same(Key("server-ca"))
    <3>1. Crt("server-ca") # One("passwd") /\ Key("server-ca") # One("passwd")
      BY FileNames, Zenon
    <3> QED
      BY <1>5, <3>1, OneFile, Zenon
  <2>3. exists({Crt("server-ca"), Key("server-ca")})' /\ disk'[Crt("server-ca")] = disk[Crt("server-ca")]
    BY <2>1, <2>2 DEF exists, Same
  <2>4. FormatToken' = FormatToken
    BY <1>6, <2>1, <2>3, Zenon DEF FormatToken
  <2> QED
    BY <1>3, <1>6, <1>7, <2>3, <2>4, Zenon DEF HandedDisk
<1> QED
  BY <1>3, <1>6, <1>7, <1>8, Zenon DEF HandedDisk

-----------------------------------------------------------------------------
(* A call of the program                                                   *)

\* Every call is of one of these kinds.
LEMMA Kinds ==
  ASSUME NEW i \in 1..Len(Program), Looked(Program[i])
  PROVE  /\ Program[i].op = "ca" => Program[i].name \in CAs
         /\ Program[i].op = "leaf" => Program[i] \in Leaves
         /\ Program[i].op \in {"ca", "leaf", "genUsers", "apiServer"} \/ Program[i].op \in OtherOps
<1>1. Program[i].op \in Ops
  BY CallNames, Zenon
<1>2. Program[i].op \in {"ca", "leaf", "genUsers", "apiServer"} \/ Program[i].op \in OtherOps
  BY <1>1, Zenon DEF Ops, OtherOps
<1> QED
  BY <1>2, Zenon DEF CAs, Leaves

\* What a call writes is of its own: it touches no leaf and no CA of another
\* name, and replaces nothing that is made once.
LEMMA OwnFiles ==
  ASSUME NEW i \in 1..Len(Program), Looked(Program[i]), NEW w, w # <<>>, Making(Program[i], w)
  PROVE  /\ \A n : n \notin {Program[i].name, "service", "ipsec"} => Head(w).file \notin {Crt(n), Key(n)}
         /\ Head(w).file # Crt("token-ca")
         /\ Head(w).file = One("passwd") => Program[i].op = "genUsers"
         /\ Head(w).file = One("token") => Program[i].op = "printTokens" /\ Head(w).content = FormatToken
         /\ \A ca \in CAs : Head(w).file \in {Crt(ca), Key(ca)} => ~ Matched(ca)
         /\ \A f \in {Key("service"), Key("ipsec"), One("encryption")} : Head(w).file = f => ~ Filled(f)
<1> DEFINE s == Program[i]
           f == Head(w).file
<1>1. CASE s.op = "ca"
  <2>1. PICK ca \in CAs : ca = s.name /\ ca \notin {"service", "ipsec", "token-ca"}
    BY <1>1, Kinds, Apart, Zenon
  <2>2. MakingCA(ca, w)
    BY <1>1, <2>1, Zenon DEF Making
  <2>3. f \in {Crt(ca), Key(ca)} /\ (~ Matched(ca) \/ ~ On(Key(ca)))
    BY <2>2, CALists, Zenon
  <2>4. ~ Matched(ca)
    BY <2>3 DEF Matched, exists, On
  <2>5. \A n : n # ca => f \notin {Crt(n), Key(n)}
    BY <2>3, FileNames, Zenon
  <2>6. \A n : f # One(n)
    BY <2>3, FileNames, Zenon
  <2>7. f # Crt("token-ca") /\ f # Key("service") /\ f # Key("ipsec")
    BY <2>1, <2>5, Zenon
  <2> QED
    BY <2>1, <2>4, <2>5, <2>6, <2>7, Zenon
<1>2. CASE s.op = "leaf"
  <2>1. PICK n : n = s.name /\ n \notin CAs /\ n \notin {"service", "ipsec", "token-ca"}
    BY <1>2, Kinds, Apart, Zenon
  <2>2. MakingLeaf(s, w)
    BY <1>2, Zenon DEF Making
  <2>3. f \in {Crt(n), Key(n), Conf(n)}
    BY <2>1, <2>2, LeafLists, Zenon
  <2>4. \A m : m # n => f \notin {Crt(m), Key(m)}
    BY <2>3, FileNames, Zenon
  <2>5. \A m : f # One(m)
    BY <2>3, FileNames, Zenon
  <2>6. f # Crt("token-ca") /\ f # Key("service") /\ f # Key("ipsec")
    BY <2>1, <2>4, Zenon
  <2> QED
    BY <2>1, <2>4, <2>5, <2>6, Zenon
<1>3. CASE s.op = "genUsers"
  <2>1. f = One("passwd")
    <3>1. PICK x : w = <<PutWhole(One("passwd"), x)>>
      BY <1>3, Zenon DEF Making, MakingUsers
    <3> QED
      BY <3>1, Single, Zenon
  <2>2. \A n : f \notin {Crt(n), Key(n)}
    BY <2>1, FileNames, Zenon
  <2>3. f # One("token") /\ f # One("encryption")
    BY <2>1 DEF One
  <2> QED
    BY <1>3, <2>2, <2>3, Zenon
<1>4. CASE s.op \in OtherOps
  <2>1. /\ f \notin {Crt("token-ca"), Key("token-ca"), One("passwd")}
        /\ \A ca \in CAs : f \notin {Crt(ca), Key(ca)}
    BY <1>4, OtherFile, Zenon
  <2>2. CASE f = Key(s.name) /\ s.op = "key"
    <3>1. PICK n : n = s.name /\ n \notin {"service", "ipsec", "token-ca"}
      BY <2>2, KeyApart, Zenon
    <3>2. \A m : m # n => f \notin {Crt(m), Key(m)}
      BY <2>2, <3>1, FileNames, Zenon
    <3>3. \A m : f # One(m)
      BY <2>2, FileNames, Zenon
    <3>4. f # Key("service") /\ f # Key("ipsec")
      BY <3>1, <3>2, Zenon
    <3> QED
      BY <2>1, <3>1, <3>2, <3>3, <3>4, Zenon
  <2>3. CASE f \in {Key("service"), Key("ipsec"), One("encryption")} /\ ~ Filled(f)
    <3>1. \A n : n \notin {"service", "ipsec"} => f \notin {Crt(n), Key(n)}
      BY <2>3, FileNames, Zenon
    <3>2. f # One("token")
      BY <2>3 DEF One, Key
    <3> QED
      BY <2>1, <2>3, <3>1, <3>2, Zenon
  <2>4. CASE f = One("token") /\ s.op = "printTokens" /\ Head(w).content = FormatToken
    <3>1. \A n : f \notin {Crt(n), Key(n)}
      BY <2>4, FileNames, Zenon
    <3>2. f # One("encryption")
      BY <2>4 DEF One
    <3> QED
      BY <2>1, <2>4, <3>1, <3>2, Zenon
  <2>5. CASE f \in {One("node-token"), One("k3s.yaml")}
    <3>1. \A n : f \notin {Crt(n), Key(n)}
      BY <2>5, FileNames, Zenon
    <3>2. f # One("encryption") /\ f # One("token")
      BY <2>5 DEF One
    <3> QED
      BY <2>1, <3>1, <3>2, Zenon
  <2> QED
    BY <1>4, <2>2, <2>3, <2>4, <2>5, OtherLists, Zenon DEF OtherOps
<1>5. s.op # "apiServer"
  BY Zenon DEF Making
<1> QED
  BY <1>1, <1>2, <1>3, <1>4, <1>5, Kinds, Zenon

\* What is said of the files survives a write, whole or cut short.
LEMMA Puts ==
  ASSUME DiskInv, HandedInv, cfg' = cfg, NEW i \in 1..Len(Program), Looked(Program[i]),
         NEW w, w # <<>>, Making(Program[i], w), NEW c, disk' = Written(Head(w).file, c),
         c = Head(w).content \/ (~ Head(w).whole /\ Broken(c))
  PROVE  DiskInv' /\ HandedDisk
<1>1. CASE Program[i].op = "ca"
  BY <1>1, Kinds, PutsCA, Zenon DEF Making
<1>2. CASE Program[i].op = "leaf"
  BY <1>2, Kinds, PutsLeaf, Zenon DEF Making
<1>3. CASE Program[i].op = "genUsers"
  BY <1>3, PutsUsers, Zenon DEF Making
<1>4. CASE Program[i].op \in OtherOps
  BY <1>4, PutsOther, Zenon
<1>5. Program[i].op # "apiServer"
  BY Zenon DEF Making
<1> QED
  BY <1>1, <1>2, <1>3, <1>4, <1>5, Kinds, Zenon

\* The calls that write twice are neither of these.
LEMMA Others ==
  \A s : /\ s.op \in {"ca", "leaf", "printTokens"} =>
              s.op \notin {"key", "genServiceAccount", "genUsers", "genEncryptedNetworkInfo", "genEncryptionConfig",
                           "apiServer", "writeKubeConfig"}
         /\ s.op = "ca" => s.op # "leaf" /\ s.op # "printTokens"
         /\ s.op = "leaf" => s.op # "ca" /\ s.op # "printTokens"
         /\ s.op = "genUsers" => s.op # "ca" /\ s.op # "leaf"
         /\ s.op \in OtherOps => s.op # "ca" /\ s.op # "leaf" /\ s.op # "genUsers"
  BY DEF OtherOps

\* After a write the call has the rest to write, or has done what it is for.
LEMMA Makes ==
  ASSUME DiskInv, HandedInv, UNCHANGED <<cfg, starts>>, starts \in Nat, starts > 1,
         NEW i \in 1..Len(Program), Looked(Program[i]), NEW w, w # <<>>, Making(Program[i], w), NEW c,
         c = Head(w).content, disk' = Written(Head(w).file, c), Head(w).file # One("token") => handed' = handed
  PROVE  /\ Tail(w) # <<>> => Making(Program[i], Tail(w))'
         /\ Tail(w) = <<>> => Done(Program[i])'
<1> DEFINE s == Program[i]
<1>0. PICK n : n = s.name
  BY Zenon
<1>1. CASE s.op = "ca"
  <2>1. MakingCA(n, w) /\ n \in CAs /\ s.op # "printTokens"
    BY <1>0, <1>1, Kinds, Others, Zenon DEF Making
  <2>2. UNCHANGED <<cfg, starts, handed>>
    BY <2>1, OwnFiles, Zenon
  <2>3. /\ Tail(w) # <<>> => MakingCA(n, Tail(w))'
        /\ Tail(w) = <<>> => exists({Crt(n), Key(n)})'
    BY <2>1, <2>2, MakesCA, Zenon
  <2> QED
    BY <1>0, <1>1, <2>3, Others, Zenon DEF Making, Done
<1>2. CASE s.op = "leaf"
  <2>1. MakingLeaf(s, w) /\ s \in Leaves
    BY <1>2, Kinds, Zenon DEF Making
  <2>2. /\ Tail(w) # <<>> => MakingLeaf(s, Tail(w))'
        /\ Tail(w) = <<>> => Good(s)'
    BY <2>1, MakesLeaf, Zenon
  <2> QED
    BY <1>2, <2>2, Others, Zenon DEF Making, Done
<1>3. CASE s.op = "genUsers"
  <2>1. Users'[ServerUser] # <<>> /\ Tail(w) = <<>>
    BY <1>3, PutsUsers, Zenon DEF Making
  <2> QED
    BY <1>3, <2>1, Others, Zenon DEF Done
<1>4. CASE s.op \in OtherOps
  <2>1. Tail(w) = <<>> \/ (s.op = "printTokens" /\ Tail(w) = <<PutWhole(One("node-token"), <<1>>)>>)
    BY <1>4, OtherLists, Zenon DEF OtherOps
  <2>2. Done(s)'
    <3>1. s.op # "ca" /\ s.op # "leaf" /\ s.op # "genUsers"
      BY <1>4 DEF OtherOps
    <3> QED
      BY <3>1, Zenon DEF Done
  <2>3. CASE s.op = "printTokens" /\ Tail(w) = <<PutWhole(One("node-token"), <<1>>)>>
    <3>1. s.op # "ca" /\ s.op # "leaf" /\ s.op # "key" /\ s.op # "genServiceAccount" /\ s.op # "genUsers"
      BY <1>4, <2>3, Others, Zenon
    <3>2. /\ s.op # "genEncryptedNetworkInfo" /\ s.op # "genEncryptionConfig" /\ s.op # "apiServer"
          /\ s.op # "writeKubeConfig"
      BY <2>3, Others, Zenon
    <3>3. Making(s, Tail(w))'
      BY <2>3, <3>1, <3>2, Zenon DEF Making
    <3> QED
      BY <2>2, <3>3, Zenon
  <2> QED
    BY <2>1, <2>2, <2>3, Zenon
<1>5. s.op # "apiServer"
  BY Zenon DEF Making
<1> QED
  BY <1>1, <1>2, <1>3, <1>4, <1>5, Kinds, Zenon

\* What an earlier call of this start has done stays done.
LEMMA DoneKept ==
  ASSUME NEW i \in 1..Len(Program), NEW j \in 1..Len(Program), j < i, Done(Program[j]), cfg' = cfg,
         NEW f, NEW c, disk' = Written(f, c), f # Crt("token-ca"), f = One("passwd") => Program[i].op = "genUsers",
         \A n : n \notin {Program[i].name, "service", "ipsec"} => f \notin {Crt(n), Key(n)}
  PROVE  Done(Program[j])'
<1>1. Program[j].op = "ca" => exists({Crt(Program[j].name), Key(Program[j].name)})'
  <2>1. \A g \in DOMAIN disk : g \in DOMAIN disk'
    BY OneFile, Zenon DEF On
  <2> QED
    BY <2>1 DEF Done, exists
<1>2. Program[j].op = "leaf" => Good(Program[j])'
  <2>1. SUFFICES ASSUME Program[j].op = "leaf" PROVE Good(Program[j])'
    BY Zenon
  <2>2. PICK k \in 1..(j - 1) : k \in 1..Len(Program) /\ Program[k].op = "ca" /\ Program[k].name = Program[j].ca
    BY <2>1, CAFirst, Zenon
  <2>3. k # i /\ j # i /\ Program[j].op \in {"ca", "leaf", "key"} /\ Program[k].op \in {"ca", "leaf", "key"}
    BY <2>1, <2>2
  <2>4. Program[j].name \notin {Program[i].name, "service", "ipsec"}
    BY <2>3, CallNames, Zenon
  <2>5. Program[j].ca \notin {Program[i].name, "service", "ipsec"}
    BY <2>2, <2>3, CallNames, Zenon
  <2>6. PICK n, ca : n = Program[j].name /\ ca = Program[j].ca
    BY Zenon
  <2>7. f \notin {Crt(n), Key(n), Crt(ca), Key(ca)}
    BY <2>4, <2>5, <2>6, Zenon
  <2>8. Same(Crt(n)) /\ Same(Key(n)) /\ Same(Crt(ca)) /\ Same(Key(ca)) /\ Same(Crt("token-ca"))
    BY <2>7, OneFile, Zenon
  <2>9. Good(Program[j])
    BY <2>1, Zenon DEF Done
  <2> QED
    BY <2>6, <2>8, <2>9, GoodSame, Zenon DEF LeafSame
<1>3. Program[j].op = "genUsers" => Users'[ServerUser] # <<>>
  <2>1. SUFFICES ASSUME Program[j].op = "genUsers" PROVE Users'[ServerUser] # <<>>
    BY Zenon
  <2>2. i # j
    OBVIOUS
  <2>3. Program[i].op # "genUsers"
    BY <2>1, <2>2, TokensLast, Zenon
  <2>4. Same(One("passwd"))
    BY <2>3, OneFile, Zenon
  <2>5. Users' = Users /\ Users[ServerUser] # <<>>
    BY <2>1, <2>4, UsersSame, Zenon DEF Done
  <2> QED
    BY <2>5, Zenon
<1> QED
  BY <1>1, <1>2, <1>3, Zenon DEF Done

\* The calls that have returned before the one under way, which has still to write.
LEMMA ReturnedWriting ==
  ASSUME at \in Nat, NEW i, i = at - 1, writes # <<>>, NEW j \in Nat
  PROVE  Returned(j) <=> j < i
  BY DEF Returned

\* ioutil.WriteFile returns.
LEMMA WriteIInv ==
  ASSUME IInv, Write
  PROVE  IInv'
<1>1. PICK i, w, c : i = at - 1 /\ w = writes /\ c = Head(w).content
  BY Zenon
<1>2. /\ up = "starting" /\ w # <<>> /\ disk' = Written(Head(w).file, c) /\ writes' = Tail(w)
      /\ UNCHANGED <<up, cfg, at, regen, starts, faults>>
      /\ handed' = IF Head(w).file = One("token") THEN handed \union {c} ELSE handed
  BY <1>1, Zenon DEF Write
<1>3. Types /\ DiskInv /\ HandedInv /\ PastInv /\ RegenInv /\ MakingInv
  BY <1>2, Zenon DEF IInv
<1>4. i \in 1..Len(Program) /\ Looked(Program[i]) /\ Making(Program[i], w)
  BY <1>1, <1>2, <1>3, Zenon DEF MakingInv
<1>5. at \in Nat /\ at' = at /\ at' - 1 = i /\ starts \in Nat /\ starts > 1 /\ Len(Program) \in Nat
  BY <1>1, <1>2, <1>3, ProgramIs DEF Types
<1>6. Types'
  BY <1>2, <1>3, Zenon DEF Types
<1>7. DiskInv' /\ HandedDisk
  <2>1. cfg' = cfg
    BY <1>2, Zenon
  <2> QED
    BY <1>1, <1>2, <1>3, <1>4, <2>1, Puts, Zenon
<1>8. /\ \A n : n \notin {Program[i].name, "service", "ipsec"} => Head(w).file \notin {Crt(n), Key(n)}
      /\ Head(w).file # Crt("token-ca")
      /\ Head(w).file = One("passwd") => Program[i].op = "genUsers"
      /\ Head(w).file = One("token") => Program[i].op = "printTokens" /\ c = FormatToken
  BY <1>1, <1>2, <1>4, OwnFiles, Zenon
<1>9. /\ Tail(w) # <<>> => Making(Program[i], Tail(w))'
      /\ Tail(w) = <<>> => Done(Program[i])'
  BY <1>1, <1>2, <1>3, <1>4, <1>5, Makes, Zenon
<1>10. \A j \in 1..Len(Program) : Returned(j) <=> j < i
  BY <1>1, <1>2, <1>5, ReturnedWriting
<1>11. \A j \in 1..Len(Program) : Returned(j)' <=> j < i \/ (j = i /\ Tail(w) = <<>>)
  BY <1>2, <1>4, <1>5 DEF Returned
<1>12. PastInv'
  <2>1. ASSUME NEW j \in 1..Len(Program), Looked(Program[j]), j < i
        PROVE  Done(Program[j])'
    <3>1. Done(Program[j])
      BY <1>3, <1>10, <2>1, Zenon DEF PastInv
    <3>2. cfg' = cfg
      BY <1>2, Zenon
    <3> QED
      BY <1>2, <1>4, <1>8, <2>1, <3>1, <3>2, DoneKept, Zenon
  <2> QED
    BY <1>9, <1>11, <2>1, Zenon DEF PastInv, Looked
<1>13. RegenInv'
  <2>1. ASSUME NEW j \in 1..Len(Program), Program[j] \in Leaves, j >= at, Program[j].ca \in regen
        PROVE  ~ On(Crt(Program[j].name))'
    <3>1. ~ On(Crt(Program[j].name))
      BY <1>3, <2>1, Zenon DEF RegenInv
    <3>2. j # i
      BY <1>1, <1>5, <2>1
    <3>3. Program[j].name \notin {Program[i].name, "service", "ipsec"}
      <4>1. Program[j].name \notin {"service", "ipsec", "token-ca"}
        BY <2>1, Apart, Zenon
      <4> QED
        BY <1>4, <3>2, <4>1, CallNames, Zenon
    <3>4. PICK n : n = Program[j].name
      BY Zenon
    <3>5. Crt(n) # Head(w).file
      BY <1>8, <3>3, <3>4, Zenon
    <3>6. Same(Crt(n))
      BY <1>2, <3>5, OneFile, Zenon
    <3> QED
      BY <3>1, <3>4, <3>6, Zenon DEF Same, On
  <2> QED
    BY <1>2, <2>1, Zenon DEF RegenInv
<1>14. MakingInv'
  BY <1>2, <1>4, <1>5, <1>9, Zenon DEF MakingInv, Looked
<1>15. HandedInv'
  <2>1. CASE Head(w).file # One("token")
    <3>1. handed' = handed
      BY <1>2, <2>1, Zenon
    <3>2. handed # {} /\ cfg.token # <<>> => Returned(UsersCall)'
      <4>1. handed # {} /\ cfg.token # <<>> => Returned(UsersCall)
        BY <1>2, <1>3, Zenon DEF HandedInv
      <4> QED
        BY <4>1, <1>10, <1>11, TokensLast, Zenon
    <3>3. \A t \in handed : t = FormatToken
      BY <1>3, Zenon DEF HandedInv
    <3>4. cfg' = cfg
      BY <1>2, Zenon
    <3> QED
      BY <1>7, <3>1, <3>2, <3>3, <3>4, Zenon DEF HandedInv, HandedDisk
  <2>2. CASE Head(w).file = One("token")
    <3>1. Program[i].op = "printTokens" /\ c = FormatToken /\ handed' = handed \union {FormatToken}
      BY <1>2, <1>8, <2>2, Zenon
    <3>2. UsersCall \in 1..Len(Program) /\ UsersCall < i
      <4>1. UsersCall \in 1..Len(Program) /\ i > UsersCall
        BY <1>4, <3>1, TokensLast, Zenon
      <4> QED
        BY <1>4, <4>1
    <3>3. Returned(UsersCall)'
      BY <1>11, <3>2, Zenon
    <3>4. Looked(Program[UsersCall])
      BY TokensLast DEF Looked
    <3>5. Users[ServerUser] # <<>>
      BY <1>3, <1>10, <3>2, <3>4, TokensLast, Zenon DEF PastInv, Done
    <3>6. exists({Crt("server-ca"), Key("server-ca")})
      <4>1. PICK k \in 1..Len(Program) : k < UsersCall /\ Program[k].op = "ca" /\ Program[k].name = "server-ca"
        BY TokensLast, Zenon
      <4>2. k < i
        BY <1>4, <3>2, <4>1
      <4>3. Looked(Program[k])
        BY <4>1, ChosenAssumption DEF Looked
      <4> QED
        BY <1>3, <1>10, <4>1, <4>2, <4>3, Zenon DEF PastInv, Done
    <3>7. \A t \in handed' : t = FormatToken
      BY <1>3, <3>1, Zenon DEF HandedInv
    <3>8. /\ Same(Crt("server-ca")) /\ Same(Key("server-ca")) /\ Same(One("passwd"))
      <4>1. One("token") # One("passwd")
        BY DEF One
      <4>2. Crt("server-ca") # One("token") /\ Key("server-ca") # One("token")
        BY FileNames, Zenon
      <4> QED
        BY <1>2, <2>2, <4>1, <4>2, OneFile, Zenon
    <3>9. On(Crt("server-ca")) /\ exists({Crt("server-ca"), Key("server-ca")})'
      BY <3>6, <3>8 DEF exists, On, Same
    <3>10. FormatToken' = FormatToken /\ Users' = Users
      BY <3>8, <3>9, FormatSame, UsersSame, Zenon
    <3> QED
      BY <3>3, <3>5, <3>7, <3>9, <3>10, Zenon DEF HandedInv
  <2> QED
    BY <2>1, <2>2, Zenon
<1> QED
  BY <1>6, <1>7, <1>12, <1>13, <1>14, <1>15, Zenon DEF IInv

-----------------------------------------------------------------------------
(* What a call finds to do                                                 *)

\* A CA that is not there has signed nothing, and no token names it.
LEMMA Missing ==
  ASSUME DiskInv, HandedInv, NEW ca, ~ exists({Crt(ca), Key(ca)})
  PROVE  Unsigned(ca) /\ (ca = "server-ca" => handed = {})
  BY Zenon DEF DiskInv, LeafInv, HandedInv, Unsigned

\* createSigningCertKey makes what is missing.
LEMMA EnterSigning ==
  ASSUME DiskInv, HandedInv, NEW ca \in CAs, ~ exists({Crt(ca), Key(ca)})
  PROVE  createSigningCertKey(ca) # <<>> /\ MakingCA(ca, createSigningCertKey(ca))
<1>1. Unsigned(ca) /\ (ca = "server-ca" => handed = {}) /\ ~ Matched(ca)
  BY Missing, Zenon DEF Matched
<1>2. CASE ~ On(Key(ca))
  <2>1. createSigningCertKey(ca) = <<Put(Key(ca), Random)>> \o <<Put(Crt(ca), CACert(Random))>>
    BY <1>2 DEF createSigningCertKey, LoadOrGenerateKeyFile, KeyFor, exists, On
  <2>2. createSigningCertKey(ca) = <<Put(Key(ca), Random), Put(Crt(ca), CACert(Random))>>
    BY <2>1, Concatenated, Zenon
  <2> QED
    BY <1>1, <1>2, <2>2, Lists, Zenon DEF MakingCA
<1>3. CASE On(Key(ca))
  <2>1. createSigningCertKey(ca) = <<>> \o <<Put(Crt(ca), CACert(disk[Key(ca)]))>>
    BY <1>3 DEF createSigningCertKey, LoadOrGenerateKeyFile, KeyFor, exists, On
  <2>2. createSigningCertKey(ca) = <<Put(Crt(ca), CACert(disk[Key(ca)]))>>
    BY <2>1, Concatenated, Zenon
  <2> QED
    BY <1>1, <1>3, <2>2, Lists, Zenon DEF MakingCA
<1> QED
  BY <1>2, <1>3, Zenon

\* createServerSigningCertKey links the CA of an older version when there is one.
LEMMA EnterUpgrade ==
  ASSUME DiskInv, HandedInv, Upgrades
  PROVE  /\ createServerSigningCertKey("server-ca") # <<>>
         /\ MakingCA("server-ca", createServerSigningCertKey("server-ca"))
<1>1. OldCA /\ ~ On(Crt("server-ca")) /\ ~ On(Key("server-ca")) /\ ~ exists({Crt("server-ca"), Key("server-ca")})
  BY DEF Upgrades, OldCA, exists, On
<1>2. On(Crt("token-ca"))
  BY <1>1 DEF OldCA, exists, On
<1>3. disk[Crt("token-ca")] = OldCrt
  BY <1>2, Zenon DEF DiskInv, OldCAInv
<1>4. createServerSigningCertKey("server-ca")
        = <<PutWhole(Crt("server-ca"), OldCrt), PutWhole(Key("server-ca"), disk[Key("token-ca")])>>
  BY <1>3, Zenon DEF createServerSigningCertKey
<1>5. Unsigned("server-ca") /\ handed = {}
  BY <1>1, Missing, Zenon
<1> QED
  BY <1>1, <1>4, <1>5, Lists, Zenon DEF MakingCA

\* createSigningCertKey either finds both files or goes on to write them.
LEMMA EnterCA ==
  ASSUME DiskInv, HandedInv, NEW s, s.op = "ca", s.name \in CAs
  PROVE  /\ Does(s) # <<>> => MakingCA(s.name, Does(s))
         /\ Does(s) = <<>> => exists({Crt(s.name), Key(s.name)})
<1>1. PICK ca : ca = s.name
  BY Zenon
<1>2. CASE ca = "server-ca" /\ Upgrades
  <2>1. Does(s) = createServerSigningCertKey("server-ca")
    BY <1>1, <1>2 DEF Does
  <2> QED
    BY <1>1, <1>2, <2>1, EnterUpgrade, Zenon
<1>3. CASE ~ (ca = "server-ca" /\ Upgrades)
  <2>1. Does(s) = createSigningCertKey(ca)
    <3>1. ca = "server-ca" => Does(s) = createServerSigningCertKey(ca)
      BY <1>1 DEF Does
    <3>2. ca # "server-ca" => Does(s) = createSigningCertKey(ca)
      BY <1>1 DEF Does
    <3> QED
      BY <1>3, <3>1, <3>2, Zenon DEF createServerSigningCertKey
  <2>2. CASE exists({Crt(ca), Key(ca)})
    <3>1. Does(s) = <<>>
      BY <2>1, <2>2, Zenon DEF createSigningCertKey
    <3> QED
      BY <1>1, <2>2, <3>1, Zenon
  <2>3. CASE ~ exists({Crt(ca), Key(ca)})
    BY <1>1, <2>1, <2>3, EnterSigning, Zenon
  <2> QED
    BY <2>2, <2>3, Zenon
<1> QED
  BY <1>2, <1>3, Zenon

\* createClientCertKey with a CA that is there: it renews what is stale and makes
\* what is missing, and otherwise the leaf is good.
LEMMA EnterLeaf ==
  ASSUME DiskInv, NEW s \in Leaves, exists({Crt(s.ca), Key(s.ca)}), ~ Unsignable(s),
         s.ca \in regen => ~ On(Crt(s.name))
  PROVE  /\ createClientCertKey(s) # <<>> => MakingLeaf(s, createClientCertKey(s))
         /\ createClientCertKey(s) = <<>> => Good(s)
<1>0. LeafInv(s)
  BY Zenon DEF DiskInv
<1>1. Renew(s) /\ On(Crt(s.name)) => Stale(s)
  BY Zenon DEF Renew, expired, sansChanged, Stale
<1>2. exists({Crt(s.name), Key(s.name)}) <=> On(Crt(s.name)) /\ On(Key(s.name))
  BY DEF exists, On
<1>3. exists({Key(s.name)}) <=> On(Key(s.name))
  BY DEF exists, On
<1>4. Renew(s) \/ ~ exists({Crt(s.name), Key(s.name)}) => ~ Broken(disk[Crt(s.ca)])
  BY Zenon DEF Unsignable
<1>5. CASE Renew(s) \/ ~ On(Key(s.name))
  <2>1. createClientCertKey(s)
          = (<<Put(Key(s.name), Random)>> \o <<Put(Crt(s.name), Leaf(Random, Signer(s.ca), addSANs(s)))>>) \o Kubeconfig(s)
    BY <1>2, <1>3, <1>5, Zenon DEF createClientCertKey, LoadOrGenerateKeyFile, KeyFor, Kubeconfig
  <2>2. createClientCertKey(s)
          = <<Put(Key(s.name), Random), Put(Crt(s.name), Leaf(Random, Signer(s.ca), addSANs(s)))>> \o Kubeconfig(s)
    BY <2>1, Concatenated, Zenon
  <2>3. On(Crt(s.name)) => Stale(s)
    BY <1>0, <1>1, <1>5, Zenon DEF LeafInv
  <2>4. MakingLeaf(s, createClientCertKey(s))
    BY <1>2, <1>4, <1>5, <2>2, <2>3, Zenon DEF MakingLeaf
  <2>5. createClientCertKey(s) # <<>>
    <3>1. PICK k, l, t, x : /\ k = Put(Key(s.name), Random) /\ t = Kubeconfig(s) /\ x = Put(Conf(s.name), <<starts>>)
                            /\ l = Put(Crt(s.name), Leaf(Random, Signer(s.ca), addSANs(s)))
      BY Zenon
    <3>2. (t = <<>> \/ t = <<x>>) /\ createClientCertKey(s) = <<k, l>> \o t
      BY <2>2, <3>1, KubeconfigIs, Zenon
    <3>3. <<k, l>> \o t # <<>>
      <4>1. CASE t = <<>>
        <5>1. <<k, l>> \o t = <<k, l>>
          BY <4>1, Concatenated, Zenon
        <5> QED
          BY <5>1, Lists, Zenon
      <4>2. CASE t = <<x>>
        <5>1. <<k, l>> \o t = <<k, l, x>>
          BY <4>2, Concatenated, Zenon
        <5> QED
          BY <5>1
      <4> QED
        BY <3>2, <4>1, <4>2, Zenon
    <3> QED
      BY <3>2, <3>3, Zenon
  <2> QED
    BY <2>4, <2>5, Zenon
<1>6. CASE ~ Renew(s) /\ On(Key(s.name)) /\ ~ On(Crt(s.name))
  <2>1. createClientCertKey(s)
          = (<<>> \o <<Put(Crt(s.name), Leaf(disk[Key(s.name)], Signer(s.ca), addSANs(s)))>>) \o Kubeconfig(s)
    BY <1>2, <1>3, <1>6, Zenon DEF createClientCertKey, LoadOrGenerateKeyFile, KeyFor, Kubeconfig
  <2>2. createClientCertKey(s)
          = <<Put(Crt(s.name), Leaf(disk[Key(s.name)], Signer(s.ca), addSANs(s)))>> \o Kubeconfig(s)
    BY <2>1, Concatenated, Zenon
  <2>3. MakingLeaf(s, createClientCertKey(s))
    BY <1>2, <1>4, <1>6, <2>2, Zenon DEF MakingLeaf
  <2>4. createClientCertKey(s) # <<>>
    <3>1. PICK l, t, x : /\ t = Kubeconfig(s) /\ x = Put(Conf(s.name), <<starts>>)
                         /\ l = Put(Crt(s.name), Leaf(disk[Key(s.name)], Signer(s.ca), addSANs(s)))
      BY Zenon
    <3>2. (t = <<>> \/ t = <<x>>) /\ createClientCertKey(s) = <<l>> \o t
      BY <2>2, <3>1, KubeconfigIs, Zenon
    <3> QED
      BY <3>2, FrontOne, Zenon
  <2> QED
    BY <2>3, <2>4, Zenon
<1>7. CASE ~ Renew(s) /\ On(Key(s.name)) /\ On(Crt(s.name))
  <2>1. createClientCertKey(s) = <<>>
    BY <1>2, <1>7, Zenon DEF createClientCertKey
  <2>2. Broken(disk[Crt(s.name)]) \/ ~ Stale(s)
    BY <1>7, Zenon DEF Renew, expired, sansChanged, Stale, On
  <2>3. exists({Crt(s.name), Key(s.name), Crt(s.ca), Key(s.ca)})
    BY <1>7 DEF exists, On
  <2>4. Good(s)
    BY <1>0, <1>7, <2>2, <2>3, Zenon DEF Good, LeafInv
  <2> QED
    BY <2>1, <2>4, Zenon
<1> QED
  BY <1>5, <1>6, <1>7, Zenon

-----------------------------------------------------------------------------
(* The passwords                                                           *)

Unforged(p) == ~ (Len(p) = 2 /\ p[1] = ServerUser)

\* EnsureUser gives the user a password, and the other user is left alone.
LEMMA Ensures ==
  ASSUME starts \in Nat, NEW names \in [1..2 -> Seq(Nat)], NEW user \in 1..2, NEW t \in Seq(Nat)
  PROVE  /\ EnsureUser(names, user, t) \in [1..2 -> Seq(Nat)]
         /\ EnsureUser(names, user, t)[user] # <<>>
         /\ \A v \in 1..2 : v # user => EnsureUser(names, user, t)[v] = names[v]
         /\ user = ServerUser /\ Unforged(names[user]) => Unforged(EnsureUser(names, user, t)[user])
         /\ user = ServerUser /\ t # <<>> /\ Unforged(t) => EnsureUser(names, user, t)[user] = t
<1>1. PICK p : p = IF Len(t) = 2 /\ t[1] = user THEN <<t[2]>> ELSE t
  BY Zenon
<1>2. p \in Seq(Nat) /\ (user = ServerUser => Unforged(p)) /\ (Unforged(t) /\ user = ServerUser => p = t)
  BY <1>1 DEF Unforged
<1>3. Random \in Seq(Nat) /\ Random # <<>> /\ Unforged(Random)
  BY DEF Random, Unforged
<1>4. PICK q : q = IF p # <<>> THEN p ELSE IF names[user] # <<>> THEN names[user] ELSE Random
  BY Zenon
<1>5. q \in Seq(Nat) /\ q # <<>>
  BY <1>2, <1>3, <1>4, Zenon
<1>6. EnsureUser(names, user, t) = [names EXCEPT ![user] = q]
  <2>1. names[user] = q => [names EXCEPT ![user] = q] = names
    OBVIOUS
  <2> QED
    BY <1>1, <1>4, <2>1, Zenon DEF EnsureUser
<1>7. PICK S : S = Seq(Nat)
  BY Zenon
<1>8. /\ [names EXCEPT ![user] = q] \in [1..2 -> S] /\ [names EXCEPT ![user] = q][user] = q
      /\ \A v \in 1..2 : v # user => [names EXCEPT ![user] = q][v] = names[v]
  BY <1>5, <1>7
<1>9. user = ServerUser /\ Unforged(names[user]) => Unforged(q)
  BY <1>2, <1>3, <1>4, Zenon
<1>10. user = ServerUser /\ t # <<>> /\ Unforged(t) => q = t
  BY <1>2, <1>4, Zenon
<1> QED
  BY <1>5, <1>6, <1>7, <1>8, <1>9, <1>10, Zenon

\* genUsers leaves the server with a password, the one it had when tokens were
\* handed out and the configuration names none.
LEMMA EnterUsers ==
  ASSUME DiskInv, HandedInv, Types, handed # {} => cfg.token = <<>>
  PROVE  /\ genUsers # <<>> => MakingUsers(genUsers)
         /\ genUsers = <<>> => Users[ServerUser] # <<>>
<1>0. NodeUser \in 1..2 /\ ServerUser \in 1..2 /\ NodeUser # ServerUser /\ starts \in Nat
  BY DEF NodeUser, ServerUser, Types
<1>1. Users \in [1..2 -> Seq(Nat)] /\ Unforged(Users[ServerUser])
  BY Zenon DEF DiskInv, UsersInv, Passwords, Unforged
<1>2. PICK u : u = Users
  BY Zenon
<1>3. PICK old : old = migratePassword(u)
  BY Zenon
<1>4. old \in [1..2 -> Seq(Nat)] /\ Unforged(old[ServerUser]) /\ (u[ServerUser] # <<>> => old = u)
  <2>1. CASE u[ServerUser] = <<>> /\ u[NodeUser] # <<>>
    <3>1. old = EnsureUser(u, ServerUser, u[NodeUser])
      BY <1>3, <2>1, Zenon DEF migratePassword
    <3>2. u[NodeUser] \in Seq(Nat)
      BY <1>0, <1>1, <1>2
    <3> QED
      BY <1>0, <1>1, <1>2, <2>1, <3>1, <3>2, Ensures, Zenon
  <2>2. CASE ~ (u[ServerUser] = <<>> /\ u[NodeUser] # <<>>)
    BY <1>1, <1>2, <1>3, <2>2, Zenon DEF migratePassword
  <2> QED
    BY <2>1, <2>2, Zenon
<1>5. PICK t : t = getServerPass(old)
  BY Zenon
<1>6. cfg.token \in Seq(Nat) /\ cfg.agentToken \in Seq(Nat)
  BY ConfigsAssumption DEF Types
<1>7. /\ t \in Seq(Nat) /\ t # <<>>
      /\ cfg.token = <<>> /\ old[ServerUser] # <<>> => t = old[ServerUser]
  <2>1. Random \in Seq(Nat) /\ Random # <<>>
    BY <1>0 DEF Random
  <2>2. old[ServerUser] \in Seq(Nat)
    BY <1>0, <1>4
  <2> QED
    BY <1>5, <1>6, <2>1, <2>2, Zenon DEF getServerPass
<1>8. PICK n : n = getNodePass(t)
  BY Zenon
<1>9. n \in Seq(Nat)
  BY <1>6, <1>7, <1>8 DEF getNodePass, ParseUsernamePassword
<1>10. PICK mid : mid = EnsureUser(old, NodeUser, n)
  BY Zenon
<1>11. mid \in [1..2 -> Seq(Nat)] /\ mid[ServerUser] = old[ServerUser]
  <2>1. mid \in [1..2 -> Seq(Nat)] /\ \A v \in 1..2 : v # NodeUser => mid[v] = old[v]
    <3>1. old \in [1..2 -> Seq(Nat)]
      BY <1>4, Zenon
    <3> QED
      BY <1>0, <1>9, <1>10, <3>1, Ensures
  <2> QED
    BY <1>0, <2>1, Zenon
<1>12. PICK new : new = EnsureUser(mid, ServerUser, t)
  BY Zenon
<1>13. /\ new \in [1..2 -> Seq(Nat)] /\ new[ServerUser] # <<>> /\ Unforged(new[ServerUser])
       /\ Unforged(t) => new[ServerUser] = t
  <2>1. /\ new \in [1..2 -> Seq(Nat)] /\ new[ServerUser] # <<>>
        /\ Unforged(mid[ServerUser]) => Unforged(new[ServerUser])
        /\ t # <<>> /\ Unforged(t) => new[ServerUser] = t
    <3>1. mid \in [1..2 -> Seq(Nat)] /\ t \in Seq(Nat)
      BY <1>7, <1>11, Zenon
    <3> QED
      BY <1>0, <1>12, <3>1, Ensures
  <2> QED
    BY <1>4, <1>7, <1>11, <2>1, Zenon
<1>14. new \in Passwords
  BY <1>13, Zenon DEF Passwords, Unforged
<1>15. genUsers = IF new = u THEN <<>> ELSE <<PutWhole(One("passwd"), new)>>
  BY <1>2, <1>3, <1>5, <1>8, <1>10, <1>12, Zenon DEF genUsers
<1>16. handed # {} => new[ServerUser] = Users[ServerUser]
  <2>1. handed # {} => u[ServerUser] # <<>>
    BY <1>2, Zenon DEF HandedInv
  <2> QED
    BY <1>2, <1>4, <1>7, <1>13, <2>1, Zenon
<1>17. CASE new = u
  BY <1>2, <1>13, <1>15, <1>17, Lists, Zenon
<1>18. CASE new # u
  <2>1. genUsers = <<PutWhole(One("passwd"), new)>>
    BY <1>15, <1>18, Zenon
  <2>2. genUsers # <<>> /\ Head(genUsers).content = new
    BY <2>1, Single, Zenon
  <2> QED
    BY <1>13, <1>14, <1>16, <2>1, <2>2, Zenon DEF MakingUsers
<1> QED
  BY <1>17, <1>18, Zenon
-----------------------------------------------------------------------------
(* The steps                                                               *)

\* The other calls.
LEMMA EnterOther ==
  ASSUME NEW s, s.op \in OtherOps
  PROVE  Does(s) # <<>> => Making(s, Does(s))
<1>1. CASE s.op = "key"
  <2>1. Does(s) = <<>> \/ Does(s) = <<Put(Key(s.name), Random)>>
    <3>1. Does(s) = LoadOrGenerateKeyFile(s.name, s.ca \in regen)
      BY <1>1 DEF Does
    <3> QED
      BY <3>1, Zenon DEF LoadOrGenerateKeyFile
  <2> QED
    BY <1>1, <2>1 DEF Making
<1>2. CASE s.op = "genServiceAccount"
  <2>1. Does(s) # <<>> => MakingOnce(Key("service"), Does(s))
    <3>1. Does(s) = genServiceAccount
      BY <1>2 DEF Does
    <3> QED
      BY <3>1, Zenon DEF genServiceAccount, MakingOnce, Filled
  <2> QED
    BY <1>2, <2>1 DEF Making
<1>3. CASE s.op = "genEncryptedNetworkInfo"
  <2>1. Does(s) # <<>> => MakingOnce(Key("ipsec"), Does(s))
    <3>1. Does(s) = genEncryptedNetworkInfo
      BY <1>3 DEF Does
    <3> QED
      BY <3>1, Zenon DEF genEncryptedNetworkInfo, MakingOnce
  <2> QED
    BY <1>3, <2>1 DEF Making
<1>4. CASE s.op = "genEncryptionConfig"
  <2>1. Does(s) # <<>> => MakingOnce(One("encryption"), Does(s))
    <3>1. Does(s) = genEncryptionConfig
      BY <1>4 DEF Does
    <3> QED
      BY <3>1, Zenon DEF genEncryptionConfig, MakingOnce
  <2> QED
    BY <1>4, <2>1 DEF Making
<1>5. CASE s.op = "printTokens"
  <2>1. Does(s) = printTokens
    BY <1>5 DEF Does
  <2> QED
    BY <1>5, <2>1 DEF Making
<1>6. CASE s.op = "writeKubeConfig"
  <2>1. PICK x : x = <<disk[Crt("server-ca")], disk[Crt("admin")], disk[Key("admin")]>>
    BY Zenon
  <2>2. Does(s) = <<Put(One("k3s.yaml"), x)>> /\ Len(x) = 3
    <3>1. Does(s) = writeKubeConfig
      BY <1>6 DEF Does
    <3> QED
      BY <2>1, <3>1, Lengths, Zenon DEF writeKubeConfig
  <2>3. Head(Does(s)).content = x
    <3>1. PICK y : y = Put(One("k3s.yaml"), x)
      BY Zenon
    <3>2. Head(Does(s)) = y
      BY <2>2, <3>1, Lists, Zenon
    <3>3. y.content = x
      BY <3>1, Writes, Zenon
    <3> QED
      BY <3>2, <3>3, Zenon
  <2>4. Does(s) = <<Put(One("k3s.yaml"), Head(Does(s)).content)>> /\ Len(Head(Does(s)).content) = 3
    BY <2>2, <2>3, Zenon
  <2> QED
    BY <1>6, <2>4 DEF Making
<1> QED
  BY <1>1, <1>2, <1>3, <1>4, <1>5, <1>6, Zenon DEF OtherOps

\* What is said of the files holds as long as they stay as they are.
LEMMA DiskSame ==
  ASSUME UNCHANGED <<disk, cfg>>
  PROVE  /\ \A f : Same(f)
         /\ DiskInv => DiskInv'
         /\ \A s : Done(s) => Done(s)'
<1>1. \A f : Same(f)
  BY Zenon DEF Same
<1>2. OldSame /\ cfg' = cfg
  BY <1>1, Zenon DEF OldSame
<1>3. Users' = Users
  BY <1>1, UsersSame, Zenon
<1>4. ASSUME DiskInv PROVE DiskInv'
  <2>1. Ageless'
    BY <1>4 DEF DiskInv, Ageless, LeafCrts
  <2>2. OldCAInv'
    BY <1>2, <1>4, OldCASame, Zenon DEF DiskInv
  <2>3. \A ca \in CAs : CAInv(ca)'
    BY <1>1, <1>2, <1>4, CAInvSame, Zenon DEF DiskInv
  <2>4. \A s \in Leaves : LeafInv(s)'
    BY <1>1, <1>2, <1>4, LeafInvSame, Zenon DEF DiskInv, LeafSame
  <2>5. UsersInv'
    BY <1>3, <1>4, Zenon DEF DiskInv, UsersInv, Passwords
  <2> QED
    BY <2>1, <2>2, <2>3, <2>4, <2>5, Zenon DEF DiskInv
<1>5. ASSUME NEW s, Done(s) PROVE Done(s)'
  <2>1. s.op = "ca" => exists({Crt(s.name), Key(s.name)})'
    BY <1>5 DEF Done, exists
  <2>2. s.op = "leaf" => Good(s)'
    BY <1>1, <1>2, <1>5, GoodSame, Zenon DEF Done, LeafSame
  <2> QED
    BY <1>3, <1>5, <2>1, <2>2, Zenon DEF Done
<1> QED
  BY <1>1, <1>4, <1>5, Zenon

\* So does what a call has still to write.
LEMMA MakingSame ==
  ASSUME UNCHANGED <<disk, cfg, starts, handed>>, NEW s, NEW w, Making(s, w)
  PROVE  Making(s, w)'
<1>1. \A f : Same(f)
  BY Zenon DEF Same
<1>2. OldSame /\ cfg' = cfg /\ starts' = starts /\ handed' = handed /\ disk' = disk
  BY <1>1, Zenon DEF OldSame
<1>3. Random' = Random /\ Users' = Users /\ (OldCA' <=> OldCA) /\ (\A f : On(f)' <=> On(f))
  <2>1. Random' = Random
    BY <1>2, Zenon DEF Random
  <2>2. \A f : On(f)' <=> On(f)
    BY <1>2, Zenon DEF On
  <2> QED
    BY <1>1, <1>2, <2>1, <2>2, UsersSame, OldCASame, Zenon
<1>4. s.op = "ca" => MakingCA(s.name, w)'
  <2>1. PICK ca : ca = s.name
    BY Zenon
  <2>2. (Matched(ca)' <=> Matched(ca)) /\ CACert(disk[Key(ca)])' = CACert(disk[Key(ca)]) /\ CACert(Random)' = CACert(Random)
    BY <1>1, <1>2, <1>3, MatchedSame, Zenon DEF CACert
  <2>3. Unsigned(ca)' <=> Unsigned(ca)
    BY <1>3, Zenon DEF Unsigned
  <2>4. disk'[Key("token-ca")] = disk[Key("token-ca")]
    BY <1>2, Zenon
  <2>5. MakingCA(ca, w) => MakingCA(ca, w)'
    BY <1>2, <1>3, <2>2, <2>3, <2>4, Zenon DEF MakingCA
  <2> QED
    BY <2>1, <2>5, Zenon DEF Making
<1>5. s.op = "leaf" => MakingLeaf(s, w)'
  <2>1. SUFFICES ASSUME MakingLeaf(s, w) PROVE MakingLeaf(s, w)'
    BY Zenon DEF Making
  <2>2. exists({Crt(s.ca), Key(s.ca)}) /\ ~ Broken(disk[Crt(s.ca)])
    BY <2>1, Zenon DEF MakingLeaf
  <2>3. exists({Crt(s.ca), Key(s.ca)})' /\ ~ Broken(disk[Crt(s.ca)])'
    BY <1>2, <2>2, Zenon DEF exists
  <2>4. Signer(s.ca)' = Signer(s.ca) /\ addSANs(s)' = addSANs(s) /\ Kubeconfig(s)' = Kubeconfig(s)
    <3>1. addSANs(s)' = addSANs(s) /\ Kubeconfig(s)' = Kubeconfig(s)
      BY <1>2 DEF addSANs, Kubeconfig
    <3> QED
      BY <1>1, <3>1, MatchedSame, Zenon
  <2>5. /\ Leaf(Random, Signer(s.ca), addSANs(s))' = Leaf(Random, Signer(s.ca), addSANs(s))
        /\ Leaf(disk[Key(s.name)], Signer(s.ca), addSANs(s))' = Leaf(disk[Key(s.name)], Signer(s.ca), addSANs(s))
    BY <1>2, <1>3, <2>4, Zenon DEF Leaf
  <2>6. (On(Crt(s.name)) => Stale(s)) => (On(Crt(s.name))' => Stale(s)')
    BY <1>1, <1>2, <1>3, <2>2, StaleSame, Zenon DEF LeafSame
  <2>7. Good(s) => Good(s)'
    BY <1>1, <1>2, GoodSame, Zenon DEF LeafSame
  <2>8. CASE /\ w = <<Put(Key(s.name), Random), Put(Crt(s.name), Leaf(Random, Signer(s.ca), addSANs(s)))>> \o Kubeconfig(s)
             /\ On(Crt(s.name)) => Stale(s)
    BY <1>3, <2>3, <2>4, <2>5, <2>6, <2>8, Zenon DEF MakingLeaf
  <2>9. CASE /\ On(Key(s.name))
             /\ w = <<Put(Crt(s.name), Leaf(disk[Key(s.name)], Signer(s.ca), addSANs(s)))>> \o Kubeconfig(s)
    BY <1>3, <2>3, <2>4, <2>5, <2>9, Zenon DEF MakingLeaf
  <2>10. CASE w = Kubeconfig(s) /\ Good(s)
    BY <2>3, <2>4, <2>7, <2>10, Zenon DEF MakingLeaf
  <2> QED
    BY <2>1, <2>8, <2>9, <2>10, Zenon DEF MakingLeaf
<1>6. MakingUsers(w) => MakingUsers(w)'
  BY <1>2, <1>3, Zenon DEF MakingUsers, Passwords
<1>7. \A f : MakingOnce(f, w) => MakingOnce(f, w)'
  BY <1>2, <1>3, Zenon DEF MakingOnce, Filled, exists
<1>8. printTokens' = printTokens
  BY <1>2, <1>3, Zenon DEF printTokens, FormatToken
<1> QED
  BY <1>3, <1>4, <1>5, <1>6, <1>7, <1>8, Zenon DEF Making

\* Whether a call fails.
LEMMA ErrsIs ==
  \A s : s.op = "leaf" => (Errs(s) <=> Unsignable(s))
  BY DEF Errs

\* The next call finds what the calls before it have left.
LEMMA EnterDoes ==
  ASSUME IInv, NEW i \in 1..Len(Program), i >= at, Calls(i), ~ Errs(Program[i])
  PROVE  /\ Does(Program[i]) # <<>> => Making(Program[i], Does(Program[i]))
         /\ Does(Program[i]) = <<>> => Done(Program[i])
<1> DEFINE s == Program[i]
<1>1. up = "starting" /\ writes = <<>> /\ Looked(s) /\ \A j \in at..(i - 1) : ~ Looked(Program[j])
  BY Zenon DEF Calls
<1>2. Types /\ DiskInv /\ HandedInv /\ PastInv /\ RegenInv
  BY <1>1, Zenon DEF IInv
<1>3. \A j \in 1..Len(Program) : Looked(Program[j]) /\ j < i => Done(Program[j])
  <2>1. ASSUME NEW j \in 1..Len(Program), Looked(Program[j]), j < i
        PROVE  Returned(j)
    <3>1. j \notin at..(i - 1) /\ at \in Nat
      BY <1>1, <1>2, <2>1, Zenon DEF Types
    <3>2. j <= at - 1
      BY <2>1, <3>1
    <3> QED
      BY <1>1, <3>1, <3>2 DEF Returned
  <2> QED
    BY <1>2, <2>1, Zenon DEF PastInv
<1>4. CASE s.op = "ca"
  <2>1. /\ Does(s) # <<>> => MakingCA(s.name, Does(s))
        /\ Does(s) = <<>> => exists({Crt(s.name), Key(s.name)})
    BY <1>1, <1>2, <1>4, Kinds, EnterCA, Zenon
  <2>2. s.op # "genUsers"
    BY <1>4
  <2> QED
    BY <1>4, <2>1, <2>2, Others, Zenon DEF Making, Done
<1>5. CASE s.op = "leaf"
  <2>1. s \in Leaves /\ ~ Unsignable(s)
    BY <1>1, <1>5, Kinds, ErrsIs, Zenon
  <2>2. PICK k \in 1..(i - 1) : k \in 1..Len(Program) /\ Program[k].op = "ca" /\ Program[k].name = s.ca
    BY <1>5, CAFirst, Zenon
  <2>3. k < i
    BY <2>2
  <2>4. Looked(Program[k])
    BY <2>1, <2>2, ChosenAssumption, Zenon DEF Looked
  <2>5. exists({Crt(s.ca), Key(s.ca)})
    BY <1>3, <2>2, <2>3, <2>4, Zenon DEF Done
  <2>6. s.ca \in regen => ~ On(Crt(s.name))
    BY <1>2, <2>1, Zenon DEF RegenInv
  <2>7. /\ Does(s) # <<>> => MakingLeaf(s, Does(s))
        /\ Does(s) = <<>> => Good(s)
    <3>1. Does(s) = createClientCertKey(s)
      BY <1>5 DEF Does
    <3> QED
      BY <1>2, <2>1, <2>5, <2>6, <3>1, EnterLeaf, Zenon
  <2> QED
    BY <1>5, <2>7, Others, Zenon DEF Making, Done
<1>6. CASE s.op = "genUsers"
  <2>1. i = UsersCall
    BY <1>6, TokensLast, Zenon
  <2>2. ~ Returned(UsersCall)
    BY <1>2, <2>1 DEF Returned, Types
  <2>3. handed # {} => cfg.token = <<>>
    BY <1>1, <1>2, <2>2, Zenon DEF HandedInv
  <2>4. /\ Does(s) # <<>> => MakingUsers(Does(s))
        /\ Does(s) = <<>> => Users[ServerUser] # <<>>
    <3>1. Does(s) = genUsers
      BY <1>6 DEF Does
    <3> QED
      BY <1>2, <2>3, <3>1, EnterUsers, Zenon
  <2> QED
    BY <1>6, <2>4 DEF Making, Done
<1>7. CASE s.op \in OtherOps
  <2>1. s.op # "ca" /\ s.op # "leaf" /\ s.op # "genUsers"
    BY <1>7 DEF OtherOps
  <2> QED
    BY <1>7, <2>1, EnterOther, Zenon DEF Done
<1>8. CASE s.op = "apiServer"
  <2>1. Does(s) = <<>>
    BY <1>8 DEF Does
  <2> QED
    BY <1>8, <2>1 DEF Done
<1> QED
  BY <1>1, <1>4, <1>5, <1>6, <1>7, <1>8, Kinds, Zenon

\* The next call is entered.
LEMMA EnterIInv ==
  ASSUME IInv, Enter
  PROVE  IInv'
<1>1. PICK i \in at..Len(Program) :
        /\ Calls(i) /\ ~ Errs(Program[i]) /\ writes' = Does(Program[i]) /\ at' = i + 1
        /\ regen' = IF Program[i].op = "ca" /\ Does(Program[i]) # <<>> THEN regen \union {Program[i].ca} ELSE regen
        /\ UNCHANGED <<disk, up, cfg, starts, faults, cut, handed>>
  BY Zenon DEF Enter
<1>2. /\ up = "starting" /\ writes = <<>> /\ Looked(Program[i])
      /\ \A j \in at..(i - 1) : ~ Looked(Program[j])
  BY <1>1, Zenon DEF Calls
<1>3. Types /\ DiskInv /\ HandedInv /\ PastInv /\ RegenInv
  BY <1>2, Zenon DEF IInv
<1>4. at \in Nat \ {0} /\ i \in 1..Len(Program) /\ i >= at /\ at' - 1 = i /\ at' \in Nat \ {0}
  <2>1. at \in Nat \ {0}
    BY <1>3, Zenon DEF Types
  <2>2. Len(Program) \in Nat
    BY ProgramIs
  <2>3. \A n \in Nat \ {0}, m \in Nat : \A k \in n..m :
          k \in 1..m /\ k >= n /\ (k + 1) - 1 = k /\ k + 1 \in Nat \ {0}
    OBVIOUS
  <2> QED
    BY <1>1, <2>1, <2>2, <2>3, Zenon
<1>5. PICK w : w = Does(Program[i])
  BY Zenon
<1>6. (w # <<>> => Making(Program[i], w)) /\ (w = <<>> => Done(Program[i]))
  BY <1>1, <1>4, <1>5, EnterDoes, Zenon
<1>7. UNCHANGED <<disk, cfg>> /\ UNCHANGED <<disk, cfg, starts, handed>>
  BY <1>1, Zenon
<1>8. DiskInv' /\ (\A f : Same(f)) /\ (\A s : Done(s) => Done(s)')
  BY <1>3, <1>7, DiskSame, Zenon
<1>9. Types'
  BY <1>1, <1>3, <1>4, Zenon DEF Types
<1>10. \A j \in 1..Len(Program) : Returned(j)' <=> j < i \/ (j = i /\ w = <<>>)
  BY <1>1, <1>4, <1>5 DEF Returned
<1>11. ASSUME NEW j \in 1..Len(Program), Looked(Program[j]), j < i
       PROVE  Returned(j)
  <2>1. j \notin at..(i - 1)
    BY <1>2, <1>11, Zenon
  <2>2. j <= at - 1
    BY <1>4, <1>11, <2>1
  <2> QED
    BY <1>2, <1>4, <2>2 DEF Returned
<1>12. PastInv'
  BY <1>3, <1>6, <1>8, <1>10, <1>11, Zenon DEF PastInv, Looked
<1>13. RegenInv'
  <2>1. ASSUME NEW j \in 1..Len(Program), Program[j] \in Leaves, j >= at', Program[j].ca \in regen'
        PROVE  ~ On(Crt(Program[j].name))
    <3>1. CASE Program[j].ca \in regen
      <4>1. j >= at
        BY <1>1, <1>4, <2>1
      <4> QED
        BY <1>3, <2>1, <3>1, <4>1, Zenon DEF RegenInv
    <3>2. CASE Program[j].ca \notin regen
      <4>1. Program[i].op = "ca" /\ w # <<>> /\ Program[j].ca = Program[i].ca
        BY <1>1, <1>5, <2>1, <3>2, Zenon
      <4>2. Program[j].ca = Program[i].name
        BY <1>4, <4>1, CallNames, Zenon
      <4>3. Unsigned(Program[i].name)
        BY <1>6, <4>1, Zenon DEF Making, MakingCA
      <4> QED
        BY <2>1, <4>2, <4>3, Zenon DEF Unsigned
    <3> QED
      BY <3>1, <3>2, Zenon
  <2>2. \A f : On(f)' <=> On(f)
    BY <1>7, Zenon DEF On
  <2> QED
    BY <2>1, <2>2, Zenon DEF RegenInv
<1>14. MakingInv'
  <2>1. w # <<>> => Making(Program[i], w)'
    BY <1>6, <1>7, MakingSame, Zenon
  <2> QED
    BY <1>1, <1>2, <1>4, <1>5, <2>1, Zenon DEF MakingInv, Looked
<1>15. HandedInv'
  <2>1. Users' = Users /\ FormatToken' = FormatToken
    BY <1>7, <1>8, UsersSame, Zenon DEF FormatToken
  <2>2. exists({Crt("server-ca"), Key("server-ca")})' <=> exists({Crt("server-ca"), Key("server-ca")})
    BY <1>7, Zenon DEF exists
  <2>3. Returned(UsersCall) => Returned(UsersCall)'
    <3>1. UsersCall \in 1..Len(Program)
      BY TokensLast, Zenon
    <3>2. Returned(UsersCall) => UsersCall < i
      BY <1>4, <3>1 DEF Returned
    <3> QED
      BY <1>10, <3>1, <3>2, Zenon
  <2>4. handed' = handed /\ up' = up /\ cfg' = cfg
    BY <1>1, Zenon
  <2> QED
    BY <1>3, <2>1, <2>2, <2>3, <2>4, Zenon DEF HandedInv
<1> QED
  BY <1>8, <1>9, <1>12, <1>13, <1>14, <1>15, Zenon DEF IInv

\* What is said of the tokens, when nothing that they are made of changes.
LEMMA HandedSame ==
  ASSUME HandedInv, HandedDisk, handed' = handed, up' # "starting" \/ cfg'.token = <<>>
  PROVE  HandedInv'
  BY Zenon DEF HandedInv, HandedDisk

\* The tokens handed out stay good while the disk stays.
LEMMA HandedStill ==
  ASSUME HandedInv, disk' = disk
  PROVE  HandedDisk
<1>1. Users' = Users /\ FormatToken' = FormatToken
  BY UsersSame, Zenon DEF Same, FormatToken
<1>2. exists({Crt("server-ca"), Key("server-ca")})' <=> exists({Crt("server-ca"), Key("server-ca")})
  BY Zenon DEF exists
<1> QED
  BY <1>1, <1>2, Zenon DEF HandedInv, HandedDisk

\* The server ends, or comes up, and leaves the files as they are.
LEMMA EndIInv ==
  ASSUME IInv, up' # "starting", UNCHANGED <<disk, cfg, at, starts, handed>>
  PROVE  IInv'
<1>1. DiskInv'
  BY DiskSame, Zenon DEF IInv
<1>2. HandedInv'
  BY HandedStill, HandedSame, Zenon DEF IInv
<1>3. Types'
  BY Zenon DEF IInv, Types
<1> QED
  BY <1>1, <1>2, <1>3, Zenon DEF IInv

\* The server is started, perhaps with another configuration: a leaf that has
\* names to be added is renewed.
LEMMA StartIInv ==
  ASSUME IInv, NEW c \in Configs, Start(c)
  PROVE  IInv'
<1>1. /\ cfg.sans \subseteq c.sans /\ up' = "starting" /\ cfg' = c /\ at' = 1 /\ writes' = <<>> /\ regen' = {}
      /\ starts' = starts + 1 /\ handed' = (IF c.token = <<>> THEN handed ELSE {}) /\ disk' = disk
  BY Zenon DEF Start
<1>2. Types /\ DiskInv /\ HandedInv
  BY Zenon DEF IInv
<1>3. Types'
  <2>1. starts' \in Nat \ {0} /\ starts' > 1 /\ at' \in Nat \ {0}
    BY <1>1, <1>2 DEF Types
  <2> QED
    BY <1>1, <2>1, Zenon DEF Types
<1>4. \A f : Same(f)
  BY <1>1, Zenon DEF Same
<1>5. DiskInv'
  <2>1. OldSame
    BY <1>4, Zenon DEF OldSame
  <2>2. Ageless'
    BY <1>1, <1>2 DEF DiskInv, Ageless, LeafCrts
  <2>3. OldCAInv' /\ \A ca \in CAs : CAInv(ca)'
    BY <1>2, <1>4, <2>1, OldCASame, CAInvSame, Zenon DEF DiskInv
  <2>4. ASSUME NEW s \in Leaves PROVE LeafInv(s)'
    <3>1. addSANs(s) \subseteq addSANs(s)'
      BY <1>1 DEF addSANs
    <3>2. Stale(s) => Stale(s)'
      BY <1>1, <3>1, Zenon DEF Stale
    <3>3. LeafInv(s)
      BY <1>2, Zenon DEF DiskInv
    <3> QED
      BY <1>1, <3>2, <3>3, Zenon DEF LeafInv, exists, On
  <2>5. UsersInv'
    BY <1>2, <1>4, UsersSame, Zenon DEF DiskInv, UsersInv, Passwords
  <2> QED
    BY <2>2, <2>3, <2>4, <2>5, Zenon DEF DiskInv
<1>6. HandedInv'
  <2>1. CASE c.token = <<>>
    <3>1. HandedDisk /\ handed' = handed /\ cfg'.token = <<>>
      BY <1>1, <1>2, <2>1, HandedStill, Zenon
    <3> QED
      BY <1>2, <3>1, HandedSame, Zenon
  <2>2. CASE c.token # <<>>
    BY <1>1, <2>2, Zenon DEF HandedInv
  <2> QED
    BY <2>1, <2>2, Zenon
<1>7. PastInv'
  <2>1. \A i \in 1..Len(Program) : ~ Returned(i)'
    BY <1>1 DEF Returned
  <2> QED
    BY <2>1, Zenon DEF PastInv
<1>8. RegenInv' /\ MakingInv'
  BY <1>1, Zenon DEF RegenInv, MakingInv
<1> QED
  BY <1>3, <1>5, <1>6, <1>7, <1>8, Zenon DEF IInv

\* The files that do not age.
LEMMA AgeSame ==
  ASSUME Ageless, disk' = [f \in DOMAIN disk |-> Aged(disk[f])]
  PROVE  /\ DOMAIN disk' = DOMAIN disk
         /\ \A f \in DOMAIN disk : disk'[f] = Aged(disk[f])
         /\ \A f : f \notin LeafCrts => Same(f)
<1>1. DOMAIN disk' = DOMAIN disk /\ \A f \in DOMAIN disk : disk'[f] = Aged(disk[f])
  OBVIOUS
<1>2. ASSUME NEW f, f \notin LeafCrts, f \in DOMAIN disk
      PROVE  disk'[f] = disk[f]
  <2>1. Len(disk[f]) # 4
    BY <1>2, Zenon DEF Ageless
  <2>2. Aged(disk[f]) = disk[f]
    BY <2>1, Zenon DEF Aged
  <2> QED
    BY <1>1, <1>2, <2>2, Zenon
<1> QED
  BY <1>1, <1>2, Zenon DEF Same

\* The files of CAs, the keys and the passwords are none of those that age.
LEMMA NoLeafCrt ==
  /\ \A ca \in CAs : Crt(ca) \notin LeafCrts
  /\ Crt("token-ca") \notin LeafCrts
  /\ \A n : Key(n) \notin LeafCrts /\ One(n) \notin LeafCrts
<1>1. ASSUME NEW n, Crt(n) \in LeafCrts
      PROVE  \E s \in Leaves : s.name = n
  BY <1>1, FileNames, Zenon DEF LeafCrts
<1>2. \A n : Key(n) \notin LeafCrts /\ One(n) \notin LeafCrts
  BY FileNames, Zenon DEF LeafCrts
<1>3. \A s \in Leaves : s.name \notin CAs /\ s.name # "token-ca"
  BY Apart, Zenon
<1> QED
  BY <1>1, <1>2, <1>3, Zenon

\* A year passes.
LEMMA AgeIInv ==
  ASSUME IInv, Age
  PROVE  IInv'
<1>1. /\ up' # "starting" /\ disk' = [f \in DOMAIN disk |-> Aged(disk[f])]
      /\ UNCHANGED <<up, cfg, at, writes, regen, starts, faults, cut, handed>>
  BY Zenon DEF Age
<1>2. Types /\ DiskInv /\ HandedInv /\ Ageless
  BY Zenon DEF IInv, DiskInv
<1>3. /\ DOMAIN disk' = DOMAIN disk
      /\ \A f \in DOMAIN disk : disk'[f] = Aged(disk[f])
      /\ \A f : f \notin LeafCrts => Same(f)
  BY <1>1, <1>2, AgeSame, Zenon
<1>4. /\ \A ca \in CAs : Same(Crt(ca))
      /\ \A n : Same(Key(n)) /\ Same(One(n))
      /\ OldSame
  BY <1>3, NoLeafCrt, Zenon DEF OldSame
<1>5. Types' /\ cfg' = cfg
  BY <1>1, <1>2, Zenon DEF Types
<1>6. Ageless'
  <2>1. ASSUME NEW f \in DOMAIN disk', f \notin LeafCrts
        PROVE  Len(disk'[f]) # 4
    <3>1. f \in DOMAIN disk /\ disk'[f] = disk[f]
      BY <1>3, <2>1, Zenon DEF Same
    <3> QED
      BY <1>2, <2>1, <3>1, Zenon DEF Ageless
  <2> QED
    BY <2>1, Zenon DEF Ageless, LeafCrts
<1>7. OldCAInv' /\ \A ca \in CAs : CAInv(ca)'
  BY <1>2, <1>4, OldCASame, CAInvSame, Zenon DEF DiskInv
<1>8. ASSUME NEW s \in Leaves PROVE LeafInv(s)'
  <2>1. LeafInv(s) /\ s.ca \in CAs
    BY <1>2, LeafCalls, Zenon DEF DiskInv
  <2>2. SUFFICES ASSUME On(Crt(s.name)) PROVE LeafInv(s)'
    BY <1>3, Zenon DEF LeafInv, On
  <2>3. On(Key(s.name)) /\ exists({Crt(s.ca), Key(s.ca)})
    BY <2>1, <2>2, Zenon DEF LeafInv
  <2>4. On(Key(s.name))' /\ disk'[Key(s.name)] = disk[Key(s.name)]
    BY <1>4, <2>3, Zenon DEF Same, On
  <2>5. exists({Crt(s.ca), Key(s.ca)})' /\ disk'[Crt(s.ca)] = disk[Crt(s.ca)]
    <3>1. Same(Crt(s.ca)) /\ Same(Key(s.ca))
      BY <1>4, <2>1, Zenon
    <3> QED
      BY <2>3, <3>1 DEF exists, Same
  <2>6. PICK c : c = disk[Crt(s.name)] /\ disk'[Crt(s.name)] = Aged(c)
    BY <1>3, <2>2, Zenon DEF On
  <2>7. /\ LeafKey(Aged(c)) = LeafKey(c) /\ LeafCA(Aged(c)) = LeafCA(c) /\ LeafNames(Aged(c)) = LeafNames(c)
        /\ Broken(c) => Aged(c) = c
    BY AgedParts, Zenon
  <2>8. LeafOld(c) => LeafOld(Aged(c))
    BY AgedOld, Zenon
  <2>9. addSANs(s)' = addSANs(s)
    BY <1>5 DEF addSANs
  <2>10. Stale(s) => Stale(s)'
    BY <2>5, <2>6, <2>7, <2>8, <2>9, Zenon DEF Stale
  <2>11. Broken(disk[Crt(s.name)]) => Broken(disk[Crt(s.name)])'
    BY <2>6, <2>7, Zenon
  <2> QED
    BY <2>1, <2>2, <2>4, <2>5, <2>6, <2>7, <2>10, <2>11, Zenon DEF LeafInv
<1>9. UsersInv' /\ Users' = Users
  BY <1>2, <1>4, UsersSame, Zenon DEF DiskInv, UsersInv, Passwords
<1>10. HandedInv'
  <2>1. HandedDisk
    <3>1. Same(Crt("server-ca")) /\ Same(Key("server-ca")) /\ Same(One("passwd"))
      BY <1>4, ServerCA, Zenon
    <3>2. exists({Crt("server-ca"), Key("server-ca")}) => exists({Crt("server-ca"), Key("server-ca")})' /\ On(Crt("server-ca"))
      BY <3>1 DEF exists, Same, On
    <3> QED
      BY <1>2, <1>9, <3>1, <3>2, FormatSame, Zenon DEF HandedInv, HandedDisk
  <2>2. handed' = handed
    BY <1>1, Zenon
  <2> QED
    BY <1>1, <1>2, <2>1, <2>2, HandedSame, Zenon
<1> QED
  BY <1>1, <1>5, <1>6, <1>7, <1>8, <1>9, <1>10, Zenon DEF IInv, DiskInv

\* The server ends before a write or inside it, by a crash or because one of its
\* components returned.
LEMMA EndsIInv ==
  ASSUME IInv, writes # <<>> => up = "starting", Ends
  PROVE  IInv'
<1>1. /\ up' = "down" /\ UNCHANGED <<cfg, at, writes, regen, starts, handed>>
      /\ \/ disk' = disk
         \/ writes # <<>> /\ ~ Head(writes).whole /\ \E c \in {Empty, Torn} : disk' = Written(Head(writes).file, c)
  BY Zenon DEF Ends
<1>2. up' # "starting" /\ cfg' = cfg /\ at' = at /\ starts' = starts /\ handed' = handed
  BY <1>1
<1>3. CASE disk' = disk
  BY <1>2, <1>3, EndIInv, Zenon
<1>4. CASE writes # <<>> /\ ~ Head(writes).whole /\ \E c \in {Empty, Torn} : disk' = Written(Head(writes).file, c)
  <2>1. Types /\ DiskInv /\ HandedInv /\ MakingInv
    BY <1>4, Zenon DEF IInv
  <2>2. PICK i, w, c : i = at - 1 /\ w = writes /\ Broken(c) /\ disk' = Written(Head(w).file, c)
    BY <1>4, Zenon DEF Broken
  <2>3. i \in 1..Len(Program) /\ Looked(Program[i]) /\ Making(Program[i], w) /\ w # <<>> /\ ~ Head(w).whole
    BY <1>4, <2>1, <2>2, Zenon DEF MakingInv
  <2>4. DiskInv' /\ HandedDisk
    BY <1>2, <2>1, <2>2, <2>3, Puts, Zenon
  <2>5. HandedInv'
    BY <1>2, <2>1, <2>4, HandedSame, Zenon
  <2>6. Types'
    BY <1>2, <2>1, Zenon DEF Types
  <2> QED
    BY <1>2, <2>4, <2>5, <2>6, Zenon DEF IInv
<1> QED
  BY <1>1, <1>3, <1>4, Zenon

\* A server that has never been started: nothing is there, or the files of an
\* older version.
LEMMA InitIInv ==
  ASSUME Init
  PROVE  IInv
<1>1. PICK files \in {{}, {Crt("token-ca"), Key("token-ca"), One("passwd")}} :
        disk = [f \in files |-> CASE f = Crt("token-ca") -> <<<<1>>, 1>>
                                  [] f = Key("token-ca") -> <<1>>
                                  [] f = One("passwd") -> <<<<1>>, <<>>>>]
  BY Zenon DEF Init
<1>2. /\ up = "down" /\ cfg \in Configs /\ at = 1 /\ starts = 1 /\ handed = {}
  BY Zenon DEF Init
<1>3. Types /\ HandedInv
  BY <1>2 DEF Types, HandedInv
<1>4. DOMAIN disk = files
  BY <1>1
<1>5. /\ Crt("token-ca") # Key("token-ca") /\ Crt("token-ca") # One("passwd") /\ Key("token-ca") # One("passwd")
  BY FileNames, Zenon
<1>6. /\ Crt("token-ca") \in files => disk[Crt("token-ca")] = OldCrt
      /\ Key("token-ca") \in files => disk[Key("token-ca")] = <<1>>
      /\ One("passwd") \in files => disk[One("passwd")] = <<<<1>>, <<>>>>
  BY <1>1, <1>5 DEF OldCrt
<1>7. Ageless
  <2>1. ASSUME NEW f \in files PROVE Len(disk[f]) # 4
    <3>1. CASE f = Crt("token-ca")
      <4>1. Len(disk[f]) = 2
        BY <1>6, <2>1, <3>1, Lengths, Zenon
      <4> QED
        BY <4>1
    <3>2. CASE f = Key("token-ca")
      BY <1>6, <2>1, <3>2
    <3>3. CASE f = One("passwd")
      BY <1>6, <2>1, <3>3
    <3> QED
      BY <1>1, <2>1, <3>1, <3>2, <3>3
  <2> QED
    BY <1>4, <2>1, Zenon DEF Ageless
<1>8. OldCAInv
  <2>1. On(Crt("token-ca")) => files = {Crt("token-ca"), Key("token-ca"), One("passwd")}
    BY <1>1, <1>4, Zenon DEF On
  <2> QED
    BY <1>4, <1>6, <2>1 DEF OldCAInv, OldCA, On, exists
<1>9. ASSUME NEW n, n # "token-ca"
      PROVE  ~ On(Crt(n))
  <2>1. Crt(n) \notin {Crt("token-ca"), Key("token-ca"), One("passwd")}
    BY <1>9, FileNames, Zenon
  <2> QED
    BY <1>1, <1>4, <2>1, Zenon DEF On
<1>10. \A ca \in CAs : CAInv(ca)
  <2>1. \A ca \in CAs : ca # "token-ca"
    BY Apart, Zenon
  <2> QED
    BY <1>9, <2>1, Zenon DEF CAInv
<1>11. \A s \in Leaves : LeafInv(s)
  <2>1. \A s \in Leaves : s.name # "token-ca"
    BY Apart, Zenon
  <2> QED
    BY <1>9, <2>1, Zenon DEF LeafInv
<1>12. UsersInv
  <2>1. Users \in {<<<<>>, <<>>>>, <<<<1>>, <<>>>>}
    BY <1>4, <1>6, Zenon DEF Users, exists
  <2>2. \A p \in {<<<<>>, <<>>>>, <<<<1>>, <<>>>>} : p \in [1..2 -> Seq(Nat)] /\ Len(p[2]) = 0
    <3>1. <<>> \in Seq(Nat) /\ <<1>> \in Seq(Nat) /\ Len(<<>>) = 0
      OBVIOUS
    <3>2. PICK S : S = Seq(Nat)
      BY Zenon
    <3>3. \A a, b \in S : <<a, b>> \in [1..2 -> S] /\ <<a, b>>[2] = b
      OBVIOUS
    <3>4. <<<<>>, <<>>>> \in [1..2 -> S] /\ <<<<>>, <<>>>>[2] = <<>>
      BY <3>1, <3>2, <3>3, Zenon
    <3>5. <<<<1>>, <<>>>> \in [1..2 -> S] /\ <<<<1>>, <<>>>>[2] = <<>>
      BY <3>1, <3>2, <3>3, Zenon
    <3> QED
      BY <3>1, <3>2, <3>4, <3>5, Zenon
  <2>3. Users \in [1..2 -> Seq(Nat)] /\ Len(Users[ServerUser]) = 0
    BY <2>1, <2>2, Zenon DEF ServerUser
  <2>4. Len(Users[ServerUser]) # 2
    BY <2>3
  <2> QED
    BY <2>3, <2>4, Zenon DEF UsersInv, Passwords
<1>13. up # "starting"
  BY <1>2
<1> QED
  BY <1>3, <1>7, <1>8, <1>10, <1>11, <1>12, <1>13, Zenon DEF IInv, DiskInv

\* Every step.
LEMMA NextIInv ==
  ASSUME IInv, Idle, [Next]_vars
  PROVE  IInv'
<1>1. CASE \E c \in Configs : Start(c)
  BY <1>1, StartIInv, Zenon
<1>2. CASE Fail \/ Serve \/ Stop
  <2>1. up' \in {"down", "serving"} /\ UNCHANGED <<disk, cfg, at, writes, regen, starts, faults, cut, handed>>
    BY <1>2, Zenon DEF Fail, Serve, Stop
  <2>2. up' # "starting"
    BY <2>1
  <2> QED
    BY <2>1, <2>2, EndIInv, Zenon
<1>3. CASE UNCHANGED vars
  <2>1. /\ disk' = disk /\ up' = up /\ cfg' = cfg /\ at' = at /\ writes' = writes /\ regen' = regen
        /\ starts' = starts /\ handed' = handed
    BY <1>3, Zenon DEF vars
  <2>2. CASE up # "starting"
    BY <2>1, <2>2, EndIInv, Zenon
  <2>3. CASE up = "starting"
    <3>1. Types /\ DiskInv /\ HandedInv /\ PastInv /\ RegenInv /\ MakingInv
      BY <2>3, Zenon DEF IInv
    <3>2. UNCHANGED <<disk, cfg>> /\ UNCHANGED <<disk, cfg, starts, handed>>
      BY <2>1, Zenon
    <3>3. DiskInv' /\ HandedDisk /\ \A s : Done(s) => Done(s)'
      BY <3>1, <3>2, <2>1, DiskSame, HandedStill, Zenon
    <3>4. \A i : Returned(i)' <=> Returned(i)
      BY <2>1, Zenon DEF Returned
    <3>5. HandedInv'
      BY <2>1, <3>1, <3>3, <3>4, Zenon DEF HandedInv, HandedDisk
    <3>6. PastInv'
      BY <3>1, <3>3, <3>4, Zenon DEF PastInv, Looked
    <3>7. RegenInv'
      BY <2>1, <3>1, Zenon DEF RegenInv, On
    <3>8. PICK i, w : i = at - 1 /\ w = writes
      BY Zenon
    <3>9. w # <<>> => i \in 1..Len(Program) /\ Looked(Program[i]) /\ Making(Program[i], w)'
      BY <3>1, <3>2, <3>8, MakingSame, Zenon DEF MakingInv
    <3>10. MakingInv'
      BY <2>1, <3>8, <3>9, Zenon DEF MakingInv, Looked
    <3>11. Types'
      BY <2>1, <3>1, Zenon DEF Types
    <3> QED
      BY <3>3, <3>5, <3>6, <3>7, <3>10, <3>11, Zenon DEF IInv
  <2> QED
    BY <2>2, <2>3, Zenon
<1>4. CASE Crash \/ Exit
  <2>1. Ends /\ up \in {"starting", "serving"}
    BY <1>4, Zenon DEF Crash, Exit
  <2>2. writes # <<>> => up = "starting"
    BY <2>1, Zenon DEF Idle
  <2> QED
    BY <2>1, <2>2, EndsIInv, Zenon
<1> QED
  BY <1>1, <1>2, <1>3, <1>4, EnterIInv, WriteIInv, AgeIInv, Zenon DEF Next

\* A server comes to serve with nothing left to write, and then writes nothing.
LEMMA NextIdle ==
  ASSUME Idle, [Next]_vars
  PROVE  Idle'
<1>1. CASE UNCHANGED vars
  BY <1>1, Zenon DEF vars, Idle
<1>2. CASE (\E c \in Configs : Start(c)) \/ Fail \/ Stop \/ Crash \/ Exit
  <2>1. up' \in {"starting", "down"}
    BY <1>2, Zenon DEF Start, Fail, Stop, Crash, Exit, Ends
  <2>2. up' # "serving"
    BY <2>1
  <2> QED
    BY <2>2, Zenon DEF Idle
<1>3. CASE Enter \/ Write
  <2>1. up = "starting" /\ up' = up
    BY <1>3, Zenon DEF Enter, Calls, Write
  <2>2. up' # "serving"
    BY <2>1
  <2> QED
    BY <2>2, Zenon DEF Idle
<1>4. CASE Serve
  BY <1>4, Zenon DEF Serve, Idle
<1>5. CASE Age
  BY <1>5, Zenon DEF Age, Idle
<1> QED
  BY <1>1, <1>2, <1>3, <1>4, <1>5, Zenon DEF Next
-----------------------------------------------------------------------------
(* The theorems                                                            *)

\* What is said of the files, of the tokens and of the calls that have returned
\* holds in every state.
THEOREM Invariance == Spec => [](IInv /\ Idle)
<1>1. Init => Idle
  BY DEF Init, Idle
<1>2. IInv /\ Idle /\ [Next]_vars => IInv' /\ Idle'
  BY NextIInv, NextIdle, Zenon
<1> QED
  BY <1>1, <1>2, InitIInv, PTL DEF Spec

\* Whatever interrupted earlier starts, prepare returns with leaves that can be
\* used: for any configurations, leaves and number of starts and crashes
\* (createClientCertKey, createSigningCertKey in pkg/daemons/control/server.go).
THEOREM LeavesUsableHolds == Spec => []LeavesUsable
<1>1. IInv => LeavesUsable
  <2>1. SUFFICES ASSUME IInv, Prepared, NEW s \in Leaves PROVE Good(s)
    BY Zenon DEF LeavesUsable, Good, Stale
  <2>2. PastInv /\ writes = <<>> /\ at = Len(prepare) + 1
    BY <2>1, Zenon DEF IInv, Prepared
  <2>3. s.op = "leaf" /\ Looked(s) /\ \E i \in 1..Len(Program) : Program[i] = s
    BY LeafCalls, Zenon
  <2>4. PICK i \in 1..Len(Program) : Program[i] = s
    BY <2>3, Zenon
  <2>5. i <= Len(prepare)
    BY <2>3, <2>4, CAFirst, Zenon
  <2>6. Returned(i)
    BY <2>2, <2>5, ProgramIs DEF Returned
  <2> QED
    BY <2>2, <2>3, <2>4, <2>6, Zenon DEF PastInv, Done
<1> QED
  BY <1>1, Invariance, PTL

\* A node can join with any token that was handed out since the configuration
\* last named one, across any number of starts and crashes (printTokens,
\* genUsers, getServerPass).
THEOREM HandedTokensWorkHolds == Spec => []HandedTokensWork
<1>1. IInv => HandedTokensWork
  BY Zenon DEF IInv, HandedInv, HandedTokensWork
<1> QED
  BY <1>1, Invariance, PTL

\* A CA with its own key and what is made once are not what a call writes
\* (each of the calls looked before it began).
LEMMA KeptWrite ==
  ASSUME IInv, up = "starting", writes # <<>>, NEW c, disk' = Written(Head(writes).file, c)
  PROVE  /\ \A ca \in CAs : Matched(ca)
                              => disk'[Crt(ca)] = disk[Crt(ca)] /\ disk'[Key(ca)] = disk[Key(ca)]
         /\ \A f \in {Key("service"), Key("ipsec"), One("encryption")} :
              Filled(f) => disk'[f] = disk[f]
<1>1. PICK i, w : i = at - 1 /\ w = writes
  BY Zenon
<1>2. i \in 1..Len(Program) /\ Looked(Program[i]) /\ Making(Program[i], w) /\ w # <<>>
  BY <1>1, Zenon DEF IInv, MakingInv
<1>3. /\ \A ca \in CAs : Head(w).file \in {Crt(ca), Key(ca)} => ~ Matched(ca)
      /\ \A f \in {Key("service"), Key("ipsec"), One("encryption")} : Head(w).file = f => ~ Filled(f)
  BY <1>2, OwnFiles, Zenon
<1>4. \A g : g # Head(w).file => Same(g)
  BY <1>1, OneFile, Zenon
<1>5. ASSUME NEW ca \in CAs, Matched(ca)
      PROVE  disk'[Crt(ca)] = disk[Crt(ca)] /\ disk'[Key(ca)] = disk[Key(ca)]
  <2>1. Same(Crt(ca)) /\ Same(Key(ca))
    BY <1>3, <1>4, <1>5, Zenon
  <2>2. Crt(ca) \in DOMAIN disk /\ Key(ca) \in DOMAIN disk
    BY <1>5 DEF Matched, exists
  <2> QED
    BY <2>1, <2>2, Zenon DEF Same
<1>6. ASSUME NEW f \in {Key("service"), Key("ipsec"), One("encryption")}, Filled(f)
      PROVE  disk'[f] = disk[f]
  <2>1. Same(f)
    BY <1>3, <1>4, <1>6, Zenon
  <2>2. f \in DOMAIN disk
    BY <1>6 DEF Filled, exists
  <2> QED
    BY <2>1, <2>2, Zenon DEF Same
<1> QED
  BY <1>5, <1>6, Zenon

\* The passage of time only touches the leaves' certificates.
LEMMA KeptAge ==
  ASSUME IInv, Age
  PROVE  /\ \A ca \in CAs : Matched(ca)
                              => disk'[Crt(ca)] = disk[Crt(ca)] /\ disk'[Key(ca)] = disk[Key(ca)]
         /\ \A f \in {Key("service"), Key("ipsec"), One("encryption")} :
              Filled(f) => disk'[f] = disk[f]
<1>1. \A f : f \notin LeafCrts => Same(f)
  BY AgeSame, Zenon DEF IInv, DiskInv, Age
<1>2. ASSUME NEW ca \in CAs, Matched(ca)
      PROVE  disk'[Crt(ca)] = disk[Crt(ca)] /\ disk'[Key(ca)] = disk[Key(ca)]
  <2>1. Same(Crt(ca)) /\ Same(Key(ca))
    BY <1>1, NoLeafCrt, Zenon
  <2>2. Crt(ca) \in DOMAIN disk /\ Key(ca) \in DOMAIN disk
    BY <1>2 DEF Matched, exists
  <2> QED
    BY <2>1, <2>2, Zenon DEF Same
<1>3. ASSUME NEW f \in {Key("service"), Key("ipsec"), One("encryption")}, Filled(f)
      PROVE  disk'[f] = disk[f]
  <2>1. Same(f)
    BY <1>1, NoLeafCrt, Zenon
  <2>2. f \in DOMAIN disk
    BY <1>3 DEF Filled, exists
  <2> QED
    BY <2>1, <2>2, Zenon DEF Same
<1> QED
  BY <1>2, <1>3, Zenon

\* A CA that is there with its own key, the service account key, the IPsec key and
\* the encryption key are never replaced, not by a crash inside a write either
\* (createSigningCertKey, genServiceAccount, genEncryptionConfig).
THEOREM KeptHolds == Spec => Kept
<1>1. IInv /\ Idle /\ [Next]_vars =>
        [ /\ \A ca \in CAs : Matched(ca)
                               => disk'[Crt(ca)] = disk[Crt(ca)] /\ disk'[Key(ca)] = disk[Key(ca)]
          /\ \A f \in {Key("service"), Key("ipsec"), One("encryption")} :
               Filled(f) => disk'[f] = disk[f] ]_vars
  <2>1. SUFFICES ASSUME IInv, Idle, Next
                 PROVE  /\ \A ca \in CAs : Matched(ca)
                              => disk'[Crt(ca)] = disk[Crt(ca)] /\ disk'[Key(ca)] = disk[Key(ca)]
                        /\ \A f \in {Key("service"), Key("ipsec"), One("encryption")} :
                              Filled(f) => disk'[f] = disk[f]
    BY Zenon
  <2>2. CASE disk' = disk
    BY <2>2, Zenon
  <2>3. CASE Age
    BY <2>1, <2>3, KeptAge, Zenon
  <2>4. CASE up = "starting" /\ writes # <<>> /\ \E c : disk' = Written(Head(writes).file, c)
    BY <2>1, <2>4, KeptWrite, Zenon
  <2>5. CASE \E c \in Configs : Start(c)
    BY <2>2, <2>5, Zenon DEF Start
  <2>6. CASE Enter \/ Fail \/ Serve \/ Stop
    BY <2>2, <2>6, Zenon DEF Enter, Fail, Serve, Stop
  <2>7. CASE Write
    BY <2>4, <2>7, Zenon DEF Write
  <2>8. CASE Crash
    BY <2>2, <2>4, <2>8, Zenon DEF Crash, Ends
  <2>9. CASE Exit
    <3>1. Ends /\ (writes # <<>> => up = "starting")
      BY <2>1, <2>9, Zenon DEF Exit, Idle
    <3> QED
      BY <2>2, <2>4, <3>1, Zenon DEF Ends
  <2> QED
    BY <2>1, <2>3, <2>5, <2>6, <2>7, <2>8, <2>9, Zenon DEF Next
<1> QED
  BY <1>1, Invariance, PTL DEF Spec, Kept

-----------------------------------------------------------------------------
=============================================================================
