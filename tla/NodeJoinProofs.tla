--------------------------- MODULE NodeJoinProofs ---------------------------
(***************************************************************************)
(* The passwords of nodes, proved for any agents, setups, number of        *)
(* concurrent requests and number of faults: OneOwner and NeverLockedOut.  *)
(*                                                                         *)
(* An agent has one password in its life, Own(a): the one it brings from   *)
(* an older version or the first it draws.  As long as no request reads    *)
(* the file while another replaces it, there is one that replaces it, and  *)
(* it adds its line to what is there (Serial); so a line of the server's   *)
(* file is of some agent's name and has that agent's own password (Sound), *)
(* the file can be read, and the rename finds its temporary file.          *)
(***************************************************************************)
EXTENDS NodeJoin, FiniteSetTheorems, TLAPS

\* The password of an agent, what NodeName may be for it, and the lines of a
\* password file that only agents have added to, in a setup c;
OwnIn(c, a) == <<a, IF a \in c.old THEN 0 ELSE 1>>
NamesIn(c, a) == {<<c.host[a]>>, <<c.host[a], None>>, <<c.host[a], a>>}
SoundIn(c, names) ==
    \A n \in DOMAIN names : \E a \in Agents : n \in NamesIn(c, a) /\ names[n] = OwnIn(c, a)

\* and in the one there is.
Own(a) == OwnIn(setup, a)
NamesOf(a) == NamesIn(setup, a)
Sound(names) == SoundIn(setup, names)

Passwords == {Empty, Cut} \cup {<<a, n>> : a \in Agents, n \in 0..1}
Names ==
    {<<>>} \cup {<<c.host[a]>> : c \in Setups, a \in Agents}
           \cup {<<c.host[a], i>> : c \in Setups, a \in Agents, i \in Agents \cup {None}}
Maps == UNION {[D -> Passwords] : D \in SUBSET Names}

Asking == [pc : {"read", "sign"}, agent : Agents, name : Names, pass : Passwords]
Creating == [pc : {"create"}, agent : Agents, name : Names, pass : Passwords, names : Maps]
Writing == [pc : {"write", "rename", "sign"}, agent : Agents, name : Names, pass : Passwords, names : Maps,
            fd : Inodes]

AgentTypes ==
    /\ setup \in Setups
    /\ at \in [Agents -> 1..8]
    /\ old \in [Agents -> Passwords \cup {None}]
    /\ new \in [Agents -> Passwords \cup {None}]
    /\ id \in [Agents -> Agents \cup {None}]
    /\ draws \in [Agents -> Nat]
    /\ waiting \in [Agents -> Slots \cup {None}]
    /\ sent \in [Agents -> SUBSET Passwords]

ServerTypes ==
    /\ handler \in [Slots -> {Idle} \cup Asking \cup Creating \cup Writing]
    /\ file \in Inodes \cup {None}
    /\ tmp \in Inodes \cup {None}
    /\ inode \in [Inodes -> Maps]
    /\ granted \in [Agents -> Names \cup {None}]
    /\ overlapped \in BOOLEAN

\* The one password of an agent, in its files and in what it has sent.
HasOne(a) ==
    /\ old[a] \in {None, Own(a)} /\ new[a] \in {None, Empty, Own(a)}
    /\ a \in setup.old => new[a] # Empty /\ (old[a] = None \/ at[a] >= 3 => new[a] # None)
    /\ a \notin setup.old => old[a] = None /\ (new[a] = None => draws[a] = 0)
    /\ id[a] \in {None, a}
    /\ sent[a] \subseteq {Empty, Own(a)}
    /\ waiting[a] # None => at[a] \in {5, 6}
OnePassword == \A a \in Agents : HasOne(a)

\* A request, wherever it is, is in the name of its agent and with its password.
Request(s) ==
    /\ handler[s].name \in NamesOf(handler[s].agent)
    /\ handler[s].pass \in sent[handler[s].agent]
    /\ handler[s].pc # "read" => handler[s].pass # Empty
Requests == \A s \in Slots : handler[s] # Idle => Request(s)

Files == file = tmp => file = None

Replaces(s) ==
    /\ handler[s].name \notin DOMAIN Read(file)
    /\ handler[s].names = EnsureUser(Read(file), handler[s].name, handler[s].pass)
    /\ handler[s].pc \in {"write", "rename"} => handler[s].fd = tmp
    /\ handler[s].pc = "write" => inode[tmp] = NoUsers
    /\ handler[s].pc = "rename" => inode[tmp] = handler[s].names

Serial ==
    /\ Sound(Read(file))
    /\ \A s, t \in Slots : Replacing(s) /\ Replacing(t) => s = t
    /\ \A s \in Slots : Replacing(s) => Replaces(s)
    /\ \A s \in Slots : handler[s].pc = "sign" =>
          handler[s].name \in DOMAIN Read(file) /\ Read(file)[handler[s].name] = handler[s].pass
    /\ \A a \in Agents : granted[a] # None => Registered(a) /\ granted[a] \in NamesOf(a)

IInv ==
    /\ AgentTypes /\ ServerTypes
    /\ OnePassword /\ Requests /\ Files
    /\ ~ overlapped => Serial
    /\ NeverLockedOut

-----------------------------------------------------------------------------
(* The operators                                                           *)

\* What an older version has drawn is a password.
LEMMA OldPasswords == \A a \in Agents : OldPassword(a) \in Passwords
BY DEF OldPassword, Passwords

\* The password of an agent is a password, is not empty, and is its own.
LEMMA OwnPassword ==
  ASSUME NEW a \in Agents
  PROVE  /\ Own(a) \in Passwords /\ Own(a) # Empty /\ Own(a) # None
         /\ \A b \in Agents : Own(a) = Own(b) => a = b
<1>1. \A b \in Agents : Own(b)[1] = b /\ Own(b) # <<>>
  BY DEF Own, OwnIn
<1>2. Own(a) = <<a, 0>> \/ Own(a) = <<a, 1>>
  BY DEF Own, OwnIn
<1>3. Own(a) \in Passwords
  BY <1>2 DEF Passwords
<1>4. Own(a) # None
  BY <1>2, JoinAssumption
<1> QED
  BY <1>1, <1>3, <1>4 DEF Empty

\* A sound line is in a name of its agent and with its password.
LEMMA SoundLines ==
  \A m : Sound(m) <=> \A n \in DOMAIN m : \E a \in Agents : n \in NamesOf(a) /\ m[n] = Own(a)
BY Zenon DEF Sound, SoundIn, NamesOf, Own

\* The names of two agents differ if their hosts do.
LEMMA NamesDiffer ==
  ASSUME NEW a \in Agents, NEW b \in Agents, NEW n, n \in NamesOf(a), n \in NamesOf(b)
  PROVE  setup.host[a] = setup.host[b] /\ n # <<>>
<1>1. n[1] = setup.host[a] /\ n # <<>>
  BY DEF NamesOf, NamesIn
<1>2. n[1] = setup.host[b]
  BY DEF NamesOf, NamesIn
<1> QED
  BY <1>1, <1>2

\* Maps are the functions from names to passwords.
LEMMA MapTypes ==
  /\ \A m \in Maps : DOMAIN m \subseteq Names /\ m = [n \in DOMAIN m |-> m[n]]
                     /\ \A n \in DOMAIN m : m[n] \in Passwords
  /\ \A D \in SUBSET Names : \A m \in [D -> Passwords] : m \in Maps
BY DEF Maps

\* EnsureUser adds or replaces a line (passwd.go).
LEMMA EnsureUserAdds ==
  ASSUME NEW m \in Maps, NEW n \in Names, NEW w \in Passwords
  PROVE  /\ EnsureUser(m, n, w) \in Maps
         /\ DOMAIN EnsureUser(m, n, w) = DOMAIN m \cup {n}
         /\ EnsureUser(m, n, w)[n] = w
         /\ \A k \in DOMAIN m : k # n => EnsureUser(m, n, w)[k] = m[k]
<1>1. PICK D : D = DOMAIN m \cup {n}
  BY Zenon
<1>2. D \in SUBSET Names /\ \A k \in DOMAIN m : m[k] \in Passwords
  BY <1>1, MapTypes
<1>3. EnsureUser(m, n, w) \in [D -> Passwords]
  BY <1>1, <1>2 DEF EnsureUser
<1>4. EnsureUser(m, n, w) \in Maps
  BY <1>2, <1>3, MapTypes
<1> QED
  BY <1>1, <1>4 DEF EnsureUser

\* A file without lines and one that was written over are password files too.
LEMMA NoUsersMaps == NoUsers \in Maps /\ Garbled \in Maps
<1>1. {} \in SUBSET Names /\ {<<>>} \in SUBSET Names
  BY DEF Names
<1>2. NoUsers \in [{} -> Passwords] /\ Garbled \in [{<<>>} -> Passwords]
  BY DEF NoUsers, Garbled, Passwords, Empty
<1> QED
  BY <1>1, <1>2, MapTypes, Zenon

\* What a request leaves in a file it writes is a password file, and is what it
\* writes if the file was empty.
LEMMA OverwriteMaps ==
  ASSUME ServerTypes, NEW i \in Inodes, NEW names \in Maps, NEW c \in Overwrite(i, names)
  PROVE  c \in Maps /\ (inode[i] = NoUsers => c = names)
<1>1. PICK m \in Maps : m = inode[i]
  BY DEF ServerTypes
<1>2. ASSUME NEW tail \in Tails(m)
      PROVE  Joined(names, tail) \in Maps
  <2>1. PICK D \in SUBSET DOMAIN m, k \in DOMAIN m : tail = [n \in D |-> IF n = k THEN Cut ELSE m[n]]
    BY DEF Tails
  <2>2. DOMAIN tail = D /\ \A n \in D : tail[n] \in Passwords
    BY <2>1, MapTypes DEF Passwords
  <2>3. PICK E : E = DOMAIN names \union DOMAIN tail
    OBVIOUS
  <2>4. E \in SUBSET Names
    BY <2>1, <2>2, <2>3, MapTypes
  <2>5. \A n \in DOMAIN names : names[n] \in Passwords
    BY MapTypes, Zenon
  <2>6. Joined(names, tail) \in [E -> Passwords]
    BY <2>2, <2>3, <2>5 DEF Joined
  <2> QED
    BY <2>4, <2>6, MapTypes
<1>3. c = names \/ c = Garbled \/ \E tail \in Tails(m) : c = Joined(names, tail)
  BY <1>1, Zenon DEF Overwrite
<1>4. inode[i] = NoUsers => c = names
  BY DEF Overwrite
<1> QED
  BY <1>2, <1>3, <1>4, NoUsersMaps

\* What the server reads is a password file.
LEMMA ReadMaps ==
  ASSUME ServerTypes
  PROVE  Read(file) \in Maps
BY NoUsersMaps DEF ServerTypes, Read

\* A line that an agent's request adds is sound.
LEMMA EnsureUserSound ==
  ASSUME NEW m \in Maps, Sound(m), NEW a \in Agents, NEW n \in Names, n \in NamesOf(a)
  PROVE  Sound(EnsureUser(m, n, Own(a)))
<1>1. PICK e : e = EnsureUser(m, n, Own(a))
  OBVIOUS
<1>2. DOMAIN e = DOMAIN m \cup {n} /\ e[n] = Own(a) /\ \A k \in DOMAIN m : k # n => e[k] = m[k]
  <2>1. PICK w : w = Own(a)
    BY Zenon
  <2>2. w \in Passwords
    BY <2>1, OwnPassword, Zenon
  <2>3. /\ DOMAIN EnsureUser(m, n, w) = DOMAIN m \cup {n}
        /\ EnsureUser(m, n, w)[n] = w
        /\ \A k \in DOMAIN m : k # n => EnsureUser(m, n, w)[k] = m[k]
    BY <2>2, EnsureUserAdds, Zenon
  <2> QED
    BY <1>1, <2>1, <2>3, Zenon
<1>3. Sound(e)
  <2>1. ASSUME NEW k \in DOMAIN e
        PROVE  \E b \in Agents : k \in NamesOf(b) /\ e[k] = Own(b)
    <3>1. CASE k = n
      BY <1>2, <3>1, Zenon
    <3>2. CASE k # n
      <4>1. k \in DOMAIN m /\ e[k] = m[k]
        BY <1>2, <2>1, <3>2, Zenon
      <4> QED
        BY <2>1, <4>1, SoundLines, Zenon
    <3> QED
      BY <3>1, <3>2, Zenon
  <2> QED
    BY <2>1, SoundLines, Zenon
<1> QED
  BY <1>1, <1>3

\* Where an agent is.
LEMMA OpAt ==
  ASSUME NEW a \in Agents, at[a] \in 1..8
  PROVE  /\ Op(a) = "hostFiles" <=> at[a] = 1
         /\ Op(a) = "upgradeWrite" <=> at[a] = 2
         /\ Op(a) = "upgradeRemove" <=> at[a] = 3
         /\ Op(a) = "id" <=> at[a] = 4
         /\ Op(a) = "serving-kubelet" <=> at[a] = 5
         /\ Op(a) = "client-kubelet" <=> at[a] = 6
         /\ Op(a) = "otherFiles" <=> at[a] = 7
<1>1. Len(Program) = 7
  BY DEF Program
<1>2. at[a] \in 1..7 => Op(a) = Program[at[a]]
  BY <1>1 DEF Op
<1>3. at[a] = 8 => Op(a) = "done"
  BY <1>1 DEF Op
<1>4. /\ Program[1] = "hostFiles" /\ Program[2] = "upgradeWrite" /\ Program[3] = "upgradeRemove"
      /\ Program[4] = "id" /\ Program[5] = "serving-kubelet" /\ Program[6] = "client-kubelet"
      /\ Program[7] = "otherFiles"
  BY DEF Program
<1>5. at[a] = 1 \/ at[a] = 2 \/ at[a] = 3 \/ at[a] = 4 \/ at[a] = 5 \/ at[a] = 6 \/ at[a] = 7 \/ at[a] = 8
  OBVIOUS
<1> QED
  BY <1>2, <1>3, <1>4, <1>5

\* There is an inode for each temporary file: the requests that have one open and
\* the file itself do not take all of them.
LEMMA FreshInode ==
  ASSUME ServerTypes, NEW s \in Slots, handler[s].pc = "create", tmp = None, NEW used,
         used = {file, tmp} \union {handler[t].fd : t \in {u \in Slots : handler[u].pc \in {"write", "rename"}}}
  PROVE  (CHOOSE j \in Inodes : j \notin used) \in Inodes \ used
<1> DEFINE W == {u \in Slots : handler[u].pc \in {"write", "rename"}}
           F == {handler[t].fd : t \in W}
           f == [t \in W |-> handler[t].fd]
<1>1. Cardinality(Slots) \in Nat /\ IsFiniteSet(Slots \ {s}) /\ Cardinality(Slots \ {s}) = Cardinality(Slots) - 1
  BY JoinAssumption, FS_CardinalityType, FS_RemoveElement
<1>2. W \in SUBSET (Slots \ {s})
  OBVIOUS
<1>3. IsFiniteSet(W) /\ Cardinality(W) <= Cardinality(Slots) - 1 /\ Cardinality(W) \in Nat
  BY <1>1, <1>2, FS_Subset, FS_CardinalityType
<1>4. f \in Surjection(W, F)
  BY DEF Surjection
<1>5. IsFiniteSet(F) /\ Cardinality(F) <= Cardinality(W) /\ Cardinality(F) \in Nat
  BY <1>3, <1>4, FS_Surjection, FS_CardinalityType
<1>6. IsFiniteSet(F \cup {file}) /\ Cardinality(F \cup {file}) <= Cardinality(F) + 1
      /\ Cardinality(F \cup {file}) \in Nat
  <2>1. IsFiniteSet(F \cup {file}) /\ (Cardinality(F \cup {file}) = Cardinality(F)
                                       \/ Cardinality(F \cup {file}) = Cardinality(F) + 1)
    BY <1>5, FS_AddElement, Zenon
  <2> QED
    BY <1>5, <2>1
<1>7. Cardinality(Inodes) = Cardinality(Slots) + 2
  <2>1. PICK n : n = Cardinality(Slots) + 1
    OBVIOUS
  <2>2. Cardinality(0..n) = n + 1
    BY <1>1, <2>1, FS_Interval
  <2> QED
    BY <1>1, <2>1, <2>2 DEF Inodes
<1>8. \E j \in Inodes : j \notin used
  <2>1. SUFFICES ASSUME \A j \in Inodes : j \in used PROVE FALSE
    OBVIOUS
  <2>2. Inodes \in SUBSET (F \cup {file})
    BY <2>1, JoinAssumption
  <2>3. Cardinality(Inodes) <= Cardinality(F \cup {file})
    BY <1>6, <2>2, FS_Subset
  <2> QED
    BY <1>1, <1>3, <1>5, <1>6, <1>7, <2>3
<1> QED
  BY <1>8

-----------------------------------------------------------------------------
(* The steps of an agent                                                   *)

\* A step of an agent is about its own files; the server has its requests.
LEMMA AgentIInv ==
  ASSUME IInv, AgentTypes', NEW a \in Agents, HasOne(a)',
         UNCHANGED <<setup, sent, handler, file, tmp, inode, granted, refused, overlapped>>,
         \A b \in Agents : b # a => /\ at'[b] = at[b] /\ old'[b] = old[b] /\ new'[b] = new[b] /\ id'[b] = id[b]
                                    /\ draws'[b] = draws[b] /\ waiting'[b] = waiting[b]
  PROVE  IInv'
<1>1. OnePassword'
  <2>1. ASSUME NEW b \in Agents, b # a
        PROVE  HasOne(b)'
    BY <2>1 DEF IInv, OnePassword, HasOne, Own
  <2> QED
    BY <2>1 DEF OnePassword
<1>2. ServerTypes' /\ Files'
  BY DEF IInv, ServerTypes, Files
<1>3. Requests'
  BY DEF IInv, Requests, Request, NamesOf
<1>4. (~ overlapped => Serial)'
  BY DEF IInv, Serial, Replaces, Replacing, Registered, Read, NamesOf, Sound
<1>5. NeverLockedOut'
  BY DEF IInv, NeverLockedOut
<1> QED
  BY <1>1, <1>2, <1>3, <1>4, <1>5 DEF IInv

\* The steps of get that only fetch, and those that begin again.
LEMMA FetchIInv ==
  ASSUME IInv, NEW a \in Agents, Fetch(a) \/ FetchFails(a)
  PROVE  IInv'
<1>0. AgentTypes /\ HasOne(a)
  BY DEF IInv, OnePassword
<1>1. at[a] \in 1..8 /\ at[a] \in {1, 7}
  BY <1>0, OpAt DEF AgentTypes, Fetch, FetchFails
<1>2. PICK k \in {1, at[a] + 1} : at' = [at EXCEPT ![a] = k]
  BY DEF Fetch, FetchFails, GoOn
<1>3. UNCHANGED <<setup, old, new, id, draws, waiting, sent, handler, file, tmp, inode, granted, refused, overlapped>>
  BY DEF Fetch, FetchFails, fileVars
<1>4. AgentTypes' /\ at'[a] = k /\ \A b \in Agents : b # a => at'[b] = at[b]
  BY <1>0, <1>1, <1>2, <1>3 DEF AgentTypes
<1>5. HasOne(a)'
  BY <1>0, <1>1, <1>2, <1>3, <1>4 DEF HasOne, Own
<1> QED
  BY <1>3, <1>4, <1>5, AgentIInv

\* The password file is moved to its new place before the old one is removed.
LEMMA UpgradeIInv ==
  ASSUME IInv, NEW a \in Agents, Upgrade(a)
  PROVE  IInv'
<1>0. AgentTypes /\ HasOne(a)
  BY DEF IInv, OnePassword
<1>1. at[a] \in 1..8 /\ at' = [at EXCEPT ![a] = @ + 1]
      /\ UNCHANGED <<setup, id, draws, waiting, sent, handler, file, tmp, inode, granted, refused, overlapped>>
  BY <1>0 DEF AgentTypes, Upgrade, GoOn, fileVars
<1>2. CASE Op(a) = "upgradeWrite" /\ new' = (IF old[a] = None THEN new ELSE [new EXCEPT ![a] = old[a]])
           /\ UNCHANGED old
  <2>1. at[a] = 2
    BY <1>1, <1>2, OpAt
  <2>2. /\ new' \in [Agents -> Passwords \cup {None}] /\ \A b \in Agents : b # a => new'[b] = new[b]
        /\ new'[a] = IF old[a] = None THEN new[a] ELSE old[a]
    BY <1>0, <1>2 DEF AgentTypes
  <2>3. AgentTypes' /\ at'[a] = 3 /\ \A b \in Agents : b # a => at'[b] = at[b]
    BY <1>0, <1>1, <1>2, <2>1, <2>2 DEF AgentTypes
  <2>4. HasOne(a)'
    BY <1>0, <1>1, <1>2, <2>1, <2>2, <2>3, OwnPassword DEF HasOne, Own
  <2> QED
    BY <1>1, <1>2, <2>2, <2>3, <2>4, AgentIInv
<1>3. CASE Op(a) = "upgradeRemove" /\ old' = [old EXCEPT ![a] = None] /\ UNCHANGED new
  <2>1. at[a] = 3
    BY <1>1, <1>3, OpAt
  <2>2. /\ old' \in [Agents -> Passwords \cup {None}] /\ old'[a] = None
        /\ \A b \in Agents : b # a => old'[b] = old[b]
    BY <1>0, <1>3 DEF AgentTypes
  <2>3. AgentTypes' /\ at'[a] = 4 /\ \A b \in Agents : b # a => at'[b] = at[b]
    BY <1>0, <1>1, <1>3, <2>1, <2>2 DEF AgentTypes
  <2>4. HasOne(a)'
    BY <1>0, <1>1, <1>3, <2>1, <2>2, <2>3 DEF HasOne, Own
  <2> QED
    BY <1>1, <1>3, <2>2, <2>3, <2>4, AgentIInv
<1> QED
  BY <1>2, <1>3 DEF Upgrade

\* The node id is drawn once (ensureNodeID).
LEMMA EnsureNodeIDIInv ==
  ASSUME IInv, NEW a \in Agents, EnsureNodeID(a)
  PROVE  IInv'
<1>0. AgentTypes /\ HasOne(a)
  BY DEF IInv, OnePassword
<1>1. at[a] = 4
  BY <1>0, OpAt DEF AgentTypes, EnsureNodeID
<1>2. at' = [at EXCEPT ![a] = @ + 1]
      /\ UNCHANGED <<setup, old, new, draws, waiting, sent, handler, file, tmp, inode, granted, refused, overlapped>>
  BY DEF EnsureNodeID, GoOn, fileVars
<1>3. id' \in [Agents -> Agents \cup {None}] /\ id'[a] \in {id[a], a} /\ \A b \in Agents : b # a => id'[b] = id[b]
  BY <1>0 DEF AgentTypes, EnsureNodeID
<1>4. at' \in [Agents -> 1..8] /\ at'[a] = 5 /\ \A b \in Agents : b # a => at'[b] = at[b]
  BY <1>0, <1>1, <1>2 DEF AgentTypes
<1>5. AgentTypes'
  BY <1>0, <1>2, <1>3, <1>4, Zenon DEF AgentTypes
<1>6. HasOne(a)'
  BY <1>0, <1>1, <1>2, <1>3, <1>4 DEF HasOne, Own
<1> QED
  BY <1>2, <1>3, <1>4, <1>5, <1>6, AgentIInv

\* An agent that draws a password has none from an older version, and has drawn
\* none before.
LEMMA EnsureNodePasswordIInv ==
  ASSUME IInv, NEW a \in Agents, EnsureNodePassword(a)
  PROVE  IInv'
<1>0. AgentTypes /\ HasOne(a)
  BY DEF IInv, OnePassword
<1>1. at[a] \in {5, 6} /\ new[a] = None
  BY <1>0, OpAt DEF AgentTypes, EnsureNodePassword
<1>2. /\ draws' = [draws EXCEPT ![a] = @ + 1] /\ new' = [new EXCEPT ![a] = <<a, draws[a] + 1>>]
      /\ UNCHANGED <<setup, at, old, id, waiting, sent, handler, file, tmp, inode, granted, refused, overlapped>>
  BY DEF EnsureNodePassword, fileVars
<1>3. a \notin setup.old /\ draws[a] = 0
  BY <1>0, <1>1 DEF HasOne
<1>4. <<a, draws[a] + 1>> = Own(a) /\ Own(a) \in Passwords
  BY <1>3, OwnPassword DEF Own, OwnIn
<1>5. AgentTypes' /\ new'[a] = Own(a) /\ \A b \in Agents : b # a => new'[b] = new[b] /\ draws'[b] = draws[b]
  BY <1>0, <1>2, <1>4 DEF AgentTypes
<1>6. HasOne(a)'
  BY <1>0, <1>2, <1>3, <1>5, OwnPassword DEF HasOne, Own
<1> QED
  BY <1>2, <1>5, <1>6, AgentIInv

\* An agent that gives up on a request, or ends, begins again with the files it
\* has; the password may have been cut short if it was being written.
LEMMA AgentRestartsIInv ==
  ASSUME IInv, NEW a \in Agents, Timeout(a) \/ AgentCrash(a)
  PROVE  IInv'
<1>0. AgentTypes /\ HasOne(a)
  BY DEF IInv, OnePassword
<1>1. /\ at' = [at EXCEPT ![a] = 1] /\ waiting' = [waiting EXCEPT ![a] = None]
      /\ UNCHANGED <<setup, old, id, draws, sent, handler, file, tmp, inode, granted, refused, overlapped>>
  BY DEF Timeout, AgentCrash, fileVars
<1>2. \/ new' = new
      \/ at[a] = 5 /\ new[a] = None /\ new' = [new EXCEPT ![a] = Empty]
  BY <1>0, OpAt DEF Timeout, AgentCrash, AgentTypes
<1>3. /\ new' \in [Agents -> Passwords \cup {None}] /\ \A b \in Agents : b # a => new'[b] = new[b]
      /\ new'[a] = new[a] \/ (at[a] = 5 /\ new[a] = None /\ new'[a] = Empty)
  BY <1>0, <1>2 DEF AgentTypes, Passwords
<1>4. /\ at' \in [Agents -> 1..8] /\ at'[a] = 1 /\ \A b \in Agents : b # a => at'[b] = at[b]
      /\ waiting' \in [Agents -> Slots \cup {None}] /\ waiting'[a] = None
      /\ \A b \in Agents : b # a => waiting'[b] = waiting[b]
  BY <1>0, <1>1 DEF AgentTypes
<1>5. AgentTypes'
  BY <1>0, <1>1, <1>3, <1>4, Zenon DEF AgentTypes
<1>6. HasOne(a)'
  BY <1>0, <1>1, <1>3, <1>4, JoinAssumption DEF HasOne, Own
<1> QED
  BY <1>1, <1>3, <1>4, <1>5, <1>6, AgentIInv

\* A request is sent in the name of the agent and with its password.
LEMMA AskIInv ==
  ASSUME IInv, NEW a \in Agents, NEW s \in Slots, Ask(a, s)
  PROVE  IInv'
<1>0. AgentTypes /\ ServerTypes /\ OnePassword /\ Requests /\ HasOne(a)
  BY DEF IInv, OnePassword
<1>1. at[a] \in {5, 6} /\ new[a] \in {Empty, Own(a)} /\ new[a] \in Passwords
  BY <1>0, OpAt, OwnPassword DEF AgentTypes, Ask, HasOne, Passwords
<1>2. PICK h : h = [pc |-> "read", agent |-> a, name |-> NodeName(a), pass |-> new[a]]
  BY Zenon
<1>3. /\ handler' = [handler EXCEPT ![s] = h] /\ waiting' = [waiting EXCEPT ![a] = s]
      /\ sent' = [sent EXCEPT ![a] = @ \union {new[a]}] /\ handler[s] = Idle
      /\ UNCHANGED <<setup, at, old, new, id, draws, file, tmp, inode, granted, refused, overlapped>>
  BY <1>2 DEF Ask, fileVars
<1>4. NodeName(a) \in NamesOf(a) /\ NodeName(a) \in Names
  BY <1>0 DEF NodeName, NamesOf, Names, HasOne, AgentTypes, NamesIn
<1>5. AgentTypes' /\ sent'[a] = sent[a] \union {new[a]} /\ waiting'[a] = s
      /\ \A b \in Agents : b # a => sent'[b] = sent[b] /\ waiting'[b] = waiting[b]
  BY <1>0, <1>1, <1>3 DEF AgentTypes
<1>6. h \in Asking /\ h.pc = "read" /\ h.agent = a /\ h.name = NodeName(a) /\ h.pass = new[a]
  BY <1>1, <1>2, <1>4 DEF Asking
<1>7. ServerTypes' /\ handler'[s] = h /\ \A t \in Slots : t # s => handler'[t] = handler[t]
  BY <1>0, <1>3, <1>6 DEF ServerTypes
<1>8. OnePassword'
  <2>1. ASSUME NEW b \in Agents
        PROVE  HasOne(b)'
    BY <1>0, <1>1, <1>3, <1>5 DEF OnePassword, HasOne, Own
  <2> QED
    BY <2>1 DEF OnePassword
<1>9. Requests'
  <2>1. Request(s)'
    BY <1>3, <1>4, <1>5, <1>6, <1>7, Zenon DEF Request, NamesOf
  <2>2. ASSUME NEW t \in Slots, handler'[t] # Idle, t # s
        PROVE  Request(t)'
    <3>1. handler[t] # Idle /\ handler[t].agent \in Agents /\ handler'[t] = handler[t] /\ Request(t)
      BY <1>0, <1>7, <2>2 DEF ServerTypes, Asking, Creating, Writing, Requests
    <3>2. sent[handler[t].agent] \subseteq sent'[handler[t].agent]
      BY <1>5, <3>1
    <3> QED
      BY <1>3, <3>1, <3>2, Zenon DEF Request, NamesOf
  <2> QED
    BY <2>1, <2>2 DEF Requests
<1>10. (~ overlapped => Serial)'
  <2>1. ASSUME NEW t \in Slots
        PROVE  /\ Replacing(t)' => Replacing(t) /\ handler'[t] = handler[t]
               /\ handler'[t].pc = "sign" => handler'[t] = handler[t]
    BY <1>6, <1>7 DEF Replacing
  <2>2. SUFFICES ASSUME Serial PROVE Serial'
    BY <1>3 DEF IInv
  <2>3. \A t \in Slots : Replacing(t)' => Replaces(t)'
    BY <1>3, <2>1, <2>2, Zenon DEF Serial, Replaces, Read
  <2>4. \A b \in Agents : granted[b] # None => Registered(b)' /\ (granted[b] \in NamesOf(b))'
    BY <1>3, <1>5, <2>2, Zenon DEF Serial, Registered, Read, NamesOf
  <2>5. Sound(Read(file))'
    BY <1>3, <2>2, Zenon DEF Serial, Sound, Read
  <2> QED
    BY <1>3, <2>1, <2>2, <2>3, <2>4, <2>5, Zenon DEF Serial, Read
<1>11. Files' /\ NeverLockedOut'
  BY <1>3, Zenon DEF IInv, Files, NeverLockedOut
<1> QED
  BY <1>5, <1>7, <1>8, <1>9, <1>10, <1>11 DEF IInv

-----------------------------------------------------------------------------
(* The steps of a request                                                  *)

\* What a request has when it is where it is.
LEMMA HandlerAt ==
  ASSUME ServerTypes, NEW s \in Slots
  PROVE  /\ handler[s].pc = "idle" <=> handler[s] = Idle
         /\ handler[s].pc = "read" => handler[s] \in Asking
         /\ handler[s].pc = "create" => handler[s] \in Creating
         /\ handler[s].pc \in {"write", "rename"} => handler[s] \in Writing
         /\ handler[s] # Idle => /\ handler[s].agent \in Agents /\ handler[s].name \in Names
                                 /\ handler[s].pass \in Passwords
BY DEF ServerTypes, Asking, Creating, Writing, Idle

\* A step of a request leaves the other requests and what was sent alone.
LEMMA ServerIInv ==
  ASSUME IInv, NEW s \in Slots, UNCHANGED <<setup, sent>>, AgentTypes', OnePassword', ServerTypes',
         \A t \in Slots : t # s => handler'[t] = handler[t],
         handler'[s] # Idle => Request(s)', Files', (~ overlapped => Serial)', NeverLockedOut'
  PROVE  IInv'
<1>1. ASSUME NEW t \in Slots, t # s, handler'[t] # Idle
      PROVE  Request(t)'
  BY <1>1 DEF IInv, Requests, Request, NamesOf
<1>2. Requests'
  BY <1>1 DEF Requests
<1> QED
  BY <1>2 DEF IInv

\* An answer ends the request; the agent goes on or begins again if it waits.
LEMMA Answered ==
  ASSUME IInv, NEW s \in Slots, handler[s] # Idle, NEW ok \in BOOLEAN, Answer(s, ok)
  PROVE  /\ AgentTypes' /\ OnePassword' /\ UNCHANGED <<setup, sent>>
         /\ handler' \in [Slots -> {Idle} \cup Asking \cup Creating \cup Writing]
         /\ handler'[s] = Idle /\ \A t \in Slots : t # s => handler'[t] = handler[t]
<1>0. AgentTypes /\ ServerTypes /\ OnePassword
  BY DEF IInv
<1>1. PICK a \in Agents : a = handler[s].agent
  BY <1>0, HandlerAt
<1>2. /\ handler' = [handler EXCEPT ![s] = Idle]
      /\ UNCHANGED <<setup, old, new, id, draws, sent>>
      /\ \/ waiting[a] # s /\ UNCHANGED <<at, waiting>>
         \/ /\ waiting[a] = s /\ waiting' = [waiting EXCEPT ![a] = None]
            /\ at' = [at EXCEPT ![a] = IF ok THEN @ + 1 ELSE 1]
  BY <1>1 DEF Answer
<1>3. /\ handler' \in [Slots -> {Idle} \cup Asking \cup Creating \cup Writing]
      /\ handler'[s] = Idle /\ \A t \in Slots : t # s => handler'[t] = handler[t]
  BY <1>0, <1>2 DEF ServerTypes
<1>4. CASE UNCHANGED <<at, waiting>>
  <2>1. AgentTypes' /\ OnePassword'
    BY <1>0, <1>2, <1>4 DEF AgentTypes, OnePassword, HasOne, Own
  <2> QED
    BY <1>2, <1>3, <2>1
<1>5. CASE waiting[a] = s /\ waiting' = [waiting EXCEPT ![a] = None]
           /\ at' = [at EXCEPT ![a] = IF ok THEN @ + 1 ELSE 1]
  <2>1. at[a] \in {5, 6} /\ HasOne(a)
    BY <1>0, <1>5, JoinAssumption DEF OnePassword, HasOne
  <2>2. /\ at' \in [Agents -> 1..8] /\ at'[a] \in {1, 6, 7} /\ \A b \in Agents : b # a => at'[b] = at[b]
        /\ waiting' \in [Agents -> Slots \cup {None}] /\ waiting'[a] = None
        /\ \A b \in Agents : b # a => waiting'[b] = waiting[b]
    BY <1>0, <1>5, <2>1 DEF AgentTypes
  <2>3. AgentTypes'
    BY <1>0, <1>2, <2>2, Zenon DEF AgentTypes
  <2>4. ASSUME NEW b \in Agents
        PROVE  HasOne(b)'
    <3>1. HasOne(b) /\ Own(b)' = Own(b)
      BY <1>0, <1>2 DEF OnePassword, Own
    <3>2. CASE b # a
      BY <1>2, <2>2, <3>1, <3>2, Zenon DEF HasOne
    <3>3. CASE b = a
      <4>1. at[a] >= 3 /\ waiting'[a] = None
        BY <2>1, <2>2
      <4> QED
        BY <1>2, <3>1, <3>3, <4>1, Zenon DEF HasOne
    <3> QED
      BY <3>2, <3>3
  <2> QED
    BY <1>2, <1>3, <2>3, <2>4 DEF OnePassword
<1> QED
  BY <1>2, <1>4, <1>5

\* A request that ends without a certificate takes nothing away.
LEMMA EndsSerial ==
  ASSUME Serial, NEW s \in Slots, handler'[s] = Idle, \A t \in Slots : t # s => handler'[t] = handler[t],
         UNCHANGED <<setup, sent, file, tmp, inode, granted>>
  PROVE  Serial'
<1>1. \A t \in Slots : /\ Replacing(t)' => Replacing(t) /\ t # s /\ handler'[t] = handler[t]
                       /\ handler'[t].pc = "sign" => t # s /\ handler'[t] = handler[t]
  BY DEF Replacing, Idle
<1>2. \A t \in Slots : Replacing(t)' => Replaces(t)'
  BY <1>1 DEF Serial, Replaces, Read
<1>3. \A b \in Agents : granted[b] # None => Registered(b)' /\ (granted[b] \in NamesOf(b))'
  BY Zenon DEF Serial, Registered, Read, NamesOf
<1>4. Sound(Read(file))'
  BY Zenon DEF Serial, Sound, Read
<1> QED
  BY <1>1, <1>2, <1>3, <1>4, Zenon DEF Serial, Read

\* A request is forbidden when the line of its name is another agent's, and that
\* has the same host name.
LEMMA RefusedRightly ==
  ASSUME IInv, Serial, NEW s \in Slots, handler[s] # Idle, handler[s].pass # Empty,
         \/ Read(file) = Garbled
         \/ handler[s].name \in DOMAIN Read(file) /\ Read(file)[handler[s].name] # handler[s].pass
  PROVE  \E b \in Agents \ {handler[s].agent} : setup.host[b] = setup.host[handler[s].agent]
<1>1. PICK a \in Agents : a = handler[s].agent
  BY HandlerAt DEF IInv
<1>2. handler[s].name \in NamesOf(a) /\ handler[s].pass = Own(a)
  BY <1>1, Zenon DEF IInv, Requests, Request, OnePassword, HasOne
<1>3. Sound(Read(file))
  BY Zenon DEF Serial
<1>4. Read(file) # Garbled
  <2>1. SUFFICES ASSUME Sound(Garbled) PROVE FALSE
    BY <1>3, Zenon
  <2>2. PICK b \in Agents : <<>> \in NamesOf(b)
    BY <2>1, SoundLines DEF Garbled
  <2> QED
    BY <2>2, NamesDiffer
<1>5. PICK b \in Agents : handler[s].name \in NamesOf(b) /\ Read(file)[handler[s].name] = Own(b)
  BY <1>3, <1>4, SoundLines, Zenon
<1>6. b # a
  BY <1>2, <1>4, <1>5
<1>7. setup.host[a] = setup.host[b]
  BY <1>2, <1>5, NamesDiffer
<1> QED
  BY <1>1, <1>6, <1>7

\* A request that reads the file is answered, goes on to sign or to add its line.
LEMMA ReadAndCheckIInv ==
  ASSUME IInv, NEW s \in Slots, ReadAndCheck(s)
  PROVE  IInv'
<1>0. AgentTypes /\ ServerTypes /\ OnePassword /\ Requests /\ Files /\ NeverLockedOut
  BY DEF IInv
<1>1. /\ handler[s].pc = "read" /\ handler[s] # Idle /\ handler[s] \in Asking
      /\ overlapped' = (overlapped \/ \E t \in Slots : Replacing(t))
      /\ UNCHANGED <<file, tmp, inode, granted>>
  BY <1>0, HandlerAt DEF ReadAndCheck, fileVars
<1>2. Files' /\ overlapped' \in BOOLEAN /\ (~ overlapped' => ~ overlapped /\ Serial)
  BY <1>0, <1>1 DEF Files, IInv, ServerTypes
<1>3. ASSUME UNCHANGED setup, Serial
      PROVE  Sound(Read(file))'
  BY <1>1, <1>3, Zenon DEF Serial, Sound, Read
<1>4. PICK h, names : h = handler[s] /\ names = Read(file)
  OBVIOUS
<1>5. ASSUME Answer(s, FALSE), \/ UNCHANGED refused
                               \/ /\ h.pass # Empty
                                  /\ names = Garbled \/ (h.name \in DOMAIN names /\ names[h.name] # h.pass)
                                  /\ refused' = refused \union {h.agent}
      PROVE  IInv'
  <2>1. /\ AgentTypes' /\ OnePassword' /\ UNCHANGED <<setup, sent>>
        /\ handler' \in [Slots -> {Idle} \cup Asking \cup Creating \cup Writing]
        /\ handler'[s] = Idle /\ \A t \in Slots : t # s => handler'[t] = handler[t]
    BY <1>1, <1>5, Answered, Zenon
  <2>2. ServerTypes'
    BY <1>0, <1>1, <1>2, <2>1 DEF ServerTypes
  <2>3. (~ overlapped => Serial)'
    BY <1>1, <1>2, <2>1, EndsSerial, Zenon
  <2>4. NeverLockedOut'
    <3>1. CASE UNCHANGED refused
      BY <1>0, <1>2, <2>1, <3>1 DEF NeverLockedOut
    <3>2. CASE /\ h.pass # Empty
               /\ names = Garbled \/ (h.name \in DOMAIN names /\ names[h.name] # h.pass)
               /\ refused' = refused \union {h.agent}
      <4>1. ~ overlapped' => \E b \in Agents \ {h.agent} : setup.host[b] = setup.host[h.agent]
        BY <1>1, <1>2, <1>4, <3>2, RefusedRightly
      <4>2. ~ overlapped' => ~ overlapped
        BY <1>2
      <4> QED
        BY <1>0, <2>1, <3>2, <4>1, <4>2 DEF NeverLockedOut
    <3> QED
      BY <1>5, <3>1, <3>2
  <2> QED
    BY <1>2, <2>1, <2>2, <2>3, <2>4, ServerIInv
<1>6. ASSUME h.pass # Empty, Check(names, h.name, h.pass), Goto(s, "sign"), UNCHANGED refused
      PROVE  IInv'
  <2>1. PICK g : g = [h EXCEPT !.pc = "sign"]
    BY Zenon
  <2>2. g \in Asking /\ g.pc = "sign" /\ g.agent = h.agent /\ g.name = h.name /\ g.pass = h.pass
    BY <1>1, <1>4, <2>1 DEF Asking
  <2>3. handler' = [handler EXCEPT ![s] = g] /\ UNCHANGED agentVars
    BY <1>4, <1>6, <2>1 DEF Goto
  <2>4. handler'[s] = g /\ \A t \in Slots : t # s => handler'[t] = handler[t]
    BY <1>0, <2>3 DEF ServerTypes
  <2>5. AgentTypes' /\ OnePassword'
    BY <1>0, <2>3, Zenon DEF AgentTypes, OnePassword, HasOne, Own, agentVars
  <2>6. ServerTypes'
    BY <1>0, <1>1, <1>2, <2>2, <2>3, Zenon DEF ServerTypes
  <2>7. Request(s)'
    BY <1>0, <1>1, <1>4, <1>6, <2>2, <2>3, <2>4, Zenon DEF Requests, Request, NamesOf, agentVars
  <2>8. (~ overlapped => Serial)'
    <3>1. SUFFICES ASSUME Serial PROVE Serial'
      BY <1>2
    <3>2. \A t \in Slots : /\ Replacing(t)' => Replacing(t) /\ t # s /\ handler'[t] = handler[t]
                           /\ handler'[t].pc = "sign" => t = s \/ handler'[t] = handler[t]
      BY <2>2, <2>4 DEF Replacing
    <3>3. \A t \in Slots : Replacing(t)' => Replaces(t)'
      BY <1>1, <3>1, <3>2, Zenon DEF Serial, Replaces, Read
    <3>4. \A b \in Agents : granted[b] # None => Registered(b)' /\ (granted[b] \in NamesOf(b))'
      BY <1>1, <2>3, <3>1, Zenon DEF Serial, Registered, Read, NamesOf, agentVars
    <3>5. g.name \in DOMAIN Read(file) /\ Read(file)[g.name] = g.pass
      BY <1>4, <1>6, <2>2 DEF Check
    <3>6. Sound(Read(file))'
      BY <1>3, <2>3, <3>1, Zenon DEF agentVars
    <3> QED
      BY <1>1, <2>4, <3>1, <3>2, <3>3, <3>4, <3>5, <3>6, Zenon DEF Serial, Read
  <2>9. NeverLockedOut' /\ UNCHANGED <<setup, sent>>
    BY <1>0, <1>2, <1>6, <2>3 DEF NeverLockedOut, agentVars
  <2> QED
    BY <1>2, <2>4, <2>5, <2>6, <2>7, <2>8, <2>9, ServerIInv
<1>7. ASSUME h.pass # Empty, h.name \notin DOMAIN names, UNCHANGED <<agentVars, refused>>,
             handler' = [handler EXCEPT ![s] =
                   [pc |-> "create", agent |-> h.agent, name |-> h.name, pass |-> h.pass,
                    names |-> EnsureUser(names, h.name, h.pass)]]
      PROVE  IInv'
  <2>1. PICK g : g = [pc |-> "create", agent |-> h.agent, name |-> h.name, pass |-> h.pass,
                      names |-> EnsureUser(names, h.name, h.pass)]
    BY Zenon
  <2>2. names \in Maps /\ h.agent \in Agents /\ h.name \in Names /\ h.pass \in Passwords
        /\ h.name \in NamesOf(h.agent) /\ h.pass \in sent[h.agent] /\ h.pass = Own(h.agent)
    BY <1>0, <1>1, <1>4, <1>7, ReadMaps, HandlerAt DEF Requests, Request, OnePassword, HasOne
  <2>3. EnsureUser(names, h.name, h.pass) \in Maps
    BY <2>2, EnsureUserAdds, Zenon
  <2>4. g \in Creating /\ g.pc = "create" /\ g.agent = h.agent /\ g.name = h.name /\ g.pass = h.pass
        /\ g.names = EnsureUser(names, h.name, h.pass)
    BY <2>1, <2>2, <2>3, Zenon DEF Creating
  <2>5. handler' = [handler EXCEPT ![s] = g] /\ handler'[s] = g /\ \A t \in Slots : t # s => handler'[t] = handler[t]
    BY <1>0, <1>7, <2>1, Zenon DEF ServerTypes
  <2>6. AgentTypes' /\ OnePassword'
    BY <1>0, <1>7, Zenon DEF AgentTypes, OnePassword, HasOne, Own, agentVars
  <2>7. ServerTypes'
    BY <1>0, <1>1, <1>2, <2>4, <2>5, Zenon DEF ServerTypes
  <2>8. Request(s)'
    BY <1>7, <2>2, <2>4, <2>5, Zenon DEF Request, NamesOf, agentVars
  <2>9. (~ overlapped => Serial)'
    <3>1. SUFFICES ASSUME Serial, \A t \in Slots : ~ Replacing(t) PROVE Serial'
      BY <1>1, <1>2, Zenon
    <3>2. \A t \in Slots : /\ Replacing(t)' => t = s
                           /\ handler'[t].pc = "sign" => t # s /\ handler'[t] = handler[t]
      BY <2>4, <2>5, <3>1 DEF Replacing
    <3>3. Replaces(s)'
      BY <1>1, <1>4, <1>7, <2>4, <2>5 DEF Replaces, Read, EnsureUser
    <3>4. \A b \in Agents : granted[b] # None => Registered(b)' /\ (granted[b] \in NamesOf(b))'
      BY <1>1, <1>7, <3>1, Zenon DEF Serial, Registered, Read, NamesOf, agentVars
    <3>5. Sound(Read(file))'
      BY <1>3, <1>7, <3>1, Zenon DEF agentVars
    <3> QED
      BY <1>1, <3>1, <3>2, <3>3, <3>4, <3>5, Zenon DEF Serial, Read
  <2>10. NeverLockedOut' /\ UNCHANGED <<setup, sent>>
    BY <1>0, <1>2, <1>7, Zenon DEF NeverLockedOut, agentVars
  <2> QED
    BY <1>2, <2>5, <2>6, <2>7, <2>8, <2>9, <2>10, ServerIInv
<1> QED
  BY <1>4, <1>5, <1>6, <1>7, Zenon DEF ReadAndCheck, Check

\* The temporary file is made or emptied; it is not the file.
LEMMA CreateIInv ==
  ASSUME IInv, NEW s \in Slots, Create(s)
  PROVE  IInv'
<1>0. AgentTypes /\ ServerTypes /\ OnePassword /\ Requests /\ Files /\ NeverLockedOut
  BY DEF IInv
<1>1. PICK h : h = handler[s]
  OBVIOUS
<1>2. h.pc = "create" /\ h # Idle /\ h \in Creating /\ Replacing(s) /\ UNCHANGED <<file, granted, refused, overlapped>>
      /\ UNCHANGED agentVars
  BY <1>0, <1>1, HandlerAt DEF Create, Replacing
<1>3. PICK i \in Inodes \ {file} :
        /\ tmp' = i /\ inode' = [inode EXCEPT ![i] = NoUsers]
        /\ handler' = [handler EXCEPT ![s] = [pc |-> "write", agent |-> h.agent, name |-> h.name, pass |-> h.pass,
                                              names |-> h.names, fd |-> i]]
  <2>1. PICK used : used = {file, tmp} \union
                           {handler[t].fd : t \in {u \in Slots : handler[u].pc \in {"write", "rename"}}}
    BY Zenon
  <2>2. PICK i : i = IF tmp # None THEN tmp ELSE CHOOSE j \in Inodes : j \notin used
    OBVIOUS
  <2>3. i \in Inodes \ {file}
    <3>1. CASE tmp # None
      BY <1>0, <2>2, <3>1 DEF ServerTypes, Files
    <3>2. CASE tmp = None
      BY <1>0, <1>1, <1>2, <2>1, <2>2, <3>2, FreshInode, Zenon
    <3> QED
      BY <3>1, <3>2
  <2> QED
    BY <1>0, <1>1, <2>1, <2>2, <2>3, Zenon DEF Create, ServerTypes
<1>4. PICK g : g = [pc |-> "write", agent |-> h.agent, name |-> h.name, pass |-> h.pass, names |-> h.names, fd |-> i]
  BY Zenon
<1>5. g \in Writing /\ g.pc = "write" /\ g.agent = h.agent /\ g.name = h.name /\ g.pass = h.pass /\ g.names = h.names
      /\ g.fd = i
  BY <1>2, <1>4 DEF Creating, Writing
<1>6. handler' = [handler EXCEPT ![s] = g] /\ handler'[s] = g /\ \A t \in Slots : t # s => handler'[t] = handler[t]
  BY <1>0, <1>3, <1>4 DEF ServerTypes
<1>7. inode' \in [Inodes -> Maps] /\ inode'[i] = NoUsers /\ \A j \in Inodes : j # i => inode'[j] = inode[j]
  BY <1>0, <1>3, NoUsersMaps DEF ServerTypes
<1>8. ServerTypes'
  BY <1>0, <1>2, <1>3, <1>5, <1>6, <1>7 DEF ServerTypes
<1>9. AgentTypes' /\ OnePassword' /\ NeverLockedOut' /\ UNCHANGED <<setup, sent>>
  BY <1>0, <1>2, Zenon DEF AgentTypes, OnePassword, HasOne, Own, NeverLockedOut, agentVars
<1>10. Request(s)'
  BY <1>0, <1>1, <1>2, <1>5, <1>6, <1>9, Zenon DEF Requests, Request, NamesOf
<1>11. Files'
  BY <1>0, <1>2, <1>3 DEF Files
<1>12. (~ overlapped => Serial)'
  <2>1. SUFFICES ASSUME Serial PROVE Serial'
    BY <1>2 DEF IInv
  <2>2. Read(file)' = Read(file)
    BY <1>0, <1>2, <1>3, <1>7 DEF Read, ServerTypes
  <2>3. \A t \in Slots : /\ Replacing(t)' => t = s
                         /\ handler'[t].pc = "sign" => t # s /\ handler'[t] = handler[t]
    BY <1>2, <1>5, <1>6, <2>1, Zenon DEF Replacing, Serial
  <2>4. Replaces(s)'
    <3>1. Replaces(s)
      BY <1>2, <2>1, Zenon DEF Serial
    <3>2. h.name \notin DOMAIN Read(file) /\ h.names = EnsureUser(Read(file), h.name, h.pass)
      BY <1>1, <3>1, Zenon DEF Replaces
    <3>3. /\ handler'[s].name = h.name /\ handler'[s].pass = h.pass /\ handler'[s].names = h.names
          /\ handler'[s].pc = "write" /\ handler'[s].fd = tmp' /\ inode'[tmp'] = NoUsers
      BY <1>3, <1>5, <1>6, <1>7, Zenon
    <3>4. EnsureUser(Read(file), handler[s].name, handler[s].pass)' = EnsureUser(Read(file), h.name, h.pass)
      BY <2>2, <3>3, Zenon DEF EnsureUser
    <3> QED
      BY <2>2, <3>2, <3>3, <3>4, Zenon DEF Replaces
  <2>5. \A b \in Agents : granted[b] # None => Registered(b)' /\ (granted[b] \in NamesOf(b))'
    BY <1>2, <1>9, <2>1, <2>2, Zenon DEF Serial, Registered, NamesOf
  <2>6. Sound(Read(file))'
    BY <1>9, <2>1, <2>2, Zenon DEF Serial, Sound
  <2> QED
    BY <1>2, <2>1, <2>2, <2>3, <2>4, <2>5, <2>6, Zenon DEF Serial
<1> QED
  BY <1>6, <1>8, <1>9, <1>10, <1>11, <1>12, ServerIInv

\* The lines are written to the temporary file.
LEMMA WriteIInv ==
  ASSUME IInv, NEW s \in Slots, Write(s)
  PROVE  IInv'
<1>0. AgentTypes /\ ServerTypes /\ OnePassword /\ Requests /\ Files /\ NeverLockedOut
  BY DEF IInv
<1>1. PICK h : h = handler[s]
  OBVIOUS
<1>2. /\ h.pc = "write" /\ h # Idle /\ h \in Writing /\ Replacing(s) /\ h.fd \in Inodes /\ h.names \in Maps
      /\ UNCHANGED <<file, tmp, granted, refused, overlapped>> /\ UNCHANGED agentVars
  BY <1>0, <1>1, HandlerAt DEF Write, Replacing, Goto, Writing
<1>3. PICK c \in Overwrite(h.fd, h.names) : inode' = [inode EXCEPT ![h.fd] = c]
  BY <1>1, Zenon DEF Write
<1>4. PICK g : g = [h EXCEPT !.pc = "rename"]
  BY Zenon
<1>5. g \in Writing /\ g.pc = "rename" /\ g.agent = h.agent /\ g.name = h.name /\ g.pass = h.pass
      /\ g.names = h.names /\ g.fd = h.fd
  BY <1>2, <1>4 DEF Writing
<1>6. handler' = [handler EXCEPT ![s] = g] /\ handler'[s] = g /\ \A t \in Slots : t # s => handler'[t] = handler[t]
  BY <1>0, <1>1, <1>4 DEF ServerTypes, Write, Goto
<1>7. c \in Maps /\ (inode[h.fd] = NoUsers => c = h.names)
  BY <1>0, <1>2, <1>3, OverwriteMaps, Zenon
<1>8. inode' \in [Inodes -> Maps] /\ inode'[h.fd] = c /\ \A j \in Inodes : j # h.fd => inode'[j] = inode[j]
  BY <1>0, <1>2, <1>3, <1>7 DEF ServerTypes
<1>9. ServerTypes'
  BY <1>0, <1>2, <1>5, <1>6, <1>8 DEF ServerTypes
<1>10. AgentTypes' /\ OnePassword' /\ NeverLockedOut' /\ UNCHANGED <<setup, sent>>
  BY <1>0, <1>2, Zenon DEF AgentTypes, OnePassword, HasOne, Own, NeverLockedOut, agentVars
<1>11. Request(s)'
  BY <1>0, <1>1, <1>2, <1>5, <1>6, <1>10 DEF Requests, Request, NamesOf
<1>12. Files'
  BY <1>0, <1>2 DEF Files
<1>13. (~ overlapped => Serial)'
  <2>1. SUFFICES ASSUME Serial PROVE Serial'
    BY <1>2 DEF IInv
  <2>2. h.fd = tmp /\ inode[tmp] = NoUsers /\ Replaces(s)
    BY <1>1, <1>2, <2>1, Zenon DEF Serial, Replaces
  <2>3. Read(file)' = Read(file)
    BY <1>0, <1>2, <1>8, <2>2 DEF Read, ServerTypes, Files
  <2>4. \A t \in Slots : /\ Replacing(t)' => t = s
                         /\ handler'[t].pc = "sign" => t # s /\ handler'[t] = handler[t]
    BY <1>2, <1>5, <1>6, <2>1, Zenon DEF Replacing, Serial
  <2>5. Replaces(s)'
    <3>1. h.name \notin DOMAIN Read(file) /\ h.names = EnsureUser(Read(file), h.name, h.pass)
      BY <1>1, <2>2, Zenon DEF Replaces
    <3>2. g.pc # "write"
      BY <1>5
    <3>3. inode'[tmp'] = g.names
      BY <1>2, <1>5, <1>7, <1>8, <2>2, Zenon
    <3> QED
      BY <1>2, <1>5, <1>6, <2>2, <2>3, <3>1, <3>2, <3>3, Zenon DEF Replaces
  <2>6. \A b \in Agents : granted[b] # None => Registered(b)' /\ (granted[b] \in NamesOf(b))'
    BY <1>2, <1>10, <2>1, <2>3, Zenon DEF Serial, Registered, NamesOf
  <2>7. Sound(Read(file))'
    BY <1>10, <2>1, <2>3, Zenon DEF Serial, Sound
  <2> QED
    BY <1>2, <2>1, <2>3, <2>4, <2>5, <2>6, <2>7, Zenon DEF Serial
<1> QED
  BY <1>6, <1>9, <1>10, <1>11, <1>12, <1>13, ServerIInv

\* The temporary file becomes the file; it has the lines that were there and the
\* one of the request.
LEMMA RenameIInv ==
  ASSUME IInv, NEW s \in Slots, Rename(s)
  PROVE  IInv'
<1>0. AgentTypes /\ ServerTypes /\ OnePassword /\ Requests /\ Files /\ NeverLockedOut
  BY DEF IInv
<1>1. PICK h : h = handler[s]
  OBVIOUS
<1>2. h.pc = "rename" /\ h # Idle /\ h \in Writing /\ Replacing(s) /\ UNCHANGED <<granted, overlapped>>
  BY <1>0, <1>1, HandlerAt, Zenon DEF Rename, Replacing
<1>3. CASE tmp = None
  <2>1. Answer(s, FALSE) /\ UNCHANGED <<file, tmp, inode>>
    BY <1>3, Zenon DEF Rename, fileVars
  <2>2. /\ AgentTypes' /\ OnePassword' /\ UNCHANGED <<setup, sent>>
        /\ handler' \in [Slots -> {Idle} \cup Asking \cup Creating \cup Writing]
        /\ handler'[s] = Idle /\ \A t \in Slots : t # s => handler'[t] = handler[t]
    BY <1>1, <1>2, <2>1, Answered, Zenon
  <2>3. ServerTypes'
    BY <1>0, <1>2, <2>1, <2>2 DEF ServerTypes
  <2>4. (~ overlapped => Serial)'
    BY <1>2, <2>1, <2>2, EndsSerial DEF IInv
  <2>5. overlapped
    <3>1. SUFFICES ASSUME Replaces(s) PROVE FALSE
      BY <1>2, Zenon DEF IInv, Serial
    <3>2. h.fd = None /\ h.fd \in Inodes
      BY <1>1, <1>2, <1>3, <3>1 DEF Replaces, Writing
    <3> QED
      BY <3>2, JoinAssumption
  <2>6. NeverLockedOut' /\ Files'
    BY <1>0, <1>2, <2>1, <2>5 DEF NeverLockedOut, Files
  <2> QED
    BY <2>2, <2>3, <2>4, <2>6, ServerIInv
<1>4. CASE tmp # None
  <2>1. Goto(s, "sign") /\ file' = tmp /\ tmp' = None /\ UNCHANGED <<inode, refused>>
    BY <1>4 DEF Rename
  <2>2. PICK g : g = [h EXCEPT !.pc = "sign"]
    BY Zenon
  <2>3. g \in Writing /\ g.pc = "sign" /\ g.agent = h.agent /\ g.name = h.name /\ g.pass = h.pass
        /\ g.names = h.names /\ g.fd = h.fd
    BY <1>2, <2>2 DEF Writing
  <2>4. handler' = [handler EXCEPT ![s] = g] /\ handler'[s] = g /\ \A t \in Slots : t # s => handler'[t] = handler[t]
    BY <1>0, <1>1, <2>1, <2>2 DEF ServerTypes, Goto
  <2>5. ServerTypes'
    BY <1>0, <1>2, <2>1, <2>3, <2>4 DEF ServerTypes
  <2>6. AgentTypes' /\ OnePassword' /\ NeverLockedOut' /\ UNCHANGED <<setup, sent>>
    BY <1>0, <1>2, <2>1 DEF AgentTypes, OnePassword, HasOne, Own, NeverLockedOut, agentVars, Goto
  <2>7. Request(s)'
    BY <1>0, <1>1, <1>2, <2>3, <2>4, <2>6 DEF Requests, Request, NamesOf
  <2>8. Files'
    BY <1>0, <1>4, <2>1, Zenon DEF Files
  <2>9. (~ overlapped => Serial)'
    <3>1. SUFFICES ASSUME Serial PROVE Serial'
      BY <1>2 DEF IInv
    <3>2. Replaces(s) /\ inode[tmp] = h.names
      BY <1>1, <1>2, <3>1, Zenon DEF Serial, Replaces
    <3>3. Read(file)' = EnsureUser(Read(file), h.name, h.pass)
      BY <1>1, <1>4, <2>1, <3>2, Zenon DEF Read, Replaces
    <3>4. Read(file) \in Maps /\ h.name \in Names /\ h.pass \in Passwords /\ h.name \notin DOMAIN Read(file)
      BY <1>0, <1>1, <1>2, <3>2, ReadMaps, HandlerAt, Zenon DEF Replaces
    <3>5. /\ h.name \in DOMAIN Read(file)' /\ (Read(file)')[h.name] = h.pass
          /\ \A k \in DOMAIN Read(file) : k \in DOMAIN Read(file)' /\ (Read(file)')[k] = Read(file)[k]
      <4>1. PICK m, n, w : m = Read(file) /\ n = h.name /\ w = h.pass
        OBVIOUS
      <4>2. m \in Maps /\ n \in Names /\ w \in Passwords
        BY <3>4, <4>1
      <4>3. /\ DOMAIN EnsureUser(m, n, w) = DOMAIN m \cup {n} /\ EnsureUser(m, n, w)[n] = w
            /\ \A k \in DOMAIN m : k # n => EnsureUser(m, n, w)[k] = m[k]
        BY <4>2, EnsureUserAdds, Zenon
      <4> QED
        BY <3>3, <3>4, <4>1, <4>3, Zenon
    <3>6. \A t \in Slots : ~ Replacing(t)'
      BY <1>2, <2>3, <2>4, <3>1, Zenon DEF Replacing, Serial
    <3>7. ASSUME NEW t \in Slots, handler'[t].pc = "sign"
          PROVE  handler'[t].name \in DOMAIN Read(file)' /\ (Read(file)')[handler'[t].name] = handler'[t].pass
      BY <2>3, <2>4, <3>1, <3>5, <3>7 DEF Serial
    <3>8. \A b \in Agents : granted[b] # None => Registered(b)' /\ (granted[b] \in NamesOf(b))'
      BY <1>2, <2>6, <3>1, <3>5 DEF Serial, Registered, NamesOf
    <3>9. Sound(Read(file))'
      <4>1. PICK a \in Agents : a = h.agent
        BY <1>0, <1>1, <1>2, HandlerAt
      <4>2. h.name \in NamesOf(a) /\ h.pass = Own(a)
        BY <1>0, <1>1, <1>2, <4>1, Zenon DEF Requests, Request, OnePassword, HasOne
      <4>3. Sound(EnsureUser(Read(file), h.name, Own(a)))
        BY <3>1, <3>4, <4>2, EnsureUserSound, Zenon DEF Serial
      <4> QED
        BY <2>6, <3>3, <4>2, <4>3, Zenon DEF Sound
    <3> QED
      BY <1>2, <3>6, <3>7, <3>8, <3>9, Zenon DEF Serial
  <2> QED
    BY <2>4, <2>5, <2>6, <2>7, <2>8, <2>9, ServerIInv
<1> QED
  BY <1>3, <1>4

\* A certificate is signed for a name that the file has with the agent's password.
LEMMA SignIInv ==
  ASSUME IInv, NEW s \in Slots, Sign(s)
  PROVE  IInv'
<1>0. AgentTypes /\ ServerTypes /\ OnePassword /\ Requests /\ Files /\ NeverLockedOut
  BY DEF IInv
<1>1. PICK h : h = handler[s]
  OBVIOUS
<1>2. /\ h.pc = "sign" /\ h # Idle /\ h.agent \in Agents /\ h.name \in Names /\ Request(s)
      /\ granted' = [granted EXCEPT ![h.agent] = h.name]
      /\ Answer(s, TRUE) /\ UNCHANGED <<file, tmp, inode, refused, overlapped>>
  BY <1>0, <1>1, HandlerAt, Zenon DEF Sign, fileVars, Requests
<1>3. /\ AgentTypes' /\ OnePassword' /\ UNCHANGED <<setup, sent>>
      /\ handler' \in [Slots -> {Idle} \cup Asking \cup Creating \cup Writing]
      /\ handler'[s] = Idle /\ \A t \in Slots : t # s => handler'[t] = handler[t]
  BY <1>1, <1>2, Answered, Zenon
<1>4. granted' \in [Agents -> Names \cup {None}] /\ granted'[h.agent] = h.name
      /\ \A b \in Agents : b # h.agent => granted'[b] = granted[b]
  BY <1>0, <1>2 DEF ServerTypes
<1>5. ServerTypes'
  BY <1>0, <1>2, <1>3, <1>4 DEF ServerTypes
<1>6. NeverLockedOut' /\ Files'
  BY <1>0, <1>2, <1>3 DEF NeverLockedOut, Files
<1>7. (~ overlapped => Serial)'
  <2>1. SUFFICES ASSUME Serial PROVE Serial'
    BY <1>2 DEF IInv
  <2>2. \A t \in Slots : /\ Replacing(t)' => Replacing(t) /\ t # s /\ handler'[t] = handler[t]
                         /\ handler'[t].pc = "sign" => t # s /\ handler'[t] = handler[t]
    BY <1>3 DEF Replacing, Idle
  <2>3. \A t \in Slots : Replacing(t)' => Replaces(t)'
    BY <1>2, <2>1, <2>2, Zenon DEF Serial, Replaces, Read
  <2>4. Registered(h.agent)' /\ (granted[h.agent] \in NamesOf(h.agent))'
    BY <1>1, <1>2, <1>3, <1>4, <2>1, Zenon DEF Serial, Registered, Read, Request, NamesOf
  <2>5. ASSUME NEW b \in Agents, granted'[b] # None
        PROVE  Registered(b)' /\ (granted[b] \in NamesOf(b))'
    <3>1. CASE b = h.agent
      BY <2>4, <3>1
    <3>2. CASE b # h.agent
      BY <1>2, <1>3, <1>4, <2>1, <2>5, <3>2, Zenon DEF Serial, Registered, Read, NamesOf
    <3> QED
      BY <3>1, <3>2
  <2>6. Sound(Read(file))'
    BY <1>2, <1>3, <2>1, Zenon DEF Serial, Sound, Read
  <2> QED
    BY <1>2, <2>1, <2>2, <2>3, <2>5, <2>6, Zenon DEF Serial, Read
<1> QED
  BY <1>3, <1>5, <1>6, <1>7, ServerIInv

\* The server ends: the requests are gone, and the temporary file stays.
LEMMA ServerCrashIInv ==
  ASSUME IInv, ServerCrash
  PROVE  IInv'
<1>0. AgentTypes /\ ServerTypes /\ OnePassword /\ Requests /\ Files /\ NeverLockedOut
  BY DEF IInv
<1>1. /\ handler' = [s \in Slots |-> Idle] /\ waiting' = [a \in Agents |-> None]
      /\ at' = [a \in Agents |-> IF waiting[a] # None THEN 1 ELSE at[a]]
      /\ UNCHANGED <<setup, old, new, id, draws, sent, file, tmp, inode, granted, refused, overlapped>>
  BY DEF ServerCrash, fileVars
<1>2. AgentTypes'
  BY <1>0, <1>1 DEF AgentTypes
<1>3. OnePassword'
  <2>1. ASSUME NEW a \in Agents
        PROVE  HasOne(a)'
    <3>1. at'[a] \in {1, at[a]} /\ at[a] \in 1..8 /\ waiting'[a] = None
      BY <1>0, <1>1 DEF AgentTypes
    <3>2. HasOne(a) /\ Own(a)' = Own(a) /\ UNCHANGED <<setup, old, new, id, draws, sent>>
      BY <1>0, <1>1 DEF OnePassword, Own
    <3>3. at'[a] >= 3 => at[a] >= 3
      BY <3>1
    <3> QED
      BY <3>1, <3>2, <3>3 DEF HasOne
  <2> QED
    BY <2>1 DEF OnePassword
<1>4. ServerTypes' /\ Requests' /\ \A s \in Slots : handler'[s] = Idle
  BY <1>0, <1>1 DEF ServerTypes, Requests
<1>5. NeverLockedOut' /\ Files'
  BY <1>0, <1>1, Zenon DEF NeverLockedOut, Files
<1>6. (~ overlapped => Serial)'
  BY <1>1, <1>4, Zenon DEF IInv, Serial, Replacing, Idle, Registered, Read, NamesOf, Sound
<1> QED
  BY <1>2, <1>3, <1>4, <1>5, <1>6 DEF IInv

-----------------------------------------------------------------------------
(* The theorems                                                            *)

\* At first the server has the lines of the agents that registered under an older
\* version.
LEMMA InitIInv ==
  ASSUME Init
  PROVE  IInv
<1>0. setup \in Setups /\ setup.old \subseteq Agents
  BY JoinAssumption, Zenon DEF Init
<1>1. AgentTypes
  <2>1. 1 \in 1..8 /\ 0 \in Nat
    OBVIOUS
  <2>2. \A a \in Agents : (IF a \in setup.old THEN OldPassword(a) ELSE None) \in Passwords \cup {None}
    BY OldPasswords, Zenon
  <2>3. at \in [Agents -> 1..8] /\ draws \in [Agents -> Nat]
    BY <2>1, Zenon DEF Init
  <2>4. old \in [Agents -> Passwords \cup {None}] /\ new \in [Agents -> Passwords \cup {None}]
    BY <2>2, Zenon DEF Init
  <2> QED
    BY <1>0, <2>3, <2>4, Zenon DEF Init, AgentTypes
<1>2. OnePassword
  BY <1>0, JoinAssumption DEF Init, OnePassword, HasOne, Own, OldPassword, OwnIn
<1>3. PICK D, m : /\ D = {<<setup.host[a]>> : a \in setup.old}
                  /\ m = [n \in D |-> OldPassword(CHOOSE a \in setup.old : n = <<setup.host[a]>>)]
  BY Zenon
<1>4. ASSUME NEW n \in D
      PROVE  \E a \in setup.old : n = <<setup.host[a]>> /\ m[n] = OldPassword(a)
  <2>1. \E a \in setup.old : n = <<setup.host[a]>>
    BY <1>3
  <2>2. PICK a : a = CHOOSE b \in setup.old : n = <<setup.host[b]>>
    OBVIOUS
  <2>3. a \in setup.old /\ n = <<setup.host[a]>>
    BY <2>1, <2>2
  <2> QED
    BY <1>3, <2>2, <2>3, Zenon
<1>5. m \in Maps
  <2>1. D \in SUBSET Names
    BY <1>0, <1>3 DEF Names
  <2>2. m \in [D -> Passwords]
    <3>1. \A n \in D : m[n] \in Passwords
      BY <1>0, <1>4 DEF OldPassword, Passwords
    <3> QED
      BY <1>3, <3>1
  <2> QED
    BY <2>1, <2>2, MapTypes
<1>6. Sound(m)
  <2>1. ASSUME NEW n \in DOMAIN m
        PROVE  \E a \in Agents : n \in NamesOf(a) /\ m[n] = Own(a)
    BY <1>0, <1>3, <1>4, <2>1, Zenon DEF NamesOf, Own, OldPassword, OwnIn, NamesIn
  <2> QED
    BY <2>1, SoundLines
<1>7. inode = [i \in Inodes |-> IF i = 0 THEN m ELSE NoUsers] /\ 0 \in Inodes
  <2>1. inode = [i \in Inodes |-> IF i = 0 THEN m ELSE NoUsers]
    BY <1>3, Zenon DEF Init
  <2>2. 0 \in Inodes
    BY JoinAssumption, FS_CardinalityType DEF Inodes
  <2> QED
    BY <2>1, <2>2
<1>8. ServerTypes
  BY <1>5, <1>7, NoUsersMaps, Zenon DEF Init, ServerTypes
<1>9. Sound(Read(file))
  <2>1. Sound(NoUsers)
    BY DEF Sound, SoundIn, NoUsers
  <2>2. Read(file) \in {NoUsers, m}
    BY <1>7 DEF Init, Read
  <2> QED
    BY <1>6, <2>1, <2>2
<1>10. Requests /\ Files /\ NeverLockedOut /\ Serial
  BY <1>9, Zenon DEF Init, Requests, Files, NeverLockedOut, Serial, Replacing, Idle
<1> QED
  BY <1>1, <1>2, <1>8, <1>10 DEF IInv

\* IInv holds in every state, whatever is interrupted and in whatever order the
\* requests run.
THEOREM Invariance == Spec => []IInv
<1>1. ASSUME IInv, [Next]_vars
      PROVE  IInv'
  <2>1. ASSUME NEW a \in Agents, AgentStep(a) \/ Timeout(a) \/ AgentCrash(a)
        PROVE  IInv'
    BY <1>1, <2>1, FetchIInv, UpgradeIInv, EnsureNodeIDIInv, EnsureNodePasswordIInv, AskIInv, AgentRestartsIInv
       DEF AgentStep
  <2>2. ASSUME NEW s \in Slots, Handle(s)
        PROVE  IInv'
    BY <1>1, <2>2, ReadAndCheckIInv, CreateIInv, WriteIInv, RenameIInv, SignIInv DEF Handle
  <2>3. CASE UNCHANGED vars
    <3>1. AgentTypes' /\ ServerTypes'
      BY <1>1, <2>3 DEF vars, agentVars, fileVars, IInv, AgentTypes, ServerTypes
    <3>2. OnePassword' /\ NeverLockedOut' /\ Files'
      <4>1. OnePassword'
        BY <1>1, <2>3, Zenon DEF vars, agentVars, IInv, OnePassword, HasOne, Own
      <4>2. NeverLockedOut' /\ Files'
        BY <1>1, <2>3 DEF vars, agentVars, fileVars, IInv, NeverLockedOut, Files
      <4> QED
        BY <4>1, <4>2
    <3>3. Requests'
      BY <1>1, <2>3, Zenon DEF vars, agentVars, fileVars, IInv, Requests, Request, NamesOf
    <3>4. (~ overlapped => Serial)'
      BY <1>1, <2>3, Zenon DEF vars, agentVars, fileVars, IInv, Serial, Replaces, Replacing, Registered, Read, NamesOf, Sound
    <3> QED
      BY <3>1, <3>2, <3>3, <3>4 DEF IInv
  <2> QED
    BY <1>1, <2>1, <2>2, <2>3, ServerCrashIInv DEF Next
<1> QED
  BY InitIInv, <1>1, PTL DEF Spec

\* "If user doesn't exist we save this password for future validation"
\* (ensureNodePassword): for any agents, requests at once and faults, a node that
\* was given certificates has its password in the file and shares its name with no
\* other that was, as long as no request reads the file while another replaces it.
THEOREM OneOwnerHolds == Spec => []OneOwner
<1>1. ASSUME IInv
      PROVE  OneOwner
  <2>1. SUFFICES ASSUME Serial, NEW a \in Agents, granted[a] # None
                 PROVE  Registered(a) /\ \A b \in Agents \ {a} : granted[b] # granted[a]
    BY <1>1 DEF OneOwner, IInv
  <2>2. Registered(a)
    BY <2>1, Zenon DEF Serial
  <2>3. ASSUME NEW b \in Agents, b # a, granted[b] = granted[a]
        PROVE  FALSE
    <3>1. granted[a] \in NamesOf(a) /\ Registered(b)
      BY <2>1, <2>3, Zenon DEF Serial
    <3>2. PICK c \in Agents : Read(file)[granted[a]] = Own(c)
      BY <2>1, <2>2, SoundLines DEF Serial, Registered
    <3>3. Own(c) \in sent[a] /\ Own(c) \in sent[b]
      BY <2>2, <2>3, <3>1, <3>2 DEF Registered
    <3>4. sent[a] \subseteq {Empty, Own(a)} /\ sent[b] \subseteq {Empty, Own(b)}
      BY <1>1 DEF IInv, OnePassword, HasOne
    <3>5. c = a /\ c = b
      BY <3>3, <3>4, OwnPassword
    <3> QED
      BY <2>3, <3>5
  <2> QED
    BY <2>2, <2>3
<1> QED
  BY <1>1, Invariance, PTL

\* An agent whose host name no other has is never told that its password was
\* rejected, as long as no request reads the file while another replaces it: for
\* any agents, requests and faults, and whether its password was moved from the old
\* place (upgradeOldNodePasswordPath) or drawn.
THEOREM NeverLockedOutHolds == Spec => []NeverLockedOut
<1>1. IInv => NeverLockedOut
  BY DEF IInv
<1> QED
  BY <1>1, Invariance, PTL

=============================================================================
