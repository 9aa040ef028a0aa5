------------------------------ MODULE NodeJoin ------------------------------
(***************************************************************************)
(* Agents ask a server for their configuration and certificates, again and *)
(* again until all of it has been answered (Get and get in                 *)
(* pkg/agent/config/config.go).  The server lets a node have certificates  *)
(* in its name if it knows the node's password or has not seen the name    *)
(* before (ensureNodePassword in pkg/server/router.go); it keeps the       *)
(* passwords in a file that every request reads and may replace, without   *)
(* a lock (pkg/passwd/passwd.go).                                          *)
(*                                                                         *)
(* The file is replaced by writing node-passwd.tmp and renaming it.  Files *)
(* are inodes, so that two requests that write the same temporary file are *)
(* seen to.                                                                *)
(***************************************************************************)
EXTENDS Integers, Sequences, FiniteSets

CONSTANTS Agents,
          Setups,      \* what the agents may be configured with: records of
                       \*   host: agent -> the name it is given
                       \*   withID: the agents that make their name unique
                       \*   old: the agents that registered under an older version
                       \*   token: agent -> [pin |-> CA or None, pass |-> password]
          ServerCA, AgentToken, None,
          Slots,       \* bound on the requests the server handles at once
          MaxFaults    \* bound on crashes, timeouts and lost connections

VARIABLES setup,     \* one of Setups
          at,        \* agent -> the step of Program it is at
          old, new,  \* agent -> its password file, in the old and in the new place
          id,        \* agent -> its node id file
          draws,     \* agent -> how many passwords it has drawn
          waiting,   \* agent -> the slot of the request it waits for
          handler,   \* slot -> the request being handled
          file, tmp, \* the inodes of node-passwd and node-passwd.tmp
          inode,     \* inode -> what it holds
          faults,
          sent,      \* agent -> the passwords it has sent
          granted,   \* agent -> the name its certificates are for
          refused,   \* agents told "Node password rejected" (config.go, for any 403)
          overlapped \* a request has read the file while another was replacing it

agentVars == <<setup, at, old, new, id, draws, waiting, sent>>
fileVars == <<file, tmp, inode>>
vars == <<agentVars, handler, fileVars, faults, granted, refused, overlapped>>

NoUsers == [n \in {} |-> <<>>]
Garbled == [n \in {<<>>} |-> <<>>]
Inodes == 0..(Cardinality(Slots) + 1)
Empty == <<>>
Cut == <<"cut">>   \* a password that is none of the agents', or the empty one
Idle == [pc |-> "idle"]

\* None is no file, no request and no password; the agents that are set up in some
\* way are agents.
ASSUME JoinAssumption ==
    /\ IsFiniteSet(Slots)
    /\ None \notin Slots /\ None \notin Inodes /\ None # Empty
    /\ \A a \in Agents, n \in 0..1 : None # <<a, n>>
    /\ \A c \in Setups : c.old \subseteq Agents
-----------------------------------------------------------------------------
(* passwd.go: a password file is a function from names to passwords        *)

Read(i) == IF i = None THEN NoUsers ELSE inode[i]
CheckName(names, n, pass) == n \in DOMAIN names
Check(names, n, pass) == n \in DOMAIN names /\ names[n] = pass
EnsureUser(names, n, pass) == [m \in DOMAIN names \union {n} |-> IF m = n THEN pass ELSE names[m]]

\* What a reader may find of the lines of a file behind those written over its
\* beginning: some of them, in any order, the first perhaps without its beginning.
\* A line is the password, the name twice and the role: the rest of one is still a
\* line of its name, with another password (FieldsPerRecord is -1).
Tails(lines) ==
    {[n \in D |-> IF n = c THEN Cut ELSE lines[n]] : D \in SUBSET DOMAIN lines, c \in DOMAIN lines} \ {lines}

\* Read takes the last line of a name.
Joined(names, tail) == [n \in DOMAIN names \union DOMAIN tail |-> IF n \in DOMAIN tail THEN tail[n] ELSE names[n]]

\* What a file may hold when names is written from its beginning over what is
\* there.  Passwords are of one length, so that names is the longer one if it has
\* every name that is there and no line of it was cut.  Files of more than the
\* 4096 bytes of csv's buffer are written in pieces, and may end up with a line of
\* one column, that Read refuses.
Overwrite(i, names) ==
    IF \/ inode[i] \in {NoUsers, names}
       \/ DOMAIN inode[i] \subseteq DOMAIN names /\ \A n \in DOMAIN names : names[n] # Cut
    THEN {names}
    ELSE {Garbled} \union {Joined(names, tail) : tail \in Tails(inode[i])}
-----------------------------------------------------------------------------
(* The agent                                                               *)

Program == <<"hostFiles", "upgradeWrite", "upgradeRemove", "id",
             "serving-kubelet", "client-kubelet", "otherFiles">>
Op(a) == IF at[a] \in 1..Len(Program) THEN Program[at[a]] ELSE "done"
GoOn(a) == at' = [at EXCEPT ![a] = @ + 1]

\* getHostnameAndIP; with a node id the name is the agent's own.
NodeName(a) == IF a \in setup.withID THEN <<setup.host[a], id[a]>> ELSE <<setup.host[a]>>

\* ParseAndValidateToken and the basic authentication of the server.
Accepted(a) ==
    /\ setup.token[a].pin \in {None, ServerCA}
    /\ setup.token[a].pass = AgentToken

\* The requests that only fetch, before and after those in the node's name:
\* the CA bundle, the configuration and the CAs, and the certificates that all
\* nodes share.
Fetch(a) ==
    /\ Op(a) \in {"hostFiles", "otherFiles"}
    /\ Accepted(a)
    /\ GoOn(a)
    /\ UNCHANGED <<setup, old, new, id, draws, waiting, sent, handler, fileVars, faults, granted, refused, overlapped>>

\* One of them fails: Get starts over after five seconds.
FetchFails(a) ==
    /\ Op(a) \in {"hostFiles", "otherFiles"}
    /\ \/ ~ Accepted(a) /\ UNCHANGED faults
       \/ at[a] # 1 /\ faults < MaxFaults /\ faults' = faults + 1
    /\ at' = [at EXCEPT ![a] = 1]
    /\ UNCHANGED <<setup, old, new, id, draws, waiting, sent, handler, fileVars, granted, refused, overlapped>>

\* upgradeOldNodePasswordPath that gives up on the old file.
UpgradeDropped(a) ==
    /\ Op(a) \in {"upgradeWrite", "upgradeRemove"}
    /\ old' = [old EXCEPT ![a] = None]
    /\ GoOn(a)
    /\ UNCHANGED <<setup, new, id, draws, waiting, sent, handler, fileVars, faults, granted, refused, overlapped>>

\* upgradeOldNodePasswordPath: the password is written to the new place, and
\* then the old file is removed.
Upgrade(a) ==
    /\ \/ /\ Op(a) = "upgradeWrite"
          /\ new' = IF old[a] = None THEN new ELSE [new EXCEPT ![a] = old[a]]
          /\ UNCHANGED old
       \/ /\ Op(a) = "upgradeRemove"
          /\ old' = [old EXCEPT ![a] = None]
          /\ UNCHANGED new
    /\ GoOn(a)
    /\ UNCHANGED <<setup, id, draws, waiting, sent, handler, fileVars, faults, granted, refused, overlapped>>

EnsureNodeID(a) ==
    /\ Op(a) = "id"
    /\ id' = IF a \in setup.withID /\ id[a] = None THEN [id EXCEPT ![a] = a] ELSE id
    /\ GoOn(a)
    /\ UNCHANGED <<setup, old, new, draws, waiting, sent, handler, fileVars, faults, granted, refused, overlapped>>

\* getNodeNamedCrt's ensureNodePassword draws and saves a password.
EnsureNodePassword(a) ==
    /\ Op(a) \in {"serving-kubelet", "client-kubelet"}
    /\ new[a] = None
    /\ draws' = [draws EXCEPT ![a] = @ + 1]
    /\ new' = [new EXCEPT ![a] = <<a, draws[a] + 1>>]
    /\ UNCHANGED <<setup, at, old, id, waiting, sent, handler, fileVars, faults, granted, refused, overlapped>>

\* getNodeNamedCrt sends the request.
Ask(a, s) ==
    /\ Op(a) \in {"serving-kubelet", "client-kubelet"}
    /\ new[a] # None
    /\ waiting[a] = None
    /\ handler[s] = Idle
    /\ handler' = [handler EXCEPT ![s] = [pc |-> "read", agent |-> a, name |-> NodeName(a), pass |-> new[a]]]
    /\ waiting' = [waiting EXCEPT ![a] = s]
    /\ sent' = [sent EXCEPT ![a] = @ \union {new[a]}]
    /\ UNCHANGED <<setup, at, old, new, id, draws, fileVars, faults, granted, refused, overlapped>>

\* The client gives up after ten seconds; the request is still handled.
Timeout(a) ==
    /\ waiting[a] # None
    /\ faults < MaxFaults
    /\ faults' = faults + 1
    /\ waiting' = [waiting EXCEPT ![a] = None]
    /\ at' = [at EXCEPT ![a] = 1]
    /\ UNCHANGED <<setup, old, new, id, draws, sent, handler, fileVars, granted, refused, overlapped>>

\* The agent ends and is started again, perhaps inside the write of its password.
AgentCrash(a) ==
    /\ at[a] # 1
    /\ faults < MaxFaults
    /\ faults' = faults + 1
    /\ at' = [at EXCEPT ![a] = 1]
    /\ waiting' = [waiting EXCEPT ![a] = None]
    /\ \/ UNCHANGED new
       \/ Op(a) = "serving-kubelet" /\ new[a] = None /\ new' = [new EXCEPT ![a] = Empty]
    /\ UNCHANGED <<setup, old, id, draws, sent, handler, fileVars, granted, refused, overlapped>>
-----------------------------------------------------------------------------
(* The server: servingKubeletCert and clientKubeletCert                    *)

\* The answer reaches the agent if it still waits for it.
Answer(s, ok) ==
    LET a == handler[s].agent IN
      /\ handler' = [handler EXCEPT ![s] = Idle]
      /\ IF waiting[a] # s THEN UNCHANGED <<at, waiting>>
         ELSE /\ waiting' = [waiting EXCEPT ![a] = None]
              /\ at' = [at EXCEPT ![a] = IF ok THEN @ + 1 ELSE 1]
      /\ UNCHANGED <<setup, old, new, id, draws, sent>>

Goto(s, pc) == handler' = [handler EXCEPT ![s] = [@ EXCEPT !.pc = pc]] /\ UNCHANGED agentVars

Replacing(s) == handler[s].pc \in {"create", "write", "rename"}

\* ensureNodePassword reads the file and checks the password: a known one
\* goes on, another than the known one is forbidden (403), as is any request
\* if the file cannot be read, and a new name is added.  getNodeInfo has turned
\* away requests without a password (500).
ReadAndCheck(s) ==
    /\ handler[s].pc = "read"
    /\ overlapped' = (overlapped \/ \E t \in Slots : Replacing(t))
    /\ LET h == handler[s]
           names == Read(file)
       IN  \/ /\ h.pass = Empty
              /\ Answer(s, FALSE)
              /\ UNCHANGED refused
           \/ /\ h.pass # Empty /\ names = Garbled
              /\ refused' = refused \union {h.agent}
              /\ Answer(s, FALSE)
           \/ /\ h.pass # Empty /\ names # Garbled
              /\ Check(names, h.name, h.pass)
              /\ Goto(s, "sign")
              /\ UNCHANGED refused
           \/ /\ h.pass # Empty /\ names # Garbled
              /\ h.name \in DOMAIN names
              /\ ~ Check(names, h.name, h.pass)
              /\ refused' = refused \union {h.agent}
              /\ Answer(s, FALSE)
           \/ /\ h.pass # Empty /\ names # Garbled
              /\ h.name \notin DOMAIN names
              /\ handler' = [handler EXCEPT ![s] =
                   [pc |-> "create", agent |-> h.agent, name |-> h.name, pass |-> h.pass,
                    names |-> EnsureUser(names, h.name, h.pass)]]
              /\ UNCHANGED <<agentVars, refused>>
    /\ UNCHANGED <<fileVars, faults, granted>>

\* writePasswords that will not touch a temporary file that is there.
CreateExclusive(s) ==
    /\ handler[s].pc = "create"
    /\ IF tmp # None THEN Answer(s, FALSE) /\ UNCHANGED <<tmp, inode>>
       ELSE \E i \in Inodes \ {file} :
              /\ tmp' = i
              /\ inode' = [inode EXCEPT ![i] = NoUsers]
              /\ handler' = [handler EXCEPT ![s] = [pc |-> "write", agent |-> @.agent, name |-> @.name,
                                                    pass |-> @.pass, names |-> @.names, fd |-> i]]
              /\ UNCHANGED agentVars
    /\ UNCHANGED <<file, faults, granted, refused, overlapped>>

\* writePasswords creates the temporary file, or empties the one that is there.
Create(s) ==
    /\ handler[s].pc = "create"
    /\ LET used == {file, tmp} \union {handler[t].fd : t \in {u \in Slots : handler[u].pc \in {"write", "rename"}}}
           i == IF tmp # None THEN tmp ELSE CHOOSE j \in Inodes : j \notin used
       IN  /\ tmp' = i
           /\ inode' = [inode EXCEPT ![i] = NoUsers]
           /\ handler' = [handler EXCEPT ![s] =
                [pc |-> "write", agent |-> @.agent, name |-> @.name, pass |-> @.pass, names |-> @.names, fd |-> i]]
    /\ UNCHANGED <<agentVars, file, faults, granted, refused, overlapped>>

Write(s) ==
    /\ handler[s].pc = "write"
    /\ \E c \in Overwrite(handler[s].fd, handler[s].names) : inode' = [inode EXCEPT ![handler[s].fd] = c]
    /\ Goto(s, "rename")
    /\ UNCHANGED <<file, tmp, faults, granted, refused, overlapped>>

\* Another request may have renamed the temporary file already: the error is
\* answered with 403 too.
Rename(s) ==
    /\ handler[s].pc = "rename"
    /\ IF tmp = None
       THEN refused' = refused \union {handler[s].agent} /\ Answer(s, FALSE) /\ UNCHANGED fileVars
       ELSE Goto(s, "sign") /\ file' = tmp /\ tmp' = None /\ UNCHANGED <<inode, refused>>
    /\ UNCHANGED <<faults, granted, overlapped>>

\* The certificate is signed and sent.
Sign(s) ==
    /\ handler[s].pc = "sign"
    /\ granted' = [granted EXCEPT ![handler[s].agent] = handler[s].name]
    /\ Answer(s, TRUE)
    /\ UNCHANGED <<fileVars, faults, refused, overlapped>>

Handle(s) == ReadAndCheck(s) \/ Create(s) \/ Write(s) \/ Rename(s) \/ Sign(s)

\* The server ends; what it was handling is lost and every wait with it.
ServerCrash ==
    /\ faults < MaxFaults
    /\ faults' = faults + 1
    /\ \E s \in Slots : handler[s] # Idle
    /\ handler' = [s \in Slots |-> Idle]
    /\ at' = [a \in Agents |-> IF waiting[a] # None THEN 1 ELSE at[a]]
    /\ waiting' = [a \in Agents |-> None]
    /\ UNCHANGED <<setup, old, new, id, draws, sent, fileVars, granted, refused, overlapped>>
-----------------------------------------------------------------------------
OldPassword(a) == <<a, 0>>

Init ==
    /\ setup \in Setups
    /\ at = [a \in Agents |-> 1]
    /\ old = [a \in Agents |-> IF a \in setup.old THEN OldPassword(a) ELSE None]
    /\ new = [a \in Agents |-> None]
    /\ id = [a \in Agents |-> None]
    /\ draws = [a \in Agents |-> 0]
    /\ waiting = [a \in Agents |-> None]
    /\ handler = [s \in Slots |-> Idle]
    /\ file = IF setup.old = {} THEN None ELSE 0
    /\ tmp = None
    /\ inode = [i \in Inodes |-> IF i = 0 THEN [n \in {<<setup.host[a]>> : a \in setup.old} |->
                  OldPassword(CHOOSE a \in setup.old : n = <<setup.host[a]>>)] ELSE NoUsers]
    /\ faults = 0
    /\ sent = [a \in Agents |-> {}]
    /\ granted = [a \in Agents |-> None]
    /\ refused = {}
    /\ overlapped = FALSE

AgentStep(a) ==
    Fetch(a) \/ FetchFails(a) \/ Upgrade(a) \/ EnsureNodeID(a) \/ EnsureNodePassword(a) \/ \E s \in Slots : Ask(a, s)

Next ==
    \/ \E a \in Agents : AgentStep(a) \/ Timeout(a) \/ AgentCrash(a)
    \/ \E s \in Slots : Handle(s)
    \/ ServerCrash

Spec == Init /\ [][Next]_vars

\* Agents retry without end, and a request that is being handled goes on.  An
\* agent finds a free slot again and again.
FairSpec ==
    /\ Spec
    /\ \A a \in Agents : SF_vars(Fetch(a) \/ Upgrade(a) \/ EnsureNodeID(a) \/ EnsureNodePassword(a)
                                 \/ \E s \in Slots : Ask(a, s))
    /\ \A s \in Slots : WF_vars(Handle(s))
-----------------------------------------------------------------------------
(* Properties                                                              *)

\* The temporary file and the file are never the same inode, and every agent
\* waits for a request of its own.
TypeOK ==
    /\ at \in [Agents -> 1..(Len(Program) + 1)]
    /\ file \in Inodes \union {None} /\ tmp \in Inodes \union {None}
    /\ file = tmp => file = None
    /\ \A a \in Agents : waiting[a] # None => handler[waiting[a]].agent = a
    /\ faults \in 0..MaxFaults

Registered(a) == granted[a] \in DOMAIN Read(file) /\ Read(file)[granted[a]] \in sent[a]

\* "If user doesn't exist we save this password for future validation"
\* (ensureNodePassword): an agent that was given certificates has its password in
\* the file, and no other agent is given certificates of the same name, as long
\* as no request reads the file while another replaces it.
OneOwner ==
    overlapped \/ \A a \in Agents : granted[a] # None =>
        Registered(a) /\ \A b \in Agents \ {a} : granted[b] # granted[a]

\* An agent whose name no other uses is never told that its password was rejected:
\* not when its password file was being moved when it ended, nor when the server
\* ended while it replaced its file, as long as no request reads the file while
\* another replaces it (upgradeOldNodePasswordPath, ensureNodePassword).  If one
\* does, lines written over one another may lock an agent out.
NeverLockedOut ==
    overlapped \/ \A a \in refused : \E b \in Agents \ {a} : setup.host[b] = setup.host[a]

CutOff(a) == NodeName(a) \in DOMAIN Read(file) /\ Read(file)[NodeName(a)] = Cut

\* An agent with a name of its own and a token the server accepts gets all it
\* asks for in the end, unless its password file was cut short or two requests
\* have written their lines over one another in the file of the server, so that
\* it cannot be read or the agent's own line was cut.
Joins ==
    \A a \in Agents :
        (Accepted(a) /\ \A b \in Agents \ {a} : setup.host[b] # setup.host[a]) =>
            (<>(Op(a) = "done") \/ <>(new[a] = Empty) \/ <>(Read(file) = Garbled) \/ <>CutOff(a))
=============================================================================
