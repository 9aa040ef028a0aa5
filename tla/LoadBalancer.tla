---------------------------- MODULE LoadBalancer ----------------------------
(***************************************************************************)
(* The client-side load balancer of a k3s agent (pkg/agent/loadbalancer).  *)
(*                                                                         *)
(* Every accepted connection runs dialContext in a goroutine of its own (a *)
(* "dialer").  Update is called by one goroutine, the endpoint watch of    *)
(* the tunnel.  setServers and nextServer write under lb.mutex;            *)
(* dialContext reads nextServerIndex, currentServerAddress and             *)
(* len(randomServers) WITHOUT it, so every write made under the mutex is   *)
(* an action of its own here, and a string read while it is being written  *)
(* may come out torn.                                                      *)
(*                                                                         *)
(* Go slices count from 0 and TLA+ sequences from 1: randomServers[i] of   *)
(* the code is randomServers[i + 1] here, and nextServerIndex keeps the    *)
(* value it has in the code.                                               *)
(***************************************************************************)
EXTENDS Naturals, Sequences, FiniteSets, Functions

CONSTANTS
    Servers,      \* server addresses, host:port
    Empty,        \* the empty string, which an address list may contain
    Torn,         \* what a torn read of currentServerAddress yields
    URLs,         \* the values --server may be given, one per start
    parseURL,     \* the host:port address of each of them
    Dialers,      \* the goroutines running dialContext
    Healthy,      \* servers that accept every connection
    EarlierLists, \* address lists an earlier run may have left in the file
    MaxUpdates,   \* bound: address lists handed to Update
    MaxCrashes    \* bound: crashes of the agent process

ASSUME AddressAssumption ==
    /\ IsFiniteSet(Servers)
    /\ Empty \notin Servers
    /\ Torn \notin Servers
    /\ parseURL \in [URLs -> Servers]
    /\ EarlierLists \subseteq SUBSET Servers
    /\ {} \notin EarlierLists

ASSUME DialerAssumption == Dialers \cap {"free", "update"} = {}

ASSUME BoundAssumption == MaxUpdates \in Nat /\ MaxCrashes \in Nat

VARIABLES
    process,              \* "down", "starting" (inside New) or "up"
    ServerURL,            \* lb.ServerURL
    ServerAddresses,      \* lb.ServerAddresses; sorted and duplicate free, so a set
    randomServers,        \* lb.randomServers
    currentServerAddress, \* lb.currentServerAddress
    nextServerIndex,      \* lb.nextServerIndex
    mutex,                \* lb.mutex: "free", "update" or the dialer holding it
    updater,              \* where the goroutine in New or Update is
    configFile,           \* the JSON file written by writeConfig
    pc,                   \* where each dialer is
    startIndex,           \* the local variable of dialContext
    targetServer,         \* the local variable of dialContext
    done,                 \* ctx.Err() # nil: the dial timeout has passed
    updates,              \* lists handed to Update so far
    crashes,              \* crashes so far
    reported,             \* observer: servers whose failure a nextServer call
                          \*   that ended during this dial reported
    stable,               \* observer: no setServers has run during this dial
    unsaved               \* observer: the last writeConfig returned an error

lbVars == <<ServerURL, ServerAddresses, randomServers>>
dialVars == <<pc, startIndex, targetServer, done, reported, stable>>
boundVars == <<updates, crashes>>
vars == <<process, lbVars, currentServerAddress, nextServerIndex, mutex,
          updater, configFile, dialVars, boundVars, unsaved>>

originalServerAddress == parseURL[ServerURL]

\* The three states of the config file: not there; truncated by
\* ioutil.WriteFile and not yet written, which json.Unmarshal refuses; written.
NoFile == [state |-> "absent"]
PartialFile == [state |-> "partial"]
SavedFile(url, addresses) ==
    [state |-> "saved", ServerURL |-> url, ServerAddresses |-> addresses]
ConfigFiles == {NoFile, PartialFile}
    \cup [state : {"saved"}, ServerURL : URLs, ServerAddresses : SUBSET Servers]

Returned == {"connected", "allfailed", "noservers", "canceled"}
Active == {"loop", "dial", "next", "advance", "incr", "check", "compare"}

-----------------------------------------------------------------------------
(* Address lists *)

\* sortServers drops empty strings and duplicates and sorts: what is left of
\* the list is its set of addresses.
sortServers(input) == input \ {Empty}

\* rand.Shuffle leaves any permutation.
Shuffles(addresses) == Bijection(1 .. Cardinality(addresses), addresses)

\* What setServers makes of a list when nothing runs beside it.
ServerLists(addresses, original) ==
    {IF original \in addresses THEN s ELSE Append(s, original) :
        s \in Shuffles(addresses)}

-----------------------------------------------------------------------------
(* New: the agent process starts *)

Init ==
    /\ process = "down"
    /\ ServerURL \in URLs
    /\ ServerAddresses = {}
    /\ randomServers = <<>>
    /\ currentServerAddress = Empty
    /\ nextServerIndex = 0
    /\ mutex = "free"
    /\ updater = "idle"
    /\ configFile \in
            {NoFile} \cup {SavedFile(url, addresses) :
                              url \in URLs, addresses \in EarlierLists}
    /\ pc = [d \in Dialers |-> "idle"]
    /\ startIndex = [d \in Dialers |-> 0]
    /\ targetServer = [d \in Dialers |-> Empty]
    /\ done = [d \in Dialers |-> FALSE]
    /\ updates = 0
    /\ crashes = 0
    /\ reported = [d \in Dialers |-> {}]
    /\ stable = [d \in Dialers |-> FALSE]
    /\ unsaved = FALSE

\* The process has ended and everything in its memory with it.
MemoryLost ==
    /\ process' = "down"
    /\ ServerAddresses' = {}
    /\ randomServers' = <<>>
    /\ currentServerAddress' = Empty
    /\ nextServerIndex' = 0
    /\ mutex' = "free"
    /\ updater' = "idle"
    /\ pc' = [d \in Dialers |-> "idle"]
    /\ startIndex' = [d \in Dialers |-> 0]
    /\ targetServer' = [d \in Dialers |-> Empty]
    /\ done' = [d \in Dialers |-> FALSE]
    /\ reported' = [d \in Dialers |-> {}]
    /\ stable' = [d \in Dialers |-> FALSE]
    /\ unsaved' = FALSE

\* setServers with the mutex taken and released in one step: New runs before
\* proxy.Start, when no dialer exists.
SetServersAlone(addresses, url) ==
    /\ ServerAddresses' = addresses
    /\ randomServers' \in ServerLists(addresses, parseURL[url])
    /\ currentServerAddress' = Head(randomServers')
    /\ nextServerIndex' = 1

\* Slip: a file that was read is not applied.
NewFromConfigIgnored(url) ==
    /\ process = "down"
    /\ configFile.state = "saved"
    /\ configFile.ServerURL = url
    /\ ServerURL' = url
    /\ SetServersAlone({parseURL[url]}, url)
    /\ process' = "up"
    /\ unsaved' = FALSE
    /\ UNCHANGED <<mutex, updater, configFile, dialVars, boundVars>>

\* The config file was written for this URL: its addresses replace the
\* original one (an empty list would be ignored by setServers).
NewFromConfig(url) ==
    /\ process = "down"
    /\ configFile.state = "saved"
    /\ configFile.ServerURL = url
    /\ ServerURL' = url
    /\ SetServersAlone(IF configFile.ServerAddresses = {}
                         THEN {parseURL[url]}
                         ELSE configFile.ServerAddresses, url)
    /\ process' = "up"
    /\ unsaved' = FALSE
    /\ UNCHANGED <<mutex, updater, configFile, dialVars, boundVars>>

\* There is no file, or one that cannot be read, or one for another URL: the
\* original address is all there is, and updateConfig writes a new file.
NewWithoutConfig(url) ==
    /\ process = "down"
    /\ configFile.state = "saved" => configFile.ServerURL # url
    /\ ServerURL' = url
    /\ SetServersAlone({parseURL[url]}, url)
    /\ process' = "starting"
    /\ updater' = "open"
    /\ unsaved' = FALSE
    /\ UNCHANGED <<mutex, configFile, dialVars, boundVars>>

-----------------------------------------------------------------------------
(* writeConfig, called by New (process "starting") and by Update *)

\* ioutil.WriteFile opens the file with O_TRUNC ...
WriteConfigOpen ==
    /\ updater = "open"
    /\ configFile' = PartialFile
    /\ updater' = "write"
    /\ UNCHANGED <<process, lbVars, currentServerAddress, nextServerIndex,
                   mutex, dialVars, boundVars, unsaved>>

\* ... and writes the whole of it.
WriteConfigWrite ==
    /\ updater = "write"
    /\ configFile' = SavedFile(ServerURL, ServerAddresses)
    /\ updater' = "idle"
    /\ process' = "up"
    /\ unsaved' = FALSE
    /\ UNCHANGED <<lbVars, currentServerAddress, nextServerIndex, mutex,
                   dialVars, boundVars>>

\* Either call may fail.  New returns the error and the agent exits ...
NewFails ==
    /\ process = "starting"
    /\ updater \in {"open", "write"}
    /\ MemoryLost
    /\ UNCHANGED <<ServerURL, configFile, boundVars>>

\* ... but Update only logs it.
UpdateNotSaved ==
    /\ process = "up"
    /\ updater \in {"open", "write"}
    /\ updater' = "idle"
    /\ unsaved' = TRUE
    /\ UNCHANGED <<process, lbVars, currentServerAddress, nextServerIndex,
                   mutex, configFile, dialVars, boundVars>>

-----------------------------------------------------------------------------
(* Update *)

\* setServers up to the shuffle.  An empty list, or the list there already is,
\* returns false and changes nothing.
UpdateSetServers(input) ==
    LET addresses == sortServers(input) IN
    /\ process = "up"
    /\ updater = "idle"
    /\ updates < MaxUpdates
    /\ addresses # {}
    /\ mutex = "free"
    /\ addresses # ServerAddresses
    /\ mutex' = "update"
    /\ ServerAddresses' = addresses
    /\ randomServers' \in Shuffles(addresses)
    /\ updater' = "append"
    /\ updates' = updates + 1
    /\ stable' = [d \in Dialers |-> FALSE]
    /\ UNCHANGED <<process, ServerURL, currentServerAddress, nextServerIndex,
                   configFile, pc, startIndex, targetServer, done, reported,
                   crashes, unsaved>>

\* Slip: the original server is forgotten.
UpdateAppendNothing ==
    /\ updater = "append"
    /\ updater' = "current"
    /\ UNCHANGED <<process, lbVars, currentServerAddress, nextServerIndex, mutex,
                   configFile, dialVars, boundVars, unsaved>>

\* The original server is appended when the list does not have it.
UpdateAppendOriginal ==
    /\ updater = "append"
    /\ randomServers' = IF originalServerAddress \in ServerAddresses
                          THEN randomServers
                          ELSE Append(randomServers, originalServerAddress)
    /\ updater' = "current"
    /\ UNCHANGED <<process, ServerURL, ServerAddresses, currentServerAddress,
                   nextServerIndex, mutex, configFile, dialVars, boundVars,
                   unsaved>>

UpdateCurrent ==
    /\ updater = "current"
    /\ currentServerAddress' = randomServers[1]
    /\ updater' = "index"
    /\ UNCHANGED <<process, lbVars, nextServerIndex, mutex, configFile,
                   dialVars, boundVars, unsaved>>

\* The index is set, the mutex released, and writeConfig runs without it.
UpdateIndex ==
    /\ updater = "index"
    /\ nextServerIndex' = 1
    /\ mutex' = "free"
    /\ updater' = "open"
    /\ UNCHANGED <<process, lbVars, currentServerAddress, configFile,
                   dialVars, boundVars, unsaved>>

-----------------------------------------------------------------------------
(* dialContext *)

Goto(d, label) == pc' = [pc EXCEPT ![d] = label]

\* dialContext returns and its local variables are gone.
Return(d, result) ==
    /\ Goto(d, result)
    /\ startIndex' = [startIndex EXCEPT ![d] = 0]
    /\ targetServer' = [targetServer EXCEPT ![d] = Empty]
    /\ done' = [done EXCEPT ![d] = FALSE]
    /\ reported' = [reported EXCEPT ![d] = {}]

\* A connection is accepted; startIndex is read without the mutex.
Dial(d) ==
    /\ process = "up"
    /\ pc[d] \in {"idle"} \cup Returned
    /\ Goto(d, "loop")
    /\ startIndex' = [startIndex EXCEPT ![d] = nextServerIndex]
    /\ stable' = [stable EXCEPT ![d] = mutex # "update"]
    /\ UNCHANGED <<process, lbVars, currentServerAddress, nextServerIndex,
                   mutex, updater, configFile, targetServer, done, boundVars,
                   reported, unsaved>>

\* A string is two words: a read beside the write of it may mix old and new.
CurrentBeingWritten ==
    \/ updater = "current"
    \/ \E d \in Dialers : pc[d] = "advance"

ReadTarget(d) ==
    /\ pc[d] = "loop"
    /\ \E t \in {currentServerAddress}
                  \cup (IF CurrentBeingWritten THEN {Torn} ELSE {}) :
            targetServer' = [targetServer EXCEPT ![d] = t]
    /\ Goto(d, "dial")
    /\ UNCHANGED <<process, lbVars, currentServerAddress, nextServerIndex,
                   mutex, updater, configFile, startIndex, done, boundVars,
                   reported, stable, unsaved>>

DialOK(d) ==
    /\ pc[d] = "dial"
    /\ ~done[d]
    /\ Return(d, "connected")
    /\ UNCHANGED <<process, lbVars, currentServerAddress, nextServerIndex,
                   mutex, updater, configFile, boundVars, stable, unsaved>>

\* The server refuses, the address is no address, or the context has expired.
DialError(d) ==
    /\ pc[d] = "dial"
    /\ targetServer[d] \in Healthy => done[d]
    /\ Goto(d, "next")
    /\ UNCHANGED <<process, lbVars, currentServerAddress, nextServerIndex,
                   mutex, updater, configFile, startIndex, targetServer, done,
                   boundVars, reported, stable, unsaved>>

\* Every dial under way sees that this server failed.
Report(server) ==
    reported' = [e \in Dialers |->
                    IF pc[e] \in Active THEN reported[e] \cup ({server} \cap Servers)
                                        ELSE reported[e]]

\* nextServer when the failed server is no longer the current one, or is the
\* only one: nothing changes.
NextServerKeeps(d) ==
    /\ pc[d] = "next"
    /\ mutex = "free"
    /\ \/ Len(randomServers) <= 1
       \/ targetServer[d] # currentServerAddress
    /\ Goto(d, IF randomServers = <<>> THEN "noservers" ELSE "check")
    /\ Report(targetServer[d])
    /\ UNCHANGED <<process, lbVars, currentServerAddress, nextServerIndex,
                   mutex, updater, configFile, startIndex, targetServer, done,
                   boundVars, stable, unsaved>>

\* Slip: a failure of a server that is no longer current advances too.
NextServerAnyFailure(d) ==
    /\ pc[d] = "next"
    /\ mutex = "free"
    /\ Len(randomServers) > 1
    /\ mutex' = d
    /\ nextServerIndex' = IF nextServerIndex >= Len(randomServers)
                            THEN 0 ELSE nextServerIndex
    /\ Goto(d, "advance")
    /\ UNCHANGED <<process, lbVars, currentServerAddress, updater, configFile,
                   startIndex, targetServer, done, boundVars, reported, stable,
                   unsaved>>

\* nextServer otherwise: the mutex is held and the index wraps to 0, ...
NextServerWrap(d) ==
    /\ pc[d] = "next"
    /\ mutex = "free"
    /\ Len(randomServers) > 1
    /\ targetServer[d] = currentServerAddress
    /\ mutex' = d
    /\ nextServerIndex' = IF nextServerIndex >= Len(randomServers)
                            THEN 0 ELSE nextServerIndex
    /\ Goto(d, "advance")
    /\ UNCHANGED <<process, lbVars, currentServerAddress, updater, configFile,
                   startIndex, targetServer, done, boundVars, reported, stable,
                   unsaved>>

\* ... the current server is replaced, ...
NextServerAdvance(d) ==
    /\ pc[d] = "advance"
    /\ currentServerAddress' = randomServers[nextServerIndex + 1]
    /\ Goto(d, "incr")
    /\ UNCHANGED <<process, lbVars, nextServerIndex, mutex, updater,
                   configFile, startIndex, targetServer, done, boundVars,
                   reported, stable, unsaved>>

\* ... and the index is incremented and the mutex released.
NextServerIncr(d) ==
    /\ pc[d] = "incr"
    /\ nextServerIndex' = nextServerIndex + 1
    /\ mutex' = "free"
    /\ Goto(d, "check")
    /\ Report(targetServer[d])
    /\ UNCHANGED <<process, lbVars, currentServerAddress, updater, configFile,
                   startIndex, targetServer, done, boundVars, stable, unsaved>>

\* Slip: the context is not looked at between two servers.
ContextIgnored(d) ==
    /\ pc[d] = "check"
    /\ done[d]
    /\ Goto(d, "compare")
    /\ UNCHANGED <<process, lbVars, currentServerAddress, nextServerIndex,
                   mutex, updater, configFile, startIndex, targetServer, done,
                   boundVars, reported, stable, unsaved>>

\* ctx.Err() is looked at first; ...
Canceled(d) ==
    /\ pc[d] = "check"
    /\ done[d]
    /\ Return(d, "canceled")
    /\ UNCHANGED <<process, lbVars, currentServerAddress, nextServerIndex,
                   mutex, updater, configFile, boundVars, stable, unsaved>>

\* ... then startIndex is clamped to the length of the list, read without the
\* mutex.
Clamp(d) ==
    /\ pc[d] = "check"
    /\ ~done[d]
    /\ Goto(d, "compare")
    /\ startIndex' = [startIndex EXCEPT ![d] =
                        IF @ > Len(randomServers) THEN Len(randomServers) ELSE @]
    /\ UNCHANGED <<process, lbVars, currentServerAddress, nextServerIndex,
                   mutex, updater, configFile, targetServer, done, boundVars,
                   reported, stable, unsaved>>

\* The index, read without the mutex, is back where this dial found it ...
AllFailed(d) ==
    /\ pc[d] = "compare"
    /\ nextServerIndex = startIndex[d]
    /\ Return(d, "allfailed")
    /\ UNCHANGED <<process, lbVars, currentServerAddress, nextServerIndex,
                   mutex, updater, configFile, boundVars, stable, unsaved>>

\* ... or it is not, and the next server is tried.
TryAgain(d) ==
    /\ pc[d] = "compare"
    /\ nextServerIndex # startIndex[d]
    /\ Goto(d, "loop")
    /\ UNCHANGED <<process, lbVars, currentServerAddress, nextServerIndex,
                   mutex, updater, configFile, startIndex, targetServer, done,
                   boundVars, reported, stable, unsaved>>

\* tcpproxy gives every dial a context that expires.
Timeout(d) ==
    /\ pc[d] \in Active
    /\ ~done[d]
    /\ done' = [done EXCEPT ![d] = TRUE]
    /\ UNCHANGED <<process, lbVars, currentServerAddress, nextServerIndex,
                   mutex, updater, configFile, pc, startIndex, targetServer,
                   boundVars, reported, stable, unsaved>>

-----------------------------------------------------------------------------

\* The agent process is killed: only the file stays.
Crash ==
    /\ process # "down"
    /\ crashes < MaxCrashes
    /\ MemoryLost
    /\ crashes' = crashes + 1
    /\ UNCHANGED <<ServerURL, configFile, updates>>

New == \E url \in URLs : NewFromConfig(url) \/ NewWithoutConfig(url)

WriteConfig ==
    \/ WriteConfigOpen
    \/ WriteConfigWrite
    \/ NewFails
    \/ UpdateNotSaved

SetServers == UpdateAppendOriginal \/ UpdateCurrent \/ UpdateIndex

Update == \E input \in SUBSET (Servers \cup {Empty}) : UpdateSetServers(input)

DialStep(d) ==
    \/ ReadTarget(d)
    \/ DialOK(d)
    \/ DialError(d)
    \/ NextServerAdvance(d)
    \/ NextServerIncr(d)
    \/ Canceled(d)
    \/ Clamp(d)
    \/ AllFailed(d)
    \/ TryAgain(d)

NextServerEnter(d) == NextServerKeeps(d) \/ NextServerWrap(d)

Next ==
    \/ New
    \/ WriteConfig
    \/ Update
    \/ SetServers
    \/ Crash
    \/ \E d \in Dialers :
        Dial(d) \/ DialStep(d) \/ NextServerEnter(d) \/ Timeout(d)

Spec == Init /\ [][Next]_vars

\* A goroutine that can run does, a dial's timeout passes, and Go's mutex does
\* not starve a waiter, which makes acquiring it strongly fair.  Connections,
\* updates, crashes and restarts need never come.
Fairness ==
    /\ WF_vars(WriteConfig)
    /\ WF_vars(SetServers)
    /\ \A d \in Dialers :
        /\ WF_vars(DialStep(d))
        /\ SF_vars(NextServerEnter(d))
        /\ WF_vars(Timeout(d))

FairSpec == Spec /\ Fairness

-----------------------------------------------------------------------------
(* Properties *)

\* Every variable holds a value of its type.
TypeOK ==
    /\ process \in {"down", "starting", "up"}
    /\ ServerURL \in URLs
    /\ ServerAddresses \subseteq Servers
    /\ randomServers \in Seq(Servers)
    /\ currentServerAddress \in Servers \cup {Empty}
    /\ nextServerIndex \in Nat
    /\ mutex \in {"free", "update"} \cup Dialers
    /\ updater \in {"idle", "append", "current", "index", "open", "write"}
    /\ configFile \in ConfigFiles
    /\ pc \in [Dialers -> {"idle"} \cup Active \cup Returned]
    /\ startIndex \in [Dialers -> Nat]
    /\ targetServer \in [Dialers -> Servers \cup {Empty, Torn}]
    /\ done \in [Dialers -> BOOLEAN]
    /\ updates \in 0 .. MaxUpdates
    /\ crashes \in 0 .. MaxCrashes
    /\ reported \in [Dialers -> SUBSET Servers]
    /\ stable \in [Dialers -> BOOLEAN]
    /\ unsaved \in BOOLEAN

\* No index of randomServers is out of range, which in Go would end the agent:
\* neither where nextServer reads randomServers[nextServerIndex] nor where
\* setServers reads randomServers[0]; and the "No servers" error is never
\* returned, whatever dialers and Update interleave.
IndexInRange ==
    /\ \A d \in Dialers :
        pc[d] = "advance" => nextServerIndex + 1 \in DOMAIN randomServers
    /\ updater = "current" => randomServers # <<>>
    /\ \A d \in Dialers : pc[d] # "noservers"

\* Whenever the mutex is free the list is the addresses given plus the
\* original one, each once, and the current server is the one the index is
\* just past: what nextServer relies on to walk the whole list.
ListConsistent ==
    process # "down" /\ mutex = "free" =>
        /\ Range(randomServers) = ServerAddresses \cup {originalServerAddress}
        /\ IsInjective(randomServers)
        /\ nextServerIndex \in DOMAIN randomServers
        /\ currentServerAddress = randomServers[nextServerIndex]

\* "all servers failed" is said only after the failure of every server of the
\* list was reported to nextServer during the dial, by this dialer or by
\* another one, provided no Update replaced the list meanwhile.
AllServersFailed ==
    [][\A d \in Dialers :
          pc[d] = "compare" /\ pc'[d] = "allfailed" /\ stable[d]
            => Range(randomServers) \subseteq reported[d]]_vars

\* Unless a write failed, the file holds the URL and the addresses in use
\* whenever no write is under way: a restart with the same URL resumes with
\* the servers the agent knew, whatever crash came before.
ConfigFollowsServers ==
    process = "up" /\ updater = "idle" /\ ~unsaved =>
        configFile = SavedFile(ServerURL, ServerAddresses)

\* Every dial returns: with a connection or with an error.
DialReturns ==
    \A d \in Dialers : pc[d] = "loop" ~> pc[d] \notin Active

\* While the list has a server that accepts connections and whose failure
\* nobody reported, a dial gets a connection, unless an Update replaces the
\* list or the timeout of a dial passes, of this one or of another: a dial that
\* times out reports its server as failed to all of them.
HealthyServerReached ==
    \A d \in Dialers :
        /\ pc[d] = "loop"
        /\ stable[d]
        /\ (Range(randomServers) \cap Healthy) \ reported[d] # {}
      ~> \/ pc[d] \in {"connected", "canceled"}
         \/ ~stable[d]
         \/ \E e \in Dialers : done[e]
=============================================================================
