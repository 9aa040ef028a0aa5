------------------------- MODULE LoadBalancerProofs -------------------------
(***************************************************************************)
(* Proofs about LoadBalancer for every set of servers, URLs and dialers.   *)
(*                                                                         *)
(* The argument for "all servers failed": a dial that no Update disturbs   *)
(* starts with the current server at some position S of randomServers.     *)
(* nextServer moves the current server on by one position, and only from a *)
(* server that it reports as failed.  So while the current server is at    *)
(* position p, the servers from S up to but not including p (wrapping at   *)
(* the end of the list) have all been reported during the dial: Walked.    *)
(* When the index is back at startIndex the walk has gone all the way      *)
(* round, once a step has been made at all: so Clamp and AllFailed need    *)
(* Walked in its strict form, and a failure that does not move             *)
(* the index must be the failure of a server that was passed already.      *)
(***************************************************************************)
EXTENDS LoadBalancer, FiniteSetTheorems, TLAPS

\* The position of the current server, which is the one nextServerIndex is just
\* past; 0 is past the end of the list, where nextServer wraps it.
Position == IF nextServerIndex = 0 THEN Len(randomServers) ELSE nextServerIndex

\* The position of the server that was current when d began to dial.
StartPosition(d) ==
    IF startIndex[d] = 0 THEN Len(randomServers) ELSE startIndex[d]

\* The servers of list r from position s up to but not including p, wrapping at
\* the end of the list, are in the set seen.
Walked(r, seen, s, p) ==
    \/ \A i \in 1 .. Len(r) : r[i] \in seen
    \/ /\ s < p
       /\ \A i \in 1 .. Len(r) : s <= i /\ i < p => r[i] \in seen
    \/ /\ p < s
       /\ \A i \in 1 .. Len(r) : s <= i \/ i < p => r[i] \in seen

\* Who holds the mutex, and who runs at all.
Locks ==
    /\ mutex = "update" <=> updater \in {"append", "current", "index"}
    /\ \A d \in Dialers : mutex = d <=> pc[d] \in {"advance", "incr"}
    /\ process = "down" => updater = "idle"
    /\ process = "starting" => updater \in {"open", "write"}
    /\ process # "up" => \A d \in Dialers : pc[d] = "idle"
    /\ \A d \in Dialers : pc[d] # "noservers"
    /\ \A d \in Dialers : stable[d] => mutex # "update"

\* The list is the addresses and, once appended, the original one.
Listed ==
    process # "down" =>
        /\ ServerAddresses # {}
        /\ randomServers # <<>>
        /\ IsInjective(randomServers)
        /\ Range(randomServers) =
               ServerAddresses \cup
               (IF updater = "append" THEN {} ELSE {originalServerAddress})

\* Where the index and the current server are, in every phase of a change.
Indexed ==
    process # "down" =>
        /\ mutex = "free" =>
            /\ nextServerIndex \in 1 .. Len(randomServers)
            /\ currentServerAddress = randomServers[nextServerIndex]
        /\ updater = "index" => currentServerAddress = randomServers[1]
        /\ \A d \in Dialers : mutex = d =>
            /\ Len(randomServers) > 1
            /\ nextServerIndex \in 0 .. Len(randomServers) - 1
            /\ targetServer[d] = randomServers[Position]
            /\ pc[d] = "advance" => currentServerAddress = randomServers[Position]
            /\ pc[d] = "incr" =>
                  currentServerAddress = randomServers[nextServerIndex + 1]

\* What an undisturbed dial knows.
WalkedBy(d) ==
    Walked(randomServers, reported[d], StartPosition(d), Position)

WalkedOrNot(d) ==
    /\ startIndex[d] <= Len(randomServers)
    /\ StartPosition(d) = Position \/ WalkedBy(d)
    /\ pc[d] \in {"dial", "next"} /\ mutex = "free" =>
         targetServer[d] = currentServerAddress \/ WalkedBy(d)
    /\ pc[d] \in {"check", "compare"} => WalkedBy(d)

WalkedInv ==
    \A d \in Dialers : pc[d] \in Active /\ stable[d] => WalkedOrNot(d)

\* The file has the list in use, and never an empty one.
Saved ==
    /\ configFile.state = "saved" => configFile.ServerAddresses # {}
    /\ ConfigFollowsServers

IInv == TypeOK /\ Locks /\ Listed /\ Indexed /\ WalkedInv /\ Saved

-----------------------------------------------------------------------------
(* The list *)

\* A shuffle has every address of the set, each once.
LEMMA ShuffleFacts ==
    ASSUME NEW A, A \subseteq Servers, NEW s \in Shuffles(A)
    PROVE  /\ s \in Seq(Servers)
           /\ IsInjective(s)
           /\ Range(s) = A
           /\ A # {} => s # <<>>
<1> DEFINE n == Cardinality(A)
<1>1. IsFiniteSet(A)
    BY AddressAssumption, FS_Subset
<1>2. n \in Nat
    BY <1>1, FS_CardinalityType
<1>3. s \in Injection(1 .. n, A) /\ s \in Surjection(1 .. n, A)
    BY DEF Shuffles, Bijection
<1>4. s \in [1 .. n -> A] /\ IsInjective(s)
    BY <1>3 DEF Injection
<1>5. Range(s) = A
    BY <1>3, <1>4 DEF Range, Surjection
<1>6. s \in Seq(Servers)
    BY <1>2, <1>4
<1>7. A # {} => s # <<>>
    BY <1>5 DEF Range
<1> QED
    BY <1>4, <1>5, <1>6, <1>7

\* Appending an address that is not in the list keeps it free of duplicates.
LEMMA AppendFacts ==
    ASSUME NEW s \in Seq(Servers), IsInjective(s), NEW a \in Servers
    PROVE  /\ Append(s, a) \in Seq(Servers)
           /\ Append(s, a) # <<>>
           /\ Range(Append(s, a)) = Range(s) \cup {a}
           /\ a \notin Range(s) => IsInjective(Append(s, a))
<1> DEFINE t == Append(s, a)
<1>1. /\ t \in Seq(Servers)
      /\ Len(t) = Len(s) + 1
      /\ \A i \in 1 .. Len(s) : t[i] = s[i]
      /\ t[Len(s) + 1] = a
    OBVIOUS
<1>2. DOMAIN t = 1 .. Len(s) + 1 /\ DOMAIN s = 1 .. Len(s) /\ Len(s) \in Nat
    BY <1>1
<1> HIDE DEF t
<1>3. Range(t) = Range(s) \cup {a}
    <2>1. \A x \in Range(t) : x \in Range(s) \cup {a}
        BY <1>1, <1>2 DEF Range
    <2>2. \A x \in Range(s) : x \in Range(t)
        BY <1>1, <1>2 DEF Range
    <2>3. a \in Range(t)
        BY <1>1, <1>2 DEF Range
    <2> QED BY <2>1, <2>2, <2>3
<1>4. ASSUME a \notin Range(s) PROVE IsInjective(t)
    <2>1. \A i \in 1 .. Len(s) : s[i] # a
        BY <1>2, <1>4 DEF Range
    <2> QED BY <1>1, <1>2, <2>1 DEF IsInjective
<1>5. t # <<>>
    BY <1>1, <1>2
<1> QED
    BY <1>1, <1>3, <1>4, <1>5 DEF t

\* The same of the lists New makes.
LEMMA ServerListFacts ==
    ASSUME NEW A, A \subseteq Servers, A # {}, NEW a \in Servers,
           NEW s \in ServerLists(A, a)
    PROVE  /\ s \in Seq(Servers)
           /\ s # <<>>
           /\ IsInjective(s)
           /\ Range(s) = A \cup {a}
<1>1. PICK t \in Shuffles(A) : s = IF a \in A THEN t ELSE Append(t, a)
    BY DEF ServerLists
<1>2. t \in Seq(Servers) /\ IsInjective(t) /\ Range(t) = A /\ t # <<>>
    BY ShuffleFacts
<1>3. CASE a \in A
    BY <1>1, <1>2, <1>3
<1>4. CASE a \notin A
    BY <1>1, <1>2, <1>4, AppendFacts
<1> QED BY <1>3, <1>4

-----------------------------------------------------------------------------
(* The walk *)

\* A dial that has reported more servers has walked at least as far.
LEMMA WalkedGrows ==
    ASSUME NEW r, NEW seen, NEW more, seen \subseteq more, NEW s, NEW p,
           Walked(r, seen, s, p)
    PROVE  Walked(r, more, s, p)
BY DEF Walked

\* One more server was reported: the current one, and the next becomes current.
LEMMA WalkOn ==
    ASSUME NEW r \in Seq(Servers), Len(r) > 1,
           NEW seen, NEW more, seen \subseteq more,
           NEW s \in 1 .. Len(r), NEW p \in 1 .. Len(r), r[p] \in more,
           s = p \/ Walked(r, seen, s, p)
    PROVE  Walked(r, more, s, IF p = Len(r) THEN 1 ELSE p + 1)
<1>1. s = p \/ Walked(r, more, s, p)
    BY WalkedGrows
<1>2. CASE p = Len(r)
    BY <1>1, <1>2 DEF Walked
<1>3. CASE p # Len(r)
    BY <1>1, <1>3 DEF Walked
<1> QED
    BY <1>2, <1>3

\* Back at the start, everything was seen.
LEMMA WalkedRound ==
    ASSUME NEW r \in Seq(Servers), NEW seen, NEW s \in Nat, Walked(r, seen, s, s)
    PROVE  Range(r) \subseteq seen
BY DEF Walked, Range

\* A step of d's dialContext, and its return, change nothing of other dials.
LEMMA GotoFacts ==
    ASSUME TypeOK, NEW d \in Dialers, NEW label, Goto(d, label)
    PROVE  /\ pc'[d] = label
           /\ \A e \in Dialers : e # d => pc'[e] = pc[e]
<1>1. pc \in [Dialers -> {"idle"} \cup Active \cup Returned]
    BY DEF TypeOK
<1> QED
    BY <1>1 DEF Goto

\* dialContext returns in one dialer, and the others keep all that is theirs.
LEMMA ReturnFacts ==
    ASSUME TypeOK, NEW d \in Dialers, NEW result, Return(d, result)
    PROVE  /\ pc'[d] = result
           /\ \A e \in Dialers : e # d =>
                /\ pc'[e] = pc[e]
                /\ startIndex'[e] = startIndex[e]
                /\ targetServer'[e] = targetServer[e]
                /\ reported'[e] = reported[e]
<1>1. Goto(d, result)
    BY DEF Return
<1>2. /\ startIndex \in [Dialers -> Nat]
      /\ targetServer \in [Dialers -> Servers \cup {Empty, Torn}]
      /\ reported \in [Dialers -> SUBSET Servers]
    BY DEF TypeOK
<1>3. \A e \in Dialers : e # d => startIndex'[e] = startIndex[e]
    BY <1>2 DEF Return
<1>4. \A e \in Dialers : e # d => targetServer'[e] = targetServer[e]
    BY <1>2 DEF Return
<1>5. \A e \in Dialers : e # d => reported'[e] = reported[e]
    BY <1>2 DEF Return
<1> QED
    BY <1>1, <1>3, <1>4, <1>5, GotoFacts

\* Whoever is outside of nextServer does not hold the mutex.
LEMMA NotHolder ==
    ASSUME Locks, NEW d \in Dialers, pc[d] \notin {"advance", "incr"}
    PROVE  mutex # d
BY DEF Locks

\* What an undisturbed dial knows depends on the list, on where the index is and
\* on the dial's own variables; on the current server only if the mutex is free.
SameList ==
    /\ UNCHANGED <<randomServers, nextServerIndex, mutex>>
    /\ mutex = "free" => UNCHANGED currentServerAddress

SameDial(e) ==
    /\ pc'[e] = pc[e]
    /\ startIndex'[e] = startIndex[e]
    /\ targetServer'[e] = targetServer[e]
    /\ reported'[e] = reported[e]
    /\ stable'[e] = stable[e]

\* While the list and its index stay, so does how far each dial has walked.
LEMMA SameWalk ==
    ASSUME NEW e \in Dialers, SameList,
           startIndex'[e] = startIndex[e], reported'[e] = reported[e]
    PROVE  /\ Position' = Position
           /\ StartPosition(e)' = StartPosition(e)
           /\ WalkedBy(e)' <=> WalkedBy(e)
<1>1. Position' = Position
    BY DEF SameList, Position
<1>2. StartPosition(e)' = StartPosition(e)
    BY DEF SameList, StartPosition
<1> QED
    BY <1>1, <1>2 DEF SameList, WalkedBy

\* A dial that a step leaves alone has walked the list after it as before it.
LEMMA WalkKept ==
    ASSUME NEW e \in Dialers, SameList, SameDial(e), WalkedOrNot(e)
    PROVE  WalkedOrNot(e)'
<1>1. /\ StartPosition(e)' = StartPosition(e)
      /\ Position' = Position
      /\ WalkedBy(e)' <=> WalkedBy(e)
    BY SameWalk DEF SameDial
<1> QED
    BY <1>1 DEF WalkedOrNot, SameDial, SameList

\* A step that leaves the list alone and changes at most the dial of d.
LEMMA OthersWalk ==
    ASSUME WalkedInv, SameList, NEW d \in Dialers,
           \A e \in Dialers : e # d => SameDial(e),
           pc'[d] \in Active /\ stable'[d] => WalkedOrNot(d)'
    PROVE  WalkedInv'
<1> SUFFICES ASSUME NEW e \in Dialers, e # d, pc'[e] \in Active, stable'[e]
             PROVE  WalkedOrNot(e)'
    BY DEF WalkedInv
<1>1. SameDial(e)
    OBVIOUS
<1>2. WalkedOrNot(e)
    BY <1>1 DEF SameDial, WalkedInv
<1> QED
    BY <1>1, <1>2, WalkKept

\* A step that no dial and no list takes part in.
LEMMA AllWalk ==
    ASSUME WalkedInv, SameList, \A e \in Dialers : SameDial(e)
    PROVE  WalkedInv'
<1> SUFFICES ASSUME NEW e \in Dialers, pc'[e] \in Active, stable'[e]
             PROVE  WalkedOrNot(e)'
    BY DEF WalkedInv
<1>1. SameDial(e)
    OBVIOUS
<1>2. WalkedOrNot(e)
    BY <1>1 DEF SameDial, WalkedInv
<1> QED
    BY <1>1, <1>2, WalkKept

\* With no dial under way over a list that stayed, there is nothing to show.
LEMMA NoneWalks ==
    ASSUME \A e \in Dialers : ~(pc'[e] \in Active /\ stable'[e])
    PROVE  WalkedInv'
BY DEF WalkedInv

\* A step that leaves the list alone, and whoever holds the mutex.
LEMMA SameIndexed ==
    ASSUME Indexed, process' # "down" => process # "down",
           updater' = "index" => updater = "index",
           UNCHANGED <<randomServers, nextServerIndex, currentServerAddress, mutex>>,
           \A e \in Dialers : mutex = e =>
               pc'[e] = pc[e] /\ targetServer'[e] = targetServer[e]
    PROVE  Indexed'
BY DEF Indexed, Position

\* Update holds the mutex.
LEMMA UpdateIndexed ==
    ASSUME mutex' = "update",
           updater' = "index" => currentServerAddress' = randomServers'[1]
    PROVE  Indexed'
BY DialerAssumption DEF Indexed

\* A new list, its first server current and the mutex free.
LEMMA NewIndexed ==
    ASSUME randomServers' \in Seq(Servers), randomServers' # <<>>,
           currentServerAddress' = randomServers'[1], nextServerIndex' = 1,
           mutex' = "free", updater' # "index"
    PROVE  Indexed'
<1>1. 1 \in 1 .. Len(randomServers')
    OBVIOUS
<1>2. \A d \in Dialers : mutex' # d
    BY DialerAssumption
<1> QED
    BY <1>1, <1>2 DEF Indexed

-----------------------------------------------------------------------------
(* The invariant is inductive *)

\* A list of at most one server has at most one index.
LEMMA OnlyIndex ==
    ASSUME NEW n \in Nat, n <= 1, NEW i \in 1 .. n
    PROVE  n = 1 /\ i = 1
OBVIOUS

\* What the memory of a process that does not run is said to hold has its type.
LEMMA BlankMemory ==
    /\ <<>> \in Seq(Servers)
    /\ [d \in Dialers |-> "idle"] \in [Dialers -> {"idle"} \cup Active \cup Returned]
    /\ [d \in Dialers |-> 0] \in [Dialers -> Nat]
    /\ [d \in Dialers |-> Empty] \in [Dialers -> Servers \cup {Empty, Torn}]
    /\ [d \in Dialers |-> FALSE] \in [Dialers -> BOOLEAN]
    /\ [d \in Dialers |-> {}] \in [Dialers -> SUBSET Servers]
<1>1. [d \in Dialers |-> FALSE] \in [Dialers -> BOOLEAN]
    BY Zenon
<1> QED
    BY <1>1

\* The invariant holds before the proxy is made.
LEMMA Initially == Init => IInv
<1> SUFFICES ASSUME Init PROVE IInv
    OBVIOUS
<1>1. configFile \in ConfigFiles /\ (configFile.state = "saved" => configFile.ServerAddresses # {})
    <2>1. CASE configFile = NoFile
        BY <2>1 DEF ConfigFiles, NoFile
    <2>2. ASSUME NEW url \in URLs, NEW addresses \in EarlierLists,
                 configFile = SavedFile(url, addresses)
          PROVE  configFile \in ConfigFiles /\ configFile.ServerAddresses # {}
        <3>1. addresses \in SUBSET Servers /\ addresses # {}
            BY AddressAssumption, Zenon
        <3> QED
            BY <2>2, <3>1 DEF ConfigFiles, SavedFile
    <2> QED
        BY <2>1, <2>2 DEF Init
<1>2. 0 \in Nat /\ 0 \in 0 .. MaxUpdates /\ 0 \in 0 .. MaxCrashes
    BY BoundAssumption
<1>3. TypeOK
    <2>1. /\ done = [d \in Dialers |-> FALSE]
          /\ stable = [d \in Dialers |-> FALSE]
          /\ unsaved = FALSE
        BY DEF Init
    <2>2. done \in [Dialers -> BOOLEAN] /\ stable \in [Dialers -> BOOLEAN] /\ unsaved \in BOOLEAN
        BY <2>1, BlankMemory, Zenon
    <2> QED
        BY <1>1, <1>2, <2>2, BlankMemory DEF Init, TypeOK
<1>4. Locks
    BY DialerAssumption DEF Init, Locks
<1>5. Listed /\ Indexed
    BY DEF Init, Listed, Indexed
<1>6. WalkedInv
    BY DEF Init, WalkedInv, Active
<1>7. Saved
    BY <1>1 DEF Init, Saved, ConfigFollowsServers
<1> QED
    BY <1>3, <1>4, <1>5, <1>6, <1>7 DEF IInv

\* Types are kept: the two reads of randomServers stay inside the list.
LEMMA TypeStep ==
    ASSUME IInv, [Next]_vars
    PROVE  TypeOK'
<1>1. ASSUME NEW url \in URLs, NewFromConfig(url) PROVE TypeOK'
    <2> DEFINE A == IF configFile.ServerAddresses = {} THEN {parseURL[url]}
                      ELSE configFile.ServerAddresses
    <2>a. parseURL[url] \in Servers
        BY AddressAssumption
    <2>b. configFile.ServerAddresses \subseteq Servers
        BY <1>1
        DEF IInv, TypeOK, NewFromConfig, ConfigFiles, NoFile, PartialFile
    <2>1. A \subseteq Servers /\ A # {} /\ parseURL[url] \in Servers
        BY <2>a, <2>b
    <2>2. randomServers' \in ServerLists(A, parseURL[url])
        BY <1>1 DEF NewFromConfig, SetServersAlone
    <2>3. randomServers' \in Seq(Servers) /\ randomServers' # <<>>
        BY <2>1, <2>2, ServerListFacts
    <2>4. Head(randomServers') \in Servers
        BY <2>3
    <2> QED
        BY <1>1, <2>1, <2>3, <2>4, Zenon
        DEF IInv, TypeOK, NewFromConfig, SetServersAlone, vars, lbVars,
            dialVars, boundVars
<1>2. ASSUME NEW url \in URLs, NewWithoutConfig(url) PROVE TypeOK'
    <2>1. parseURL[url] \in Servers
        BY AddressAssumption
    <2>2. randomServers' \in ServerLists({parseURL[url]}, parseURL[url])
        BY <1>2 DEF NewWithoutConfig, SetServersAlone
    <2>3. randomServers' \in Seq(Servers) /\ randomServers' # <<>>
        BY <2>1, <2>2, ServerListFacts, Zenon
    <2>4. Head(randomServers') \in Servers
        BY <2>3
    <2> QED
        BY <1>2, <2>1, <2>3, <2>4, Zenon
        DEF IInv, TypeOK, NewWithoutConfig, SetServersAlone, vars, lbVars,
            dialVars, boundVars
<1>3. ASSUME WriteConfigOpen PROVE TypeOK'
    BY <1>3
    DEF IInv, TypeOK, ConfigFiles, WriteConfigOpen, PartialFile, vars, lbVars,
        dialVars, boundVars
<1>4. ASSUME WriteConfigWrite PROVE TypeOK'
    BY <1>4, Zenon
    DEF IInv, TypeOK, ConfigFiles, WriteConfigWrite, SavedFile, vars, lbVars,
        dialVars, boundVars
<1>5. ASSUME NewFails PROVE TypeOK'
    BY <1>5, BlankMemory, Zenon
    DEF IInv, TypeOK, NewFails, MemoryLost, vars, lbVars, dialVars, boundVars
<1>6. ASSUME UpdateNotSaved PROVE TypeOK'
    BY <1>6, AddressAssumption, BoundAssumption
    DEF IInv, TypeOK, Active, Returned, UpdateNotSaved, vars, lbVars, dialVars,
        boundVars
<1>7. ASSUME NEW input \in SUBSET (Servers \cup {Empty}),
    UpdateSetServers(input) PROVE TypeOK'
    <2>1. sortServers(input) \subseteq Servers
        BY DEF sortServers
    <2>2. randomServers' \in Seq(Servers)
        BY <1>7, <2>1, ShuffleFacts DEF UpdateSetServers
    <2> QED
        BY <1>7, <2>1, <2>2, BoundAssumption
        DEF IInv, TypeOK, UpdateSetServers, vars, lbVars, dialVars, boundVars
<1>8. ASSUME UpdateAppendOriginal PROVE TypeOK'
    BY <1>8, AddressAssumption
    DEF IInv, TypeOK, originalServerAddress, UpdateAppendOriginal, vars,
        lbVars, dialVars, boundVars
<1>9. ASSUME UpdateCurrent PROVE TypeOK'
    <2>1. randomServers \in Seq(Servers) /\ randomServers # <<>>
        BY <1>9 DEF IInv, TypeOK, Listed, Locks, UpdateCurrent
    <2>2. randomServers[1] \in Servers
        BY <2>1
    <2> QED
        BY <1>9, <2>2
        DEF IInv, TypeOK, UpdateCurrent, vars, lbVars, dialVars, boundVars
<1>10. ASSUME UpdateIndex PROVE TypeOK'
    BY <1>10, AddressAssumption, BoundAssumption
    DEF IInv, TypeOK, Active, Returned, UpdateIndex, vars, lbVars, dialVars,
        boundVars
<1>11. ASSUME Crash PROVE TypeOK'
    <2>1. crashes' \in 0 .. MaxCrashes /\ 0 \in Nat
        BY <1>11, BoundAssumption DEF IInv, TypeOK, Crash
    <2> QED
        BY <1>11, <2>1, BlankMemory, Zenon
        DEF IInv, TypeOK, Crash, MemoryLost, vars, lbVars, dialVars, boundVars
<1>12. ASSUME NEW d \in Dialers, Dial(d) PROVE TypeOK'
    BY <1>12, AddressAssumption, BoundAssumption
    DEF IInv, TypeOK, Active, Returned, Dial, Goto, vars, lbVars, dialVars,
        boundVars
<1>13. ASSUME NEW d \in Dialers, ReadTarget(d) PROVE TypeOK'
    BY <1>13, AddressAssumption, BoundAssumption
    DEF IInv, TypeOK, Active, Returned, ReadTarget, Goto, vars, lbVars,
        dialVars, boundVars
<1>14. ASSUME NEW d \in Dialers, DialOK(d) PROVE TypeOK'
    BY <1>14, AddressAssumption, BoundAssumption
    DEF IInv, TypeOK, Active, Returned, DialOK, Return, Goto, vars, lbVars,
        dialVars, boundVars
<1>15. ASSUME NEW d \in Dialers, DialError(d) PROVE TypeOK'
    BY <1>15, AddressAssumption, BoundAssumption
    DEF IInv, TypeOK, Active, Returned, DialError, Goto, vars, lbVars,
        dialVars, boundVars
<1>16. ASSUME NEW d \in Dialers, NextServerKeeps(d) PROVE TypeOK'
    BY <1>16, AddressAssumption, BoundAssumption
    DEF IInv, TypeOK, Active, Returned, NextServerKeeps, Goto, Report, vars,
        lbVars, dialVars, boundVars
<1>17. ASSUME NEW d \in Dialers, NextServerWrap(d) PROVE TypeOK'
    BY <1>17, AddressAssumption, BoundAssumption
    DEF IInv, TypeOK, Active, Returned, NextServerWrap, Goto, vars, lbVars,
        dialVars, boundVars
<1>18. ASSUME NEW d \in Dialers, NextServerAdvance(d) PROVE TypeOK'
    <2>1. process = "up" /\ mutex = d
        BY <1>18 DEF IInv, TypeOK, Locks, NextServerAdvance
    <2>2. nextServerIndex + 1 \in 1 .. Len(randomServers)
        BY <2>1 DEF IInv, TypeOK, Indexed
    <2>3. randomServers[nextServerIndex + 1] \in Servers
        BY <2>2 DEF IInv, TypeOK
    <2> QED
        BY <1>18, <2>3
        DEF IInv, TypeOK, Active, NextServerAdvance, Goto, vars, lbVars,
            dialVars, boundVars
<1>19. ASSUME NEW d \in Dialers, NextServerIncr(d) PROVE TypeOK'
    BY <1>19, AddressAssumption, BoundAssumption
    DEF IInv, TypeOK, Active, Returned, NextServerIncr, Goto, Report, vars,
        lbVars, dialVars, boundVars
<1>20. ASSUME NEW d \in Dialers, Canceled(d) PROVE TypeOK'
    BY <1>20, AddressAssumption, BoundAssumption
    DEF IInv, TypeOK, Active, Returned, Canceled, Return, Goto, vars, lbVars,
        dialVars, boundVars
<1>21. ASSUME NEW d \in Dialers, Clamp(d) PROVE TypeOK'
    BY <1>21, AddressAssumption, BoundAssumption
    DEF IInv, TypeOK, Active, Returned, Clamp, Goto, vars, lbVars, dialVars,
        boundVars
<1>22. ASSUME NEW d \in Dialers, AllFailed(d) PROVE TypeOK'
    BY <1>22, AddressAssumption, BoundAssumption
    DEF IInv, TypeOK, Active, Returned, AllFailed, Return, Goto, vars, lbVars,
        dialVars, boundVars
<1>23. ASSUME NEW d \in Dialers, TryAgain(d) PROVE TypeOK'
    BY <1>23, AddressAssumption, BoundAssumption
    DEF IInv, TypeOK, Active, Returned, TryAgain, Goto, vars, lbVars, dialVars,
        boundVars
<1>24. ASSUME NEW d \in Dialers, Timeout(d) PROVE TypeOK'
    BY <1>24, AddressAssumption, BoundAssumption
    DEF IInv, TypeOK, Active, Returned, Timeout, vars, lbVars, dialVars,
        boundVars
<1>25. CASE UNCHANGED vars
    BY <1>25 DEF IInv, TypeOK, vars, lbVars, dialVars, boundVars
<1> QED
    BY <1>1, <1>2, <1>3, <1>4, <1>5, <1>6, <1>7, <1>8, <1>9, <1>10, <1>11,
        <1>12, <1>13, <1>14, <1>15, <1>16, <1>17, <1>18, <1>19, <1>20, <1>21,
        <1>22, <1>23, <1>24, <1>25
    DEF Next, New, WriteConfig, SetServers, Update, DialStep, NextServerEnter

\* The mutex is held by whoever is between its two ends.
LEMMA LocksStep ==
    ASSUME IInv, [Next]_vars
    PROVE  Locks'
<1>1. ASSUME NEW url \in URLs, NewFromConfig(url) PROVE Locks'
    BY <1>1, DialerAssumption
    DEF IInv, TypeOK, Locks, Active, Returned, NewFromConfig, SetServersAlone,
        vars, lbVars, dialVars, boundVars
<1>2. ASSUME NEW url \in URLs, NewWithoutConfig(url) PROVE Locks'
    BY <1>2, DialerAssumption
    DEF IInv, TypeOK, Locks, Active, Returned, NewWithoutConfig,
        SetServersAlone, vars, lbVars, dialVars, boundVars
<1>3. ASSUME WriteConfigOpen PROVE Locks'
    BY <1>3, DialerAssumption
    DEF IInv, TypeOK, Locks, Active, Returned, WriteConfigOpen, PartialFile,
        vars, lbVars, dialVars, boundVars
<1>4. ASSUME WriteConfigWrite PROVE Locks'
    BY <1>4, DialerAssumption
    DEF IInv, TypeOK, Locks, Active, Returned, WriteConfigWrite, SavedFile,
        vars, lbVars, dialVars, boundVars
<1>5. ASSUME NewFails PROVE Locks'
    BY <1>5, DialerAssumption
    DEF IInv, TypeOK, Locks, Active, Returned, NewFails, MemoryLost, vars,
        lbVars, dialVars, boundVars
<1>6. ASSUME UpdateNotSaved PROVE Locks'
    BY <1>6, DialerAssumption
    DEF IInv, TypeOK, Locks, Active, Returned, UpdateNotSaved, vars, lbVars,
        dialVars, boundVars
<1>7. ASSUME NEW input \in SUBSET (Servers \cup {Empty}),
    UpdateSetServers(input) PROVE Locks'
    BY <1>7, DialerAssumption
    DEF IInv, TypeOK, Locks, Active, Returned, UpdateSetServers, vars, lbVars,
        dialVars, boundVars
<1>8. ASSUME UpdateAppendOriginal PROVE Locks'
    BY <1>8, DialerAssumption
    DEF IInv, TypeOK, Locks, Active, Returned, UpdateAppendOriginal, vars,
        lbVars, dialVars, boundVars
<1>9. ASSUME UpdateCurrent PROVE Locks'
    BY <1>9, DialerAssumption
    DEF IInv, TypeOK, Locks, Active, Returned, UpdateCurrent, vars, lbVars,
        dialVars, boundVars
<1>10. ASSUME UpdateIndex PROVE Locks'
    BY <1>10, DialerAssumption
    DEF IInv, TypeOK, Locks, Active, Returned, UpdateIndex, vars, lbVars,
        dialVars, boundVars
<1>11. ASSUME Crash PROVE Locks'
    BY <1>11, DialerAssumption
    DEF IInv, TypeOK, Locks, Active, Returned, Crash, MemoryLost, vars, lbVars,
        dialVars, boundVars
<1>12. ASSUME NEW d \in Dialers, Dial(d) PROVE Locks'
    BY <1>12, DialerAssumption
    DEF IInv, TypeOK, Locks, Active, Returned, Dial, Goto, vars, lbVars,
        dialVars, boundVars
<1>13. ASSUME NEW d \in Dialers, ReadTarget(d) PROVE Locks'
    BY <1>13, DialerAssumption
    DEF IInv, TypeOK, Locks, Active, Returned, ReadTarget, Goto, vars, lbVars,
        dialVars, boundVars
<1>14. ASSUME NEW d \in Dialers, DialOK(d) PROVE Locks'
    BY <1>14, DialerAssumption
    DEF IInv, TypeOK, Locks, Active, Returned, DialOK, Return, Goto, vars,
        lbVars, dialVars, boundVars
<1>15. ASSUME NEW d \in Dialers, DialError(d) PROVE Locks'
    BY <1>15, DialerAssumption
    DEF IInv, TypeOK, Locks, Active, Returned, DialError, Goto, vars, lbVars,
        dialVars, boundVars
<1>16. ASSUME NEW d \in Dialers, NextServerKeeps(d) PROVE Locks'
    BY <1>16, DialerAssumption
    DEF IInv, TypeOK, Locks, Listed, Active, Returned, NextServerKeeps, Goto,
        Report, vars, lbVars, dialVars, boundVars
<1>17. ASSUME NEW d \in Dialers, NextServerWrap(d) PROVE Locks'
    BY <1>17, DialerAssumption
    DEF IInv, TypeOK, Locks, Active, Returned, NextServerWrap, Goto, vars,
        lbVars, dialVars, boundVars
<1>18. ASSUME NEW d \in Dialers, NextServerAdvance(d) PROVE Locks'
    BY <1>18, DialerAssumption
    DEF IInv, TypeOK, Locks, Active, Returned, NextServerAdvance, Goto, vars,
        lbVars, dialVars, boundVars
<1>19. ASSUME NEW d \in Dialers, NextServerIncr(d) PROVE Locks'
    BY <1>19, DialerAssumption
    DEF IInv, TypeOK, Locks, Active, Returned, NextServerIncr, Goto, Report,
        vars, lbVars, dialVars, boundVars
<1>20. ASSUME NEW d \in Dialers, Canceled(d) PROVE Locks'
    BY <1>20, DialerAssumption
    DEF IInv, TypeOK, Locks, Active, Returned, Canceled, Return, Goto, vars,
        lbVars, dialVars, boundVars
<1>21. ASSUME NEW d \in Dialers, Clamp(d) PROVE Locks'
    BY <1>21, DialerAssumption
    DEF IInv, TypeOK, Locks, Active, Returned, Clamp, Goto, vars, lbVars,
        dialVars, boundVars
<1>22. ASSUME NEW d \in Dialers, AllFailed(d) PROVE Locks'
    BY <1>22, DialerAssumption
    DEF IInv, TypeOK, Locks, Active, Returned, AllFailed, Return, Goto, vars,
        lbVars, dialVars, boundVars
<1>23. ASSUME NEW d \in Dialers, TryAgain(d) PROVE Locks'
    BY <1>23, DialerAssumption
    DEF IInv, TypeOK, Locks, Active, Returned, TryAgain, Goto, vars, lbVars,
        dialVars, boundVars
<1>24. ASSUME NEW d \in Dialers, Timeout(d) PROVE Locks'
    BY <1>24, DialerAssumption
    DEF IInv, TypeOK, Locks, Active, Returned, Timeout, vars, lbVars, dialVars,
        boundVars
<1>25. CASE UNCHANGED vars
    BY <1>25 DEF IInv, Locks, vars, lbVars, dialVars, boundVars
<1> QED
    BY <1>1, <1>2, <1>3, <1>4, <1>5, <1>6, <1>7, <1>8, <1>9, <1>10, <1>11,
        <1>12, <1>13, <1>14, <1>15, <1>16, <1>17, <1>18, <1>19, <1>20, <1>21,
        <1>22, <1>23, <1>24, <1>25
    DEF Next, New, WriteConfig, SetServers, Update, DialStep, NextServerEnter

\* The file is written after every change of the list, unless that fails.
LEMMA SavedStep ==
    ASSUME IInv, [Next]_vars
    PROVE  Saved'
<1>1. ASSUME NEW url \in URLs, NewFromConfig(url) PROVE Saved'
    <2>1. configFile = SavedFile(configFile.ServerURL,
        configFile.ServerAddresses)
        BY <1>1
        DEF IInv, TypeOK, NewFromConfig, ConfigFiles, NoFile, PartialFile,
            SavedFile
    <2>2. ServerURL' = configFile.ServerURL /\ ServerAddresses' = configFile.ServerAddresses
        BY <1>1 DEF IInv, Saved, NewFromConfig, SetServersAlone
    <2> QED
        BY <1>1, <2>1, <2>2
        DEF IInv, Saved, ConfigFollowsServers, NewFromConfig, SetServersAlone,
            vars, lbVars, dialVars, boundVars
<1>2. ASSUME NEW url \in URLs, NewWithoutConfig(url) PROVE Saved'
    BY <1>2
    DEF IInv, Saved, ConfigFollowsServers, SavedFile, NewWithoutConfig,
        SetServersAlone, vars, lbVars, dialVars, boundVars
<1>3. ASSUME WriteConfigOpen PROVE Saved'
    BY <1>3
    DEF IInv, Saved, ConfigFollowsServers, SavedFile, WriteConfigOpen,
        PartialFile, vars, lbVars, dialVars, boundVars
<1>4. ASSUME WriteConfigWrite PROVE Saved'
    BY <1>4
    DEF IInv, TypeOK, Listed, Locks, Saved, ConfigFollowsServers,
        WriteConfigWrite, SavedFile, vars, lbVars, dialVars, boundVars
<1>5. ASSUME NewFails PROVE Saved'
    BY <1>5
    DEF IInv, Saved, ConfigFollowsServers, SavedFile, NewFails, MemoryLost,
        vars, lbVars, dialVars, boundVars
<1>6. ASSUME UpdateNotSaved PROVE Saved'
    BY <1>6
    DEF IInv, Saved, ConfigFollowsServers, SavedFile, UpdateNotSaved, vars,
        lbVars, dialVars, boundVars
<1>7. ASSUME NEW input \in SUBSET (Servers \cup {Empty}),
    UpdateSetServers(input) PROVE Saved'
    BY <1>7
    DEF IInv, Saved, ConfigFollowsServers, SavedFile, UpdateSetServers, vars,
        lbVars, dialVars, boundVars
<1>8. ASSUME UpdateAppendOriginal PROVE Saved'
    BY <1>8
    DEF IInv, Saved, ConfigFollowsServers, SavedFile, UpdateAppendOriginal,
        vars, lbVars, dialVars, boundVars
<1>9. ASSUME UpdateCurrent PROVE Saved'
    BY <1>9
    DEF IInv, Saved, ConfigFollowsServers, SavedFile, UpdateCurrent, vars,
        lbVars, dialVars, boundVars
<1>10. ASSUME UpdateIndex PROVE Saved'
    BY <1>10
    DEF IInv, Saved, ConfigFollowsServers, SavedFile, UpdateIndex, vars,
        lbVars, dialVars, boundVars
<1>11. ASSUME Crash PROVE Saved'
    BY <1>11
    DEF IInv, Saved, ConfigFollowsServers, SavedFile, Crash, MemoryLost, vars,
        lbVars, dialVars, boundVars
<1>12. ASSUME NEW d \in Dialers, Dial(d) PROVE Saved'
    BY <1>12
    DEF IInv, Saved, ConfigFollowsServers, SavedFile, Dial, Goto, vars, lbVars,
        dialVars, boundVars
<1>13. ASSUME NEW d \in Dialers, ReadTarget(d) PROVE Saved'
    BY <1>13
    DEF IInv, Saved, ConfigFollowsServers, SavedFile, ReadTarget, Goto, vars,
        lbVars, dialVars, boundVars
<1>14. ASSUME NEW d \in Dialers, DialOK(d) PROVE Saved'
    BY <1>14
    DEF IInv, Saved, ConfigFollowsServers, SavedFile, DialOK, Return, Goto,
        vars, lbVars, dialVars, boundVars
<1>15. ASSUME NEW d \in Dialers, DialError(d) PROVE Saved'
    BY <1>15
    DEF IInv, Saved, ConfigFollowsServers, SavedFile, DialError, Goto, vars,
        lbVars, dialVars, boundVars
<1>16. ASSUME NEW d \in Dialers, NextServerKeeps(d) PROVE Saved'
    BY <1>16
    DEF IInv, Saved, ConfigFollowsServers, SavedFile, NextServerKeeps, Goto,
        Report, vars, lbVars, dialVars, boundVars
<1>17. ASSUME NEW d \in Dialers, NextServerWrap(d) PROVE Saved'
    BY <1>17
    DEF IInv, Saved, ConfigFollowsServers, SavedFile, NextServerWrap, Goto,
        vars, lbVars, dialVars, boundVars
<1>18. ASSUME NEW d \in Dialers, NextServerAdvance(d) PROVE Saved'
    BY <1>18
    DEF IInv, Saved, ConfigFollowsServers, SavedFile, NextServerAdvance, Goto,
        vars, lbVars, dialVars, boundVars
<1>19. ASSUME NEW d \in Dialers, NextServerIncr(d) PROVE Saved'
    BY <1>19
    DEF IInv, Saved, ConfigFollowsServers, SavedFile, NextServerIncr, Goto,
        Report, vars, lbVars, dialVars, boundVars
<1>20. ASSUME NEW d \in Dialers, Canceled(d) PROVE Saved'
    BY <1>20
    DEF IInv, Saved, ConfigFollowsServers, SavedFile, Canceled, Return, Goto,
        vars, lbVars, dialVars, boundVars
<1>21. ASSUME NEW d \in Dialers, Clamp(d) PROVE Saved'
    BY <1>21
    DEF IInv, Saved, ConfigFollowsServers, SavedFile, Clamp, Goto, vars,
        lbVars, dialVars, boundVars
<1>22. ASSUME NEW d \in Dialers, AllFailed(d) PROVE Saved'
    BY <1>22
    DEF IInv, Saved, ConfigFollowsServers, SavedFile, AllFailed, Return, Goto,
        vars, lbVars, dialVars, boundVars
<1>23. ASSUME NEW d \in Dialers, TryAgain(d) PROVE Saved'
    BY <1>23
    DEF IInv, Saved, ConfigFollowsServers, SavedFile, TryAgain, Goto, vars,
        lbVars, dialVars, boundVars
<1>24. ASSUME NEW d \in Dialers, Timeout(d) PROVE Saved'
    BY <1>24
    DEF IInv, Saved, ConfigFollowsServers, SavedFile, Timeout, vars, lbVars,
        dialVars, boundVars
<1>25. CASE UNCHANGED vars
    BY <1>25
    DEF IInv, Saved, ConfigFollowsServers, SavedFile, vars, lbVars, dialVars,
        boundVars
<1> QED
    BY <1>1, <1>2, <1>3, <1>4, <1>5, <1>6, <1>7, <1>8, <1>9, <1>10, <1>11,
        <1>12, <1>13, <1>14, <1>15, <1>16, <1>17, <1>18, <1>19, <1>20, <1>21,
        <1>22, <1>23, <1>24, <1>25
    DEF Next, New, WriteConfig, SetServers, Update, DialStep, NextServerEnter

\* The list stays what setServers makes it.
LEMMA ListedStep ==
    ASSUME IInv, [Next]_vars
    PROVE  Listed'
<1>1. ASSUME NEW url \in URLs, NewFromConfig(url) PROVE Listed'
    <2> DEFINE A == IF configFile.ServerAddresses = {} THEN {parseURL[url]}
                      ELSE configFile.ServerAddresses
    <2>1. parseURL[url] \in Servers
        BY AddressAssumption
    <2>2. configFile.ServerAddresses \subseteq Servers
        BY <1>1
        DEF IInv, TypeOK, NewFromConfig, ConfigFiles, NoFile, PartialFile
    <2>3. A \subseteq Servers /\ A # {}
        BY <2>1, <2>2
    <2>4. randomServers' \in ServerLists(A,
        parseURL[url]) /\ ServerAddresses' = A
        BY <1>1 DEF NewFromConfig, SetServersAlone
    <2>5. updater' # "append" /\ originalServerAddress' = parseURL[url]
        BY <1>1 DEF NewFromConfig, IInv, Locks, originalServerAddress
    <2> HIDE DEF A
    <2> QED
        BY <2>1, <2>3, <2>4, <2>5, ServerListFacts, Zenon DEF Listed
<1>2. ASSUME NEW url \in URLs, NewWithoutConfig(url) PROVE Listed'
    <2>1. parseURL[url] \in Servers
        BY AddressAssumption
    <2>2. /\ randomServers' \in ServerLists({parseURL[url]}, parseURL[url])
          /\ ServerAddresses' = {parseURL[url]}
        BY <1>2 DEF NewWithoutConfig, SetServersAlone
    <2>3. updater' # "append" /\ originalServerAddress' = parseURL[url]
        BY <1>2 DEF NewWithoutConfig, originalServerAddress
    <2> QED
        BY <2>1, <2>2, <2>3, ServerListFacts, Zenon DEF Listed
<1>3. ASSUME WriteConfigOpen PROVE Listed'
    BY <1>3
    DEF IInv, TypeOK, Locks, Listed, originalServerAddress, WriteConfigOpen,
        PartialFile, vars, lbVars, dialVars, boundVars
<1>4. ASSUME WriteConfigWrite PROVE Listed'
    BY <1>4
    DEF IInv, TypeOK, Locks, Listed, originalServerAddress, WriteConfigWrite,
        SavedFile, vars, lbVars, dialVars, boundVars
<1>5. ASSUME NewFails PROVE Listed'
    BY <1>5
    DEF IInv, TypeOK, Locks, Listed, originalServerAddress, NewFails,
        MemoryLost, vars, lbVars, dialVars, boundVars
<1>6. ASSUME UpdateNotSaved PROVE Listed'
    BY <1>6
    DEF IInv, TypeOK, Locks, Listed, originalServerAddress, UpdateNotSaved,
        vars, lbVars, dialVars, boundVars
<1>7. ASSUME NEW input \in SUBSET (Servers \cup {Empty}),
    UpdateSetServers(input) PROVE Listed'
    <2>1. sortServers(input) \subseteq Servers
        BY DEF sortServers
    <2> QED
        BY <1>7, <2>1, ShuffleFacts DEF UpdateSetServers, Listed
<1>8. ASSUME UpdateAppendOriginal PROVE Listed'
    <2>1. /\ randomServers \in Seq(Servers)
          /\ randomServers # <<>>
          /\ IsInjective(randomServers)
          /\ Range(randomServers) = ServerAddresses
          /\ originalServerAddress \in Servers
        BY <1>8, AddressAssumption
        DEF IInv, TypeOK, Locks, Listed, UpdateAppendOriginal,
            originalServerAddress
    <2>2. CASE originalServerAddress \in ServerAddresses
        BY <1>8, <2>1, <2>2
        DEF IInv, Listed, Locks, UpdateAppendOriginal, originalServerAddress
    <2>3. CASE originalServerAddress \notin ServerAddresses
        <3>1. randomServers' = Append(randomServers, originalServerAddress)
            BY <1>8, <2>3 DEF UpdateAppendOriginal
        <3>2. /\ randomServers' # <<>>
              /\ IsInjective(randomServers')
              /\ Range(randomServers') = ServerAddresses \cup {originalServerAddress}
            BY <2>1, <2>3, <3>1, AppendFacts
        <3>3. /\ ServerAddresses' = ServerAddresses
              /\ ServerAddresses # {}
              /\ originalServerAddress' = originalServerAddress
              /\ updater' = "current"
            BY <1>8
            DEF IInv, Locks, Listed, UpdateAppendOriginal,
                originalServerAddress
        <3> QED
            BY <3>2, <3>3 DEF Listed
    <2> QED
        BY <2>2, <2>3
<1>9. ASSUME UpdateCurrent PROVE Listed'
    BY <1>9
    DEF IInv, TypeOK, Locks, Listed, originalServerAddress, UpdateCurrent,
        vars, lbVars, dialVars, boundVars
<1>10. ASSUME UpdateIndex PROVE Listed'
    BY <1>10
    DEF IInv, TypeOK, Locks, Listed, originalServerAddress, UpdateIndex, vars,
        lbVars, dialVars, boundVars
<1>11. ASSUME Crash PROVE Listed'
    BY <1>11
    DEF IInv, TypeOK, Locks, Listed, originalServerAddress, Crash, MemoryLost,
        vars, lbVars, dialVars, boundVars
<1>12. ASSUME NEW d \in Dialers, Dial(d) PROVE Listed'
    BY <1>12
    DEF IInv, TypeOK, Locks, Listed, originalServerAddress, Dial, Goto, vars,
        lbVars, dialVars, boundVars
<1>13. ASSUME NEW d \in Dialers, ReadTarget(d) PROVE Listed'
    BY <1>13
    DEF IInv, TypeOK, Locks, Listed, originalServerAddress, ReadTarget, Goto,
        vars, lbVars, dialVars, boundVars
<1>14. ASSUME NEW d \in Dialers, DialOK(d) PROVE Listed'
    BY <1>14
    DEF IInv, TypeOK, Locks, Listed, originalServerAddress, DialOK, Return,
        Goto, vars, lbVars, dialVars, boundVars
<1>15. ASSUME NEW d \in Dialers, DialError(d) PROVE Listed'
    BY <1>15
    DEF IInv, TypeOK, Locks, Listed, originalServerAddress, DialError, Goto,
        vars, lbVars, dialVars, boundVars
<1>16. ASSUME NEW d \in Dialers, NextServerKeeps(d) PROVE Listed'
    BY <1>16
    DEF IInv, TypeOK, Locks, Listed, originalServerAddress, NextServerKeeps,
        Goto, Report, vars, lbVars, dialVars, boundVars
<1>17. ASSUME NEW d \in Dialers, NextServerWrap(d) PROVE Listed'
    BY <1>17
    DEF IInv, TypeOK, Locks, Listed, originalServerAddress, NextServerWrap,
        Goto, vars, lbVars, dialVars, boundVars
<1>18. ASSUME NEW d \in Dialers, NextServerAdvance(d) PROVE Listed'
    BY <1>18
    DEF IInv, TypeOK, Locks, Listed, originalServerAddress, NextServerAdvance,
        Goto, vars, lbVars, dialVars, boundVars
<1>19. ASSUME NEW d \in Dialers, NextServerIncr(d) PROVE Listed'
    BY <1>19
    DEF IInv, TypeOK, Locks, Listed, originalServerAddress, NextServerIncr,
        Goto, Report, vars, lbVars, dialVars, boundVars
<1>20. ASSUME NEW d \in Dialers, Canceled(d) PROVE Listed'
    BY <1>20
    DEF IInv, TypeOK, Locks, Listed, originalServerAddress, Canceled, Return,
        Goto, vars, lbVars, dialVars, boundVars
<1>21. ASSUME NEW d \in Dialers, Clamp(d) PROVE Listed'
    BY <1>21
    DEF IInv, TypeOK, Locks, Listed, originalServerAddress, Clamp, Goto, vars,
        lbVars, dialVars, boundVars
<1>22. ASSUME NEW d \in Dialers, AllFailed(d) PROVE Listed'
    BY <1>22
    DEF IInv, TypeOK, Locks, Listed, originalServerAddress, AllFailed, Return,
        Goto, vars, lbVars, dialVars, boundVars
<1>23. ASSUME NEW d \in Dialers, TryAgain(d) PROVE Listed'
    BY <1>23
    DEF IInv, TypeOK, Locks, Listed, originalServerAddress, TryAgain, Goto,
        vars, lbVars, dialVars, boundVars
<1>24. ASSUME NEW d \in Dialers, Timeout(d) PROVE Listed'
    BY <1>24
    DEF IInv, TypeOK, Locks, Listed, originalServerAddress, Timeout, vars,
        lbVars, dialVars, boundVars
<1>25. CASE UNCHANGED vars
    BY <1>25
    DEF IInv, TypeOK, Locks, Listed, originalServerAddress, vars, lbVars,
        dialVars, boundVars
<1> QED
    BY <1>1, <1>2, <1>3, <1>4, <1>5, <1>6, <1>7, <1>8, <1>9, <1>10, <1>11,
        <1>12, <1>13, <1>14, <1>15, <1>16, <1>17, <1>18, <1>19, <1>20, <1>21,
        <1>22, <1>23, <1>24, <1>25
    DEF Next, New, WriteConfig, SetServers, Update, DialStep, NextServerEnter

\* The index follows the current server through every phase.
LEMMA IndexedStep ==
    ASSUME IInv, [Next]_vars
    PROVE  Indexed'
<1>1. ASSUME NEW url \in URLs, NewFromConfig(url) PROVE Indexed'
    <2>1. mutex' = "free" /\ updater' # "index"
        BY <1>1, DialerAssumption, Zenon DEF IInv, TypeOK, Locks, NewFromConfig
    <2>2. process' # "down" /\ nextServerIndex' = 1 /\ currentServerAddress' = Head(randomServers')
        BY <1>1 DEF NewFromConfig, SetServersAlone
    <2>3. randomServers' \in Seq(Servers) /\ randomServers' # <<>>
        BY <2>2, TypeStep, ListedStep DEF TypeOK, Listed
    <2> QED
        BY <2>1, <2>2, <2>3, NewIndexed
<1>2. ASSUME NEW url \in URLs, NewWithoutConfig(url) PROVE Indexed'
    <2>1. mutex' = "free" /\ updater' # "index"
        BY <1>2, DialerAssumption, Zenon DEF IInv, TypeOK, Locks, NewWithoutConfig
    <2>2. process' # "down" /\ nextServerIndex' = 1 /\ currentServerAddress' = Head(randomServers')
        BY <1>2 DEF NewWithoutConfig, SetServersAlone
    <2>3. randomServers' \in Seq(Servers) /\ randomServers' # <<>>
        BY <2>2, TypeStep, ListedStep DEF TypeOK, Listed
    <2> QED
        BY <2>1, <2>2, <2>3, NewIndexed
<1>3. ASSUME WriteConfigOpen PROVE Indexed'
    BY <1>3, SameIndexed DEF IInv, Locks, WriteConfigOpen, lbVars, dialVars
<1>4. ASSUME WriteConfigWrite PROVE Indexed'
    BY <1>4, SameIndexed DEF IInv, Locks, WriteConfigWrite, lbVars, dialVars
<1>5. ASSUME NewFails PROVE Indexed'
    BY <1>5 DEF NewFails, MemoryLost, Indexed
<1>6. ASSUME UpdateNotSaved PROVE Indexed'
    BY <1>6, SameIndexed DEF IInv, Locks, UpdateNotSaved, lbVars, dialVars
<1>7. ASSUME NEW input \in SUBSET (Servers \cup {Empty}),
    UpdateSetServers(input) PROVE Indexed'
    BY <1>7, UpdateIndexed DEF UpdateSetServers
<1>8. ASSUME UpdateAppendOriginal PROVE Indexed'
    BY <1>8, UpdateIndexed DEF IInv, Locks, UpdateAppendOriginal
<1>9. ASSUME UpdateCurrent PROVE Indexed'
    BY <1>9, UpdateIndexed DEF IInv, Locks, UpdateCurrent, lbVars
<1>10. ASSUME UpdateIndex PROVE Indexed'
    <2>1. mutex' = "free" /\ updater' # "index" /\ process # "down" /\ nextServerIndex' = 1
        BY <1>10 DEF IInv, Locks, UpdateIndex
    <2>2. currentServerAddress' = randomServers'[1]
        BY <1>10, <2>1 DEF IInv, Indexed, UpdateIndex, lbVars
    <2>3. randomServers' \in Seq(Servers) /\ randomServers' # <<>>
        BY <1>10, <2>1 DEF IInv, TypeOK, Listed, UpdateIndex, lbVars
    <2> QED
        BY <2>1, <2>2, <2>3, NewIndexed
<1>11. ASSUME Crash PROVE Indexed'
    BY <1>11 DEF Crash, MemoryLost, Indexed
<1>12. ASSUME NEW d \in Dialers, Dial(d) PROVE Indexed'
    <2>1. mutex # d
        BY <1>12, NotHolder DEF IInv, Dial, Returned
    <2>2. \A e \in Dialers : e # d =>
              pc'[e] = pc[e] /\ targetServer'[e] = targetServer[e]
        BY <1>12, GotoFacts DEF IInv, Dial
    <2> QED
        BY <1>12, <2>1, <2>2, SameIndexed DEF IInv, Dial, lbVars
<1>13. ASSUME NEW d \in Dialers, ReadTarget(d) PROVE Indexed'
    <2>1. mutex # d
        BY <1>13, NotHolder DEF IInv, ReadTarget
    <2>2. \A e \in Dialers : e # d =>
              pc'[e] = pc[e] /\ targetServer'[e] = targetServer[e]
        BY <1>13, GotoFacts DEF IInv, TypeOK, ReadTarget
    <2> QED
        BY <1>13, <2>1, <2>2, SameIndexed DEF IInv, ReadTarget, lbVars
<1>14. ASSUME NEW d \in Dialers, DialOK(d) PROVE Indexed'
    <2>1. mutex # d
        BY <1>14, NotHolder DEF IInv, DialOK
    <2>2. \A e \in Dialers : e # d =>
              pc'[e] = pc[e] /\ targetServer'[e] = targetServer[e]
        BY <1>14, ReturnFacts DEF IInv, DialOK
    <2> QED
        BY <1>14, <2>1, <2>2, SameIndexed, Zenon DEF IInv, DialOK, lbVars
<1>15. ASSUME NEW d \in Dialers, DialError(d) PROVE Indexed'
    <2>1. mutex # d
        BY <1>15, NotHolder DEF IInv, DialError
    <2>2. \A e \in Dialers : e # d =>
              pc'[e] = pc[e] /\ targetServer'[e] = targetServer[e]
        BY <1>15, GotoFacts DEF IInv, DialError
    <2> QED
        BY <1>15, <2>1, <2>2, SameIndexed DEF IInv, DialError, lbVars
<1>16. ASSUME NEW d \in Dialers, NextServerKeeps(d) PROVE Indexed'
    <2>1. mutex # d
        BY <1>16, NotHolder DEF IInv, NextServerKeeps
    <2>2. \A e \in Dialers : e # d =>
              pc'[e] = pc[e] /\ targetServer'[e] = targetServer[e]
        BY <1>16, GotoFacts DEF IInv, NextServerKeeps
    <2> QED
        BY <1>16, <2>1, <2>2, SameIndexed DEF IInv, NextServerKeeps, lbVars
<1>17. ASSUME NEW d \in Dialers, NextServerWrap(d) PROVE Indexed'
    <2>1. process = "up" /\ mutex = "free" /\ mutex' = d
        BY <1>17 DEF IInv, TypeOK, Locks, NextServerWrap
    <2>2. /\ updater # "index"
          /\ d # "free"
          /\ d # "update"
        BY <2>1, DialerAssumption DEF IInv, Locks
    <2>3. /\ nextServerIndex \in 1 .. Len(randomServers)
          /\ currentServerAddress = randomServers[nextServerIndex]
        BY <2>1 DEF IInv, Indexed
    <2>4. /\ Len(randomServers) > 1
          /\ targetServer[d] = currentServerAddress
          /\ nextServerIndex' = IF nextServerIndex >= Len(randomServers)
                                  THEN 0 ELSE nextServerIndex
          /\ UNCHANGED <<randomServers, currentServerAddress, targetServer, updater>>
        BY <1>17 DEF NextServerWrap, lbVars
    <2>5. pc'[d] = "advance"
        BY <1>17 DEF IInv, TypeOK, NextServerWrap, Goto
    <2>6. /\ nextServerIndex' \in 0 .. Len(randomServers) - 1
          /\ Position' = nextServerIndex
        <3>1. Len(randomServers) \in Nat
            BY DEF IInv, TypeOK
        <3> QED
            BY <2>3, <2>4, <3>1 DEF Position
    <2> QED
        BY <2>1, <2>2, <2>3, <2>4, <2>5, <2>6 DEF Indexed
<1>18. ASSUME NEW d \in Dialers, NextServerAdvance(d) PROVE Indexed'
    <2>1. process = "up" /\ mutex = d /\ mutex' = d
        BY <1>18 DEF IInv, TypeOK, Locks, NextServerAdvance
    <2>2. updater # "index" /\ d # "free"
        BY <2>1, DialerAssumption DEF IInv, Locks
    <2>3. /\ Len(randomServers) > 1
          /\ nextServerIndex \in 0 .. Len(randomServers) - 1
          /\ targetServer[d] = randomServers[Position]
        BY <2>1 DEF IInv, Indexed
    <2>4. /\ currentServerAddress' = randomServers[nextServerIndex + 1]
          /\ UNCHANGED <<randomServers, nextServerIndex, targetServer, updater>>
        BY <1>18 DEF NextServerAdvance, lbVars
    <2>5. Position' = Position
        BY <2>4 DEF Position
    <2>6. pc'[d] = "incr"
        BY <1>18 DEF IInv, TypeOK, NextServerAdvance, Goto
    <2> QED
        BY <2>1, <2>2, <2>3, <2>4, <2>5, <2>6 DEF Indexed
<1>19. ASSUME NEW d \in Dialers, NextServerIncr(d) PROVE Indexed'
    <2>1. process = "up" /\ mutex = d /\ mutex' = "free"
        BY <1>19 DEF IInv, TypeOK, Locks, NextServerIncr
    <2>2. updater # "index" /\ \A e \in Dialers : mutex' # e
        BY <2>1, DialerAssumption DEF IInv, Locks
    <2>3. /\ nextServerIndex \in 0 .. Len(randomServers) - 1
          /\ currentServerAddress = randomServers[nextServerIndex + 1]
        BY <1>19, <2>1 DEF IInv, Indexed, NextServerIncr
    <2>4. /\ nextServerIndex' = nextServerIndex + 1
          /\ UNCHANGED <<randomServers, currentServerAddress, updater>>
        BY <1>19 DEF NextServerIncr, lbVars
    <2>5. nextServerIndex + 1 \in 1 .. Len(randomServers)
        <3>1. Len(randomServers) \in Nat
            BY DEF IInv, TypeOK
        <3> QED
            BY <2>3, <3>1
    <2> QED
        BY <2>1, <2>2, <2>3, <2>4, <2>5 DEF Indexed
<1>20. ASSUME NEW d \in Dialers, Canceled(d) PROVE Indexed'
    <2>1. mutex # d
        BY <1>20, NotHolder DEF IInv, Canceled
    <2>2. \A e \in Dialers : e # d =>
              pc'[e] = pc[e] /\ targetServer'[e] = targetServer[e]
        BY <1>20, ReturnFacts DEF IInv, Canceled
    <2> QED
        BY <1>20, <2>1, <2>2, SameIndexed DEF IInv, Canceled, lbVars
<1>21. ASSUME NEW d \in Dialers, Clamp(d) PROVE Indexed'
    <2>1. mutex # d
        BY <1>21, NotHolder DEF IInv, Clamp
    <2>2. \A e \in Dialers : e # d =>
              pc'[e] = pc[e] /\ targetServer'[e] = targetServer[e]
        BY <1>21, GotoFacts DEF IInv, Clamp
    <2> QED
        BY <1>21, <2>1, <2>2, SameIndexed DEF IInv, Clamp, lbVars
<1>22. ASSUME NEW d \in Dialers, AllFailed(d) PROVE Indexed'
    <2>1. mutex # d
        BY <1>22, NotHolder DEF IInv, AllFailed
    <2>2. \A e \in Dialers : e # d =>
              pc'[e] = pc[e] /\ targetServer'[e] = targetServer[e]
        BY <1>22, ReturnFacts DEF IInv, AllFailed
    <2> QED
        BY <1>22, <2>1, <2>2, SameIndexed DEF IInv, AllFailed, lbVars
<1>23. ASSUME NEW d \in Dialers, TryAgain(d) PROVE Indexed'
    <2>1. mutex # d
        BY <1>23, NotHolder DEF IInv, TryAgain
    <2>2. \A e \in Dialers : e # d =>
              pc'[e] = pc[e] /\ targetServer'[e] = targetServer[e]
        BY <1>23, GotoFacts DEF IInv, TryAgain
    <2> QED
        BY <1>23, <2>1, <2>2, SameIndexed DEF IInv, TryAgain, lbVars
<1>24. ASSUME NEW d \in Dialers, Timeout(d) PROVE Indexed'
    BY <1>24, SameIndexed DEF IInv, Timeout, lbVars
<1>25. CASE UNCHANGED vars
    BY <1>25, SameIndexed DEF IInv, vars, lbVars, dialVars
<1> QED
    BY <1>1, <1>2, <1>3, <1>4, <1>5, <1>6, <1>7, <1>8, <1>9, <1>10, <1>11,
        <1>12, <1>13, <1>14, <1>15, <1>16, <1>17, <1>18, <1>19, <1>20, <1>21,
        <1>22, <1>23, <1>24, <1>25
    DEF Next, New, WriteConfig, SetServers, Update, DialStep, NextServerEnter

\* The walk of an undisturbed dial goes on.
LEMMA WalkedStep ==
    ASSUME IInv, [Next]_vars
    PROVE  WalkedInv'
<1>1. ASSUME NEW url \in URLs, NewFromConfig(url) PROVE WalkedInv'
    <2>1. \A e \in Dialers : pc'[e] = "idle"
        BY <1>1 DEF IInv, Locks, NewFromConfig, dialVars
    <2> QED
        BY <2>1, NoneWalks DEF Active
<1>2. ASSUME NEW url \in URLs, NewWithoutConfig(url) PROVE WalkedInv'
    <2>1. \A e \in Dialers : pc'[e] = "idle"
        BY <1>2 DEF IInv, Locks, NewWithoutConfig, dialVars
    <2> QED
        BY <2>1, NoneWalks DEF Active
<1>3. ASSUME WriteConfigOpen PROVE WalkedInv'
    <2>1. SameList /\ \A e \in Dialers : SameDial(e)
        BY <1>3 DEF WriteConfigOpen, lbVars, dialVars, SameList, SameDial
    <2> QED
        BY <2>1, AllWalk DEF IInv
<1>4. ASSUME WriteConfigWrite PROVE WalkedInv'
    <2>1. SameList /\ \A e \in Dialers : SameDial(e)
        BY <1>4 DEF WriteConfigWrite, lbVars, dialVars, SameList, SameDial
    <2> QED
        BY <2>1, AllWalk DEF IInv
<1>5. ASSUME NewFails PROVE WalkedInv'
    <2>1. \A e \in Dialers : pc'[e] = "idle"
        BY <1>5 DEF NewFails, MemoryLost
    <2> QED
        BY <2>1, NoneWalks DEF Active
<1>6. ASSUME UpdateNotSaved PROVE WalkedInv'
    <2>1. SameList /\ \A e \in Dialers : SameDial(e)
        BY <1>6 DEF UpdateNotSaved, lbVars, dialVars, SameList, SameDial
    <2> QED
        BY <2>1, AllWalk DEF IInv
<1>7. ASSUME NEW input \in SUBSET (Servers \cup {Empty}),
    UpdateSetServers(input) PROVE WalkedInv'
    <2>1. \A e \in Dialers : ~stable'[e]
        BY <1>7 DEF UpdateSetServers
    <2> QED
        BY <2>1, NoneWalks
<1>8. ASSUME UpdateAppendOriginal PROVE WalkedInv'
    <2>1. \A e \in Dialers : ~stable'[e]
        BY <1>8 DEF IInv, Locks, UpdateAppendOriginal, dialVars
    <2> QED
        BY <2>1, NoneWalks
<1>9. ASSUME UpdateCurrent PROVE WalkedInv'
    <2>1. \A e \in Dialers : ~stable'[e]
        BY <1>9 DEF IInv, Locks, UpdateCurrent, dialVars
    <2> QED
        BY <2>1, NoneWalks
<1>10. ASSUME UpdateIndex PROVE WalkedInv'
    <2>1. \A e \in Dialers : ~stable'[e]
        BY <1>10 DEF IInv, Locks, UpdateIndex, dialVars
    <2> QED
        BY <2>1, NoneWalks
<1>11. ASSUME Crash PROVE WalkedInv'
    <2>1. \A e \in Dialers : pc'[e] = "idle"
        BY <1>11 DEF Crash, MemoryLost
    <2> QED
        BY <2>1, NoneWalks DEF Active
<1>12. ASSUME NEW d \in Dialers, Dial(d) PROVE WalkedInv'
    <2> SUFFICES ASSUME NEW e \in Dialers, pc'[e] \in Active, stable'[e]
                 PROVE  WalkedOrNot(e)'
        BY DEF WalkedInv
    <2>1. CASE e = d
        <3>1. /\ pc'[e] = "loop"
              /\ startIndex'[e] = nextServerIndex
              /\ mutex # "update"
              /\ process = "up"
            BY <1>12, <2>1, Zenon DEF IInv, TypeOK, Dial, Goto
        <3>2. nextServerIndex <= Len(randomServers)
            <4>1. Len(randomServers) \in Nat
                BY DEF IInv, TypeOK
            <4>2. \/ nextServerIndex \in 1 .. Len(randomServers)
                  \/ nextServerIndex \in 0 .. Len(randomServers) - 1
                <5>1. mutex = "free" \/ mutex \in Dialers
                    BY <3>1 DEF IInv, TypeOK
                <5> QED
                    BY <3>1, <5>1 DEF IInv, Indexed
            <4> QED
                BY <4>1, <4>2
        <3>3. nextServerIndex' = nextServerIndex /\ randomServers' = randomServers
            BY <1>12 DEF Dial, lbVars
        <3> QED
            BY <3>1, <3>2, <3>3 DEF WalkedOrNot, StartPosition, Position
    <2>2. CASE e # d
        <3>1. SameList /\ SameDial(e)
            BY <1>12, <2>2
            DEF IInv, TypeOK, Dial, Goto, SameList, SameDial, lbVars
        <3>2. WalkedOrNot(e)
            BY <3>1 DEF SameDial, IInv, WalkedInv
        <3> QED
            BY <3>1, <3>2, WalkKept
    <2> QED
        BY <2>1, <2>2
<1>13. ASSUME NEW d \in Dialers, ReadTarget(d) PROVE WalkedInv'
    <2> SUFFICES ASSUME NEW e \in Dialers, pc'[e] \in Active, stable'[e]
                 PROVE  WalkedOrNot(e)'
        BY DEF WalkedInv
    <2>1. CASE e = d
        <3>1. pc[e] = "loop" /\ pc'[e] = "dial" /\ stable[e]
            BY <1>13, <2>1 DEF IInv, TypeOK, ReadTarget, Goto
        <3>2. WalkedOrNot(e)
            BY <3>1 DEF IInv, WalkedInv, Active
        <3>3. mutex = "free" => targetServer'[e] = currentServerAddress
            BY <1>13, <2>1, DialerAssumption
            DEF IInv, TypeOK, Locks, ReadTarget, CurrentBeingWritten
        <3> QED
            BY <1>13, <3>1, <3>2, <3>3
            DEF WalkedOrNot, WalkedBy, StartPosition, Position, ReadTarget,
                Goto, vars, lbVars, dialVars, boundVars
    <2>2. CASE e # d
        <3>1. SameList /\ SameDial(e)
            BY <1>13, <2>2
            DEF IInv, TypeOK, ReadTarget, Goto, SameList, SameDial, lbVars
        <3>2. WalkedOrNot(e)
            BY <3>1 DEF SameDial, IInv, WalkedInv
        <3> QED
            BY <3>1, <3>2, WalkKept
    <2> QED
        BY <2>1, <2>2
<1>14. ASSUME NEW d \in Dialers, DialOK(d) PROVE WalkedInv'
    <2>1. SameList /\ \A e \in Dialers : e # d => SameDial(e)
        BY <1>14, ReturnFacts DEF IInv, DialOK, SameList, SameDial, lbVars
    <2>2. pc'[d] \notin Active
        <3>1. Return(d, "connected")
            BY <1>14 DEF DialOK
        <3>2. pc'[d] = "connected"
            BY <3>1, ReturnFacts DEF IInv
        <3> QED
            BY <3>2 DEF Active
    <2> QED
        BY <2>1, <2>2, OthersWalk DEF IInv
<1>15. ASSUME NEW d \in Dialers, DialError(d) PROVE WalkedInv'
    <2>1. SameList /\ \A e \in Dialers : e # d => SameDial(e)
        BY <1>15, GotoFacts DEF IInv, DialError, SameList, SameDial, lbVars
    <2>2. pc[d] = "dial" /\ pc'[d] = "next" /\ stable'[d] = stable[d]
        BY <1>15, GotoFacts DEF IInv, DialError
    <2>3. ASSUME stable[d] PROVE WalkedOrNot(d)
        BY <2>2, <2>3 DEF IInv, WalkedInv, Active
    <2>4. ASSUME stable[d]
          PROVE  startIndex'[d] = startIndex[d] /\ reported'[d] = reported[d]
        BY <1>15 DEF DialError
    <2>5. ASSUME stable[d] PROVE WalkedOrNot(d)'
        <3>1. /\ StartPosition(d)' = StartPosition(d)
              /\ Position' = Position
              /\ WalkedBy(d)' <=> WalkedBy(d)
            BY <2>1, <2>4, <2>5, SameWalk
        <3> QED
            BY <1>15, <2>1, <2>2, <2>3, <2>4, <2>5, <3>1, Zenon
            DEF WalkedOrNot, SameList, DialError
    <2> QED
        BY <2>1, <2>2, <2>5, OthersWalk DEF IInv
<1>16. ASSUME NEW d \in Dialers, NextServerKeeps(d) PROVE WalkedInv'
    <2> SUFFICES ASSUME NEW e \in Dialers, pc'[e] \in Active, stable'[e]
                 PROVE  WalkedOrNot(e)'
        BY DEF WalkedInv
    <2>1. process = "up" /\ pc[d] = "next" /\ mutex = "free" /\ mutex' = "free"
        BY <1>16 DEF IInv, TypeOK, Locks, NextServerKeeps
    <2>2. /\ pc[e] \in Active
          /\ stable[e]
          /\ pc'[e] = IF e = d THEN "check" ELSE pc[e]
        BY <1>16, <2>1 DEF IInv, TypeOK, NextServerKeeps, Goto, Active
    <2>3. WalkedOrNot(e)
        BY <2>2 DEF IInv, WalkedInv
    <2>4. /\ reported'[e] = reported[e] \cup ({targetServer[d]} \cap Servers)
          /\ randomServers' = randomServers
          /\ currentServerAddress' = currentServerAddress
          /\ targetServer' = targetServer
          /\ StartPosition(e)' = StartPosition(e)
          /\ Position' = Position
          /\ startIndex' = startIndex
        BY <1>16, <2>2, Zenon
        DEF NextServerKeeps, Report, StartPosition, Position, lbVars
    <2>5. WalkedBy(e) => WalkedBy(e)'
        <3>1. reported[e] \subseteq reported'[e]
            BY <2>4
        <3>2. SUFFICES
                ASSUME Walked(randomServers, reported[e], StartPosition(e), Position)
                PROVE  Walked(randomServers, reported'[e], StartPosition(e), Position)
            BY <2>4 DEF WalkedBy
        <3> QED
            BY <3>1, <3>2, WalkedGrows, Zenon
    <2>6. CASE e # d
        BY <2>1, <2>2, <2>3, <2>4, <2>5, <2>6 DEF WalkedOrNot
    <2>7. CASE e = d
        <3>1. WalkedBy(e)'
            <4>1. CASE targetServer[d] # currentServerAddress
                BY <2>1, <2>3, <2>5, <2>7, <4>1 DEF WalkedOrNot
            <4>2. CASE targetServer[d] = currentServerAddress
                <5>1. /\ randomServers \in Seq(Servers)
                      /\ Len(randomServers) <= 1
                      /\ nextServerIndex \in 1 .. Len(randomServers)
                      /\ currentServerAddress = randomServers[nextServerIndex]
                    BY <1>16, <2>1, <4>2
                    DEF IInv, TypeOK, Indexed, NextServerKeeps
                <5>2. Len(randomServers) = 1 /\ nextServerIndex = 1
                    <6>1. Len(randomServers) \in Nat
                        BY <5>1
                    <6> QED
                        BY <5>1, <6>1, OnlyIndex, Zenon
                <5>3. targetServer[d] = randomServers[1] /\ randomServers[1] \in Servers
                    BY <4>2, <5>1, <5>2
                <5> QED
                    <6>1. \A i \in 1 .. Len(randomServers) :
                            randomServers[i] \in reported'[e]
                        BY <2>4, <5>2, <5>3, <2>7
                    <6> QED
                        BY <2>4, <6>1 DEF WalkedBy, Walked
            <4> QED
                BY <4>1, <4>2
        <3> QED
            BY <2>2, <2>3, <2>4, <2>7, <3>1 DEF WalkedOrNot
    <2> QED
        BY <2>6, <2>7
<1>17. ASSUME NEW d \in Dialers, NextServerWrap(d) PROVE WalkedInv'
    <2> SUFFICES ASSUME NEW e \in Dialers, pc'[e] \in Active, stable'[e]
                 PROVE  WalkedOrNot(e)'
        BY DEF WalkedInv
    <2>1. process = "up" /\ mutex = "free" /\ mutex' = d /\ mutex' # "free"
        BY <1>17, DialerAssumption DEF IInv, TypeOK, Locks, NextServerWrap
    <2>2. /\ pc[e] \in Active
          /\ stable[e]
          /\ pc'[e] = IF e = d THEN "advance" ELSE pc[e]
        BY <1>17 DEF IInv, TypeOK, NextServerWrap, Goto, Active
    <2>3. WalkedOrNot(e)
        BY <2>2 DEF IInv, WalkedInv
    <2>4. nextServerIndex \in 1 .. Len(randomServers)
        BY <2>1 DEF IInv, Indexed
    <2>5. Position' = Position
        BY <1>17, <2>4 DEF IInv, TypeOK, NextServerWrap, Position, lbVars
    <2>6. /\ reported' = reported
          /\ randomServers' = randomServers
          /\ startIndex' = startIndex
          /\ StartPosition(e)' = StartPosition(e)
        BY <1>17 DEF NextServerWrap, StartPosition, lbVars
    <2> QED
        BY <2>1, <2>2, <2>3, <2>5, <2>6 DEF WalkedOrNot, WalkedBy
<1>18. ASSUME NEW d \in Dialers, NextServerAdvance(d) PROVE WalkedInv'
    <2>1. SameList /\ \A e \in Dialers : e # d => SameDial(e)
        <3>1. mutex = d /\ d # "free"
            BY <1>18, DialerAssumption DEF IInv, Locks, NextServerAdvance
        <3> QED
            BY <1>18, <3>1, GotoFacts
            DEF IInv, NextServerAdvance, SameList, SameDial, lbVars
    <2>2. pc[d] = "advance" /\ pc'[d] = "incr" /\ stable'[d] = stable[d]
        BY <1>18, GotoFacts DEF IInv, NextServerAdvance
    <2>3. ASSUME stable[d] PROVE WalkedOrNot(d)
        BY <2>2, <2>3 DEF IInv, WalkedInv, Active
    <2>4. ASSUME stable[d]
          PROVE  startIndex'[d] = startIndex[d] /\ reported'[d] = reported[d]
        BY <1>18 DEF NextServerAdvance
    <2>5. ASSUME stable[d] PROVE WalkedOrNot(d)'
        <3>1. /\ StartPosition(d)' = StartPosition(d)
              /\ Position' = Position
              /\ WalkedBy(d)' <=> WalkedBy(d)
            BY <2>1, <2>4, <2>5, SameWalk
        <3> QED
            BY <1>18, <2>1, <2>2, <2>3, <2>4, <2>5, <3>1, Zenon
            DEF WalkedOrNot, SameList, NextServerAdvance
    <2> QED
        BY <2>1, <2>2, <2>5, OthersWalk DEF IInv
<1>19. ASSUME NEW d \in Dialers, NextServerIncr(d) PROVE WalkedInv'
    <2> SUFFICES ASSUME NEW e \in Dialers, pc'[e] \in Active, stable'[e]
                 PROVE  WalkedOrNot(e)'
        BY DEF WalkedInv
    <2>1. process = "up" /\ mutex = d
        BY <1>19 DEF IInv, TypeOK, Locks, NextServerIncr
    <2>2. pc[e] \in Active /\ stable[e]
        BY <1>19 DEF IInv, TypeOK, NextServerIncr, Goto, Active
    <2>3. WalkedOrNot(e)
        BY <2>2 DEF IInv, WalkedInv
    <2>4. /\ Len(randomServers) > 1
          /\ nextServerIndex \in 0 .. Len(randomServers) - 1
          /\ targetServer[d] = randomServers[Position]
        BY <2>1 DEF IInv, Indexed
    <2>5. Position \in 1 .. Len(randomServers) /\ StartPosition(e) \in 1 .. Len(randomServers)
        <3>1. Len(randomServers) \in Nat /\ startIndex[e] \in Nat
            BY DEF IInv, TypeOK
        <3>2. startIndex[e] <= Len(randomServers)
            BY <2>3 DEF WalkedOrNot
        <3> QED
            BY <2>4, <3>1, <3>2 DEF Position, StartPosition
    <2>6. Position' = IF Position = Len(randomServers) THEN 1 ELSE Position + 1
        <3>1. Len(randomServers) \in Nat
            BY DEF IInv, TypeOK
        <3>2. nextServerIndex' = nextServerIndex + 1 /\ randomServers' = randomServers
            BY <1>19 DEF NextServerIncr, lbVars
        <3> QED
            BY <2>4, <3>1, <3>2 DEF Position
    <2>7. /\ reported'[e] = reported[e] \cup ({targetServer[d]} \cap Servers)
          /\ randomServers' = randomServers
          /\ startIndex' = startIndex
          /\ StartPosition(e)' = StartPosition(e)
        BY <1>19, <2>2 DEF NextServerIncr, Report, StartPosition, lbVars
    <2>8. randomServers[Position] \in Servers /\ randomServers \in Seq(Servers)
        BY <2>5 DEF IInv, TypeOK
    <2>9. WalkedBy(e)'
        BY <2>3, <2>4, <2>5, <2>6, <2>7, <2>8, WalkOn, Zenon DEF WalkedOrNot, WalkedBy
    <2> QED
        BY <2>3, <2>7, <2>9 DEF WalkedOrNot
<1>20. ASSUME NEW d \in Dialers, Canceled(d) PROVE WalkedInv'
    <2>1. SameList /\ \A e \in Dialers : e # d => SameDial(e)
        BY <1>20, ReturnFacts DEF IInv, Canceled, SameList, SameDial, lbVars
    <2>2. pc'[d] \notin Active
        <3>1. Return(d, "canceled")
            BY <1>20 DEF Canceled
        <3>2. pc'[d] = "canceled"
            BY <3>1, ReturnFacts DEF IInv
        <3> QED
            BY <3>2 DEF Active
    <2> QED
        BY <2>1, <2>2, OthersWalk DEF IInv
<1>21. ASSUME NEW d \in Dialers, Clamp(d) PROVE WalkedInv'
    <2>1. SameList /\ \A e \in Dialers : e # d => SameDial(e)
        <3>1. \A e \in Dialers : e # d => startIndex'[e] = startIndex[e]
            BY <1>21 DEF IInv, TypeOK, Clamp
        <3> QED
            BY <1>21, <3>1, GotoFacts DEF IInv, Clamp, SameList, SameDial, lbVars
    <2>2. pc[d] = "check" /\ pc'[d] = "compare" /\ stable'[d] = stable[d]
        BY <1>21, GotoFacts, Zenon DEF IInv, Clamp
    <2>3. ASSUME stable[d] PROVE WalkedOrNot(d)
        BY <2>2, <2>3 DEF IInv, WalkedInv, Active
    <2>4. ASSUME stable[d]
          PROVE  startIndex'[d] = startIndex[d] /\ reported'[d] = reported[d]
        <3>1. startIndex[d] <= Len(randomServers)
            BY <2>3, <2>4 DEF WalkedOrNot
        <3>2. startIndex[d] \in Nat /\ Len(randomServers) \in Nat
            BY DEF IInv, TypeOK
        <3>3. ~(startIndex[d] > Len(randomServers))
            BY <3>1, <3>2
        <3> QED
            BY <1>21, <3>3 DEF IInv, TypeOK, Clamp
    <2>5. ASSUME stable[d] PROVE WalkedOrNot(d)'
        <3>1. /\ StartPosition(d)' = StartPosition(d)
              /\ Position' = Position
              /\ WalkedBy(d)' <=> WalkedBy(d)
            BY <2>1, <2>4, <2>5, SameWalk
        <3> QED
            BY <1>21, <2>1, <2>2, <2>3, <2>4, <2>5, <3>1, Zenon
            DEF WalkedOrNot, SameList, Clamp
    <2> QED
        BY <2>1, <2>2, <2>5, OthersWalk DEF IInv
<1>22. ASSUME NEW d \in Dialers, AllFailed(d) PROVE WalkedInv'
    <2>1. SameList /\ \A e \in Dialers : e # d => SameDial(e)
        BY <1>22, ReturnFacts, Zenon DEF IInv, AllFailed, SameList, SameDial, lbVars
    <2>2. pc'[d] \notin Active
        <3>1. Return(d, "allfailed")
            BY <1>22 DEF AllFailed
        <3>2. pc'[d] = "allfailed"
            BY <3>1, ReturnFacts DEF IInv
        <3> QED
            BY <3>2 DEF Active
    <2> QED
        BY <2>1, <2>2, OthersWalk DEF IInv
<1>23. ASSUME NEW d \in Dialers, TryAgain(d) PROVE WalkedInv'
    <2>1. SameList /\ \A e \in Dialers : e # d => SameDial(e)
        BY <1>23, GotoFacts DEF IInv, TryAgain, SameList, SameDial, lbVars
    <2>2. pc[d] = "compare" /\ pc'[d] = "loop" /\ stable'[d] = stable[d]
        BY <1>23, GotoFacts DEF IInv, TryAgain
    <2>3. ASSUME stable[d] PROVE WalkedOrNot(d)
        BY <2>2, <2>3 DEF IInv, WalkedInv, Active
    <2>4. ASSUME stable[d]
          PROVE  startIndex'[d] = startIndex[d] /\ reported'[d] = reported[d]
        BY <1>23 DEF TryAgain
    <2>5. ASSUME stable[d] PROVE WalkedOrNot(d)'
        <3>1. /\ StartPosition(d)' = StartPosition(d)
              /\ Position' = Position
              /\ WalkedBy(d)' <=> WalkedBy(d)
            BY <2>1, <2>4, <2>5, SameWalk
        <3> QED
            BY <1>23, <2>1, <2>2, <2>3, <2>4, <2>5, <3>1, Zenon
            DEF WalkedOrNot, SameList, TryAgain
    <2> QED
        BY <2>1, <2>2, <2>5, OthersWalk DEF IInv
<1>24. ASSUME NEW d \in Dialers, Timeout(d) PROVE WalkedInv'
    <2>1. SameList /\ \A e \in Dialers : SameDial(e)
        BY <1>24 DEF Timeout, lbVars, SameList, SameDial
    <2> QED
        BY <2>1, AllWalk DEF IInv
<1>25. CASE UNCHANGED vars
    <2>1. SameList /\ \A e \in Dialers : SameDial(e)
        BY <1>25 DEF vars, lbVars, dialVars, SameList, SameDial
    <2> QED
        BY <2>1, AllWalk DEF IInv
<1> QED
    BY <1>1, <1>2, <1>3, <1>4, <1>5, <1>6, <1>7, <1>8, <1>9, <1>10, <1>11,
        <1>12, <1>13, <1>14, <1>15, <1>16, <1>17, <1>18, <1>19, <1>20, <1>21,
        <1>22, <1>23, <1>24, <1>25
    DEF Next, New, WriteConfig, SetServers, Update, DialStep, NextServerEnter

\* Every step of the proxy keeps the invariant.
LEMMA Inductive == IInv /\ [Next]_vars => IInv'
BY TypeStep, LocksStep, ListedStep, IndexedStep, WalkedStep, SavedStep DEF IInv

\* The invariant holds in every state of the proxy.
LEMMA Invariance == Spec => []IInv
BY Initially, Inductive, PTL DEF Spec

-----------------------------------------------------------------------------
(* What follows *)

\* Every variable keeps its type, so every list, index and address the load
\* balancer works with is one.
THEOREM TypeCorrect == Spec => []TypeOK
<1>1. IInv => TypeOK
    BY DEF IInv
<1> QED
    BY <1>1, Invariance, PTL

\* nextServer and setServers never index past the list, and a dial never finds
\* it empty, for any number of servers and concurrent dials.
THEOREM NoIndexPanic == Spec => []IndexInRange
<1>1. IInv => IndexInRange
    <2> SUFFICES ASSUME IInv PROVE IndexInRange
        OBVIOUS
    <2>1. ASSUME NEW d \in Dialers, pc[d] = "advance"
          PROVE  nextServerIndex + 1 \in DOMAIN randomServers
        <3>1. process # "down" /\ mutex = d
            BY <2>1 DEF IInv, Locks, TypeOK
        <3>2. /\ randomServers \in Seq(Servers)
              /\ nextServerIndex \in 0 .. Len(randomServers) - 1
            BY <3>1 DEF IInv, TypeOK, Indexed
        <3> QED
            BY <3>2
    <2>2. updater = "current" => randomServers # <<>>
        BY DEF IInv, Locks, Listed
    <2>3. \A d \in Dialers : pc[d] # "noservers"
        BY DEF IInv, Locks
    <2> QED
        BY <2>1, <2>2, <2>3 DEF IndexInRange
<1> QED
    BY <1>1, Invariance, PTL

\* Outside the critical sections the list is the addresses given and the
\* original one, each once, and the index is just past the current server.
THEOREM ListCorrect == Spec => []ListConsistent
<1>1. IInv => ListConsistent
    <2> SUFFICES ASSUME IInv, process # "down", mutex = "free"
                 PROVE  /\ Range(randomServers) =
                             ServerAddresses \cup {originalServerAddress}
                        /\ IsInjective(randomServers)
                        /\ nextServerIndex \in DOMAIN randomServers
                        /\ currentServerAddress = randomServers[nextServerIndex]
        BY DEF ListConsistent
    <2>1. updater # "append"
        BY DEF IInv, Locks
    <2>2. randomServers \in Seq(Servers)
        BY DEF IInv, TypeOK
    <2> QED
        BY <2>1, <2>2 DEF IInv, Listed, Indexed
<1> QED
    BY <1>1, Invariance, PTL

\* A dial that no Update disturbed returns "all servers failed" only when the
\* failure of every server of the list was reported while it ran, for any
\* number of servers and of concurrent dials advancing the shared index.
THEOREM AllFailedSound == Spec => AllServersFailed
<1>1. ASSUME IInv, [Next]_vars,
             NEW d \in Dialers, pc[d] = "compare", pc'[d] = "allfailed",
                 stable[d]
      PROVE  Range(randomServers) \subseteq reported[d]
    <2>1. nextServerIndex = startIndex[d]
        BY <1>1, Zenon
        DEF IInv, TypeOK, Next, New, WriteConfig, SetServers, Update, DialStep,
            NextServerEnter, NewFromConfig, NewWithoutConfig, WriteConfigOpen,
            WriteConfigWrite, NewFails, UpdateNotSaved, MemoryLost,
            UpdateSetServers, UpdateAppendOriginal, UpdateCurrent, UpdateIndex,
            Crash, Dial, ReadTarget, DialOK, DialError, NextServerKeeps,
            NextServerWrap, NextServerAdvance, NextServerIncr, Canceled, Clamp,
            AllFailed, TryAgain, Timeout, Return, Goto, vars, dialVars
    <2>2. StartPosition(d) = Position
        BY <2>1 DEF StartPosition, Position
    <2>3. WalkedBy(d)
        BY <1>1 DEF IInv, WalkedInv, WalkedOrNot, Active
    <2>4. /\ randomServers \in Seq(Servers)
          /\ Len(randomServers) \in Nat
          /\ nextServerIndex \in Nat
        BY <1>1 DEF IInv, TypeOK
    <2>5. Position \in Nat
        BY <2>4 DEF Position
    <2> QED
        BY <2>2, <2>3, <2>4, <2>5, WalkedRound DEF WalkedBy
<1>2. IInv /\ [Next]_vars =>
        [\A d \in Dialers : pc[d] = "compare" /\ pc'[d] = "allfailed" /\ stable[d]
            => Range(randomServers) \subseteq reported[d]]_vars
    BY <1>1
<1> QED
    BY <1>2, Invariance, PTL DEF Spec, AllServersFailed

\* Whenever no write is under way and the last one did not fail, the file holds
\* the list in use, through any number of crashes, restarts and updates.
THEOREM ConfigCorrect == Spec => []ConfigFollowsServers
<1>1. IInv => ConfigFollowsServers
    BY DEF IInv, Saved
<1> QED
    BY <1>1, Invariance, PTL

=============================================================================
