----------------------------- MODULE Netfilter -----------------------------
(***************************************************************************)
(* The kernel as the network policy controller sees it: the filter table   *)
(* (chains of rules) and the ipsets, the iptables and ipset commands the   *)
(* controller runs on them, and what a packet meets on its way.            *)
(*                                                                         *)
(* A rule is [src, dst, port, only, to]: src and dst are Anything, an address   *)
(* or the name of an ipset, port is Anything or a port, only is "" or one of    *)
(* the flags of the packet, to is ACCEPT, REJECT or a chain.  An entry *)
(* of an ipset is [net, no]: a set of addresses, and the nomatch option.   *)
(***************************************************************************)
EXTENDS Naturals, Sequences, FiniteSetsExt

CONSTANTS
    Anything,        \* no condition
    Addresses   \* IP addresses

FORWARD == <<"FORWARD">>
OUTPUT == <<"OUTPUT">>
ACCEPT == <<"ACCEPT">>
REJECT == <<"REJECT">>
RETURN == <<"RETURN">>

\* ------------------------------------------------------------- commands

\* What can go wrong with a command ends the sync (skip = 0) or, inside
\* Refresh, is logged and skips the rest of the Refresh.
Cmd(op, on, arg) == [op |-> op, on |-> on, arg |-> arg, skip |-> 0]

Rule(src, dst, port, only, to) ==
    [src |-> src, dst |-> dst, port |-> port, only |-> only, to |-> to]

Drop(f, k) == [x \in DOMAIN f \ {k} |-> f[x]]
Put(f, k, v) == [x \in DOMAIN f \cup {k} |-> IF x = k THEN v ELSE f[x]]

\* The list without its i-th member.
Without(l, i) == SubSeq(l, 1, i - 1) \o SubSeq(l, i + 1, Len(l))

RulesOf(table) == UNION {Range(table[c]) : c \in DOMAIN table}

\* iptables and ipset refuse to delete what a rule still refers to.
Refused(table, c) ==
    \/ c.op = "delchain" /\ \E r \in RulesOf(table) : r.to = c.on
    \/ c.op = "destroy" /\ \E r \in RulesOf(table) : c.on \in {r.src, r.dst}

\* iptables -N (exit status 1, the chain exists, is accepted), -A after -C,
\* -I 1 after -C, -D by number, -F and -X.
ExecTable(table, c) ==
    CASE c.op = "newchain" /\ c.on \notin DOMAIN table -> Put(table, c.on, <<>>)
      [] c.op = "append" /\ c.arg \notin Range(table[c.on]) ->
            [table EXCEPT ![c.on] = Append(@, c.arg)]
      [] c.op = "insert" /\ c.arg \notin Range(table[c.on]) ->
            [table EXCEPT ![c.on] = <<c.arg>> \o @]
      [] c.op = "delete" /\ c.arg \in DOMAIN table[c.on] ->
            [table EXCEPT ![c.on] = Without(@, c.arg)]
      [] c.op = "clear" -> [table EXCEPT ![c.on] = <<>>]
      [] c.op = "delchain" -> Drop(table, c.on)
      [] OTHER -> table

\* IPSet.Create (nothing when the set is there already), and add, swap and
\* destroy.
ipsetCreate(sets, s) == IF s \in DOMAIN sets THEN sets ELSE Put(sets, s, {})
ipsetAdd(sets, s, entry) == [sets EXCEPT ![s] = @ \cup {entry}]
ipsetSwap(sets, s, t) == [sets EXCEPT ![s] = sets[t], ![t] = sets[s]]
ipsetDestroy(sets, s) == Drop(sets, s)

ExecSets(sets, c) ==
    CASE c.op = "create" -> ipsetCreate(sets, c.on)
      [] c.op = "add" -> ipsetAdd(sets, c.on, c.arg)
      [] c.op = "swap" -> ipsetSwap(sets, c.on, c.arg)
      [] c.op = "destroy" -> ipsetDestroy(sets, c.on)
      [] OTHER -> sets

\* -------------------------------------------------------------- packets

\* A lookup in a hash:net set finds the smallest network that holds the
\* address; nomatch entries are networks to skip.
InSet(entries, a) ==
    LET nets == {e \in entries : a \in e.net}
    IN  \E e \in nets :
            ~ e.no /\ \A f \in nets : Cardinality(e.net) <= Cardinality(f.net)

Side(sets, m, a) ==
    m \in {Anything, a} \/ (m \in DOMAIN sets /\ InSet(sets[m], a))

Matches(sets, r, p) ==
    /\ Side(sets, r.src, p.src)
    /\ Side(sets, r.dst, p.dst)
    /\ r.port \in {Anything, p.port}
    /\ r.only = "" \/ r.only \in p.flags

\* The first outcome of a chain's rules that is not RETURN.
First(rules, Out(_)) ==
    LET hit == {i \in DOMAIN rules : Out(rules[i]) # RETURN}
    IN  IF hit = {} THEN RETURN
        ELSE Out(rules[CHOOSE i \in hit : \A j \in hit : i <= j])

\* Chains are three deep: FORWARD or OUTPUT, the pod's, the policies'.
PolicyVerdict(table, sets, chain, p) ==
    First(table[chain], LAMBDA r : IF Matches(sets, r, p) THEN r.to ELSE RETURN)

PodVerdict(table, sets, chain, p) ==
    First(table[chain],
          LAMBDA r : IF ~ Matches(sets, r, p) THEN RETURN
                     ELSE IF r.to \in {ACCEPT, REJECT} THEN r.to
                     ELSE PolicyVerdict(table, sets, r.to, p))

Verdict(table, sets, hook, p) ==
    First(table[hook],
          LAMBDA r : IF Matches(sets, r, p) THEN PodVerdict(table, sets, r.to, p)
                     ELSE RETURN)

=============================================================================
