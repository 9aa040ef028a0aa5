----------------------------- MODULE AtomicSets -----------------------------
(***************************************************************************)
(* What IPSet promises the network policy controller: a set that rules     *)
(* refer to is created empty, replaced as a whole by what is wanted in it  *)
(* and destroyed when nobody wants it; nobody sees it half filled.  torn   *)
(* are the sets whose last replacement was cut short: the next one may     *)
(* bring in entries that were wanted earlier.                              *)
(***************************************************************************)
EXTENDS Naturals

VARIABLES content, wanted, torn

Init ==
    /\ content = <<>>
    /\ torn = {}

\* Somebody asks for other contents.
Want == UNCHANGED content

Create(s) ==
    /\ s \in DOMAIN wanted \ DOMAIN content
    /\ content' = [x \in DOMAIN content \cup {s} |-> IF x = s THEN {} ELSE content[x]]
    /\ UNCHANGED wanted

Replace(s) ==
    /\ s \in DOMAIN wanted \cap DOMAIN content
    /\ DOMAIN content' = DOMAIN content
    /\ \A x \in DOMAIN content \ {s} : content'[x] = content[x]
    /\ wanted[s] \subseteq content'[s]
    /\ s \notin torn => content'[s] = wanted[s]
    /\ UNCHANGED wanted

Destroy(s) ==
    /\ s \in DOMAIN content \ DOMAIN wanted
    /\ content' = [x \in DOMAIN content \ {s} |-> content[x]]
    /\ UNCHANGED wanted

Next ==
    \/ Want
    \/ \E s \in DOMAIN content \cup DOMAIN wanted : Create(s) \/ Replace(s) \/ Destroy(s)

Spec == Init /\ [][Next]_<<content, wanted, torn>>

=============================================================================
