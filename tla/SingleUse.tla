----------------------------- MODULE SingleUse -----------------------------
(***************************************************************************)
(* What a single-use ticket promises: it is handed out once, it is taken   *)
(* at most once, and only by someone who came for a ticket of its kind.    *)
(***************************************************************************)
EXTENDS Naturals

CONSTANTS Takers, \* those who may take a ticket, each at most one
          Kinds,  \* the kinds of ticket
          None

Tickets == [kind : Kinds, id : Nat \ {0}]

VARIABLES open,  \* tickets that may be taken
          made,  \* tickets handed out so far
          came,  \* the kind each taker came for
          taken  \* the ticket each taker has taken

vars == <<open, made, came, taken>>

Init ==
    /\ made \subseteq Tickets
    /\ open \subseteq made
    /\ came  = [u \in Takers |-> None]
    /\ taken = [u \in Takers |-> None]

Arrive(u) ==
    /\ came[u] = None
    /\ \E k \in Kinds : came' = [came EXCEPT ![u] = k]
    /\ UNCHANGED <<open, made, taken>>

\* Tickets are handed out, and others are withdrawn.
Reissue ==
    /\ made \subseteq made'
    /\ made' \subseteq Tickets
    /\ open' \ open \subseteq made' \ made
    /\ UNCHANGED <<came, taken>>

Take(u) ==
    /\ taken[u] = None
    /\ \E t \in open :
          /\ t.kind = came[u]
          /\ open'  = open \ {t}
          /\ taken' = [taken EXCEPT ![u] = t]
    /\ UNCHANGED <<made, came>>

Next == Reissue \/ \E u \in Takers : Arrive(u) \/ Take(u)

Spec == Init /\ [][Next]_vars
=============================================================================
