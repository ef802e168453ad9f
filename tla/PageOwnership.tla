-------------------------- MODULE PageOwnership --------------------------
(***************************************************************************)
(* What a page allocator promises its callers: every usable page is either *)
(* available or belongs to exactly one pointer.                            *)
(***************************************************************************)
CONSTANTS Usable,    \* the pages that may be handed out
          Handles    \* the pointer variables of the callers

VARIABLES avail,     \* the pages nobody owns
          owned      \* the pages each pointer owns

vars == <<avail, owned>>

Init ==
    /\ avail = Usable
    /\ owned = [h \in Handles |-> {}]

\* A pointer that owns nothing is given available pages.
Grant(h) ==
    /\ owned[h] = {}
    /\ \E S \in (SUBSET avail) \ {{}} :
        /\ owned' = [owned EXCEPT ![h] = S]
        /\ avail' = avail \ S

\* Everything a pointer owns becomes available again.
Release(h) ==
    /\ avail' = avail \cup owned[h]
    /\ owned' = [owned EXCEPT ![h] = {}]

Next == \E h \in Handles : Grant(h) \/ Release(h)

Spec == Init /\ [][Next]_vars
==========================================================================
