--------------------------- MODULE AddressSpaces ---------------------------
(* What the page tables promise: every process has memory of its own.      *)
EXTENDS Naturals, Functions

VARIABLE space     \* per process, the physical page behind each of its pages

\* The pages that t has in new and had not, or not there, in old.
Changed(old, new, t) ==
    {v \in DOMAIN new[t] :
        t \notin DOMAIN old \/ v \notin DOMAIN old[t] \/ old[t][v] # new[t][v]}

\* They lie on physical pages that nobody had, and on one each.
Fresh(old, new, t) ==
    \A v \in Changed(old, new, t) :
        /\ \A u \in DOMAIN old : new[t][v] \notin Range(old[u])
        /\ \A w \in DOMAIN new[t] : new[t][v] = new[t][w] => v = w

\* Nobody but t is affected.
OnlyFor(old, new, t) ==
    /\ DOMAIN old \ {t} = DOMAIN new \ {t}
    /\ \A u \in DOMAIN old \ {t} : new[u] = old[u]

Create(old, new, t) ==
    t \notin DOMAIN old /\ OnlyFor(old, new, t) /\ Fresh(old, new, t)

\* A page stays mapped once it is, if not to the same physical page.
Extend(old, new, t) ==
    /\ t \in DOMAIN old
    /\ OnlyFor(old, new, t)
    /\ DOMAIN old[t] \subseteq DOMAIN new[t]
    /\ Fresh(old, new, t)

Drop(old, new, t) == t \notin DOMAIN new /\ OnlyFor(old, new, t)

Init == space = <<>>

Next ==
    \E old \in {space}, new \in {space'} :
        \/ \E t \in DOMAIN new : Create(old, new, t) \/ Extend(old, new, t)
        \/ \E t \in DOMAIN old : Drop(old, new, t)

Spec == Init /\ [][Next]_space
=============================================================================
