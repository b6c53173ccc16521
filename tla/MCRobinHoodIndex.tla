-------------------------- MODULE MCRobinHoodIndex --------------------------
EXTENDS RobinHoodIndex

\* The keys are numbers so that naming them in the order of their hashes leaves
\* one hash function of each kind.
\* The hashes are neighbours, zero, and one that has the home of another in a
\* table of seven buckets and not in the next longer one.
MCHashings ==
    {f \in [Key -> {0, 1, 2, 3, 8}] : \A k \in Key : \A j \in Key : j < k => f[j] <= f[k]}

\* The last key has a longer value than the others.
MCUnits == [k \in Key |-> IF \A j \in Key : j <= k THEN 3 ELSE 1]
=============================================================================
