------------------------------ MODULE MCTower ------------------------------
EXTENDS Tower

\* Two forks from the start: 3 - 5 - 7 - 8, which the supermajority votes for,
\* and 1 - 2 - 4 - 14.
MCParent == [s \in Slots \ {0} |->
    CASE s \in {1, 3} -> 0 [] s = 2 -> 1 [] s = 4 -> 2 [] s = 5 -> 3
      [] s = 7 -> 5 [] s = 8 -> 7 [] s = 14 -> 4]
MCSupermajority == Slots \cap {0, 3, 5, 7, 8}

\* Each bank of the supermajority's fork has its parent rooted.
MCClusterRoot == [s \in Slots |-> IF s \in {5, 7, 8} THEN MCParent[s] ELSE 0]
============================================================================
