--------------------------- MODULE MCAsyncPublisher ---------------------------
\* Small instances of AsyncPublisher for TLC.
EXTENDS AsyncPublisher, TLC

\* Goroutines of one kind, and jobs, are interchangeable.
Symmetry == Permutations(Producers) \cup Permutations(Workers)
              \cup Permutations(Drainers) \cup Permutations(Jobs)
===============================================================================
