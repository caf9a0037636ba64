--------------------------- MODULE MCPluginLifecycle ---------------------------
(* The plugin's life for TLC, with 16-bit integers: a second is 12 and a minute
   720 units of 32767.  Options do not interact, so one differs at a time from
   a file that sets the strings and leaves the numbers out. *)
EXTENDS PluginLifecycle, TLC

Plain == [o \in Strings \cup Numbers |-> IF o \in Strings THEN Text ELSE Blank]

\* Malformed, below and at the least, one that 46 minutes and one that 2731
\* seconds wrap to a negative, one that wraps to zero, one that wraps to a
\* positive, and one that is no int.
Values == {Text, -1, 0, 1, 46, 92, 2731, 16384, 32768}

MCOptionSets == {[Plain EXCEPT ![o] = Blank] : o \in Strings}
                  \cup {[Plain EXCEPT ![o] = v] : o \in Numbers, v \in Values}

Symmetry == Permutations(Jobs)
===============================================================================
