--------------------------- MODULE MCMessageCache ---------------------------
EXTENDS MessageCache, TLC

CONSTANTS a, b   \* two media

\* Every medium came with a name of its own.
OwnNames == [x \in Media |-> x]

\* Nothing but its own name distinguishes a medium, and nothing a command.
Symmetric  == Permutations(Media) \cup Permutations(Jobs)
====
