---------------------------- MODULE MCSupervision ----------------------------
\* Supervision with model values for its callers.  Turns but the first differ
\* only in what becomes of them.
EXTENDS Supervision, TLC

Symmetric ==
    UNION {Permutations(Waiter), Permutations(Watcher), Permutations(Flight),
           Permutations(Turn \ {First})}
=============================================================================
