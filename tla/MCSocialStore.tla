--------------------------- MODULE MCSocialStore ---------------------------
(* SocialStore on small instances.                                         *)
EXTENDS SocialStore, TLC

\* No file yet, or two groups of one.
MCStarts == {<<>>} \cup {<<p[1], p[2]>> : p \in {q \in Characters \X Characters : q[1] # q[2]}}

\* Nothing tells characters or names apart.
MCSymmetry == Permutations(Characters) \cup Permutations(Names)
=============================================================================
