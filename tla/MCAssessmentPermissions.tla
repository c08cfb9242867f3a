---------------------- MODULE MCAssessmentPermissions ----------------------
(* AssessmentPermissions on small instances.                               *)
EXTENDS AssessmentPermissions, TLC

CONSTANTS member, newcomer

\* To a level of every kind: one the dialog offers and add_level knows, one it
\* offers and add_level does not know, one that only stale lists still have.
Posted(u)  == {[user |-> u, level |-> l] : l \in {Facilitator, Participant, Viewer}}
MCLists    == {<<p>> : p \in Posted(member)}
              \cup {<<p, q>> : p \in Posted(newcomer), q \in Posted(member)}

MCRoles   == {<<Participant>>, <<Facilitator, Participant>>}
MCInvites == {NoLevel, Facilitator}

Symmetry == Permutations(Threads)

=============================================================================
