------------------------- MODULE MCMembershipRace -------------------------
(* MembershipRace on small instances.                                      *)
EXTENDS MembershipRace, Sequences, TLC

\* Requests carry one role; RoleLists of the atomic specification has their arrays.
MCPosted    == {{Facilitator}, {Participant}}
MCRoleLists == {<<Facilitator>>, <<Participant>>}

\* The threads are alike, and so are the users, whom the table only compares.
Alike == Permutations(Threads) \cup Permutations(Users)

\* No action reads reply: states that differ in it alone have the same future.
Served == <<owner, expired, rows, inserted, thread, overlapped>>
===========================================================================
