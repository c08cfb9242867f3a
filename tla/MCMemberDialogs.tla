-------------------------- MODULE MCMemberDialogs --------------------------
(* MemberDialogs on small instances.                                       *)
EXTENDS MemberDialogs, TLC

\* The other facilitator removes people and gives them both roles.
MCOtherRoles == {{}, Roles}
=============================================================================
