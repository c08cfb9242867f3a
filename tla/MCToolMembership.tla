-------------------------- MODULE MCToolMembership --------------------------
(* ToolMembership on small instances.                                      *)
EXTENDS ToolMembership

\* One array of each kind RoleValidator tells apart.
MCRoleLists ==
    {<<>>, <<Facilitator>>, <<Participant>>, <<Facilitator, Participant>>,
     <<Participant, Participant>>, <<Participant, InvalidRole>>,
     <<Facilitator, Participant, Participant>>}

\* No action reads reply: states that differ in it alone have the same future.
Database == <<owner, roles, expired, requests, invitations, candidate>>
=============================================================================
