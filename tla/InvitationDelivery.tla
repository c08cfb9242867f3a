------------------------- MODULE InvitationDelivery -------------------------
(***************************************************************************)
(* What the notification workers promise about the participants of a tool: *)
(* invited_at is written after the mail went out, a mail goes out at least *)
(* once to everybody whose invited_at is set, and a mark is lost only with *)
(* the participant.  How often a mail is repeated is left open.            *)
(***************************************************************************)
CONSTANT Users

VARIABLES
    participants,   \* users with a participant row
    delivered,      \* users an invitation mail has been delivered to
    marked          \* participants whose invited_at is set

delivery == <<participants, delivered, marked>>

DeliveryInit ==
    /\ participants \subseteq Users
    /\ delivered = {}
    /\ marked = {}

\* A user who is added may be mailed at once.
Join(u) ==
    /\ u \in Users \ participants
    /\ participants' = participants \cup {u}
    /\ delivered' \in {delivered, delivered \cup {u}}
    /\ UNCHANGED marked

Leave(u) ==
    /\ u \in participants
    /\ participants' = participants \ {u}
    /\ marked' = marked \ {u}
    /\ UNCHANGED delivered

\* A user who has just left may still get the mail.
Deliver(u) ==
    /\ delivered' = delivered \cup {u}
    /\ UNCHANGED <<participants, marked>>

Mark(u) ==
    /\ u \in participants \cap delivered
    /\ marked' = marked \cup {u}
    /\ UNCHANGED <<participants, delivered>>

DeliveryNext == \E u \in Users : Join(u) \/ Leave(u) \/ Deliver(u) \/ Mark(u)

DeliverySpec == DeliveryInit /\ [][DeliveryNext]_delivery
=============================================================================
