-------------------------- MODULE MCMeetingVoting --------------------------
(* Values for the constants of MeetingVoting that a cfg cannot write. *)
EXTENDS MeetingVoting

\* Player 0 is the last to have joined: its id was free again.
ReusedId == <<1, 2, 0>>
=============================================================================
