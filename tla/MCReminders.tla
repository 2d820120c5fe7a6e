---------------------------- MODULE MCReminders ----------------------------
(* Instance of Reminders for TLC: two reminders of one conversation.        *)
EXTENDS Reminders

OneOwner == <<"o", "o">>
OneDelay == {1}
=============================================================================
