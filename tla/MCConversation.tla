--------------------------- MODULE MCConversation ---------------------------
EXTENDS Conversation

CONSTANTS c1, c2    \* model values for command slots

TwoThreads  == {1, 2}
FirstGroup  == {1}
NoGroups    == {}
OneCmd      == {c1}
TwoCmds     == {c1, c2}
TakenOrLost == {"accepted", "lost"}
(* Messages that wake the agent in approved conversations *)
Waking == [thread : Threads, mentions : {FALSE}, wakes : {TRUE}, opening : {"approved"}]
(* A group that is asked about first and mentions the agent, and an approved one *)
Asked == [thread : {1}, mentions : {TRUE}, wakes : {TRUE}, opening : {"pending"}]
           \cup [thread : {2}, mentions : {FALSE}, wakes : {TRUE}, opening : {"approved"}]
SendsChecks == {"send", "check"}
NoDecisions == {}
OneDecision == {"approved"}
=============================================================================
