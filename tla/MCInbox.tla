------------------------------- MODULE MCInbox -------------------------------
(***************************************************************************)
(* Inbox for TLC: two names neither of which is the other with a number.   *)
(***************************************************************************)
EXTENDS Inbox

Apart == << <<2>>, <<3>> >>

=============================================================================
