--------------------------------- MODULE MCChat ---------------------------------
(* Instances of Chat: conversations and answers a few messages long. *)
EXTENDS Chat

Conversations ==
  {<<Say("user", 1)>>,
   <<Say("user", 2), Say("assistant", 2), Say("user", 1)>>,
   <<Say("user", 9)>>, <<>>, <<Say("assistant", 2), Say("assistant", 4), Say("assistant", 3)>>}

Calls == {<<"look">>, <<"read", "retire">>, <<"look", "read", "look">>, <<"propose", "confirm", "retire">>}

=============================================================================
