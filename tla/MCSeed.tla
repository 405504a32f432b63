--------------------------------- MODULE MCSeed ---------------------------------
(* Instance of Seed: two users that are not fixtures, of a person and a bot. *)
EXTENDS Seed

MCOthers == {<<"person", 1>>, <<"bot", 1>>}

================================================================================
