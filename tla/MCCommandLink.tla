---------------------------- MODULE MCCommandLink ----------------------------
(* Request ids and datagrams for checking CommandLink. *)
EXTENDS CommandLink

MCRequestId == 0 .. SeqCountModulo - 1
MCDatagrams == {Postprocess(c, n) : c \in Commands, n \in 0 .. SeqCountModulo - 1}
NoExcursions == {{}}
JustPayload  == {PAYLOAD}
==============================================================================
