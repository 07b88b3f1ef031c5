------------------------------ MODULE MCDiscover ------------------------------
(* A cluster of two machines reached by ssh, and a Windows machine.          *)
EXTENDS Discover
MCProtocol == <<"ssh", "psr">>
MCMembers == <<{"a", "b"}, {"w"}>>
MCDatabase == [m \in {"a", "b", "w"} |-> IF m = "w" THEN "dbw" ELSE "dbc"]
=============================================================================
