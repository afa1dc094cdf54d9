------------------------------- MODULE MCFork -------------------------------
(* An instance of Fork for TLC: names of one, two and three characters, of *)
(* which k_strncpy cuts the last, and a path that ends in a separator.     *)
EXTENDS Fork

MCFirstName == <<"f">>
MCPaths     == {<<"/", "s", "h">>, <<"a", "b", "c">>, <<"b", "/">>}
=============================================================================
