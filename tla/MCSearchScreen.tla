--------------------------- MODULE MCSearchScreen ---------------------------
(* Model values for SearchScreen: two phrases with a URL, one without.      *)
EXTENDS SearchScreen

CONSTANTS u1, u2

MCLoads == 1 .. 3
MCUrls == {u1, u2}
MCPhrases == {"", "a", "b", "a b"}
MCUrlOf == [p \in MCPhrases |-> CASE p = "a" -> u1 [] p = "b" -> u2 [] OTHER -> NoUrl]
=============================================================================
