---------------------------- MODULE MCPrefixCache ----------------------------
(* A small instance of PrefixCache: two namespaces of one model, prompts    *)
(* that share prefixes, and a budget that holds two or three entries, so    *)
(* that one insert can evict two.                                          *)
EXTENDS PrefixCache, TLC

CONSTANTS k1, k2, s1, s2

MCPrompts == {<<1, 1>>, <<1, 1, 2>>, <<1, 1, 1, 1>>}
=============================================================================
