----------------------------- MODULE MCTrieTree -----------------------------
(* Names below "a" are prefixes of each other or diverge after one, and    *)
(* are never removed; those below "b" part in one place and come and go.   *)
(* Prefix: a name and a longer one, as in the test Remove1.                *)
EXTENDS TrieTree

MCFlat == {<<"b", "a">>, <<"b", "b", "a">>, <<"b", "c">>}
MCKeys == MCFlat \cup {<<"a", "b">>, <<"a", "b", "a">>,
                       <<"a", "b", "b", "a">>}
ASSUME FlatIsApart == Apart(MCKeys, MCFlat)

MCPrefix == {<<"a", "b">>, <<"a", "b", "c">>}
=============================================================================
