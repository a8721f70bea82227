----------------------------- MODULE Dictionary -----------------------------
(***************************************************************************)
(* What a table of keys and values promises its callers.                   *)
(***************************************************************************)
CONSTANTS
  Keys,
  Values,
  Missing  \* what a lookup of an absent key yields

VARIABLES
  dict,   \* key -> value
  result  \* what the last call returned

Init == dict = [k \in {} |-> Missing] /\ result = "ok"

With(k, v) == [j \in DOMAIN dict \cup {k} |-> IF j = k THEN v ELSE dict[j]]

Add(k, v) ==
  IF k \in DOMAIN dict THEN result' = "duplicate" /\ UNCHANGED dict
  ELSE dict' = With(k, v) /\ result' = "ok"

Set(k, v) == dict' = With(k, v) /\ result' = "ok"

Get(k) ==
  /\ result' = IF k \in DOMAIN dict THEN dict[k] ELSE Missing
  /\ UNCHANGED dict

Remove(k) ==
  /\ dict' = [j \in DOMAIN dict \ {k} |-> dict[j]]
  /\ result' = "ok"

Clear == dict' = [k \in {} |-> Missing] /\ result' = "ok"

Next ==
  \/ \E k \in Keys, v \in Values : Add(k, v) \/ Set(k, v)
  \/ \E k \in Keys : Get(k) \/ Remove(k)
  \/ Clear

Spec == Init /\ [][Next]_<<dict, result>>
=============================================================================
