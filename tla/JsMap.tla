------------------------------- MODULE JsMap -------------------------------
(* JavaScript's Map, as far as the modelled code uses it.                  *)

EmptyMap == [x \in {} |-> {}]

\* m.set(k, v)
MapSet(m, k, v) == [x \in DOMAIN m \cup {k} |-> IF x = k THEN v ELSE m[x]]

\* m.delete(k) for every k in ks
MapDelete(m, ks) == [x \in DOMAIN m \ ks |-> m[x]]
=============================================================================
