----------------------------- MODULE MCPrefixIter ----------------------------
(* Every map, every set of changes and every prefix, first of raw keys (the   *)
(* empty key, a key with two extensions, and a key after them), then of typed *)
(* ones (triples of an empty and a one-byte vector).                          *)
EXTENDS TypedMap

CONSTANTS old, new

RawKeys == {<<>>, <<0>>, <<0, 0>>, <<0, 255>>, <<1>>}
RawPrefixes == {<<>>, <<0>>, <<0, 255>>, <<1>>, <<1, 0>>}

Zero == <<0>>
MCTypedKeys == {<<<<>>, <<>>, <<>>>>, <<<<>>, <<>>, Zero>>,
                <<<<>>, Zero, <<>>>>, <<Zero, <<>>, <<>>>>}
MCTypedPrefixes == {<<>>, <<<<>>>>, <<Zero>>, <<<<>>, <<>>>>, <<<<>>, Zero>>}

MCKeys == RawKeys \cup {Encode(key) : key \in MCTypedKeys}
MCPrefixArgs == RawPrefixes \cup {Encode(p) : p \in MCTypedPrefixes}

\* The store's values and the transaction's are told apart.
InitOver(keys, prefixes) ==
  /\ db \in {[k \in Keys |-> IF k \in keys THEN f[k] ELSE None] :
               f \in [keys -> {old, None}]}
  /\ delta \in {[k \in Keys |-> IF k \in keys THEN f[k] ELSE Absent] :
                  f \in [keys -> {new, None, Absent}]}
  /\ prefix \in prefixes
  /\ Init

MCInit ==
  \/ InitOver(RawKeys, RawPrefixes)
  \/ InitOver(Encoded, {Encode(p) : p \in TypedPrefixes})

MCSpec == MCInit /\ [][Next]_vars
=============================================================================
