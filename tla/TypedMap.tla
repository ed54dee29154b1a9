------------------------------ MODULE TypedMap -------------------------------
(***************************************************************************)
(* A map of the typed layer, MapRef and MapMut of storage/src/database:    *)
(* keys are encoded on their way to the backend and decoded on their way   *)
(* back.  What is iterated over is the map of PrefixIter.                  *)
(***************************************************************************)
EXTENDS PrefixIter, TypedKey

CONSTANTS TypedKeys,     \* values of the map's Key type
          TypedPrefixes  \* values of the types that are prefixes of it

ASSUME TypedKeysAssumption ==
  /\ \E n \in 0 .. 3 : TypedKeys \subseteq [1 .. n -> Part]
  /\ {Encode(key) : key \in TypedKeys} \subseteq Keys
  /\ \A p \in TypedPrefixes : \E n \in 0 .. 3 : p \in [1 .. n -> Part]
  /\ \A p \in TypedPrefixes, key \in TypedKeys : HasPrefix(p, key)

\* put, del and get encode the key.
Encoded == {Encode(key) : key \in TypedKeys}
TypedGet(key) == Get(Encode(key))

\* Nobody writes to the map but through MapMut.
WrittenTyped == \A k \in Keys \ Encoded : db[k] = None /\ delta[k] = Absent

\* prefix_iter encodes the prefix, iterates over the bytes, and decodes each key.
Decode(bytes) == CHOOSE key \in TypedKeys : Encode(key) = bytes
TypedIter == [i \in DOMAIN out |-> <<Decode(out[i][1]), out[i][2]>>]

-----------------------------------------------------------------------------

\* Iteration over a typed prefix yields the entries of the typed keys that start
\* with its components, and no entry whose key merely has bytes in common.
TypedIterAgrees ==
  \A p \in TypedPrefixes :
    done /\ WrittenTyped /\ prefix = Encode(p) =>
      ToSet(TypedIter) = {<<key, TypedGet(key)>> :
                            key \in {x \in TypedKeys :
                                       Agrees(p, x) /\ TypedGet(x) # None}}
=============================================================================
