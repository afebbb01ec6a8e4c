------------------------------ MODULE KeyMapUse ------------------------------
(***************************************************************************)
(* Any sequence of ThreeKeyMap calls, against the map a caller has in      *)
(* mind: each key leads to the value it was inserted or linked with until  *)
(* it is removed.  insert_by_key is called with new keys only: the one     *)
(* caller asserts that its key is new.                                     *)
(***************************************************************************)
EXTENDS ThreeKeyMap

CONSTANTS Key,          \* keys of each kind
          MaxValue      \* bound: values inserted
ASSUME KeyMapAssumption == MaxValue \in Nat

VARIABLES map,          \* the ThreeKeyMap
          meant,        \* kind -> key -> the value the caller has in mind
          nValues,      \* values inserted so far; each is its own number
          abandoned     \* values that lost keys to unlink_all_but_key1

keyMapVars == <<map, meant, nValues, abandoned>>
Value == 1..MaxValue

KeyMapInit ==
  /\ map = with_capacities
  /\ meant = [kind \in Kind |-> EmptyMap]
  /\ nValues = 0 /\ abandoned = {}

InsertNew(kind, k) ==
  /\ nValues < MaxValue /\ k \notin DOMAIN meant[kind]
  /\ nValues' = nValues + 1
  /\ map' = insert_by_key(map, kind, k, nValues + 1)
  /\ meant' = [meant EXCEPT ![kind] = Insert(@, k, nValues + 1)]
  /\ UNCHANGED abandoned

Link(new, k, old, q) ==
  /\ map' = link_key_to_key(map, new, k, old, q)
  /\ meant' = IF k \notin DOMAIN meant[new] /\ q \in DOMAIN meant[old]
              THEN [meant EXCEPT ![new] = Insert(@, k, meant[old][q])] ELSE meant
  /\ UNCHANGED <<nValues, abandoned>>

RemoveKey(kind, k) ==
  /\ map' = remove_by_key(map, kind, k)
  /\ meant' = [meant EXCEPT ![kind] = Remove(@, k)]
  /\ UNCHANGED <<nValues, abandoned>>

(* Bound: once per value, for the count grows with every link after it. *)
UnlinkOthers(k) ==
  /\ k \in DOMAIN meant["key1"] /\ meant["key1"][k] \notin abandoned
  /\ map' = unlink_all_but_key1(map, k)
  /\ LET v == meant["key1"][k]
         kept(kind) == {q \in DOMAIN meant[kind] :
                          meant[kind][q] # v \/ (kind = "key1" /\ q = k)}
     IN /\ meant' = [kind \in Kind |-> [q \in kept(kind) |-> meant[kind][q]]]
        /\ abandoned' = abandoned \cup {v}
  /\ UNCHANGED nValues

KeyMapNext ==
  \/ \E kind \in Kind, k \in Key : InsertNew(kind, k) \/ RemoveKey(kind, k)
  \/ \E new, old \in Kind, k, q \in Key : Link(new, k, old, q)
  \/ \E k \in Key : UnlinkOthers(k)

KeyMapSpec == KeyMapInit /\ [][KeyMapNext]_keyMapVars

-----------------------------------------------------------------------------
(* swap_remove and the counts never make a key lead to another value than
   the one it was given, or to none. *)
GetsAgree ==
  \A kind \in Kind, k \in Key :
    get_by_key(map, kind, k) =
      IF k \in DOMAIN meant[kind] THEN meant[kind][k] ELSE None

(* A value counts its keys, so it is dropped with the last one and no count
   is taken below zero; unlink_all_but_key1 makes a count too large, which
   keeps the value for good, and never too small. *)
CountsKeys ==
  \A i \in DOMAIN map.values :
    LET n == Cardinality(keysTo(map, Key, i))
        v == map.values[i]
    IN /\ v.count >= n /\ v.count > 0
       /\ v.val \notin abandoned => v.count = n
=============================================================================
