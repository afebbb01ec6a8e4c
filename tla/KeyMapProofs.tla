---------------------------- MODULE KeyMapProofs ----------------------------
(***************************************************************************)
(* Any sequence of ThreeKeyMap calls, over any keys and any number of      *)
(* values: every key leads to the value its caller gave it, and the counts *)
(* are right.  The invariant is about positions: what a key leads to is    *)
(* compared with what is meant through the vector, and no value is in the  *)
(* vector twice, so moving the last value into a gap moves all its keys.   *)
(***************************************************************************)
EXTENDS KeyMapUse, ThreeKeyMapLemmas

KeyMapInv == /\ nValues \in Nat
             /\ MapOK(map, meant, Key, Value, 1..nValues, abandoned)

-----------------------------------------------------------------------------
LEMMA InitKeyMap == KeyMapInit => KeyMapInv
<1> SUFFICES ASSUME KeyMapInit PROVE MapOK(map, meant, Key, Value, 1..nValues, abandoned)
  BY DEF KeyMapInv, KeyMapInit
<1> DEFINE ks == [kind \in Kind |-> EmptyMap]
<1>1. map = [keys |-> ks, values |-> <<>>] /\ meant = ks /\ nValues = 0
  BY DEF KeyMapInit, with_capacities
<1>2. map.keys = ks /\ map.values = <<>>
  BY <1>1, Fields
<1>3. /\ ks = [kind \in Kind |-> ks[kind]]
      /\ \A kind \in Kind : ks[kind] = [x \in DOMAIN ks[kind] |-> ks[kind][x]]
      /\ \A kind \in Kind : DOMAIN ks[kind] = {}
  BY DEF EmptyMap
<1> HIDE DEF ks
<1>4. KeyMapTypeOK(map, Key, Value)
  <2> <<>> \in Seq(Entry(Value))
    OBVIOUS
  <2> QED BY <1>1, <1>3, ShapeOf
<1>5. DOMAIN map.values = {}
  BY <1>2
<1>6. Meant(meant) /\ Agrees(map, meant)
  BY <1>1, <1>2, <1>3 DEF Meant, Agrees
<1> QED BY <1>1, <1>4, <1>5, <1>6 DEF MapOK, Known, Counted

LEMMA NextKeyMap ==
  ASSUME KeyMapInv, [KeyMapNext]_keyMapVars
  PROVE  KeyMapInv'
<1>1. ASSUME NEW kind \in Kind, NEW k \in Key, InsertNew(kind, k)
      PROVE  KeyMapInv'
  <2>1. nValues + 1 \in Value /\ nValues + 1 \notin 1..nValues
        /\ 1..(nValues + 1) = 1..nValues \cup {nValues + 1}
    BY <1>1, KeyMapAssumption DEF KeyMapInv, InsertNew, Value
  <2>2. /\ k \notin DOMAIN meant[kind] /\ map' = insert_by_key(map, kind, k, nValues + 1)
        /\ meant' = More(meant, kind, k, nValues + 1)
    BY <1>1 DEF InsertNew, More
  <2>3. MapOK(map', meant', Key, Value, 1..(nValues + 1), abandoned)
    BY <2>1, <2>2, InsertKeeps DEF KeyMapInv
  <2> QED BY <1>1, <2>3 DEF KeyMapInv, InsertNew
<1>2. ASSUME NEW kind \in Kind, NEW k \in Key, RemoveKey(kind, k)
      PROVE  KeyMapInv'
  <2>1. map' = remove_by_key(map, kind, k) /\ meant' = Less(meant, kind, k)
    BY <1>2 DEF RemoveKey, Less
  <2>2. MapOK(map', meant', Key, Value, 1..nValues, abandoned)
    BY <2>1, RemoveKeeps DEF KeyMapInv
  <2> QED BY <1>2, <2>2 DEF KeyMapInv, RemoveKey
<1>3. ASSUME NEW new \in Kind, NEW old \in Kind, NEW k \in Key, NEW q \in Key,
             Link(new, k, old, q)
      PROVE  KeyMapInv'
  <2>1. /\ map' = link_key_to_key(map, new, k, old, q)
        /\ meant' = IF k \notin DOMAIN meant[new] /\ q \in DOMAIN meant[old]
                    THEN More(meant, new, k, meant[old][q]) ELSE meant
    BY <1>3 DEF Link, More
  <2>2. MapOK(map', meant', Key, Value, 1..nValues, abandoned)
    BY <2>1, LinkKeeps DEF KeyMapInv
  <2> QED BY <1>3, <2>2 DEF KeyMapInv, Link
<1>4. ASSUME NEW k \in Key, UnlinkOthers(k)
      PROVE  KeyMapInv'
  <2>1. /\ k \in DOMAIN meant["key1"] /\ map' = unlink_all_but_key1(map, k)
        /\ meant' = Alone(meant, k) /\ abandoned' = abandoned \cup {meant["key1"][k]}
        /\ nValues' = nValues
    BY <1>4 DEF UnlinkOthers, Alone, Kept
  <2>2. MapOK(map', meant', Key, Value, 1..nValues, abandoned \cup {meant["key1"][k]})
    BY <2>1, UnlinkKeeps DEF KeyMapInv
  <2> QED BY <2>1, <2>2 DEF KeyMapInv
<1>5. ASSUME UNCHANGED keyMapVars
      PROVE  KeyMapInv'
  BY <1>5 DEF KeyMapInv, keyMapVars
<1> QED BY <1>1, <1>2, <1>3, <1>4, <1>5 DEF KeyMapNext

LEMMA CountsFromInv ==
  ASSUME NEW m, NEW w, NEW S, NEW gone, MapOK(m, w, Key, Value, S, gone), NEW i \in DOMAIN m.values
  PROVE  LET n == Cardinality(keysTo(m, Key, i))
             v == m.values[i]
         IN /\ v.count >= n /\ v.count > 0
            /\ v.val \notin gone => v.count = n
<1>1. m.values[i] \in Entry(Value)
  BY Shape DEF MapOK
<1>2. m.values[i].count > 0
  BY <1>1 DEF Entry
<1> QED BY <1>2 DEF MapOK, Counted, CountOK, Exact

(* Whatever sequence of inserts, links, removals and unlinks: a key yields
   the value its caller gave it, and none once it is removed. *)
THEOREM KeysLeadHome == KeyMapSpec => []GetsAgree
<1>1. KeyMapInv => GetsAgree
  BY GetsFromInv DEF KeyMapInv, GetsAgree
<1> QED BY <1>1, InitKeyMap, NextKeyMap, PTL DEF KeyMapSpec

(* A stored value counts at least its keys, and exactly its keys as long as
   unlink_all_but_key1 has not been called on it: no value is dropped under a
   live key, and none outlives its last key by a wrong count alone. *)
THEOREM CountsAreRight == KeyMapSpec => []CountsKeys
<1>1. KeyMapInv => CountsKeys
  BY CountsFromInv DEF KeyMapInv, CountsKeys
<1> QED BY <1>1, InitKeyMap, NextKeyMap, PTL DEF KeyMapSpec
=============================================================================
