---------------------------- MODULE ThreeKeyMap ----------------------------
(***************************************************************************)
(* ThreeKeyMap: one value found under keys of three kinds.  Each kind has  *)
(* a hash map from keys to positions in a vector of values; a value counts *)
(* the keys that lead to it and is swap-removed with the last of them.     *)
(* Operators only: each maps a map to the map the method leaves behind.    *)
(* Positions start at 1 here.                                              *)
(***************************************************************************)
EXTENDS Protocol

Kind == {"key1", "key2", "key3"}

(* m.keys[kind] is the hash map of that kind, m.values the vector. *)
with_capacities == [keys |-> [kind \in Kind |-> EmptyMap], values |-> <<>>]

(* No key leads past the end of the vector. *)
KeyMapTypeOK(m, K, V) ==
  /\ m = [keys |-> [kind \in Kind |-> m.keys[kind]], values |-> m.values]
  /\ \A kind \in Kind : IsMap(m.keys[kind], K, DOMAIN m.values)
  /\ m.values \in Seq([val : V, count : Nat \ {0}])

contains_key(m, kind, k) == k \in DOMAIN m.keys[kind]

(* The keys that lead to position i. *)
keysTo(m, K, i) ==
  {e \in Kind \X K : contains_key(m, e[1], e[2]) /\ m.keys[e[1]][e[2]] = i}

(* None, where the hash map or the vector has no such entry; the values are
   positive numbers. *)
None == 0
get_by_key(m, kind, k) ==
  IF contains_key(m, kind, k) /\ m.keys[kind][k] \in DOMAIN m.values
  THEN m.values[m.keys[kind][k]].val ELSE None

(* A key that is present gets the position of the new value, which is popped
   again and returned. *)
insert_by_key(m, kind, k, v) ==
  [keys |-> [m.keys EXCEPT ![kind] = Insert(@, k, Len(m.values) + 1)],
   values |-> IF contains_key(m, kind, k) THEN m.values
              ELSE Append(m.values, [val |-> v, count |-> 1])]

counted(vs, i, n) == [vs EXCEPT ![i] = [val |-> vs[i].val, count |-> n]]

(* LinkResult of link_key_to_key, and what it does to the map. *)
link_result(m, new, k, old, q) ==
  IF contains_key(m, new, k) THEN "NewKeyAlreadyExists"
  ELSE IF contains_key(m, old, q) THEN "Success" ELSE "ExistingKeyDoesNotExist"
link_key_to_key_NoCount(m, new, k, old, q) ==
  IF link_result(m, new, k, old, q) # "Success" THEN m
  ELSE [m EXCEPT !.keys[new] = Insert(@, k, m.keys[old][q])]
link_key_to_key(m, new, k, old, q) ==
  LET i == m.keys[old][q]
  IN IF link_result(m, new, k, old, q) # "Success" THEN m
     ELSE [keys |-> [m.keys EXCEPT ![new] = Insert(@, k, i)],
           values |-> counted(m.values, i, m.values[i].count + 1)]

(* The last value moves into the gap, and with it the keys that lead to it. *)
swap_remove_KeepsIndices(m, i) ==
  LET last == Len(m.values)
  IN [m EXCEPT !.values = SubSeq([@ EXCEPT ![i] = m.values[last]], 1, last - 1)]
swap_remove(m, i) ==
  LET last == Len(m.values)
      moved(f) == [k \in DOMAIN f |-> IF f[k] = last THEN i ELSE f[k]]
  IN [keys |-> [kind \in Kind |-> moved(m.keys[kind])],
      values |-> SubSeq([m.values EXCEPT ![i] = m.values[last]], 1, last - 1)]

remove_by_key(m, kind, k) ==
  LET i == m.keys[kind][k]
      cut == [keys |-> [m.keys EXCEPT ![kind] = Remove(@, k)], values |-> m.values]
  IN CASE ~contains_key(m, kind, k) -> m
       [] contains_key(m, kind, k) /\ i \notin DOMAIN m.values -> cut
       [] contains_key(m, kind, k) /\ m.values[i].count = 1 -> swap_remove(cut, i)
       [] contains_key(m, kind, k) /\ m.values[i].count > 1 ->
            [keys |-> cut.keys, values |-> counted(m.values, i, m.values[i].count - 1)]

(* Drops every other key of the value, without lowering its count. *)
unlink_all_but_key1(m, k) ==
  LET i == m.keys["key1"][k]
      others(f) == [q \in {p \in DOMAIN f : f[p] # i} |-> f[q]]
  IN IF ~contains_key(m, "key1", k) THEN m
     ELSE [keys |-> [kind \in Kind |-> IF kind = "key1" THEN Insert(others(m.keys[kind]), k, i)
                                       ELSE others(m.keys[kind])],
           values |-> m.values]
=============================================================================
