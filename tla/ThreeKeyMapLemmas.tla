-------------------------- MODULE ThreeKeyMapLemmas --------------------------
(***************************************************************************)
(* What each method of the ThreeKeyMap leaves behind, for maps of any size *)
(* and keys and values of any kind: which keys there are, where they lead, *)
(* which values are stored where, and that no key leads past the end.  The *)
(* last part says the same in terms of get_by_key alone.                   *)
(***************************************************************************)
EXTENDS ThreeKeyMap, FiniteSetTheorems, SequenceTheorems, TLAPS

Entry(V) == [val : V, count : Nat \ {0}]

LEMMA Fields ==
  ASSUME NEW m, NEW ks, NEW vs, m = [keys |-> ks, values |-> vs]
  PROVE  m.keys = ks /\ m.values = vs
OBVIOUS

(* The shape of a map: a function of the kinds, and a vector. *)
LEMMA Shape ==
  ASSUME NEW m, NEW K, NEW V, KeyMapTypeOK(m, K, V)
  PROVE  /\ DOMAIN m.keys = Kind /\ m.values \in Seq(Entry(V)) /\ Len(m.values) \in Nat
         /\ DOMAIN m.values = 1..Len(m.values)
         /\ \A i \in 1..Len(m.values) : m.values[i] \in Entry(V)
         /\ \A kind \in Kind : \A k \in DOMAIN m.keys[kind] :
              k \in K /\ m.keys[kind][k] \in 1..Len(m.values)
         /\ \A kind \in Kind : m.keys[kind] = [x \in DOMAIN m.keys[kind] |-> m.keys[kind][x]]
<1>1. m = [keys |-> [kind \in Kind |-> m.keys[kind]], values |-> m.values]
      /\ m.values \in Seq(Entry(V))
  BY DEF KeyMapTypeOK, Entry
<1>2. DOMAIN m.keys = Kind
  <2>1. m.keys = [kind \in Kind |-> m.keys[kind]]
    BY <1>1, Fields
  <2> QED BY <2>1
<1>3. /\ Len(m.values) \in Nat /\ DOMAIN m.values = 1..Len(m.values)
      /\ \A i \in 1..Len(m.values) : m.values[i] \in Entry(V)
  BY <1>1
<1> QED BY <1>1, <1>2, <1>3 DEF KeyMapTypeOK, IsMap

(* The converse: what makes a map well-formed. *)
LEMMA ShapeOf ==
  ASSUME NEW ks, NEW vs, NEW K, NEW V, vs \in Seq(Entry(V)),
         ks = [kind \in Kind |-> ks[kind]],
         \A kind \in Kind : ks[kind] = [x \in DOMAIN ks[kind] |-> ks[kind][x]],
         \A kind \in Kind : \A k \in DOMAIN ks[kind] : k \in K /\ ks[kind][k] \in 1..Len(vs)
  PROVE  KeyMapTypeOK([keys |-> ks, values |-> vs], K, V)
<1> DEFINE m == [keys |-> ks, values |-> vs]
<1>1. m.keys = ks /\ m.values = vs
  OBVIOUS
<1>2. DOMAIN vs = 1..Len(vs)
  OBVIOUS
<1>3. m = [keys |-> [kind \in Kind |-> m.keys[kind]], values |-> m.values]
  OBVIOUS
<1> HIDE DEF m
<1> QED BY <1>1, <1>2, <1>3 DEF KeyMapTypeOK, IsMap, Entry

-----------------------------------------------------------------------------
Inserted(m, n, kind, k, v) ==
  LET L == Len(m.values)
  IN /\ Len(n.values) = L + 1 /\ n.values[L + 1] = [val |-> v, count |-> 1]
     /\ \A i \in 1..L : n.values[i] = m.values[i]
     /\ \A o \in Kind : DOMAIN n.keys[o] = IF o = kind THEN DOMAIN m.keys[o] \cup {k}
                                           ELSE DOMAIN m.keys[o]
     /\ n.keys[kind][k] = L + 1
     /\ \A o \in Kind : \A x \in DOMAIN m.keys[o] : n.keys[o][x] = m.keys[o][x]

LEMMA NewValue ==
  ASSUME NEW K, NEW V, NEW m, KeyMapTypeOK(m, K, V), NEW kind \in Kind, NEW k \in K, NEW v \in V,
         ~contains_key(m, kind, k)
  PROVE  /\ KeyMapTypeOK(insert_by_key(m, kind, k, v), K, V)
         /\ Inserted(m, insert_by_key(m, kind, k, v), kind, k, v)
<1> DEFINE L == Len(m.values)
           ks == [m.keys EXCEPT ![kind] = Insert(@, k, L + 1)]
           e == [val |-> v, count |-> 1]
           vs == Append(m.values, e)
           n == insert_by_key(m, kind, k, v)
<1>1. n = [keys |-> ks, values |-> vs]
  BY DEF insert_by_key
<1>2. n.keys = ks /\ n.values = vs
  BY <1>1, Fields
<1>3. e \in Entry(V)
  BY DEF Entry
<1>4. /\ vs \in Seq(Entry(V)) /\ Len(vs) = L + 1 /\ vs[L + 1] = e /\ L \in Nat
      /\ \A i \in 1..L : vs[i] = m.values[i]
  <2>1. m.values \in Seq(Entry(V)) /\ L \in Nat
    BY Shape
  <2> HIDE DEF e
  <2> QED BY <1>3, <2>1
<1>5. /\ ks = [o \in Kind |-> ks[o]]
      /\ \A o \in Kind : ks[o] = IF o = kind THEN Insert(m.keys[o], k, L + 1) ELSE m.keys[o]
  BY Shape
<1>6. /\ DOMAIN ks[kind] = DOMAIN m.keys[kind] \cup {k} /\ ks[kind][k] = L + 1
      /\ \A x \in DOMAIN m.keys[kind] : ks[kind][x] = m.keys[kind][x]
      /\ ks[kind] = [x \in DOMAIN ks[kind] |-> ks[kind][x]]
  BY <1>5 DEF Insert, contains_key
<1>7. \A o \in Kind : o # kind => ks[o] = m.keys[o]
  BY <1>5
<1> HIDE DEF ks, vs, e
<1>8. \A o \in Kind : \A x \in DOMAIN ks[o] : x \in K /\ ks[o][x] \in 1..Len(vs)
  BY <1>4, <1>6, <1>7, Shape
<1>9. \A o \in Kind : ks[o] = [x \in DOMAIN ks[o] |-> ks[o][x]]
  BY <1>6, <1>7, Shape
<1>10. KeyMapTypeOK([keys |-> ks, values |-> vs], K, V)
  BY <1>4, <1>5, <1>8, <1>9, ShapeOf
<1>11. \A o \in Kind : DOMAIN ks[o] = IF o = kind THEN DOMAIN m.keys[o] \cup {k}
                                     ELSE DOMAIN m.keys[o]
  BY <1>6, <1>7
<1>12. \A o \in Kind : \A x \in DOMAIN m.keys[o] : ks[o][x] = m.keys[o][x]
  BY <1>6, <1>7
<1> QED BY <1>1, <1>2, <1>4, <1>6, <1>10, <1>11, <1>12 DEF e, Inserted
(* A key is linked: it leads where the other key leads, and is counted. *)
LEMMA CountedEntry ==
  ASSUME NEW V, NEW vs \in Seq(Entry(V)), NEW i \in 1..Len(vs), NEW n \in Nat \ {0}
  PROVE  /\ counted(vs, i, n) \in Seq(Entry(V)) /\ Len(counted(vs, i, n)) = Len(vs)
         /\ counted(vs, i, n)[i].val = vs[i].val /\ counted(vs, i, n)[i].count = n
         /\ \A j \in 1..Len(vs) : j # i => counted(vs, i, n)[j] = vs[j]
<1> DEFINE e == [val |-> vs[i].val, count |-> n]
<1>1. vs[i] \in Entry(V) /\ Len(vs) \in Nat /\ DOMAIN vs = 1..Len(vs)
  OBVIOUS
<1>2. e \in Entry(V) /\ e.val = vs[i].val /\ e.count = n
  BY <1>1 DEF Entry
<1>3. counted(vs, i, n) = [vs EXCEPT ![i] = e]
  BY DEF counted
<1> HIDE DEF e
<1> QED BY <1>1, <1>2, <1>3

Linked(m, n, kind, k, i) ==
  LET L == Len(m.values)
  IN /\ Len(n.values) = Len(m.values)
     /\ n.values[i].val = m.values[i].val /\ n.values[i].count = m.values[i].count + 1
     /\ \A j \in 1..Len(m.values) : j # i => n.values[j] = m.values[j]
     /\ \A o \in Kind : DOMAIN n.keys[o] = IF o = kind THEN DOMAIN m.keys[o] \cup {k}
                                           ELSE DOMAIN m.keys[o]
     /\ n.keys[kind][k] = i
     /\ \A o \in Kind : \A x \in DOMAIN m.keys[o] : n.keys[o][x] = m.keys[o][x]

LEMMA LinkedKey ==
  ASSUME NEW K, NEW V, NEW m, KeyMapTypeOK(m, K, V),
         NEW kind \in Kind, NEW k \in K, NEW old \in Kind, NEW q,
         ~contains_key(m, kind, k), contains_key(m, old, q)
  PROVE  /\ KeyMapTypeOK(link_key_to_key(m, kind, k, old, q), K, V)
         /\ Linked(m, link_key_to_key(m, kind, k, old, q), kind, k, m.keys[old][q])
<1> DEFINE i == m.keys[old][q]
           c == m.values[i].count + 1
           ks == [m.keys EXCEPT ![kind] = Insert(@, k, i)]
           vs == counted(m.values, i, c)
           n == link_key_to_key(m, kind, k, old, q)
<1>1. n = [keys |-> ks, values |-> vs]
  BY DEF link_key_to_key, link_result
<1>2. n.keys = ks /\ n.values = vs
  BY <1>1, Fields
<1>3. /\ i \in 1..Len(m.values) /\ m.values \in Seq(Entry(V)) /\ Len(m.values) \in Nat
      /\ m.values[i] \in Entry(V)
  BY Shape DEF contains_key
<1>4. c \in Nat \ {0}
  BY <1>3 DEF Entry
<1>5. /\ vs \in Seq(Entry(V)) /\ Len(vs) = Len(m.values)
      /\ vs[i].val = m.values[i].val /\ vs[i].count = c
      /\ \A j \in 1..Len(m.values) : j # i => vs[j] = m.values[j]
  <2> HIDE DEF i, c
  <2> QED BY <1>3, <1>4, CountedEntry
<1>6. /\ ks = [o \in Kind |-> ks[o]]
      /\ \A o \in Kind : ks[o] = IF o = kind THEN Insert(m.keys[o], k, i) ELSE m.keys[o]
  BY Shape
<1>7. /\ DOMAIN ks[kind] = DOMAIN m.keys[kind] \cup {k} /\ ks[kind][k] = i
      /\ \A x \in DOMAIN m.keys[kind] : ks[kind][x] = m.keys[kind][x]
      /\ ks[kind] = [x \in DOMAIN ks[kind] |-> ks[kind][x]]
  BY <1>6 DEF Insert, contains_key
<1>8. \A o \in Kind : o # kind => ks[o] = m.keys[o]
  BY <1>6
<1> HIDE DEF ks, vs, i, c
<1>9. \A o \in Kind : \A x \in DOMAIN ks[o] : x \in K /\ ks[o][x] \in 1..Len(vs)
  BY <1>3, <1>5, <1>7, <1>8, Shape
<1>10. \A o \in Kind : ks[o] = [x \in DOMAIN ks[o] |-> ks[o][x]]
  BY <1>7, <1>8, Shape
<1>11. KeyMapTypeOK([keys |-> ks, values |-> vs], K, V)
  BY <1>5, <1>6, <1>9, <1>10, ShapeOf
<1>12. \A o \in Kind : DOMAIN ks[o] = IF o = kind THEN DOMAIN m.keys[o] \cup {k}
                                      ELSE DOMAIN m.keys[o]
  BY <1>7, <1>8
<1>13. \A o \in Kind : \A x \in DOMAIN m.keys[o] : ks[o][x] = m.keys[o][x]
  BY <1>7, <1>8
<1> QED BY <1>1, <1>2, <1>5, <1>7, <1>11, <1>12, <1>13 DEF i, c, Linked

(* A link that does not succeed changes nothing. *)
LEMMA NotLinked ==
  ASSUME NEW m, NEW kind, NEW k, NEW old, NEW q,
         contains_key(m, kind, k) \/ ~contains_key(m, old, q)
  PROVE  link_key_to_key(m, kind, k, old, q) = m
BY DEF link_key_to_key, link_result

(* The key of a map without it. *)
LEMMA CutKeys ==
  ASSUME NEW K, NEW V, NEW m, KeyMapTypeOK(m, K, V), NEW kind \in Kind, NEW k
  PROVE  LET ks == [m.keys EXCEPT ![kind] = Remove(@, k)]
         IN /\ ks = [o \in Kind |-> ks[o]]
            /\ \A o \in Kind : ks[o] = [x \in DOMAIN ks[o] |-> ks[o][x]]
            /\ \A o \in Kind : DOMAIN ks[o] = IF o = kind THEN DOMAIN m.keys[o] \ {k}
                                              ELSE DOMAIN m.keys[o]
            /\ \A o \in Kind : \A x \in DOMAIN ks[o] :
                 ks[o][x] = m.keys[o][x] /\ x \in K /\ ks[o][x] \in 1..Len(m.values)
<1> DEFINE ks == [m.keys EXCEPT ![kind] = Remove(@, k)]
<1>1. /\ ks = [o \in Kind |-> ks[o]]
      /\ \A o \in Kind : ks[o] = IF o = kind THEN Remove(m.keys[o], k) ELSE m.keys[o]
  BY Shape
<1>2. /\ DOMAIN ks[kind] = DOMAIN m.keys[kind] \ {k}
      /\ \A x \in DOMAIN ks[kind] : ks[kind][x] = m.keys[kind][x]
      /\ ks[kind] = [x \in DOMAIN ks[kind] |-> ks[kind][x]]
  BY <1>1 DEF Remove
<1>3. \A o \in Kind : o # kind => ks[o] = m.keys[o]
  BY <1>1
<1> HIDE DEF ks
<1>4. \A o \in Kind : DOMAIN ks[o] = IF o = kind THEN DOMAIN m.keys[o] \ {k} ELSE DOMAIN m.keys[o]
  BY <1>2, <1>3
<1>5. \A o \in Kind : \A x \in DOMAIN ks[o] :
        ks[o][x] = m.keys[o][x] /\ x \in K /\ ks[o][x] \in 1..Len(m.values)
  BY <1>2, <1>3, Shape
<1>6. \A o \in Kind : ks[o] = [x \in DOMAIN ks[o] |-> ks[o][x]]
  BY <1>2, <1>3, Shape
<1> QED BY <1>1, <1>4, <1>5, <1>6 DEF ks

(* One of several keys is removed: the value stays where it is. *)
Lessened(m, n, kind, k, i) ==
  LET L == Len(m.values)
  IN /\ Len(n.values) = Len(m.values)
     /\ n.values[i].val = m.values[i].val /\ n.values[i].count = m.values[i].count - 1
     /\ \A j \in 1..Len(m.values) : j # i => n.values[j] = m.values[j]
     /\ \A o \in Kind : DOMAIN n.keys[o] = IF o = kind THEN DOMAIN m.keys[o] \ {k}
                                           ELSE DOMAIN m.keys[o]
     /\ \A o \in Kind : \A x \in DOMAIN n.keys[o] : n.keys[o][x] = m.keys[o][x]

LEMMA OneKeyLess ==
  ASSUME NEW K, NEW V, NEW m, KeyMapTypeOK(m, K, V), NEW kind \in Kind, NEW k,
         contains_key(m, kind, k), m.values[m.keys[kind][k]].count # 1
  PROVE  /\ KeyMapTypeOK(remove_by_key(m, kind, k), K, V)
         /\ Lessened(m, remove_by_key(m, kind, k), kind, k, m.keys[kind][k])
<1> DEFINE i == m.keys[kind][k]
           c == m.values[i].count - 1
           ks == [m.keys EXCEPT ![kind] = Remove(@, k)]
           vs == counted(m.values, i, c)
           n == remove_by_key(m, kind, k)
<1>1. /\ i \in 1..Len(m.values) /\ m.values \in Seq(Entry(V)) /\ Len(m.values) \in Nat
      /\ m.values[i] \in Entry(V) /\ DOMAIN m.values = 1..Len(m.values)
  BY Shape DEF contains_key
<1>2. c \in Nat \ {0} /\ m.values[i].count > 1 /\ m.values[i].count # 1
  <2>1. m.values[i].count # 1
    OBVIOUS
  <2> HIDE DEF i
  <2>2. m.values[i].count \in Nat \ {0}
    BY <1>1 DEF Entry
  <2> QED BY <2>1, <2>2
<1>3. n = [keys |-> ks, values |-> vs]
  BY <1>1, <1>2 DEF remove_by_key
<1>4. n.keys = ks /\ n.values = vs
  BY <1>3, Fields
<1>5. /\ vs \in Seq(Entry(V)) /\ Len(vs) = Len(m.values)
      /\ vs[i].val = m.values[i].val /\ vs[i].count = c
      /\ \A j \in 1..Len(m.values) : j # i => vs[j] = m.values[j]
  <2> HIDE DEF i, c
  <2> QED BY <1>1, <1>2, CountedEntry
<1>6. /\ ks = [o \in Kind |-> ks[o]]
      /\ \A o \in Kind : ks[o] = [x \in DOMAIN ks[o] |-> ks[o][x]]
      /\ \A o \in Kind : DOMAIN ks[o] = IF o = kind THEN DOMAIN m.keys[o] \ {k}
                                        ELSE DOMAIN m.keys[o]
      /\ \A o \in Kind : \A x \in DOMAIN ks[o] :
           ks[o][x] = m.keys[o][x] /\ x \in K /\ ks[o][x] \in 1..Len(m.values)
  BY CutKeys
<1> HIDE DEF ks, vs, i, c
<1>7. KeyMapTypeOK([keys |-> ks, values |-> vs], K, V)
  BY <1>5, <1>6, ShapeOf
<1> QED BY <1>3, <1>4, <1>5, <1>6, <1>7 DEF i, c, Lessened

LEMMA NotRemoved ==
  ASSUME NEW m, NEW kind, NEW k, ~contains_key(m, kind, k)
  PROVE  remove_by_key(m, kind, k) = m
BY DEF remove_by_key

(* The only key of a value is removed: the last value takes its place, and
   every other key still leads to the value it led to. *)
Dropped(m, n, kind, k, i) ==
  LET L == Len(m.values)
  IN /\ L \in Nat \ {0} /\ i \in 1..L
     /\ Len(n.values) = L - 1
     /\ \A j \in 1..(L - 1) : n.values[j] = m.values[IF j = i THEN L ELSE j]
     /\ \A o \in Kind : DOMAIN n.keys[o] = IF o = kind THEN DOMAIN m.keys[o] \ {k}
                                           ELSE DOMAIN m.keys[o]
     /\ \A o \in Kind : \A x \in DOMAIN n.keys[o] :
          /\ n.keys[o][x] = IF m.keys[o][x] = L THEN i ELSE m.keys[o][x]
          /\ m.keys[o][x] # i

LEMMA LastKey ==
  ASSUME NEW K, NEW V, NEW m, KeyMapTypeOK(m, K, V), NEW kind \in Kind, NEW k,
         contains_key(m, kind, k), m.values[m.keys[kind][k]].count = 1,
         \A o \in Kind : \A x \in DOMAIN m.keys[o] :
           m.keys[o][x] = m.keys[kind][k] => o = kind /\ x = k
  PROVE  /\ KeyMapTypeOK(remove_by_key(m, kind, k), K, V)
         /\ Dropped(m, remove_by_key(m, kind, k), kind, k, m.keys[kind][k])
<1> DEFINE i == m.keys[kind][k]
           L == Len(m.values)
           cs == [m.keys EXCEPT ![kind] = Remove(@, k)]
           f(o) == [x \in DOMAIN cs[o] |-> IF cs[o][x] = L THEN i ELSE cs[o][x]]
           ks == [o \in Kind |-> f(o)]
           ws == [m.values EXCEPT ![i] = m.values[L]]
           vs == SubSeq(ws, 1, L - 1)
           n == remove_by_key(m, kind, k)
<1>1. /\ i \in 1..L /\ m.values \in Seq(Entry(V)) /\ L \in Nat
      /\ DOMAIN m.values = 1..L
  BY Shape DEF contains_key
<1>2. L \in Nat \ {0} /\ L \in 1..L
  <2> HIDE DEF i, L
  <2> QED BY <1>1
<1>3. n = [keys |-> ks, values |-> vs]
  <2> DEFINE cut == [keys |-> cs, values |-> m.values]
  <2>1. n = swap_remove(cut, i)
    BY <1>1 DEF remove_by_key
  <2>2. cut.keys = cs /\ cut.values = m.values
    OBVIOUS
  <2> HIDE DEF cut, cs
  <2>3. swap_remove(cut, i) = [keys |-> ks, values |-> vs]
    BY <2>2 DEF swap_remove
  <2> QED BY <2>1, <2>3
<1>4. n.keys = ks /\ n.values = vs
  <2> HIDE DEF ks, vs
  <2> QED BY <1>3, Fields
<1>5. /\ vs \in Seq(Entry(V)) /\ Len(vs) = L - 1
      /\ \A j \in 1..(L - 1) : vs[j] = m.values[IF j = i THEN L ELSE j]
  <2>1. ws \in Seq(Entry(V)) /\ Len(ws) = L
        /\ \A j \in 1..L : ws[j] = m.values[IF j = i THEN L ELSE j]
    <3> HIDE DEF i
    <3>1. m.values[L] \in Entry(V)
      BY <1>1, <1>2
    <3> QED BY <1>1, <1>2, <3>1
  <2>2. 1 \in 1..(L + 1) /\ L - 1 \in 0..L
    <3> HIDE DEF L
    <3> QED BY <1>2
  <2> HIDE DEF ws, L, i
  <2>3. /\ vs \in Seq(Entry(V)) /\ Len(vs) = L - 1
        /\ \A j \in 1..(L - 1) : vs[j] = ws[j]
    <3>1. /\ vs \in Seq(Entry(V))
          /\ Len(vs) = IF 1 <= L - 1 THEN L - 1 - 1 + 1 ELSE 0
          /\ \A j \in 1..(L - 1 - 1 + 1) : vs[j] = ws[1 + j - 1]
      BY <1>2, <2>1, <2>2, SubSeqProperties
    <3> HIDE DEF vs
    <3> QED BY <1>2, <3>1
  <2> QED BY <1>2, <2>1, <2>3
<1>6. /\ cs = [o \in Kind |-> cs[o]]
      /\ \A o \in Kind : cs[o] = [x \in DOMAIN cs[o] |-> cs[o][x]]
      /\ \A o \in Kind : DOMAIN cs[o] = IF o = kind THEN DOMAIN m.keys[o] \ {k}
                                        ELSE DOMAIN m.keys[o]
      /\ \A o \in Kind : \A x \in DOMAIN cs[o] :
           cs[o][x] = m.keys[o][x] /\ x \in K /\ cs[o][x] \in 1..Len(m.values)
  BY CutKeys
<1>7. \A o \in Kind : \A x \in DOMAIN cs[o] : cs[o][x] # i
  <2> HIDE DEF cs
  <2> SUFFICES ASSUME NEW o \in Kind, NEW x \in DOMAIN cs[o], cs[o][x] = i PROVE FALSE
    OBVIOUS
  <2>1. x \in DOMAIN m.keys[o] /\ (o = kind => x # k)
    <3>1. CASE o = kind
      <4>1. DOMAIN cs[kind] = DOMAIN m.keys[kind] \ {k}
        BY <1>6
      <4> QED BY <3>1, <4>1, Zenon
    <3>2. CASE o # kind
      BY <1>6, <3>2
    <3> QED BY <3>1, <3>2
  <2>2. m.keys[o][x] = m.keys[kind][k]
    BY <1>6
  <2> QED BY <2>1, <2>2
<1> HIDE DEF cs, vs, L, i
<1>8. /\ ks = [o \in Kind |-> ks[o]]
      /\ \A o \in Kind : ks[o] = [x \in DOMAIN ks[o] |-> ks[o][x]]
      /\ \A o \in Kind : DOMAIN ks[o] = DOMAIN cs[o]
      /\ \A o \in Kind : \A x \in DOMAIN ks[o] : ks[o][x] = IF cs[o][x] = L THEN i ELSE cs[o][x]
  OBVIOUS
<1> HIDE DEF ks
<1>9. \A o \in Kind : \A x \in DOMAIN ks[o] : x \in K /\ ks[o][x] \in 1..Len(vs)
  <2>1. \A o \in Kind : \A x \in DOMAIN ks[o] : x \in K /\ cs[o][x] \in 1..L
    BY <1>6, <1>8 DEF L
  <2> QED BY <1>1, <1>2, <1>5, <1>7, <1>8, <2>1
<1>10. KeyMapTypeOK([keys |-> ks, values |-> vs], K, V)
  BY <1>5, <1>8, <1>9, ShapeOf
<1>11. \A o \in Kind : \A x \in DOMAIN ks[o] :
         ks[o][x] = (IF m.keys[o][x] = L THEN i ELSE m.keys[o][x]) /\ m.keys[o][x] # i
  BY <1>6, <1>7, <1>8
<1>12. \A o \in Kind : DOMAIN ks[o] = IF o = kind THEN DOMAIN m.keys[o] \ {k}
                                      ELSE DOMAIN m.keys[o]
  BY <1>6, <1>8
<1> HIDE DEF n
<1>13. KeyMapTypeOK(n, K, V)
  BY <1>3, <1>10
<1>14. /\ Len(n.values) = L - 1
       /\ \A j \in 1..(L - 1) : n.values[j] = m.values[IF j = i THEN L ELSE j]
  BY <1>4, <1>5
<1>15. \A o \in Kind : \A x \in DOMAIN n.keys[o] :
         /\ n.keys[o][x] = IF m.keys[o][x] = L THEN i ELSE m.keys[o][x]
         /\ m.keys[o][x] # i
  BY <1>4, <1>11
<1>16. \A o \in Kind : DOMAIN n.keys[o] = IF o = kind THEN DOMAIN m.keys[o] \ {k}
                                         ELSE DOMAIN m.keys[o]
  BY <1>4, <1>12
<1> QED BY <1>1, <1>2, <1>13, <1>14, <1>15, <1>16, Zenon DEF n, i, L, Dropped

(* unlink_all_but_key1: the keys of the value are gone, all but one. *)
Unlinked(m, n, k, i) ==
  /\ n.values = m.values
  /\ \A o \in Kind : DOMAIN n.keys[o] = {x \in DOMAIN m.keys[o] :
                       m.keys[o][x] # i \/ (o = "key1" /\ x = k)}
  /\ \A o \in Kind : \A x \in DOMAIN n.keys[o] : n.keys[o][x] = m.keys[o][x]

LEMMA OthersUnlinked ==
  ASSUME NEW K, NEW V, NEW m, KeyMapTypeOK(m, K, V), NEW k, contains_key(m, "key1", k)
  PROVE  /\ KeyMapTypeOK(unlink_all_but_key1(m, k), K, V)
         /\ Unlinked(m, unlink_all_but_key1(m, k), k, m.keys["key1"][k])
<1> DEFINE i == m.keys["key1"][k]
           others(f) == [q \in {p \in DOMAIN f : f[p] # i} |-> f[q]]
           ks == [o \in Kind |-> IF o = "key1" THEN Insert(others(m.keys[o]), k, i)
                                 ELSE others(m.keys[o])]
           n == unlink_all_but_key1(m, k)
<1>1. n = [keys |-> ks, values |-> m.values]
  BY DEF unlink_all_but_key1
<1>2. n.keys = ks /\ n.values = m.values
  <2> HIDE DEF ks
  <2> QED BY <1>1, Fields
<1>3. k \in DOMAIN m.keys["key1"] /\ "key1" \in Kind /\ m.values \in Seq(Entry(V))
  BY Shape DEF contains_key, Kind
<1>4. \A o \in Kind : o # "key1" =>
        /\ DOMAIN ks[o] = {x \in DOMAIN m.keys[o] : m.keys[o][x] # i}
        /\ ks[o] = [x \in DOMAIN ks[o] |-> ks[o][x]]
        /\ \A x \in DOMAIN ks[o] : ks[o][x] = m.keys[o][x]
  <2> HIDE DEF i
  <2> QED OBVIOUS
<1>5. /\ DOMAIN ks["key1"] = {x \in DOMAIN m.keys["key1"] : m.keys["key1"][x] # i} \cup {k}
      /\ ks["key1"] = [x \in DOMAIN ks["key1"] |-> ks["key1"][x]]
      /\ \A x \in DOMAIN ks["key1"] : ks["key1"][x] = m.keys["key1"][x]
  <2> DEFINE g == others(m.keys["key1"])
  <2>1. ks["key1"] = Insert(g, k, i)
    BY <1>3
  <2>2. /\ DOMAIN g = {x \in DOMAIN m.keys["key1"] : m.keys["key1"][x] # i}
        /\ \A x \in DOMAIN g : g[x] = m.keys["key1"][x]
    OBVIOUS
  <2> HIDE DEF g, ks
  <2> QED BY <1>3, <2>1, <2>2 DEF Insert
<1>6. ks = [o \in Kind |-> ks[o]]
  OBVIOUS
<1> HIDE DEF ks
<1>7. \A o \in Kind : DOMAIN ks[o] = {x \in DOMAIN m.keys[o] :
                                 m.keys[o][x] # i \/ (o = "key1" /\ x = k)}
  <2> HIDE DEF i
  <2>1. ASSUME NEW o \in Kind, o # "key1"
        PROVE  DOMAIN ks[o] = {x \in DOMAIN m.keys[o] : m.keys[o][x] # i \/ (o = "key1" /\ x = k)}
    BY <1>4, <2>1
  <2>2. DOMAIN ks["key1"] = {x \in DOMAIN m.keys["key1"] :
                               m.keys["key1"][x] # i \/ ("key1" = "key1" /\ x = k)}
    BY <1>3, <1>5
  <2> QED BY <2>1, <2>2
<1>8. /\ \A o \in Kind : ks[o] = [x \in DOMAIN ks[o] |-> ks[o][x]]
      /\ \A o \in Kind : \A x \in DOMAIN ks[o] : ks[o][x] = m.keys[o][x]
  BY <1>4, <1>5
<1>9. \A o \in Kind : \A x \in DOMAIN ks[o] : x \in K /\ ks[o][x] \in 1..Len(m.values)
  BY <1>7, <1>8, Shape
<1>10. KeyMapTypeOK([keys |-> ks, values |-> m.values], K, V)
  BY <1>3, <1>6, <1>8, <1>9, ShapeOf
<1> QED BY <1>1, <1>2, <1>7, <1>8, <1>10 DEF Unlinked

-----------------------------------------------------------------------------
(* The counts.  A value's count is never below the number of its keys; it is
   exact as long as unlink_all_but_key1 has not dropped keys of it. *)
CountOK(m, K, i) == /\ IsFiniteSet(keysTo(m, K, i))
                    /\ m.values[i].count \in Nat
                    /\ m.values[i].count >= Cardinality(keysTo(m, K, i))
Exact(m, K, i) == m.values[i].count = Cardinality(keysTo(m, K, i))
Leads(m, o, x, i) == x \in DOMAIN m.keys[o] /\ m.keys[o][x] = i

LEMMA KeysSame ==
  ASSUME NEW m, NEW n, NEW K, NEW i, NEW j,
         \A o \in Kind, x \in K : Leads(n, o, x, i) <=> Leads(m, o, x, j)
  PROVE  keysTo(n, K, i) = keysTo(m, K, j)
BY DEF keysTo, contains_key, Leads

LEMMA KeysMore ==
  ASSUME NEW m, NEW n, NEW K, NEW i, NEW kind \in Kind, NEW k \in K,
         \A o \in Kind, x \in K : Leads(n, o, x, i) <=> Leads(m, o, x, i) \/ (o = kind /\ x = k)
  PROVE  keysTo(n, K, i) = keysTo(m, K, i) \cup {<<kind, k>>}
BY DEF keysTo, contains_key, Leads

LEMMA KeysLess ==
  ASSUME NEW m, NEW n, NEW K, NEW i, NEW kind \in Kind, NEW k \in K,
         \A o \in Kind, x \in K : Leads(n, o, x, i) <=> Leads(m, o, x, i) /\ ~(o = kind /\ x = k)
  PROVE  keysTo(n, K, i) = keysTo(m, K, i) \ {<<kind, k>>}
BY DEF keysTo, contains_key, Leads

LEMMA CountSame ==
  ASSUME NEW m, NEW n, NEW K, NEW i, NEW j, n.values[i] = m.values[j],
         \A o \in Kind, x \in K : Leads(n, o, x, i) <=> Leads(m, o, x, j)
  PROVE  (CountOK(m, K, j) => CountOK(n, K, i)) /\ (Exact(m, K, j) => Exact(n, K, i))
BY KeysSame DEF CountOK, Exact

LEMMA CountMore ==
  ASSUME NEW m, NEW n, NEW K, NEW i, NEW kind \in Kind, NEW k \in K, CountOK(m, K, i),
         n.values[i].count = m.values[i].count + 1, k \notin DOMAIN m.keys[kind],
         \A o \in Kind, x \in K : Leads(n, o, x, i) <=> Leads(m, o, x, i) \/ (o = kind /\ x = k)
  PROVE  CountOK(n, K, i) /\ (Exact(m, K, i) => Exact(n, K, i))
<1>1. keysTo(n, K, i) = keysTo(m, K, i) \cup {<<kind, k>>}
  BY KeysMore
<1>2. <<kind, k>> \notin keysTo(m, K, i)
  BY DEF keysTo, contains_key
<1>3. IsFiniteSet(keysTo(m, K, i)) /\ Cardinality(keysTo(m, K, i)) \in Nat
  BY FS_CardinalityType DEF CountOK
<1> DEFINE S == keysTo(m, K, i)
           e == <<kind, k>>
<1>4. /\ IsFiniteSet(S \cup {e})
      /\ Cardinality(S \cup {e}) = Cardinality(S) + 1
  <2> IsFiniteSet(S) /\ e \notin S
    BY <1>2, <1>3
  <2> HIDE DEF S, e
  <2> QED BY FS_AddElement
<1>5. /\ IsFiniteSet(keysTo(n, K, i))
      /\ Cardinality(keysTo(n, K, i)) = Cardinality(keysTo(m, K, i)) + 1
  BY <1>1, <1>4
<1> QED BY <1>3, <1>5 DEF CountOK, Exact

LEMMA CountLess ==
  ASSUME NEW m, NEW n, NEW K, NEW i, NEW kind \in Kind, NEW k \in K, CountOK(m, K, i),
         n.values[i].count = m.values[i].count - 1, Leads(m, kind, k, i),
         \A o \in Kind, x \in K : Leads(n, o, x, i) <=> Leads(m, o, x, i) /\ ~(o = kind /\ x = k)
  PROVE  CountOK(n, K, i) /\ (Exact(m, K, i) => Exact(n, K, i))
<1>1. keysTo(n, K, i) = keysTo(m, K, i) \ {<<kind, k>>}
  BY KeysLess
<1>2. <<kind, k>> \in keysTo(m, K, i)
  BY DEF keysTo, contains_key, Leads
<1>3. IsFiniteSet(keysTo(m, K, i)) /\ Cardinality(keysTo(m, K, i)) \in Nat
  BY FS_CardinalityType DEF CountOK
<1>4. /\ IsFiniteSet(keysTo(n, K, i)) /\ Cardinality(keysTo(n, K, i)) \in Nat
      /\ Cardinality(keysTo(n, K, i)) = Cardinality(keysTo(m, K, i)) - 1
  BY <1>1, <1>2, <1>3, FS_RemoveElement, FS_CardinalityType
<1> QED BY <1>3, <1>4 DEF CountOK, Exact

LEMMA CountFewer ==
  ASSUME NEW m, NEW n, NEW K, NEW i, CountOK(m, K, i), n.values[i] = m.values[i],
         \A o \in Kind, x \in K : Leads(n, o, x, i) => Leads(m, o, x, i)
  PROVE  CountOK(n, K, i)
<1>1. keysTo(n, K, i) \subseteq keysTo(m, K, i)
  BY DEF keysTo, contains_key, Leads
<1>2. /\ IsFiniteSet(keysTo(n, K, i)) /\ Cardinality(keysTo(n, K, i)) \in Nat
      /\ Cardinality(keysTo(m, K, i)) \in Nat
      /\ Cardinality(keysTo(n, K, i)) <= Cardinality(keysTo(m, K, i))
  BY <1>1, FS_Subset, FS_CardinalityType DEF CountOK
<1> QED BY <1>2 DEF CountOK

LEMMA CountOne ==
  ASSUME NEW n, NEW K, NEW i, NEW kind \in Kind, NEW k \in K, n.values[i].count = 1,
         Leads(n, kind, k, i),
         \A o \in Kind, x \in K : Leads(n, o, x, i) <=> (o = kind /\ x = k)
  PROVE  CountOK(n, K, i) /\ Exact(n, K, i)
<1>1. keysTo(n, K, i) = {<<kind, k>>}
  BY DEF keysTo, contains_key, Leads
<1>2. IsFiniteSet(keysTo(n, K, i)) /\ Cardinality(keysTo(n, K, i)) = 1
  BY <1>1, FS_Singleton
<1> QED BY <1>2 DEF CountOK, Exact

(* A key whose value has a count of one is its only key. *)
LEMMA OnlyKey ==
  ASSUME NEW m, NEW K, NEW i, CountOK(m, K, i), m.values[i].count = 1,
         NEW kind \in Kind, NEW k \in K, Leads(m, kind, k, i),
         NEW o \in Kind, NEW x \in K, Leads(m, o, x, i)
  PROVE  o = kind /\ x = k
<1>1. <<kind, k>> \in keysTo(m, K, i) /\ <<o, x>> \in keysTo(m, K, i)
  BY DEF keysTo, contains_key, Leads
<1>2. IsFiniteSet(keysTo(m, K, i)) /\ Cardinality(keysTo(m, K, i)) <= 1
      /\ Cardinality(keysTo(m, K, i)) \in Nat
  BY FS_CardinalityType DEF CountOK
<1>3. Cardinality(keysTo(m, K, i)) = 1
  <2>1. Cardinality(keysTo(m, K, i)) # 0
    BY <1>1, <1>2, FS_EmptySet
  <2> QED BY <1>2, <2>1
<1>4. PICK y : keysTo(m, K, i) = {y}
  BY <1>2, <1>3, FS_Singleton
<1>5. <<kind, k>> = <<o, x>>
  BY <1>1, <1>4
<1> QED BY <1>5
-----------------------------------------------------------------------------
(* What a map m means to its caller: w, a map for each kind.  The keys are of
   K and the values of V, the values so far in S, and all counts but those of
   gone exact. *)
Meant(w) == w = [o \in Kind |-> w[o]]

(* Every key is one the caller knows, and the value at its position is the
   one that was meant. *)
Agrees(m, w) ==
  /\ \A o \in Kind : DOMAIN m.keys[o] = DOMAIN w[o]
  /\ \A o \in Kind : \A x \in DOMAIN m.keys[o] : m.values[m.keys[o][x]].val = w[o][x]

(* Each value is in the vector once, and is one of S. *)
Known(m, S) ==
  /\ \A i, j \in DOMAIN m.values : m.values[i].val = m.values[j].val => i = j
  /\ \A i \in DOMAIN m.values : m.values[i].val \in S

Counted(m, K, gone) ==
  \A i \in DOMAIN m.values :
    CountOK(m, K, i) /\ (m.values[i].val \notin gone => Exact(m, K, i))

MapOK(m, w, K, V, S, gone) ==
  /\ KeyMapTypeOK(m, K, V)
  /\ Meant(w) /\ Agrees(m, w)
  /\ Known(m, S)
  /\ Counted(m, K, gone)

-----------------------------------------------------------------------------
(* What becomes of the keys the caller has in mind. *)
More(w, kind, k, v) == [w EXCEPT ![kind] = Insert(@, k, v)]
Less(w, kind, k) == [w EXCEPT ![kind] = Remove(@, k)]

MeantMore(w, u, kind, k, v) ==
  /\ \A o \in Kind : DOMAIN u[o] = IF o = kind THEN DOMAIN w[o] \cup {k} ELSE DOMAIN w[o]
  /\ \A o \in Kind : \A x \in DOMAIN u[o] : u[o][x] = IF o = kind /\ x = k THEN v ELSE w[o][x]

LEMMA MoreMeant ==
  ASSUME NEW w, Meant(w), NEW kind \in Kind, NEW k, NEW v
  PROVE  Meant(More(w, kind, k, v)) /\ MeantMore(w, More(w, kind, k, v), kind, k, v)
<1> DEFINE u == More(w, kind, k, v)
<1>1. /\ u = [o \in Kind |-> u[o]] /\ u[kind] = Insert(w[kind], k, v)
      /\ \A o \in Kind : o # kind => u[o] = w[o]
  BY DEF Meant, More
<1> HIDE DEF u
<1>2. /\ DOMAIN u[kind] = DOMAIN w[kind] \cup {k}
      /\ \A x \in DOMAIN u[kind] : u[kind][x] = IF x = k THEN v ELSE w[kind][x]
  BY <1>1 DEF Insert
<1>3. \A o \in Kind : DOMAIN u[o] = IF o = kind THEN DOMAIN w[o] \cup {k} ELSE DOMAIN w[o]
  BY <1>1, <1>2
<1>4. \A o \in Kind : \A x \in DOMAIN u[o] : u[o][x] = IF o = kind /\ x = k THEN v ELSE w[o][x]
  BY <1>1, <1>2
<1>5. Meant(u) /\ MeantMore(w, u, kind, k, v)
  BY <1>1, <1>3, <1>4 DEF Meant, MeantMore
<1> QED BY <1>5 DEF u

MeantLess(w, u, kind, k) ==
  /\ \A o \in Kind : DOMAIN u[o] = IF o = kind THEN DOMAIN w[o] \ {k} ELSE DOMAIN w[o]
  /\ \A o \in Kind : \A x \in DOMAIN u[o] : u[o][x] = w[o][x]

LEMMA LessMeant ==
  ASSUME NEW w, Meant(w), NEW kind \in Kind, NEW k
  PROVE  Meant(Less(w, kind, k)) /\ MeantLess(w, Less(w, kind, k), kind, k)
<1> DEFINE u == Less(w, kind, k)
<1>1. /\ u = [o \in Kind |-> u[o]] /\ u[kind] = Remove(w[kind], k)
      /\ \A o \in Kind : o # kind => u[o] = w[o]
  BY DEF Meant, Less
<1> HIDE DEF u
<1>2. /\ DOMAIN u[kind] = DOMAIN w[kind] \ {k}
      /\ \A x \in DOMAIN u[kind] : u[kind][x] = w[kind][x]
  BY <1>1 DEF Remove
<1>3. \A o \in Kind : DOMAIN u[o] = IF o = kind THEN DOMAIN w[o] \ {k} ELSE DOMAIN w[o]
  BY <1>1, <1>2
<1>4. \A o \in Kind : \A x \in DOMAIN u[o] : u[o][x] = w[o][x]
  BY <1>1, <1>2
<1>5. Meant(u) /\ MeantLess(w, u, kind, k)
  BY <1>1, <1>3, <1>4 DEF Meant, MeantLess
<1> QED BY <1>5 DEF u

-----------------------------------------------------------------------------
LEMMA InsertKeeps ==
  ASSUME NEW m, NEW w, NEW K, NEW V, NEW S, NEW gone, MapOK(m, w, K, V, S, gone), NEW n, NEW u,
         NEW kind \in Kind, NEW k \in K, k \notin DOMAIN w[kind],
         NEW v \in V, v \notin S,
         n = insert_by_key(m, kind, k, v), u = More(w, kind, k, v)
  PROVE  MapOK(n, u, K, V, S \cup {v}, gone)
<1> DEFINE L == Len(m.values)
<1>1. /\ KeyMapTypeOK(m, K, V) /\ Meant(w) /\ Agrees(m, w) /\ Known(m, S)
      /\ Counted(m, K, gone)
      /\ k \notin DOMAIN m.keys[kind]
  BY DEF MapOK, Agrees
<1>2. KeyMapTypeOK(n, K, V) /\ Inserted(m, n, kind, k, v)
  BY <1>1, NewValue DEF contains_key
<1>3. Meant(u) /\ MeantMore(w, u, kind, k, v)
  BY <1>1, MoreMeant
<1>4. /\ L \in Nat /\ DOMAIN m.values = 1..L /\ DOMAIN n.values = 1..(L + 1)
      /\ \A o \in Kind : \A x \in DOMAIN m.keys[o] : x \in K /\ m.keys[o][x] \in 1..L
  <2>1. L \in Nat /\ DOMAIN m.values = 1..L
    BY <1>1, Shape
  <2>2. Len(n.values) = L + 1
    BY <1>2 DEF Inserted
  <2>3. DOMAIN n.values = 1..(L + 1)
    BY <1>2, <2>2, Shape
  <2> QED BY <1>1, <2>1, <2>3, Shape
<1>5. /\ \A i \in 1..L : n.values[i] = m.values[i]
      /\ n.values[L + 1].val = v /\ n.values[L + 1].count = 1
      /\ n.keys[kind][k] = L + 1
      /\ \A o \in Kind : \A x \in DOMAIN m.keys[o] : n.keys[o][x] = m.keys[o][x]
  BY <1>2 DEF Inserted
<1>6. \A o \in Kind : \A x : x \in DOMAIN n.keys[o] <=>
                            x \in DOMAIN m.keys[o] \/ (o = kind /\ x = k)
  BY <1>2 DEF Inserted
<1>7. ~ (L + 1 \in 1..L) /\ L + 1 \in 1..(L + 1) /\ 1..L \subseteq 1..(L + 1)
      /\ \A i \in 1..(L + 1) : i \in 1..L \/ i = L + 1
  BY <1>4
<1> HIDE DEF L
<1>8. Agrees(n, u)
  <2>1. \A o \in Kind : DOMAIN n.keys[o] = DOMAIN u[o]
    BY <1>1, <1>2, <1>3 DEF Agrees, Inserted, MeantMore
  <2>2. ASSUME NEW o \in Kind, NEW x \in DOMAIN n.keys[o]
        PROVE  n.values[n.keys[o][x]].val = u[o][x]
    <3>1. u[o][x] = IF o = kind /\ x = k THEN v ELSE w[o][x]
      BY <1>3, <2>1 DEF MeantMore
    <3>2. CASE o = kind /\ x = k
      BY <1>5, <3>1, <3>2
    <3>3. CASE ~(o = kind /\ x = k)
      <4>1. x \in DOMAIN m.keys[o]
        BY <1>6, <3>3
      <4>2. n.keys[o][x] = m.keys[o][x] /\ n.values[m.keys[o][x]] = m.values[m.keys[o][x]]
        BY <1>4, <1>5, <4>1
      <4> QED BY <1>1, <3>1, <3>3, <4>1, <4>2 DEF Agrees
    <3> QED BY <3>2, <3>3
  <2> QED BY <2>1, <2>2 DEF Agrees
<1>9. Known(n, S \cup {v})
  <2>1. \A i \in 1..L : n.values[i].val \in S /\ n.values[i].val = m.values[i].val
    BY <1>1, <1>4, <1>5 DEF Known
  <2>3. ASSUME NEW i \in 1..(L + 1), NEW j \in 1..(L + 1), n.values[i].val = n.values[j].val
        PROVE  i = j
    <3>1. CASE i \in 1..L /\ j \in 1..L
      BY <1>1, <1>4, <2>1, <2>3, <3>1 DEF Known
    <3>2. CASE i = L + 1 \/ j = L + 1
      BY <1>5, <1>7, <2>1, <2>3, <3>2
    <3> QED BY <1>7, <3>1, <3>2
  <2>4. \A i \in 1..(L + 1) : n.values[i].val \in S \cup {v}
    BY <1>5, <1>7, <2>1
  <2> QED BY <1>4, <2>3, <2>4 DEF Known
<1>10. Counted(n, K, gone)
  <2>1. ASSUME NEW i \in 1..L
        PROVE  CountOK(n, K, i) /\ (n.values[i].val \notin gone => Exact(n, K, i))
    <3>1. \A o \in Kind, x \in K : Leads(n, o, x, i) <=> Leads(m, o, x, i)
      BY <1>1, <1>5, <1>6, <1>7 DEF Leads
    <3>2. (CountOK(m, K, i) => CountOK(n, K, i)) /\ (Exact(m, K, i) => Exact(n, K, i))
      BY <1>5, <3>1, CountSame
    <3> QED BY <1>1, <1>4, <1>5, <3>2 DEF Counted
  <2>2. CountOK(n, K, L + 1) /\ Exact(n, K, L + 1)
    <3> DEFINE i == L + 1
    <3>1. \A o \in Kind, x \in K : Leads(n, o, x, i) <=> (o = kind /\ x = k)
      BY <1>4, <1>5, <1>6, <1>7 DEF Leads
    <3>2. n.values[i].count = 1 /\ Leads(n, kind, k, i)
      BY <1>5, <3>1
    <3> HIDE DEF i
    <3>3. CountOK(n, K, i) /\ Exact(n, K, i)
      BY <3>1, <3>2, CountOne
    <3> QED BY <3>3 DEF i
  <2> QED BY <1>4, <1>7, <2>1, <2>2 DEF Counted
<1> QED BY <1>1, <1>2, <1>3, <1>8, <1>9, <1>10 DEF MapOK

LEMMA LinkKeeps ==
  ASSUME NEW m, NEW w, NEW K, NEW V, NEW S, NEW gone, MapOK(m, w, K, V, S, gone), NEW n, NEW u,
         NEW kind \in Kind, NEW k \in K, NEW old \in Kind, NEW q \in K,
         n = link_key_to_key(m, kind, k, old, q),
         u = IF k \notin DOMAIN w[kind] /\ q \in DOMAIN w[old]
             THEN More(w, kind, k, w[old][q]) ELSE w
  PROVE  MapOK(n, u, K, V, S, gone)
<1>1. /\ KeyMapTypeOK(m, K, V) /\ Meant(w) /\ Agrees(m, w) /\ Known(m, S)
      /\ Counted(m, K, gone)
  BY DEF MapOK
<1>2. CASE contains_key(m, kind, k) \/ ~contains_key(m, old, q)
  <2>1. n = m
    BY <1>2, NotLinked
  <2>2. u = w
    BY <1>1, <1>2 DEF Agrees, contains_key
  <2> QED BY <2>1, <2>2
<1>3. CASE ~contains_key(m, kind, k) /\ contains_key(m, old, q)
  <2> DEFINE i == m.keys[old][q]
             v == w[old][q]
             D == 1..Len(m.values)
  <2>1. k \notin DOMAIN m.keys[kind] /\ q \in DOMAIN m.keys[old]
    BY <1>3 DEF contains_key
  <2>2. u = More(w, kind, k, v)
    BY <1>1, <2>1 DEF Agrees
  <2>3. KeyMapTypeOK(n, K, V) /\ Linked(m, n, kind, k, i)
    BY <1>1, <1>3, LinkedKey
  <2>4. Meant(u) /\ MeantMore(w, u, kind, k, v)
    BY <1>1, <2>2, MoreMeant
  <2>5. i \in D /\ m.values[i].val = v
        /\ \A o \in Kind : \A x \in DOMAIN m.keys[o] : x \in K /\ m.keys[o][x] \in D
    BY <1>1, <2>1, Shape DEF Agrees
  <2> HIDE DEF i, v
  <2>6. /\ n.values[i].val = m.values[i].val /\ n.values[i].count = m.values[i].count + 1
        /\ \A j \in D : j # i => n.values[j] = m.values[j]
        /\ n.keys[kind][k] = i
        /\ \A o \in Kind : \A x \in DOMAIN m.keys[o] : n.keys[o][x] = m.keys[o][x]
    BY <2>3 DEF Linked
  <2>7. \A o \in Kind : \A x : x \in DOMAIN n.keys[o] <=>
                              x \in DOMAIN m.keys[o] \/ (o = kind /\ x = k)
    BY <2>3 DEF Linked
  <2>8. /\ DOMAIN n.values = D /\ DOMAIN m.values = D
        /\ \A j \in D : n.values[j].val = m.values[j].val
        /\ Known(n, S)
    <3>1. DOMAIN m.values = D
      BY <1>1, Shape
    <3>2. Len(n.values) = Len(m.values)
      BY <2>3 DEF Linked
    <3>3. DOMAIN n.values = D
      BY <2>3, <3>2, Shape
    <3> HIDE DEF D
    <3>4. \A j \in D : n.values[j].val = m.values[j].val
      BY <2>6
    <3> QED BY <1>1, <3>1, <3>3, <3>4 DEF Known
  <2> HIDE DEF D
  <2>9. Agrees(n, u)
    <3>1. \A o \in Kind : DOMAIN n.keys[o] = DOMAIN u[o]
      BY <1>1, <2>3, <2>4 DEF Agrees, Linked, MeantMore
    <3>2. ASSUME NEW o \in Kind, NEW x \in DOMAIN n.keys[o]
          PROVE  n.values[n.keys[o][x]].val = u[o][x]
      <4>1. u[o][x] = IF o = kind /\ x = k THEN v ELSE w[o][x]
        BY <2>4, <3>1 DEF MeantMore
      <4>2. CASE o = kind /\ x = k
        BY <2>5, <2>6, <4>1, <4>2
      <4>3. CASE ~(o = kind /\ x = k)
        <5>1. x \in DOMAIN m.keys[o]
          BY <2>7, <4>3
        <5>2. n.keys[o][x] = m.keys[o][x] /\ m.keys[o][x] \in D
          BY <2>5, <2>6, <5>1
        <5> QED BY <1>1, <2>8, <4>1, <4>3, <5>1, <5>2 DEF Agrees
      <4> QED BY <4>2, <4>3
    <3> QED BY <3>1, <3>2 DEF Agrees
  <2>10. Counted(n, K, gone)
    <3>1. ASSUME NEW j \in D, j # i
          PROVE  CountOK(n, K, j) /\ (n.values[j].val \notin gone => Exact(n, K, j))
      <4>1. \A o \in Kind, x \in K : Leads(n, o, x, j) <=> Leads(m, o, x, j)
        BY <2>1, <2>6, <2>7, <3>1 DEF Leads
      <4>2. (CountOK(m, K, j) => CountOK(n, K, j)) /\ (Exact(m, K, j) => Exact(n, K, j))
        BY <2>6, <3>1, <4>1, CountSame
      <4> QED BY <1>1, <2>8, <4>2 DEF Counted
    <3>2. CountOK(n, K, i) /\ (Exact(m, K, i) => Exact(n, K, i))
      <4>1. \A o \in Kind, x \in K :
              Leads(n, o, x, i) <=> Leads(m, o, x, i) \/ (o = kind /\ x = k)
        BY <2>1, <2>6, <2>7 DEF Leads
      <4>2. CountOK(m, K, i)
        BY <1>1, <2>5, <2>8 DEF Counted
      <4> QED BY <2>1, <2>6, <4>1, <4>2, CountMore
    <3>3. n.values[i].val \notin gone => Exact(m, K, i)
      BY <1>1, <2>5, <2>8 DEF Counted
    <3> QED BY <2>8, <3>1, <3>2, <3>3 DEF Counted
  <2> QED BY <1>1, <2>3, <2>4, <2>8, <2>9, <2>10 DEF MapOK
<1> QED BY <1>2, <1>3

LEMMA RemoveKeeps ==
  ASSUME NEW m, NEW w, NEW K, NEW V, NEW S, NEW gone, MapOK(m, w, K, V, S, gone), NEW n, NEW u,
         NEW kind \in Kind, NEW k \in K,
         n = remove_by_key(m, kind, k), u = Less(w, kind, k)
  PROVE  MapOK(n, u, K, V, S, gone)
<1> DEFINE i == m.keys[kind][k]
           L == Len(m.values)
           D == 1..L
<1>1. /\ KeyMapTypeOK(m, K, V) /\ Meant(w) /\ Agrees(m, w) /\ Known(m, S)
      /\ Counted(m, K, gone)
  BY DEF MapOK
<1>2. Meant(u) /\ MeantLess(w, u, kind, k)
  BY <1>1, LessMeant
<1>3. \A o \in Kind : \A x \in DOMAIN m.keys[o] : x \in K /\ m.keys[o][x] \in D
  BY <1>1, Shape
<1>4. L \in Nat /\ DOMAIN m.values = D
  BY <1>1, Shape
<1>5. CASE ~contains_key(m, kind, k)
  <2>1. n = m
    BY <1>5, NotRemoved
  <2>2. ASSUME NEW o \in Kind
        PROVE  DOMAIN u[o] = DOMAIN w[o]
    <3>1. k \notin DOMAIN w[kind]
      BY <1>1, <1>5 DEF Agrees, contains_key
    <3>2. DOMAIN u[o] = IF o = kind THEN DOMAIN w[o] \ {k} ELSE DOMAIN w[o]
      BY <1>2 DEF MeantLess
    <3> QED BY <3>1, <3>2
  <2>3. Agrees(n, u)
    BY <1>1, <1>2, <2>1, <2>2 DEF Agrees, MeantLess
  <2> QED BY <1>1, <1>2, <2>1, <2>3 DEF MapOK
<1>6. CASE contains_key(m, kind, k) /\ m.values[i].count # 1
  <2>1. KeyMapTypeOK(n, K, V) /\ Lessened(m, n, kind, k, i)
    BY <1>1, <1>6, OneKeyLess
  <2>2. k \in DOMAIN m.keys[kind] /\ i \in D
    BY <1>3, <1>6 DEF contains_key
  <2>3. Leads(m, kind, k, i)
    BY <2>2 DEF Leads
  <2> HIDE DEF i
  <2>4. /\ n.values[i].val = m.values[i].val /\ n.values[i].count = m.values[i].count - 1
        /\ \A j \in D : j # i => n.values[j] = m.values[j]
        /\ \A o \in Kind : \A x \in DOMAIN n.keys[o] : n.keys[o][x] = m.keys[o][x]
    BY <2>1 DEF Lessened
  <2>5. \A o \in Kind : \A x : x \in DOMAIN n.keys[o] <=>
                              x \in DOMAIN m.keys[o] /\ ~(o = kind /\ x = k)
    BY <2>1 DEF Lessened
  <2>6. /\ DOMAIN n.values = D /\ \A j \in D : n.values[j].val = m.values[j].val
        /\ Known(n, S)
    <3>1. Len(n.values) = L
      BY <2>1 DEF Lessened
    <3>2. DOMAIN n.values = D
      BY <2>1, <3>1, Shape
    <3> HIDE DEF D, L
    <3>3. \A j \in D : n.values[j].val = m.values[j].val
      BY <2>4
    <3> QED BY <1>1, <1>4, <3>2, <3>3 DEF Known
  <2> HIDE DEF D, L
  <2>7. Agrees(n, u)
    <3>1. \A o \in Kind : DOMAIN n.keys[o] = DOMAIN u[o]
      BY <1>1, <1>2, <2>1 DEF Agrees, Lessened, MeantLess
    <3>2. ASSUME NEW o \in Kind, NEW x \in DOMAIN n.keys[o]
          PROVE  n.values[n.keys[o][x]].val = u[o][x]
      <4>1. x \in DOMAIN m.keys[o] /\ u[o][x] = w[o][x]
        BY <1>2, <2>5, <3>1 DEF MeantLess
      <4>2. n.keys[o][x] = m.keys[o][x] /\ m.keys[o][x] \in D
        BY <1>3, <2>4, <4>1
      <4> QED BY <1>1, <2>6, <4>1, <4>2 DEF Agrees
    <3> QED BY <3>1, <3>2 DEF Agrees
  <2>8. Counted(n, K, gone)
    <3>1. ASSUME NEW j \in D, j # i
          PROVE  CountOK(n, K, j) /\ (n.values[j].val \notin gone => Exact(n, K, j))
      <4>1. \A o \in Kind, x \in K : Leads(n, o, x, j) <=> Leads(m, o, x, j)
        BY <2>3, <2>4, <2>5, <3>1 DEF Leads
      <4>2. (CountOK(m, K, j) => CountOK(n, K, j)) /\ (Exact(m, K, j) => Exact(n, K, j))
        BY <2>4, <3>1, <4>1, CountSame
      <4> QED BY <1>1, <1>4, <2>6, <4>2 DEF Counted
    <3>2. CountOK(n, K, i) /\ (Exact(m, K, i) => Exact(n, K, i))
      <4>1. \A o \in Kind, x \in K :
              Leads(n, o, x, i) <=> Leads(m, o, x, i) /\ ~(o = kind /\ x = k)
        BY <2>4, <2>5 DEF Leads
      <4>2. CountOK(m, K, i)
        BY <1>1, <1>4, <2>2 DEF Counted
      <4> QED BY <2>3, <2>4, <4>1, <4>2, CountLess
    <3>3. n.values[i].val \notin gone => Exact(m, K, i)
      BY <1>1, <1>4, <2>2, <2>6 DEF Counted
    <3> QED BY <2>6, <3>1, <3>2, <3>3 DEF Counted
  <2> QED BY <1>1, <1>2, <2>1, <2>6, <2>7, <2>8 DEF MapOK
<1>7. CASE contains_key(m, kind, k) /\ m.values[i].count = 1
  <2>1. k \in DOMAIN m.keys[kind] /\ i \in D
    BY <1>3, <1>7 DEF contains_key
  <2>2. Leads(m, kind, k, i) /\ CountOK(m, K, i)
    BY <1>1, <1>4, <2>1 DEF Leads, Counted
  <2>3. ASSUME NEW o \in Kind, NEW x \in DOMAIN m.keys[o], m.keys[o][x] = i
        PROVE  o = kind /\ x = k
    <3>1. x \in K /\ Leads(m, o, x, i)
      BY <1>3, <2>3 DEF Leads
    <3> HIDE DEF i
    <3> QED BY <1>7, <2>2, <3>1, OnlyKey
  <2>4. KeyMapTypeOK(n, K, V) /\ Dropped(m, n, kind, k, i)
    BY <1>1, <1>7, <2>3, LastKey
  <2> HIDE DEF i
  <2>5. /\ L \in Nat \ {0} /\ Len(n.values) = L - 1
        /\ \A j \in 1..(L - 1) : n.values[j] = m.values[IF j = i THEN L ELSE j]
        /\ \A o \in Kind : \A x \in DOMAIN n.keys[o] :
             /\ n.keys[o][x] = IF m.keys[o][x] = L THEN i ELSE m.keys[o][x]
             /\ m.keys[o][x] # i
    BY <2>4 DEF Dropped
  <2>6. \A o \in Kind : \A x : x \in DOMAIN n.keys[o] <=>
                              x \in DOMAIN m.keys[o] /\ ~(o = kind /\ x = k)
    BY <2>4 DEF Dropped
  <2> DEFINE E == 1..(L - 1)
             from(j) == IF j = i THEN L ELSE j
  <2>7. DOMAIN n.values = E
    BY <2>4, <2>5, Shape
  <2>8. \A j \in E : from(j) \in D /\ (from(j) = L <=> j = i) /\ n.values[j] = m.values[from(j)]
    BY <2>5
  <2>9. \A j, l \in E : from(j) = from(l) => j = l
    BY <2>5
  <2>10. \A p \in D : p # i => (IF p = L THEN i ELSE p) \in E
                              /\ from(IF p = L THEN i ELSE p) = p
    BY <2>1, <2>5
  <2>11. ASSUME NEW o \in Kind, NEW x \in DOMAIN n.keys[o]
         PROVE  /\ x \in DOMAIN m.keys[o] /\ n.keys[o][x] \in E
                /\ from(n.keys[o][x]) = m.keys[o][x]
    <3>1. x \in DOMAIN m.keys[o] /\ m.keys[o][x] \in D
      BY <1>3, <2>6
    <3> QED BY <2>5, <2>10, <3>1
  <2> HIDE DEF D, E, L, from
  <2>12. Agrees(n, u)
    <3>1. \A o \in Kind : DOMAIN n.keys[o] = DOMAIN u[o]
      BY <1>1, <1>2, <2>4 DEF Agrees, Dropped, MeantLess
    <3>2. ASSUME NEW o \in Kind, NEW x \in DOMAIN n.keys[o]
          PROVE  n.values[n.keys[o][x]].val = u[o][x]
      <4>1. u[o][x] = w[o][x]
        BY <1>2, <3>1 DEF MeantLess
      <4>2. n.values[n.keys[o][x]] = m.values[m.keys[o][x]] /\ x \in DOMAIN m.keys[o]
        BY <2>8, <2>11
      <4> QED BY <1>1, <4>1, <4>2 DEF Agrees
    <3> QED BY <3>1, <3>2 DEF Agrees
  <2>13. Known(n, S)
    BY <1>1, <1>4, <2>7, <2>8, <2>9 DEF Known
  <2>14. Counted(n, K, gone)
    <3>1. ASSUME NEW j \in E
          PROVE  CountOK(n, K, j) /\ (n.values[j].val \notin gone => Exact(n, K, j))
      <4>1. ASSUME NEW o \in Kind, NEW x \in K
            PROVE  Leads(n, o, x, j) <=> Leads(m, o, x, from(j))
        <5>1. ASSUME Leads(n, o, x, j) PROVE Leads(m, o, x, from(j))
          BY <2>11, <5>1 DEF Leads
        <5>2. ASSUME Leads(m, o, x, from(j)) PROVE Leads(n, o, x, j)
          <6>1. x \in DOMAIN m.keys[o] /\ m.keys[o][x] = from(j)
            BY <5>2 DEF Leads
          <6>2. from(j) # i
            BY <2>1, <2>5, <3>1 DEF from, E, D
          <6>3. x \in DOMAIN n.keys[o]
            BY <2>2, <2>6, <6>1, <6>2 DEF Leads
          <6>4. n.keys[o][x] = j
            BY <2>9, <2>11, <3>1, <6>1, <6>3
          <6> QED BY <6>3, <6>4 DEF Leads
        <5> QED BY <5>1, <5>2
      <4>2. /\ CountOK(m, K, from(j)) => CountOK(n, K, j)
            /\ Exact(m, K, from(j)) => Exact(n, K, j)
        BY <2>8, <3>1, <4>1, CountSame
      <4> QED BY <1>1, <1>4, <2>8, <3>1, <4>2 DEF Counted
    <3> QED BY <2>7, <3>1 DEF Counted
  <2> QED BY <1>1, <1>2, <2>4, <2>12, <2>13, <2>14 DEF MapOK
<1> QED BY <1>5, <1>6, <1>7

(* What the caller means once the other keys of k's value are unlinked. *)
Kept(w, k, o) == {q \in DOMAIN w[o] : w[o][q] # w["key1"][k] \/ (o = "key1" /\ q = k)}
Alone(w, k) == [o \in Kind |-> [q \in Kept(w, k, o) |-> w[o][q]]]

LEMMA UnlinkKeeps ==
  ASSUME NEW m, NEW w, NEW K, NEW V, NEW S, NEW gone, MapOK(m, w, K, V, S, gone), NEW n, NEW u,
         NEW k \in K, k \in DOMAIN w["key1"],
         n = unlink_all_but_key1(m, k), u = Alone(w, k)
  PROVE  MapOK(n, u, K, V, S, gone \cup {w["key1"][k]})
<1> DEFINE i == m.keys["key1"][k]
           v == w["key1"][k]
           D == 1..Len(m.values)
<1>1. /\ KeyMapTypeOK(m, K, V) /\ Meant(w) /\ Agrees(m, w) /\ Known(m, S)
      /\ Counted(m, K, gone) /\ "key1" \in Kind
  BY DEF MapOK, Kind
<1>2. contains_key(m, "key1", k) /\ k \in DOMAIN m.keys["key1"]
  BY <1>1 DEF Agrees, contains_key
<1>3. KeyMapTypeOK(n, K, V) /\ Unlinked(m, n, k, i)
  BY <1>1, <1>2, OthersUnlinked
<1>4. DOMAIN m.values = D /\ i \in D
      /\ \A o \in Kind : \A x \in DOMAIN m.keys[o] : m.keys[o][x] \in D
  BY <1>1, <1>2, Shape
<1>5. m.values[i].val = v
  BY <1>1, <1>2 DEF Agrees
<1> HIDE DEF i, v, D
<1>6. \A o \in Kind : \A x \in DOMAIN m.keys[o] : m.keys[o][x] = i <=> w[o][x] = v
  BY <1>1, <1>4, <1>5 DEF Agrees, Known
<1>7. n.values = m.values
  BY <1>3 DEF Unlinked
<1>8. \A o \in Kind : \A x : x \in DOMAIN n.keys[o] <=>
        x \in DOMAIN m.keys[o] /\ (m.keys[o][x] # i \/ (o = "key1" /\ x = k))
  BY <1>3 DEF Unlinked
<1>9. \A o \in Kind : \A x \in DOMAIN n.keys[o] : n.keys[o][x] = m.keys[o][x]
  BY <1>3 DEF Unlinked
<1>10. /\ Meant(u)
       /\ \A o \in Kind : DOMAIN u[o] = Kept(w, k, o)
       /\ \A o \in Kind : \A x \in DOMAIN u[o] : u[o][x] = w[o][x]
  BY DEF Alone, Meant
<1>11. Agrees(n, u)
  <2>1. ASSUME NEW o \in Kind
        PROVE  DOMAIN n.keys[o] = DOMAIN u[o]
    <3>1. \A x : x \in Kept(w, k, o) <=> x \in DOMAIN m.keys[o] /\
                    (w[o][x] # v \/ (o = "key1" /\ x = k))
      BY <1>1 DEF Kept, Agrees, v
    <3>2. \A x : x \in DOMAIN n.keys[o] <=> x \in Kept(w, k, o)
      BY <1>6, <1>8, <3>1
    <3> QED BY <1>10, <3>2
  <2>2. ASSUME NEW o \in Kind, NEW x \in DOMAIN n.keys[o]
        PROVE  n.values[n.keys[o][x]].val = u[o][x]
    BY <1>1, <1>7, <1>8, <1>9, <1>10, <2>1 DEF Agrees
  <2> QED BY <2>1, <2>2 DEF Agrees
<1>12. Known(n, S)
  BY <1>1, <1>7 DEF Known
<1>13. ASSUME NEW j \in D
       PROVE  CountOK(n, K, j) /\ (n.values[j].val \notin gone \cup {v} => Exact(n, K, j))
  <2>1. CountOK(m, K, j) /\ (m.values[j].val \notin gone => Exact(m, K, j))
    BY <1>1, <1>4 DEF Counted
  <2>2. \A o \in Kind, x \in K : Leads(n, o, x, j) => Leads(m, o, x, j)
    BY <1>8, <1>9 DEF Leads
  <2>3. CountOK(n, K, j)
    BY <1>7, <2>1, <2>2, CountFewer
  <2>4. CASE j = i
    BY <1>5, <1>7, <2>3, <2>4
  <2>5. CASE j # i
    <3>1. \A o \in Kind, x \in K : Leads(n, o, x, j) <=> Leads(m, o, x, j)
      BY <1>8, <1>9, <2>5 DEF Leads
    <3>2. Exact(m, K, j) => Exact(n, K, j)
      BY <1>7, <3>1, CountSame
    <3> QED BY <1>7, <2>1, <2>3, <3>2
  <2> QED BY <2>4, <2>5
<1>14. Counted(n, K, gone \cup {v})
  BY <1>4, <1>7, <1>13 DEF Counted
<1>15. MapOK(n, u, K, V, S, gone \cup {v})
  BY <1>1, <1>3, <1>10, <1>11, <1>12, <1>14 DEF MapOK
<1> QED BY <1>15 DEF v

(* What a caller gets. *)
LEMMA GetsFromInv ==
  ASSUME NEW m, NEW w, NEW K, NEW V, NEW S, NEW gone, MapOK(m, w, K, V, S, gone), NEW o \in Kind, NEW x
  PROVE  get_by_key(m, o, x) = IF x \in DOMAIN w[o] THEN w[o][x] ELSE None
<1>1. KeyMapTypeOK(m, K, V) /\ Agrees(m, w)
  BY DEF MapOK
<1>2. \A y \in DOMAIN m.keys[o] : m.keys[o][y] \in DOMAIN m.values
  BY <1>1, Shape
<1> QED BY <1>1, <1>2 DEF get_by_key, contains_key, Agrees

-----------------------------------------------------------------------------
(* The same in terms of get_by_key alone, for callers that keep no map of
   their own in mind: a sound map, and what each method does to every get. *)
Sound(m, K, V, S) == /\ KeyMapTypeOK(m, K, V) /\ Known(m, S)
                     /\ \A i \in DOMAIN m.values : CountOK(m, K, i)
View(m) == [o \in Kind |-> [x \in DOMAIN m.keys[o] |-> m.values[m.keys[o][x]].val]]

LEMMA SoundView ==
  ASSUME NEW m, NEW K, NEW V, NEW S, Sound(m, K, V, S), S \subseteq V
  PROVE  MapOK(m, View(m), K, V, S, V)
<1>1. KeyMapTypeOK(m, K, V) /\ Known(m, S) /\ Counted(m, K, V)
  BY DEF Sound, Counted, Known
<1>2. Meant(View(m))
  BY DEF Meant, View
<1>3. Agrees(m, View(m))
  BY DEF Agrees, View
<1> QED BY <1>1, <1>2, <1>3 DEF MapOK

LEMMA SoundOf ==
  ASSUME NEW m, NEW w, NEW K, NEW V, NEW S, NEW gone, MapOK(m, w, K, V, S, gone)
  PROVE  Sound(m, K, V, S)
BY DEF MapOK, Counted, Sound

LEMMA SoundGets ==
  ASSUME NEW m, NEW K, NEW V, NEW S, Sound(m, K, V, S), S \subseteq V, NEW o \in Kind, NEW x
  PROVE  /\ get_by_key(m, o, x) = IF x \in DOMAIN View(m)[o] THEN View(m)[o][x] ELSE None
         /\ contains_key(m, o, x) <=> x \in DOMAIN View(m)[o]
         /\ x \in DOMAIN View(m)[o] => x \in K /\ View(m)[o][x] \in S
<1>1. MapOK(m, View(m), K, V, S, V)
  BY SoundView
<1>2. x \in DOMAIN View(m)[o] <=> x \in DOMAIN m.keys[o]
  BY DEF View
<1>3. x \in DOMAIN m.keys[o] => View(m)[o][x] = m.values[m.keys[o][x]].val
  BY DEF View
<1>4. x \in DOMAIN m.keys[o] => x \in K /\ m.keys[o][x] \in DOMAIN m.values
  BY Shape DEF Sound
<1> QED BY <1>1, <1>2, <1>3, <1>4, GetsFromInv DEF contains_key, Sound, Known

(* A key is in the map when there is something to get, one of S. *)
LEMMA GetSound ==
  ASSUME NEW m, NEW K, NEW V, NEW S, Sound(m, K, V, S), S \subseteq V, None \notin V,
         NEW o \in Kind, NEW x
  PROVE  /\ contains_key(m, o, x) <=> get_by_key(m, o, x) # None
         /\ get_by_key(m, o, x) # None => x \in K /\ get_by_key(m, o, x) \in S
BY SoundGets

(* r is a sound map that differs from m in what these keys yield. *)
Put(r, m, K, V, S, kind, k, v) ==
  /\ Sound(r, K, V, S)
  /\ \A o \in Kind : \A x :
       get_by_key(r, o, x) = IF o = kind /\ x = k THEN v ELSE get_by_key(m, o, x)
Stripped(r, m, K, V, S, k, v) ==
  /\ Sound(r, K, V, S)
  /\ \A o \in Kind : \A x :
       get_by_key(r, o, x) = IF get_by_key(m, o, x) = v /\ ~(o = "key1" /\ x = k) THEN None
                             ELSE get_by_key(m, o, x)

LEMMA GetInserted ==
  ASSUME NEW m, NEW K, NEW V, NEW S, Sound(m, K, V, S), S \subseteq V, None \notin V,
         NEW kind \in Kind, NEW k \in K, NEW v \in V, v \notin S,
         get_by_key(m, kind, k) = None
  PROVE  Put(insert_by_key(m, kind, k, v), m, K, V, S \cup {v}, kind, k, v)
<1> DEFINE n == insert_by_key(m, kind, k, v)
           w == View(m)
           u == More(w, kind, k, v)
<1>1. MapOK(m, w, K, V, S, V) /\ k \notin DOMAIN w[kind]
  BY SoundView, GetSound, SoundGets
<1>2. MapOK(n, u, K, V, S \cup {v}, V)
  BY <1>1, InsertKeeps
<1>3. Sound(n, K, V, S \cup {v})
  BY <1>2, SoundOf
<1>4. MeantMore(w, u, kind, k, v)
  BY <1>1, MoreMeant DEF MapOK
<1> HIDE DEF n, w, u
<1>5. ASSUME NEW o \in Kind, NEW x
      PROVE  get_by_key(n, o, x) = IF o = kind /\ x = k THEN v ELSE get_by_key(m, o, x)
  <2>1. get_by_key(n, o, x) = IF x \in DOMAIN u[o] THEN u[o][x] ELSE None
    BY <1>2, GetsFromInv
  <2>2. get_by_key(m, o, x) = IF x \in DOMAIN w[o] THEN w[o][x] ELSE None
    BY <1>1, GetsFromInv
  <2>3. /\ x \in DOMAIN u[o] <=> x \in DOMAIN w[o] \/ (o = kind /\ x = k)
        /\ x \in DOMAIN u[o] => u[o][x] = IF o = kind /\ x = k THEN v ELSE w[o][x]
    BY <1>4 DEF MeantMore
  <2> QED BY <2>1, <2>2, <2>3
<1> QED BY <1>3, <1>5 DEF n, Put

LEMMA GetLinked ==
  ASSUME NEW m, NEW K, NEW V, NEW S, Sound(m, K, V, S), S \subseteq V, None \notin V,
         NEW kind \in Kind, NEW k \in K, NEW old \in Kind, NEW q \in K,
         get_by_key(m, kind, k) = None, get_by_key(m, old, q) # None
  PROVE  Put(link_key_to_key(m, kind, k, old, q), m, K, V, S, kind, k, get_by_key(m, old, q))
<1> DEFINE n == link_key_to_key(m, kind, k, old, q)
           w == View(m)
           v == w[old][q]
           u == More(w, kind, k, v)
<1>1. /\ MapOK(m, w, K, V, S, V) /\ k \notin DOMAIN w[kind] /\ q \in DOMAIN w[old]
      /\ get_by_key(m, old, q) = v
      /\ ~contains_key(m, kind, k) /\ contains_key(m, old, q)
  BY SoundView, GetSound, SoundGets
<1>2. MapOK(n, u, K, V, S, V)
  BY <1>1, LinkKeeps
<1>3. Sound(n, K, V, S)
  BY <1>2, SoundOf
<1>4. MeantMore(w, u, kind, k, v)
  BY <1>1, MoreMeant DEF MapOK
<1> HIDE DEF n, w, u, v
<1>5. ASSUME NEW o \in Kind, NEW x
      PROVE  get_by_key(n, o, x) = IF o = kind /\ x = k THEN v ELSE get_by_key(m, o, x)
  <2>1. get_by_key(n, o, x) = IF x \in DOMAIN u[o] THEN u[o][x] ELSE None
    BY <1>2, GetsFromInv
  <2>2. get_by_key(m, o, x) = IF x \in DOMAIN w[o] THEN w[o][x] ELSE None
    BY <1>1, GetsFromInv
  <2>3. /\ x \in DOMAIN u[o] <=> x \in DOMAIN w[o] \/ (o = kind /\ x = k)
        /\ x \in DOMAIN u[o] => u[o][x] = IF o = kind /\ x = k THEN v ELSE w[o][x]
    BY <1>4 DEF MeantMore
  <2> QED BY <2>1, <2>2, <2>3
<1> QED BY <1>1, <1>3, <1>5 DEF n, Put

LEMMA LinkSucceeds ==
  ASSUME NEW m, NEW K, NEW V, NEW S, Sound(m, K, V, S), S \subseteq V, None \notin V,
         NEW kind \in Kind, NEW k, NEW old \in Kind, NEW q,
         get_by_key(m, kind, k) = None, get_by_key(m, old, q) # None
  PROVE  link_result(m, kind, k, old, q) = "Success"
<1>1. ~contains_key(m, kind, k) /\ contains_key(m, old, q)
  BY GetSound
<1> QED BY <1>1 DEF link_result

LEMMA GetRemoved ==
  ASSUME NEW m, NEW K, NEW V, NEW S, Sound(m, K, V, S), S \subseteq V,
         NEW kind \in Kind, NEW k \in K
  PROVE  Put(remove_by_key(m, kind, k), m, K, V, S, kind, k, None)
<1> DEFINE n == remove_by_key(m, kind, k)
           w == View(m)
           u == Less(w, kind, k)
<1>1. MapOK(m, w, K, V, S, V)
  BY SoundView
<1>2. MapOK(n, u, K, V, S, V)
  BY <1>1, RemoveKeeps
<1>3. Sound(n, K, V, S)
  BY <1>2, SoundOf
<1>4. MeantLess(w, u, kind, k)
  BY <1>1, LessMeant DEF MapOK
<1> HIDE DEF n, w, u
<1>5. ASSUME NEW o \in Kind, NEW x
      PROVE  get_by_key(n, o, x) = IF o = kind /\ x = k THEN None ELSE get_by_key(m, o, x)
  <2>1. get_by_key(n, o, x) = IF x \in DOMAIN u[o] THEN u[o][x] ELSE None
    BY <1>2, GetsFromInv
  <2>2. get_by_key(m, o, x) = IF x \in DOMAIN w[o] THEN w[o][x] ELSE None
    BY <1>1, GetsFromInv
  <2> QED BY <1>4, <2>1, <2>2 DEF MeantLess
<1> QED BY <1>3, <1>5 DEF n, Put

LEMMA GetUnlinked ==
  ASSUME NEW m, NEW K, NEW V, NEW S, Sound(m, K, V, S), S \subseteq V, None \notin V,
         NEW k \in K, NEW v, v = get_by_key(m, "key1", k), v # None
  PROVE  Stripped(unlink_all_but_key1(m, k), m, K, V, S, k, v)
<1> DEFINE n == unlink_all_but_key1(m, k)
           w == View(m)
           u == Alone(w, k)
<1>1. /\ MapOK(m, w, K, V, S, V) /\ k \in DOMAIN w["key1"] /\ w["key1"][k] = v
      /\ "key1" \in Kind
  <2>1. "key1" \in Kind
    BY DEF Kind
  <2> QED BY <2>1, SoundView, GetSound, SoundGets
<1>2. MapOK(n, u, K, V, S, V \cup {w["key1"][k]})
  BY <1>1, UnlinkKeeps
<1>3. Sound(n, K, V, S)
  BY <1>2, SoundOf
<1>4. /\ \A o \in Kind : DOMAIN u[o] = Kept(w, k, o)
      /\ \A o \in Kind : \A x \in DOMAIN u[o] : u[o][x] = w[o][x]
  BY DEF Alone
<1> HIDE DEF n, w, u
<1>5. ASSUME NEW o \in Kind, NEW x
      PROVE  get_by_key(n, o, x) =
               IF get_by_key(m, o, x) = v /\ ~(o = "key1" /\ x = k) THEN None
               ELSE get_by_key(m, o, x)
  <2>1. get_by_key(n, o, x) = IF x \in DOMAIN u[o] THEN u[o][x] ELSE None
    BY <1>2, GetsFromInv
  <2>2. get_by_key(m, o, x) = IF x \in DOMAIN w[o] THEN w[o][x] ELSE None
    BY <1>1, GetsFromInv
  <2>3. x \in DOMAIN u[o] <=> x \in DOMAIN w[o] /\ (w[o][x] # v \/ (o = "key1" /\ x = k))
    BY <1>1, <1>4 DEF Kept
  <2>4. CASE x \in DOMAIN u[o]
    <3>1. get_by_key(n, o, x) = w[o][x] /\ get_by_key(m, o, x) = w[o][x]
      BY <1>4, <2>1, <2>2, <2>3, <2>4
    <3> QED BY <2>3, <2>4, <3>1
  <2>5. CASE x \notin DOMAIN u[o]
    <3>1. get_by_key(n, o, x) = None
      BY <2>1, <2>5
    <3>2. x \in DOMAIN w[o] => get_by_key(m, o, x) = v /\ ~(o = "key1" /\ x = k)
      BY <2>2, <2>3, <2>5
    <3>3. x \notin DOMAIN w[o] => get_by_key(m, o, x) = None
      BY <2>2
    <3> QED BY <3>1, <3>2, <3>3
  <2> QED BY <2>4, <2>5
<1> QED BY <1>3, <1>5 DEF n, Stripped

LEMMA EmptySound ==
  ASSUME NEW K, NEW V, NEW S
  PROVE  /\ Sound(with_capacities, K, V, S)
         /\ \A o \in Kind : \A x : get_by_key(with_capacities, o, x) = None
<1> DEFINE ks == [kind \in Kind |-> EmptyMap]
           m == with_capacities
<1>1. m = [keys |-> ks, values |-> <<>>]
  BY DEF with_capacities
<1>2. m.keys = ks /\ m.values = <<>>
  BY <1>1, Fields
<1>3. /\ ks = [kind \in Kind |-> ks[kind]]
      /\ \A kind \in Kind : ks[kind] = [x \in DOMAIN ks[kind] |-> ks[kind][x]]
      /\ \A kind \in Kind : DOMAIN ks[kind] = {}
  BY DEF EmptyMap
<1> HIDE DEF ks, m
<1>4. KeyMapTypeOK(m, K, V)
  <2> <<>> \in Seq(Entry(V))
    OBVIOUS
  <2> QED BY <1>1, <1>3, ShapeOf
<1>5. DOMAIN m.values = {}
  BY <1>2
<1>6. Sound(m, K, V, S)
  BY <1>4, <1>5 DEF Sound, Known
<1>7. \A o \in Kind : \A x : get_by_key(m, o, x) = None
  BY <1>2, <1>3 DEF get_by_key, contains_key
<1> QED BY <1>6, <1>7 DEF m
=============================================================================
