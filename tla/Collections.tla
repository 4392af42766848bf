----------------------------- MODULE Collections -----------------------------
(***************************************************************************)
(* Foundation's collections and the references they hold: NSArray and      *)
(* CFArray (ns_array.rs, cf_array.rs), the hash table below NSDictionary,  *)
(* NSSet and CFDictionary (ns_dictionary.rs, ns_set.rs, cf_dictionary.rs)  *)
(* and NSCache (ns_cache.rs).  One of each, and a copy of it.              *)
(*                                                                         *)
(* An object is identified by its address.  Several may be equal, and      *)
(* unequal ones may have the same hash.  The guest keeps one reference to  *)
(* every object, so a count below that is a release too many.              *)
(***************************************************************************)
EXTENDS Integers, Sequences, FiniteSets, SequencesExt, FiniteSetsExt, TLAPS

CONSTANTS
  Objects,      \* objects of the guest that serve as members, keys and values
  HashOf,       \* their hash
  ClassOf,      \* equal objects have the same number
  Nil,
  Kinds,        \* kinds of collection to look at
  MaxSize,      \* bound on the members of a collection
  Costs,        \* costs of objects in a cache
  Limits        \* limits of a cache

VARIABLES
  kind,       \* the collection in use
  refs,       \* reference count of each object
  array,      \* ArrayHostObject::array
  iterator,   \* what an enumerator has still to return
  map,        \* DictionaryHostObject::map
  count,      \* DictionaryHostObject::count
  copied,     \* what a copy of the collection holds
  cache       \* NSCacheHostObject

vars == <<kind, refs, array, iterator, map, count, copied, cache>>
IsEqual(a, b) == ClassOf[a] = ClassOf[b]
Hashes == {HashOf[o] : o \in Objects}
Bag(s) == [o \in Objects |-> Cardinality({i \in DOMAIN s : s[i] = o})]
Retained(r, s) == [o \in Objects |-> r[o] + Bag(s)[o]]
Released(r, s) == [o \in Objects |-> r[o] - Bag(s)[o]]

NoCache == [entries |-> <<>>, count |-> 0, total_cost |-> 0, count_limit |-> 0, total_cost_limit |-> 0]
Init ==
  /\ kind \in Kinds /\ refs = [o \in Objects |-> 1]
  /\ array = <<>> /\ iterator = <<>>
  /\ map = [h \in Hashes |-> <<>>] /\ count = 0 /\ copied = <<>>
  /\ cache = NoCache

-----------------------------------------------------------------------------
(***************************************************************************)
(* Arrays.  A CFArray (made without callbacks) does not retain.            *)
(***************************************************************************)
Retains == kind = "NSArray"
OnArray == kind \in {"NSArray", "CFArray"} /\ UNCHANGED <<kind, map, count, cache>>
In(s) == IF Retains THEN Retained(refs, s) ELSE refs
Out(s) == IF Retains THEN Released(refs, s) ELSE refs
addObject(o) ==
  /\ OnArray /\ Len(array) < MaxSize
  /\ array' = Append(array, o) /\ refs' = In(<<o>>)
  /\ UNCHANGED <<iterator, copied>>
insertObject_atIndex(o, i) ==
  /\ OnArray /\ Retains /\ Len(array) < MaxSize /\ i \in 0 .. Len(array)
  /\ array' = InsertAt(array, i + 1, o) /\ refs' = In(<<o>>)
  /\ UNCHANGED <<iterator, copied>>
removeObjectAtIndex(i) ==
  /\ OnArray /\ i \in 0 .. Len(array) - 1
  /\ array' = RemoveAt(array, i + 1) /\ refs' = Out(<<array[i + 1]>>)
  /\ UNCHANGED <<iterator, copied>>
removeLastObject ==
  /\ OnArray /\ array # <<>>
  /\ array' = Front(array) /\ refs' = Out(<<Last(array)>>)
  /\ UNCHANGED <<iterator, copied>>
replaceObjectAtIndex(i, o) ==
  /\ OnArray /\ Retains /\ i \in 0 .. Len(array) - 1
  /\ array' = [array EXCEPT ![i + 1] = o]
  /\ refs' = Released(Retained(refs, <<o>>), <<array[i + 1]>>)
  /\ UNCHANGED <<iterator, copied>>
\* The indices of the equal objects are collected first; taken out one after
\* the other from the front, each moves the later ones, so that with two of
\* them another object goes, or the index is past the end and the program stops.
EqualAt(o) == SetToSortSeq({i \in DOMAIN array : IsEqual(o, array[i])}, <)
WithinBounds(idx) == \A n \in DOMAIN idx : idx[n] <= Len(array) - (n - 1)
RemoveEach(s, idx) == FoldLeft(LAMBDA t, i : RemoveAt(t, i), s, idx)
removeObject(o) ==
  /\ OnArray /\ Retains /\ WithinBounds(EqualAt(o))
  /\ array' = RemoveEach(array, EqualAt(o))
  /\ refs' = [p \in Objects |-> refs[p] - (Bag(array)[p] - Bag(array')[p])]
  /\ UNCHANGED <<iterator, copied>>
removeAllObjects ==
  /\ OnArray /\ Retains
  /\ array' = <<>> /\ refs' = Released(refs, array)
  /\ UNCHANGED <<iterator, copied>>
\* arrayWithObjects:, initWithArray: and the like
initWithObjects(s) ==
  /\ OnArray /\ Retains /\ array = <<>>
  /\ array' = s /\ refs' = Retained(refs, s)
  /\ UNCHANGED <<iterator, copied>>
\* The members are out of the array while the guest's comparator runs
sortUsingFunction(s) ==
  /\ OnArray /\ Retains
  /\ Bag(s) = Bag(array) /\ \A i \in 2 .. Len(s) : ClassOf[s[i - 1]] <= ClassOf[s[i]]
  /\ array' = s /\ UNCHANGED <<refs, iterator, copied>>
\* copy, mutableCopy, initWithArray: and subarrayWithRange: retain what they
\* take over; so do the arrays made from keys, values and members below
Copied_unretained(s) == copied' = s /\ UNCHANGED refs
Copied(s) == copied' = s /\ refs' = Retained(refs, s)
mutableCopy ==
  /\ OnArray /\ Retains /\ copied = <<>>
  /\ Copied(array) /\ UNCHANGED <<array, iterator>>
subarrayWithRange(a, b) ==
  /\ OnArray /\ Retains /\ copied = <<>> /\ 0 <= a /\ a <= b /\ b <= Len(array)
  /\ Copied(SubSeq(array, a + 1, b)) /\ UNCHANGED <<array, iterator>>
dealloc_copy ==
  /\ copied # <<>> /\ copied' = <<>> /\ refs' = Released(refs, copied)
  /\ UNCHANGED <<kind, array, iterator, map, count, cache>>
\* An enumerator walks over a snapshot and keeps the array, not its members
objectEnumerator(s) ==
  /\ OnArray /\ iterator = <<>> /\ s \in {array, Reverse(array)}
  /\ iterator' = s /\ UNCHANGED <<refs, array, copied>>
nextObject ==
  /\ OnArray /\ iterator # <<>>
  /\ iterator' = Tail(iterator) /\ UNCHANGED <<refs, array, copied>>

-----------------------------------------------------------------------------
(***************************************************************************)
(* The hash table: pairs of a key and a value by the key's hash.  Keys of  *)
(* an NSDictionary are copied, which for an immutable string retains it.   *)
(* A CFDictionary retains and compares by its callbacks, if it has them.   *)
(***************************************************************************)
Tables == {"NSDictionary", "NSSet", "CFDictionary", "CFDictionary plain"}
OnTable == kind \in Tables /\ UNCHANGED <<kind, array, iterator, cache>>
Plain == kind = "CFDictionary plain"
hash(k) == HashOf[k]
equal_keys_by_pointer(a, b) == a = b
equal_keys(a, b) == IF Plain THEN a = b ELSE IsEqual(a, b)
Position(m, k) == {i \in DOMAIN m[hash(k)] : equal_keys(m[hash(k)][i][1], k)}
Found(m, k) == Position(m, k) # {}
First(m, k) == Min(Position(m, k))
lookup(m, k) == IF Found(m, k) THEN m[hash(k)][First(m, k)][2] ELSE Nil
\* The members that a pair accounts for (a set maps to NSNull, which is not counted)
Members(p) == IF Plain THEN <<>> ELSE IF kind = "NSSet" THEN <<p[1]>> ELSE p
Pairs(m) == FoldLeft(LAMBDA t, h : t \o m[h], <<>>, SetToSeq(Hashes))
AllMembers(m) == FoldLeft(LAMBDA t, p : t \o Members(p), <<>>, Pairs(m))

\* DictionaryHostObject::insert: the key is retained even when an equal one
\* stays in its place
Table == [map |-> map, refs |-> refs, count |-> count]
Inserted(t, k, v) ==
  IF Found(t.map, k)
  THEN LET i == First(t.map, k) old == t.map[hash(k)][i]
       IN  [t EXCEPT !.map[hash(k)][i] = <<old[1], v>>,
                     !.refs = Released(Retained(@, Members(<<k, v>>)), Tail(Members(old)))]
  ELSE [map |-> [t.map EXCEPT ![hash(k)] = Append(@, <<k, v>>)],
        refs |-> Retained(t.refs, Members(<<k, v>>)), count |-> t.count + 1]
Becomes(t) == map' = t.map /\ refs' = t.refs /\ count' = t.count
NSInsert(k, v) == Becomes(Inserted(Table, k, v))
\* initWithObjects:forKeys: and the other initialisers, addEntriesFromDictionary:
\* and unionSet: insert one pair after the other, here two
init_with_objects(k1, v1, k2, v2) ==
  /\ OnTable /\ kind \in {"NSDictionary", "NSSet"} /\ map = [h \in Hashes |-> <<>>]
  /\ kind = "NSSet" => k1 = v1 /\ k2 = v2
  /\ \A o \in Objects : refs[o] < MaxSize + 1
  /\ Becomes(Inserted(Inserted(Table, k1, v1), k2, v2)) /\ UNCHANGED copied
Without(m, k) == [m EXCEPT ![hash(k)] = RemoveAt(@, First(m, k))]
\* CFDictionaryHostObject::insert: an equal key is removed, the new one kept
CFInsert(k, v) ==
  LET old == IF Found(map, k) THEN map[hash(k)][First(map, k)] ELSE <<>>
      m == IF Found(map, k) THEN Without(map, k) ELSE map
  IN  /\ map' = [m EXCEPT ![hash(k)] = Append(@, <<k, v>>)]
      /\ refs' = Released(Retained(refs, Members(<<k, v>>)), IF Found(map, k) THEN Members(old) ELSE <<>>)
      /\ count' = (count + 1) - (IF Found(map, k) THEN 1 ELSE 0)
setObject_forKey(v, k) ==
  /\ OnTable /\ (Len(Pairs(map)) < MaxSize \/ Found(map, k))
  /\ kind = "NSSet" => v = k
  /\ \/ kind \in {"NSDictionary", "NSSet"} /\ refs[k] < MaxSize + 2 /\ NSInsert(k, v)
     \/ kind \in {"CFDictionary", "CFDictionary plain"} /\ CFInsert(k, v)
  /\ UNCHANGED copied
CFDictionaryAddValue(k, v) ==
  /\ OnTable /\ kind \in {"CFDictionary", "CFDictionary plain"} /\ Len(Pairs(map)) < MaxSize
  /\ lookup(map, k) = Nil /\ CFInsert(k, v)
  /\ UNCHANGED copied
removeObjectForKey(k) ==
  /\ OnTable
  /\ IF Found(map, k)
     THEN /\ map' = Without(map, k) /\ count' = count - 1
          /\ refs' = Released(refs, Members(map[hash(k)][First(map, k)]))
     ELSE UNCHANGED <<map, count, refs>>
  /\ UNCHANGED copied
\* removeAllObjects; CFDictionaryRemoveAllValues comes to the same
removeAll ==
  /\ OnTable
  /\ map' = [h \in Hashes |-> <<>>] /\ count' = 0
  /\ refs' = Released(refs, AllMembers(map))
  /\ UNCHANGED copied
\* allKeys, allValues, allObjects; a copy has its own references too.
\* CFDictionary's allKeys makes an array that does not retain.
allKeys ==
  /\ OnTable /\ kind \in {"NSDictionary", "NSSet"} /\ copied = <<>>
  /\ Copied([i \in DOMAIN Pairs(map) |-> Pairs(map)[i][1]])
  /\ UNCHANGED <<map, count>>
copy_dictionary ==
  /\ OnTable /\ kind = "NSDictionary" /\ copied = <<>>
  /\ Copied(AllMembers(map)) /\ UNCHANGED <<map, count>>

-----------------------------------------------------------------------------
(***************************************************************************)
(* NSCache, entries in the order in which they were set (next_sequence).   *)
(***************************************************************************)
OnCache == kind = "NSCache" /\ UNCHANGED <<kind, array, iterator, map, count, copied>>
EntryOf(c, k) == {i \in DOMAIN c.entries : IsEqual(c.entries[i].key, k)}
Monus(a, b) == IF a < b THEN 0 ELSE a - b    \* saturating_sub
KeyAndValue(e) == <<e.key, e.value>>
DropAt(c, i) ==
  [c EXCEPT !.entries = RemoveAt(@, i), !.count = @ - 1,
            !.total_cost = Monus(@, c.entries[i].cost)]
\* An equal key stays in place with the new value, cost and sequence
CacheInsert(c, k, v, cost) ==
  LET at == EntryOf(c, k)
      old == c.entries[Min(at)]
      key == IF at = {} THEN k ELSE old.key
      base == IF at = {} THEN c ELSE DropAt(c, Min(at))
  IN  [base EXCEPT !.entries = Append(@, [key |-> key, value |-> v, cost |-> cost]),
                   !.count = @ + 1, !.total_cost = @ + cost]
over_limit(c) ==
  \/ c.count_limit # 0 /\ c.count > c.count_limit
  \/ c.total_cost_limit # 0 /\ c.total_cost > c.total_cost_limit
\* enforce_limits: the oldest entries go until the rest fits; the delegate is
\* told of each.  n is how many.
Oldest(c, n) == FoldLeft(LAMBDA d, i : DropAt(d, 1), c, [i \in 1 .. n |-> i])
Evicted(c) == Min({n \in 0 .. Len(c.entries) : ~over_limit(Oldest(c, n))})
Gone(c) == FoldLeft(LAMBDA t, e : t \o KeyAndValue(e), <<>>, SubSeq(c.entries, 1, Evicted(c)))
enforce_limits(c, r) == cache' = Oldest(c, Evicted(c)) /\ refs' = Released(r, Gone(c))
setObject_forKey_cost(v, k, cost) ==
  /\ OnCache /\ Len(cache.entries) <= MaxSize
  /\ LET at == EntryOf(cache, k)
         r == Retained(refs, IF at = {} THEN <<k, v>> ELSE <<v>>)
     IN  enforce_limits(CacheInsert(cache, k, v, cost),
                        IF at = {} THEN r ELSE Released(r, <<cache.entries[Min(at)].value>>))
cache_removeObjectForKey(k) ==
  /\ OnCache
  /\ \E i \in EntryOf(cache, k) :
       cache' = DropAt(cache, i) /\ refs' = Released(refs, KeyAndValue(cache.entries[i]))
release_all ==
  /\ OnCache
  /\ cache' = [cache EXCEPT !.entries = <<>>, !.count = 0, !.total_cost = 0]
  /\ refs' = Released(refs, FoldLeft(LAMBDA t, e : t \o KeyAndValue(e), <<>>, cache.entries))
setCountLimit(n) == OnCache /\ enforce_limits([cache EXCEPT !.count_limit = n], refs)
setTotalCostLimit(n) == OnCache /\ enforce_limits([cache EXCEPT !.total_cost_limit = n], refs)

-----------------------------------------------------------------------------
Next ==
  \/ \E o \in Objects :
       \/ addObject(o) \/ removeObject(o) \/ removeObjectForKey(o) \/ cache_removeObjectForKey(o)
       \/ \E i \in 0 .. MaxSize : insertObject_atIndex(o, i) \/ replaceObjectAtIndex(i, o)
       \/ \E v \in Objects : setObject_forKey(v, o) \/ CFDictionaryAddValue(o, v)
       \/ \E v \in Objects, c \in Costs : setObject_forKey_cost(v, o, c)
  \/ \E i \in 0 .. MaxSize : removeObjectAtIndex(i)
  \/ \E o, v \in Objects : initWithObjects(<<o, v>>) \/ init_with_objects(o, v, v, v)
  \/ \E s \in [1 .. Len(array) -> Objects] : sortUsingFunction(s)
  \/ \E a, b \in 0 .. MaxSize : subarrayWithRange(a, b)
  \/ removeLastObject \/ removeAllObjects \/ mutableCopy \/ dealloc_copy
  \/ objectEnumerator(array) \/ objectEnumerator(Reverse(array)) \/ nextObject
  \/ removeAll \/ allKeys \/ copy_dictionary \/ release_all
  \/ \E n \in Limits : setCountLimit(n) \/ setTotalCostLimit(n)
Spec == Init /\ [][Next]_vars

-----------------------------------------------------------------------------
(***************************************************************************)
(* Properties.                                                             *)
(***************************************************************************)
\* A collection that retains its members holds a reference for every place a
\* member has in it, and so does a copy: nothing in a collection is freed, and
\* nothing is released twice, in whatever order members are put, replaced,
\* copied, evicted and taken out.  (A dictionary or set may hold more: a key
\* that replaces an equal one is retained and forgotten.)
Holdings ==
  LET s == (IF Retains THEN array ELSE <<>>) \o AllMembers(map) \o copied
           \o FoldLeft(LAMBDA t, e : t \o KeyAndValue(e), <<>>, cache.entries)
  IN  Retained([o \in Objects |-> 1], s)
MembersHeld ==
  /\ \A o \in Objects : refs[o] >= Holdings[o]
  /\ kind \notin {"NSDictionary", "NSSet"} => refs = Holdings

\* "the keys are the hash values": whatever collides, the table is a map from
\* keys, up to equality, to the value last set (lookup, insert and remove of
\* ns_dictionary.rs).
TableView == [k \in Objects |-> lookup(map, k)]
TableSame == {p \in Objects \X Objects : IF Plain THEN p[1] = p[2] ELSE IsEqual(p[1], p[2])}
Dictionary == INSTANCE Keyed WITH Keys <- Objects, Values <- Objects, map <- TableView, same <- TableSame
TableIsMap == Dictionary!Spec

\* "count will be decremented if necessary": the number a table keeps is that
\* of its keys, up to equality.  A cache's count and cost are those of its
\* entries, which are within its limits and have different keys.
CountsRight ==
  /\ count = Cardinality({{j \in Objects : <<j, k>> \in TableSame} : k \in {o \in Objects : TableView[o] # Nil}})
  /\ cache.count = Len(cache.entries)
  /\ cache.total_cost = FoldLeft(LAMBDA t, e : t + e.cost, 0, cache.entries)
  /\ cache.count_limit # 0 => Len(cache.entries) <= cache.count_limit
  /\ cache.total_cost_limit # 0 => cache.total_cost <= cache.total_cost_limit
  /\ \A i, j \in DOMAIN cache.entries : IsEqual(cache.entries[i].key, cache.entries[j].key) => i = j

\* Collections hold exactly their members and count them right: MembersHeld and CountsRight
CollectionsTrue == MembersHeld /\ CountsRight

-----------------------------------------------------------------------------
(***************************************************************************)
(* Proofs: TableIsMap for any objects, hashes and equality, and tables of  *)
(* any size.                                                               *)
(***************************************************************************)
\* What the table relies on: nil is no object, and equal objects have the
\* same hash, whatever else collides.
ASSUME HashAssumption ==
  /\ Nil \notin Objects
  /\ \A a, b \in Objects : IsEqual(a, b) => HashOf[a] = HashOf[b]

\* Every pair is in the bucket of its key's hash, which has no equal keys.
TableOk(m) ==
  /\ m \in [Hashes -> Seq(Objects \X Objects)]
  /\ \A h \in Hashes : \A i \in DOMAIN m[h] : hash(m[h][i][1]) = h
  /\ \A h \in Hashes : \A i, j \in DOMAIN m[h] : equal_keys(m[h][i][1], m[h][j][1]) => i = j

\* What setting a key does to the view of a table
Set(m, n, k, v) == \A j \in Objects : lookup(n, j) = IF equal_keys(j, k) THEN v ELSE lookup(m, j)

LEMMA KeysEquivalence ==
  /\ \A a \in Objects : equal_keys(a, a)
  /\ \A a, b \in Objects : equal_keys(a, b) => equal_keys(b, a) /\ hash(a) = hash(b)
  /\ \A a, b, c \in Objects : equal_keys(a, b) /\ equal_keys(b, c) => equal_keys(a, c)
  /\ \A a \in Objects : hash(a) \in Hashes
BY HashAssumption DEF equal_keys, IsEqual, hash, Hashes

LEMMA BucketFacts ==
  ASSUME NEW m, TableOk(m), NEW h \in Hashes
  PROVE  /\ m[h] \in Seq(Objects \X Objects) /\ DOMAIN m[h] = 1 .. Len(m[h]) /\ Len(m[h]) \in Nat
         /\ \A i \in DOMAIN m[h] : /\ m[h][i] = <<m[h][i][1], m[h][i][2]>>
                                   /\ m[h][i][1] \in Objects /\ m[h][i][2] \in Objects
<1>1. m[h] \in Seq(Objects \X Objects) /\ DOMAIN m[h] = 1 .. Len(m[h]) /\ Len(m[h]) \in Nat
  BY DEF TableOk
<1>2. \A i \in DOMAIN m[h] : m[h][i] \in Objects \X Objects
  BY <1>1
<1> QED BY <1>1, <1>2

LEMMA LookupFound ==
  ASSUME NEW m, TableOk(m), NEW k \in Objects, NEW i \in Position(m, k)
  PROVE  First(m, k) = i /\ Found(m, k) /\ lookup(m, k) = m[hash(k)][i][2] /\ lookup(m, k) \in Objects
<1>0. hash(k) \in Hashes
  BY KeysEquivalence
<1>1. DOMAIN m[hash(k)] \subseteq Nat
  BY <1>0, BucketFacts
<1>2. ASSUME NEW j \in Position(m, k) PROVE j = i
  <2>1. /\ i \in DOMAIN m[hash(k)] /\ j \in DOMAIN m[hash(k)]
        /\ equal_keys(m[hash(k)][i][1], k) /\ equal_keys(m[hash(k)][j][1], k)
    BY DEF Position
  <2>2. m[hash(k)][i][1] \in Objects /\ m[hash(k)][j][1] \in Objects
    BY <1>0, <2>1, BucketFacts
  <2>3. equal_keys(m[hash(k)][i][1], m[hash(k)][j][1])
    BY <2>1, <2>2, KeysEquivalence
  <2> QED BY <1>0, <2>1, <2>3 DEF TableOk
<1>3. i \in Nat /\ i \in DOMAIN m[hash(k)]
  BY <1>1 DEF Position
<1>4. First(m, k) = i
  <2>1. \E x \in Position(m, k) : \A y \in Position(m, k) : x =< y
    BY <1>2, <1>3
  <2> QED BY <1>2, <2>1 DEF First, Min
<1>5. m[hash(k)][i][2] \in Objects
  BY <1>0, <1>3, BucketFacts
<1> QED BY <1>4, <1>5 DEF Found, lookup

\* A key is found at the same places in two tables that agree on its bucket
LEMMA LookupSame ==
  ASSUME NEW m, NEW n, NEW k, m[hash(k)] = n[hash(k)]
  PROVE  lookup(m, k) = lookup(n, k) /\ Position(m, k) = Position(n, k)
BY DEF lookup, Found, First, Position

LEMMA ReplaceInSeq ==
  ASSUME NEW S, NEW s \in Seq(S), NEW i \in DOMAIN s, NEW x \in S
  PROVE  [s EXCEPT ![i] = x] \in Seq(S) /\ DOMAIN [s EXCEPT ![i] = x] = DOMAIN s
OBVIOUS

LEMMA ConcatLen ==
  ASSUME NEW S, NEW a \in Seq(S), NEW b \in Seq(S) PROVE Len(a \o b) = Len(a) + Len(b)
OBVIOUS

LEMMA RemoveAtFacts ==
  ASSUME NEW S, NEW s \in Seq(S), NEW i \in 1 .. Len(s)
  PROVE  /\ RemoveAt(s, i) \in Seq(S) /\ DOMAIN RemoveAt(s, i) = 1 .. Len(s) - 1
         /\ \A p \in 1 .. Len(s) - 1 : RemoveAt(s, i)[p] = s[IF p < i THEN p ELSE p + 1]
<1> DEFINE a == SubSeq(s, 1, i - 1)  b == SubSeq(s, i + 1, Len(s))
<1>1. a \in Seq(S) /\ Len(a) = i - 1 /\ \A p \in 1 .. i - 1 : a[p] = s[p]
  OBVIOUS
<1>2. b \in Seq(S) /\ Len(b) = Len(s) - i /\ \A p \in 1 .. Len(s) - i : b[p] = s[p + i]
  OBVIOUS
<1>3. RemoveAt(s, i) = a \o b
  BY DEF RemoveAt
<1> HIDE DEF a, b
<1>4. a \o b \in Seq(S) /\ Len(a \o b) = Len(s) - 1
  <2>1. a \o b \in Seq(S)
    BY <1>1, <1>2
  <2>2. Len(a \o b) = Len(a) + Len(b)
    BY <1>1, <1>2, ConcatLen
  <2>3. (i - 1) + (Len(s) - i) = Len(s) - 1
    OBVIOUS
  <2> QED BY <1>1, <1>2, <2>1, <2>2, <2>3
<1>6. \A p \in 1 .. Len(s) - 1 : (a \o b)[p] = IF p < i THEN a[p] ELSE b[p - (i - 1)]
  <2> SUFFICES ASSUME NEW p \in 1 .. Len(s) - 1
               PROVE  (a \o b)[p] = IF p < i THEN a[p] ELSE b[p - (i - 1)]
    OBVIOUS
  <2>1. p \in 1 .. Len(a) + Len(b) /\ (p <= Len(a) <=> p < i)
    BY <1>1, <1>2
  <2>2. (a \o b)[p] = IF p <= Len(a) THEN a[p] ELSE b[p - Len(a)]
    BY <1>1, <1>2, <2>1
  <2> QED BY <1>1, <2>1, <2>2
<1>5. ASSUME NEW p \in 1 .. Len(s) - 1, ~(p < i) PROVE b[p - (i - 1)] = s[p + 1]
  BY <1>2, <1>5
<1> QED BY <1>1, <1>3, <1>4, <1>5, <1>6

LEMMA ReplaceSets ==
  ASSUME NEW m, TableOk(m), NEW k \in Objects, NEW v \in Objects, Found(m, k),
         NEW n, n = [m EXCEPT ![hash(k)][First(m, k)] = <<m[hash(k)][First(m, k)][1], v>>]
  PROVE  TableOk(n) /\ Set(m, n, k, v)
<1> PICK i \in Position(m, k) : TRUE
  BY DEF Found
<1> DEFINE h == hash(k)
<1>0. h \in Hashes /\ i \in DOMAIN m[h] /\ equal_keys(m[h][i][1], k) /\ First(m, k) = i
  BY KeysEquivalence, LookupFound DEF Position
<1>1. /\ \A g \in Hashes : g # h => n[g] = m[g]
      /\ n[h] = [m[h] EXCEPT ![i] = <<m[h][i][1], v>>]
      /\ DOMAIN n = Hashes
  BY <1>0 DEF TableOk
<1>2. /\ m[h] \in Seq(Objects \X Objects) /\ DOMAIN m[h] = 1 .. Len(m[h]) /\ Len(m[h]) \in Nat
      /\ \A j \in DOMAIN m[h] : m[h][j][1] \in Objects /\ m[h][j][2] \in Objects
  BY <1>0, BucketFacts
<1>3. /\ DOMAIN n[h] = DOMAIN m[h] /\ n[h] \in Seq(Objects \X Objects)
      /\ \A j \in DOMAIN m[h] : /\ n[h][j][1] = m[h][j][1]
                                /\ n[h][j][2] = IF j = i THEN v ELSE m[h][j][2]
  <2>1. <<m[h][i][1], v>> \in Objects \X Objects
    BY <1>0, <1>2
  <2> HIDE DEF h
  <2>2. DOMAIN n[h] = DOMAIN m[h] /\ n[h] \in Seq(Objects \X Objects)
    BY <1>0, <1>1, <1>2, <2>1, ReplaceInSeq
  <2>3. \A j \in DOMAIN m[h] : n[h][j] = IF j = i THEN <<m[h][i][1], v>> ELSE m[h][j]
    BY <1>0, <1>1, <1>2
  <2> QED BY <2>2, <2>3
<1>4. TableOk(n)
  <2>1. n \in [Hashes -> Seq(Objects \X Objects)]
    <3>1. \A g \in Hashes : n[g] \in Seq(Objects \X Objects)
      BY <1>1, <1>3 DEF TableOk
    <3>2. n = [g \in Hashes |-> n[g]]
      BY DEF TableOk
    <3> QED BY <3>1, <3>2
  <2>2. ASSUME NEW g \in Hashes, NEW p \in DOMAIN n[g], NEW q \in DOMAIN n[g]
        PROVE  hash(n[g][p][1]) = g /\ (equal_keys(n[g][p][1], n[g][q][1]) => p = q)
    <3>1. CASE g = h
      BY <1>0, <1>3, <3>1 DEF TableOk
    <3>2. CASE g # h
      BY <1>1, <3>2 DEF TableOk
    <3> QED BY <3>1, <3>2
  <2> HIDE DEF h
  <2> QED BY <2>1, <2>2 DEF TableOk
<1>5. ASSUME NEW j \in Objects PROVE lookup(n, j) = IF equal_keys(j, k) THEN v ELSE lookup(m, j)
  <2>1. CASE equal_keys(j, k)
    <3>1. hash(j) = h /\ equal_keys(m[h][i][1], j)
      BY <1>0, <1>2, <2>1, KeysEquivalence
    <3>2. i \in Position(n, j)
      BY <1>0, <1>3, <3>1 DEF Position
    <3>3. lookup(n, j) = n[hash(j)][i][2]
      BY <1>4, <3>2, LookupFound
    <3> QED BY <1>0, <1>3, <2>1, <3>1, <3>3
  <2>2. CASE ~equal_keys(j, k) /\ hash(j) # h
    <3>1. m[hash(j)] = n[hash(j)]
      BY <1>1, <2>2, KeysEquivalence
    <3>2. lookup(m, j) = lookup(n, j)
      BY <3>1 DEF lookup, Found, First, Position
    <3> QED BY <2>2, <3>2
  <2>3. CASE ~equal_keys(j, k) /\ hash(j) = h
    <3>1. Position(n, j) = Position(m, j)
      BY <1>3, <2>3 DEF Position
    <3>2. i \notin Position(m, j)
      <4>1. SUFFICES ~equal_keys(m[h][i][1], j)
        BY <2>3 DEF Position
      <4> QED BY <1>0, <1>2, <2>3, KeysEquivalence
    <3>3. CASE Position(m, j) = {}
      BY <2>3, <3>1, <3>3 DEF lookup, Found
    <3>4. ASSUME NEW p \in Position(m, j) PROVE lookup(n, j) = lookup(m, j)
      <4>a. lookup(m, j) = m[hash(j)][p][2]
        BY LookupFound
      <4>b. p \in Position(n, j)
        BY <3>1
      <4>c. lookup(n, j) = n[hash(j)][p][2]
        BY <1>4, <4>b, LookupFound
      <4>1. lookup(m, j) = m[h][p][2] /\ lookup(n, j) = n[h][p][2]
        BY <2>3, <4>a, <4>c
      <4>2. p # i /\ p \in DOMAIN m[h]
        BY <2>3, <3>2 DEF Position
      <4> QED BY <1>3, <4>1, <4>2
    <3> QED BY <2>3, <3>3, <3>4
  <2> QED BY <2>1, <2>2, <2>3
<1> QED BY <1>4, <1>5 DEF Set

LEMMA AppendSets ==
  ASSUME NEW m, TableOk(m), NEW k \in Objects, NEW v \in Objects, ~Found(m, k),
         NEW n, n = [m EXCEPT ![hash(k)] = Append(@, <<k, v>>)]
  PROVE  TableOk(n) /\ Set(m, n, k, v)
<1> DEFINE h == hash(k)  l == Len(m[h])
<1>0. h \in Hashes
  BY KeysEquivalence
<1>1. /\ \A g \in Hashes : g # h => n[g] = m[g]
      /\ n[h] = Append(m[h], <<k, v>>)
      /\ DOMAIN n = Hashes
  BY <1>0 DEF TableOk
<1>2. /\ m[h] \in Seq(Objects \X Objects) /\ DOMAIN m[h] = 1 .. l /\ l \in Nat
      /\ \A j \in DOMAIN m[h] : m[h][j][1] \in Objects /\ m[h][j][2] \in Objects
  BY <1>0, BucketFacts
<1>3. /\ DOMAIN n[h] = 1 .. l + 1 /\ n[h] \in Seq(Objects \X Objects)
      /\ n[h][l + 1] = <<k, v>> /\ \A j \in 1 .. l : n[h][j] = m[h][j]
  <2>1. <<k, v>> \in Objects \X Objects
    OBVIOUS
  <2> HIDE DEF h
  <2> QED BY <1>1, <1>2, <2>1
<1>a. n[h][l + 1][1] = k /\ n[h][l + 1][2] = v
  BY <1>3
<1>4. \A j \in DOMAIN m[h] : ~equal_keys(m[h][j][1], k) /\ ~equal_keys(k, m[h][j][1])
  <2>1. \A j \in DOMAIN m[h] : ~equal_keys(m[h][j][1], k)
    BY DEF Found, Position
  <2> QED BY <1>2, <2>1, KeysEquivalence
<1>5. TableOk(n)
  <2>1. n \in [Hashes -> Seq(Objects \X Objects)]
    <3>1. \A g \in Hashes : n[g] \in Seq(Objects \X Objects)
      BY <1>1, <1>3 DEF TableOk
    <3>2. n = [g \in Hashes |-> n[g]]
      BY DEF TableOk
    <3> QED BY <3>1, <3>2
  <2>2. ASSUME NEW g \in Hashes, NEW p \in DOMAIN n[g], NEW q \in DOMAIN n[g]
        PROVE  hash(n[g][p][1]) = g /\ (equal_keys(n[g][p][1], n[g][q][1]) => p = q)
    <3>1. CASE g = h
      <4>1. p \in 1 .. l + 1 /\ q \in 1 .. l + 1
        BY <1>3, <3>1
      <4>2. CASE p = l + 1 /\ q = l + 1
        BY <1>a, <3>1, <4>2
      <4>3. CASE p = l + 1 /\ q \in 1 .. l
        <5>1. n[g][p][1] = k /\ n[g][q][1] = m[h][q][1] /\ q \in DOMAIN m[h]
          BY <1>2, <1>3, <1>a, <3>1, <4>3
        <5> QED BY <1>4, <3>1, <5>1
      <4>4. CASE p \in 1 .. l /\ q = l + 1
        <5>1. n[g][q][1] = k /\ n[g][p][1] = m[h][p][1] /\ p \in DOMAIN m[h]
          BY <1>2, <1>3, <1>a, <3>1, <4>4
        <5> QED BY <1>0, <1>4, <3>1, <5>1 DEF TableOk
      <4>5. CASE p \in 1 .. l /\ q \in 1 .. l
        <5>1. n[g][q][1] = m[h][q][1] /\ n[g][p][1] = m[h][p][1] /\ p \in DOMAIN m[h] /\ q \in DOMAIN m[h]
          BY <1>2, <1>3, <3>1, <4>5
        <5> QED BY <1>0, <3>1, <5>1 DEF TableOk
      <4> QED BY <1>2, <4>1, <4>2, <4>3, <4>4, <4>5
    <3>2. CASE g # h
      BY <1>1, <3>2 DEF TableOk
    <3> QED BY <3>1, <3>2
  <2> HIDE DEF h
  <2> QED BY <2>1, <2>2 DEF TableOk
<1>6. ASSUME NEW j \in Objects PROVE lookup(n, j) = IF equal_keys(j, k) THEN v ELSE lookup(m, j)
  <2>1. CASE equal_keys(j, k)
    <3>1. hash(j) = h /\ equal_keys(k, j)
      BY <2>1, KeysEquivalence
    <3>2. l + 1 \in Position(n, j)
      BY <1>2, <1>3, <1>a, <3>1 DEF Position
    <3>3. lookup(n, j) = n[hash(j)][l + 1][2]
      BY <1>5, <3>2, LookupFound
    <3> QED BY <1>a, <2>1, <3>1, <3>3
  <2>2. CASE ~equal_keys(j, k) /\ hash(j) # h
    <3>1. m[hash(j)] = n[hash(j)]
      BY <1>1, <2>2, KeysEquivalence
    <3>2. lookup(m, j) = lookup(n, j)
      BY <3>1, LookupSame, Zenon
    <3> QED BY <2>2, <3>2
  <2>3. CASE ~equal_keys(j, k) /\ hash(j) = h
    <3>0. ~equal_keys(k, j)
      BY <2>3, KeysEquivalence
    <3>1. ASSUME NEW p PROVE p \in Position(n, j) <=> p \in Position(m, j)
      <4>1. p \in Position(m, j) <=> p \in 1 .. l /\ equal_keys(m[h][p][1], j)
        BY <1>2, <2>3 DEF Position
      <4>2. p \in Position(n, j) <=> p \in 1 .. l + 1 /\ equal_keys(n[h][p][1], j)
        BY <1>3, <2>3 DEF Position
      <4>3. CASE p \in 1 .. l
        BY <1>2, <1>3, <4>1, <4>2, <4>3
      <4>4. CASE p = l + 1
        <5>1. ~equal_keys(n[h][p][1], j)
          BY <1>a, <3>0, <4>4
        <5> QED BY <1>2, <4>1, <4>2, <4>4, <5>1
      <4> QED BY <1>2, <4>1, <4>2, <4>3, <4>4
    <3>3. CASE Position(m, j) = {}
      BY <2>3, <3>1, <3>3 DEF lookup, Found
    <3>4. ASSUME NEW p \in Position(m, j) PROVE lookup(n, j) = lookup(m, j)
      <4>a. lookup(m, j) = m[hash(j)][p][2]
        BY LookupFound
      <4>b. p \in Position(n, j)
        BY <3>1
      <4>c. lookup(n, j) = n[hash(j)][p][2]
        BY <1>5, <4>b, LookupFound
      <4>1. lookup(m, j) = m[h][p][2] /\ lookup(n, j) = n[h][p][2]
        BY <2>3, <4>a, <4>c
      <4>2. p \in DOMAIN m[h]
        BY <2>3 DEF Position
      <4> QED BY <1>2, <1>3, <4>1, <4>2
    <3> QED BY <2>3, <3>3, <3>4
  <2> QED BY <2>1, <2>2, <2>3
<1> QED BY <1>5, <1>6 DEF Set

\* Taking out a key empties its place
LEMMA WithoutSets ==
  ASSUME NEW m, TableOk(m), NEW k \in Objects, Found(m, k)
  PROVE  TableOk(Without(m, k)) /\ Set(m, Without(m, k), k, Nil)
<1> DEFINE n == Without(m, k)
<1> PICK i \in Position(m, k) : TRUE
  BY DEF Found
<1> DEFINE h == hash(k)  l == Len(m[h])
           old(p) == IF p < i THEN p ELSE p + 1
<1>0. h \in Hashes /\ i \in DOMAIN m[h] /\ equal_keys(m[h][i][1], k) /\ First(m, k) = i
  BY KeysEquivalence, LookupFound DEF Position
<1>1. /\ \A g \in Hashes : g # h => n[g] = m[g]
      /\ n[h] = RemoveAt(m[h], i)
      /\ DOMAIN n = Hashes /\ n = [g \in Hashes |-> n[g]]
  BY <1>0 DEF TableOk, Without
<1>2. /\ m[h] \in Seq(Objects \X Objects) /\ DOMAIN m[h] = 1 .. l /\ l \in Nat /\ i \in 1 .. l
      /\ \A j \in DOMAIN m[h] : m[h][j][1] \in Objects /\ m[h][j][2] \in Objects
  BY <1>0, BucketFacts
<1>3. /\ DOMAIN n[h] = 1 .. l - 1 /\ n[h] \in Seq(Objects \X Objects)
      /\ \A p \in 1 .. l - 1 : n[h][p] = m[h][old(p)]
  BY <1>1, <1>2, RemoveAtFacts
<1> HIDE DEF n, h
<1>a. \A p \in 1 .. l - 1 : old(p) \in 1 .. l /\ old(p) # i
  BY <1>2
<1>b. \A p, q \in 1 .. l - 1 : old(p) = old(q) => p = q
  BY <1>2
<1>c. \A q \in 1 .. l : q # i => \E p \in 1 .. l - 1 : old(p) = q
  <2> SUFFICES ASSUME NEW q \in 1 .. l, q # i PROVE \E p \in 1 .. l - 1 : old(p) = q
    OBVIOUS
  <2>1. CASE q < i
    <3>1. q \in 1 .. l - 1 /\ old(q) = q
      BY <1>2, <2>1
    <3> QED BY <3>1
  <2>2. CASE q > i
    <3>1. q - 1 \in 1 .. l - 1 /\ old(q - 1) = q
      BY <1>2, <2>2
    <3> QED BY <3>1
  <2> QED BY <1>2, <2>1, <2>2
<1> HIDE DEF old, l
<1>4. \A j \in 1 .. l : j # i => ~equal_keys(m[h][j][1], k)
  <2> SUFFICES ASSUME NEW j \in 1 .. l, j # i, equal_keys(m[h][j][1], k) PROVE FALSE
    OBVIOUS
  <2>1. equal_keys(m[h][j][1], m[h][i][1])
    BY <1>0, <1>2, KeysEquivalence
  <2> QED BY <1>0, <1>2, <2>1 DEF TableOk
<1>5. TableOk(n)
  <2>1. n \in [Hashes -> Seq(Objects \X Objects)]
    <3>1. \A g \in Hashes : n[g] \in Seq(Objects \X Objects)
      BY <1>1, <1>3 DEF TableOk
    <3> QED BY <1>1, <3>1
  <2>2. ASSUME NEW g \in Hashes, NEW p \in DOMAIN n[g], NEW q \in DOMAIN n[g]
        PROVE  hash(n[g][p][1]) = g /\ (equal_keys(n[g][p][1], n[g][q][1]) => p = q)
    <3>1. CASE g = h
      <4>1. /\ n[g][p][1] = m[h][old(p)][1] /\ n[g][q][1] = m[h][old(q)][1]
            /\ old(p) \in DOMAIN m[h] /\ old(q) \in DOMAIN m[h]
        BY <1>2, <1>3, <1>a, <3>1
      <4>2. hash(m[h][old(p)][1]) = h
        BY <1>0, <4>1 DEF TableOk
      <4>3. equal_keys(m[h][old(p)][1], m[h][old(q)][1]) => old(p) = old(q)
        BY <1>0, <4>1 DEF TableOk
      <4> QED BY <1>3, <1>b, <3>1, <4>1, <4>2, <4>3
    <3>2. CASE g # h
      BY <1>1, <3>2 DEF TableOk
    <3> QED BY <3>1, <3>2
  <2> QED BY <2>1, <2>2 DEF TableOk
<1>6. ASSUME NEW j \in Objects PROVE lookup(n, j) = IF equal_keys(j, k) THEN Nil ELSE lookup(m, j)
  <2>0. hash(j) # h => ~equal_keys(j, k)
    BY KeysEquivalence DEF h
  <2>1. CASE hash(j) # h
    <3>1. m[hash(j)] = n[hash(j)]
      BY <1>1, <2>1, KeysEquivalence
    <3>2. lookup(m, j) = lookup(n, j)
      BY <3>1 DEF lookup, Found, First, Position
    <3> QED BY <2>0, <2>1, <3>2
  <2>2. CASE hash(j) = h
    <3>1. \A p \in 1 .. l - 1 : p \in Position(n, j) <=> equal_keys(m[h][old(p)][1], j)
      BY <1>3, <2>2 DEF Position
    <3>2. CASE equal_keys(j, k)
      <4>1. ASSUME NEW p \in Position(n, j) PROVE FALSE
        <5>1. p \in 1 .. l - 1 /\ equal_keys(m[h][old(p)][1], j)
          BY <1>3, <2>2, <3>1 DEF Position
        <5>2. old(p) \in 1 .. l /\ old(p) # i /\ m[h][old(p)][1] \in Objects
          BY <1>2, <1>a, <5>1
        <5>3. equal_keys(m[h][old(p)][1], k)
          BY <3>2, <5>1, <5>2, KeysEquivalence
        <5> QED BY <1>4, <5>2, <5>3
      <4> QED BY <3>2, <4>1 DEF lookup, Found
    <3>3. CASE ~equal_keys(j, k) /\ Position(m, j) = {}
      <4>1. ASSUME NEW p \in Position(n, j) PROVE FALSE
        <5>1. p \in 1 .. l - 1 /\ equal_keys(m[h][old(p)][1], j)
          BY <1>3, <2>2, <3>1 DEF Position
        <5>2. old(p) \in Position(m, j)
          BY <1>2, <1>a, <2>2, <5>1 DEF Position
        <5> QED BY <3>3, <5>2
      <4> QED BY <3>3, <4>1 DEF lookup, Found
    <3>4. ASSUME ~equal_keys(j, k), NEW q \in Position(m, j)
          PROVE  lookup(n, j) = lookup(m, j)
      <4>1. q \in 1 .. l /\ equal_keys(m[h][q][1], j) /\ m[h][q][1] \in Objects
        BY <1>2, <2>2 DEF Position
      <4>2. q # i
        <5>1. ASSUME q = i PROVE FALSE
          <6>1. equal_keys(j, m[h][i][1])
            BY <4>1, <5>1, KeysEquivalence
          <6> QED BY <1>0, <3>4, <4>1, <5>1, <6>1, KeysEquivalence
        <5> QED BY <5>1
      <4>3. PICK p \in 1 .. l - 1 : old(p) = q
        BY <1>c, <4>1, <4>2
      <4>4. p \in Position(n, j)
        BY <3>1, <4>1, <4>3
      <4>5. lookup(n, j) = n[hash(j)][p][2]
        BY <1>5, <4>4, LookupFound
      <4>6. lookup(m, j) = m[hash(j)][q][2]
        BY LookupFound
      <4> QED BY <1>3, <2>2, <4>3, <4>5, <4>6
    <3> QED BY <3>2, <3>3, <3>4
  <2> QED BY <2>1, <2>2
<1> QED BY <1>5, <1>6 DEF Set, n

\* The pairs of a table, one step of DictionaryHostObject::insert and of
\* CFDictionaryHostObject::insert
LEMMA InsertedSets ==
  ASSUME NEW t, TableOk(t.map), t = [map |-> t.map, refs |-> t.refs, count |-> t.count],
         NEW k \in Objects, NEW v \in Objects
  PROVE  /\ TableOk(Inserted(t, k, v).map) /\ Set(t.map, Inserted(t, k, v).map, k, v)
         /\ Inserted(t, k, v) = [map |-> Inserted(t, k, v).map, refs |-> Inserted(t, k, v).refs,
                                 count |-> Inserted(t, k, v).count]
<1>1. CASE Found(t.map, k)
  <2>1. Inserted(t, k, v).map =
          [t.map EXCEPT ![hash(k)][First(t.map, k)] = <<t.map[hash(k)][First(t.map, k)][1], v>>]
    BY <1>1 DEF Inserted
  <2>2. Inserted(t, k, v) = [map |-> Inserted(t, k, v).map, refs |-> Inserted(t, k, v).refs,
                             count |-> Inserted(t, k, v).count]
    BY <1>1 DEF Inserted
  <2> QED BY <1>1, <2>1, <2>2, ReplaceSets
<1>2. CASE ~Found(t.map, k)
  <2>1. Inserted(t, k, v).map = [t.map EXCEPT ![hash(k)] = Append(@, <<k, v>>)]
    BY <1>2 DEF Inserted
  <2>2. Inserted(t, k, v) = [map |-> Inserted(t, k, v).map, refs |-> Inserted(t, k, v).refs,
                             count |-> Inserted(t, k, v).count]
    BY <1>2 DEF Inserted
  <2> QED BY <1>2, <2>1, <2>2, AppendSets
<1> QED BY <1>1, <1>2

LEMMA CFInsertSets ==
  ASSUME TableOk(map), NEW k \in Objects, NEW v \in Objects, CFInsert(k, v)
  PROVE  TableOk(map') /\ Set(map, map', k, v)
<1>1. CASE ~Found(map, k)
  <2>1. map' = [map EXCEPT ![hash(k)] = Append(@, <<k, v>>)]
    BY <1>1 DEF CFInsert
  <2> QED BY <1>1, <2>1, AppendSets
<1>2. CASE Found(map, k)
  <2> DEFINE m == Without(map, k)
  <2>1. TableOk(m) /\ Set(map, m, k, Nil)
    BY <1>2, WithoutSets
  <2>2. map' = [m EXCEPT ![hash(k)] = Append(@, <<k, v>>)]
    BY <1>2 DEF CFInsert
  <2> HIDE DEF m
  <2>3. ~Found(m, k)
    <3> SUFFICES ASSUME Found(m, k) PROVE FALSE
      OBVIOUS
    <3>1. lookup(m, k) = Nil
      BY <2>1, KeysEquivalence DEF Set
    <3>2. PICK i : i \in Position(m, k)
      BY DEF Found
    <3>3. lookup(m, k) \in Objects
      BY <2>1, <3>2, LookupFound
    <3> QED BY <3>1, <3>3, HashAssumption
  <2>4. TableOk(map') /\ Set(m, map', k, v)
    BY <2>1, <2>2, <2>3, AppendSets
  <2>5. Set(map, map', k, v)
    BY <2>1, <2>4 DEF Set
  <2> QED BY <2>4, <2>5
<1> QED BY <1>1, <1>2

\* Equal keys are looked up alike
LEMMA LookupRespects ==
  ASSUME NEW m, TableOk(m), NEW j \in Objects, NEW k \in Objects, equal_keys(j, k)
  PROVE  lookup(m, j) = lookup(m, k)
<1>1. hash(j) = hash(k) /\ hash(k) \in Hashes
  BY KeysEquivalence
<1>2. \A i \in DOMAIN m[hash(k)] : m[hash(k)][i][1] \in Objects
  BY <1>1, BucketFacts
<1>3. Position(m, j) = Position(m, k)
  BY <1>1, <1>2, KeysEquivalence DEF Position
<1> QED BY <1>1, <1>3 DEF lookup, Found, First

LEMMA LookupType == ASSUME NEW m, TableOk(m), NEW k \in Objects PROVE lookup(m, k) \in Objects \cup {Nil}
<1>1. CASE Found(m, k)
  <2>1. PICK i : i \in Position(m, k)
    BY <1>1 DEF Found
  <2> QED BY <2>1, LookupFound
<1> QED BY <1>1 DEF lookup

\* How a step that changes the table looks to somebody who looks keys up
LEMMA SetRefines ==
  ASSUME NEW k \in Objects, NEW v \in Objects \cup {Nil}, kind' = kind, Set(map, map', k, v)
  PROVE  Dictionary!setObject(k, v) /\ UNCHANGED TableSame
<1>1. \A j \in Objects : lookup(map, j)' = lookup(map', j)
  BY DEF lookup, Found, First, Position, equal_keys, Plain, hash
<1>2. UNCHANGED TableSame
  BY DEF TableSame, Plain
<1>3. \A j \in Objects : <<j, k>> \in TableSame <=> equal_keys(j, k)
  BY DEF TableSame, equal_keys
<1>4. \A j \in Objects : TableView[j] = lookup(map, j)
  BY DEF TableView
<1>5. TableView' = [j \in Objects |-> lookup(map', j)]
  BY <1>1 DEF TableView
<1>6. TableView' = [j \in Objects |-> IF <<j, k>> \in TableSame THEN v ELSE TableView[j]]
  BY <1>3, <1>4, <1>5 DEF Set
<1> QED BY <1>2, <1>6 DEF Dictionary!setObject

TableInv == TableOk(map)

LEMMA TableOkStays == ASSUME kind' = kind, TableOk(map') PROVE TableInv'
BY DEF TableInv, TableOk, equal_keys, Plain, hash

LEMMA EmptyOk ==
  /\ TableOk([h \in Hashes |-> <<>>])
  /\ \A k \in Objects : lookup([h \in Hashes |-> <<>>], k) = Nil
<1> DEFINE m == [h \in Hashes |-> <<>>]
<1>1. <<>> \in Seq(Objects \X Objects) /\ DOMAIN <<>> = {}
  OBVIOUS
<1>2. \A h \in Hashes : m[h] = <<>> /\ DOMAIN m[h] = {}
  BY <1>1
<1>3. m \in [Hashes -> Seq(Objects \X Objects)]
  BY <1>1
<1> HIDE DEF m
<1>4. TableOk(m)
  BY <1>2, <1>3 DEF TableOk
<1>5. \A k \in Objects : Position(m, k) = {}
  BY <1>2, KeysEquivalence DEF Position
<1> QED BY <1>4, <1>5 DEF lookup, Found, m

\* A step of the collections leaves the table well formed and is a step of the
\* dictionary, or none of its business.
LEMMA TableStep ==
  ASSUME TableInv, [Next]_vars
  PROVE  TableInv' /\ (Dictionary!Next \/ UNCHANGED <<TableView, TableSame>>)
<1>r. ASSUME map' = map, kind' = kind
      PROVE  TableInv' /\ UNCHANGED <<TableView, TableSame>>
  <2>1. TableInv'
    BY <1>r, TableOkStays DEF TableInv
  <2>2. UNCHANGED TableSame
    BY <1>r DEF TableSame, Plain
  <2>3. UNCHANGED TableView
    BY <1>r DEF TableView, lookup, Found, First, Position, equal_keys, Plain, hash
  <2> QED BY <2>1, <2>2, <2>3
<1>s. ASSUME NEW k \in Objects, NEW v \in Objects \cup {Nil}, kind' = kind,
             TableOk(map'), Set(map, map', k, v)
      PROVE  TableInv' /\ Dictionary!Next
  <2>1. TableInv' /\ Dictionary!setObject(k, v) /\ UNCHANGED TableSame
    BY <1>s, TableOkStays, SetRefines
  <2> QED BY <2>1 DEF Dictionary!Next
<1>1. ASSUME NEW k \in Objects, NEW v \in Objects, setObject_forKey(v, k)
      PROVE  TableInv' /\ Dictionary!Next
  <2>1. kind' = kind /\ (NSInsert(k, v) \/ CFInsert(k, v))
    BY <1>1 DEF setObject_forKey, OnTable
  <2>2. CASE NSInsert(k, v)
    <3> DEFINE t == Table
    <3>1. t = [map |-> t.map, refs |-> t.refs, count |-> t.count] /\ t.map = map
      BY DEF Table
    <3>2. map' = Inserted(t, k, v).map
      BY <2>2 DEF NSInsert, Becomes
    <3> HIDE DEF t
    <3>3. TableOk(Inserted(t, k, v).map) /\ Set(map, Inserted(t, k, v).map, k, v)
      BY <3>1, InsertedSets DEF TableInv
    <3> QED BY <1>s, <2>1, <3>2, <3>3
  <2>3. CASE CFInsert(k, v)
    BY <1>s, <2>1, <2>3, CFInsertSets DEF TableInv
  <2> QED BY <2>1, <2>2, <2>3
<1>2. ASSUME NEW k \in Objects, NEW v \in Objects, CFDictionaryAddValue(k, v)
      PROVE  TableInv' /\ Dictionary!Next
  BY <1>s, <1>2, CFInsertSets DEF CFDictionaryAddValue, OnTable, TableInv
<1>3. ASSUME NEW k \in Objects, removeObjectForKey(k)
      PROVE  TableInv' /\ (Dictionary!Next \/ UNCHANGED <<TableView, TableSame>>)
  <2>1. CASE Found(map, k)
    <3>1. map' = Without(map, k) /\ kind' = kind
      BY <1>3, <2>1 DEF removeObjectForKey, OnTable
    <3>2. TableOk(Without(map, k)) /\ Set(map, Without(map, k), k, Nil)
      BY <2>1, WithoutSets DEF TableInv
    <3> QED BY <1>s, <3>1, <3>2
  <2>2. CASE ~Found(map, k)
    BY <1>3, <1>r, <2>2 DEF removeObjectForKey, OnTable
  <2> QED BY <2>1, <2>2
<1>4. ASSUME removeAll PROVE TableInv' /\ Dictionary!Next
  <2>1. map' = [h \in Hashes |-> <<>>] /\ kind' = kind
    BY <1>4 DEF removeAll, OnTable
  <2>2. TableInv' /\ UNCHANGED TableSame
    BY <2>1, EmptyOk, TableOkStays DEF TableSame, Plain
  <2>3. \A j \in Objects : lookup(map, j)' = lookup(map', j)
    BY <2>1 DEF lookup, Found, First, Position, equal_keys, Plain, hash
  <2>4. TableView' = [j \in Objects |-> Nil]
    BY <2>1, <2>3, EmptyOk DEF TableView
  <2> QED BY <2>2, <2>4 DEF Dictionary!Next
<1>5. ASSUME NEW k1 \in Objects, NEW v1 \in Objects, NEW k2 \in Objects, NEW v2 \in Objects,
             init_with_objects(k1, v1, k2, v2)
      PROVE  TableInv' /\ Dictionary!Next
  <2> DEFINE t == Table
             u == Inserted(t, k1, v1)
             w == Inserted(u, k2, v2)
  <2>1. /\ t = [map |-> t.map, refs |-> t.refs, count |-> t.count] /\ t.map = map
        /\ map = [h \in Hashes |-> <<>>] /\ kind' = kind
    BY <1>5 DEF Table, init_with_objects, OnTable
  <2>2. map' = w.map
    BY <1>5 DEF init_with_objects, Becomes
  <2> HIDE DEF t
  <2>3. TableOk(u.map) /\ u = [map |-> u.map, refs |-> u.refs, count |-> u.count]
    BY <2>1, InsertedSets DEF TableInv
  <2> HIDE DEF u
  <2>4. TableOk(w.map)
    BY <2>3, InsertedSets
  <2>5. TableOk(map')
    BY <2>2, <2>4
  <2>6. TableInv' /\ UNCHANGED TableSame
    BY <2>1, <2>5, TableOkStays DEF TableSame, Plain
  <2>7. \A j \in Objects : lookup(map, j)' = lookup(map', j)
    BY <2>1 DEF lookup, Found, First, Position, equal_keys, Plain, hash
  <2>8. TableView = [j \in Objects |-> Nil]
    BY <2>1, EmptyOk DEF TableView
  <2>9. /\ TableView' \in [Objects -> Objects \cup {Nil}]
        /\ \A j \in Objects : TableView'[j] = lookup(map', j)
    BY <2>5, <2>7, LookupType DEF TableView
  <2>10. \A p \in TableSame : TableView'[p[1]] = TableView'[p[2]]
    <3> SUFFICES ASSUME NEW p \in TableSame PROVE TableView'[p[1]] = TableView'[p[2]]
      OBVIOUS
    <3>1. p[1] \in Objects /\ p[2] \in Objects /\ equal_keys(p[1], p[2])
      BY DEF TableSame, equal_keys
    <3>2. lookup(map', p[1]) = lookup(map', p[2])
      BY <2>5, <3>1, LookupRespects
    <3> QED BY <2>9, <3>1, <3>2
  <2> QED BY <2>6, <2>8, <2>9, <2>10 DEF Dictionary!Next, Dictionary!fill
<1>6. CASE UNCHANGED vars
  BY <1>6, <1>r DEF vars
<1>7. ASSUME \/ \E o \in Objects :
                  \/ addObject(o) \/ removeObject(o) \/ cache_removeObjectForKey(o)
                  \/ \E i \in 0 .. MaxSize : insertObject_atIndex(o, i) \/ replaceObjectAtIndex(i, o)
                  \/ \E v \in Objects, c \in Costs : setObject_forKey_cost(v, o, c)
             \/ \E i \in 0 .. MaxSize : removeObjectAtIndex(i)
             \/ \E o, v \in Objects : initWithObjects(<<o, v>>)
             \/ \E s \in [1 .. Len(array) -> Objects] : sortUsingFunction(s)
             \/ \E a, b \in 0 .. MaxSize : subarrayWithRange(a, b)
             \/ removeLastObject \/ removeAllObjects \/ mutableCopy \/ dealloc_copy
             \/ objectEnumerator(array) \/ objectEnumerator(Reverse(array)) \/ nextObject
             \/ allKeys \/ copy_dictionary \/ release_all
             \/ \E n \in Limits : setCountLimit(n) \/ setTotalCostLimit(n)
      PROVE  map' = map /\ kind' = kind
  BY <1>7 DEF addObject, removeObject, cache_removeObjectForKey, insertObject_atIndex,
     replaceObjectAtIndex, setObject_forKey_cost, removeObjectAtIndex, initWithObjects,
     sortUsingFunction, subarrayWithRange, removeLastObject, removeAllObjects, mutableCopy,
     dealloc_copy, objectEnumerator, nextObject, allKeys, copy_dictionary, release_all,
     setCountLimit, setTotalCostLimit, OnArray, OnCache, OnTable
<1> QED BY <1>r, <1>1, <1>2, <1>3, <1>4, <1>5, <1>6, <1>7 DEF Next

\* The buckets implement a dictionary: whatever hashes collide, a key gives the
\* value last set for it or an equal key, for DictionaryHostObject (keys are kept
\* when replaced) and CFDictionaryHostObject (they are not) alike.
THEOREM TableRefinesMap == Spec => TableIsMap
<1>1. Init => TableInv /\ Dictionary!Init
  <2> SUFFICES ASSUME Init PROVE TableInv /\ Dictionary!Init
    OBVIOUS
  <2>1. map = [h \in Hashes |-> <<>>]
    BY DEF Init
  <2>2. TableInv /\ TableView = [k \in Objects |-> Nil]
    BY <2>1, EmptyOk DEF TableInv, TableView
  <2>3. TableSame \subseteq Objects \X Objects
    BY DEF TableSame
  <2> QED BY <2>2, <2>3 DEF Dictionary!Init
<1>2. TableInv /\ [Next]_vars => TableInv' /\ [Dictionary!Next]_<<TableView, TableSame>>
  BY TableStep
<1> QED BY <1>1, <1>2, PTL DEF Spec, TableIsMap, Dictionary!Spec
==============================================================================
