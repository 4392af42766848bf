------------------------------ MODULE Values -------------------------------
(***************************************************************************)
(* NSNumber: conversions, comparison and hashes, as a dictionary whose     *)
(* keys are numbers uses them.  Widths are scaled down: Width gives the    *)
(* bits of every integer kind.  v counts in halves, so integers have even  *)
(* ones.                                                                   *)
(***************************************************************************)
EXTENDS Integers, Sequences, FiniteSets

CONSTANTS
  Width,      \* bits of "char", "short", "ushort", "int", "uint", "longlong", "ulonglong"
  Samples,    \* numbers [is, v] the guest makes; is may be "bool", "float", "double", "nan" too
  MaxKeys

VARIABLES
  map,        \* the keys of the dictionary, in the order they were added
  asked,      \* the number that was looked up last, and was it found? a sequence of none or one
  unwrapped   \* compare: has panicked
number_vars == <<map, asked, unwrapped>>

Unsigned == {"ushort", "uint", "ulonglong"}
Integral(n) == n.is \in DOMAIN Width \cup {"bool"}
is_float(n) == n.is \in {"float", "double", "nan"}
\* The least and the greatest integer of a kind
MinOf(is) == IF is \in Unsigned THEN 0 ELSE -(2 ^ (Width[is] - 1))
MaxOf(is) == IF is \in Unsigned THEN 2 ^ Width[is] - 1 ELSE 2 ^ (Width[is] - 1) - 1
\* impl_AsValue: integers wrap, fractions are cut, and floats saturate; NaN becomes 0
Truncated(v) == IF v < 0 THEN -((-v) \div 2) ELSE v \div 2
Wrapped(i, is) == ((i - MinOf(is)) % (2 ^ Width[is])) + MinOf(is)
Saturated(i, is) == IF i < MinOf(is) THEN MinOf(is) ELSE IF i > MaxOf(is) THEN MaxOf(is) ELSE i
as_value(n, is) ==
  CASE n.is = "nan" -> 0
    [] n.is \in {"float", "double"} -> Saturated(Truncated(n.v), is)
    [] OTHER -> Wrapped(n.v \div 2, is)

\* hash: integers as u64, floats by their bits
Hash(n) ==
  CASE n.is = "float" -> <<1, n.v>> [] n.is = "double" -> <<2, n.v>> [] n.is = "nan" -> <<3, 0>>
    [] OTHER -> <<0, (n.v \div 2) % (2 ^ Width["ulonglong"])>>
\* compare: integers as i128; otherwise as doubles, and as i128 where those are equal.
\* NaN cannot be compared
Incomparable(a, b) == "nan" \in {a.is, b.is}
compare(a, b) ==
  LET d == IF is_float(a) \/ is_float(b) THEN a.v - b.v ELSE 0
      i == Truncated(a.v) - Truncated(b.v)
      c == IF d # 0 THEN d ELSE i
  IN  IF c < 0 THEN -1 ELSE IF c > 0 THEN 1 ELSE 0
isEqualToNumber(a, b) == compare(a, b) = 0
is_conversion_lossless(n, is) == isEqualToNumber(n, [is |-> is, v |-> 2 * as_value(n, is)])

-----------------------------------------------------------------------------
NumbersInit == map = <<>> /\ asked = <<>> /\ unwrapped = FALSE
\* The keys in the bucket of a hash are compared in turn
Bucket(n) == {i \in DOMAIN map : Hash(map[i]) = Hash(n)}
Panics(n) == \E i \in Bucket(n) : Incomparable(map[i], n)
Places(n) == {i \in Bucket(n) : isEqualToNumber(map[i], n)}
Found(n) == Places(n) # {}
setObject_forKey(n) ==
  /\ ~unwrapped /\ unwrapped' = Panics(n) /\ asked' = <<>>
  /\ map' = (IF Panics(n) \/ Found(n) THEN map ELSE Append(map, n))
objectForKey(n) ==
  /\ ~unwrapped /\ unwrapped' = Panics(n) /\ asked' = <<[n |-> n, found |-> Found(n)]>> /\ UNCHANGED map
removeObjectForKey(n) ==
  /\ ~unwrapped /\ unwrapped' = Panics(n) /\ asked' = <<>>
  /\ map' = (IF Panics(n) THEN map ELSE LET gone == Places(n) IN
       [i \in 1..Len(map) - Cardinality(gone) |-> map[CHOOSE j \in DOMAIN map \ gone : Cardinality({k \in DOMAIN map \ gone : k <= j}) = i]])

NumbersNext == \E n \in Samples : (Len(map) < MaxKeys /\ setObject_forKey(n)) \/ objectForKey(n) \/ removeObjectForKey(n)

-----------------------------------------------------------------------------
\* Whether integers of two kinds are the same is decided by their values, for signed and
\* unsigned kinds of every width: a dictionary has one key for each, and finds it by any of
\* them; the same for floats of one kind (a float, a double and an integer that are equal have
\* different hashes, so they are different keys).  Only NaN panics, and a conversion is
\* said to be lossless exactly for the values that the kind has
Family(n) == IF Integral(n) THEN "integer" ELSE n.is
NumbersTrue ==
  /\ \A i, j \in DOMAIN map : i # j /\ Family(map[i]) = Family(map[j]) => map[i].v # map[j].v
  /\ asked # <<>> /\ ~unwrapped =>
       LET n == asked[1].n
       IN  /\ asked[1].found <=> \E i \in DOMAIN map : Family(map[i]) = Family(n) /\ map[i].v = n.v
           /\ \A is \in DOMAIN Width : n.is # "nan" =>
                (is_conversion_lossless(n, is) <=> n.v % 2 = 0 /\ n.v \div 2 \in MinOf(is)..MaxOf(is))
  /\ unwrapped => \E i \in DOMAIN map : map[i].is = "nan"

-----------------------------------------------------------------------------
(***************************************************************************)
(* NSData and NSMutableData over the guest heap: a buffer that grows by    *)
(* realloc, which moves it when its chunk is too small, and pointers to    *)
(* buffers that are read before that.  Freed memory keeps its bytes until  *)
(* it is allocated again.                                                  *)
(***************************************************************************)
CONSTANTS
  Datas,      \* data objects
  Addrs,      \* heap addresses, not 0, which is null
  Grain,      \* chunks have a multiple of it
  MaxLength,  \* bound on lengths
  Bytes       \* byte values, 0 and some others

VARIABLES
  datas,      \* [class, bytes, length] for every data; class is "none" when there is no such object
  heap,       \* [live, size, mem] for every address
  want,       \* ghost: what every data should hold; Any where the code leaves it open
  panic
data_vars == <<datas, heap, want, panic>>

Any == -1
NoData == [class |-> "none", bytes |-> 0, length |-> 0]
Room == MaxLength + Grain
DataInit ==
  /\ datas = [d \in Datas |-> NoData] /\ want = [d \in Datas |-> <<>>] /\ panic = FALSE
  /\ heap = [a \in Addrs |-> [live |-> FALSE, size |-> 0, mem |-> [i \in 1..Room |-> 0]]]

\* alloc_in_heap, realloc, memmove: [heap, ptr] for each address it may give
Rounded(n) == IF n = 0 THEN Grain ELSE ((n + Grain - 1) \div Grain) * Grain
Allocs(n) == {[heap |-> [heap EXCEPT ![a].live = TRUE, ![a].size = Rounded(n)], ptr |-> a] : a \in {b \in Addrs : ~heap[b].live}}
Moved(h, to, from, s) == [h EXCEPT ![to].mem = [i \in 1..Room |-> IF i \in from + 1..from + Len(s) THEN s[i - from] ELSE @[i]]]
Read(h, a, n) == IF n = 0 THEN <<>> ELSE SubSeq(h[a].mem, 1, n)
Reallocs(p, n) ==
  CASE p = 0 -> Allocs(n)
    [] p # 0 /\ heap[p].size >= n -> {[heap |-> heap, ptr |-> p]}
    [] OTHER -> {[r EXCEPT !.heap = [Moved(@, r.ptr, 0, Read(heap, p, heap[p].size)) EXCEPT ![p].live = FALSE]] : r \in Allocs(n)}

Alive(d) == ~panic /\ datas[d].class # "none"
Mutable(d) == ~panic /\ datas[d].class = "mutable"
Padded(s, n, x) == [i \in 1..n |-> IF i <= Len(s) THEN s[i] ELSE x]

-----------------------------------------------------------------------------
new(d, class) ==
  /\ ~panic /\ datas[d].class = "none" /\ datas' = [datas EXCEPT ![d].class = class]
  /\ UNCHANGED <<heap, want, panic>>
Filled(d, class, s) ==
  /\ ~panic /\ datas[d].class = "none"
  /\ \E r \in Allocs(Len(s)) :
       /\ heap' = Moved(r.heap, r.ptr, 0, s)
       /\ datas' = [datas EXCEPT ![d] = [class |-> class, bytes |-> r.ptr, length |-> Len(s)]]
  /\ want' = [want EXCEPT ![d] = s] /\ UNCHANGED panic
initWithBytes(d, class, s) == Filled(d, class, s)
initWithLength(d, n) == Filled(d, "mutable", [i \in 1..n |-> 0])
\* The copies of a mutable one; those of the other are itself
copies(d, e, class) == Alive(e) /\ Filled(d, class, Read(heap, datas[e].bytes, datas[e].length))
\* increaseLengthBy leaves what the chunk had
Grown(d, n, r) == datas' = [datas EXCEPT ![d].bytes = r.ptr, ![d].length = n]
increaseLengthBy(d, k) ==
  LET n == datas[d].length + k
  IN  /\ Mutable(d) /\ n <= MaxLength /\ \E r \in Reallocs(datas[d].bytes, n) : heap' = r.heap /\ Grown(d, n, r)
      /\ want' = [want EXCEPT ![d] = Padded(@, n, Any)] /\ UNCHANGED panic
\* appendData takes the other's pointer first, which is an old one if they are the same
appendData(d, e) ==
  LET k == datas[e].length
      n == datas[d].length + k
  IN  /\ Mutable(d) /\ Alive(e) /\ n <= MaxLength
      /\ \E r \in Reallocs(datas[d].bytes, n) :
           heap' = Moved(r.heap, r.ptr, datas[d].length, Read(r.heap, datas[e].bytes, k)) /\ Grown(d, n, r)
      /\ want' = [want EXCEPT ![d] = @ \o want[e]] /\ UNCHANGED panic
Zeroed(h, a, from, to) == Moved(h, a, from, [i \in 1..to - from |-> 0])
setLength(d, n) ==
  /\ Mutable(d)
  /\ \E r \in Reallocs(datas[d].bytes, n) :
       /\ heap' = (IF n > datas[d].length THEN Zeroed(r.heap, r.ptr, datas[d].length, n) ELSE r.heap)
       /\ Grown(d, n, r)
  /\ want' = [want EXCEPT ![d] = Padded(@, n, 0)] /\ UNCHANGED panic
\* The guest writes where mutableBytes points
mutableBytes(d, i, x) ==
  /\ Mutable(d) /\ panic' = (datas[d].length = 0)
  /\ \/ datas[d].length = 0 /\ UNCHANGED <<heap, want>>
     \/ i <= datas[d].length /\ heap' = [heap EXCEPT ![datas[d].bytes].mem[i] = x] /\ want' = [want EXCEPT ![d][i] = x]
  /\ UNCHANGED datas
dealloc(d) ==
  /\ Alive(d) /\ datas' = [datas EXCEPT ![d] = NoData] /\ want' = [want EXCEPT ![d] = <<>>]
  /\ heap' = (IF datas[d].bytes # 0 THEN [heap EXCEPT ![datas[d].bytes].live = FALSE] ELSE heap)
  /\ UNCHANGED panic

DataNext == \E d \in Datas :
  \/ new(d, "mutable") \/ dealloc(d)
  \/ \E x \in Bytes \ {0} : initWithBytes(d, "data", <<x, x>>) \/ mutableBytes(d, 1, x)
  \/ \E n \in 1..MaxLength : initWithLength(d, n) \/ setLength(d, n)
  \/ increaseLengthBy(d, 1)
  \/ \E e \in Datas : appendData(d, e) \/ \E class \in {"data", "mutable"} : "mutable" \in {class, datas[e].class} /\ copies(d, e, class)

-----------------------------------------------------------------------------
\* A data holds what was put in it, through every move of its buffer, with itself appended to
\* itself too, and zeros where it was made longer; every buffer belongs to one data that is
\* alive, fits its chunk, and none is lost
DataTrue ==
  /\ \A d \in Datas : datas[d].length = Len(want[d])
  /\ \A d \in Datas : datas[d].bytes # 0 =>
       /\ heap[datas[d].bytes].live /\ datas[d].length <= heap[datas[d].bytes].size
       /\ \A i \in 1..datas[d].length : want[d][i] \in {Any, heap[datas[d].bytes].mem[i]}
  /\ \A a \in Addrs : heap[a].live => Cardinality({d \in Datas : datas[d].bytes = a}) = 1
=============================================================================
