------------------------------ MODULE NSStrings ------------------------------
(***************************************************************************)
(* Strings of Foundation (foundation/ns_string.rs), of Core Foundation,    *)
(* which are the same objects (core_foundation/cf_string.rs), the          *)
(* algorithms on lines and on paths (ns_string/path_algorithms.rs) and     *)
(* NSScanner (foundation/ns_scanner.rs).                                   *)
(*                                                                         *)
(* A string object holds UTF-8 or UTF-16 text and turns from the first     *)
(* into the second when asked for a length or an index.  A character is    *)
(* one code unit, but for the wide ones (Wide), which are a pair of        *)
(* surrogates in UTF-16.  The guest edits one mutable string; elsewhere it *)
(* types a text, whose lines, components and tokens it asks for.           *)
(***************************************************************************)
EXTENDS Integers, Sequences, SequencesExt, FiniteSetsExt, TLC

CONSTANTS
  Param,     \* the strings the guest passes, sequences of characters
  Typed,     \* the characters of the typed text
  MaxUnits,  \* the longest mutable string, in code units
  MaxTyped,  \* the longest typed text
  MaxScanned \* pieces scanned

VARIABLES
  str,       \* the mutable string: [rep, s]
  units,     \* ghost: its code units, by the meaning of the calls made
  text,      \* the typed text
  scanner,   \* NSScannerHostObject: [on, skip, pos]
  scanned    \* ghost: what it returned, a sequence of [from, s]
vars == <<str, units, text, scanner, scanned>>

Wide == "W"
High == "W-high"
Low == "W-low"
\* Case folding and the order of code units (surrogates are above the letters)
Lower(c) == IF c = "A" THEN "a" ELSE c
Rank == "\n" :> 0 @@ "\r" :> 1 @@ " " :> 2 @@ "-" :> 3 @@ "." :> 4 @@ "/" :> 5 @@ "1" :> 6 @@ "2" :> 7 @@ "A" :> 8
        @@ "a" :> 9 @@ "b" :> 10 @@ "W-high" :> 11 @@ "W-low" :> 12
Digits == {"1", "2"}

-----------------------------------------------------------------------------
\* Representation
Utf8(s) == [rep |-> "utf8", s |-> s]
Utf16(u) == [rep |-> "utf16", s |-> u]
Encode(s) == FlattenSeq([i \in DOMAIN s |-> IF s[i] = Wide THEN <<High, Low>> ELSE <<s[i]>>])
Valid(u) == \A i \in DOMAIN u : /\ u[i] = High => i < Len(u) /\ u[i + 1] = Low
                                /\ u[i] = Low => i > 1 /\ u[i - 1] = High
Decode(u) == LET kept == SelectSeq(u, LAMBDA c : c # Low) IN [i \in DOMAIN kept |-> IF kept[i] = High THEN Wide ELSE kept[i]]
iter_code_units(x) == IF x.rep = "utf8" THEN Encode(x.s) ELSE x.s
to_rust_string(x) == IF x.rep = "utf8" THEN x.s ELSE Decode(x.s)
convert_to_utf16(x) == Utf16(iter_code_units(x))
length(x) == Len(iter_code_units(x))

\* Searching, by code units; an empty string is found nowhere
NotFound == -1
From(u, i) == SubSeq(u, i + 1, Len(u))
is_match_at_position(u, v, i, Fold(_)) ==
  \A j \in DOMAIN v : i + j <= Len(u) /\ Fold(u[i + j]) = Fold(v[j])
rangeOfString(x, y, options) ==
  LET u == iter_code_units(x)
      v == iter_code_units(y)
      Fold(c) == IF options = "insensitive" THEN Lower(c) ELSE c
      hits == {i \in 0..(Len(u) - 1) : is_match_at_position(u, v, i, Fold)}
  IN  IF v = <<>> \/ hits = {} THEN NotFound ELSE IF options = "backwards" THEN Max(hits) ELSE Min(hits)
rangeOfCharacterFromSet(x, set) ==
  LET u == iter_code_units(x)
      hits == {i \in DOMAIN u : u[i] \in set} IN IF hits = {} THEN NotFound ELSE Min(hits) - 1
\* Equality, prefix and suffix are those of the UTF-8 text
isEqualToString(x, y) == to_rust_string(x) = to_rust_string(y)
hasPrefix(x, y) == IsPrefix(to_rust_string(y), to_rust_string(x))
hasSuffix(x, y) == IsSuffix(to_rust_string(y), to_rust_string(x))
Order(m, n) == IF m < n THEN -1 ELSE IF m > n THEN 1 ELSE 0
\* compare:options: goes unit by unit to the first difference; with
\* NSNumericSearch a run of digits on both sides counts as one number
RECURSIVE Compare(_, _, _)
Compare(u, v, mask) ==
  LET Num(w) == LET n == Min({k \in 1..(Len(w) + 1) : k > Len(w) \/ w[k] \notin Digits}) - 1
                IN  [n |-> n, val |-> FoldLeft(LAMBDA a, d : a * 10 + Rank[d] - 5, 0, SubSeq(w, 1, n))]
      both == mask = "numeric" /\ Head(u) \in Digits /\ Head(v) \in Digits
      o == IF both THEN Order(Num(u).val, Num(v).val)
           ELSE IF mask = "insensitive" THEN Order(Rank[Lower(Head(u))], Rank[Lower(Head(v))])
           ELSE Order(Rank[Head(u)], Rank[Head(v)])
  IN  IF u = <<>> \/ v = <<>> THEN Order(Len(u), Len(v))
      ELSE IF o # 0 THEN o
      ELSE IF both THEN Compare(From(u, Num(u).n), From(v, Num(v).n), mask)
      ELSE Compare(Tail(u), Tail(v), mask)
compare(x, y, mask) == Compare(iter_code_units(x), iter_code_units(y), mask)

\* Cutting: the separator is looked for at the front of what is left
RECURSIVE SplitBy(_, _, _, _)
SplitBy(u, sep, done, insensitive) ==
  LET Fold(c) == IF insensitive THEN Lower(c) ELSE c
  IN  IF is_match_at_position(u, sep, 0, Fold) THEN <<done>> \o SplitBy(From(u, Len(sep)), sep, <<>>, insensitive)
      ELSE IF u = <<>> THEN <<done>>
      ELSE SplitBy(Tail(u), sep, Append(done, Head(u)), insensitive)
componentsSeparatedByString(x, sep) == SplitBy(iter_code_units(x), iter_code_units(sep), <<>>, FALSE)
componentsSeparatedByCharactersInSet(x, set) ==
  LET u == iter_code_units(x)
      ends == SetToSortSeq({i \in DOMAIN u : u[i] \in set} \cup {Len(u) + 1}, <)
  IN  [k \in DOMAIN ends |-> SubSeq(u, IF k = 1 THEN 1 ELSE ends[k - 1] + 1, ends[k] - 1)]
Joined(parts, sep) == FoldLeft(LAMBDA a, i : IF i = 1 THEN parts[1] ELSE a \o sep \o parts[i], <<>>, [i \in DOMAIN parts |-> i])
\* string_by_replacing_occurrences_inner: the same walk, and an empty target
\* replaces nothing
string_by_replacing(u, target, new, insensitive) ==
  IF target = <<>> THEN u ELSE Joined(SplitBy(u, target, <<>>, insensitive), new)
substringToIndex(x, n) == Utf16(SubSeq(iter_code_units(x), 1, Min({n, length(x)})))
substringFromIndex(x, n) == Utf16(From(iter_code_units(x), n))
substringWithRange(x, loc, n) == Utf16(SubSeq(iter_code_units(x), loc + 1, loc + n))
stringByAppendingString(x, y) == Utf16(iter_code_units(x) \o iter_code_units(y))
stringByReplacingOccurrences(x, target, new, insensitive, loc, n) ==
  LET middle == string_by_replacing(substringWithRange(x, loc, n).s, iter_code_units(target), iter_code_units(new), insensitive)
  IN  stringByAppendingString(stringByAppendingString(substringToIndex(x, loc), Utf16(middle)), substringFromIndex(x, loc + n))
stringByTrimmingCharactersInSet(x, set) ==
  LET u == iter_code_units(x)
      kept == {i \in DOMAIN u : u[i] \notin set}
  IN  IF kept = {} THEN <<>> ELSE SubSeq(u, Min(kept), Max(kept))
\* A number at the front of a text is all its digits and signs; a sign that is
\* not the first of them makes it 0
NumberRun(s) == SubSeq(s, 1, Min({k \in 1..(Len(s) + 1) : k > Len(s) \/ s[k] \notin Digits \cup {"-"}}) - 1)
NumberOf(run) ==
  LET neg == run # <<>> /\ Head(run) = "-"
      ds == IF neg THEN Tail(run) ELSE run
      v == FoldLeft(LAMBDA a, d : a * 10 + Rank[d] - 5, 0, ds)
  IN  IF "-" \in Range(ds) THEN 0 ELSE IF neg THEN -v ELSE v
intValue(x) ==
  LET s == to_rust_string(x)
  IN  NumberOf(NumberRun(From(s, Min({k \in 0..Len(s) : k = Len(s) \/ s[k + 1] # " "}))))
\* getCString:maxLength:encoding: all of it and a terminator, or nothing
get_bytes_buffer(x, size, terminated) ==
  LET n == FoldLeft(LAMBDA a, c : a + (IF c = Wide THEN 4 ELSE 1), 0, to_rust_string(x))
  IN  [ok |-> size >= n + (IF terminated THEN 1 ELSE 0), bytes |-> n]

-----------------------------------------------------------------------------
\* The mutable string.  What is set must be text: half of a pair panics
Init ==
  /\ str = Utf8(<<>>) /\ units = <<>> /\ text = <<>>
  /\ scanner = [on |-> FALSE, skip |-> {}, pos |-> 0] /\ scanned = <<>>
Only == UNCHANGED <<text, scanner, scanned>>
setString(y) == Valid(iter_code_units(y)) /\ str' = Utf8(to_rust_string(y))
Means(u) == Len(u) <= MaxUnits /\ Valid(u) /\ units' = u /\ Only
Measure == str' = convert_to_utf16(str) /\ UNCHANGED units /\ Only
Reset(p) == setString(p) /\ Means(iter_code_units(p))
appendString(p) == setString(stringByAppendingString(str, p)) /\ Means(units \o iter_code_units(p))
appendFormat(p) ==
  /\ str' = Utf8(to_rust_string(str) \o to_rust_string(p)) /\ Means(units \o iter_code_units(p))
deleteCharactersInRange(loc, n) ==
  LET u == convert_to_utf16(str)
      left == substringWithRange(u, 0, loc)
      right == substringWithRange(u, loc + n, length(u) - loc - n)
  IN  /\ loc + n <= Len(units)
      /\ setString(stringByAppendingString(left, right))
      /\ Means([i \in 1..(Len(units) - n) |-> units[IF i <= loc THEN i ELSE i + n]])
\* initWithBytes:length:encoding: UTF-16 bytes keep their representation
Decoded(p, encoding) ==
  /\ str' = (IF p = <<>> \/ encoding = "utf8" THEN Utf8(p) ELSE Utf16(Encode(p))) /\ Means(Encode(p))

-----------------------------------------------------------------------------
\* Lines (getLineStart:end:contentsEnd:forRange:): CR LF is one terminator
LineBreak == {"\n", "\r"}
line_start(t, start) ==
  LET Breaks(i) == t[i] = "\n" \/ (t[i] = "\r" /\ ~(i = start /\ i < Len(t) /\ t[i + 1] = "\n"))
  IN  Max({0} \cup {i \in 1..start : Breaks(i)})
contents_end(t, start, n) ==
  LET from == IF n > 0 THEN start + n - 1 ELSE start
      at == Min({i \in from..Len(t) : i = Len(t) \/ t[i + 1] \in LineBreak})
  IN  IF at < Len(t) /\ t[at + 1] = "\n" /\ at > 0 /\ t[at] = "\r" THEN at - 1 ELSE at
line_end(t, start, n) ==
  LET c == contents_end(t, start, n)
  IN  IF c = Len(t) THEN c ELSE IF t[c + 1] = "\r" /\ c + 1 < Len(t) /\ t[c + 2] = "\n" THEN c + 2 ELSE c + 1
line_range(t, start, n) == <<line_start(t, start), line_end(t, start, n)>>

\* Paths
Slash == <<"/">>
trim_trailing_slashes(p) ==
  LET kept == {i \in DOMAIN p : p[i] # "/"}
  IN  IF kept = {} THEN (IF p = <<>> THEN p ELSE Slash) ELSE SubSeq(p, 1, Max(kept))
LastOf(p, c) == Max({i \in DOMAIN p : p[i] = c})
split_last_path_component(path) ==
  LET p == trim_trailing_slashes(path)
      rest == SubSeq(p, 1, LastOf(p, "/") - 1)
  IN  IF p = Slash THEN <<Slash, Slash>>
      ELSE IF "/" \notin Range(p) THEN <<<<>>, p>>
      ELSE <<IF rest = <<>> THEN Slash ELSE rest, From(p, LastOf(p, "/"))>>
Fields(p) == SelectSeq(componentsSeparatedByCharactersInSet(Utf16(p), {"/"}), LAMBDA c : c # <<>>)
split_path_components(path) ==
  LET lead == path # <<>> /\ Head(path) = "/"
      p == IF lead THEN Tail(path) ELSE path
      trail == p # <<>> /\ Last(p) = "/"
  IN  (IF lead THEN <<Slash>> ELSE <<>>) \o Fields(p) \o (IF trail THEN <<Slash>> ELSE <<>>)
split_path_extension(path) ==
  LET p == trim_trailing_slashes(path)
      last == split_last_path_component(p)[2]
      dotted == "." \in Range(last) /\ (Head(last) # "." \/ "." \in Range(Tail(last)))
  IN  IF dotted THEN <<SubSeq(p, 1, LastOf(p, ".") - 1), From(p, LastOf(p, "."))>> ELSE <<p, <<>>>>
string_by_appending_path_component(base, component) ==
  LET absolute == (base # <<>> /\ Head(base) = "/") \/ (base = <<>> /\ component # <<>> /\ Head(component) = "/")
  IN  (IF absolute THEN Slash ELSE <<>>) \o Joined(Fields(base) \o Fields(component), Slash)
pathWithComponents(parts) == FoldLeft(string_by_appending_path_component, <<>>, SelectSeq(parts, LAMBDA c : c # <<>>))

type(c) ==
  /\ ~scanner.on /\ units = <<>> /\ Len(text) < MaxTyped /\ text' = Append(text, c)
  /\ UNCHANGED <<str, units, scanner, scanned>>

-----------------------------------------------------------------------------
\* NSScanner.  Every method first passes over the characters to be skipped,
\* and keeps that even when it then finds nothing
initWithString == ~scanner.on /\ units = <<>> /\ scanner' = [on |-> TRUE, skip |-> {" ", "\n"}, pos |-> 0] /\ UNCHANGED <<str, units, text, scanned>>
Run(t, i, Cond(_)) == Min({n \in 0..(Len(t) - i) : i + n = Len(t) \/ ~Cond(t[i + n + 1])})
skip_characters == scanner.pos + Run(text, scanner.pos, LAMBDA c : c \in scanner.skip)
Found(at, n) ==
  /\ scanner' = [scanner EXCEPT !.pos = at + n]
  /\ scanned' = Append(scanned, [from |-> at, s |-> SubSeq(text, at + 1, at + n), skip |-> scanner.skip])
  /\ UNCHANGED <<str, units, text>>
Missed(at) == scanner' = [scanner EXCEPT !.pos = at] /\ UNCHANGED <<str, units, text, scanned>>
setCharactersToBeSkipped(set) == scanner.on /\ scanner' = [scanner EXCEPT !.skip = set] /\ UNCHANGED <<str, units, text, scanned>>
isAtEnd == scanner.on /\ Missed(skip_characters)
scanUpToCharactersFromSet(set) ==
  LET n == Run(text, skip_characters, LAMBDA c : c \notin set)
  IN  scanner.on /\ IF n = 0 THEN Missed(skip_characters) ELSE Found(skip_characters, n)
\* An empty stop is found nowhere; a stop that is not found is the end
scanUpToString(stop) ==
  LET left == From(text, skip_characters)
      at == rangeOfString(Utf16(left), Utf16(stop), "literal")
  IN  scanner.on /\ IF at = 0 THEN Missed(skip_characters) ELSE Found(skip_characters, IF at = NotFound THEN Len(left) ELSE at)
scanString(s) ==
  scanner.on /\ IF IsPrefix(s, From(text, skip_characters)) THEN Found(skip_characters, Len(s)) ELSE Missed(skip_characters)
scanInt ==
  LET n == Len(NumberRun(From(text, skip_characters)))
  IN  scanner.on /\ IF n = 0 THEN Missed(skip_characters) ELSE Found(skip_characters, n)

Editing ==
  /\ text = <<>> /\ ~scanner.on
  /\ \/ Measure
     \/ \E p \in Param : Reset(Utf8(p)) \/ Decoded(p, "utf8") \/ Decoded(p, "utf16")
     \/ \E p \in Param : appendString(Utf8(p)) \/ appendString(Utf16(Encode(p))) \/ appendFormat(Utf8(p))
     \/ \E loc \in 0..MaxUnits, n \in 1..2 : deleteCharactersInRange(loc, n)
Scanning ==
  \/ setCharactersToBeSkipped({"-"}) \/ isAtEnd \/ scanInt
  \/ scanUpToCharactersFromSet({"-"}) \/ scanUpToCharactersFromSet(Typed \ {"a", " "})
  \/ scanUpToString(<<"-", "1">>) \/ scanString(<<"a">>)
Next == Editing \/ (\E c \in Typed : type(c)) \/ initWithString \/ (Len(scanned) < MaxScanned /\ Scanning)
Spec == Init /\ [][Next]_vars

-----------------------------------------------------------------------------
\* Whatever its representation has been, the mutable string holds the code
\* units that the calls mean, and its answers are those of the sequence of
\* code units: where another string occurs, what it starts and ends with, how
\* it compares, and cutting it and joining or replacing
ContentKept ==
  LET u == units
      Occurs(v) == {i \in 0..(Len(u) - 1) : IsPrefix(v, From(u, i))}
      folded == [i \in DOMAIN u |-> Lower(u[i])]
  IN  text = <<>> =>
      /\ iter_code_units(str) = u /\ Encode(to_rust_string(str)) = u
      /\ \A p \in Param, x \in {str, convert_to_utf16(str)} : \A y \in {Utf8(p), Utf16(Encode(p))} :
           LET v == Encode(p)
               parts == componentsSeparatedByString(x, y)
           IN  /\ hasPrefix(x, y) = IsPrefix(v, u) /\ hasSuffix(x, y) = IsSuffix(v, u)
               /\ isEqualToString(x, y) = (u = v) /\ (u = v => intValue(x) = intValue(y))
               /\ compare(x, y, "literal") = -compare(y, x, "literal") /\ (compare(x, y, "literal") = 0) = (u = v)
               /\ (compare(x, y, "insensitive") = 0) = (folded = [i \in DOMAIN v |-> Lower(v[i])])
               /\ compare(x, y, "numeric") = -compare(y, x, "numeric")
               /\ v # <<>> =>
                    /\ rangeOfString(x, y, "literal") = Min(Occurs(v) \cup (IF Occurs(v) = {} THEN {NotFound} ELSE {}))
                    /\ rangeOfString(x, y, "backwards") = Max(Occurs(v) \cup {NotFound})
                    /\ (rangeOfString(x, y, "insensitive") = NotFound) =>
                         \A i \in 0..(Len(u) - Len(v)) : SubSeq(folded, i + 1, i + Len(v)) # [j \in DOMAIN v |-> Lower(v[j])]
                    /\ Joined(parts, v) = u /\ \A k \in DOMAIN parts : rangeOfString(Utf16(parts[k]), y, "literal") = NotFound
                    /\ \A k \in DOMAIN parts : k < Len(parts) => Len(parts[k]) + Len(v) <= Len(u)
                    /\ stringByReplacingOccurrences(x, y, y, FALSE, 0, Len(u)).s = u
                    /\ get_bytes_buffer(x, get_bytes_buffer(x, 0, FALSE).bytes, FALSE).ok
                    /\ ~get_bytes_buffer(x, get_bytes_buffer(x, 0, FALSE).bytes, TRUE).ok
      /\ LET t == stringByTrimmingCharactersInSet(str, {"a"})
         IN  \E i \in 0..Len(u) : /\ SubSeq(u, i + 1, i + Len(t)) = t /\ Range(SubSeq(u, 1, i)) \cup Range(From(u, i + Len(t))) \subseteq {"a"}
                                  /\ (t # <<>> => Head(t) # "a" /\ Last(t) # "a")

\* The lines partition the text: a line starts where another ends, every place
\* within a line gives that line, a terminator belongs to the line it ends and
\* CR LF is never split
LinesPartition ==
  LET L(i) == line_range(text, i, 0)
  IN  (units = <<>> /\ ~scanner.on) => \A i \in 0..Len(text) :
        /\ L(i)[1] <= i /\ i <= L(i)[2] /\ (i < Len(text) => i < L(i)[2])
        /\ \A j \in L(i)[1]..(L(i)[2] - 1) : L(j) = L(i)
        /\ L(i)[2] < Len(text) => L(L(i)[2])[1] = L(i)[2]
        /\ \A n \in 1..(Len(text) - i) : line_range(text, i, n) = <<L(i)[1], L(i + n - 1)[2]>>
        /\ contents_end(text, i, 0) \in L(i)[1]..L(i)[2]
        /\ \A k \in (L(i)[1] + 1)..contents_end(text, i, 0) : text[k] \notin LineBreak
        /\ ~(L(i)[2] \in 1..(Len(text) - 1) /\ text[L(i)[2]] = "\r" /\ text[L(i)[2] + 1] = "\n")

\* A path put together from its parts is the path again (up to repeated and
\* trailing slashes): from the last component and the rest, from all its
\* components, from the extension and what precedes it
PathsRejoin ==
  LET Same(p) == string_by_appending_path_component(p, <<>>)
      lc == split_last_path_component(text)
      ext == split_path_extension(text)
  IN  (units = <<>> /\ ~scanner.on) =>
        /\ Same(string_by_appending_path_component(lc[1], lc[2])) = Same(text)
        /\ lc[2] = Slash \/ "/" \notin Range(lc[2])
        /\ pathWithComponents(split_path_components(text)) = Same(text)
        /\ ext[2] # <<>> => ext[1] \o <<".">> \o ext[2] = trim_trailing_slashes(text)
        /\ Range(ext[2]) \cap {"/", "."} = {}
        /\ split_last_path_component(ext[1])[1] = lc[1]

\* Lines and paths are both divided without loss (getLineStart, lineRangeForRange
\* and the path methods)
DivisionRight == LinesPartition /\ PathsRejoin

\* A scanner moves through its text without losing any: between the pieces it
\* returned, and up to its location, are only characters it was told to skip
ScannerTrue ==
  scanner.on =>
    /\ scanner.pos \in 0..Len(text)
    /\ \A k \in DOMAIN scanned :
         LET before == IF k = 1 THEN 0 ELSE scanned[k - 1].from + Len(scanned[k - 1].s)
         IN  /\ scanned[k].s = SubSeq(text, scanned[k].from + 1, scanned[k].from + Len(scanned[k].s))
             /\ Range(SubSeq(text, before + 1, scanned[k].from)) \subseteq {" ", "\n", "-"}
             /\ scanned[k].s # <<>> => Head(scanned[k].s) \notin scanned[k].skip
=============================================================================
