------------------------------- MODULE CStrings -------------------------------
(***************************************************************************)
(* The C library's strings: string.h and wchar.h over one kind of          *)
(* character (libc/generic_char.rs), and strtok and strsep                 *)
(* (libc/string.rs).  Memory is a row of cells and a pointer is an index,  *)
(* 0 for NULL.  The guest keeps two strings, each in its buffer of Cap     *)
(* cells, and edits the first one with the library; it also cuts a third   *)
(* buffer into fields.  A loop that scans for a character is the least     *)
(* index at which the loop stops.                                          *)
(***************************************************************************)
EXTENDS Integers, Sequences, SequencesExt, FiniteSetsExt, TLC

CONSTANTS
  Letter,    \* the characters of the strings, a sequence: their order is that of their codes
  Sep,       \* the separators, a subset of the letters
  Cap        \* cells of a buffer

VARIABLES
  mem,       \* the cells
  value,     \* ghost: the two strings, by the meaning of the calls made
  strtok_at, \* State.strtok: None, 0 (NULL) or a pointer
  stringp,   \* the guest's variable for strsep
  cut        \* ghost: [text, how, fields]: the text being cut, by whom, and the fields returned
vars == <<mem, value, strtok_at, stringp, cut>>

Null == "NUL"
None == -1
Letters == Range(Letter)
Code(c) == IF c = Null THEN 0 ELSE CHOOSE i \in DOMAIN Letter : Letter[i] = c
Texts(n) == UNION {[1..k -> Letters] : k \in 0..n}
A == 1
B == Cap + 1
C == 2 * Cap + 1

\* The least offset from p whose cell satisfies the condition
Scan(Stops(_), p) == Min({i \in 0..(Len(mem) - p) : Stops(mem[p + i])})
strlen(p) == Scan(LAMBDA c : c = Null, p)
cstr_at(p) == SubSeq(mem, p, p + strlen(p) - 1)
Write(m, p, s) == [i \in DOMAIN m |-> IF i >= p /\ i < p + Len(s) THEN s[i - p + 1] ELSE m[i]]
Terminated(s) == Append(s, Null)
Cells(p, n) == SubSeq(mem, p, p + n - 1)

memset(p, c, n) == Write(mem, p, [i \in 1..n |-> c])
\* memcpy is memmove: the cells are read before any is written
memmove(dest, src, n) == Write(mem, dest, Cells(src, n))
memchr(p, c, n) == IF c \in Range(Cells(p, n)) THEN p + Scan(LAMBDA d : d = c, p) ELSE 0
Sign(n) == IF n < 0 THEN -1 ELSE IF n > 0 THEN 1 ELSE 0
\* The first difference decides; the strings end at their first Null
CompareAt(a, b, i) == Sign(Code(mem[a + i]) - Code(mem[b + i]))
memcmp(a, b, n) ==
  LET diff == {i \in 0..(n - 1) : mem[a + i] # mem[b + i]}
  IN  IF diff = {} THEN 0 ELSE CompareAt(a, b, Min(diff))
strcmp(a, b) ==
  CompareAt(a, b, Min({i \in 0..(Cap - 1) : mem[a + i] # mem[b + i] \/ mem[a + i] = Null}))
strncmp(a, b, n) ==
  IF n = 0 THEN 0
  ELSE CompareAt(a, b, Min({i \in 0..(Cap - 1) : mem[a + i] # mem[b + i] \/ i + 1 = n \/ mem[a + i] = Null}))

\* Both copy loops: the terminator is the last cell copied
strcpy(m, dest, src) == Write(m, dest, SubSeq(mem, src, src + strlen(src)))
strcat(dest, src) == strcpy(mem, dest + strlen(dest), src)
strncpy(dest, src, n) ==
  Write(mem, dest, [i \in 1..n |-> IF i > strlen(src) THEN Null ELSE mem[src + i - 1]])
strncat_unterminated(dest, src, n) ==
  Write(mem, dest + strlen(dest), Cells(src, Min({n, strlen(src)})))
strncat(dest, src, n) ==
  LET end == dest + strlen(dest)
      k == Min({n, strlen(src)})
  IN  Write(mem, end, Terminated(Cells(src, k)))
\* The result is the length of the source, cut or not
strlcpy(dest, src, n) ==
  [mem |-> Write(mem, dest, Terminated(Cells(src, Min({n - 1, strlen(src)})))), ret |-> strlen(src)]
\* To wide characters: terminated when there is room
mbstowcs(dest, src, n) ==
  Write(mem, dest, IF strlen(src) < n THEN Terminated(cstr_at(src)) ELSE Cells(src, n))
\* bsearch: the half that may hold the key, until none is left
RECURSIVE Bisect(_, _, _, _)
Bisect(key, p, low, len) ==
  LET half == len \div 2
      item == p + low + half
      o == Sign(Code(key) - Code(mem[item]))
  IN  IF len = 0 THEN 0
      ELSE IF o = 0 THEN item
      ELSE IF o = 1 THEN Bisect(key, p, low + half + 1, len - half - 1)
      ELSE Bisect(key, p, low, half)
bsearch(key, p, n) == Bisect(key, p, 0, n)
strspn(p, set) == Scan(LAMBDA c : c = Null \/ c \notin Range(cstr_at(set)), p)
strcspn(p, set) == Scan(LAMBDA c : c = Null \/ c \in Range(cstr_at(set)), p)
\* The scan stops at a match or where the string ends within the substring
strstr(p, sub) ==
  LET n == strlen(sub)
      hit == {i \in 0..strlen(p) : i + n <= strlen(p) /\ Cells(p + i, n) = cstr_at(sub)}
  IN  IF hit = {} THEN 0 ELSE p + Min(hit)
strchr(p, c) ==
  LET hit == {i \in 0..strlen(p) : mem[p + i] = c} IN IF hit = {} THEN 0 ELSE p + Min(hit)
strrchr(p, c) ==
  LET hit == {i \in 0..strlen(p) : mem[p + i] = c} IN IF hit = {} THEN 0 ELSE p + Max(hit)
strpbrk(p, set) ==
  LET i == strcspn(p, set) IN IF mem[p + i] = Null THEN 0 ELSE p + i

Init ==
  /\ mem = [i \in 1..(3 * Cap) |-> Null] /\ value = [a |-> <<>>, b |-> <<>>]
  /\ strtok_at = None /\ stringp = 0 /\ cut = [text |-> <<>>, how |-> "", fields |-> <<>>]

Resting == UNCHANGED <<strtok_at, stringp, cut>>
Prefix(s, n) == SubSeq(s, 1, Min({n, Len(s)}))
\* An edit of the first string: the guest knows that the result has room
Edit(new, meaning) ==
  /\ Len(meaning) < Cap /\ mem' = new /\ value' = [value EXCEPT !.a = meaning] /\ Resting
\* The guest fills its second buffer with a literal, with __strcpy_chk's room
literal(s) ==
  /\ mem' = Write(mem, B, Terminated(s)) /\ value' = [value EXCEPT !.b = s] /\ Resting
copy == Edit(strcpy(mem, A, B), value.b)
concatenate == Edit(strcat(A, B), value.a \o value.b)
copy_n(n) == Len(value.b) < n /\ Edit(strncpy(A, B, n), value.b)
concatenate_n(n) == Edit(strncat(A, B, n), value.a \o Prefix(value.b, n))
convert(n) == Len(value.b) < n /\ Edit(mbstowcs(A, B, n), value.b)
copy_l(n) == Edit(strlcpy(A, B, n).mem, Prefix(value.b, n - 1))
\* The guest deletes the i'th character, or makes room for one, by moving the
\* rest of the string, terminator included
delete_at(i) ==
  i <= Len(value.a) /\ Edit(memmove(A + i - 1, A + i, Len(value.a) - i + 1), RemoveAt(value.a, i))
double_at(i) ==
  /\ i <= Len(value.a) /\ Len(value.a) < Cap - 1
  /\ Edit(memmove(A + i, A + i - 1, Len(value.a) - i + 2), InsertAt(value.a, i, value.a[i]))
fill(c, n) == n <= Len(value.a) /\ Edit(memset(A, c, n), [i \in DOMAIN value.a |-> IF i <= n THEN c ELSE value.a[i]])

\* A text to cut, in the third buffer
Start(s, how) ==
  /\ mem' = Write(mem, C, [i \in 1..Cap |-> IF i > Len(s) THEN Null ELSE s[i]])
  /\ cut' = [text |-> s, how |-> how, fields |-> <<>>] /\ stringp' = C
  /\ UNCHANGED <<value, strtok_at>>
Field(m, p) == IF p = 0 THEN <<>> ELSE SubSeq(m, p, p + Min({i \in 0..(Len(m) - p) : m[p + i] = Null}) - 1)
Returned(m, p) == cut' = [cut EXCEPT !.fields = Append(@, IF p = 0 THEN <<"NULL">> ELSE Field(m, p))]
\* strtok: separators before the field are skipped, the one after it becomes
\* a Null, and what follows is kept for the next call, NULL when the text ended.
\* A call with NULL after the text ended returns NULL; one more would panic
TokenStart(from) == from + Scan(LAMBDA c : c \notin Sep, from)
strtok(s) ==
  LET from == IF s = 0 THEN strtok_at ELSE s
      start == TokenStart(from)
      end == start + Scan(LAMBDA c : c = Null \/ c \in Sep, start)
      m == IF mem[end] = Null THEN mem ELSE Write(mem, end, <<Null>>)
  IN  /\ from # None /\ UNCHANGED <<value, stringp>>
      /\ IF from = 0 \/ mem[start] = Null
           THEN strtok_at' = None /\ UNCHANGED mem /\ Returned(mem, 0)
           ELSE /\ mem' = m /\ strtok_at' = (IF mem[end] = Null THEN 0 ELSE end + 1)
                /\ Returned(m, start)
\* strsep: every separator ends a field, an empty one too
strsep ==
  LET orig == stringp
      end == orig + Scan(LAMBDA c : c = Null \/ c \in Sep, orig)
      m == IF mem[end] = Null THEN mem ELSE Write(mem, end, <<Null>>)
  IN  /\ UNCHANGED <<value, strtok_at>>
      /\ IF orig = 0
           THEN UNCHANGED <<mem, stringp>> /\ Returned(mem, 0)
           ELSE /\ mem' = m /\ stringp' = (IF mem[end] = Null THEN 0 ELSE end + 1)
                /\ Returned(m, orig)
Ended == cut.fields # <<>> /\ Last(cut.fields) = <<"NULL">>

Editing ==
  /\ cut.how = ""
  /\ \/ \E s \in Texts(2) : literal(s)
     \/ copy \/ concatenate
     \/ \E n \in 1..Cap : copy_n(n) \/ concatenate_n(n) \/ copy_l(n) \/ convert(n)
     \/ \E i \in 1..Cap : delete_at(i) \/ double_at(i)
     \/ \E c \in Letters, n \in 1..2 : fill(c, n)
Cutting ==
  \/ cut.how = "" /\ value.a = <<>> /\ value.b = <<>> /\ \E s \in Texts(Cap - 1), how \in {"strtok", "strsep"} : Start(s, how)
  \/ cut.how = "strtok" /\ ~Ended /\ strtok(IF cut.fields = <<>> THEN C ELSE 0)
  \/ cut.how = "strsep" /\ ~Ended /\ strsep
Next == Editing \/ Cutting
Spec == Init /\ [][Next]_vars

-----------------------------------------------------------------------------
\* The two buffers always hold the strings that the calls mean, no call writes
\* beyond its buffer, and the searches and comparisons answer for those strings
At(p, base) == p - base
FirstOf(s, Cond(_)) == LET hit == {i \in DOMAIN s : Cond(s[i])} IN IF hit = {} THEN Len(s) ELSE Min(hit) - 1
StringsKept ==
  LET a == value.a
      b == value.b
      found == {u \in 0..Len(a) : IsPrefix(b, SubSeq(a, u + 1, Len(a)))}
      shorter == Min({Len(a), Len(b)})
      same == Max({n \in 0..shorter : Prefix(a, n) = Prefix(b, n)})
      order == IF same < shorter THEN Sign(Code(a[same + 1]) - Code(b[same + 1])) ELSE Sign(Len(a) - Len(b))
  IN  /\ cstr_at(A) = a /\ cstr_at(B) = b
      /\ strlcpy(A, B, 1).ret = Len(b)
      /\ strspn(A, B) = FirstOf(a, LAMBDA c : c \notin Range(b))
      /\ strcspn(A, B) = FirstOf(a, LAMBDA c : c \in Range(b))
      /\ strpbrk(A, B) = (IF Range(a) \cap Range(b) = {} THEN 0 ELSE A + FirstOf(a, LAMBDA c : c \in Range(b)))
      /\ strstr(A, B) = (IF found = {} THEN 0 ELSE A + Min(found))
      /\ \A c \in Letters \cup {Null} :
           /\ strchr(A, c) = (IF c \in Range(Terminated(a)) THEN A + FirstOf(a, LAMBDA d : d = c) ELSE 0)
           /\ strrchr(A, c) = (IF c \in Range(Terminated(a)) THEN A + Len(a) - FirstOf(Reverse(Terminated(a)), LAMBDA d : d = c) ELSE 0)
           /\ memchr(A, c, Len(a)) = (IF c \in Range(a) THEN strchr(A, c) ELSE 0)
      /\ strcmp(A, B) = order
      /\ (\A i, j \in DOMAIN a : i < j => Code(a[i]) <= Code(a[j])) =>
           \A c \in Letters : LET hit == bsearch(c, A, Len(a))
                              IN  IF c \in Range(a) THEN hit # 0 /\ mem[hit] = c ELSE hit = 0
      /\ \A n \in 0..Cap :
           /\ strncmp(A, B, n) = (IF n <= same THEN 0 ELSE order)
           /\ n <= shorter => memcmp(A, B, n) = (IF n <= same THEN 0 ELSE order)

\* Calls of strtok return the non-empty fields of the text in order and then
\* NULL, those of strsep all its fields; only separators were overwritten
SplitAt(s, i) == {j \in 0..(i - 1) : j = 0 \/ s[j] \in Sep}
FieldsOf(s) ==
  LET ends == SetToSortSeq({i \in DOMAIN s : s[i] \in Sep} \cup {Len(s) + 1}, <)
  IN  [k \in DOMAIN ends |-> SubSeq(s, Max(SplitAt(s, ends[k])) + 1, ends[k] - 1)]
TokensRight ==
  LET all == FieldsOf(cut.text)
      due == IF cut.how = "strtok" THEN SelectSeq(all, LAMBDA f : f # <<>>) ELSE all
      got == IF Ended THEN Front(cut.fields) ELSE cut.fields
  IN  cut.how # "" =>
        /\ IsPrefix(got, due) /\ (Ended => got = due)
        /\ \A i \in DOMAIN cut.text : mem[C + i - 1] \in {cut.text[i]} \cup (IF cut.text[i] \in Sep THEN {Null} ELSE {})

\* The C strings answer for their contents, edited or cut into fields
CStringsRight == StringsKept /\ TokensRight
=============================================================================
