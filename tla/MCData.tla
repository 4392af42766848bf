------------------------------- MODULE MCData -------------------------------
(***************************************************************************)
(* Files, and what is kept in them, in one run: a behaviour is one of four *)
(* guest programs that use files, or of archives, nibs, the calendar,      *)
(* defaults, numbers or data, while the others rest.                       *)
(***************************************************************************)
EXTENDS GuestFiles, SequencesExt, TLC

CONSTANTS
  Guests, Objects, Graphs, Nil, NibFiles, Starts, Days, Seconds, Layouts, BufferSizes, Keys, Global, Values, Launches, Changes,
  Width, Samples, MaxKeys, Datas, Addrs, Grain, MaxLength, Bytes
VARIABLES
  guest,
  graph, root, phase, own, plist, top, current_key, archived, unarchived, stack, heap, overflown,
  nib, current_idx, made, making, objects, file_owner, pc, at, early,
  date, left, sec, gmtime_tmp, stamp, text, layout, length, scanned, stopped,
  up, launches, changes, delegate, delegate_is_retained, rc, kept, loaded, app, registered, writing, file, saved, dirty, late, died,
  map, asked, unwrapped, datas, chunks, want, asserted
archive_vars == <<graph, root, phase, own, plist, top, current_key, archived, unarchived, stack, heap, overflown>>
nib_vars == <<nib, current_idx, made, making, objects, file_owner, pc, at, early>>
time_vars == <<date, left, sec, gmtime_tmp, stamp, text, layout, length, scanned, stopped>>
default_vars == <<up, launches, changes, delegate, delegate_is_retained, rc, kept, loaded, app, registered, writing, file, saved, dirty, late, died>>
number_vars == <<map, asked, unwrapped>>
bytes_vars == <<datas, chunks, want, asserted>>

A == INSTANCE Archives WITH panic <- overflown
N == INSTANCE Nibs WITH unarchived <- made, stack <- making, heap <- objects
T == INSTANCE Times WITH panic <- stopped, Sizes <- BufferSizes
D == INSTANCE Defaults WITH panic <- died
V == INSTANCE Values WITH heap <- chunks, panic <- asserted

Below == Paths \ {Root}
Sizes == 1 .. MaxLen
DocumentsFile == CHOOSE p \in Below : Len(p) = 2 /\ parent(p) = Documents

\* A guest that makes, moves and removes files and directories while it has
\* some open, and never moves a file onto itself
tree_guest ==
  \/ \E p \in Below : \/ remove(p) \/ mkdir(p) \/ create_dir_all(p) \/ write_file(p, 1)
                      \/ open(p, Mode("w", {"create", "excl"}))
  \/ \E p, q \in Below : p # q /\ rename(p, q)
  \/ \E fd \in Fds : close(fd)
\* A guest that moves a file onto itself and uses descriptors for what they
\* were not opened for
careless_guest ==
  \/ mkdir(DocumentsFile) \/ create_dir_all(DocumentsFile) \/ (\E p \in Below : parent(p) = DocumentsFile /\ mkdir(p))
  \/ rename(DocumentsFile, DocumentsFile)
  \/ \E p \in {DocumentsFile, ArchiveFile, Documents}, flags \in SUBSET {"append", "create", "trunc"} :
       open(p, Mode("r", flags))
  \/ \E kind \in {"null", "random"} : open_device(kind)
  \/ \E fd \in Fds : \/ write(fd, 1) \/ pwrite(fd, 1, 0) \/ read(fd, 1) \/ close(fd)
                     \/ ftruncate(fd, 0) \/ fcntl(fd)
\* A guest that closes the descriptors of its streams, pushes bytes back at the
\* start and reads them with fread
rough_guest ==
  \/ \E f \in Streams : \/ fopen(f, ArchiveFile, Mode("r", {})) \/ fgetc(f) \/ ungetc(f)
                        \/ fread(f, 1) \/ fwrite(f, 1) \/ clearerr(f) \/ fclose(f)
  \/ \E fd \in Fds : close(fd)
\* A guest that uses a file through descriptors and streams, and closes the
\* descriptors of its streams only with them
stream_guest ==
  \/ \E f \in Streams, m \in {k \in FopenModes : k.acc = "rw"} : fopen(f, DocumentsFile, m)
  \/ \E f \in Streams :
       \/ fgetc(f) \/ ftell(f) \/ clearerr(f) \/ fclose(f)
       \/ Usable(f) /\ FdOf(f).offset > 0 /\ ungetc(f)
       \/ \E k \in Sizes : Usable(f) /\ Pushed(f) = 0 /\ (fread(f, k) \/ fwrite(f, k))
       \/ \E pos \in 0 .. MaxLen : fseek(f, pos)
  \/ open(DocumentsFile, Mode("w", {"create"}))
  \/ \E fd \in Fds : \/ pread(fd, 1, 0) \/ pwrite(fd, 1, 0)
                     \/ ~IsStreams(fd) /\ (close(fd) \/ write(fd, 1) \/ lseek(fd, 0))
                     \/ fsync(fd) \/ (files[fd].open /\ ftruncate(fd, 1))
  \/ truncate(DocumentsFile, 1) \/ remove(DocumentsFile)

ended == ~Running /\ UNCHANGED vars
GuestNext ==
  /\ \/ guest = "tree" /\ tree_guest
     \/ guest = "careless" /\ careless_guest
     \/ guest = "rough" /\ rough_guest
     \/ guest = "stream" /\ stream_guest
     \/ ended
  /\ UNCHANGED <<guest, careful>>
GuestInit == Init /\ guest \in Guests /\ careful = (guest \in {"tree", "stream"})

ArchivesRest ==
  /\ graph = 0 /\ root = 0 /\ phase = 0 /\ own = 0 /\ plist = 0 /\ top = 0 /\ current_key = 0 /\ archived = 0
  /\ unarchived = 0 /\ stack = 0 /\ heap = 0 /\ overflown = 0
NibsRest ==
  /\ nib = 0 /\ current_idx = 0 /\ made = 0 /\ making = 0 /\ objects = 0 /\ file_owner = 0 /\ pc = 0 /\ at = 0
  /\ early = 0
TimesRest ==
  /\ date = 0 /\ left = 0 /\ sec = 0 /\ gmtime_tmp = 0 /\ stamp = 0 /\ text = 0 /\ layout = 0 /\ length = 0
  /\ scanned = 0 /\ stopped = 0
DefaultsRest ==
  /\ up = 0 /\ launches = 0 /\ changes = 0 /\ delegate = 0 /\ delegate_is_retained = 0 /\ rc = 0 /\ kept = 0
  /\ loaded = 0 /\ app = 0 /\ registered = 0 /\ writing = 0 /\ file = 0 /\ saved = 0 /\ dirty = 0 /\ late = 0
  /\ died = 0
NumbersRest == map = 0 /\ asked = 0 /\ unwrapped = 0
BytesRest == datas = 0 /\ chunks = 0 /\ want = 0 /\ asserted = 0
DataInit ==
  /\ GuestInit
  /\ \/ guest = "archives" /\ A!Init
     \/ guest # "archives" /\ ArchivesRest
  /\ \/ guest = "nibs" /\ N!Init
     \/ guest # "nibs" /\ NibsRest
  /\ \/ guest = "times" /\ T!Init
     \/ guest # "times" /\ TimesRest
  /\ \/ guest = "defaults" /\ D!Init
     \/ guest # "defaults" /\ DefaultsRest
  /\ \/ guest = "numbers" /\ V!NumbersInit
     \/ guest # "numbers" /\ NumbersRest
  /\ \/ guest = "bytes" /\ V!DataInit
     \/ guest # "bytes" /\ BytesRest
data_vars == <<archive_vars, nib_vars, time_vars, default_vars, number_vars, bytes_vars>>
DataNext ==
  \/ GuestNext /\ UNCHANGED data_vars
  \/ guest = "archives" /\ A!Next /\ UNCHANGED <<guest, careful, vars, nib_vars, time_vars, default_vars, number_vars, bytes_vars>>
  \/ guest = "nibs" /\ N!Next /\ UNCHANGED <<guest, careful, vars, archive_vars, time_vars, default_vars, number_vars, bytes_vars>>
  \/ guest = "times" /\ T!Next /\ UNCHANGED <<guest, careful, vars, archive_vars, nib_vars, default_vars, number_vars, bytes_vars>>
  \/ guest = "defaults" /\ D!Next /\ UNCHANGED <<guest, careful, vars, archive_vars, nib_vars, time_vars, number_vars, bytes_vars>>
  \/ guest = "numbers" /\ V!NumbersNext /\ UNCHANGED <<guest, careful, vars, archive_vars, nib_vars, time_vars, default_vars, bytes_vars>>
  \/ guest = "bytes" /\ V!DataNext /\ UNCHANGED <<guest, careful, vars, archive_vars, nib_vars, time_vars, default_vars, number_vars>>
DataSpec == DataInit /\ [][DataNext]_<<guest, careful, vars, data_vars>>

\* The objects that archives and nibs describe come back whole: see ArchiveTrue of Archives and
\* NibSound of Nibs
GraphsSound == (guest = "archives" => A!ArchiveTrue) /\ (guest = "nibs" => N!NibSound)

Node(class, val, kids) == [class |-> class, val |-> val, kids |-> kids]
Leaves == {Node("string", "s", <<>>), Node("number", "int", <<>>), Node("number", "longlong", <<>>), Node("thing", "t", <<>>)}
\* o1 is the root; cycles, shared and repeated references, nil
MCGraphs ==
  {("o1" :> Node(c1, "t", k1)) @@ ("o2" :> n2) @@ ("o3" :> n3) @@ ("o4" :> n4) :
     c1 \in {"array", "dict", "thing"}, k1 \in {<<"o2", "o3">>, <<"o2", "o2", "o4">>, <<"nil", "o3">>},
     n2 \in {Node(c, "t", k) : c \in {"array", "thing"}, k \in {<<>>, <<"o3", "o4">>, <<"o4", "nil">>, <<"o1">>, <<"o3", "o3">>}},
     n3 \in Leaves \cup {Node("array", "t", <<"o4">>), Node("thing", "t", <<"o4", "o2">>)}, n4 \in Leaves}

Injective(S, n) == UNION {{s \in [1..k -> S] : \A i, j \in 1..k : i # j => s[i] # s[j]} : k \in 0..n}
Entry(class, val, kids) == [class |-> class, val |-> val, kids |-> kids]
\* 2 is the proxy of the owner, 3 a window with 4, a button, and 5, a custom view; 6 a custom object;
\* 8 to 10 are connections, 11 a string, and 12 to 15 the arrays
MCNibFiles ==
  {<<Entry("root", "", <<12, 13, 14, 15>>), Entry("proxy", "owner", <<11>>), Entry("view", "", <<4, 5>>), Entry("view", "", <<>>),
     Entry("swapper", "view", <<11, 11, 7>>), Entry("swapper", "custom", <<11, 11, 4>>), Entry("view", "", <<>>),
     Entry("outlet", "", <<5, 11, 2>>), Entry("event", "", <<6, 11, 4>>), Entry("outlet", "", <<2, 11, 6>>), Entry("string", "", <<>>),
     Entry("array", "", objs), Entry("array", "", conns), Entry("array", "", <<3>>), Entry("array", "", tops)>> :
   objs \in Injective({2, 3, 5, 6, 7}, 2), conns \in Injective({8, 9, 10}, 3), tops \in {<<3>>, <<2, 6>>, <<5, 6, 3>>}}

\* The ends of a 32 bit time_t, and days before 1970, 2000 and 2037
Date(d, y, m, md, yd, wd) == [day |-> d, year |-> y, mon |-> m, mday |-> md, yday |-> yd, wday |-> wd]
MCStarts == {Date(-24855, 1901, 11, 14, 347, 6), Date(-400, 1968, 10, 27, 331, 3), Date(10900, 1999, 10, 5, 308, 5),
             Date(24400, 2036, 9, 21, 294, 2)}
MCLayouts == {<<"H", ":", "M", ":", "S">>, <<"H", " ", "M">>, <<"a", " ", "d", " ", "b", " ", "Y">>, <<"I", ":", "M", "p", " ", "m">>}

Value(is, v, kids) == [is |-> is, v |-> v, kids |-> kids]
MCValues == {Value("float", -5, <<>>), Value("date", -1, <<>>), Value("array", 0, <<[is |-> "short", v |-> 1], [is |-> "float", v |-> 3]>>)}

Number(is, v) == [is |-> is, v |-> v]
MCWidth == "char" :> 3 @@ "short" :> 4 @@ "ushort" :> 4 @@ "int" :> 5 @@ "uint" :> 5 @@ "longlong" :> 6 @@ "ulonglong" :> 6
MCSamples ==
  {Number("bool", 2), Number("char", -2), Number("char", 2), Number("short", -2), Number("int", -2), Number("int", 2),
   Number("uint", 62), Number("longlong", 62), Number("ulonglong", 126), Number("ushort", 2), Number("longlong", -2),
   Number("float", 2), Number("double", 2), Number("double", 1), Number("double", 400), Number("float", -3), Number("nan", 0)}
=============================================================================
