----------------------------- MODULE GuestFiles -----------------------------
(***************************************************************************)
(* The guest's files: the virtual file system, a tree kept beside the host *)
(* directory it mirrors (fs.rs), the table of file descriptors             *)
(* (libc/posix_io.rs) and the C streams on top of it (libc/stdio.rs).      *)
(* A path is the sequence of its components below the app's home           *)
(* directory, which holds Documents (writeable, on the host) and the app's *)
(* archive (neither).  Of the bytes of a file only their number is kept.   *)
(***************************************************************************)
EXTENDS Integers, Sequences, FiniteSets, FiniteSetTheorems, TLAPS

CONSTANTS
  Names,      \* path components below Documents
  MaxDepth,   \* bound on how many of them a path has
  Inodes,     \* files the host may have at a time
  MaxFds,     \* bound on the length of State::files
  MaxLen,     \* bound on file lengths and offsets
  Streams     \* guest addresses of FILEs

ASSUME FilesAssumption ==
  /\ MaxDepth \in Nat /\ MaxFds \in Nat /\ MaxLen \in Nat \ {0}
  /\ Inodes \cap {"none", "dir"} = {}   \* what else the host can have at a path

VARIABLES
  tree,     \* Fs::root: the kind of node at every path, "none" if there is none,
            \* "fixed_" if it is read-only
  host,     \* the host directory: an inode, "dir" or "none" at every path
  data,     \* the host's files: their length, and is something that was written
            \* through a descriptor not synced yet?
  files,    \* posix_io::State::files: a PosixFileHostObject or Closed
  nfiles,   \* the length of that vector
  streams,  \* stdio::State::file_streams with the FILE's descriptor, or Closed
  panic,    \* where the emulator panicked, or "no"
  careful   \* is this a behaviour of a guest that keeps to what is supported?

fsVars == <<tree, host, data>>
fdVars == <<files, nfiles>>
vars == <<tree, host, data, files, nfiles, streams, panic>>

Documents == <<"Documents">>
ArchiveFile == <<"App", "resource">>
ArchiveLen == 1
Root == <<>>
Paths ==
  {Root, Documents, <<"App">>, ArchiveFile} \cup
  {Documents \o q : q \in UNION {[1 .. n -> Names] : n \in 1 .. MaxDepth}}
parent(p) == SubSeq(p, 1, Len(p) - 1)
Fds == 0 .. MaxFds - 1
Closed == [open |-> FALSE]
EmptyFile == [len |-> 0, dirty |-> FALSE]

(***************************************************************************)
(* The tree, as functions on a system s with fields tree, host and data.   *)
(***************************************************************************)
Sys == [tree |-> tree, host |-> host, data |-> data]
IsDir(s, p) == s.tree[p] \in {"dir", "fixed_dir"}
IsFile(s, p) == s.tree[p] \in {"file", "fixed_file"}
Writeable(s, p) == s.tree[p] = "dir"
Children(s, p) == {c \in Paths : parent(c) = p /\ s.tree[c] # "none"}
OnHost(s, p) == s.host[p] \in Inodes

\* GuestOpenOptions: how the descriptor may be used, and which of O_APPEND,
\* O_CREAT, O_TRUNC and O_EXCL are given
Mode(acc, flags) ==
  [acc |-> acc, append |-> "append" \in flags, create |-> "create" \in flags,
   trunc |-> "trunc" \in flags, excl |-> "excl" \in flags]
Writes(m) == m.acc # "r"

\* A PosixFileHostObject: what it refers to, how the host opened it, and where
\* it stands
NeedsFlush(m) == Writes(m)
Object(kind, inode, m) ==
  [open |-> TRUE, kind |-> kind, inode |-> inode, offset |-> 0,
   readable |-> m.acc # "w", writable |-> Writes(m) \/ m.append, append |-> m.append,
   needs_flush |-> kind = "file" /\ NeedsFlush(m), reached_eof |-> FALSE]
Nameless(kind) == Object(kind, "none", Mode("rw", {}))

\* Files nothing refers to any more
Unused(s) ==
  Inodes \ ({s.host[p] : p \in Paths} \cup {files[fd].inode : fd \in {d \in Fds : files[d].open}})
CanCreate(s, p) == OnHost(s, p) \/ Unused(s) # {}
\* What File::options().create(true) opens: the host's file, or a new one
HostCreates(s, p) == IF OnHost(s, p) THEN s.host[p] ELSE CHOOSE i \in Unused(s) : TRUE
Created(s, p, i) ==
  [tree |-> [s.tree EXCEPT ![p] = "file"], host |-> [s.host EXCEPT ![p] = i],
   data |-> IF OnHost(s, p) THEN s.data ELSE [s.data EXCEPT ![i] = EmptyFile]]
Truncated(s, i, m) ==
  [tree |-> s.tree, host |-> s.host,
   data |-> IF m.trunc THEN [s.data EXCEPT ![i] = [len |-> 0, dirty |-> TRUE]] ELSE s.data]

Refused(s) == [ok |-> FALSE, sys |-> s, object |-> Closed]
Opened(s, object) == [ok |-> TRUE, sys |-> s, object |-> object]

\* Fs::open_with_options: a node that is there, or a new one
open_existing(s, p, m) ==
  CASE s.tree[p] = "file" ->
         Opened(Truncated(s, s.host[p], m), Object("file", s.host[p], m))
    [] s.tree[p] = "fixed_file" ->
         IF Writes(m) \/ m.append THEN Refused(s) ELSE Opened(s, Object("archive", "none", m))
    [] OTHER ->
         IF Writes(m) THEN Refused(s) ELSE Opened(s, Object("dir", "none", m))
open_new(s, p, m) ==
  LET i == HostCreates(s, p)
  IN  Opened(Truncated(Created(s, p, i), i, m), Object("file", i, m))
open_with_options(s, p, m) ==
  IF ~IsDir(s, parent(p)) THEN Refused(s)
  ELSE IF s.tree[p] # "none"
       THEN IF m.create /\ m.excl THEN Refused(s) ELSE open_existing(s, p, m)
       ELSE IF m.create /\ Writeable(s, parent(p)) THEN open_new(s, p, m) ELSE Refused(s)

\* The assertion at its start
OptionsRefused(m) == (m.trunc \/ m.create) /\ ~Writes(m) /\ ~m.append
\* handle_open_err: the host is asked and refuses, because its directory is not
\* as the tree says, or because std::fs refuses to truncate with append
HostRefuses(s, p, m) ==
  /\ IsDir(s, parent(p))
  /\ \/ s.tree[p] = "file" /\ ~(m.create /\ m.excl) /\ (~OnHost(s, p) \/ (m.append /\ m.trunc))
     \/ /\ s.tree[p] = "none" /\ m.create /\ Writeable(s, parent(p))
        /\ s.host[p] = "dir" \/ (m.append /\ m.trunc)

Init ==
  /\ tree = [p \in Paths |-> CASE p = Documents -> "dir"
                               [] p \in {Root, <<"App">>} -> "fixed_dir"
                               [] p = ArchiveFile -> "fixed_file"
                               [] OTHER -> "none"]
  /\ host = [p \in Paths |-> IF p = Documents THEN "dir" ELSE "none"]
  /\ data = [i \in Inodes |-> EmptyFile]
  /\ files = [fd \in Fds |-> Closed] /\ nfiles = 0
  /\ streams = [f \in Streams |-> Closed]
  /\ panic = "no"

Running == panic = "no"
Commit(s) == tree' = s.tree /\ host' = s.host /\ data' = s.data
Panic(site) == panic' = site /\ UNCHANGED <<fsVars, fdVars, streams>>

-----------------------------------------------------------------------------
(***************************************************************************)
(* fs.rs: the operations on the tree.  What returns an error and changes   *)
(* nothing is no step.                                                     *)
(***************************************************************************)
\* Fs::rename.  A missing target is created first; the host moves the file
\* onto it, and the old node goes.
ForRename == Mode("w", {"create", "trunc"})
Target(to) ==
  IF tree[to] = "none" THEN open_with_options(Sys, to, ForRename) ELSE Opened(Sys, Closed)
Renamed(s, from, to) ==
  [tree |-> [s.tree EXCEPT ![from] = "none"],
   host |-> IF from = to THEN s.host ELSE [s.host EXCEPT ![to] = s.host[from], ![from] = "none"],
   data |-> data]
rename(from, to) ==
  /\ Running
  /\ \/ IsDir(Sys, from) /\ Panic("rename_of_a_directory")
     \/ /\ tree[from] = "file" /\ OnHost(Sys, from) /\ CanCreate(Sys, to)
        /\ ~HostRefuses(Sys, to, ForRename)
        /\ \E target \in {Target(to)} :
             /\ target.ok /\ target.sys.tree[to] = "file"
             /\ Commit(Renamed(target.sys, from, to))
        /\ UNCHANGED <<fdVars, streams, panic>>

\* Fs::remove (remove, unlink, -removeItemAtPath:error:)
RemoveAllowed_nonempty(s, p) == s.tree[p] \in {"file", "dir"}
RemoveAllowed(s, p) == s.tree[p] = "file" \/ (s.tree[p] = "dir" /\ Children(s, p) = {})
remove(p) ==
  /\ Running /\ Writeable(Sys, parent(p)) /\ RemoveAllowed(Sys, p)
  /\ tree' = [tree EXCEPT ![p] = "none"] /\ host' = [host EXCEPT ![p] = "none"]
  /\ UNCHANGED <<data, fdVars, streams, panic>>

\* mkdir: Fs::create_dir, whose host call fails if something is there.  The
\* error for a path below a file has no errno and is unimplemented.
mkdir(p) ==
  /\ Running
  /\ \/ IsFile(Sys, parent(p)) /\ Panic("mkdir_below_a_file")
     \/ /\ Writeable(Sys, parent(p)) /\ tree[p] = "none"
        /\ \/ host[p] # "none" /\ Panic("host_I/O_failure")
           \/ /\ host[p] = "none"
              /\ tree' = [tree EXCEPT ![p] = "dir"] /\ host' = [host EXCEPT ![p] = "dir"]
              /\ UNCHANGED <<data, fdVars, streams, panic>>

\* Fs::create_dir_all goes on where something is there already and stops at
\* the first other error, keeping what it has made
DirsMade(s, p) ==
  LET prefix(n) == SubSeq(p, 1, n)
      Missing(n) == s.tree[prefix(n)] = "none"
      Fails(n) == \/ IsFile(s, prefix(n - 1))
                  \/ Missing(n) /\ IsDir(s, prefix(n - 1)) /\ ~Writeable(s, prefix(n - 1))
  IN  {prefix(n) : n \in {n \in 1 .. Len(p) : Missing(n) /\ \A k \in 1 .. n : ~Fails(k)}}
create_dir_all(p) ==
  /\ Running
  /\ \E made \in {DirsMade(Sys, p)} :
       \/ (\E d \in made : host[d] # "none") /\ Panic("host_I/O_failure")
       \/ /\ made # {} /\ \A d \in made : host[d] = "none"
          /\ tree' = [q \in Paths |-> IF q \in made THEN "dir" ELSE tree[q]]
          /\ host' = [q \in Paths |-> IF q \in made THEN "dir" ELSE host[q]]
          /\ UNCHANGED <<data, fdVars, streams, panic>>

\* Fs::write (-writeToFile:atomically:), which uses no descriptor and never syncs
write_file(p, n) ==
  /\ Running /\ CanCreate(Sys, p) /\ ~HostRefuses(Sys, p, ForRename)
  /\ \E r \in {open_with_options(Sys, p, ForRename)} :
       /\ r.ok
       /\ tree' = r.sys.tree /\ host' = r.sys.host
       /\ data' = [r.sys.data EXCEPT ![r.object.inode] =
                     [len |-> n, dirty |-> OnHost(Sys, p) /\ data[r.object.inode].dirty]]
  /\ UNCHANGED <<fdVars, streams, panic>>

-----------------------------------------------------------------------------
(***************************************************************************)
(* libc/posix_io.rs: descriptors.                                          *)
(***************************************************************************)
\* find_or_create_fd: the first empty slot, or a new one at the end
free_fd == CHOOSE fd \in 0 .. nfiles : (fd = nfiles \/ ~files[fd].open)
                                    /\ \A d \in 0 .. fd - 1 : files[d].open
FdAvailable == free_fd < MaxFds
Longer == IF free_fd = nfiles THEN nfiles + 1 ELSE nfiles
find_or_create_fd(object) == files' = [files EXCEPT ![free_fd] = object] /\ nfiles' = Longer

open_panics(p, m) ==
  \/ OptionsRefused(m) /\ Panic("open_options")
  \/ ~OptionsRefused(m) /\ HostRefuses(Sys, p, m) /\ Panic("host_I/O_failure")
\* open_direct succeeds
opens(p, m) ==
  /\ ~OptionsRefused(m) /\ ~HostRefuses(Sys, p, m) /\ FdAvailable /\ CanCreate(Sys, p)
  /\ \E r \in {open_with_options(Sys, p, m)} :
       r.ok /\ Commit(r.sys) /\ find_or_create_fd(r.object)
  /\ UNCHANGED panic
open(p, m) == Running /\ (open_panics(p, m) \/ (opens(p, m) /\ UNCHANGED streams))
open_device(kind) ==
  /\ Running /\ FdAvailable /\ find_or_create_fd(Nameless(kind))
  /\ UNCHANGED <<fsVars, streams, panic>>

\* GuestFile::read: how many bytes k bytes' worth of reading gets, and where it
\* leaves the object
Least(a, b) == IF a <= b THEN a ELSE b
Most(a, b) == IF a >= b THEN a ELSE b
SizeOf(o) == CASE o.kind = "file" -> data[o.inode].len
               [] o.kind = "archive" -> ArchiveLen
               [] OTHER -> 0
BytesRead(o, k) ==
  CASE o.kind = "random" -> k
    [] o.kind \in {"file", "archive"} /\ o.readable -> Most(0, Least(k, SizeOf(o) - o.offset))
    [] OTHER -> 0
ReadFails(o) == o.kind = "dir" \/ ~o.readable
AfterRead(o, k) ==
  IF ReadFails(o) THEN o
  ELSE [o EXCEPT !.offset = IF o.kind \in {"file", "archive"} THEN @ + BytesRead(o, k) ELSE @,
                 !.reached_eof = @ \/ BytesRead(o, k) < k]

\* lseek to an absolute position; only files have one, and a successful seek
\* clears reached_eof
CanSeek(o) == o.kind \in {"file", "archive"}
Sought(o, pos) == [o EXCEPT !.offset = pos, !.reached_eof = FALSE]
SeekTargets(o) == (0 .. MaxLen) \cap {off + base : off \in -MaxLen .. MaxLen, base \in {0, o.offset, SizeOf(o)}}

\* GuestFile::write and set_len
WriteAt(o) == IF o.append THEN SizeOf(o) ELSE o.offset
WriteFails(o) == o.kind = "random" \/ (o.kind = "file" /\ ~o.writable)
WritePanics(o) == o.kind \in {"dir", "archive"}
Written(o, k) ==
  IF o.kind = "file"
  THEN [data EXCEPT ![o.inode] = [len |-> Most(@.len, WriteAt(o) + k), dirty |-> TRUE]]
  ELSE data
AfterWrite(o, k) == IF o.kind = "file" THEN [o EXCEPT !.offset = WriteAt(o) + k] ELSE o
Resized(o, n) == IF o.kind = "file" THEN [data EXCEPT ![o.inode] = [len |-> n, dirty |-> TRUE]] ELSE data
Synced(o, d) ==
  IF o.kind = "file" /\ o.needs_flush THEN [d EXCEPT ![o.inode].dirty = FALSE] ELSE d

OpenFd(fd) == Running /\ fd < nfiles /\ files[fd].open
SetFile(fd, o) == files' = [files EXCEPT ![fd] = o] /\ UNCHANGED nfiles

read(fd, k) ==
  /\ OpenFd(fd) /\ SetFile(fd, AfterRead(files[fd], k))
  /\ UNCHANGED <<fsVars, streams, panic>>
\* pread seeks, reads and seeks back
AfterPread_moved(o, k, pos) == AfterRead(Sought(o, pos), k)
AfterPread(o, k, pos) == Sought(AfterRead(Sought(o, pos), k), o.offset)
pread(fd, k, pos) ==
  /\ OpenFd(fd) /\ CanSeek(files[fd]) /\ SetFile(fd, AfterPread(files[fd], k, pos))
  /\ UNCHANGED <<fsVars, streams, panic>>
write(fd, k) ==
  /\ OpenFd(fd)
  /\ \/ WritePanics(files[fd]) /\ Panic("write_to_a_read-only_file")
     \/ /\ ~WritePanics(files[fd]) /\ ~WriteFails(files[fd]) /\ WriteAt(files[fd]) + k <= MaxLen
        /\ data' = Written(files[fd], k) /\ SetFile(fd, AfterWrite(files[fd], k))
        /\ UNCHANGED <<tree, host, streams, panic>>
\* pwrite likewise; with O_APPEND the host still writes at the end
pwrite(fd, k, pos) ==
  /\ OpenFd(fd) /\ CanSeek(files[fd])
  /\ \/ WritePanics(files[fd]) /\ Panic("write_to_a_read-only_file")
     \/ /\ ~WritePanics(files[fd]) /\ WriteAt(Sought(files[fd], pos)) + k <= MaxLen
        /\ data' = IF WriteFails(files[fd]) THEN data ELSE Written(Sought(files[fd], pos), k)
        /\ SetFile(fd, Sought(files[fd], files[fd].offset))
        /\ UNCHANGED <<tree, host, streams, panic>>
lseek(fd, pos) ==
  /\ OpenFd(fd) /\ CanSeek(files[fd]) /\ pos \in SeekTargets(files[fd])
  /\ SetFile(fd, Sought(files[fd], pos))
  /\ UNCHANGED <<fsVars, streams, panic>>
closes(fd) ==
  /\ data' = Synced(files[fd], data) /\ SetFile(fd, Closed)
  /\ UNCHANGED <<tree, host, panic>>
close(fd) == OpenFd(fd) /\ closes(fd) /\ UNCHANGED streams
fsync(fd) ==
  /\ OpenFd(fd) /\ files[fd].kind = "file"
  /\ data' = [data EXCEPT ![files[fd].inode].dirty = FALSE]
  /\ UNCHANGED <<tree, host, fdVars, streams, panic>>
\* ftruncate unwraps the descriptor
ftruncate(fd, n) ==
  /\ Running
  /\ \/ ~files[fd].open /\ Panic("ftruncate_of_a_closed_descriptor")
     \/ files[fd].open /\ WritePanics(files[fd]) /\ Panic("resize_of_a_read-only_file")
     \/ /\ files[fd].open /\ ~WritePanics(files[fd]) /\ ~WriteFails(files[fd])
        /\ data' = Resized(files[fd], n)
        /\ UNCHANGED <<tree, host, fdVars, streams, panic>>
\* truncate opens for writing, resizes and closes, which syncs
truncate(p, n) ==
  /\ Running /\ tree[p] = "file" /\ OnHost(Sys, p) /\ FdAvailable
  /\ data' = [data EXCEPT ![host[p]] = [len |-> n, dirty |-> FALSE]]
  /\ nfiles' = Longer
  /\ UNCHANGED <<tree, host, files, streams, panic>>
\* fcntl only compares fd with the length of the table before it unwraps; what
\* it sets (open_flags, fd_flags) is only handed back
fcntl(fd) == Running /\ fd < nfiles /\ ~files[fd].open /\ Panic("fcntl_of_a_closed_descriptor")

-----------------------------------------------------------------------------
(***************************************************************************)
(* libc/stdio.rs: streams without a buffer of their own.  ungetc keeps the *)
(* byte in pushbacks and moves the descriptor back by one.  pos is not in  *)
(* the code: it is where the guest stands by the C standard.               *)
(***************************************************************************)
FopenModes ==
  {Mode("r", {}), Mode("rw", {}), Mode("w", {"create", "trunc"}), Mode("rw", {"create", "trunc"}),
   Mode("w", {"append", "create"}), Mode("rw", {"append", "create"})}
fopen(f, p, m) ==
  /\ Running /\ ~streams[f].open /\ m \in FopenModes
  /\ opens(p, m)
  /\ streams' = [streams EXCEPT ![f] = [open |-> TRUE, fd |-> free_fd, pushbacks |-> 0, pos |-> 0]]

OpenStream(f) == Running /\ streams[f].open
FdOf(f) == files[streams[f].fd]
\* The descriptor may have been closed, or replaced, behind the stream's back;
\* where that fails and nothing else happens, Usable is the guard
Usable(f) == OpenStream(f) /\ FdOf(f).open
Pushed(f) == streams[f].pushbacks
SetStream(f, pushbacks, pos) ==
  streams' = [streams EXCEPT ![f].pushbacks = pushbacks, ![f].pos = pos]

\* fread, and fgets, which is fread byte by byte: pushed-back bytes first, for
\* which the descriptor does not move
fread(f, k) ==
  LET back == Least(k, Pushed(f))
      o == FdOf(f)
      got == IF o.open THEN BytesRead(o, k - back) ELSE 0
  IN  /\ OpenStream(f) /\ streams[f].pos + back + got <= MaxLen
      /\ SetFile(streams[f].fd, IF o.open /\ back < k THEN AfterRead(o, k - back) ELSE o)
      /\ SetStream(f, Pushed(f) - back, streams[f].pos + back + got)
      /\ UNCHANGED <<fsVars, panic>>
\* fgetc (getc, __srget) moves the descriptor for a pushed-back byte
fgetc(f) ==
  /\ OpenStream(f)
  /\ \E o \in {FdOf(f)} :
       \/ Pushed(f) > 0 /\ ~(o.open /\ CanSeek(o)) /\ Panic("fgetc_cannot_seek")
       \/ /\ Pushed(f) > 0 /\ o.open /\ CanSeek(o) /\ o.offset < MaxLen
          /\ SetFile(streams[f].fd, Sought(o, o.offset + 1))
          /\ SetStream(f, Pushed(f) - 1, streams[f].pos + 1)
          /\ UNCHANGED <<fsVars, panic>>
       \/ /\ Pushed(f) = 0 /\ o.open /\ streams[f].pos + BytesRead(o, 1) <= MaxLen
          /\ SetFile(streams[f].fd, AfterRead(o, 1))
          /\ SetStream(f, 0, streams[f].pos + BytesRead(o, 1))
          /\ UNCHANGED <<fsVars, panic>>
\* ungetc asserts that there is a byte before the position
ungetc(f) ==
  /\ OpenStream(f)
  /\ \E o \in {FdOf(f)}, before \in {FdOf(f).open /\ CanSeek(FdOf(f)) /\ FdOf(f).offset > 0} :
       \/ ~before /\ Panic("ungetc_cannot_seek_back")
       \/ /\ before /\ Pushed(f) < MaxLen
          /\ SetFile(streams[f].fd, Sought(o, o.offset - 1))
          /\ SetStream(f, Pushed(f) + 1, streams[f].pos - 1)
          /\ UNCHANGED <<fsVars, panic>>
\* fwrite (fputs, fputc, putc)
fwrite(f, k) ==
  LET o == FdOf(f)
  IN  /\ Usable(f) /\ o.kind # "null" /\ ~WriteFails(o)
      /\ \/ WritePanics(o) /\ Panic("write_to_a_read-only_file")
         \/ /\ ~WritePanics(o) /\ WriteAt(o) + k <= MaxLen /\ streams[f].pos + k <= MaxLen
            /\ data' = Written(o, k) /\ SetFile(streams[f].fd, AfterWrite(o, k))
            /\ SetStream(f, Pushed(f), (IF o.append THEN SizeOf(o) ELSE streams[f].pos) + k)
            /\ UNCHANGED <<tree, host, panic>>
\* fseek, fseeko, rewind, fsetpos
fseek(f, pos) ==
  /\ Usable(f) /\ CanSeek(FdOf(f)) /\ pos \in SeekTargets(FdOf(f))
  /\ SetFile(streams[f].fd, Sought(FdOf(f), pos)) /\ SetStream(f, 0, pos)
  /\ UNCHANGED <<fsVars, panic>>
\* ftell and fgetpos seek by nothing
ftell(f) ==
  /\ Usable(f) /\ CanSeek(FdOf(f))
  /\ SetFile(streams[f].fd, Sought(FdOf(f), FdOf(f).offset))
  /\ UNCHANGED <<fsVars, streams, panic>>
\* clearerr, like feof, unwraps the descriptor
clearerr(f) ==
  /\ OpenStream(f)
  /\ \/ ~FdOf(f).open /\ Panic("clearerr_of_a_closed_descriptor")
     \/ /\ FdOf(f).open
        /\ SetFile(streams[f].fd, [FdOf(f) EXCEPT !.reached_eof = FALSE])
        /\ UNCHANGED <<fsVars, streams, panic>>
fclose(f) ==
  /\ OpenStream(f)
  /\ streams' = [streams EXCEPT ![f] = Closed]
  /\ \/ FdOf(f).open /\ closes(streams[f].fd)
     \/ ~FdOf(f).open /\ UNCHANGED <<fsVars, fdVars, panic>>

-----------------------------------------------------------------------------
(***************************************************************************)
(* The guest's calls.  A careful guest moves no file onto itself, asks for *)
(* O_APPEND only to write, moves and closes the descriptors of its streams *)
(* only through them, and reads pushed-back bytes with fgetc.              *)
(***************************************************************************)
Lengths == 0 .. MaxLen
Modes == {Mode(acc, flags) : acc \in {"r", "w", "rw"}, flags \in SUBSET {"append", "create", "trunc", "excl"}}
IsStreams(fd) == \E f \in Streams : streams[f].open /\ streams[f].fd = fd

TreeCall ==
  \/ \E p \in Paths :
       \/ remove(p) \/ mkdir(p) \/ create_dir_all(p)
       \/ \E n \in Lengths : write_file(p, n) \/ truncate(p, n)
  \/ \E p, q \in Paths : p # q /\ rename(p, q)
FdCall ==
  \/ \E p \in Paths, m \in Modes : (m.append => Writes(m)) /\ open(p, m)
  \/ \E kind \in {"null", "random"} : open_device(kind)
  \/ \E fd \in Fds :
       \/ fsync(fd) \/ fcntl(fd)
       \/ ~IsStreams(fd) /\ close(fd)
       \/ \E n \in Lengths :
            \/ ftruncate(fd, n)
            \/ ~IsStreams(fd) /\ (read(fd, n) \/ write(fd, n) \/ lseek(fd, n))
            \/ \E pos \in Lengths : pread(fd, n, pos) \/ pwrite(fd, n, pos)
StreamCall ==
  \E f \in Streams :
    \/ \E p \in Paths, m \in FopenModes : fopen(f, p, m)
    \/ fgetc(f) \/ ungetc(f) \/ ftell(f) \/ clearerr(f) \/ fclose(f)
    \/ \E n \in Lengths : fwrite(f, n) \/ fseek(f, n) \/ (fread(f, n) /\ Pushed(f) = 0)
CarefulCall == TreeCall \/ FdCall \/ StreamCall
CarelessCall ==
  \/ \E p \in Paths : rename(p, p)
  \/ \E p \in Paths, m \in Modes : open(p, m)
  \/ \E fd \in Fds : close(fd) \/ \E n \in Lengths : read(fd, n) \/ write(fd, n) \/ lseek(fd, n)
  \/ \E f \in Streams, n \in Lengths : fread(f, n)

Next == CarefulCall \/ (~careful /\ CarelessCall)
Spec == Init /\ careful \in BOOLEAN /\ [][Next /\ UNCHANGED careful]_<<vars, careful>>

-----------------------------------------------------------------------------
(***************************************************************************)
(* Properties.                                                             *)
(***************************************************************************)
\* Types; slots beyond the end of the vector are empty
TypeOK ==
  /\ \A p \in Paths : /\ tree[p] \in {"none", "file", "dir", "fixed_file", "fixed_dir"}
                      /\ host[p] \in Inodes \cup {"none", "dir"}
  /\ data \in [Inodes -> [len : 0 .. MaxLen, dirty : BOOLEAN]]
  /\ nfiles \in 0 .. MaxFds
  /\ \A fd \in Fds : files[fd].open => fd < nfiles /\ files[fd].offset \in 0 .. MaxLen
  /\ \A f \in Streams : streams[f].open => streams[f].fd \in Fds /\ streams[f].pushbacks \in Nat

\* The tree and the host's directory have the same files and directories below
\* Documents, and every node but the roots has its parent: what handle_open_err
\* relies on.
HostMirrored ==
  \A p \in Paths :
    /\ tree[p] = "file" <=> OnHost(Sys, p)
    /\ tree[p] = "dir" <=> host[p] = "dir"
    /\ tree[p] # "none" => IsDir(Sys, parent(p))

\* What was written through a descriptor is synced once the last descriptor
\* opened for writing is closed (close: "Files must be synced if they require
\* flushing").
WrittenIsSynced ==
  \A i \in Inodes : data[i].dirty =>
    \E fd \in Fds : files[fd].open /\ files[fd].inode = i /\ files[fd].needs_flush

\* An open stream has an open descriptor of its own: find_or_create_fd never
\* gives out a slot in use.
StreamsOwnFds ==
  \A f \in Streams : streams[f].open =>
    /\ files[streams[f].fd].open
    /\ \A g \in Streams \ {f} : streams[g].open => streams[g].fd # streams[f].fd

\* The descriptor stands where the guest stands: ungetc, fgetc, fseek, fwrite
\* and positioned reads leave the next byte the guest gets the right one.
PositionTrue ==
  \A f \in Streams : streams[f].open /\ FdOf(f).open => FdOf(f).offset = streams[f].pos

\* A stream is never at its end while it holds a pushed-back byte: feof is 0
\* after ungetc.
NoEofBeforePushbacks ==
  \A f \in Streams : streams[f].open /\ FdOf(f).open /\ Pushed(f) > 0 => ~FdOf(f).reached_eof

\* The tree mirrors the host for every guest that moves no file onto itself, so handle_open_err
\* never meets the failure it takes for a bug, and what is written only through descriptors
\* opened for writing is synced when they are closed
FilesTrue == TypeOK /\ (careful => HostMirrored /\ WrittenIsSynced)
\* The streams of a guest that leaves closing their descriptors to fclose, reads pushed-back
\* bytes with fgetc and moves a descriptor only through its stream have open descriptors of
\* their own, which stand where they do, and never see feof with a byte pushed back
StreamsTrue == careful => StreamsOwnFds /\ PositionTrue /\ NoEofBeforePushbacks
-----------------------------------------------------------------------------
(***************************************************************************)
(* Proofs: FilesTrue and StreamsTrue for any names, depths, numbers of     *)
(* files, descriptors and streams, whatever the guest calls.               *)
(***************************************************************************)
NodeKinds == {"none", "file", "dir", "fixed_file", "fixed_dir"}
Descriptor ==
  {o \in [open : {TRUE}, kind : {"file", "archive", "dir", "null", "random"}, inode : Inodes \cup {"none"},
          offset : Lengths, readable : BOOLEAN, writable : BOOLEAN, append : BOOLEAN,
          needs_flush : BOOLEAN, reached_eof : BOOLEAN] :
     o.kind = "file" <=> o.inode \in Inodes}
Stream == [open : {TRUE}, fd : Fds, pushbacks : Nat, pos : Int]
FileRecord == [len : Lengths, dirty : BOOLEAN]
TreeTypes == tree \in [Paths -> NodeKinds] /\ host \in [Paths -> Inodes \cup {"none", "dir"}]
DataTypes == data \in [Inodes -> FileRecord]
FdTypes ==
  /\ nfiles \in 0 .. MaxFds
  /\ files \in [Fds -> Descriptor \cup {Closed}]
  /\ \A fd \in Fds : files[fd].open => fd < nfiles
StreamTypes == streams \in [Streams -> Stream \cup {Closed}]
Types == TreeTypes /\ DataTypes /\ FdTypes /\ StreamTypes

\* Nothing moves or removes the home directory
Mirror == tree[Root] = "fixed_dir" /\ HostMirrored
\* Who may write to a file syncs it when it closes it
Flushing == \A fd \in Fds : files[fd].open /\ files[fd].kind = "file" /\ files[fd].writable => files[fd].needs_flush
Flush == Flushing /\ WrittenIsSynced
\* Streams are not opened on /dev/random, which has no position
Positions ==
  \A f \in Streams : streams[f].open /\ FdOf(f).open =>
    /\ FdOf(f).kind # "random"
    /\ FdOf(f).offset = streams[f].pos
    /\ Pushed(f) > 0 => ~FdOf(f).reached_eof
StreamInv == StreamsOwnFds /\ Positions
FilesInv == Types /\ (careful => Mirror /\ Flush /\ StreamInv)

-----------------------------------------------------------------------------
\* A prefix of a sequence as a function.
LEMMA PrefixIs ==
  ASSUME NEW T, NEW s \in Seq(T), NEW n \in 0 .. Len(s)
  PROVE  /\ SubSeq(s, 1, n) = [i \in 1 .. n |-> s[i]]
         /\ SubSeq(s, 1, n) \in Seq(T) /\ Len(SubSeq(s, 1, n)) = n
OBVIOUS

LEMMA ParentOfPrefix ==
  ASSUME NEW T, NEW s \in Seq(T), NEW n \in 1 .. Len(s)
  PROVE  parent(SubSeq(s, 1, n)) = SubSeq(s, 1, n - 1)
<1> DEFINE r == SubSeq(s, 1, n)
<1>1. r = [i \in 1 .. n |-> s[i]] /\ r \in Seq(T) /\ Len(r) = n
  BY PrefixIs
<1>2. SubSeq(r, 1, n - 1) = [i \in 1 .. n - 1 |-> r[i]]
  <2> HIDE DEF r
  <2> QED BY <1>1, PrefixIs
<1>3. SubSeq(s, 1, n - 1) = [i \in 1 .. n - 1 |-> s[i]]
  BY PrefixIs
<1>4. parent(r) = SubSeq(r, 1, n - 1)
  BY <1>1 DEF parent
<1> HIDE DEF r
<1>5. [i \in 1 .. n - 1 |-> r[i]] = [i \in 1 .. n - 1 |-> s[i]]
  BY <1>1
<1>6. parent(r) = SubSeq(s, 1, n - 1)
  BY <1>2, <1>3, <1>4, <1>5, Zenon
<1> QED BY <1>6 DEF r

\* Paths: the prefixes of a path are paths.
LEMMA PathsAre ==
  ASSUME NEW p \in Paths
  PROVE  /\ p \in Seq(Names \cup {"Documents", "App", "resource"})
         /\ \A n \in 0 .. Len(p) : SubSeq(p, 1, n) \in Paths
<1> DEFINE T == Names \cup {"Documents", "App", "resource"}
<1>1. CASE p = Root
  <2>1. SubSeq(p, 1, 0) = <<>> /\ Len(p) = 0
    BY <1>1 DEF Root
  <2> QED BY <2>1, <1>1 DEF Root, Paths
<1>2. CASE p \in {Documents, <<"App">>}
  <2>0. PICK n \in {"Documents", "App"} : p = <<n>>
    BY <1>2 DEF Documents
  <2>1. p \in Seq(T) /\ Len(p) = 1
    BY <2>0
  <2>2. SubSeq(p, 1, 0) = Root /\ SubSeq(p, 1, 1) = p
    BY <1>2 DEF Documents, Root
  <2>3. Root \in Paths
    BY Zenon DEF Paths
  <2>4. 0 .. Len(p) = {0, 1}
    BY <2>1
  <2> QED BY <2>1, <2>2, <2>3, <2>4, Zenon
<1>3. CASE p = ArchiveFile
  <2>1. p \in Seq(T) /\ Len(p) = 2
    BY <1>3 DEF ArchiveFile
  <2>2. SubSeq(p, 1, 0) = Root /\ SubSeq(p, 1, 1) = <<"App">> /\ SubSeq(p, 1, 2) = p
    <3>1. p[1] = "App" /\ p = [i \in 1 .. 2 |-> p[i]]
      BY <1>3 DEF ArchiveFile
    <3>2. SubSeq(p, 1, 2) = [i \in 1 .. 2 |-> p[i]]
      BY <2>1, PrefixIs
    <3>3. SubSeq(p, 1, 1) = [i \in 1 .. 1 |-> p[i]]
      BY <2>1, PrefixIs
    <3>4. SubSeq(p, 1, 0) = [i \in 1 .. 0 |-> p[i]]
      BY <2>1, PrefixIs
    <3>5. [i \in 1 .. 1 |-> p[i]] = <<"App">> /\ [i \in 1 .. 0 |-> p[i]] = Root
      BY <3>1 DEF Root
    <3> QED BY <3>1, <3>2, <3>3, <3>4, <3>5, Zenon
  <2>3. Root \in Paths /\ <<"App">> \in Paths
    BY Zenon DEF Paths
  <2>4. 0 .. Len(p) = {0, 1, 2}
    BY <2>1
  <2> QED BY <2>1, <2>2, <2>3, <2>4, Zenon
<1>4. ASSUME NEW k \in 1 .. MaxDepth, NEW q \in [1 .. k -> Names], p = Documents \o q
      PROVE  p \in Seq(T) /\ \A n \in 0 .. Len(p) : SubSeq(p, 1, n) \in Paths
  <2>1. k \in Nat /\ k >= 1 /\ k <= MaxDepth
    BY FilesAssumption
  <2>2. q \in Seq(Names) /\ Len(q) = k
    BY <2>1
  <2>3. p \in Seq(T) /\ Len(p) = k + 1 /\ p[1] = "Documents" /\ \A i \in 1 .. k : p[i + 1] = q[i]
    BY <2>2, <2>1, <1>4 DEF Documents
  <2>4. ASSUME NEW n \in 0 .. Len(p) PROVE SubSeq(p, 1, n) \in Paths
    <3>1. SubSeq(p, 1, n) = [i \in 1 .. n |-> p[i]]
      BY <2>3, PrefixIs
    <3>2. CASE n = 0
      <4>1. SubSeq(p, 1, n) = Root
        BY <3>1, <3>2 DEF Root
      <4> QED BY <4>1, Zenon DEF Paths
    <3>3. CASE n = 1
      <4>0. [i \in 1 .. 1 |-> p[i]] = <<"Documents">>
        BY <2>3
      <4>1. SubSeq(p, 1, n) = Documents
        BY <3>1, <3>3, <4>0, Zenon DEF Documents
      <4> QED BY <4>1, Zenon DEF Paths
    <3>4. CASE n > 1
      <4> DEFINE u == [i \in 1 .. n - 1 |-> q[i]]
      <4>1. n - 1 \in 1 .. MaxDepth /\ n - 1 \in 1 .. k
        <5>1. n \in 0 .. k + 1
          BY <2>3
        <5> QED BY <3>4, <2>1, <5>1, FilesAssumption
      <4>2. u \in [1 .. n - 1 -> Names]
        BY <4>1
      <4>3. u \in Seq(Names) /\ Len(u) = n - 1
        BY <4>1, <4>2
      <4>4. Documents \o u = [i \in 1 .. n |-> p[i]]
        BY <4>1, <4>3, <2>3 DEF Documents
      <4>5. SubSeq(p, 1, n) = Documents \o u
        BY <3>1, <4>4, Zenon
      <4> HIDE DEF u
      <4> QED BY <4>1, <4>2, <4>5, Zenon DEF Paths
    <3> QED BY <3>2, <3>3, <3>4, <2>3
  <2> QED BY <2>3, <2>4
<1>5. \/ p \in {Root, Documents, <<"App">>, ArchiveFile}
      \/ \E k \in 1 .. MaxDepth : \E q \in [1 .. k -> Names] : p = Documents \o q
  BY Zenon DEF Paths
<1> QED BY <1>1, <1>2, <1>3, <1>4, <1>5, Zenon

\* Each prefix is the parent of the next.
LEMMA PrefixesArePaths ==
  ASSUME NEW p \in Paths
  PROVE  /\ Len(p) \in Nat
         /\ \A n \in 0 .. Len(p) : SubSeq(p, 1, n) \in Paths
         /\ \A n \in 1 .. Len(p) : parent(SubSeq(p, 1, n)) = SubSeq(p, 1, n - 1)
         /\ SubSeq(p, 1, 0) = Root
         /\ Root \in Paths
         /\ parent(p) \in Paths
<1> DEFINE T == Names \cup {"Documents", "App", "resource"}
<1>1. p \in Seq(T) /\ \A n \in 0 .. Len(p) : SubSeq(p, 1, n) \in Paths
  BY PathsAre
<1> HIDE DEF T
<1>2. Len(p) \in Nat /\ SubSeq(p, 1, 0) = Root
  BY <1>1 DEF Root
<1>3. \A n \in 1 .. Len(p) : parent(SubSeq(p, 1, n)) = SubSeq(p, 1, n - 1)
  BY <1>1, ParentOfPrefix
<1>4. Root \in Paths
  BY Zenon DEF Paths
<1>5. parent(p) \in Paths
  <2>1. CASE Len(p) = 0
    <3>1. parent(p) = Root
      BY <2>1, <1>1 DEF parent, Root
    <3> QED BY <3>1, <1>4
  <2>2. CASE Len(p) > 0
    <3>1. Len(p) - 1 \in 0 .. Len(p)
      BY <2>2, <1>2
    <3> QED BY <3>1, <1>1 DEF parent
  <2> QED BY <2>1, <2>2, <1>2
<1> QED BY <1>1, <1>2, <1>3, <1>4, <1>5

\* The modes there are.
LEMMA ModeFields ==
  ASSUME NEW m \in Modes
  PROVE  /\ m.acc \in {"r", "w", "rw"}
         /\ m.append \in BOOLEAN /\ m.create \in BOOLEAN /\ m.trunc \in BOOLEAN /\ m.excl \in BOOLEAN
<1>1. PICK acc \in {"r", "w", "rw"}, flags \in SUBSET {"append", "create", "trunc", "excl"} : m = Mode(acc, flags)
  BY SMT DEF Modes
<1>2. m.acc = acc /\ m.append = ("append" \in flags) /\ m.create = ("create" \in flags)
      /\ m.trunc = ("trunc" \in flags) /\ m.excl = ("excl" \in flags)
  BY <1>1, Zenon DEF Mode
<1> QED BY <1>2

LEMMA ModeIs ==
  ASSUME NEW acc \in {"r", "w", "rw"}, NEW flags \in SUBSET {"append", "create", "trunc", "excl"}
  PROVE  /\ Mode(acc, flags) \in Modes
         /\ Mode(acc, flags).append = ("append" \in flags)
         /\ Writes(Mode(acc, flags)) = (acc # "r")
<1>1. Mode(acc, flags) \in Modes
  BY SMT DEF Modes
<1>2. Mode(acc, flags).append = ("append" \in flags) /\ Mode(acc, flags).acc = acc
  BY Zenon DEF Mode
<1> QED BY <1>1, <1>2, Zenon DEF Writes

LEMMA FopenModesAre ==
  ASSUME NEW m \in FopenModes
  PROVE  m \in Modes /\ (m.append => Writes(m))
<1>1. \/ m = Mode("r", {}) \/ m = Mode("rw", {}) \/ m = Mode("w", {"create", "trunc"})
      \/ m = Mode("rw", {"create", "trunc"}) \/ m = Mode("w", {"append", "create"})
      \/ m = Mode("rw", {"append", "create"})
  BY Zenon DEF FopenModes
<1>2. PICK acc \in {"r", "w", "rw"}, flags \in SUBSET {"append", "create", "trunc", "excl"} :
        m = Mode(acc, flags) /\ ("append" \in flags => acc # "r")
  BY <1>1
<1> QED BY <1>2, ModeIs, Zenon

LEMMA ForRenameIs ==
  /\ ForRename \in Modes /\ Writes(ForRename)
  /\ ~ForRename.append /\ ForRename.create /\ ForRename.trunc /\ ~ForRename.excl
<1>1. ForRename = Mode("w", {"create", "trunc"})
  BY DEF ForRename
<1>2. ForRename \in Modes /\ ForRename.append = ("append" \in {"create", "trunc"}) /\ Writes(ForRename)
  BY <1>1, ModeIs
<1>3. ForRename.create /\ ForRename.trunc /\ ForRename.excl = ("excl" \in {"create", "trunc"})
  BY <1>1 DEF Mode
<1> QED BY <1>2, <1>3

\* A new descriptor stands at the start of what was opened.
LEMMA ObjectIs ==
  ASSUME NEW m \in Modes, NEW kind \in {"file", "archive", "dir", "null", "random"},
         NEW inode \in Inodes \cup {"none"}, kind = "file" <=> inode \in Inodes
  PROVE  /\ Object(kind, inode, m) \in Descriptor
         /\ Object(kind, inode, m).kind = kind /\ Object(kind, inode, m).inode = inode
         /\ Object(kind, inode, m).offset = 0 /\ ~Object(kind, inode, m).reached_eof
         /\ Object(kind, inode, m).open
         /\ Object(kind, inode, m).writable = (Writes(m) \/ m.append)
         /\ Object(kind, inode, m).needs_flush = (kind = "file" /\ Writes(m))
<1> DEFINE o == Object(kind, inode, m)
<1>1. o = [open |-> TRUE, kind |-> kind, inode |-> inode, offset |-> 0,
           readable |-> m.acc # "w", writable |-> Writes(m) \/ m.append, append |-> m.append,
           needs_flush |-> kind = "file" /\ Writes(m), reached_eof |-> FALSE]
  BY DEF Object, NeedsFlush
<1>2. m.append \in BOOLEAN
  BY ModeFields
<1>3. 0 \in Lengths
  BY FilesAssumption DEF Lengths
<1> HIDE DEF o
<1>4. o.kind = kind /\ o.inode = inode /\ o.offset = 0 /\ ~o.reached_eof /\ o.open
  BY <1>1
<1>5. o.writable = (Writes(m) \/ m.append) /\ o.needs_flush = (kind = "file" /\ Writes(m))
  BY <1>1, Zenon
<1>6. o \in [open : {TRUE}, kind : {"file", "archive", "dir", "null", "random"}, inode : Inodes \cup {"none"},
          offset : Lengths, readable : BOOLEAN, writable : BOOLEAN, append : BOOLEAN,
          needs_flush : BOOLEAN, reached_eof : BOOLEAN]
  BY <1>1, <1>2, <1>3, Zenon
<1>7. o \in Descriptor
  BY <1>4, <1>6 DEF Descriptor
<1> QED BY <1>4, <1>5, <1>7 DEF o

-----------------------------------------------------------------------------
\* What a successful open is: something that is no file on the host, or a file
\* i, whose data are then x.  Only who may write truncates.
OpensOther(r, m) ==
  /\ r.sys.tree = tree /\ r.sys.host = host /\ r.sys.data = data
  /\ \E kind \in {"archive", "dir"} : r.object = Object(kind, "none", m)
OpensFile(p, m, r, i, x) ==
  /\ r.object = Object("file", i, m)
  /\ m.trunc => Writes(m)
  /\ r.sys.data = [data EXCEPT ![i] = x]
  /\ x.dirty => m.trunc \/ (OnHost(Sys, p) /\ data[i].dirty)
  /\ \/ r.sys.tree = tree /\ r.sys.host = host /\ tree[p] = "file" /\ host[p] = i
     \/ /\ r.sys.tree = [tree EXCEPT ![p] = "file"] /\ r.sys.host = [host EXCEPT ![p] = i]
        /\ tree[p] = "none" /\ IsDir(Sys, parent(p))
OpensSomething(p, m, r) ==
  OpensOther(r, m) \/ \E i \in Inodes, x \in FileRecord : OpensFile(p, m, r, i, x)

LEMMA OpenedIs ==
  ASSUME NEW s, NEW o
  PROVE  Opened(s, o).sys = s /\ Opened(s, o).object = o
BY DEF Opened

LEMMA TruncatedIs ==
  ASSUME NEW s, NEW i, NEW m
  PROVE  /\ Truncated(s, i, m).tree = s.tree /\ Truncated(s, i, m).host = s.host
         /\ Truncated(s, i, m).data = IF m.trunc THEN [s.data EXCEPT ![i] = [len |-> 0, dirty |-> TRUE]] ELSE s.data
BY DEF Truncated

LEMMA CreatedIs ==
  ASSUME NEW s, NEW p, NEW i
  PROVE  /\ Created(s, p, i).tree = [s.tree EXCEPT ![p] = "file"]
         /\ Created(s, p, i).host = [s.host EXCEPT ![p] = i]
         /\ Created(s, p, i).data = IF OnHost(s, p) THEN s.data ELSE [s.data EXCEPT ![i] = EmptyFile]
BY DEF Created

LEMMA OpenCases ==
  ASSUME TreeTypes, DataTypes, NEW p \in Paths, NEW m \in Modes,
         ~OptionsRefused(m), ~HostRefuses(Sys, p, m), CanCreate(Sys, p),
         NEW r, r = open_with_options(Sys, p, m), r.ok
  PROVE  OpensSomething(p, m, r)
<1> DEFINE cleared == [len |-> 0, dirty |-> TRUE]
<1>1. Sys.tree = tree /\ Sys.host = host /\ Sys.data = data
  BY DEF Sys
<1>2. tree[p] \in NodeKinds /\ host[p] \in Inodes \cup {"none", "dir"}
  BY DEF TreeTypes
<1>3. cleared \in FileRecord /\ cleared.dirty /\ EmptyFile \in FileRecord /\ ~EmptyFile.dirty
  BY FilesAssumption DEF FileRecord, EmptyFile, Lengths
<1>4. m.append \in BOOLEAN /\ m.create \in BOOLEAN /\ m.trunc \in BOOLEAN /\ m.excl \in BOOLEAN
  BY ModeFields
<1>5. ~Refused(Sys).ok
  BY DEF Refused
<1>6. IsDir(Sys, parent(p))
  BY <1>5, Zenon DEF open_with_options
<1>7. CASE tree[p] # "none"
  <2>1. ~(m.create /\ m.excl) /\ r = open_existing(Sys, p, m)
    BY <1>1, <1>5, <1>6, <1>7, Zenon DEF open_with_options
  <2>2. CASE tree[p] = "file"
    <3> DEFINE i == host[p]
    <3>1. OnHost(Sys, p) /\ ~(m.append /\ m.trunc)
      BY <1>1, <1>6, <2>1, <2>2, Zenon DEF HostRefuses
    <3>2. i \in Inodes
      BY <3>1, <1>1 DEF OnHost
    <3> HIDE DEF i
    <3>3. r = Opened(Truncated(Sys, i, m), Object("file", i, m))
      BY <2>1, <2>2, <1>1 DEF open_existing, i
    <3>4. /\ r.object = Object("file", i, m) /\ r.sys.tree = tree /\ r.sys.host = host
          /\ r.sys.data = IF m.trunc THEN [data EXCEPT ![i] = cleared] ELSE data
        <4> DEFINE t == Truncated(Sys, i, m)
      <4>1. t.tree = tree /\ t.host = host /\ t.data = IF m.trunc THEN [data EXCEPT ![i] = cleared] ELSE data
        BY <1>1, TruncatedIs
      <4> HIDE DEF t, cleared
      <4>2. r.sys = t /\ r.object = Object("file", i, m)
        BY <3>3, OpenedIs DEF t
      <4> QED BY <4>1, <4>2
    <3>5. data = [data EXCEPT ![i] = data[i]] /\ data[i] \in FileRecord
      BY <3>2 DEF DataTypes
    <3>6. m.trunc => Writes(m)
      BY <3>1, Zenon DEF OptionsRefused
    <3> HIDE DEF cleared
    <3>7. CASE m.trunc
      <4>1. OpensFile(p, m, r, i, cleared)
        BY <3>7, <3>4, <3>6, <2>2, Zenon DEF OpensFile, i
      <4> QED BY <4>1, <3>2, <1>3, Zenon DEF OpensSomething
    <3>8. CASE ~m.trunc
      <4>1. r.sys.data = [data EXCEPT ![i] = data[i]]
        BY <3>8, <3>4, <3>5, Zenon
      <4>2. OpensFile(p, m, r, i, data[i])
        BY <4>1, <3>1, <3>4, <3>6, <2>2, Zenon DEF OpensFile, i
      <4> QED BY <4>2, <3>2, <3>5, Zenon DEF OpensSomething
    <3> QED BY <3>7, <3>8
  <2>3. CASE tree[p] # "file"
    <3>1. r = Opened(Sys, Object("archive", "none", m)) \/ r = Opened(Sys, Object("dir", "none", m))
      <4>1. CASE tree[p] = "fixed_file"
        <5>1. open_existing(Sys, p, m) =
                IF Writes(m) \/ m.append THEN Refused(Sys) ELSE Opened(Sys, Object("archive", "none", m))
          BY <4>1, <1>1 DEF open_existing
        <5> QED BY <5>1, <2>1, <1>5, Zenon
      <4>2. CASE tree[p] # "fixed_file"
        <5>1. open_existing(Sys, p, m) =
                IF Writes(m) THEN Refused(Sys) ELSE Opened(Sys, Object("dir", "none", m))
          BY <4>2, <2>3, <1>1 DEF open_existing
        <5> QED BY <5>1, <2>1, <1>5, Zenon
      <4> QED BY <4>1, <4>2
    <3>2. PICK kind \in {"archive", "dir"} : r = Opened(Sys, Object(kind, "none", m))
      BY <3>1, Zenon
    <3>3. r.sys = Sys /\ r.object = Object(kind, "none", m)
      BY <3>2, OpenedIs
    <3> QED BY <3>3, <1>1, Zenon DEF OpensOther, OpensSomething
  <2> QED BY <2>2, <2>3
<1>8. CASE tree[p] = "none"
  <2>1. m.create /\ Writeable(Sys, parent(p)) /\ r = open_new(Sys, p, m)
    BY <1>1, <1>5, <1>6, <1>8, Zenon DEF open_with_options
  <2>2. host[p] # "dir" /\ ~(m.append /\ m.trunc)
    BY <1>1, <1>6, <1>8, <2>1, Zenon DEF HostRefuses
  <2> DEFINE i == HostCreates(Sys, p)
  <2>3. i \in Inodes /\ (OnHost(Sys, p) => i = host[p])
    <3>1. CASE OnHost(Sys, p)
      BY <3>1, <1>1 DEF HostCreates, OnHost
    <3>2. CASE ~OnHost(Sys, p)
      <4>1. Unused(Sys) # {} /\ Unused(Sys) \subseteq Inodes
        BY <3>2, Zenon DEF CanCreate, Unused
      <4>2. i = CHOOSE j \in Unused(Sys) : TRUE
        BY <3>2, Zenon DEF HostCreates
      <4>3. (CHOOSE j \in Unused(Sys) : TRUE) \in Unused(Sys)
        BY <4>1, Zenon
      <4> QED BY <3>2, <4>1, <4>2, <4>3, Zenon
    <3> QED BY <3>1, <3>2
  <2> DEFINE old == IF OnHost(Sys, p) THEN data ELSE [data EXCEPT ![i] = EmptyFile]
             x == IF m.trunc THEN cleared ELSE old[i]
  <2>4. r = Opened(Truncated(Created(Sys, p, i), i, m), Object("file", i, m))
    BY <2>1, Zenon DEF open_new
  <2> HIDE DEF i, cleared
  <2>5. /\ r.object = Object("file", i, m)
        /\ r.sys.tree = [tree EXCEPT ![p] = "file"] /\ r.sys.host = [host EXCEPT ![p] = i]
        /\ r.sys.data = IF m.trunc THEN [old EXCEPT ![i] = cleared] ELSE old
    <3> DEFINE c == Created(Sys, p, i)
               t == Truncated(c, i, m)
    <3>1. c.tree = [tree EXCEPT ![p] = "file"] /\ c.host = [host EXCEPT ![p] = i] /\ c.data = old
      BY <1>1, CreatedIs
    <3> HIDE DEF c
    <3>2. t.tree = c.tree /\ t.host = c.host /\ t.data = IF m.trunc THEN [c.data EXCEPT ![i] = cleared] ELSE c.data
      BY TruncatedIs DEF cleared
    <3> HIDE DEF t
    <3>3. r.sys = t /\ r.object = Object("file", i, m)
      BY <2>4, OpenedIs DEF t, c
    <3> HIDE DEF old
    <3> QED BY <3>1, <3>2, <3>3
  <2>6. x \in FileRecord /\ (x.dirty => m.trunc \/ (OnHost(Sys, p) /\ data[i].dirty))
    BY <1>3, <2>3 DEF DataTypes
  <2>7. r.sys.data = [data EXCEPT ![i] = x]
    BY <2>5, <2>3 DEF DataTypes
  <2>8. m.trunc => Writes(m)
    BY <2>2, Zenon DEF OptionsRefused
  <2> HIDE DEF x, old
  <2>9. OpensFile(p, m, r, i, x)
    BY <2>5, <2>6, <2>7, <2>8, <1>6, <1>8, Zenon DEF OpensFile
  <2> QED BY <2>9, <2>3, <2>6, Zenon DEF OpensSomething
<1> QED BY <1>7, <1>8

-----------------------------------------------------------------------------
\* A non-empty set of numbers has a least one: sets of numbers up to some x
\* have no endless descent.
LEMMA LeastExists ==
  ASSUME NEW S, S \subseteq Nat, S # {}
  PROVE  \E x \in S : \A y \in S : x <= y
<1>1. PICK a \in S : TRUE
  OBVIOUS
<1> DEFINE T == {0 .. x : x \in {y \in S : y <= a}}
<1>2. T \subseteq SUBSET (0 .. a) /\ T # {}
  BY <1>1, SMT
<1>3. IsWellFoundedOn(StrictSubsetOrdering(0 .. a), SUBSET (0 .. a))
  <2>1. IsFiniteSet(0 .. a)
    BY <1>1, FS_Interval, SMT
  <2>2. FiniteSubsetsOf(0 .. a) = SUBSET (0 .. a)
    BY <2>1, FS_FiniteSubsetsOfFinite, Zenon
  <2>3. IsWellFoundedOn(StrictSubsetOrdering(0 .. a), FiniteSubsetsOf(0 .. a))
    BY FS_StrictSubsetOrderingWellFounded, Zenon
  <2> QED BY <2>2, <2>3, Zenon
<1> HIDE DEF T
<1>4. \E x \in T : \A y \in T : ~(<<y, x>> \in StrictSubsetOrdering(0 .. a))
  BY <1>2, <1>3, WFMin, Zenon
<1>5. PICK m \in S : m <= a /\ \A y \in T : ~(<<y, 0 .. m>> \in StrictSubsetOrdering(0 .. a))
  BY <1>4 DEF T
<1>6. ASSUME NEW y \in S PROVE m <= y
  <2>1. CASE y > a
    BY <2>1, <1>1, <1>5
  <2>2. CASE y <= a
    <3>1. 0 .. y \in T /\ 0 .. m \in T
      BY <2>2, <1>5 DEF T
    <3>2. ~(0 .. y \subseteq 0 .. m /\ 0 .. y # 0 .. m)
      BY <3>1, <1>5, <1>2, Zenon DEF StrictSubsetOrdering
    <3> QED BY <3>2, <1>1, SMT
  <2> QED BY <2>1, <2>2, <1>1, SMT
<1> QED BY <1>6

\* find_or_create_fd gives out a slot that nobody uses.
LEMMA FreeFdIs ==
  ASSUME FdTypes, FdAvailable
  PROVE  /\ free_fd \in Fds /\ ~files[free_fd].open
         /\ Longer \in 0 .. MaxFds /\ free_fd < Longer /\ nfiles <= Longer
<1> DEFINE S == {fd \in 0 .. nfiles : fd = nfiles \/ ~files[fd].open}
           Free(fd) == (fd = nfiles \/ ~files[fd].open) /\ \A d \in 0 .. fd - 1 : files[d].open
<1>1. nfiles \in Nat /\ nfiles <= MaxFds /\ MaxFds \in Nat
  BY FilesAssumption DEF FdTypes
<1>2. S \subseteq Nat /\ S # {}
  <2>1. nfiles \in S
    BY <1>1
  <2> QED BY <2>1, <1>1
<1>3. PICK x \in S : \A y \in S : x <= y
  <2> HIDE DEF S
  <2> QED BY <1>2, LeastExists
<1>4. x \in 0 .. nfiles /\ Free(x)
  <2>1. ASSUME NEW d \in 0 .. x - 1 PROVE files[d].open
    <3>1. d \in 0 .. nfiles /\ ~(x <= d)
      BY <1>1
    <3>2. d \notin S
      BY <1>3, <3>1
    <3> QED BY <3>1, <3>2
  <2> QED BY <2>1
<1>5. free_fd = CHOOSE fd \in 0 .. nfiles : Free(fd)
  BY DEF free_fd
<1>6. free_fd \in 0 .. nfiles /\ (free_fd = nfiles \/ ~files[free_fd].open)
  <2>1. free_fd \in 0 .. nfiles /\ Free(free_fd)
    <3> HIDE DEF Free
    <3> QED BY <1>4, <1>5
  <2> QED BY <2>1
<1>7. free_fd \in Fds
  BY <1>1, <1>6 DEF FdAvailable, Fds
<1>8. ~files[free_fd].open
  BY <1>1, <1>6, <1>7 DEF FdTypes
<1>9. Longer \in 0 .. MaxFds /\ free_fd < Longer /\ nfiles <= Longer
  BY <1>1, <1>6 DEF Longer, FdAvailable
<1> QED BY <1>7, <1>8, <1>9

LEMMA OpenedFdTypes ==
  ASSUME FdTypes, FdAvailable, NEW o \in Descriptor, find_or_create_fd(o)
  PROVE  FdTypes'
<1>1. /\ free_fd \in Fds /\ Longer \in 0 .. MaxFds /\ free_fd < Longer /\ nfiles <= Longer
  BY FreeFdIs
<1> DEFINE n == free_fd
<1>2. files' = [files EXCEPT ![n] = o] /\ nfiles' = Longer
  BY DEF find_or_create_fd
<1> HIDE DEF n
<1>3. files' \in [Fds -> Descriptor \cup {Closed}]
  BY <1>2 DEF FdTypes
<1>4. ASSUME NEW fd \in Fds, files'[fd].open PROVE fd < nfiles'
  <2>1. fd \in Nat /\ nfiles \in Nat /\ Longer \in Nat
    BY <1>1 DEF Fds, FdTypes
  <2>2. CASE fd = n
    BY <2>2, <1>1, <1>2 DEF n
  <2>3. CASE fd # n
    <3>1. files'[fd] = files[fd]
      BY <2>3, <1>2 DEF FdTypes
    <3> QED BY <3>1, <2>1, <1>1, <1>2, <1>4 DEF FdTypes
  <2> QED BY <2>2, <2>3
<1> QED BY <1>1, <1>2, <1>3, <1>4 DEF FdTypes

LEMMA SetFdTypes ==
  ASSUME FdTypes, NEW fd \in Fds, NEW o \in Descriptor \cup {Closed}, o.open => fd < nfiles,
         SetFile(fd, o)
  PROVE  FdTypes'
<1>1. files' = [files EXCEPT ![fd] = o] /\ nfiles' = nfiles
  BY DEF SetFile
<1>2. files' \in [Fds -> Descriptor \cup {Closed}]
  BY <1>1 DEF FdTypes
<1>3. ASSUME NEW d \in Fds, files'[d].open PROVE d < nfiles'
  BY <1>1, <1>3 DEF FdTypes
<1> QED BY <1>1, <1>2, <1>3 DEF FdTypes

\* What the calls make of a descriptor: they move it and note its end.
SameFile(o, q) ==
  /\ q.open = o.open /\ q.kind = o.kind /\ q.inode = o.inode
  /\ q.writable = o.writable /\ q.needs_flush = o.needs_flush
MovedTo(o, q, pos) == q \in Descriptor /\ SameFile(o, q) /\ q.offset = pos
LEMMA MovedDescriptor ==
  ASSUME NEW o \in Descriptor, NEW pos \in Lengths
  PROVE  /\ MovedTo(o, [o EXCEPT !.offset = pos, !.reached_eof = TRUE], pos)
         /\ MovedTo(o, [o EXCEPT !.offset = pos, !.reached_eof = FALSE], pos)
         /\ ~[o EXCEPT !.offset = pos, !.reached_eof = FALSE].reached_eof
<1> DEFINE o1 == [o EXCEPT !.offset = pos]
<1>1. o1 \in Descriptor /\ SameFile(o, o1) /\ o1.offset = pos
  BY DEF Descriptor, SameFile
<1> HIDE DEF o1
<1>2. ASSUME NEW q, NEW eof \in {TRUE, FALSE}, q = [o1 EXCEPT !.reached_eof = eof]
      PROVE  MovedTo(o, q, pos) /\ (eof = FALSE => ~q.reached_eof)
  <2>1. CASE eof = TRUE
    BY <1>1, <1>2, <2>1 DEF Descriptor, SameFile, MovedTo
  <2>2. CASE eof = FALSE
    BY <1>1, <1>2, <2>2 DEF Descriptor, SameFile, MovedTo
  <2> QED BY <2>1, <2>2
<1>3. /\ [o EXCEPT !.offset = pos, !.reached_eof = TRUE] = [o1 EXCEPT !.reached_eof = TRUE]
      /\ [o EXCEPT !.offset = pos, !.reached_eof = FALSE] = [o1 EXCEPT !.reached_eof = FALSE]
  BY DEF o1
<1> QED BY <1>2, <1>3, Zenon

LEMMA SoughtIs ==
  ASSUME NEW o \in Descriptor, NEW pos \in Lengths
  PROVE  /\ Sought(o, pos) \in Descriptor /\ SameFile(o, Sought(o, pos))
         /\ Sought(o, pos).offset = pos /\ Sought(o, pos).reached_eof = FALSE
<1>1. Sought(o, pos) = [o EXCEPT !.offset = pos, !.reached_eof = FALSE]
  BY DEF Sought
<1>2. MovedTo(o, Sought(o, pos), pos) /\ ~Sought(o, pos).reached_eof
  BY <1>1, MovedDescriptor, Zenon
<1>3. Sought(o, pos).reached_eof \in BOOLEAN
  BY <1>2 DEF MovedTo, Descriptor
<1> QED BY <1>2, <1>3 DEF MovedTo

LEMMA SizeIs ==
  ASSUME DataTypes, NEW o \in Descriptor
  PROVE  SizeOf(o) \in Lengths
<1>1. o.kind = "file" => data[o.inode].len \in Lengths
  BY DEF DataTypes, FileRecord, Descriptor
<1>2. 0 \in Lengths /\ 1 \in Lengths
  BY FilesAssumption DEF Lengths
<1> QED BY <1>1, <1>2 DEF SizeOf, ArchiveLen

LEMMA BytesReadIs ==
  ASSUME DataTypes, NEW o \in Descriptor, NEW k \in Nat
  PROVE  /\ BytesRead(o, k) \in Nat
         /\ o.kind \in {"file", "archive"} => o.offset + BytesRead(o, k) \in Lengths
         /\ o.kind \in {"dir", "null"} => BytesRead(o, k) = 0
         /\ ~o.readable /\ o.kind # "random" => BytesRead(o, k) = 0
<1>1. o.offset \in Lengths /\ SizeOf(o) \in Lengths /\ o.readable \in BOOLEAN
  BY SizeIs DEF Descriptor
<1>2. o.kind \in {"file", "archive"} /\ o.readable =>
        BytesRead(o, k) = Most(0, Least(k, SizeOf(o) - o.offset))
  BY DEF BytesRead
<1>3. o.kind \in {"dir", "null"} \/ (o.kind \in {"file", "archive"} /\ ~o.readable) => BytesRead(o, k) = 0
  BY DEF BytesRead
<1>4. o.kind = "random" => BytesRead(o, k) = k
  BY DEF BytesRead
<1>5. Most(0, Least(k, SizeOf(o) - o.offset)) \in Nat
      /\ o.offset + Most(0, Least(k, SizeOf(o) - o.offset)) \in Lengths
  BY <1>1, FilesAssumption DEF Lengths, Most, Least
<1>6. o.kind \in {"file", "archive", "dir", "null", "random"}
  BY DEF Descriptor
<1>7. o.offset \in Int /\ o.offset + 0 = o.offset
  BY <1>1, FilesAssumption DEF Lengths
<1> QED BY <1>1, <1>2, <1>3, <1>4, <1>5, <1>6, <1>7

LEMMA AfterReadIs ==
  ASSUME DataTypes, NEW o \in Descriptor, NEW k \in Nat
  PROVE  /\ AfterRead(o, k) \in Descriptor /\ SameFile(o, AfterRead(o, k))
         /\ o.kind # "random" => AfterRead(o, k).offset = o.offset + BytesRead(o, k)
<1>1. /\ BytesRead(o, k) \in Nat
      /\ o.kind \in {"file", "archive"} => o.offset + BytesRead(o, k) \in Lengths
      /\ o.kind \in {"dir", "null"} => BytesRead(o, k) = 0
      /\ ~o.readable /\ o.kind # "random" => BytesRead(o, k) = 0
  BY BytesReadIs
<1>2. o.offset \in Lengths /\ o.offset \in Int /\ o.reached_eof \in BOOLEAN
      /\ o.kind \in {"file", "archive", "dir", "null", "random"}
  BY FilesAssumption DEF Descriptor, Lengths
<1>3. CASE ReadFails(o)
  <2>1. AfterRead(o, k) = o
    BY <1>3 DEF AfterRead
  <2>2. o.kind # "random" => BytesRead(o, k) = 0
    BY <1>1, <1>3 DEF ReadFails
  <2> QED BY <2>1, <2>2, <1>2 DEF SameFile
<1>4. CASE ~ReadFails(o)
  <2> DEFINE pos == IF o.kind \in {"file", "archive"} THEN o.offset + BytesRead(o, k) ELSE o.offset
             eof == o.reached_eof \/ BytesRead(o, k) < k
  <2>1. AfterRead(o, k) = [o EXCEPT !.offset = pos, !.reached_eof = eof]
    BY <1>4 DEF AfterRead
  <2>2. pos \in Lengths /\ eof \in BOOLEAN
    BY <1>1, <1>2
  <2>3. o.kind # "random" => pos = o.offset + BytesRead(o, k)
    BY <1>1, <1>2
  <2>4. PICK at \in Lengths, end \in BOOLEAN :
          /\ AfterRead(o, k) = [o EXCEPT !.offset = at, !.reached_eof = end]
          /\ o.kind # "random" => at = o.offset + BytesRead(o, k)
    BY <2>1, <2>2, <2>3, Zenon
  <2>5. MovedTo(o, AfterRead(o, k), at)
    BY <2>4, MovedDescriptor, Zenon
  <2> QED BY <2>4, <2>5 DEF MovedTo
<1> QED BY <1>3, <1>4

LEMMA AfterWriteIs ==
  ASSUME DataTypes, NEW o \in Descriptor, NEW k \in Nat, WriteAt(o) + k <= MaxLen
  PROVE  /\ WriteAt(o) \in Lengths /\ WriteAt(o) + k \in Lengths
         /\ AfterWrite(o, k) \in Descriptor /\ SameFile(o, AfterWrite(o, k))
         /\ AfterWrite(o, k).offset = IF o.kind = "file" THEN WriteAt(o) + k ELSE o.offset
         /\ AfterWrite(o, k).reached_eof = o.reached_eof
<1>1. WriteAt(o) \in Lengths
  BY SizeIs DEF WriteAt, Descriptor
<1>2. WriteAt(o) + k \in Lengths
  BY <1>1, FilesAssumption DEF Lengths
<1> DEFINE w == WriteAt(o) + k
<1>3. AfterWrite(o, k) = IF o.kind = "file" THEN [o EXCEPT !.offset = w] ELSE o
  BY DEF AfterWrite
<1>4. w \in Lengths
  BY <1>2
<1> HIDE DEF w
<1>5. [o EXCEPT !.offset = w] \in Descriptor /\ SameFile(o, [o EXCEPT !.offset = w])
      /\ [o EXCEPT !.offset = w].offset = w
  BY <1>4 DEF Descriptor, SameFile
<1>6. [o EXCEPT !.offset = w].reached_eof = o.reached_eof
  BY DEF Descriptor
<1>7. SameFile(o, o)
  BY DEF SameFile
<1>8. /\ AfterWrite(o, k) \in Descriptor /\ SameFile(o, AfterWrite(o, k))
      /\ AfterWrite(o, k).offset = IF o.kind = "file" THEN w ELSE o.offset
  BY <1>3, <1>5, <1>7
<1>9. AfterWrite(o, k).reached_eof = o.reached_eof
  BY <1>3, <1>6
<1> QED BY <1>1, <1>2, <1>8, <1>9 DEF w

-----------------------------------------------------------------------------
\* A stream that has moved.
LEMMA SetStreamIs ==
  ASSUME StreamTypes, NEW f \in Streams, streams[f].open, NEW n \in Nat, NEW pos \in Int,
         SetStream(f, n, pos)
  PROVE  /\ StreamTypes'
         /\ streams'[f].open /\ streams'[f].fd = streams[f].fd
         /\ streams'[f].pushbacks = n /\ streams'[f].pos = pos
         /\ \A g \in Streams \ {f} : streams'[g] = streams[g]
<1> DEFINE s1 == [streams EXCEPT ![f].pushbacks = n]
<1>1. streams[f] \in Stream
  <2>1. ~Closed.open
    BY DEF Closed
  <2> QED BY <2>1 DEF StreamTypes
<1>2. /\ s1 \in [Streams -> Stream \cup {Closed}] /\ s1[f] \in Stream
      /\ s1[f].fd = streams[f].fd /\ s1[f].pushbacks = n
      /\ \A g \in Streams \ {f} : s1[g] = streams[g]
  BY <1>1 DEF StreamTypes, Stream
<1>3. streams' = [s1 EXCEPT ![f].pos = pos]
  BY <1>1 DEF SetStream, StreamTypes, Stream
<1> HIDE DEF s1
<1>4. /\ streams' \in [Streams -> Stream \cup {Closed}] /\ streams'[f] \in Stream
      /\ streams'[f].fd = s1[f].fd /\ streams'[f].pushbacks = s1[f].pushbacks /\ streams'[f].pos = pos
      /\ \A g \in Streams \ {f} : streams'[g] = s1[g]
  BY <1>2, <1>3 DEF Stream
<1>5. streams'[f].open
  BY <1>4 DEF Stream
<1> QED BY <1>2, <1>4, <1>5 DEF StreamTypes

LEMMA IsDescriptor ==
  ASSUME FdTypes, NEW fd \in Fds, files[fd].open
  PROVE  files[fd] \in Descriptor
<1>1. ~Closed.open
  BY DEF Closed
<1> QED BY <1>1 DEF FdTypes

LEMMA IsStream ==
  ASSUME StreamTypes, NEW f \in Streams, streams[f].open
  PROVE  /\ streams[f] \in Stream /\ streams[f].fd \in Fds
         /\ Pushed(f) \in Nat /\ streams[f].pos \in Int
<1>1. ~Closed.open
  BY DEF Closed
<1>2. streams[f] \in Stream
  BY <1>1 DEF StreamTypes
<1> QED BY <1>2 DEF Stream, Pushed

-----------------------------------------------------------------------------
\* What the calls that write do to the data.
LEMMA WrittenIs ==
  ASSUME DataTypes, NEW o \in Descriptor, NEW k \in Nat, WriteAt(o) + k <= MaxLen
  PROVE  /\ Written(o, k) \in [Inodes -> FileRecord]
         /\ \A i \in Inodes : Written(o, k)[i].dirty => data[i].dirty \/ (o.kind = "file" /\ i = o.inode)
<1> DEFINE i == o.inode
           x == [len |-> Most(data[i].len, WriteAt(o) + k), dirty |-> TRUE]
<1>1. CASE o.kind = "file"
  <2>1. i \in Inodes
    BY <1>1 DEF Descriptor
  <2>2. WriteAt(o) + k \in Lengths
    BY AfterWriteIs
  <2>3. data[i].len \in Lengths
    BY <2>1 DEF DataTypes, FileRecord
  <2>4. Most(data[i].len, WriteAt(o) + k) \in Lengths
    BY <2>2, <2>3 DEF Most
  <2>5. x \in FileRecord
    BY <2>4 DEF FileRecord
  <2>6. Written(o, k) = [data EXCEPT ![i] = x]
    BY <1>1 DEF Written
  <2> HIDE DEF x
  <2> QED BY <1>1, <2>1, <2>5, <2>6 DEF DataTypes
<1>2. CASE o.kind # "file"
  BY <1>2 DEF Written, DataTypes
<1> QED BY <1>1, <1>2

LEMMA ResizedIs ==
  ASSUME DataTypes, NEW o \in Descriptor, NEW n \in Lengths
  PROVE  /\ Resized(o, n) \in [Inodes -> FileRecord]
         /\ \A i \in Inodes : Resized(o, n)[i].dirty => data[i].dirty \/ (o.kind = "file" /\ i = o.inode)
<1>1. CASE o.kind = "file"
  <2>1. o.inode \in Inodes /\ [len |-> n, dirty |-> TRUE] \in FileRecord
    BY <1>1 DEF Descriptor, FileRecord
  <2> QED BY <1>1, <2>1 DEF Resized, DataTypes
<1>2. CASE o.kind # "file"
  BY <1>2 DEF Resized, DataTypes
<1> QED BY <1>1, <1>2

LEMMA SyncedIs ==
  ASSUME DataTypes, NEW o \in Descriptor
  PROVE  /\ Synced(o, data) \in [Inodes -> FileRecord]
         /\ \A i \in Inodes : Synced(o, data)[i].dirty =>
              data[i].dirty /\ ~(o.kind = "file" /\ o.needs_flush /\ i = o.inode)
<1>1. CASE o.kind = "file" /\ o.needs_flush
  <2>1. o.inode \in Inodes
    BY <1>1 DEF Descriptor
  <2> QED BY <1>1, <2>1 DEF Synced, DataTypes, FileRecord
<1>2. CASE ~(o.kind = "file" /\ o.needs_flush)
  <2>1. Synced(o, data) = data
    BY <1>2 DEF Synced
  <2> QED BY <1>2, <2>1 DEF DataTypes
<1> QED BY <1>1, <1>2

-----------------------------------------------------------------------------
\* Calls that leave a part alone keep what is said of it.
LEMMA TreeKept ==
  ASSUME UNCHANGED <<tree, host>>
  PROVE  (TreeTypes => TreeTypes') /\ (Mirror => Mirror')
BY DEF TreeTypes, Mirror, HostMirrored, OnHost, IsDir, Sys

LEMMA StreamsKept ==
  ASSUME UNCHANGED <<files, streams>>
  PROVE  StreamInv => StreamInv'
BY DEF StreamInv, StreamsOwnFds, Positions, FdOf, Pushed

LEMMA FlushKept ==
  ASSUME Flush, UNCHANGED files,
         \A i \in Inodes : data'[i].dirty =>
           data[i].dirty \/ \E fd \in Fds : files[fd].open /\ files[fd].inode = i /\ files[fd].needs_flush
  PROVE  Flush'
BY DEF Flush, Flushing, WrittenIsSynced

LEMMA NothingKept ==
  ASSUME Types, UNCHANGED <<fsVars, fdVars, streams>>
  PROVE  Types' /\ (Mirror => Mirror') /\ (Flush => Flush') /\ (StreamInv => StreamInv')
<1>1. UNCHANGED <<tree, host, data, files, nfiles, streams>>
  BY DEF fsVars, fdVars
<1>2. Types'
  BY <1>1 DEF Types, TreeTypes, DataTypes, FdTypes, StreamTypes
<1>3. Flush => Flush'
  BY <1>1, FlushKept
<1> QED BY <1>1, <1>2, <1>3, TreeKept, StreamsKept

-----------------------------------------------------------------------------
\* Who may write to a file syncs it, and still does when the descriptor has
\* moved.
LEMMA MovedFlush ==
  ASSUME FdTypes, NEW fd \in Fds, files[fd].open, NEW q \in Descriptor, SameFile(files[fd], q),
         files' = [files EXCEPT ![fd] = q], Flush,
         \A i \in Inodes : data'[i].dirty =>
           data[i].dirty \/ (files[fd].kind = "file" /\ files[fd].writable /\ i = files[fd].inode)
  PROVE  Flush'
<1>1. /\ files'[fd] = q /\ \A d \in Fds \ {fd} : files'[d] = files[d]
  BY DEF FdTypes
<1>2. \A d \in Fds : /\ files'[d].open = files[d].open /\ files'[d].kind = files[d].kind
                     /\ files'[d].inode = files[d].inode /\ files'[d].writable = files[d].writable
                     /\ files'[d].needs_flush = files[d].needs_flush
  BY <1>1, Zenon DEF SameFile
<1>3. Flushing'
  BY <1>2 DEF Flush, Flushing
<1>4. ASSUME NEW i \in Inodes, data'[i].dirty
      PROVE  \E d \in Fds : files'[d].open /\ files'[d].inode = i /\ files'[d].needs_flush
  <2>1. CASE data[i].dirty
    <3>1. PICK d \in Fds : files[d].open /\ files[d].inode = i /\ files[d].needs_flush
      BY <2>1 DEF Flush, WrittenIsSynced
    <3> QED BY <3>1, <1>2, Zenon
  <2>2. CASE files[fd].kind = "file" /\ files[fd].writable /\ i = files[fd].inode
    <3>1. files[fd].needs_flush
      BY <2>2, Zenon DEF Flush, Flushing
    <3> QED BY <3>1, <2>2, <1>2, Zenon
  <2> QED BY <1>4, <2>1, <2>2
<1> QED BY <1>3, <1>4, Zenon DEF Flush, WrittenIsSynced

LEMMA OpenedFlush ==
  ASSUME FdTypes, NEW fd \in Fds, ~files[fd].open, NEW o \in Descriptor,
         files' = [files EXCEPT ![fd] = o], Flush,
         o.kind = "file" /\ o.writable => o.needs_flush,
         \A i \in Inodes : data'[i].dirty => data[i].dirty \/ (o.needs_flush /\ i = o.inode)
  PROVE  Flush'
<1>1. /\ files'[fd] = o /\ \A d \in Fds \ {fd} : files'[d] = files[d]
  BY DEF FdTypes
<1>2. Flushing'
  BY <1>1, Zenon DEF Flush, Flushing
<1>3. ASSUME NEW i \in Inodes, data'[i].dirty
      PROVE  \E d \in Fds : files'[d].open /\ files'[d].inode = i /\ files'[d].needs_flush
  <2>1. CASE data[i].dirty
    <3>1. PICK d \in Fds : files[d].open /\ files[d].inode = i /\ files[d].needs_flush
      BY <2>1 DEF Flush, WrittenIsSynced
    <3> QED BY <3>1, <1>1, Zenon
  <2>2. CASE o.needs_flush /\ i = o.inode
    <3>1. o.open
      BY DEF Descriptor
    <3> QED BY <3>1, <2>2, <1>1, Zenon
  <2> QED BY <1>3, <2>1, <2>2
<1> QED BY <1>2, <1>3, Zenon DEF Flush, WrittenIsSynced

LEMMA ClosedFlush ==
  ASSUME FdTypes, DataTypes, NEW fd \in Fds, files[fd].open,
         files' = [files EXCEPT ![fd] = Closed], data' = Synced(files[fd], data), Flush
  PROVE  Flush'
<1>1. /\ ~files'[fd].open /\ \A d \in Fds \ {fd} : files'[d] = files[d]
  BY DEF FdTypes, Closed
<1>2. Flushing'
  BY <1>1, Zenon DEF Flush, Flushing
<1>3. ASSUME NEW i \in Inodes, data'[i].dirty
      PROVE  \E d \in Fds : files'[d].open /\ files'[d].inode = i /\ files'[d].needs_flush
  <2>1. files[fd] \in Descriptor
    BY IsDescriptor
  <2>2. data[i].dirty /\ ~(files[fd].kind = "file" /\ files[fd].needs_flush /\ i = files[fd].inode)
    BY <2>1, <1>3, SyncedIs
  <2>3. PICK d \in Fds : files[d].open /\ files[d].inode = i /\ files[d].needs_flush
    BY <2>2 DEF Flush, WrittenIsSynced
  <2>4. d # fd
    <3>1. i = files[fd].inode => files[fd].kind = "file"
      BY <2>1 DEF Descriptor
    <3> QED BY <3>1, <2>2, <2>3, Zenon
  <2> QED BY <2>3, <2>4, <1>1, Zenon
<1> QED BY <1>2, <1>3, Zenon DEF Flush, WrittenIsSynced

-----------------------------------------------------------------------------
\* What moves no descriptor of a stream.
LEMMA OtherFdStreams ==
  ASSUME FdTypes, StreamTypes, StreamInv, NEW fd \in Fds, ~IsStreams(fd), NEW q,
         files' = [files EXCEPT ![fd] = q], UNCHANGED streams
  PROVE  StreamInv'
<1>1. ASSUME NEW f \in Streams, streams[f].open
      PROVE  files'[streams[f].fd] = files[streams[f].fd]
  <2>1. streams[f].fd \in Fds /\ streams[f].fd # fd
    BY <1>1, IsStream DEF IsStreams
  <2> QED BY <2>1 DEF FdTypes
<1>2. StreamsOwnFds'
  BY <1>1, Zenon DEF StreamInv, StreamsOwnFds
<1>3. Positions'
  BY <1>1, Zenon DEF StreamInv, Positions, FdOf, Pushed
<1> QED BY <1>2, <1>3 DEF StreamInv

LEMMA StillThere ==
  ASSUME FdTypes, StreamTypes, StreamInv, NEW fd \in Fds, NEW q, SameFile(files[fd], q),
         q.offset = files[fd].offset, q.reached_eof => files[fd].reached_eof,
         files' = [files EXCEPT ![fd] = q], UNCHANGED streams
  PROVE  StreamInv'
<1>1. ASSUME NEW d \in Fds
      PROVE  /\ files'[d].open = files[d].open /\ files'[d].kind = files[d].kind
             /\ files'[d].offset = files[d].offset
             /\ files'[d].reached_eof => files[d].reached_eof
  <2>1. CASE d = fd
    <3>1. files'[d] = q
      BY <2>1 DEF FdTypes
    <3> QED BY <3>1, <2>1, Zenon DEF SameFile
  <2>2. CASE d # fd
    <3>1. files'[d] = files[d]
      BY <2>2 DEF FdTypes
    <3> QED BY <3>1
  <2> QED BY <2>1, <2>2
<1>2. ASSUME NEW f \in Streams, streams[f].open
      PROVE  /\ FdOf(f)'.open = FdOf(f).open /\ FdOf(f)'.kind = FdOf(f).kind
             /\ FdOf(f)'.offset = FdOf(f).offset
             /\ FdOf(f)'.reached_eof => FdOf(f).reached_eof
  <2>1. streams[f].fd \in Fds /\ streams' = streams
    BY <1>2, IsStream
  <2> QED BY <2>1, <1>1, Zenon DEF FdOf
<1>3. StreamsOwnFds'
  <2>1. \A f \in Streams : streams[f].open => FdOf(f)'.open
    BY <1>2, Zenon DEF StreamInv, StreamsOwnFds, FdOf
  <2> QED BY <2>1, Zenon DEF StreamInv, StreamsOwnFds, FdOf
<1>4. Positions'
  <2>1. ASSUME NEW f \in Streams, streams'[f].open, FdOf(f)'.open
        PROVE  /\ FdOf(f)'.kind # "random" /\ FdOf(f)'.offset = streams'[f].pos
               /\ Pushed(f)' > 0 => ~FdOf(f)'.reached_eof
    <3>1. streams[f].open /\ FdOf(f).open
      BY <2>1, <1>2, Zenon
    <3>2. /\ FdOf(f).kind # "random" /\ FdOf(f).offset = streams[f].pos
          /\ Pushed(f) > 0 => ~FdOf(f).reached_eof
      BY <3>1, Zenon DEF StreamInv, Positions
    <3>3. Pushed(f)' = Pushed(f) /\ streams'[f].pos = streams[f].pos
      BY Zenon DEF Pushed
    <3> QED BY <3>1, <3>2, <3>3, <1>2, Zenon
  <2> QED BY <2>1, Zenon DEF Positions
<1> QED BY <1>3, <1>4 DEF StreamInv

\* A stream that moves its descriptor as it moves itself.
LEMMA StreamMoves ==
  ASSUME FdTypes, StreamTypes, StreamInv, NEW f \in Streams, streams[f].open,
         NEW n \in Nat, NEW pos \in Int, SetStream(f, n, pos),
         NEW q, SameFile(FdOf(f), q), q.offset = pos, n > 0 => ~q.reached_eof,
         files' = [files EXCEPT ![streams[f].fd] = q]
  PROVE  StreamInv'
<1>1. /\ streams'[f].open /\ streams'[f].fd = streams[f].fd
      /\ streams'[f].pushbacks = n /\ streams'[f].pos = pos
      /\ \A g \in Streams \ {f} : streams'[g] = streams[g]
  BY SetStreamIs
<1>2. \A g \in Streams : streams[g].open => streams[g].fd \in Fds
  BY IsStream
<1>3. ASSUME NEW g \in Streams
      PROVE  (streams'[g].open <=> streams[g].open) /\ streams'[g].fd = streams[g].fd
  <2>1. CASE g = f
    BY <2>1, <1>1, Zenon
  <2>2. CASE g # f
    <3>1. streams'[g] = streams[g]
      BY <2>2, <1>1, Zenon
    <3> QED BY <3>1, Zenon
  <2> QED BY <2>1, <2>2
<1>4. files'[streams[f].fd] = q
  BY <1>2 DEF FdTypes
<1>5. ASSUME NEW g \in Streams \ {f}, streams[g].open
      PROVE  files'[streams[g].fd] = files[streams[g].fd]
  <2>1. streams[g].fd \in Fds /\ streams[g].fd # streams[f].fd
    BY <1>2, <1>5, Zenon DEF StreamInv, StreamsOwnFds
  <2> QED BY <2>1 DEF FdTypes
<1>6. StreamsOwnFds'
  <2>1. ASSUME NEW g \in Streams, streams'[g].open
        PROVE  files'[streams'[g].fd].open
    <3>1. streams[g].open /\ files[streams[g].fd].open /\ streams'[g].fd = streams[g].fd
      BY <2>1, <1>3, Zenon DEF StreamInv, StreamsOwnFds
    <3>2. CASE g = f
      BY <3>1, <3>2, <1>4, Zenon DEF SameFile, FdOf
    <3>3. CASE g # f
      <4>1. files'[streams[g].fd] = files[streams[g].fd]
        BY <3>1, <3>3, <1>5, Zenon
      <4> QED BY <3>1, <4>1, Zenon
    <3> QED BY <3>2, <3>3
  <2>2. ASSUME NEW g \in Streams, NEW h \in Streams \ {g}, streams'[g].open, streams'[h].open
        PROVE  streams'[h].fd # streams'[g].fd
    <3>1. streams[g].open /\ streams[h].open /\ streams'[g].fd = streams[g].fd /\ streams'[h].fd = streams[h].fd
      BY <2>2, <1>3, Zenon
    <3>2. streams[h].fd # streams[g].fd
      BY <3>1, Zenon DEF StreamInv, StreamsOwnFds
    <3> QED BY <3>1, <3>2, Zenon
  <2> QED BY <2>1, <2>2, Zenon DEF StreamsOwnFds
<1>7. ASSUME NEW g \in Streams, streams'[g].open, FdOf(g)'.open
      PROVE  /\ FdOf(g)'.kind # "random" /\ FdOf(g)'.offset = streams'[g].pos
             /\ Pushed(g)' > 0 => ~FdOf(g)'.reached_eof
  <2>1. CASE g = f
    <3>1. FdOf(g)' = q
      BY <2>1, <1>1, <1>4, Zenon DEF FdOf
    <3>2. FdOf(f).open /\ FdOf(f).kind # "random"
      BY <3>1, <1>7, Zenon DEF StreamInv, Positions, SameFile
    <3>3. q.kind = FdOf(f).kind
      BY Zenon DEF SameFile
    <3>4. Pushed(g)' = n /\ streams'[g].pos = pos
      BY <2>1, <1>1, Zenon DEF Pushed
    <3> QED BY <3>1, <3>2, <3>3, <3>4, Zenon
  <2>2. CASE g # f
    <3>1. FdOf(g)' = FdOf(g) /\ streams'[g] = streams[g]
      BY <2>2, <1>1, <1>5, <1>7, Zenon DEF FdOf
    <3>2. Pushed(g)' = Pushed(g)
      BY <3>1, Zenon DEF Pushed
    <3> QED BY <3>1, <3>2, <1>7, Zenon DEF StreamInv, Positions
  <2> QED BY <2>1, <2>2
<1>8. Positions'
  BY <1>7, Zenon DEF Positions
<1> QED BY <1>6, <1>8 DEF StreamInv

-----------------------------------------------------------------------------
\* The tree and the host, made and unmade node by node.
TreesOf(t, h) == t \in [Paths -> NodeKinds] /\ h \in [Paths -> Inodes \cup {"none", "dir"}]
MirrorOf(t, h) ==
  /\ t[Root] = "fixed_dir"
  /\ \A p \in Paths :
       /\ t[p] = "file" <=> h[p] \in Inodes
       /\ t[p] = "dir" <=> h[p] = "dir"
       /\ t[p] # "none" => t[parent(p)] \in {"dir", "fixed_dir"}

LEMMA MirrorIs ==
  /\ Mirror <=> MirrorOf(tree, host)
  /\ TreeTypes <=> TreesOf(tree, host)
BY DEF Mirror, HostMirrored, MirrorOf, TreeTypes, TreesOf, OnHost, IsDir, Sys

LEMMA NodeMade ==
  ASSUME NEW t, NEW h, TreesOf(t, h), NEW p \in Paths, NEW kind, NEW n,
         \/ kind = "file" /\ n \in Inodes
         \/ kind = "dir" /\ n = "dir",
         NEW t2, t2 = [t EXCEPT ![p] = kind], NEW h2, h2 = [h EXCEPT ![p] = n]
  PROVE  /\ TreesOf(t2, h2)
         /\ MirrorOf(t, h) /\ t[p] = "none" /\ t[parent(p)] \in {"dir", "fixed_dir"} => MirrorOf(t2, h2)
<1>1. TreesOf(t2, h2)
  BY DEF TreesOf, NodeKinds
<1>2. ASSUME MirrorOf(t, h), t[p] = "none", t[parent(p)] \in {"dir", "fixed_dir"} PROVE MirrorOf(t2, h2)
  <2>1. Root \in Paths /\ parent(p) # p /\ p # Root
    <3>1. Root \in Paths
      BY PrefixesArePaths
    <3> QED BY <3>1, <1>2 DEF MirrorOf
  <2>2. t2[p] = kind /\ h2[p] = n /\ \A q \in Paths \ {p} : t2[q] = t[q] /\ h2[q] = h[q]
    BY DEF TreesOf
  <2>3. t2[Root] = "fixed_dir"
    BY <2>1, <2>2, <1>2 DEF MirrorOf
  <2>4. ASSUME NEW q \in Paths
        PROVE  /\ t2[q] = "file" <=> h2[q] \in Inodes
               /\ t2[q] = "dir" <=> h2[q] = "dir"
               /\ t2[q] # "none" => t2[parent(q)] \in {"dir", "fixed_dir"}
    <3>1. parent(q) \in Paths /\ parent(p) \in Paths
      BY PrefixesArePaths
    <3>2. CASE q = p
      <4>1. t2[parent(p)] = t[parent(p)]
        BY <2>1, <2>2, <3>1
      <4> QED BY <3>2, <4>1, <2>2, <1>2, FilesAssumption
    <3>3. CASE q # p
      <4>1. t2[q] = t[q] /\ h2[q] = h[q]
        BY <2>2, <3>3
      <4>2. t[q] # "none" => parent(q) # p /\ t2[parent(q)] = t[parent(q)] /\ t[parent(q)] \in {"dir", "fixed_dir"}
        BY <2>2, <3>1, <1>2 DEF MirrorOf
      <4> QED BY <4>1, <4>2, <1>2 DEF MirrorOf
    <3> QED BY <3>2, <3>3
  <2> QED BY <2>3, <2>4 DEF MirrorOf
<1> QED BY <1>1, <1>2

LEMMA NodeGone ==
  ASSUME NEW t, NEW h, TreesOf(t, h), NEW p \in Paths,
         NEW t2, t2 = [t EXCEPT ![p] = "none"], NEW h2, h2 = [h EXCEPT ![p] = "none"]
  PROVE  /\ TreesOf(t2, h2)
         /\ /\ MirrorOf(t, h) /\ t[p] \in {"file", "dir"}
            /\ \A c \in Paths : parent(c) = p => t[c] = "none"
            => MirrorOf(t2, h2)
<1>1. TreesOf(t2, h2)
  BY DEF TreesOf, NodeKinds
<1>2. ASSUME MirrorOf(t, h), t[p] \in {"file", "dir"}, \A c \in Paths : parent(c) = p => t[c] = "none"
      PROVE  MirrorOf(t2, h2)
  <2>1. Root \in Paths /\ p # Root
    <3>1. Root \in Paths
      BY PrefixesArePaths
    <3> QED BY <3>1, <1>2 DEF MirrorOf
  <2>2. t2[p] = "none" /\ h2[p] = "none" /\ \A q \in Paths \ {p} : t2[q] = t[q] /\ h2[q] = h[q]
    BY DEF TreesOf
  <2>3. t2[Root] = "fixed_dir"
    BY <2>1, <2>2, <1>2 DEF MirrorOf
  <2>4. ASSUME NEW q \in Paths
        PROVE  /\ t2[q] = "file" <=> h2[q] \in Inodes
               /\ t2[q] = "dir" <=> h2[q] = "dir"
               /\ t2[q] # "none" => t2[parent(q)] \in {"dir", "fixed_dir"}
    <3>1. parent(q) \in Paths
      BY PrefixesArePaths
    <3>2. CASE q = p
      BY <3>2, <2>2, FilesAssumption
    <3>3. CASE q # p
      <4>1. t2[q] = t[q] /\ h2[q] = h[q]
        BY <2>2, <3>3
      <4>2. t[q] # "none" => parent(q) # p /\ t2[parent(q)] = t[parent(q)] /\ t[parent(q)] \in {"dir", "fixed_dir"}
        BY <2>2, <3>1, <1>2 DEF MirrorOf
      <4> QED BY <4>1, <4>2, <1>2 DEF MirrorOf
    <3> QED BY <3>2, <3>3
  <2> QED BY <2>3, <2>4 DEF MirrorOf
<1> QED BY <1>1, <1>2

\* What each call keeps.
AllKept == Types' /\ (Mirror => Mirror') /\ (Flush => Flush') /\ (StreamInv => StreamInv')

LEMMA TreeOnlyKept ==
  ASSUME Types, UNCHANGED <<data, fdVars, streams>>, TreeTypes', Mirror => Mirror'
  PROVE  AllKept
<1>1. UNCHANGED <<data, files, nfiles, streams>>
  BY DEF fdVars
<1>2. Types'
  BY <1>1 DEF Types, DataTypes, FdTypes, StreamTypes
<1>3. Flush => Flush'
  BY <1>1, FlushKept
<1> QED BY <1>1, <1>2, <1>3, StreamsKept DEF AllKept

LEMMA PanicKept ==
  ASSUME Types, NEW site, Panic(site)
  PROVE  AllKept
BY NothingKept DEF Panic, AllKept

LEMMA RemoveKept ==
  ASSUME Types, NEW p \in Paths, remove(p)
  PROVE  AllKept
<1>1. /\ tree' = [tree EXCEPT ![p] = "none"] /\ host' = [host EXCEPT ![p] = "none"]
      /\ UNCHANGED <<data, fdVars, streams>>
  BY DEF remove
<1>2. TreesOf(tree, host)
  BY MirrorIs DEF Types
<1>3. TreesOf(tree', host')
  BY <1>1, <1>2, NodeGone
<1>4. TreeTypes'
  BY <1>3 DEF TreesOf, TreeTypes
<1>5. ASSUME Mirror PROVE Mirror'
  <2>1. MirrorOf(tree, host)
    BY <1>5, MirrorIs
  <2>2. tree[p] = "file" \/ (tree[p] = "dir" /\ \A c \in Paths : parent(c) = p => tree[c] = "none")
    BY DEF remove, RemoveAllowed, Children, Sys
  <2>3. tree[p] \in {"file", "dir"} /\ \A c \in Paths : parent(c) = p => tree[c] = "none"
    BY <2>1, <2>2 DEF MirrorOf
  <2>4. MirrorOf(tree', host')
    BY <1>1, <1>2, <2>1, <2>3, NodeGone
  <2> QED BY <2>4 DEF Mirror, HostMirrored, MirrorOf, OnHost, IsDir, Sys
<1> QED BY <1>1, <1>4, <1>5, TreeOnlyKept

LEMMA MkdirKept ==
  ASSUME Types, NEW p \in Paths, mkdir(p)
  PROVE  AllKept
<1>1. CASE /\ tree' = [tree EXCEPT ![p] = "dir"] /\ host' = [host EXCEPT ![p] = "dir"]
           /\ UNCHANGED <<data, fdVars, streams>> /\ Writeable(Sys, parent(p)) /\ tree[p] = "none"
  <2>1. TreesOf(tree, host)
    BY MirrorIs DEF Types
  <2>2. TreesOf(tree', host')
    BY <1>1, <2>1, NodeMade
  <2>3. TreeTypes'
    BY <2>2 DEF TreesOf, TreeTypes
  <2>4. ASSUME Mirror PROVE Mirror'
    <3>1. MirrorOf(tree, host)
      BY <2>4, MirrorIs
    <3>2. tree[parent(p)] \in {"dir", "fixed_dir"}
      BY <1>1 DEF Writeable, Sys
    <3>3. MirrorOf(tree', host')
      BY <1>1, <2>1, <3>1, <3>2, NodeMade
    <3> QED BY <3>3 DEF Mirror, HostMirrored, MirrorOf, OnHost, IsDir, Sys
  <2> QED BY <1>1, <2>3, <2>4, TreeOnlyKept
<1>2. CASE \E site : Panic(site)
  BY <1>2, PanicKept
<1> QED BY <1>1, <1>2, Zenon DEF mkdir

\* create_dir_all makes no directory without its parent.
LEMMA DirsMadeAre ==
  ASSUME TreeTypes, NEW p \in Paths, NEW d \in DirsMade(Sys, p)
  PROVE  /\ d \in Paths /\ tree[d] = "none"
         /\ tree[Root] = "fixed_dir" =>
              parent(d) \in DirsMade(Sys, p) \/ tree[parent(d)] \in {"dir", "fixed_dir"}
<1> DEFINE prefix(n) == SubSeq(p, 1, n)
           Missing(n) == tree[prefix(n)] = "none"
           Fails(n) == \/ tree[prefix(n - 1)] \in {"file", "fixed_file"}
                       \/ /\ Missing(n) /\ tree[prefix(n - 1)] \in {"dir", "fixed_dir"}
                          /\ ~(tree[prefix(n - 1)] = "dir")
           N == {n \in 1 .. Len(p) : Missing(n) /\ \A k \in 1 .. n : ~Fails(k)}
<1>1. DirsMade(Sys, p) = {prefix(n) : n \in N}
  BY DEF DirsMade, Sys, IsFile, IsDir, Writeable
<1>2. PICK n \in N : d = prefix(n)
  BY <1>1
<1>3. /\ Len(p) \in Nat
      /\ \A m \in 0 .. Len(p) : prefix(m) \in Paths
      /\ parent(d) = prefix(n - 1) /\ prefix(0) = Root
  BY <1>2, PrefixesArePaths
<1>4. n \in 1 .. Len(p) /\ Missing(n) /\ \A k \in 1 .. n : ~Fails(k)
  BY <1>2
<1>5. d \in Paths /\ tree[d] = "none"
  BY <1>2, <1>3, <1>4
<1>6. ASSUME tree[Root] = "fixed_dir"
      PROVE  parent(d) \in {prefix(m) : m \in N} \/ tree[parent(d)] \in {"dir", "fixed_dir"}
  <2>1. CASE n = 1
    <3> HIDE DEF Missing, Fails, N
    <3>1. n - 1 = 0
      BY <2>1
    <3>2. parent(d) = Root
      BY <3>1, <1>3
    <3> QED BY <3>2, <1>6
  <2>2. CASE n # 1 /\ Missing(n - 1)
    <3>1. n - 1 \in 1 .. Len(p) /\ \A k \in 1 .. n - 1 : k \in 1 .. n
      BY <2>2, <1>3, <1>4
    <3>2. n - 1 \in N
      <4> HIDE DEF Fails, Missing
      <4> QED BY <3>1, <2>2, <1>4
    <3> QED BY <3>2, <1>3
  <2>3. CASE n # 1 /\ ~Missing(n - 1)
    <3>1. n - 1 \in 0 .. Len(p) /\ n \in 1 .. n
      BY <1>3, <1>4
    <3>2. tree[prefix(n - 1)] \in NodeKinds
      BY <3>1, <1>3 DEF TreeTypes
    <3>3. tree[prefix(n - 1)] \notin {"file", "fixed_file", "none"}
      BY <3>1, <1>4, <2>3
    <3> QED BY <3>2, <3>3, <1>3 DEF NodeKinds
  <2> QED BY <2>1, <2>2, <2>3
<1> QED BY <1>1, <1>5, <1>6

LEMMA CreateDirsKept ==
  ASSUME Types, NEW p \in Paths, create_dir_all(p)
  PROVE  AllKept
<1> DEFINE made == DirsMade(Sys, p)
<1>1. CASE /\ \A d \in made : host[d] = "none"
           /\ tree' = [q \in Paths |-> IF q \in made THEN "dir" ELSE tree[q]]
           /\ host' = [q \in Paths |-> IF q \in made THEN "dir" ELSE host[q]]
           /\ UNCHANGED <<data, fdVars, streams>>
  <2>1. \A d \in made : d \in Paths /\ tree[d] = "none"
    BY DirsMadeAre DEF Types
  <2>2. TreeTypes'
    <3> HIDE DEF made
    <3> QED BY <1>1 DEF Types, TreeTypes, NodeKinds
  <2>3. ASSUME Mirror PROVE Mirror'
    <3>1. MirrorOf(tree, host)
      BY <2>3, MirrorIs
    <3>2. \A d \in made : parent(d) \in made \/ tree[parent(d)] \in {"dir", "fixed_dir"}
      BY <2>3, DirsMadeAre DEF Types, Mirror
    <3> HIDE DEF made
    <3>3. Root \in Paths /\ tree'[Root] = "fixed_dir"
      BY <1>1, <2>1, <3>1, PrefixesArePaths DEF MirrorOf
    <3>4. ASSUME NEW q \in Paths
          PROVE  /\ tree'[q] = "file" <=> host'[q] \in Inodes
                 /\ tree'[q] = "dir" <=> host'[q] = "dir"
                 /\ tree'[q] # "none" => tree'[parent(q)] \in {"dir", "fixed_dir"}
      <4>1. parent(q) \in Paths
        BY PrefixesArePaths
      <4>2. CASE q \in made
        BY <4>1, <4>2, <1>1, <3>2, FilesAssumption
      <4>3. CASE q \notin made
        BY <4>1, <4>3, <1>1, <3>1 DEF MirrorOf
      <4> QED BY <4>2, <4>3
    <3>5. MirrorOf(tree', host')
      BY <3>3, <3>4 DEF MirrorOf
    <3> QED BY <3>5 DEF Mirror, HostMirrored, MirrorOf, OnHost, IsDir, Sys
  <2> QED BY <1>1, <2>2, <2>3, TreeOnlyKept
<1>2. CASE \E site : Panic(site)
  BY <1>2, PanicKept
<1>3. \/ \E site : Panic(site)
      \/ /\ \A d \in made : host[d] = "none"
         /\ tree' = [q \in Paths |-> IF q \in made THEN "dir" ELSE tree[q]]
         /\ host' = [q \in Paths |-> IF q \in made THEN "dir" ELSE host[q]]
         /\ UNCHANGED <<data, fdVars, streams>>
  BY DEF create_dir_all
<1> QED BY <1>1, <1>2, <1>3

-----------------------------------------------------------------------------
\* What an open does to the tree, and to the data.
LEMMA OpenTree ==
  ASSUME TreeTypes, NEW p \in Paths, NEW m, NEW r, OpensSomething(p, m, r)
  PROVE  /\ TreesOf(r.sys.tree, r.sys.host)
         /\ Mirror => MirrorOf(r.sys.tree, r.sys.host)
<1>1. TreesOf(tree, host) /\ (Mirror => MirrorOf(tree, host))
  BY MirrorIs
<1>2. CASE r.sys.tree = tree /\ r.sys.host = host
  BY <1>1, <1>2
<1>3. CASE \E i \in Inodes : /\ r.sys.tree = [tree EXCEPT ![p] = "file"] /\ r.sys.host = [host EXCEPT ![p] = i]
                             /\ tree[p] = "none" /\ IsDir(Sys, parent(p))
  <2>1. PICK i \in Inodes : /\ r.sys.tree = [tree EXCEPT ![p] = "file"] /\ r.sys.host = [host EXCEPT ![p] = i]
                            /\ tree[p] = "none" /\ IsDir(Sys, parent(p))
    BY <1>3
  <2>2. tree[parent(p)] \in {"dir", "fixed_dir"}
    BY <2>1 DEF IsDir, Sys
  <2> QED BY <1>1, <2>1, <2>2, NodeMade
<1> QED BY <1>2, <1>3, Zenon DEF OpensSomething, OpensOther, OpensFile

LEMMA OpenData ==
  ASSUME DataTypes, NEW p \in Paths, NEW m \in Modes, NEW r, OpensSomething(p, m, r)
  PROVE  /\ r.sys.data \in [Inodes -> FileRecord]
         /\ r.object \in Descriptor /\ r.object.open /\ r.object.kind # "random"
         /\ r.object.offset = 0 /\ ~r.object.reached_eof
         /\ (m.append => Writes(m)) /\ r.object.kind = "file" /\ r.object.writable => r.object.needs_flush
         /\ \A i \in Inodes : r.sys.data[i].dirty =>
              data[i].dirty \/ (r.object.needs_flush /\ i = r.object.inode)
<1>1. CASE OpensOther(r, m)
  <2>1. PICK kind \in {"archive", "dir"} : r.object = Object(kind, "none", m)
    BY <1>1, Zenon DEF OpensOther
  <2>2. /\ r.object \in Descriptor /\ r.object.kind = kind /\ r.object.offset = 0
        /\ ~r.object.reached_eof /\ r.object.open
    BY <2>1, ObjectIs, FilesAssumption
  <2> QED BY <1>1, <2>2 DEF OpensOther, DataTypes
<1>2. CASE \E i \in Inodes, x \in FileRecord : OpensFile(p, m, r, i, x)
  <2>1. PICK i \in Inodes, x \in FileRecord : OpensFile(p, m, r, i, x)
    BY <1>2
  <2>2. /\ r.object \in Descriptor /\ r.object.kind = "file" /\ r.object.inode = i /\ r.object.offset = 0
        /\ ~r.object.reached_eof /\ r.object.open
        /\ r.object.writable = (Writes(m) \/ m.append)
        /\ r.object.needs_flush = ("file" = "file" /\ Writes(m))
    BY <2>1, ObjectIs DEF OpensFile
  <2>3. r.sys.data = [data EXCEPT ![i] = x] /\ (x.dirty => Writes(m) \/ data[i].dirty)
    BY <2>1, Zenon DEF OpensFile
  <2>4. r.sys.data \in [Inodes -> FileRecord] /\ r.sys.data[i] = x /\ \A j \in Inodes \ {i} : r.sys.data[j] = data[j]
    BY <2>3 DEF DataTypes
  <2>5. \A j \in Inodes : r.sys.data[j].dirty => data[j].dirty \/ (r.object.needs_flush /\ j = r.object.inode)
    BY <2>2, <2>3, <2>4, Zenon
  <2>6. (m.append => Writes(m)) /\ r.object.kind = "file" /\ r.object.writable => r.object.needs_flush
    BY <2>2, Zenon
  <2>7. r.object.kind # "random"
    BY <2>2
  <2> QED BY <2>2, <2>4, <2>5, <2>6, <2>7, Zenon
<1> QED BY <1>1, <1>2, Zenon DEF OpensSomething

-----------------------------------------------------------------------------
\* rename: the file moves onto the target, made first where there is none.
LEMMA TargetIs ==
  ASSUME Types, NEW from \in Paths, NEW to \in Paths, tree[from] = "file",
         CanCreate(Sys, to), ~HostRefuses(Sys, to, ForRename), NEW t, t = Target(to), t.ok
  PROVE  /\ TreesOf(t.sys.tree, t.sys.host)
         /\ Mirror => MirrorOf(t.sys.tree, t.sys.host)
         /\ t.sys.tree[from] = "file"
<1>1. TreesOf(tree, host) /\ (Mirror => MirrorOf(tree, host))
  BY MirrorIs DEF Types
<1>2. CASE tree[to] = "none"
  <2>1. t = open_with_options(Sys, to, ForRename)
    BY <1>2 DEF Target
  <2>2. ForRename \in Modes /\ ~OptionsRefused(ForRename)
    BY ForRenameIs, Zenon DEF OptionsRefused
  <2>3. TreeTypes /\ DataTypes
    BY DEF Types
  <2>4. OpensSomething(to, ForRename, t)
    BY <2>1, <2>2, <2>3, OpenCases
  <2>5. TreesOf(t.sys.tree, t.sys.host) /\ (Mirror => MirrorOf(t.sys.tree, t.sys.host))
    BY <2>3, <2>4, OpenTree
  <2>6. t.sys.tree = tree \/ t.sys.tree = [tree EXCEPT ![to] = "file"]
    BY <2>4, Zenon DEF OpensSomething, OpensOther, OpensFile
  <2>7. t.sys.tree[from] = "file"
    BY <2>6, <1>1 DEF TreesOf
  <2> QED BY <2>5, <2>7
<1>3. CASE tree[to] # "none"
  <2>1. t = Opened(Sys, Closed)
    BY <1>3 DEF Target
  <2>2. t.sys.tree = tree /\ t.sys.host = host
    <3>1. t.sys = Sys
      BY <2>1, OpenedIs
    <3> QED BY <3>1 DEF Sys
  <2> QED BY <1>1, <2>2
<1> QED BY <1>2, <1>3

LEMMA RenamedIs ==
  ASSUME NEW s, NEW from \in Paths, NEW to \in Paths, TreesOf(s.tree, s.host),
         s.tree[from] = "file", s.tree[to] = "file"
  PROVE  /\ TreesOf(Renamed(s, from, to).tree, Renamed(s, from, to).host)
         /\ from # to /\ MirrorOf(s.tree, s.host) =>
              MirrorOf(Renamed(s, from, to).tree, Renamed(s, from, to).host)
         /\ Renamed(s, from, to).data = data
<1> DEFINE t == s.tree
           h == s.host
           moved == [h EXCEPT ![to] = h[from]]
           t2 == [t EXCEPT ![from] = "none"]
           h2 == [moved EXCEPT ![from] = "none"]
<1>1. /\ Renamed(s, from, to).tree = t2 /\ Renamed(s, from, to).data = data
      /\ Renamed(s, from, to).host = IF from = to THEN h ELSE h2
  <2>1. Renamed(s, from, to).host = IF from = to THEN h ELSE [h EXCEPT ![to] = h[from], ![from] = "none"]
    BY DEF Renamed
  <2>2. [h EXCEPT ![to] = h[from], ![from] = "none"] = h2
    <3> HIDE DEF h
    <3> QED BY DEF TreesOf
  <2> QED BY <2>1, <2>2 DEF Renamed
<1> HIDE DEF h, t
<1>2. TreesOf(t, h)
  BY DEF t, h
<1>3. TreesOf(t, moved)
  BY <1>2 DEF TreesOf
<1>4. TreesOf(t2, h) /\ TreesOf(t2, h2)
  BY <1>2, <1>3 DEF TreesOf, NodeKinds
<1>5. ASSUME from # to, MirrorOf(t, h) PROVE MirrorOf(t2, h2)
  <2>1. t[from] = "file" /\ t[to] = "file"
    BY DEF t
  <2>2. h[from] \in Inodes
    BY <2>1, <1>5 DEF MirrorOf
  <2>3. moved[to] \in Inodes /\ \A q \in Paths \ {to} : moved[q] = h[q]
    BY <1>2, <2>2 DEF TreesOf
  <2>4. MirrorOf(t, moved)
    BY <2>1, <2>3, <1>5, FilesAssumption DEF MirrorOf
  <2>5. \A c \in Paths : parent(c) = from => t[c] = "none"
    BY <2>1, <1>5 DEF MirrorOf
  <2> HIDE DEF moved
  <2> QED BY <2>1, <2>4, <2>5, <1>3, NodeGone
<1> HIDE DEF t2, h2
<1>6. TreesOf(Renamed(s, from, to).tree, Renamed(s, from, to).host)
  BY <1>1, <1>4
<1> QED BY <1>1, <1>5, <1>6 DEF t, h

LEMMA RenameKept ==
  ASSUME Types, NEW from \in Paths, NEW to \in Paths, rename(from, to)
  PROVE  Types' /\ (from # to => AllKept)
<1>1. CASE \E site : Panic(site)
  <2>1. AllKept
    BY <1>1, PanicKept
  <2> QED BY <2>1 DEF AllKept
<1>2. ASSUME NEW t, t = Target(to), t.ok, t.sys.tree[to] = "file", Commit(Renamed(t.sys, from, to)),
             tree[from] = "file", CanCreate(Sys, to), ~HostRefuses(Sys, to, ForRename),
             UNCHANGED <<fdVars, streams>>
      PROVE  Types' /\ (from # to => AllKept)
  <2>1. /\ TreesOf(t.sys.tree, t.sys.host)
        /\ Mirror => MirrorOf(t.sys.tree, t.sys.host)
        /\ t.sys.tree[from] = "file"
    BY <1>2, TargetIs
  <2> DEFINE r == Renamed(t.sys, from, to)
  <2>2. /\ TreesOf(r.tree, r.host) /\ r.data = data
        /\ from # to /\ MirrorOf(t.sys.tree, t.sys.host) => MirrorOf(r.tree, r.host)
    BY <1>2, <2>1, RenamedIs
  <2>3. tree' = r.tree /\ host' = r.host /\ data' = r.data
    BY <1>2 DEF Commit
  <2> HIDE DEF r
  <2>4. TreesOf(tree', host') /\ UNCHANGED <<data, fdVars, streams>>
    BY <1>2, <2>2, <2>3
  <2>5. TreeTypes'
    BY <2>4 DEF TreeTypes, TreesOf
  <2>6. Types'
    BY <2>4, <2>5 DEF Types, DataTypes, FdTypes, StreamTypes, fdVars
  <2>7. ASSUME from # to PROVE AllKept
    <3>1. ASSUME Mirror PROVE Mirror'
      <4>1. MirrorOf(tree', host')
        BY <2>1, <2>2, <2>3, <2>7, <3>1
      <4> QED BY <4>1 DEF Mirror, HostMirrored, MirrorOf, OnHost, IsDir, Sys
    <3> QED BY <2>4, <2>5, <3>1, TreeOnlyKept
  <2> QED BY <2>6, <2>7
<1>3. \/ \E site : Panic(site)
      \/ \E t : /\ t = Target(to) /\ t.ok /\ t.sys.tree[to] = "file" /\ Commit(Renamed(t.sys, from, to))
                /\ tree[from] = "file" /\ CanCreate(Sys, to) /\ ~HostRefuses(Sys, to, ForRename)
                /\ UNCHANGED <<fdVars, streams>>
  BY Zenon DEF rename
<1> QED BY <1>1, <1>2, <1>3

\* Fs::write makes nothing dirty: only what comes through a descriptor is.
LEMMA WriteFileKept ==
  ASSUME Types, NEW p \in Paths, NEW n \in Lengths, write_file(p, n)
  PROVE  AllKept
<1>1. PICK r : /\ r = open_with_options(Sys, p, ForRename) /\ r.ok
               /\ tree' = r.sys.tree /\ host' = r.sys.host
               /\ data' = [r.sys.data EXCEPT ![r.object.inode] =
                             [len |-> n, dirty |-> OnHost(Sys, p) /\ data[r.object.inode].dirty]]
  BY Zenon DEF write_file
<1>2. UNCHANGED <<files, nfiles, streams>> /\ CanCreate(Sys, p) /\ ~HostRefuses(Sys, p, ForRename)
  BY Zenon DEF write_file, fdVars
<1>3. ForRename \in Modes /\ ~OptionsRefused(ForRename)
  BY ForRenameIs, Zenon DEF OptionsRefused
<1>4. TreeTypes /\ DataTypes
  BY DEF Types
<1>5. OpensSomething(p, ForRename, r)
  BY <1>1, <1>2, <1>3, <1>4, OpenCases
<1>6. TreesOf(r.sys.tree, r.sys.host) /\ (Mirror => MirrorOf(r.sys.tree, r.sys.host))
  BY <1>4, <1>5, OpenTree
<1>7. TreeTypes' /\ (Mirror => Mirror')
  <2>1. TreesOf(tree', host') /\ (Mirror => MirrorOf(tree', host'))
    BY <1>1, <1>6
  <2> QED BY <2>1 DEF TreeTypes, TreesOf, Mirror, HostMirrored, MirrorOf, OnHost, IsDir, Sys
<1>8. DataTypes' /\ \A j \in Inodes : data'[j].dirty => data[j].dirty
  <2>1. CASE OpensOther(r, ForRename)
    <3>1. PICK kind \in {"archive", "dir"} : r.object = Object(kind, "none", ForRename)
      BY <2>1, Zenon DEF OpensOther
    <3>2. r.object.inode = "none" /\ "none" \notin Inodes
      BY <3>1, <1>3, ObjectIs, FilesAssumption
    <3>3. data' = data
      BY <3>2, <1>1, <2>1, <1>4 DEF OpensOther, DataTypes
    <3> QED BY <3>3, <1>4 DEF DataTypes
  <2>2. CASE \E i \in Inodes, x \in FileRecord : OpensFile(p, ForRename, r, i, x)
    <3>1. PICK i \in Inodes, x \in FileRecord : OpensFile(p, ForRename, r, i, x)
      BY <2>2
    <3>2. r.object.inode = i
      BY <3>1, <1>3, ObjectIs DEF OpensFile
    <3>3. r.sys.data = [data EXCEPT ![i] = x]
      BY <3>1, Zenon DEF OpensFile
    <3> DEFINE y == [len |-> n, dirty |-> OnHost(Sys, p) /\ data[i].dirty]
    <3>4. y \in FileRecord /\ (y.dirty => data[i].dirty)
      <4>1. OnHost(Sys, p) \in BOOLEAN
        BY DEF OnHost
      <4>2. data[i].dirty \in BOOLEAN
        BY <1>4 DEF DataTypes, FileRecord
      <4>3. (OnHost(Sys, p) /\ data[i].dirty) \in BOOLEAN
        BY <4>1, <4>2
      <4>4. y.dirty <=> OnHost(Sys, p) /\ data[i].dirty
        BY Zenon
      <4> QED BY <4>3, <4>4, Zenon DEF FileRecord
    <3>5. data' = [r.sys.data EXCEPT ![i] = y]
      BY <1>1, <3>2, Zenon
    <3> HIDE DEF y
    <3>6. data' = [[data EXCEPT ![i] = x] EXCEPT ![i] = y]
      BY <3>3, <3>5, Zenon
    <3>7. data' \in [Inodes -> FileRecord] /\ data'[i] = y /\ \A j \in Inodes \ {i} : data'[j] = data[j]
      BY <3>6, <3>4, <1>4 DEF DataTypes
    <3> QED BY <3>4, <3>7 DEF DataTypes
  <2> QED BY <2>1, <2>2, <1>5, Zenon DEF OpensSomething
<1>9. Types'
  BY <1>2, <1>7, <1>8 DEF Types, FdTypes, StreamTypes
<1>10. Flush => Flush'
  BY <1>2, <1>8, FlushKept
<1> QED BY <1>2, <1>7, <1>9, <1>10, StreamsKept DEF AllKept

LEMMA TruncateKept ==
  ASSUME Types, NEW p \in Paths, NEW n \in Lengths, truncate(p, n)
  PROVE  AllKept
<1>1. /\ FdAvailable /\ host[p] \in Inodes
      /\ data' = [data EXCEPT ![host[p]] = [len |-> n, dirty |-> FALSE]]
      /\ nfiles' = Longer
      /\ UNCHANGED <<tree, host, files, streams>>
  BY DEF truncate, OnHost, Sys
<1>2. FdTypes'
  <2>1. FdTypes
    BY DEF Types
  <2>2. Longer \in 0 .. MaxFds /\ nfiles <= Longer
    BY <1>1, <2>1, FreeFdIs
  <2>3. nfiles \in Nat /\ \A fd \in Fds : fd \in Nat
    BY <2>1 DEF FdTypes, Fds
  <2>4. MaxFds \in Nat
    BY FilesAssumption
  <2> QED BY <1>1, <2>1, <2>2, <2>3, <2>4 DEF FdTypes
<1>3. [len |-> n, dirty |-> FALSE] \in FileRecord
  BY DEF FileRecord
<1>4. DataTypes' /\ \A i \in Inodes : data'[i].dirty => data[i].dirty
  BY <1>1, <1>3 DEF Types, DataTypes
<1>5. Types'
  BY <1>1, <1>2, <1>4 DEF Types, TreeTypes, StreamTypes
<1>6. Flush => Flush'
  BY <1>1, <1>4, FlushKept
<1> QED BY <1>1, <1>5, <1>6, TreeKept, StreamsKept DEF AllKept

-----------------------------------------------------------------------------
\* open_direct: a new descriptor, in a slot that nobody uses.
LEMMA OpensIs ==
  ASSUME Types, NEW p \in Paths, NEW m \in Modes, opens(p, m)
  PROVE  /\ TreeTypes' /\ DataTypes' /\ FdTypes'
         /\ Mirror => Mirror'
         /\ (m.append => Writes(m)) /\ Flush => Flush'
         /\ free_fd \in Fds /\ ~files[free_fd].open
         /\ \E o \in Descriptor :
              /\ o.open /\ o.kind # "random" /\ o.offset = 0 /\ ~o.reached_eof
              /\ files' = [files EXCEPT ![free_fd] = o]
<1>1. PICK r : r = open_with_options(Sys, p, m) /\ r.ok /\ Commit(r.sys) /\ find_or_create_fd(r.object)
  BY Zenon DEF opens
<1>2. ~OptionsRefused(m) /\ ~HostRefuses(Sys, p, m) /\ FdAvailable /\ CanCreate(Sys, p)
  BY Zenon DEF opens
<1>3. TreeTypes /\ DataTypes /\ FdTypes
  BY DEF Types
<1>4. OpensSomething(p, m, r)
  BY <1>1, <1>2, <1>3, OpenCases
<1>5. TreesOf(r.sys.tree, r.sys.host) /\ (Mirror => MirrorOf(r.sys.tree, r.sys.host))
  BY <1>3, <1>4, OpenTree
<1> DEFINE o == r.object
<1>6. /\ r.sys.data \in [Inodes -> FileRecord]
      /\ o \in Descriptor /\ o.open /\ o.kind # "random" /\ o.offset = 0 /\ ~o.reached_eof
      /\ (m.append => Writes(m)) /\ o.kind = "file" /\ o.writable => o.needs_flush
      /\ \A i \in Inodes : r.sys.data[i].dirty => data[i].dirty \/ (o.needs_flush /\ i = o.inode)
  BY <1>3, <1>4, OpenData
<1>7. tree' = r.sys.tree /\ host' = r.sys.host /\ data' = r.sys.data
  BY <1>1 DEF Commit
<1> HIDE DEF o
<1>8. free_fd \in Fds /\ ~files[free_fd].open
  BY <1>2, <1>3, FreeFdIs
<1>9. files' = [files EXCEPT ![free_fd] = o]
  BY <1>1 DEF find_or_create_fd, o
<1>10. FdTypes'
  BY <1>1, <1>2, <1>3, <1>6, OpenedFdTypes DEF o
<1>11. TreeTypes' /\ (Mirror => Mirror')
  <2>1. TreesOf(tree', host') /\ (Mirror => MirrorOf(tree', host'))
    BY <1>5, <1>7
  <2> QED BY <2>1 DEF TreeTypes, TreesOf, Mirror, HostMirrored, MirrorOf, OnHost, IsDir, Sys
<1>12. DataTypes'
  BY <1>6, <1>7 DEF DataTypes
<1>13. ASSUME m.append => Writes(m), Flush PROVE Flush'
  <2>1. PICK fd \in Fds : fd = free_fd
    BY <1>8
  <2>2. ~files[fd].open /\ files' = [files EXCEPT ![fd] = o]
    BY <2>1, <1>8, <1>9
  <2>3. o.kind = "file" /\ o.writable => o.needs_flush
    BY <1>6, <1>13
  <2>4. \A i \in Inodes : data'[i].dirty => data[i].dirty \/ (o.needs_flush /\ i = o.inode)
    BY <1>6, <1>7
  <2>5. o \in Descriptor
    BY <1>6
  <2> QED BY <2>2, <2>3, <2>4, <2>5, <1>3, <1>13, OpenedFlush
<1> QED BY <1>6, <1>8, <1>9, <1>10, <1>11, <1>12, <1>13

\* No stream has a slot that is not in use.
LEMMA NotStreams ==
  ASSUME StreamInv, NEW fd \in Fds, ~files[fd].open
  PROVE  ~IsStreams(fd)
BY Zenon DEF StreamInv, StreamsOwnFds, IsStreams

LEMMA OpenKept ==
  ASSUME Types, NEW p \in Paths, NEW m \in Modes, open(p, m)
  PROVE  Types' /\ ((m.append => Writes(m)) => AllKept)
<1>1. CASE \E site : Panic(site)
  <2>1. AllKept
    BY <1>1, PanicKept
  <2> QED BY <2>1 DEF AllKept
<1>2. CASE opens(p, m) /\ UNCHANGED streams
  <2>1. /\ TreeTypes' /\ DataTypes' /\ FdTypes'
        /\ Mirror => Mirror'
        /\ (m.append => Writes(m)) /\ Flush => Flush'
        /\ free_fd \in Fds /\ ~files[free_fd].open
        /\ \E o \in Descriptor : files' = [files EXCEPT ![free_fd] = o]
    BY <1>2, OpensIs
  <2>2. Types'
    BY <1>2, <2>1 DEF Types, StreamTypes
  <2>3. ASSUME StreamInv PROVE StreamInv'
    <3>1. PICK fd \in Fds, o \in Descriptor : fd = free_fd /\ ~files[fd].open /\ files' = [files EXCEPT ![fd] = o]
      BY <2>1
    <3>2. ~IsStreams(fd)
      BY <2>3, <3>1, NotStreams
    <3>3. FdTypes /\ StreamTypes
      BY DEF Types
    <3> QED BY <3>1, <3>2, <3>3, <2>3, <1>2, OtherFdStreams
  <2> QED BY <2>1, <2>2, <2>3 DEF AllKept
<1> QED BY <1>1, <1>2, Zenon DEF open, open_panics

LEMMA OpenDeviceKept ==
  ASSUME Types, NEW kind \in {"null", "random"}, open_device(kind)
  PROVE  AllKept
<1>1. FdAvailable /\ find_or_create_fd(Nameless(kind)) /\ UNCHANGED <<tree, host, data, streams>>
  BY DEF open_device, fsVars
<1>2. FdTypes /\ StreamTypes /\ DataTypes
  BY DEF Types
<1>3. PICK m \in Modes : m = Mode("rw", {})
  BY ModeIs
<1>4. PICK o : o = Object(kind, "none", m)
  OBVIOUS
<1>5. Nameless(kind) = o
  BY <1>3, <1>4, Zenon DEF Nameless
<1>6. o \in Descriptor /\ o.kind = kind /\ ~o.needs_flush
  <2>1. "none" \notin Inodes
    BY FilesAssumption
  <2>2. o \in Descriptor /\ o.kind = kind /\ o.needs_flush = (kind = "file" /\ Writes(m))
    BY <2>1, <1>4, ObjectIs
  <2> QED BY <2>2
<1>7. PICK fd \in Fds : fd = free_fd /\ ~files[fd].open
  BY <1>1, <1>2, FreeFdIs
<1>8. files' = [files EXCEPT ![fd] = o]
  BY <1>1, <1>5, <1>7 DEF find_or_create_fd
<1>9. FdTypes'
  BY <1>1, <1>2, <1>5, <1>6, OpenedFdTypes
<1>10. Types'
  BY <1>1, <1>9 DEF Types, TreeTypes, DataTypes, StreamTypes
<1>11. ASSUME Flush PROVE Flush'
  <2>1. \A i \in Inodes : data'[i].dirty => data[i].dirty \/ (o.needs_flush /\ i = o.inode)
    BY <1>1
  <2>2. o.kind = "file" /\ o.writable => o.needs_flush
    BY <1>6
  <2> QED BY <2>1, <2>2, <1>2, <1>6, <1>7, <1>8, <1>11, OpenedFlush
<1>12. ASSUME StreamInv PROVE StreamInv'
  <2>1. ~IsStreams(fd)
    BY <1>7, <1>12, NotStreams
  <2> QED BY <2>1, <1>1, <1>2, <1>8, <1>12, OtherFdStreams
<1> QED BY <1>1, <1>10, <1>11, <1>12, TreeKept DEF AllKept

-----------------------------------------------------------------------------
\* Calls that move one descriptor.
LEMMA SetFileIs ==
  ASSUME Types, NEW fd \in Fds, OpenFd(fd), NEW q \in Descriptor, SetFile(fd, q),
         UNCHANGED <<tree, host>>, DataTypes', SameFile(files[fd], q),
         \A i \in Inodes : data'[i].dirty =>
           data[i].dirty \/ (files[fd].kind = "file" /\ files[fd].writable /\ i = files[fd].inode)
  PROVE  /\ TreeTypes' /\ DataTypes' /\ FdTypes'
         /\ Mirror => Mirror'
         /\ Flush => Flush'
         /\ files' = [files EXCEPT ![fd] = q]
<1>1. files[fd].open /\ fd < nfiles /\ FdTypes /\ TreeTypes
  BY DEF OpenFd, Types
<1>2. files' = [files EXCEPT ![fd] = q]
  BY DEF SetFile
<1>3. FdTypes'
  BY <1>1, SetFdTypes
<1>4. Flush => Flush'
  BY <1>1, <1>2, MovedFlush
<1>5. TreeTypes' /\ (Mirror => Mirror')
  BY <1>1, TreeKept
<1> QED BY <1>2, <1>3, <1>4, <1>5

\* ... and are not a stream's keep the streams where they are.
LEMMA FdOnlyKept ==
  ASSUME Types, NEW fd \in Fds, OpenFd(fd), NEW q \in Descriptor, SetFile(fd, q),
         UNCHANGED <<tree, host, streams>>, DataTypes', SameFile(files[fd], q),
         \A i \in Inodes : data'[i].dirty =>
           data[i].dirty \/ (files[fd].kind = "file" /\ files[fd].writable /\ i = files[fd].inode)
  PROVE  Types' /\ (~IsStreams(fd) => AllKept)
<1>1. /\ TreeTypes' /\ DataTypes' /\ FdTypes'
      /\ Mirror => Mirror'
      /\ Flush => Flush'
      /\ files' = [files EXCEPT ![fd] = q]
  BY SetFileIs
<1>2. Types'
  BY <1>1 DEF Types, StreamTypes
<1>3. ASSUME ~IsStreams(fd), StreamInv PROVE StreamInv'
  <2>1. FdTypes /\ StreamTypes
    BY DEF Types
  <2> QED BY <2>1, <1>1, <1>3, OtherFdStreams
<1> QED BY <1>1, <1>2, <1>3 DEF AllKept

\* ... or stay where they are.
LEMMA FdStaysKept ==
  ASSUME Types, NEW fd \in Fds, OpenFd(fd), NEW q \in Descriptor, SetFile(fd, q),
         UNCHANGED <<tree, host, streams>>, DataTypes', SameFile(files[fd], q),
         \A i \in Inodes : data'[i].dirty =>
           data[i].dirty \/ (files[fd].kind = "file" /\ files[fd].writable /\ i = files[fd].inode),
         q.offset = files[fd].offset, q.reached_eof => files[fd].reached_eof
  PROVE  AllKept
<1>1. /\ TreeTypes' /\ DataTypes' /\ FdTypes'
      /\ Mirror => Mirror'
      /\ Flush => Flush'
      /\ files' = [files EXCEPT ![fd] = q]
  BY SetFileIs
<1>2. Types'
  BY <1>1 DEF Types, StreamTypes
<1>3. ASSUME StreamInv PROVE StreamInv'
  <2>1. FdTypes /\ StreamTypes
    BY DEF Types
  <2> QED BY <2>1, <1>1, <1>3, StillThere
<1> QED BY <1>1, <1>2, <1>3 DEF AllKept

LEMMA ReadKept ==
  ASSUME Types, NEW fd \in Fds, NEW k \in Lengths, read(fd, k)
  PROVE  Types' /\ (~IsStreams(fd) => AllKept)
<1>1. OpenFd(fd) /\ SetFile(fd, AfterRead(files[fd], k)) /\ UNCHANGED <<tree, host, data, streams>>
  BY DEF read, fsVars
<1>2. files[fd] \in Descriptor /\ k \in Nat /\ DataTypes /\ DataTypes'
  BY <1>1, IsDescriptor, FilesAssumption DEF OpenFd, Types, Lengths, DataTypes
<1> DEFINE q == AfterRead(files[fd], k)
<1>3. q \in Descriptor /\ SameFile(files[fd], q)
  BY <1>2, AfterReadIs
<1> HIDE DEF q
<1>4. SetFile(fd, q)
  BY <1>1 DEF q
<1> QED BY <1>1, <1>2, <1>3, <1>4, FdOnlyKept

LEMMA LseekKept ==
  ASSUME Types, NEW fd \in Fds, NEW pos \in Lengths, lseek(fd, pos)
  PROVE  Types' /\ (~IsStreams(fd) => AllKept)
<1>1. OpenFd(fd) /\ SetFile(fd, Sought(files[fd], pos)) /\ UNCHANGED <<tree, host, data, streams>>
  BY DEF lseek, fsVars
<1>2. files[fd] \in Descriptor /\ DataTypes'
  BY <1>1, IsDescriptor DEF OpenFd, Types, DataTypes
<1> DEFINE q == Sought(files[fd], pos)
<1>3. q \in Descriptor /\ SameFile(files[fd], q)
  BY <1>2, SoughtIs
<1> HIDE DEF q
<1>4. SetFile(fd, q)
  BY <1>1 DEF q
<1> QED BY <1>1, <1>2, <1>3, <1>4, FdOnlyKept

\* pread and pwrite leave the descriptor where it was.
LEMMA PreadKept ==
  ASSUME Types, NEW fd \in Fds, NEW k \in Lengths, NEW pos \in Lengths, pread(fd, k, pos)
  PROVE  AllKept
<1>1. /\ OpenFd(fd) /\ SetFile(fd, AfterPread(files[fd], k, pos))
      /\ UNCHANGED <<tree, host, data, streams>>
  BY DEF pread, fsVars
<1>2. files[fd] \in Descriptor /\ k \in Nat /\ DataTypes /\ DataTypes'
  BY <1>1, IsDescriptor, FilesAssumption DEF OpenFd, Types, Lengths, DataTypes
<1> DEFINE o == files[fd]
           s == Sought(o, pos)
           r == AfterRead(s, k)
           q == Sought(r, o.offset)
<1>3. s \in Descriptor /\ SameFile(o, s)
  BY <1>2, SoughtIs
<1>4. r \in Descriptor /\ SameFile(s, r)
  <2> HIDE DEF s
  <2> QED BY <1>2, <1>3, AfterReadIs
<1>5. o.offset \in Lengths
  BY <1>2 DEF Descriptor
<1>6. q \in Descriptor /\ SameFile(r, q) /\ q.offset = o.offset /\ q.reached_eof = FALSE
  <2> HIDE DEF r, o
  <2> QED BY <1>4, <1>5, SoughtIs
<1>7. SetFile(fd, q)
  BY <1>1 DEF AfterPread
<1> HIDE DEF s, r, q
<1>8. SameFile(o, q)
  BY <1>3, <1>4, <1>6, Zenon DEF SameFile
<1> QED BY <1>1, <1>2, <1>6, <1>7, <1>8, FdStaysKept

LEMMA PwriteKept ==
  ASSUME Types, NEW fd \in Fds, NEW k \in Lengths, NEW pos \in Lengths, pwrite(fd, k, pos)
  PROVE  AllKept
<1> DEFINE o == files[fd]
           s == Sought(o, pos)
           q == Sought(o, o.offset)
<1>1. CASE \E site : Panic(site)
  BY <1>1, PanicKept
<1>2. CASE /\ WriteAt(s) + k <= MaxLen
           /\ data' = IF WriteFails(o) THEN data ELSE Written(s, k)
           /\ SetFile(fd, q) /\ UNCHANGED <<tree, host, streams>>
  <2>1. OpenFd(fd)
    BY DEF pwrite
  <2>2. o \in Descriptor /\ k \in Nat /\ DataTypes
    BY <2>1, IsDescriptor, FilesAssumption DEF OpenFd, Types, Lengths
  <2>3. s \in Descriptor /\ SameFile(o, s)
    BY <2>2, SoughtIs
  <2>4. o.offset \in Lengths
    BY <2>2 DEF Descriptor
  <2>5. q \in Descriptor /\ SameFile(o, q) /\ q.offset = o.offset /\ q.reached_eof = FALSE
    <3> HIDE DEF o
    <3> QED BY <2>2, <2>4, SoughtIs
  <2>6. /\ Written(s, k) \in [Inodes -> FileRecord]
        /\ \A i \in Inodes : Written(s, k)[i].dirty => data[i].dirty \/ (s.kind = "file" /\ i = s.inode)
    <3> HIDE DEF s
    <3> QED BY <1>2, <2>2, <2>3, WrittenIs
  <2> HIDE DEF s, q
  <2>7. DataTypes' /\ \A i \in Inodes : data'[i].dirty =>
          data[i].dirty \/ (files[fd].kind = "file" /\ files[fd].writable /\ i = files[fd].inode)
    <3>1. CASE WriteFails(o)
      BY <3>1, <1>2, <2>2 DEF DataTypes
    <3>2. CASE ~WriteFails(o)
      <4>1. o.kind = "file" => o.writable
        BY <3>2 DEF WriteFails
      <4>2. s.kind = o.kind /\ s.inode = o.inode
        BY <2>3 DEF SameFile
      <4>3. data' = Written(s, k)
        BY <3>2, <1>2
      <4> QED BY <4>1, <4>2, <4>3, <2>6 DEF DataTypes
    <3> QED BY <3>1, <3>2
  <2> QED BY <1>2, <2>1, <2>5, <2>7, FdStaysKept
<1>3. \/ \E site : Panic(site)
      \/ /\ WriteAt(s) + k <= MaxLen
         /\ data' = IF WriteFails(o) THEN data ELSE Written(s, k)
         /\ SetFile(fd, q) /\ UNCHANGED <<tree, host, streams>>
  BY DEF pwrite
<1> QED BY <1>1, <1>2, <1>3

LEMMA WriteKept ==
  ASSUME Types, NEW fd \in Fds, NEW k \in Lengths, write(fd, k)
  PROVE  Types' /\ (~IsStreams(fd) => AllKept)
<1> DEFINE o == files[fd]
           q == AfterWrite(o, k)
<1>1. CASE \E site : Panic(site)
  <2>1. AllKept
    BY <1>1, PanicKept
  <2> QED BY <2>1 DEF AllKept
<1>2. CASE /\ ~WriteFails(o) /\ WriteAt(o) + k <= MaxLen
           /\ data' = Written(o, k) /\ SetFile(fd, q) /\ UNCHANGED <<tree, host, streams>>
  <2>1. OpenFd(fd)
    BY DEF write
  <2>2. o \in Descriptor /\ k \in Nat /\ DataTypes
    BY <2>1, IsDescriptor, FilesAssumption DEF OpenFd, Types, Lengths
  <2>3. q \in Descriptor /\ SameFile(o, q)
    BY <1>2, <2>2, AfterWriteIs
  <2>4. /\ Written(o, k) \in [Inodes -> FileRecord]
        /\ \A i \in Inodes : Written(o, k)[i].dirty => data[i].dirty \/ (o.kind = "file" /\ i = o.inode)
    BY <1>2, <2>2, WrittenIs
  <2>5. DataTypes' /\ \A i \in Inodes : data'[i].dirty =>
          data[i].dirty \/ (files[fd].kind = "file" /\ files[fd].writable /\ i = files[fd].inode)
    BY <1>2, <2>4 DEF DataTypes, WriteFails
  <2> HIDE DEF q
  <2> QED BY <1>2, <2>1, <2>3, <2>5, FdOnlyKept
<1>3. \/ \E site : Panic(site)
      \/ /\ ~WriteFails(o) /\ WriteAt(o) + k <= MaxLen
         /\ data' = Written(o, k) /\ SetFile(fd, q) /\ UNCHANGED <<tree, host, streams>>
  BY DEF write
<1> QED BY <1>1, <1>2, <1>3

LEMMA CloseKept ==
  ASSUME Types, NEW fd \in Fds, close(fd)
  PROVE  Types' /\ (~IsStreams(fd) => AllKept)
<1>1. files[fd].open /\ UNCHANGED <<tree, host, streams>>
  BY DEF close, closes, OpenFd
<1>2. data' = Synced(files[fd], data) /\ SetFile(fd, Closed)
  BY DEF close, closes
<1>3. FdTypes /\ DataTypes /\ StreamTypes
  BY DEF Types
<1>4. files[fd] \in Descriptor /\ ~Closed.open
  BY <1>1, <1>3, IsDescriptor DEF Closed
<1>5. DataTypes'
  BY <1>2, <1>3, <1>4, SyncedIs DEF DataTypes
<1>6. FdTypes' /\ files' = [files EXCEPT ![fd] = Closed]
  BY <1>2, <1>3, <1>4, SetFdTypes DEF SetFile
<1>7. Types'
  BY <1>1, <1>5, <1>6 DEF Types, TreeTypes, StreamTypes
<1>8. Flush => Flush'
  BY <1>1, <1>2, <1>3, <1>6, ClosedFlush
<1>9. ~IsStreams(fd) /\ StreamInv => StreamInv'
  BY <1>1, <1>3, <1>6, OtherFdStreams
<1> QED BY <1>1, <1>7, <1>8, <1>9, TreeKept DEF AllKept

\* Calls that only change the data of a file.
LEMMA DataOnlyKept ==
  ASSUME Types, UNCHANGED <<tree, host, files, nfiles, streams>>, DataTypes',
         \A i \in Inodes : data'[i].dirty =>
           data[i].dirty \/ \E fd \in Fds : files[fd].open /\ files[fd].kind = "file" /\ files[fd].writable
                                           /\ files[fd].inode = i
  PROVE  AllKept
<1>1. Types'
  BY DEF Types, TreeTypes, FdTypes, StreamTypes
<1>2. ASSUME Flush PROVE Flush'
  <2>1. \A i \in Inodes : data'[i].dirty =>
          data[i].dirty \/ \E fd \in Fds : files[fd].open /\ files[fd].inode = i /\ files[fd].needs_flush
    BY <1>2 DEF Flush, Flushing
  <2> QED BY <1>2, <2>1, FlushKept
<1> QED BY <1>1, <1>2, TreeKept, StreamsKept DEF AllKept

LEMMA FsyncKept ==
  ASSUME Types, NEW fd \in Fds, fsync(fd)
  PROVE  AllKept
<1>1. /\ files[fd].open /\ files[fd].kind = "file"
      /\ data' = [data EXCEPT ![files[fd].inode].dirty = FALSE]
      /\ UNCHANGED <<tree, host, files, nfiles, streams>>
  BY DEF fsync, OpenFd, fdVars
<1>2. FdTypes /\ DataTypes
  BY DEF Types
<1>3. PICK i \in Inodes : i = files[fd].inode
  <2>1. files[fd] \in Descriptor
    BY <1>1, <1>2, IsDescriptor
  <2> QED BY <2>1, <1>1 DEF Descriptor
<1>4. data' = [data EXCEPT ![i].dirty = FALSE]
  BY <1>1, <1>3
<1>5. DataTypes' /\ \A j \in Inodes : data'[j].dirty => data[j].dirty
  BY <1>2, <1>4 DEF DataTypes, FileRecord
<1> QED BY <1>1, <1>5, DataOnlyKept

LEMMA FtruncateKept ==
  ASSUME Types, NEW fd \in Fds, NEW n \in Lengths, ftruncate(fd, n)
  PROVE  AllKept
<1>1. CASE \E site : Panic(site)
  BY <1>1, PanicKept
<1>2. CASE /\ files[fd].open /\ ~WriteFails(files[fd])
           /\ data' = Resized(files[fd], n) /\ UNCHANGED <<tree, host, fdVars, streams>>
  <2>1. FdTypes /\ DataTypes /\ UNCHANGED <<tree, host, files, nfiles, streams>>
    BY <1>2 DEF Types, fdVars
  <2>2. files[fd] \in Descriptor
    BY <1>2, <2>1, IsDescriptor
  <2>3. /\ Resized(files[fd], n) \in [Inodes -> FileRecord]
        /\ \A i \in Inodes : Resized(files[fd], n)[i].dirty =>
             data[i].dirty \/ (files[fd].kind = "file" /\ i = files[fd].inode)
    BY <2>1, <2>2, ResizedIs
  <2>4. DataTypes'
    BY <1>2, <2>3 DEF DataTypes
  <2>5. \A i \in Inodes : data'[i].dirty =>
          data[i].dirty \/ \E d \in Fds : files[d].open /\ files[d].kind = "file" /\ files[d].writable
                                          /\ files[d].inode = i
    BY <1>2, <2>3 DEF WriteFails
  <2> QED BY <2>1, <2>4, <2>5, DataOnlyKept
<1> QED BY <1>1, <1>2, Zenon DEF ftruncate

-----------------------------------------------------------------------------
\* A stream and its descriptor move together.
LEMMA StreamStep ==
  ASSUME Types, NEW f \in Streams, Usable(f),
         NEW n \in Nat, NEW pos \in Int, SetStream(f, n, pos),
         NEW q \in Descriptor, SameFile(FdOf(f), q), SetFile(streams[f].fd, q),
         UNCHANGED <<tree, host>>, DataTypes',
         \A i \in Inodes : data'[i].dirty =>
           data[i].dirty \/ (FdOf(f).kind = "file" /\ FdOf(f).writable /\ i = FdOf(f).inode),
         StreamInv => q.offset = pos /\ (n > 0 => ~q.reached_eof)
  PROVE  AllKept
<1>1. FdTypes /\ StreamTypes
  BY DEF Types
<1>2. streams[f].open /\ files[streams[f].fd].open /\ panic = "no"
  BY DEF Usable, OpenStream, FdOf, Running
<1>3. PICK fd \in Fds : fd = streams[f].fd
  BY <1>1, <1>2, IsStream
<1>4. OpenFd(fd)
  BY <1>1, <1>2, <1>3 DEF OpenFd, Running, FdTypes
<1>5. /\ TreeTypes' /\ DataTypes' /\ FdTypes'
      /\ Mirror => Mirror'
      /\ Flush => Flush'
      /\ files' = [files EXCEPT ![fd] = q]
  <2>1. SetFile(fd, q) /\ SameFile(files[fd], q)
    BY <1>3 DEF FdOf
  <2>2. \A i \in Inodes : data'[i].dirty =>
          data[i].dirty \/ (files[fd].kind = "file" /\ files[fd].writable /\ i = files[fd].inode)
    BY <1>3 DEF FdOf
  <2> QED BY <1>4, <2>1, <2>2, SetFileIs
<1>6. StreamTypes'
  BY <1>1, <1>2, SetStreamIs
<1>7. Types'
  BY <1>5, <1>6 DEF Types
<1>8. ASSUME StreamInv PROVE StreamInv'
  <2>1. q.offset = pos /\ (n > 0 => ~q.reached_eof) /\ files' = [files EXCEPT ![streams[f].fd] = q]
    BY <1>3, <1>5, <1>8
  <2> QED BY <2>1, <1>1, <1>2, <1>8, StreamMoves
<1> QED BY <1>5, <1>7, <1>8 DEF AllKept

\* What a stream that can be used is.
LEMMA UsableIs ==
  ASSUME Types, NEW f \in Streams, Usable(f)
  PROVE  /\ FdOf(f) \in Descriptor /\ FdOf(f).offset \in Lengths /\ FdOf(f).offset \in Nat
         /\ Pushed(f) \in Nat /\ streams[f].pos \in Int
         /\ DataTypes /\ MaxLen \in Nat
         /\ StreamInv => FdOf(f).kind # "random" /\ FdOf(f).offset = streams[f].pos
                         /\ (Pushed(f) > 0 => ~FdOf(f).reached_eof)
<1>1. FdTypes /\ StreamTypes /\ DataTypes
  BY DEF Types
<1>2. streams[f].open /\ FdOf(f).open
  BY DEF Usable, OpenStream
<1>3. streams[f].fd \in Fds /\ Pushed(f) \in Nat /\ streams[f].pos \in Int
  BY <1>1, <1>2, IsStream
<1>4. FdOf(f) \in Descriptor
  BY <1>1, <1>2, <1>3, IsDescriptor DEF FdOf
<1>5. FdOf(f).offset \in Lengths
  BY <1>4 DEF Descriptor
<1>6. FdOf(f).offset \in Nat /\ MaxLen \in Nat
  BY <1>5, FilesAssumption DEF Lengths
<1>7. StreamInv => FdOf(f).kind # "random" /\ FdOf(f).offset = streams[f].pos
                   /\ (Pushed(f) > 0 => ~FdOf(f).reached_eof)
  BY <1>2, Zenon DEF StreamInv, Positions
<1> QED BY <1>1, <1>3, <1>4, <1>5, <1>6, <1>7

\* A read that gives k bytes or fewer, with no byte pushed back.
LEMMA StreamReads ==
  ASSUME Types, NEW f \in Streams, Usable(f), NEW k \in Nat, NEW n \in Nat, NEW b \in Nat,
         StreamInv => n = 0 /\ b = 0,
         SetFile(streams[f].fd, AfterRead(FdOf(f), k)),
         SetStream(f, n, streams[f].pos + b + BytesRead(FdOf(f), k)),
         UNCHANGED <<tree, host, data>>
  PROVE  AllKept
<1> DEFINE o == FdOf(f)
           q == AfterRead(o, k)
           pos == streams[f].pos + b + BytesRead(o, k)
<1>1. /\ o \in Descriptor /\ o.offset \in Nat /\ streams[f].pos \in Int /\ DataTypes
      /\ StreamInv => o.kind # "random" /\ o.offset = streams[f].pos
  BY UsableIs
<1> HIDE DEF o
<1>2. q \in Descriptor /\ SameFile(o, q) /\ (o.kind # "random" => q.offset = o.offset + BytesRead(o, k))
  BY <1>1, AfterReadIs
<1>3. BytesRead(o, k) \in Nat
  BY <1>1, BytesReadIs
<1>4. pos \in Int
  BY <1>1, <1>3
<1>5. DataTypes' /\ \A i \in Inodes : data'[i].dirty => data[i].dirty
  BY <1>1 DEF DataTypes
<1>6. StreamInv => q.offset = pos /\ n = 0
  BY <1>1, <1>2, <1>3
<1>7. SetFile(streams[f].fd, q) /\ SetStream(f, n, pos) /\ SameFile(FdOf(f), q)
  BY <1>2 DEF o
<1> HIDE DEF q, pos
<1>8. StreamInv => q.offset = pos /\ (n > 0 => ~q.reached_eof)
  BY <1>6
<1> QED BY <1>2, <1>4, <1>5, <1>7, <1>8, StreamStep

LEMMA FgetcKept ==
  ASSUME Types, NEW f \in Streams, fgetc(f)
  PROVE  AllKept
<1> DEFINE o == FdOf(f)
<1>1. CASE \E site : Panic(site)
  BY <1>1, PanicKept
<1>2. CASE /\ Pushed(f) > 0 /\ o.open /\ o.offset < MaxLen
           /\ SetFile(streams[f].fd, Sought(o, o.offset + 1))
           /\ SetStream(f, Pushed(f) - 1, streams[f].pos + 1)
           /\ UNCHANGED <<tree, host, data>>
  <2>1. Usable(f)
    BY <1>2 DEF Usable, fgetc
  <2>2. /\ o \in Descriptor /\ o.offset \in Nat /\ MaxLen \in Nat
        /\ Pushed(f) \in Nat /\ streams[f].pos \in Int /\ DataTypes
        /\ StreamInv => o.offset = streams[f].pos
    BY <2>1, UsableIs
  <2> DEFINE at == o.offset + 1
             q == Sought(o, at)
             n == Pushed(f) - 1
             pos == streams[f].pos + 1
  <2>3. at \in Lengths
    BY <1>2, <2>2 DEF Lengths
  <2> HIDE DEF o
  <2>4. q \in Descriptor /\ SameFile(o, q) /\ q.offset = at /\ q.reached_eof = FALSE
    <3> HIDE DEF at
    <3> QED BY <2>2, <2>3, SoughtIs
  <2>5. n \in Nat /\ pos \in Int
    BY <1>2, <2>2
  <2>6. DataTypes' /\ \A i \in Inodes : data'[i].dirty => data[i].dirty
    BY <1>2, <2>2 DEF DataTypes
  <2>7. SetFile(streams[f].fd, q) /\ SetStream(f, n, pos)
    BY <1>2
  <2> HIDE DEF q, n
  <2>8. StreamInv => q.offset = pos /\ (n > 0 => ~q.reached_eof)
    BY <2>2, <2>4
  <2> HIDE DEF pos
  <2> QED BY <1>2, <2>1, <2>4, <2>5, <2>6, <2>7, <2>8, StreamStep DEF o
<1>3. CASE /\ Pushed(f) = 0 /\ o.open
           /\ SetFile(streams[f].fd, AfterRead(o, 1))
           /\ SetStream(f, 0, streams[f].pos + BytesRead(o, 1))
           /\ UNCHANGED <<tree, host, data>>
  <2>1. Usable(f)
    BY <1>3 DEF Usable, fgetc
  <2>2. streams[f].pos \in Int
    BY <2>1, UsableIs
  <2>3. streams[f].pos + 0 = streams[f].pos
    BY <2>2
  <2>4. SetStream(f, 0, streams[f].pos + 0 + BytesRead(o, 1))
    BY <1>3, <2>3
  <2> QED BY <1>3, <2>1, <2>4, StreamReads
<1>4. \/ \E site : Panic(site)
      \/ /\ Pushed(f) > 0 /\ o.open /\ o.offset < MaxLen
         /\ SetFile(streams[f].fd, Sought(o, o.offset + 1))
         /\ SetStream(f, Pushed(f) - 1, streams[f].pos + 1)
         /\ UNCHANGED <<tree, host, data>>
      \/ /\ Pushed(f) = 0 /\ o.open
         /\ SetFile(streams[f].fd, AfterRead(o, 1))
         /\ SetStream(f, 0, streams[f].pos + BytesRead(o, 1))
         /\ UNCHANGED <<tree, host, data>>
  BY DEF fgetc, fsVars
<1> QED BY <1>1, <1>2, <1>3, <1>4

LEMMA UngetcKept ==
  ASSUME Types, NEW f \in Streams, ungetc(f)
  PROVE  AllKept
<1> DEFINE o == FdOf(f)
<1>1. CASE \E site : Panic(site)
  BY <1>1, PanicKept
<1>2. CASE /\ o.open /\ o.offset > 0
           /\ SetFile(streams[f].fd, Sought(o, o.offset - 1))
           /\ SetStream(f, Pushed(f) + 1, streams[f].pos - 1)
           /\ UNCHANGED <<tree, host, data>>
  <2>1. Usable(f)
    BY <1>2 DEF Usable, ungetc
  <2>2. /\ o \in Descriptor /\ o.offset \in Lengths /\ o.offset \in Nat /\ MaxLen \in Nat
        /\ Pushed(f) \in Nat /\ streams[f].pos \in Int /\ DataTypes
        /\ StreamInv => o.offset = streams[f].pos
    BY <2>1, UsableIs
  <2> DEFINE at == o.offset - 1
             q == Sought(o, at)
             n == Pushed(f) + 1
             pos == streams[f].pos - 1
  <2>3. at \in Lengths
    BY <1>2, <2>2 DEF Lengths
  <2> HIDE DEF o
  <2>4. q \in Descriptor /\ SameFile(o, q) /\ q.offset = at /\ q.reached_eof = FALSE
    <3> HIDE DEF at
    <3> QED BY <2>2, <2>3, SoughtIs
  <2>5. n \in Nat /\ pos \in Int
    BY <1>2, <2>2
  <2>6. DataTypes' /\ \A i \in Inodes : data'[i].dirty => data[i].dirty
    BY <1>2, <2>2 DEF DataTypes
  <2>7. SetFile(streams[f].fd, q) /\ SetStream(f, n, pos)
    BY <1>2
  <2> HIDE DEF q, n
  <2>8. StreamInv => q.offset = pos /\ (n > 0 => ~q.reached_eof)
    BY <2>2, <2>4
  <2> HIDE DEF pos
  <2> QED BY <1>2, <2>1, <2>4, <2>5, <2>6, <2>7, <2>8, StreamStep DEF o
<1>3. \/ \E site : Panic(site)
      \/ /\ o.open /\ o.offset > 0
         /\ SetFile(streams[f].fd, Sought(o, o.offset - 1))
         /\ SetStream(f, Pushed(f) + 1, streams[f].pos - 1)
         /\ UNCHANGED <<tree, host, data>>
  BY DEF ungetc, fsVars
<1> QED BY <1>1, <1>2, <1>3

\* fread reads what the pushed-back bytes do not give.
LEMMA FreadKept ==
  ASSUME Types, NEW f \in Streams, NEW k \in Lengths, fread(f, k)
  PROVE  Types' /\ (Pushed(f) = 0 => AllKept)
<1> DEFINE back == Least(k, Pushed(f))
           o == FdOf(f)
           got == IF o.open THEN BytesRead(o, k - back) ELSE 0
<1>1. /\ OpenStream(f)
      /\ SetFile(streams[f].fd, IF o.open /\ back < k THEN AfterRead(o, k - back) ELSE o)
      /\ SetStream(f, Pushed(f) - back, streams[f].pos + back + got)
      /\ UNCHANGED <<tree, host, data>>
  BY DEF fread, fsVars
<1>2. FdTypes /\ StreamTypes /\ DataTypes /\ streams[f].open
  BY <1>1 DEF Types, OpenStream
<1>3. streams[f].fd \in Fds /\ Pushed(f) \in Nat /\ streams[f].pos \in Int /\ k \in Nat
  BY <1>2, IsStream, FilesAssumption DEF Lengths
<1>4. /\ back \in Nat /\ back <= k /\ k - back \in Nat /\ Pushed(f) - back \in Nat
      /\ Pushed(f) = 0 => back = 0 /\ Pushed(f) - back = 0
  BY <1>3 DEF Least
<1> HIDE DEF back, o
<1>5. CASE o.open /\ back < k
  <2>1. Usable(f)
    BY <1>1, <1>5 DEF Usable, o
  <2>2. SetFile(streams[f].fd, AfterRead(o, k - back))
    BY <1>1, <1>5
  <2>3. SetStream(f, Pushed(f) - back, streams[f].pos + back + BytesRead(o, k - back))
    BY <1>1, <1>5
  <2> DEFINE q == AfterRead(o, k - back)
             n == Pushed(f) - back
             pos == streams[f].pos + back + BytesRead(o, k - back)
  <2>4. o \in Descriptor
    BY <2>1, UsableIs DEF o
  <2>5. q \in Descriptor /\ q.open = o.open
    BY <1>2, <1>4, <2>4, AfterReadIs DEF SameFile
  <2>6. pos \in Int /\ n \in Nat
    <3>1. BytesRead(o, k - back) \in Nat
      BY <1>2, <1>4, <2>4, BytesReadIs
    <3> QED BY <3>1, <1>3, <1>4
  <2>7. Types'
    <3> HIDE DEF q, n, pos
    <3>1. SetFile(streams[f].fd, q) /\ SetStream(f, n, pos)
      BY <2>2, <2>3 DEF q, n, pos
    <3>2. q.open => streams[f].fd < nfiles
      BY <1>2, <1>3, <1>5 DEF FdTypes, o, FdOf
    <3>3. FdTypes'
      BY <1>2, <1>3, <2>5, <3>1, <3>2, SetFdTypes
    <3>4. StreamTypes'
      BY <1>2, <2>6, <3>1, SetStreamIs
    <3> QED BY <1>1, <3>3, <3>4 DEF Types, TreeTypes, DataTypes
  <2>8. ASSUME Pushed(f) = 0 PROVE AllKept
    <3> HIDE DEF q, n, pos
    <3>1. back = 0 /\ Pushed(f) - back = 0
      BY <1>4, <2>8
    <3>2. SetStream(f, 0, streams[f].pos + 0 + BytesRead(o, k - 0))
      BY <2>3, <3>1
    <3>3. k - 0 = k
      BY <1>3
    <3>4. SetStream(f, 0, streams[f].pos + 0 + BytesRead(FdOf(f), k)) /\ SetFile(streams[f].fd, AfterRead(FdOf(f), k))
      BY <2>2, <3>1, <3>2, <3>3 DEF o
    <3> QED BY <1>1, <1>3, <2>1, <3>4, StreamReads
  <2> QED BY <2>7, <2>8
<1>6. CASE ~(o.open /\ back < k)
  <2>1. SetFile(streams[f].fd, o)
    BY <1>1, <1>6
  <2>2. files' = files /\ nfiles' = nfiles
    BY <2>1, <1>2, <1>3 DEF SetFile, o, FdOf, FdTypes
  <2>3. got \in Nat /\ (StreamInv /\ Pushed(f) = 0 => got = 0)
    <3>1. CASE ~o.open
      BY <3>1
    <3>2. CASE o.open
      <4>1. Usable(f)
        BY <1>1, <3>2 DEF Usable, o
      <4>2. o \in Descriptor
        BY <4>1, UsableIs DEF o
      <4>3. k - back = 0
        BY <1>3, <1>4, <1>6, <3>2
      <4>4. got = BytesRead(o, 0)
        BY <3>2, <4>3
      <4>5. BytesRead(o, 0) = 0
        <5>1. SizeOf(o) \in Int /\ o.offset \in Int
          <6>1. SizeOf(o) \in Lengths /\ o.offset \in Lengths
            BY <4>2, <1>2, SizeIs DEF Descriptor
          <6> QED BY <6>1 DEF Lengths
        <5> QED BY <5>1 DEF BytesRead, Most, Least
      <4> QED BY <4>4, <4>5
    <3> QED BY <3>1, <3>2
  <2> HIDE DEF got
  <2> DEFINE n == Pushed(f) - back
             pos == streams[f].pos + back + got
  <2>4. SetStream(f, n, pos) /\ n \in Nat /\ pos \in Int
    BY <1>1, <1>3, <1>4, <2>3
  <2>5. /\ Pushed(f) = 0 => n = 0
        /\ StreamInv /\ Pushed(f) = 0 => pos = streams[f].pos
    BY <1>3, <1>4, <2>3
  <2> HIDE DEF n, pos
  <2>6. Types'
    <3>1. StreamTypes'
      BY <1>2, <2>4, SetStreamIs
    <3> QED BY <1>1, <2>2, <3>1 DEF Types, TreeTypes, DataTypes, FdTypes
  <2>7. ASSUME Pushed(f) = 0 PROVE AllKept
    <3>1. Flush => Flush'
      BY <1>1, <2>2, FlushKept
    <3>2. ASSUME StreamInv PROVE StreamInv'
      <4>1. FdOf(f).open
        BY <1>2, <3>2 DEF StreamInv, StreamsOwnFds, FdOf
      <4>2. FdOf(f).offset = streams[f].pos
        BY <1>2, <4>1, <3>2 DEF StreamInv, Positions
      <4>3. PICK x \in Int : x = FdOf(f).offset
        BY <1>3, <4>2
      <4>4. PICK r : r = FdOf(f)
        OBVIOUS
      <4>5. SetStream(f, 0, x)
        BY <2>4, <2>5, <2>7, <3>2, <4>2, <4>3
      <4>6. SameFile(FdOf(f), r) /\ files' = [files EXCEPT ![streams[f].fd] = r]
        BY <1>2, <1>3, <2>2, <4>4 DEF SameFile, FdOf, FdTypes
      <4>7. r.offset = x /\ (0 > 0 => ~r.reached_eof) /\ 0 \in Nat
        BY <4>3, <4>4
      <4> QED BY <1>2, <3>2, <4>5, <4>6, <4>7, StreamMoves
    <3> QED BY <1>1, <2>6, <3>1, <3>2, TreeKept DEF AllKept
  <2> QED BY <2>6, <2>7
<1> QED BY <1>5, <1>6

LEMMA FwriteKept ==
  ASSUME Types, NEW f \in Streams, NEW k \in Lengths, fwrite(f, k)
  PROVE  AllKept
<1> DEFINE o == FdOf(f)
           q == AfterWrite(o, k)
           pos == (IF o.append THEN SizeOf(o) ELSE streams[f].pos) + k
<1>1. CASE \E site : Panic(site)
  BY <1>1, PanicKept
<1>2. CASE /\ ~WritePanics(o) /\ WriteAt(o) + k <= MaxLen
           /\ data' = Written(o, k) /\ SetFile(streams[f].fd, q)
           /\ SetStream(f, Pushed(f), pos) /\ UNCHANGED <<tree, host>>
  <2>1. Usable(f) /\ o.kind # "null" /\ ~WriteFails(o)
    BY DEF fwrite
  <2>2. /\ o \in Descriptor /\ Pushed(f) \in Nat /\ streams[f].pos \in Int /\ DataTypes
        /\ StreamInv => o.offset = streams[f].pos /\ (Pushed(f) > 0 => ~o.reached_eof)
    BY <2>1, UsableIs
  <2>3. k \in Nat
    BY FilesAssumption DEF Lengths
  <2>4. o.kind = "file" /\ o.writable
    BY <1>2, <2>1, <2>2 DEF WritePanics, WriteFails, Descriptor
  <2> HIDE DEF o
  <2>5. q \in Descriptor /\ SameFile(o, q) /\ q.offset = WriteAt(o) + k /\ q.reached_eof = o.reached_eof
    BY <1>2, <2>2, <2>3, <2>4, AfterWriteIs
  <2>6. /\ Written(o, k) \in [Inodes -> FileRecord]
        /\ \A i \in Inodes : Written(o, k)[i].dirty => data[i].dirty \/ (o.kind = "file" /\ i = o.inode)
    BY <1>2, <2>2, <2>3, WrittenIs
  <2>7. SizeOf(o) \in Int
    BY <2>2, SizeIs DEF Lengths
  <2>8. pos \in Int /\ (StreamInv => WriteAt(o) + k = pos)
    BY <2>2, <2>3, <2>7 DEF WriteAt
  <2>9. DataTypes' /\ \A i \in Inodes : data'[i].dirty =>
          data[i].dirty \/ (FdOf(f).kind = "file" /\ FdOf(f).writable /\ i = FdOf(f).inode)
    BY <1>2, <2>4, <2>6 DEF DataTypes, o
  <2> HIDE DEF q, pos
  <2>10. StreamInv => q.offset = pos /\ (Pushed(f) > 0 => ~q.reached_eof)
    BY <2>2, <2>5, <2>8
  <2>11. SameFile(FdOf(f), q)
    BY <2>5 DEF o
  <2> QED BY <1>2, <2>1, <2>2, <2>5, <2>8, <2>9, <2>10, <2>11, StreamStep
<1>3. \/ \E site : Panic(site)
      \/ /\ ~WritePanics(o) /\ WriteAt(o) + k <= MaxLen
         /\ data' = Written(o, k) /\ SetFile(streams[f].fd, q)
         /\ SetStream(f, Pushed(f), pos) /\ UNCHANGED <<tree, host>>
  BY DEF fwrite
<1> QED BY <1>1, <1>2, <1>3

LEMMA FseekKept ==
  ASSUME Types, NEW f \in Streams, NEW pos \in Lengths, fseek(f, pos)
  PROVE  AllKept
<1> DEFINE o == FdOf(f)
           q == Sought(o, pos)
<1>1. /\ Usable(f) /\ SetFile(streams[f].fd, q) /\ SetStream(f, 0, pos)
      /\ UNCHANGED <<tree, host, data>>
  BY DEF fseek, fsVars
<1>2. o \in Descriptor /\ DataTypes /\ pos \in Int
  BY <1>1, UsableIs DEF Lengths
<1>3. q \in Descriptor /\ SameFile(o, q) /\ q.offset = pos
  <2> HIDE DEF o
  <2> QED BY <1>2, SoughtIs
<1>4. DataTypes' /\ \A i \in Inodes : data'[i].dirty => data[i].dirty
  BY <1>1, <1>2 DEF DataTypes
<1> HIDE DEF q
<1> QED BY <1>1, <1>2, <1>3, <1>4, StreamStep

\* ftell and clearerr leave the descriptor where it is.
LEMMA StreamStays ==
  ASSUME Types, NEW f \in Streams, Usable(f), NEW q \in Descriptor, SetFile(streams[f].fd, q),
         UNCHANGED <<tree, host, data, streams>>, SameFile(FdOf(f), q),
         q.offset = FdOf(f).offset, q.reached_eof => FdOf(f).reached_eof
  PROVE  AllKept
<1>1. FdTypes /\ StreamTypes /\ DataTypes
  BY DEF Types
<1>2. streams[f].open /\ files[streams[f].fd].open /\ panic = "no"
  BY DEF Usable, OpenStream, FdOf, Running
<1>3. PICK fd \in Fds : fd = streams[f].fd
  BY <1>1, <1>2, IsStream
<1>4. OpenFd(fd)
  BY <1>1, <1>2, <1>3 DEF OpenFd, Running, FdTypes
<1>5. DataTypes' /\ \A i \in Inodes : data'[i].dirty => data[i].dirty
  BY <1>1 DEF DataTypes
<1>6. SetFile(fd, q) /\ SameFile(files[fd], q)
      /\ q.offset = files[fd].offset /\ (q.reached_eof => files[fd].reached_eof)
  BY <1>3 DEF FdOf
<1> QED BY <1>4, <1>5, <1>6, FdStaysKept

LEMMA FtellKept ==
  ASSUME Types, NEW f \in Streams, ftell(f)
  PROVE  AllKept
<1> DEFINE o == FdOf(f)
           q == Sought(o, o.offset)
<1>1. Usable(f) /\ SetFile(streams[f].fd, q) /\ UNCHANGED <<tree, host, data, streams>>
  BY DEF ftell, fsVars
<1>2. o \in Descriptor /\ o.offset \in Lengths
  BY <1>1, UsableIs
<1>3. q \in Descriptor /\ SameFile(o, q) /\ q.offset = o.offset /\ q.reached_eof = FALSE
  <2> HIDE DEF o
  <2> QED BY <1>2, SoughtIs
<1> HIDE DEF q
<1> QED BY <1>1, <1>3, StreamStays

LEMMA ClearerrKept ==
  ASSUME Types, NEW f \in Streams, clearerr(f)
  PROVE  AllKept
<1> DEFINE o == FdOf(f)
           q == [o EXCEPT !.reached_eof = FALSE]
<1>1. CASE \E site : Panic(site)
  BY <1>1, PanicKept
<1>2. CASE o.open /\ SetFile(streams[f].fd, q) /\ UNCHANGED <<tree, host, data, streams>>
  <2>1. Usable(f)
    BY <1>2 DEF clearerr, Usable
  <2>2. o \in Descriptor
    BY <2>1, UsableIs
  <2> HIDE DEF o
  <2>3. q \in Descriptor /\ SameFile(o, q) /\ q.offset = o.offset
    BY <2>2 DEF Descriptor, SameFile
  <2>4. ~q.reached_eof
    BY <2>2 DEF Descriptor
  <2> HIDE DEF q
  <2> QED BY <1>2, <2>1, <2>3, <2>4, StreamStays DEF o
<1> QED BY <1>1, <1>2, Zenon DEF clearerr, fsVars

LEMMA FcloseKept ==
  ASSUME Types, NEW f \in Streams, fclose(f)
  PROVE  AllKept
<1>1. /\ streams[f].open /\ streams' = [streams EXCEPT ![f] = Closed]
      /\ UNCHANGED <<tree, host>>
  BY DEF fclose, OpenStream, closes, fsVars
<1>2. FdTypes /\ StreamTypes /\ DataTypes
  BY DEF Types
<1>3. PICK fd \in Fds : fd = streams[f].fd
  BY <1>1, <1>2, IsStream
<1>4. StreamTypes' /\ ~streams'[f].open /\ \A g \in Streams \ {f} : streams'[g] = streams[g]
  BY <1>1, <1>2 DEF StreamTypes, Closed
<1>5. CASE files[fd].open
  <2>1. data' = Synced(files[fd], data) /\ SetFile(fd, Closed)
    BY <1>3, <1>5 DEF fclose, closes, FdOf
  <2>2. files[fd] \in Descriptor /\ ~Closed.open
    BY <1>2, <1>5, IsDescriptor DEF Closed
  <2>3. DataTypes'
    BY <2>1, <2>2, <1>2, SyncedIs DEF DataTypes
  <2>4. FdTypes' /\ files' = [files EXCEPT ![fd] = Closed]
    BY <2>1, <2>2, <1>2, SetFdTypes DEF SetFile
  <2>5. Types'
    BY <1>1, <1>4, <2>3, <2>4 DEF Types, TreeTypes
  <2>6. Flush => Flush'
    BY <1>2, <1>5, <2>1, <2>4, ClosedFlush
  <2>7. ASSUME StreamInv PROVE StreamInv'
    <3>1. ASSUME NEW g \in Streams, streams'[g].open
          PROVE  streams'[g] = streams[g] /\ files'[streams[g].fd] = files[streams[g].fd]
      <4>1. g # f /\ streams'[g] = streams[g]
        BY <3>1, <1>4
      <4>2. streams[g].fd \in Fds /\ streams[g].fd # fd
        BY <4>1, <3>1, <1>1, <1>2, <1>3, <2>7, IsStream DEF StreamInv, StreamsOwnFds
      <4> QED BY <4>1, <4>2, <2>4, <1>2 DEF FdTypes
    <3>2. StreamsOwnFds'
      <4>1. ASSUME NEW g \in Streams, streams'[g].open PROVE files'[streams'[g].fd].open
        BY <4>1, <3>1, <2>7 DEF StreamInv, StreamsOwnFds
      <4>2. ASSUME NEW g \in Streams, NEW h \in Streams \ {g}, streams'[g].open, streams'[h].open
            PROVE  streams'[h].fd # streams'[g].fd
        <5>1. streams'[g] = streams[g] /\ streams'[h] = streams[h]
          BY <4>2, <3>1
        <5> QED BY <5>1, <4>2, <2>7 DEF StreamInv, StreamsOwnFds
      <4> QED BY <4>1, <4>2, Zenon DEF StreamsOwnFds
    <3>3. Positions'
      <4>1. ASSUME NEW g \in Streams, streams'[g].open, FdOf(g)'.open
            PROVE  /\ FdOf(g)'.kind # "random" /\ FdOf(g)'.offset = streams'[g].pos
                   /\ Pushed(g)' > 0 => ~FdOf(g)'.reached_eof
        <5>1. FdOf(g)' = FdOf(g) /\ streams'[g] = streams[g] /\ Pushed(g)' = Pushed(g)
          BY <4>1, <3>1, Zenon DEF FdOf, Pushed
        <5> QED BY <5>1, <4>1, <2>7, Zenon DEF StreamInv, Positions
      <4> QED BY <4>1, Zenon DEF Positions
    <3> QED BY <3>2, <3>3 DEF StreamInv
  <2> QED BY <1>1, <2>5, <2>6, <2>7, TreeKept DEF AllKept
<1>6. CASE ~files[fd].open
  <2>1. UNCHANGED <<data, files, nfiles>>
    BY <1>3, <1>6 DEF fclose, FdOf, fsVars, fdVars
  <2>2. Types'
    BY <1>1, <1>4, <2>1, <1>2 DEF Types, TreeTypes, DataTypes, FdTypes
  <2>3. Flush => Flush'
    BY <2>1, FlushKept
  <2>4. ~StreamInv
    BY <1>1, <1>3, <1>6 DEF StreamInv, StreamsOwnFds
  <2> QED BY <1>1, <2>2, <2>3, <2>4, TreeKept DEF AllKept
<1> QED BY <1>5, <1>6

LEMMA FopenKept ==
  ASSUME Types, NEW f \in Streams, NEW p \in Paths, NEW m \in FopenModes, fopen(f, p, m)
  PROVE  AllKept
<1>1. m \in Modes /\ (m.append => Writes(m))
  BY FopenModesAre
<1>2. opens(p, m) /\ ~streams[f].open
  BY DEF fopen
<1>3. /\ TreeTypes' /\ DataTypes' /\ FdTypes'
      /\ Mirror => Mirror'
      /\ Flush => Flush'
      /\ free_fd \in Fds /\ ~files[free_fd].open
      /\ \E o \in Descriptor :
           /\ o.open /\ o.kind # "random" /\ o.offset = 0 /\ ~o.reached_eof
           /\ files' = [files EXCEPT ![free_fd] = o]
  BY <1>1, <1>2, OpensIs
<1>4. PICK fd \in Fds : fd = free_fd
  BY <1>3
<1>5. PICK o \in Descriptor : /\ o.open /\ o.kind # "random" /\ o.offset = 0 /\ ~o.reached_eof
                              /\ files' = [files EXCEPT ![fd] = o]
  BY <1>3, <1>4
<1> DEFINE stream == [open |-> TRUE, fd |-> fd, pushbacks |-> 0, pos |-> 0]
<1>6. streams' = [streams EXCEPT ![f] = stream]
  BY <1>4 DEF fopen
<1>7. stream \in Stream /\ stream.open /\ stream.fd = fd /\ stream.pushbacks = 0 /\ stream.pos = 0
  BY DEF Stream
<1> HIDE DEF stream
<1>8. FdTypes /\ StreamTypes
  BY DEF Types
<1>9. StreamTypes' /\ streams'[f] = stream /\ \A g \in Streams \ {f} : streams'[g] = streams[g]
  BY <1>6, <1>7, <1>8 DEF StreamTypes
<1>10. Types'
  BY <1>3, <1>9 DEF Types
<1>11. files'[fd] = o /\ ~files[fd].open
  BY <1>3, <1>4, <1>5, <1>8 DEF FdTypes
<1>12. ASSUME StreamInv PROVE StreamInv'
  <2>1. ASSUME NEW g \in Streams \ {f}, streams'[g].open
        PROVE  /\ streams'[g] = streams[g] /\ files'[streams[g].fd] = files[streams[g].fd]
               /\ streams[g].fd # fd
    <3>1. streams'[g] = streams[g] /\ streams[g].open
      BY <2>1, <1>9
    <3>2. streams[g].fd \in Fds /\ streams[g].fd # fd
      BY <3>1, <1>8, <1>11, <1>12, IsStream DEF StreamInv, StreamsOwnFds
    <3> QED BY <3>1, <3>2, <1>5, <1>8 DEF FdTypes
  <2>2. StreamsOwnFds'
    <3>1. ASSUME NEW g \in Streams, streams'[g].open PROVE files'[streams'[g].fd].open
      <4>1. CASE g = f
        BY <4>1, <1>5, <1>7, <1>9, <1>11, Zenon
      <4>2. CASE g # f
        BY <4>2, <3>1, <2>1, <1>12, Zenon DEF StreamInv, StreamsOwnFds
      <4> QED BY <4>1, <4>2
    <3>2. ASSUME NEW g \in Streams, NEW h \in Streams \ {g}, streams'[g].open, streams'[h].open
          PROVE  streams'[h].fd # streams'[g].fd
      <4>1. CASE g = f
        BY <4>1, <3>2, <2>1, <1>7, <1>9
      <4>2. CASE h = f
        BY <4>2, <3>2, <2>1, <1>7, <1>9
      <4>3. CASE g # f /\ h # f
        BY <4>3, <3>2, <2>1, <1>12 DEF StreamInv, StreamsOwnFds
      <4> QED BY <4>1, <4>2, <4>3
    <3> QED BY <3>1, <3>2, Zenon DEF StreamsOwnFds
  <2>3. ASSUME NEW g \in Streams, streams'[g].open, FdOf(g)'.open
        PROVE  /\ FdOf(g)'.kind # "random" /\ FdOf(g)'.offset = streams'[g].pos
               /\ Pushed(g)' > 0 => ~FdOf(g)'.reached_eof
    <3>1. CASE g = f
      <4>1. FdOf(g)' = o /\ streams'[g].pos = 0 /\ Pushed(g)' = 0
        BY <3>1, <1>7, <1>9, <1>11 DEF FdOf, Pushed
      <4> QED BY <4>1, <1>5
    <3>2. CASE g # f
      <4>1. FdOf(g)' = FdOf(g) /\ streams'[g] = streams[g] /\ Pushed(g)' = Pushed(g)
        BY <3>2, <2>1, <2>3, Zenon DEF FdOf, Pushed
      <4> QED BY <4>1, <2>3, <1>12, Zenon DEF StreamInv, Positions
    <3> QED BY <3>1, <3>2
  <2>4. Positions'
    BY <2>3, Zenon DEF Positions
  <2> QED BY <2>2, <2>4 DEF StreamInv
<1> QED BY <1>3, <1>10, <1>12 DEF AllKept

-----------------------------------------------------------------------------
\* The invariant holds at first.
LEMMA InitFiles ==
  ASSUME Init
  PROVE  FilesInv
<1>1. ~Closed.open /\ EmptyFile \in FileRecord /\ ~EmptyFile.dirty
  BY FilesAssumption DEF Closed, EmptyFile, FileRecord, Lengths
<1>2. files = [fd \in Fds |-> Closed] /\ nfiles = 0 /\ streams = [f \in Streams |-> Closed]
      /\ data = [i \in Inodes |-> EmptyFile]
  BY DEF Init
<1>3. tree = [p \in Paths |-> CASE p = Documents -> "dir"
                                [] p \in {Root, <<"App">>} -> "fixed_dir"
                                [] p = ArchiveFile -> "fixed_file"
                                [] OTHER -> "none"]
      /\ host = [p \in Paths |-> IF p = Documents THEN "dir" ELSE "none"]
  BY DEF Init
<1>4. Len(Root) = 0 /\ Len(Documents) = 1 /\ Len(<<"App">>) = 1 /\ Len(ArchiveFile) = 2
  BY DEF Root, Documents, ArchiveFile
<1>5. Root # Documents /\ <<"App">> # Documents /\ ArchiveFile # Documents
      /\ Root # ArchiveFile /\ <<"App">> # ArchiveFile
  <2>1. Documents[1] = "Documents" /\ <<"App">>[1] = "App"
    BY DEF Documents
  <2>2. Documents # <<"App">>
    BY <2>1
  <2> QED BY <1>4, <2>2
<1>6. Root \in Paths /\ Documents \in Paths /\ <<"App">> \in Paths /\ ArchiveFile \in Paths
  BY Zenon DEF Paths
<1>7. \A p \in Paths :
        /\ p = Documents => tree[p] = "dir" /\ host[p] = "dir"
        /\ p \in {Root, <<"App">>} => tree[p] = "fixed_dir" /\ host[p] = "none"
        /\ p = ArchiveFile => tree[p] = "fixed_file" /\ host[p] = "none"
        /\ p \notin {Root, Documents, <<"App">>, ArchiveFile} => tree[p] = "none" /\ host[p] = "none"
  BY <1>3, <1>5
<1>8. TreeTypes
  <2>1. \A p \in Paths : tree[p] \in NodeKinds /\ host[p] \in Inodes \cup {"none", "dir"}
    BY <1>7 DEF NodeKinds
  <2> QED BY <2>1, <1>3 DEF TreeTypes
<1>9. Types
  BY <1>1, <1>2, <1>8, FilesAssumption DEF Types, DataTypes, FdTypes, StreamTypes
<1>10. Mirror
  <2>1. /\ parent(Root) = Root /\ parent(Documents) = Root /\ parent(<<"App">>) = Root
        /\ parent(ArchiveFile) = <<"App">>
    <3>1. parent(Root) = Root
      BY DEF parent, Root
    <3>2. parent(Documents) = Root
      BY DEF parent, Root, Documents
    <3>3. parent(<<"App">>) = Root
      BY DEF parent, Root
    <3>4. parent(ArchiveFile) = <<"App">>
      <4> DEFINE s == <<"App", "resource">>
      <4>1. s \in Seq({"App", "resource"}) /\ Len(s) = 2 /\ s[1] = "App"
        OBVIOUS
      <4> HIDE DEF s
      <4>2. SubSeq(s, 1, 1) = [i \in 1 .. 1 |-> s[i]]
        BY <4>1, PrefixIs
      <4>3. [i \in 1 .. 1 |-> s[i]] = <<"App">>
        BY <4>1
      <4>4. parent(s) = SubSeq(s, 1, 1)
        BY <4>1 DEF parent
      <4>5. parent(s) = <<"App">>
        BY <4>2, <4>3, <4>4
      <4> QED BY <4>5 DEF s, ArchiveFile
    <3> QED BY <3>1, <3>2, <3>3, <3>4
  <2>2. \A p \in Paths : tree[p] # "none" => tree[parent(p)] \in {"dir", "fixed_dir"}
    BY <1>6, <1>7, <2>1
  <2>3. \A p \in Paths : (tree[p] = "file" <=> host[p] \in Inodes) /\ (tree[p] = "dir" <=> host[p] = "dir")
    BY <1>5, <1>7, FilesAssumption
  <2>4. MirrorOf(tree, host)
    BY <1>6, <1>7, <2>2, <2>3 DEF MirrorOf
  <2> QED BY <2>4, MirrorIs
<1>11. Flush
  BY <1>1, <1>2 DEF Flush, Flushing, WrittenIsSynced
<1>12. StreamInv
  BY <1>1, <1>2 DEF StreamInv, StreamsOwnFds, Positions
<1> QED BY <1>9, <1>10, <1>11, <1>12 DEF FilesInv

\* A careful guest's call keeps all of it.
LEMMA CarefulKept ==
  ASSUME Types, CarefulCall
  PROVE  AllKept
<1>1. CASE TreeCall
  <2>1. ASSUME NEW p \in Paths, remove(p) \/ mkdir(p) \/ create_dir_all(p) PROVE AllKept
    BY <2>1, RemoveKept, MkdirKept, CreateDirsKept
  <2>2. ASSUME NEW p \in Paths, NEW n \in Lengths, write_file(p, n) \/ truncate(p, n) PROVE AllKept
    BY <2>2, WriteFileKept, TruncateKept
  <2>3. ASSUME NEW p \in Paths, NEW q \in Paths, p # q, rename(p, q) PROVE AllKept
    BY <2>3, RenameKept
  <2> QED BY <1>1, <2>1, <2>2, <2>3, Zenon DEF TreeCall
<1>2. CASE FdCall
  <2>1. ASSUME NEW p \in Paths, NEW m \in Modes, m.append => Writes(m), open(p, m) PROVE AllKept
    BY <2>1, OpenKept
  <2>2. ASSUME NEW kind \in {"null", "random"}, open_device(kind) PROVE AllKept
    BY <2>2, OpenDeviceKept
  <2>3. ASSUME NEW fd \in Fds, fsync(fd) \/ fcntl(fd) PROVE AllKept
    <3>1. CASE fsync(fd)
      BY <3>1, FsyncKept
    <3>2. CASE fcntl(fd)
      BY <3>2, PanicKept DEF fcntl
    <3> QED BY <2>3, <3>1, <3>2
  <2>4. ASSUME NEW fd \in Fds, ~IsStreams(fd), close(fd) PROVE AllKept
    BY <2>4, CloseKept
  <2>5. ASSUME NEW fd \in Fds, NEW n \in Lengths, ftruncate(fd, n) PROVE AllKept
    BY <2>5, FtruncateKept
  <2>6. ASSUME NEW fd \in Fds, NEW n \in Lengths, ~IsStreams(fd), read(fd, n) \/ write(fd, n) \/ lseek(fd, n)
        PROVE  AllKept
    BY <2>6, ReadKept, WriteKept, LseekKept
  <2>7. ASSUME NEW fd \in Fds, NEW n \in Lengths, NEW pos \in Lengths, pread(fd, n, pos) \/ pwrite(fd, n, pos)
        PROVE  AllKept
    BY <2>7, PreadKept, PwriteKept
  <2> QED BY <1>2, <2>1, <2>2, <2>3, <2>4, <2>5, <2>6, <2>7, Zenon DEF FdCall
<1>3. CASE StreamCall
  <2>1. ASSUME NEW f \in Streams, NEW p \in Paths, NEW m \in FopenModes, fopen(f, p, m) PROVE AllKept
    BY <2>1, FopenKept
  <2>2. ASSUME NEW f \in Streams, fgetc(f) \/ ungetc(f) \/ ftell(f) \/ clearerr(f) \/ fclose(f) PROVE AllKept
    BY <2>2, FgetcKept, UngetcKept, FtellKept, ClearerrKept, FcloseKept
  <2>3. ASSUME NEW f \in Streams, NEW n \in Lengths, fwrite(f, n) \/ fseek(f, n) \/ (fread(f, n) /\ Pushed(f) = 0)
        PROVE  AllKept
    BY <2>3, FwriteKept, FseekKept, FreadKept
  <2> QED BY <1>3, <2>1, <2>2, <2>3, Zenon DEF StreamCall
<1> QED BY <1>1, <1>2, <1>3 DEF CarefulCall

\* Any guest's call keeps the types.
LEMMA CarelessKept ==
  ASSUME Types, CarelessCall
  PROVE  Types'
<1>1. ASSUME NEW p \in Paths, rename(p, p) PROVE Types'
  BY <1>1, RenameKept
<1>2. ASSUME NEW p \in Paths, NEW m \in Modes, open(p, m) PROVE Types'
  BY <1>2, OpenKept
<1>3. ASSUME NEW fd \in Fds, close(fd) PROVE Types'
  BY <1>3, CloseKept
<1>4. ASSUME NEW fd \in Fds, NEW n \in Lengths, read(fd, n) \/ write(fd, n) \/ lseek(fd, n) PROVE Types'
  BY <1>4, ReadKept, WriteKept, LseekKept
<1>5. ASSUME NEW f \in Streams, NEW n \in Lengths, fread(f, n) PROVE Types'
  BY <1>5, FreadKept
<1> QED BY <1>1, <1>2, <1>3, <1>4, <1>5, Zenon DEF CarelessCall

LEMMA FilesStep ==
  ASSUME FilesInv, [Next /\ UNCHANGED careful]_<<vars, careful>>
  PROVE  FilesInv'
<1>1. CASE Next /\ UNCHANGED careful
  <2>1. CASE CarefulCall
    <3>1. AllKept
      BY <2>1, CarefulKept DEF FilesInv
    <3> QED BY <1>1, <3>1 DEF FilesInv, AllKept
  <2>2. CASE ~careful /\ CarelessCall
    <3>1. Types'
      BY <2>2, CarelessKept DEF FilesInv
    <3> QED BY <1>1, <2>2, <3>1 DEF FilesInv
  <2> QED BY <1>1, <2>1, <2>2 DEF Next
<1>2. CASE UNCHANGED <<vars, careful>>
  <2>1. UNCHANGED <<fsVars, fdVars, streams>> /\ careful' = careful
    BY <1>2 DEF vars, fsVars, fdVars
  <2> QED BY <2>1, NothingKept DEF FilesInv
<1> QED BY <1>1, <1>2

LEMMA FilesInvAlways == Spec => []FilesInv
<1>1. Init => FilesInv
  BY InitFiles
<1>2. FilesInv /\ [Next /\ UNCHANGED careful]_<<vars, careful>> => FilesInv'
  BY FilesStep
<1> QED BY <1>1, <1>2, PTL DEF Spec

LEMMA FilesInvIs == FilesInv => FilesTrue /\ StreamsTrue
<1> SUFFICES ASSUME FilesInv PROVE FilesTrue /\ StreamsTrue
  OBVIOUS
<1>1. Types /\ (careful => Mirror /\ Flush /\ StreamInv)
  BY DEF FilesInv
<1>2. TypeOK
  <2>1. \A p \in Paths : tree[p] \in NodeKinds /\ host[p] \in Inodes \cup {"none", "dir"}
    BY <1>1 DEF Types, TreeTypes
  <2>2. \A fd \in Fds : files[fd].open => fd < nfiles /\ files[fd].offset \in 0 .. MaxLen
    <3>1. ASSUME NEW fd \in Fds, files[fd].open PROVE fd < nfiles /\ files[fd].offset \in 0 .. MaxLen
      <4>1. files[fd] \in Descriptor
        BY <1>1, <3>1, IsDescriptor DEF Types
      <4> QED BY <1>1, <3>1, <4>1 DEF Types, FdTypes, Descriptor, Lengths
    <3> QED BY <3>1
  <2>3. \A f \in Streams : streams[f].open => streams[f].fd \in Fds /\ streams[f].pushbacks \in Nat
    BY <1>1, IsStream DEF Types, Pushed
  <2> QED BY <1>1, <2>1, <2>2, <2>3 DEF TypeOK, NodeKinds, Types, DataTypes, FdTypes, FileRecord, Lengths
<1>3. careful => HostMirrored /\ WrittenIsSynced
  BY <1>1 DEF Mirror, Flush
<1>4. careful => StreamsOwnFds /\ PositionTrue /\ NoEofBeforePushbacks
  BY <1>1 DEF StreamInv, Positions, PositionTrue, NoEofBeforePushbacks
<1> QED BY <1>2, <1>3, <1>4 DEF FilesTrue, StreamsTrue

\* fs.rs and posix_io.rs: whatever the guest calls, the tables keep their form; for a guest that
\* moves no file onto itself and asks for O_APPEND only to write, the tree in memory and the
\* directory on the host are the same at every step, and nothing written through a descriptor is
\* left unsynced when the last one that may write is closed.
THEOREM FilesAlwaysTrue == Spec => []FilesTrue
BY FilesInvAlways, FilesInvIs, PTL

\* stdio.rs: ungetc, fgetc, fread, fseek, fwrite and calls on other descriptors never leave a
\* careful guest's stream without its descriptor, or its descriptor anywhere but where the C
\* standard says the guest is, and a stream with a byte pushed back is not at its end.
THEOREM StreamsAlwaysTrue == Spec => []StreamsTrue
BY FilesInvAlways, FilesInvIs, PTL
=============================================================================
