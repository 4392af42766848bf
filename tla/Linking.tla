------------------------------ MODULE Linking ------------------------------
(***************************************************************************)
(* Loading of Mach-O images (mach_o.rs), of the dynamic libraries they     *)
(* need (environment.rs), and linking (dyld.rs, libc/dlfcn.rs): pointers   *)
(* are bound at the start, constants late, and functions when their stub   *)
(* is first called.                                                        *)
(*                                                                         *)
(* An image file is a record: its load commands in order, where "segment"  *)
(* has a base, a size and pointers to relocate; its exports (symbol to     *)
(* offset); the symbols of its stubs and non-lazy pointers; its external   *)
(* relocations; the libraries it needs.                                    *)
(***************************************************************************)
EXTENDS Integers, Sequences, FiniteSets, SequencesExt, FiniteSetsExt

CONSTANTS
  File,             \* the image files by path
  Main,             \* the path of the app's executable
  HostFunctions,    \* function_exports of the host's libraries
  HostConstants,    \* constant_exports
  Constructors,     \* symbols for which needs_return_this_wrapper
  None,
  MaxSvc            \* bound on the host functions linked
VARIABLES
  phase,            \* "load", "link", "late", "run"
  to_load,          \* dylibs_to_load from next_dylib on
  visited,          \* visited_dylib_paths
  bins,             \* paths of the loaded images, the executable first
  image,            \* what is known of each loaded image (struct MachO)
  word,             \* what the pointers of each image hold
  stub,             \* what each stub does: Lazy, Restored, or call a host function
  la_symbol_ptr,    \* __la_symbol_ptr, by image and slot
  linked_host_functions,
  non_lazy_host_functions,   \* index of the guest function made for a symbol, 0 for none
  constants_to_link_later,
  called            \* the last call the guest made: symbol, and what ran

load_vars == <<to_load, visited, bins, image>>
link_vars == <<word, stub, la_symbol_ptr, linked_host_functions, non_lazy_host_functions, constants_to_link_later>>
vars == <<phase, load_vars, link_vars, called>>
Symbols == HostFunctions \cup HostConstants \cup UNION {DOMAIN File[p].exports : p \in DOMAIN File}
(***************************************************************************)
(* Where a pointer leads.                                                  *)
(***************************************************************************)
Address(kind, sym, at) == [kind |-> kind, sym |-> sym, at |-> at]
Nowhere == Address("none", None, 0)
Host(n) == Address("host", None, n)         \* trampoline with SVC n
Guest(p, s) == Address("guest", s, image[p].exports[s])
Wrapper(s, a) == Address("wrapper", s, a.at)
Constant(s) == Address("constant", s, 0)
Plus(a, addend) == [a EXCEPT !.at = @ + addend]

Lazy == 0           \* SVC_LAZY_LINK
Restored == -1      \* the stub as it was, which jumps to where its pointer leads
NoImage == [done |-> 0, slide |-> 0, exports |-> <<>>, undef |-> <<>>, relocs |-> <<>>, rebased |-> <<>>, entry |-> None]
Init ==
  /\ phase = "load" /\ to_load = <<Main>> /\ visited = {} /\ bins = <<>>
  /\ image = [p \in DOMAIN File |-> NoImage]
  /\ word = [p \in DOMAIN File |-> <<>>] /\ stub = [p \in DOMAIN File |-> <<>>]
  /\ la_symbol_ptr = [p \in DOMAIN File |-> <<>>]
  /\ linked_host_functions = <<>> /\ non_lazy_host_functions = [s \in Symbols |-> 0]
  /\ constants_to_link_later = <<>> /\ called = [sym |-> None, fn |-> None, by |-> None]

-----------------------------------------------------------------------------
(***************************************************************************)
(* Loading.  load_from_bytes takes the load commands in order.             *)
(***************************************************************************)
\* A path is loaded once; one that is not a bundled library is the host's
next_dylib ==
  /\ phase = "load" /\ to_load # <<>>
  /\ bins # <<>> => image[Last(bins)].done = Len(File[Last(bins)].commands)
  /\ LET p == Head(to_load)
     IN  IF p \in visited \/ p \notin DOMAIN File
         THEN UNCHANGED <<bins, image>>
         ELSE /\ bins' = Append(bins, p)
              /\ image' = [image EXCEPT ![p].slide = File[p].slide]
  /\ visited' = visited \cup {Head(to_load)} /\ to_load' = Tail(to_load)
  /\ UNCHANGED <<phase, link_vars, called>>
Loading == Last(bins)
Command == File[Loading].commands[image[Loading].done + 1]
AtCommand(kind) ==
  /\ phase = "load" /\ bins # <<>> /\ image[Loading].done < Len(File[Loading].commands)
  /\ Command.kind = kind
  /\ UNCHANGED <<phase, visited, bins, link_vars, called>>
Becomes(i) == image' = [image EXCEPT ![Loading] = [i EXCEPT !.done = @ + 1]]
\* Only the segments' own pointers, which DyldInfo relocates, are looked at
segment ==
  /\ AtCommand("segment") /\ UNCHANGED to_load
  /\ Becomes([image[Loading] EXCEPT !.rebased = @ \o Command.pointers])
\* An exported symbol is at its offset in the image as it is placed; the
\* lowest bit says that it is Thumb code
Placed(i, e) == e + i.slide
sym_tab ==
  /\ AtCommand("symtab") /\ UNCHANGED to_load
  /\ LET f == File[Loading]
     IN  Becomes([image[Loading] EXCEPT !.exports = [s \in DOMAIN f.exports |-> Placed(image[Loading], f.exports[s])]])
\* Indirect symbols; external relocations to the image's own symbols are
\* resolved at once
dy_sym_tab ==
  /\ AtCommand("dysymtab") /\ UNCHANGED to_load
  /\ LET f == File[Loading]
     IN  Becomes([image[Loading] EXCEPT !.undef = f.stubs \o f.pointers, !.relocs = @ \o f.relocs])
\* Pointers within the image move with it
dyld_info ==
  /\ AtCommand("dyldinfo") /\ UNCHANGED to_load
  /\ Becomes([image[Loading] EXCEPT !.rebased = [k \in DOMAIN @ |-> Placed(image[Loading], @[k])],
                                    !.relocs = @ \o Command.binds])
load_dylib ==
  /\ AtCommand("dylib")
  /\ to_load' = Append(to_load, Command.path) /\ Becomes(image[Loading])
\* The old command gives the address, the new one an offset into the text
entry_point ==
  /\ AtCommand("entry") /\ UNCHANGED to_load
  /\ image[Loading].entry = None    \* "There should only be a single entry point"
  /\ Becomes([image[Loading] EXCEPT !.entry = IF Command.old THEN Command.pc ELSE Placed(image[Loading], Command.pc)])
loaded ==
  /\ phase = "load" /\ to_load = <<>> /\ image[Loading].done = Len(File[Loading].commands)
  /\ phase' = "link"
  /\ UNCHANGED <<load_vars, link_vars, called>>

-----------------------------------------------------------------------------
(***************************************************************************)
(* Linking at the start, one image after the other (do_initial_linking).   *)
(***************************************************************************)
\* The first image that exports the symbol
Exporter(s) ==
  LET es == {i \in DOMAIN bins : s \in DOMAIN image[bins[i]].exports}
  IN  IF es = {} THEN None ELSE bins[Min(es)]
Link == [functions |-> linked_host_functions, made |-> non_lazy_host_functions,
         later |-> constants_to_link_later, words |-> <<>>]
\* "We want the same symbol name to always point to the same function"
create_proc_address(l, s) ==
  IF l.made[s] # 0 THEN l
  ELSE [l EXCEPT !.functions = Append(@, s), !.made[s] = Len(l.functions) + 1]
\* The value of one pointer; a constant's comes later
BindPointer(l, p, k, s, addend) ==
  LET put(m, a) == [m EXCEPT !.words = Append(@, Plus(a, addend))]
  IN  IF Exporter(s) # None THEN put(l, Guest(Exporter(s), s))
      ELSE IF s \in HostFunctions
      THEN LET m == create_proc_address(l, s) IN put(m, Host(m.made[s]))
      ELSE IF s \in HostConstants
      THEN [put(l, Nowhere) EXCEPT !.later = Append(@, [bin |-> p, at |-> k, sym |-> s, addend |-> addend])]
      ELSE put(l, Nowhere)
\* The relocations of an image first, then its non-lazy pointers
ToBind(p) == image[p].relocs \o [i \in DOMAIN File[p].pointers |-> [sym |-> File[p].pointers[i], addend |-> 0]]
BindAll(p) ==
  FoldLeft(LAMBDA l, k : BindPointer(l, p, k, ToBind(p)[k].sym, ToBind(p)[k].addend), Link, [k \in DOMAIN ToBind(p) |-> k])
\* setup_lazy_linking and do_non_lazy_linking
link_image ==
  /\ phase = "link"
  /\ \E i \in DOMAIN bins :
       /\ stub[bins[i]] = <<>> /\ \A j \in 1 .. i - 1 : stub[bins[j]] # <<>>
       /\ LET p == bins[i] l == BindAll(p)
          IN  /\ stub' = [stub EXCEPT ![p] = [k \in DOMAIN File[p].stubs |-> Lazy]]
              /\ la_symbol_ptr' = [la_symbol_ptr EXCEPT ![p] = [k \in 1 .. Len(File[p].stubs) + 2 |-> Nowhere]]
              /\ word' = [word EXCEPT ![p] = l.words]
              /\ linked_host_functions' = l.functions /\ non_lazy_host_functions' = l.made
              /\ constants_to_link_later' = l.later
              /\ phase' = IF i = Len(bins) THEN "late" ELSE "link"
  /\ UNCHANGED <<load_vars, called>>
do_late_linking ==
  /\ phase = "late" /\ phase' = "run"
  /\ constants_to_link_later' = <<>>
  /\ word' = FoldLeft(LAMBDA w, c : [w EXCEPT ![c.bin][c.at] = Plus(Constant(c.sym), c.addend)], word, constants_to_link_later)
  /\ UNCHANGED <<load_vars, stub, la_symbol_ptr, linked_host_functions, non_lazy_host_functions, called>>

-----------------------------------------------------------------------------
(***************************************************************************)
(* Calls.                                                                  *)
(***************************************************************************)
\* What runs at an address, with the functions linked so far (get_svc_handler)
Runs(fs, a) ==
  CASE a.kind = "host" -> [owner |-> "host", sym |-> fs[a.at]]
    [] a.kind = "wrapper" -> [owner |-> "wrapped", sym |-> a.sym]
    [] a.kind = "guest" -> [owner |-> "guest", sym |-> a.sym]
    [] OTHER -> [owner |-> "nothing", sym |-> None]
Call(s, fn, by) == called' = [sym |-> s, fn |-> fn, by |-> by]
\* A stub of one instruction finds its pointer two slots further than its own
Slot(p, i) == IF File[p].entry_size = 4 THEN i + 2 ELSE i
link_by_restoring_stub(p, i, a) ==
  /\ stub' = [stub EXCEPT ![p][i] = Restored]
  /\ la_symbol_ptr' = [la_symbol_ptr EXCEPT ![p][Slot(p, i)] = a]
  /\ Call(File[p].stubs[i], Runs(linked_host_functions, a), "stub")
  /\ UNCHANGED linked_host_functions
WrapConstructor(s) == Exporter(s) # None /\ File[Exporter(s)].is_libstdcxx /\ s \in Constructors
link_to_host(p, i) ==
  LET s == File[p].stubs[i]
  IN  /\ Len(linked_host_functions) < MaxSvc
      /\ linked_host_functions' = Append(linked_host_functions, s)
      /\ stub' = [stub EXCEPT ![p][i] = Len(linked_host_functions) + 1]
      /\ Call(s, [owner |-> "host", sym |-> s], "stub") /\ UNCHANGED la_symbol_ptr
do_lazy_link(p, i) ==
  /\ phase = "run" /\ i \in DOMAIN stub[p] /\ stub[p][i] = Lazy
  /\ LET s == File[p].stubs[i] e == Exporter(s)
     IN  \/ non_lazy_host_functions[s] # 0
            /\ link_by_restoring_stub(p, i, Host(non_lazy_host_functions[s]))
         \/ /\ non_lazy_host_functions[s] = 0 /\ e # None
            /\ link_by_restoring_stub(p, i, IF WrapConstructor(s) THEN Wrapper(s, Guest(e, s)) ELSE Guest(e, s))
         \/ non_lazy_host_functions[s] = 0 /\ e = None /\ link_to_host(p, i)
  /\ UNCHANGED <<phase, load_vars, word, non_lazy_host_functions, constants_to_link_later>>
\* The stub was linked before
call_stub(p, i) ==
  /\ phase = "run" /\ i \in DOMAIN stub[p] /\ stub[p][i] # Lazy
  /\ Call(File[p].stubs[i],
          Runs(linked_host_functions, IF stub[p][i] = Restored THEN la_symbol_ptr[p][Slot(p, i)] ELSE Host(stub[p][i])),
          "stub")
  /\ UNCHANGED <<phase, load_vars, link_vars>>
\* A call through a pointer that was bound at the start
call_pointer(p, k) ==
  /\ phase = "run" /\ k \in DOMAIN word[p] /\ ToBind(p)[k].addend = 0
  /\ Call(ToBind(p)[k].sym, Runs(linked_host_functions, word[p][k]), "pointer")
  /\ UNCHANGED <<phase, load_vars, link_vars>>
\* dlsym: the images are searched only if no library was named
dlsym(s, library) ==
  /\ phase = "run"
  /\ IF library = None /\ Exporter(s) # None
     THEN Call(s, Runs(linked_host_functions, Guest(Exporter(s), s)), "dlsym") /\ UNCHANGED link_vars
     ELSE /\ s \in HostFunctions
          /\ LET l == create_proc_address(Link, s)
             IN  /\ linked_host_functions' = l.functions /\ non_lazy_host_functions' = l.made
                 /\ Call(s, Runs(l.functions, Host(l.made[s])), "dlsym")
          /\ UNCHANGED <<word, stub, la_symbol_ptr, constants_to_link_later>>
  /\ UNCHANGED <<phase, load_vars>>

Next ==
  \/ next_dylib \/ segment \/ sym_tab \/ dy_sym_tab \/ dyld_info \/ load_dylib \/ entry_point \/ loaded
  \/ link_image \/ do_late_linking
  \/ \E p \in DOMAIN File, i \in 1 .. 4 : do_lazy_link(p, i) \/ call_stub(p, i) \/ call_pointer(p, i)
  \/ \E s \in Symbols, library \in {None, "known"} : dlsym(s, library)
Spec == Init /\ [][Next]_vars

-----------------------------------------------------------------------------
(***************************************************************************)
(* Properties.                                                             *)
(***************************************************************************)
\* Whatever was called or looked up before, a call runs a function of the name
\* it was made by: that of the first image which exports it (wrapped if it is
\* a constructor of libstdc++ called through a stub), else the host's.  The
\* host's is preferred to an image's only once the guest has asked a host
\* library for it.
Expected(s, by) ==
  IF Exporter(s) = None THEN IF s \in HostFunctions THEN {"host"} ELSE {"nothing"}
  ELSE {IF by = "stub" /\ WrapConstructor(s) THEN "wrapped" ELSE "guest"}
       \cup (IF non_lazy_host_functions[s] # 0 THEN {"host"} ELSE {})
CallsRight ==
  called.sym # None =>
    /\ called.fn.owner \in Expected(called.sym, called.by)
    /\ called.fn.owner # "nothing" => called.fn.sym = called.sym

\* When the guest starts, every pointer to something that exists has been
\* bound, with its addend, to where that is after sliding, and each library
\* has been loaded once ("Preserve direct relocations as well as non-lazy
\* symbol pointers", dyld.rs).
PointersBound ==
  phase = "run" =>
    /\ IsInjective(bins)
    /\ \A i \in DOMAIN bins :
         LET p == bins[i] f == File[p]
         IN  /\ \A k \in DOMAIN word[p] :
                  LET b == ToBind(p)[k] e == Exporter(b.sym)
                  IN  /\ e # None => word[p][k] = Address("guest", b.sym, File[e].exports[b.sym] + File[e].slide + b.addend)
                      /\ e = None /\ b.sym \in HostConstants \ HostFunctions => word[p][k] = Address("constant", b.sym, b.addend)
             /\ image[p].rebased = [k \in DOMAIN image[p].rebased |-> f.internal[k] + f.slide]
             /\ \A d \in f.needs \cap DOMAIN File : \E j \in DOMAIN bins : bins[j] = d
=============================================================================
