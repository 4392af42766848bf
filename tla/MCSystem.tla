------------------------------ MODULE MCSystem ------------------------------
(***************************************************************************)
(* The machine under the guest in one run: memory, loading and linking of  *)
(* images, the class table, calls between host and guest, the debugger and *)
(* sockets.  A behaviour is that of one of them, the others rest.          *)
(***************************************************************************)
EXTENDS GuestMemory

CONSTANTS
  Guests,
  MaxLive,      \* bound on the allocations alive at once
  File, Main, HostFunctions, HostConstants, Constructors, None, MaxSvc,
  Template, BinClass, Fakes, Category, Proto, Selectors, Nil, Sizes, MaxAdded,
  Word, Byte, Top, ArgLists, Rets, Functions, MaxDepth,
  Threads, MaxPackets,
  Fds, Conns, MaxBytes, MaxCalls
VARIABLES
  guest,
  phase, to_load, visited, bins, image, word, stub, la_symbol_ptr, linked_host_functions,
  non_lazy_host_functions, constants_to_link_later, called,
  class_phase, linked, superclass, methods, layout, class_protocols, added,
  regs, mem, frames, right,
  thread, cur, stepping, halted, wire, sock, buf, out, dbg, code, cache, asked, fresh, packets, stopped,
  files, sockets, conn, backlog, ready, sent, got, calls, panic

K == INSTANCE Linking
C == INSTANCE Classes WITH phase <- class_phase
A == INSTANCE Calls
D == INSTANCE Debugger WITH panic <- stopped
S == INSTANCE Sockets
link_vars == <<phase, to_load, visited, bins, image, word, stub, la_symbol_ptr, linked_host_functions,
               non_lazy_host_functions, constants_to_link_later, called>>
class_vars == <<class_phase, linked, superclass, methods, layout, class_protocols, added>>
call_vars == <<regs, mem, frames, right>>
debug_vars == <<thread, cur, stepping, halted, wire, sock, buf, out, dbg, code, cache, asked, fresh, packets, stopped>>
socket_vars == <<files, sockets, conn, backlog, ready, sent, got, calls, panic>>
all_vars == <<vars, link_vars, class_vars, call_vars, debug_vars, socket_vars, guest>>

\* Those that rest are in one state
Rests ==
  /\ \A n \in DOMAIN layout : guest # "classes" \/ n \in {"FBView", "Lost"} => layout[n].size = 0
  /\ guest # "sockets" => files = <<>>
  /\ guest # "debugger" => cur = CHOOSE t \in Threads : TRUE
MCInit == guest \in Guests /\ Init /\ K!Init /\ C!Init /\ A!Init /\ D!Init /\ S!Init /\ Rests
MCNext ==
  /\ \/ guest = "memory" /\ Next /\ UNCHANGED <<link_vars, class_vars, call_vars, debug_vars, socket_vars>>
     \/ guest = "images" /\ K!Next /\ UNCHANGED <<vars, class_vars, call_vars, debug_vars, socket_vars>>
     \/ guest = "classes" /\ C!Next /\ UNCHANGED <<vars, link_vars, call_vars, debug_vars, socket_vars>>
     \/ guest = "calls" /\ A!Next /\ UNCHANGED <<vars, link_vars, class_vars, debug_vars, socket_vars>>
     \/ guest = "debugger" /\ D!Next /\ UNCHANGED <<vars, link_vars, class_vars, call_vars, socket_vars>>
     \/ guest = "sockets" /\ S!Next /\ UNCHANGED <<vars, link_vars, class_vars, call_vars, debug_vars>>
  /\ UNCHANGED guest
MCSpec == MCInit /\ [][MCNext]_all_vars

\* Bound on the guest's memory
Live == Cardinality(UNION {heaps[z].used \cup heaps[z].external : z \in HeapIds}) + Cardinality(mach) + Cardinality(mmaps)
Bounded == Live <= MaxLive

\* Arguments and results arrive, and stacks and registers are kept (see Calls)
CallsTrue == guest = "calls" => A!CallsTrue
\* The debugger gets one answer per request and no stale code (see Debugger); sockets and
\* connections are accounted for, and what select reports can be used without waiting (see
\* SocketsTracked and ReadyIsReady of Sockets)
PeersServed ==
  /\ guest = "debugger" => D!DebuggerServed
  /\ guest = "sockets" => S!SocketsTracked /\ S!ReadyIsReady
\* What the documentation of wait_for_debugger says of its result (see Debugger)
ContinueResumes == D!ContinueResumes

NullPage == {Chunk(0, 4)}
U(v) == [t |-> "u32", v |-> v]
L(v) == [t |-> "u64", v |-> v]
MCArgLists ==
  {<<>>, <<U(1), L(35), [t |-> "i8", v |-> -2]>>, <<L(18), U(2), L(33), U(3)>>,
   <<U(9), [t |-> "bool", v |-> 1], [t |-> "u8", v |-> 3], U(4), U(15), L(20)>>}
MCRets == {L(37), [t |-> "i8", v |-> -1]}
Cmd(k) == [kind |-> k]
Dep(p) == [kind |-> "dylib", path |-> p]
Seg(ptrs) == [kind |-> "segment", pointers |-> ptrs]
Info(b) == [kind |-> "dyldinfo", binds |-> b]
Entry(old, pc) == [kind |-> "entry", old |-> old, pc |-> pc]
Bind(s, a) == [sym |-> s, addend |-> a]
\* An app with old, one-instruction stubs; libstdc++, which needs libgcc and
\* is needed twice; a name that both libgcc and the host know
MCFile ==
  [p \in {"app", "stdcxx", "gcc"} |->
     CASE p = "app" ->
       [slide |-> 0, is_libstdcxx |-> FALSE, entry_size |-> 4,
        commands |-> <<Seg(<<7>>), Cmd("symtab"), Cmd("dysymtab"), Info(<<Bind("konst", 4), Bind("ctor", 8)>>),
                       Dep("stdcxx"), Dep("gcc"), Dep("UIKit"), Entry(TRUE, 3)>>,
        exports |-> [s \in {"main"} |-> 3], stubs |-> <<"ctor", "both", "puts">>, pointers |-> <<"puts">>,
        relocs |-> <<>>, internal |-> <<7>>, needs |-> {"stdcxx", "gcc", "UIKit"}]
     [] p = "stdcxx" ->
       [slide |-> 100, is_libstdcxx |-> TRUE, entry_size |-> 16,
        commands |-> <<Seg(<<2, 5>>), Cmd("symtab"), Cmd("dysymtab"), Info(<<>>), Dep("gcc")>>,
        exports |-> [s \in {"ctor"} |-> 11], stubs |-> <<"puts", "ctor">>, pointers |-> <<>>,
        relocs |-> <<Bind("both", 0)>>, internal |-> <<2, 5>>, needs |-> {"gcc"}]
     [] OTHER ->
       [slide |-> 200, is_libstdcxx |-> FALSE, entry_size |-> 12,
        commands |-> <<Cmd("symtab"), Cmd("dysymtab"), Dep("stdcxx")>>,
        exports |-> [s \in {"both"} |-> 1], stubs |-> <<"abort">>, pointers |-> <<"konst">>,
        relocs |-> <<>>, internal |-> <<>>, needs |-> {"stdcxx"}]]

HostClass(s, ms) == [super |-> s, methods |-> ms]
MCTemplate ==
  [n \in {"NSObject", "UIView", "UIControl"} |->
     CASE n = "NSObject" -> HostClass("nil", {<<"init", FALSE>>, <<"alloc", TRUE>>})
       [] n = "UIView" -> HostClass("NSObject", {<<"draw", FALSE>>})
       [] OTHER -> HostClass("UIView", {})]
App(s, a, ms, ps) == [super |-> s, align |-> a, methods |-> ms, protocols |-> ps]
\* FBView is replaced by a fake, GKThing has no implementation
MCBinClass ==
  [n \in {"FBView", "Base", "Sub", "Leaf", "Lost"} |->
     CASE n = "FBView" -> App("UIView", 1, {<<"draw", FALSE>>}, {})
       [] n = "Base" -> App("UIView", 1, {<<"init", FALSE>>}, {"P"})
       [] n = "Sub" -> App("Base", 2, {<<"draw", FALSE>>}, {})
       [] n = "Leaf" -> App("Sub", 1, {<<"alloc", TRUE>>}, {"Q"})
       [] OTHER -> App("GKThing", 1, {}, {})]
MCCategory ==
  <<[class |-> "Base", methods |-> {<<"draw", FALSE>>, <<"init", FALSE>>}, protocols |-> {"Q2"}],
    [class |-> "UIView", methods |-> {<<"draw", FALSE>>}, protocols |-> {}],
    [class |-> "Base", methods |-> {<<"draw", FALSE>>}, protocols |-> {}],
    [class |-> "FBView", methods |-> {<<"init", FALSE>>}, protocols |-> {"P"}]>>
\* Q2 is a second definition of Q; P adopts R, which adopts P
MCProto ==
  [p \in {"P", "Q", "Q2", "R"} |->
     CASE p = "P" -> [name |-> "P", adopts |-> {"R"}] [] p = "R" -> [name |-> "R", adopts |-> {"P"}]
       [] OTHER -> [name |-> "Q", adopts |-> {}]]
==============================================================================
