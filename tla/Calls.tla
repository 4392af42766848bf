-------------------------------- MODULE Calls --------------------------------
(***************************************************************************)
(* Calls between the host and the guest (abi.rs, cpu.rs): arguments go     *)
(* through four registers and then the stack, values of two words through  *)
(* two consecutive places.  A host function may call guest functions that  *)
(* call host functions, and so on; variadic arguments are only read when   *)
(* the host function asks for them, from the registers as they are then.   *)
(* Words are numbers below Word, bytes below Byte; addresses count words.  *)
(***************************************************************************)
EXTENDS Integers, Sequences, SequencesExt, FiniteSetsExt

CONSTANTS
  Word, Byte,   \* 2^32 and 2^8 in the code
  Top,          \* words of stack
  ArgLists,     \* what functions may be passed: sequences of [t, v]
  Rets,         \* and may return: [t, v]
  Functions,    \* addresses of guest functions, odd for Thumb code
  MaxDepth

VARIABLES
  regs,     \* [r, sp, fp, lr, pc, thumb], r being the four argument registers
  mem,      \* the stack
  frames,   \* the functions that run, the newest last
  right     \* ghost: has everything arrived as it was sent?
vars == <<regs, mem, frames, right>>

return_to_host == 2
Init ==
  /\ regs = [r |-> <<0, 0, 0, 0>>, sp |-> Top, fp |-> 0, lr |-> 0, pc |-> 4, thumb |-> 0]
  /\ mem = [a \in 0..(Top - 1) |-> 0] /\ frames = <<>> /\ right = TRUE

-----------------------------------------------------------------------------
\* Values and words.  Small types are cast to u32 and back: a negative one is
\* extended, reading drops what is beyond the type's width
REG_COUNT(t) == IF t = "u64" THEN 2 ELSE 1
to_regs(a) == IF a.t = "u64" THEN <<a.v % Word, a.v \div Word>> ELSE <<a.v % Word>>
from_regs(t, w) ==
  CASE t = "u64" -> w[1] + Word * w[2]
    [] t = "u32" -> w[1]
    [] t = "u8" -> w[1] % Byte
    [] t = "i8" -> IF w[1] % Byte >= Byte \div 2 THEN (w[1] % Byte) - Byte ELSE w[1] % Byte
    [] t = "bool" -> IF w[1] # 0 THEN 1 ELSE 0
Words(args) == FlattenSeq([i \in DOMAIN args |-> to_regs(args[i])])
RegCount(args) == Len(Words(args))
Types(args) == [i \in DOMAIN args |-> args[i].t]
Values(args) == [i \in DOMAIN args |-> args[i].v]

\* The place of word number `offset': a register, or on the stack
read_word(rg, m, sp, offset) == IF offset < 4 THEN rg.r[offset + 1] ELSE m[sp + offset - 4]
read_next_arg(rg, m, sp, offset, t) == from_regs(t, [i \in 1..REG_COUNT(t) |-> read_word(rg, m, sp, offset + i - 1)])
OffsetOf(ts, i) == FoldLeft(LAMBDA n, t : n + REG_COUNT(t), 0, SubSeq(ts, 1, i - 1))
read_args(rg, m, sp, first, ts) == [i \in DOMAIN ts |-> read_next_arg(rg, m, sp, first + OffsetOf(ts, i), ts[i])]
extend_stack_short(sp, n) == IF n > 5 THEN sp - (n - 5) ELSE sp
extend_stack_for_args(sp, n) == IF n > 4 THEN sp - (n - 4) ELSE sp
\* write_next_arg for all of them, from word `first' on
WithArgs(rg, first, ws) == [rg EXCEPT !.r = [i \in 1..4 |-> IF i - 1 >= first /\ i - first \in DOMAIN ws THEN ws[i - first] ELSE @[i]]]
MemWithArgs(m, sp, first, ws) ==
  [a \in DOMAIN m |-> IF a >= sp /\ (a - sp) + 5 - first \in DOMAIN ws THEN ws[(a - sp) + 5 - first] ELSE m[a]]
\* branch and branch_with_link: the Thumb bit of an address goes to the CPSR
branch(rg, f) == [rg EXCEPT !.pc = f - (f % 2), !.thumb = f % 2]
pc_with_thumb_bit(rg) == rg.pc + rg.thumb
branch_with_link(rg, f, link) == [branch(rg, f) EXCEPT !.lr = link]

-----------------------------------------------------------------------------
\* What is below the stack pointer is nobody's, and counts as zero
Above(m, sp) == [a \in DOMAIN m |-> IF a < sp THEN 0 ELSE m[a]]
InHost == frames = <<>> \/ (frames # <<>> /\ Last(frames).kind = "host")
InGuest == frames # <<>> /\ Last(frames).kind = "guest"
Room(n) == regs.sp - n >= 0 /\ Len(frames) < MaxDepth
\* call_from_host of a GuestFunction: the link register and the frame pointer
\* go to a new stack frame, the arguments below it
FrameFor(rg) == [rg EXCEPT !.sp = @ - 2, !.fp = rg.sp - 2]
call_from_host(f, args) ==
  LET ws == Words(args)
      linked == branch_with_link(FrameFor(regs), f, return_to_host)
      sp == extend_stack_for_args(linked.sp, Len(ws))
      m == [mem EXCEPT ![regs.sp - 2] = regs.fp, ![regs.sp - 1] = regs.lr]
  IN  /\ InHost /\ Room(2 + Len(ws))
      /\ regs' = WithArgs([linked EXCEPT !.sp = sp], 0, ws)
      /\ mem' = MemWithArgs(m, sp, 0, ws)
      /\ frames' = [i \in DOMAIN frames |-> [frames[i] EXCEPT !.called = TRUE]]
                     \o <<[kind |-> "guest", old |-> regs, sp |-> sp, fp |-> linked.fp, called |-> FALSE]>>
      /\ right' = (right /\ read_args(regs', mem', sp, 0, Types(args)) = Values(args))
\* A result; the other argument registers may hold anything then
ResultRegs(ret) == SubSeq(to_regs(ret) \o <<7, 7, 7, 7>>, 1, 4)
\* The guest function returns as the ABI has it, with its stack and frame
\* pointer as they were
Returned(old, now) == [branch(now, pc_with_thumb_bit(old)) EXCEPT !.lr = old.lr, !.sp = old.sp, !.fp = old.fp]
guest_returns(ret) ==
  LET top == Last(frames)
      rg == [regs EXCEPT !.r = ResultRegs(ret), !.sp = top.sp, !.fp = top.fp]
      end == Returned(top.old, branch(rg, rg.lr))
  IN  /\ InGuest /\ regs.lr = return_to_host
      /\ regs' = end /\ frames' = Front(frames) /\ mem' = Above(mem, end.sp)
      /\ right' = (right /\ from_regs(ret.t, SubSeq(end.r, 1, REG_COUNT(ret.t))) = ret.v
                         /\ [end EXCEPT !.r = top.old.r] = top.old)
\* The guest calls a host function: fixed arguments are read at once, others
\* when they are asked for
call_from_guest(args, fixed) ==
  LET ws == Words(args)
      sp == extend_stack_for_args(regs.sp, Len(ws))
      rg == WithArgs([regs EXCEPT !.sp = sp], 0, ws)
      m == MemWithArgs(mem, sp, 0, ws)
      ts == Types(SubSeq(args, 1, fixed))
  IN  /\ InGuest /\ Room(Len(ws)) /\ fixed <= Len(args)
      /\ regs' = rg /\ mem' = m
      /\ frames' = Append(frames, [kind |-> "host", old |-> regs, sp |-> sp, offset |-> OffsetOf(Types(args), fixed + 1),
                                   rest |-> SubSeq(args, fixed + 1, Len(args)), called |-> FALSE])
      /\ right' = (right /\ read_args(rg, m, sp, 0, ts) = Values(SubSeq(args, 1, fixed)))
\* VaList::next.  What is in a register is lost once a guest function ran
va_next ==
  LET top == Last(frames)
      n == Len(frames)
      a == Head(top.rest)
  IN  /\ frames # <<>> /\ InHost /\ top.rest # <<>>
      /\ frames' = [frames EXCEPT ![n].offset = @ + REG_COUNT(a.t), ![n].rest = Tail(@)]
      /\ right' = (right /\ (~top.called \/ top.offset >= 4 => read_next_arg(regs, mem, top.sp, top.offset, a.t) = a.v))
      /\ UNCHANGED <<regs, mem>>
host_returns(ret) ==
  LET top == Last(frames)
  IN  /\ frames # <<>> /\ InHost
      /\ regs' = [regs EXCEPT !.r = ResultRegs(ret), !.sp = top.old.sp]
      /\ frames' = Front(frames) /\ mem' = Above(mem, top.old.sp)
      /\ right' = (right /\ regs.sp = top.sp /\ from_regs(ret.t, SubSeq(regs'.r, 1, REG_COUNT(ret.t))) = ret.v)
\* call_from_host of a host function: no frame; a large result goes to memory
\* on the stack whose address is the first argument
Large == 2
call_host_function(args, large) ==
  LET ws == Words(args)
      first == IF large THEN 1 ELSE 0
      ptr == regs.sp - (IF large THEN Large ELSE 0)
      sp == extend_stack_for_args(ptr, Len(ws))
      rg == WithArgs(WithArgs([regs EXCEPT !.sp = sp], 0, IF large THEN <<ptr>> ELSE <<>>), first, ws)
      m == MemWithArgs(mem, sp, first, ws)
      end == IF large THEN [a \in DOMAIN m |-> IF a \in ptr..(ptr + Large - 1) THEN 5 ELSE m[a]] ELSE m
  IN  /\ InHost /\ Room(Large + Len(ws) + 1)
      /\ mem' = Above(end, regs.sp) /\ regs' = [rg EXCEPT !.r = <<7, 7, 7, 7>>, !.sp = ptr + (IF large THEN Large ELSE 0)]
      /\ right' = (right /\ read_args(rg, m, sp, first, Types(args)) = Values(args)
                         /\ \A a \in regs.sp..(Top - 1) : end[a] = mem[a])
      /\ frames' = [i \in DOMAIN frames |-> [frames[i] EXCEPT !.called = TRUE]]

Next ==
  \/ \E f \in Functions, args \in ArgLists : call_from_host(f, args)
  \/ \E ret \in Rets : guest_returns(ret) \/ host_returns(ret)
  \/ \E args \in ArgLists, n \in {0, 2} : call_from_guest(args, n)
  \/ va_next
  \/ \E args \in ArgLists, large \in BOOLEAN : call_host_function(args, large)
Spec == Init /\ [][Next]_vars

-----------------------------------------------------------------------------
\* Arguments and results arrive as they were sent, whatever their sizes and
\* however deep the calls are nested; a call from the host leaves the stack
\* and frame pointer, the link register, the program counter and its mode as
\* they were; no call touches the stack of its callers; and variadic
\* arguments are what was passed unless they were in registers and a guest
\* function ran first
CallsTrue ==
  /\ right
  /\ \A i \in DOMAIN frames : frames[i].kind = "guest" => mem[frames[i].old.sp - 1] = frames[i].old.lr /\ mem[frames[i].old.sp - 2] = frames[i].old.fp
=============================================================================
