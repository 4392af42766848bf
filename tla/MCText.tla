-------------------------------- MODULE MCText --------------------------------
(***************************************************************************)
(* The string libraries in one run: a behaviour is that of one of them,    *)
(* the others rest.                                                        *)
(***************************************************************************)
EXTENDS CStrings

CONSTANTS Guests, Chars, MaxLen, Scans, Prints, Bits, Room, Param, Typed, MaxUnits, MaxTyped, MaxScanned
VARIABLES guest, c_text, origin, str, units, text, scanner, scanned
F == INSTANCE Formats WITH text <- c_text
N == INSTANCE NSStrings
format_vars == <<c_text, origin>>
ns_vars == <<str, units, text, scanner, scanned>>
MCInit == guest \in Guests /\ Init /\ F!Init /\ N!Init
MCNext ==
  /\ \/ guest = "c_strings" /\ Next /\ UNCHANGED <<format_vars, ns_vars>>
     \/ guest = "formats" /\ F!Next /\ UNCHANGED <<vars, ns_vars>>
     \/ guest = "ns_strings" /\ N!Next /\ UNCHANGED <<vars, format_vars>>
  /\ UNCHANGED guest
MCSpec == MCInit /\ [][MCNext]_<<guest, vars, format_vars, ns_vars>>

\* Numbers are read and printed as C says, and scanning reads back what was printed: see
\* NumbersRight, ScanAgrees and PrintedRight of Formats
FormatsRight == guest = "formats" => F!NumbersRight /\ F!ScanAgrees /\ F!PrintedRight

MCLetter == <<"a", "b">>
MCBits == "hh" :> 5 @@ "h" :> 4 @@ "" :> 6 @@ "ll" :> 7
Conv(spec, width, mod) == [kind |-> "conv", spec |-> spec, width |-> width, mod |-> mod]
Plain(spec, mod) == Conv(spec, 0, mod)
Literal(c) == [kind |-> "literal", c |-> c]
CharSet(width, inverted, cs) == [kind |-> "set", width |-> width, inverted |-> inverted, cs |-> cs]
MCScans ==
  {<<Plain("d", ""), Literal(","), Plain("d", "h")>>, <<Plain("i", "")>>, <<Plain("x", "")>>,
   <<Conv("x", 2, ""), Conv("x", 2, "hh")>>, <<Plain("s", ""), Literal(" "), Plain("d", "")>>,
   <<Conv("s", 2, ""), Plain("u", "")>>, <<Plain("f", ""), Plain("s", "")>>,
   <<CharSet(0, TRUE, {","}), Literal(","), Plain("d", "")>>, <<CharSet(2, FALSE, {"e", "1"}), Plain("s", "")>>}
MCPrints ==
  {[plus |-> p, zero |-> z, left |-> l, width |-> w, prec |-> q, mod |-> "hh", spec |-> s] :
     p \in BOOLEAN, z \in BOOLEAN, l \in BOOLEAN, w \in {0, 3}, q \in {-1, 0, 2}, s \in {"d", "u", "x"}}
  \cup {[plus |-> FALSE, zero |-> FALSE, left |-> l, width |-> w, prec |-> q, mod |-> "", spec |-> "s"] :
     l \in BOOLEAN, w \in {0, 2}, q \in {-1, 2}}
MCTyped == {"a", "\n", "\r", "/", ".", "-", "1", " "}
MCParam == {<<>>, <<"a">>, <<"A", "b">>, <<"a", "W">>, <<"1", "2">>}
=============================================================================
