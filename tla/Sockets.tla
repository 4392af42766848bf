------------------------------- MODULE Sockets -------------------------------
(***************************************************************************)
(* The sockets of the guest (libc/sys/socket.rs), whose descriptors are    *)
(* those of posix_io.rs: host sockets that never block.  Where a guest     *)
(* thread would have to wait, and where the host reports an error that is  *)
(* not foreseen, the code gives up.  select accepts connections on behalf  *)
(* of a later accept.  The peers and the network are external: clients     *)
(* connect to the one port that can be bound, send, end or reset           *)
(* connections; datagrams may get lost.                                    *)
(***************************************************************************)
EXTENDS Integers, Sequences, FiniteSetsExt, SequencesExt, TLC

CONSTANTS
  Fds,        \* descriptors
  Conns,      \* connections: clients of the guest's port, or of a server
  MaxBytes,   \* bytes a peer sends
  MaxCalls    \* calls of the guest

VARIABLES
  files,      \* descriptors in use: "socket" or "file"
  sockets,    \* State::sockets
  conn,       \* connections at the host: [inp, end]
  backlog,    \* connections that wait at the listener
  ready,      \* ghost: what the last select reported readable, and was not used since
  sent, got,  \* ghost: how many bytes a peer sent and the guest received; bytes are numbered
  calls, panic
vars == <<files, sockets, conn, backlog, ready, sent, got, calls, panic>>

NoOne == "no one"
NoConn == [inp |-> <<>>, end |-> "unused"]
NewSocket(type) == [type |-> type, options |-> {}, bound |-> FALSE, pending |-> NoOne, stream |-> NoOne, udp |-> FALSE,
                    waiting |-> 0]
Init ==
  /\ files \in {<<>>, Min(Fds) :> "file"} /\ sockets = <<>> /\ conn = [c \in Conns |-> NoConn]
  /\ backlog = <<>> /\ ready = {} /\ sent = [c \in Conns |-> 0] /\ got = sent
  /\ calls = 0 /\ panic = FALSE

Calls == ~panic /\ calls < MaxCalls /\ calls' = calls + 1
GivesUp == panic' = TRUE /\ UNCHANGED <<files, sockets, conn, backlog, ready, sent, got>>
GoesOn == UNCHANGED panic
\* find_or_create_socket: the lowest free descriptor
FreeFd == Min(Fds \ DOMAIN files)
Listens(s) == s.type = "stream" /\ s.bound
InUse(type) == \E f \in DOMAIN sockets : sockets[f].type = type /\ sockets[f].bound

-----------------------------------------------------------------------------
socket(type) ==
  /\ Calls /\ Fds \ DOMAIN files # {}
  /\ files' = files @@ (FreeFd :> "socket")
  /\ sockets' = sockets @@ (FreeFd :> NewSocket(type))
  /\ GoesOn /\ UNCHANGED <<conn, backlog, ready, sent, got>>
setsockopt(f) ==
  /\ Calls /\ f \in DOMAIN sockets
  /\ sockets' = [sockets EXCEPT ![f].options = @ \cup {"broadcast"}]
  /\ GoesOn /\ UNCHANGED <<files, conn, backlog, ready, sent, got>>
\* An address in use is an error of the host, a second bind an assertion
bind(f) ==
  LET s == sockets[f]
  IN  /\ Calls /\ f \in DOMAIN sockets
      /\ IF s.udp \/ InUse(s.type) THEN GivesUp
         ELSE /\ sockets' = [sockets EXCEPT ![f].bound = TRUE, ![f].udp = s.type = "dgram"]
              /\ GoesOn /\ UNCHANGED <<files, conn, backlog, ready, sent, got>>
\* listen changes nothing.  A server that refuses is an error of the host
connect(f, c, ok) ==
  /\ Calls /\ f \in DOMAIN sockets /\ conn[c].end = "unused"
  /\ IF sockets[f].type # "stream" \/ sockets[f].stream # NoOne THEN GivesUp
     ELSE IF ~ok THEN GivesUp
     ELSE /\ sockets' = [sockets EXCEPT ![f].stream = c] /\ conn' = [conn EXCEPT ![c].end = "open"]
          /\ GoesOn /\ UNCHANGED <<files, backlog, ready, sent, got>>

\* select for reading: what can be read (or, for a listener, accepted: that
\* connection is kept for accept) stays in the set.  A datagram socket has to
\* be bound, and nothing ready is only allowed with a timeout of zero.
\* process_set looks at descriptors up to and including n_fds
Considered(S, n_fds) == {f \in S : f <= n_fds}
Readable(f) ==
  LET s == sockets[f]
  IN  CASE s.type = "dgram" -> s.waiting > 0
        [] s.stream # NoOne -> conn[s.stream].inp # <<>> \/ conn[s.stream].end # "open"
        [] OTHER -> backlog # <<>>
Accepts(f) == sockets[f].type = "stream" /\ sockets[f].stream = NoOne /\ backlog # <<>>
NotSelectable(f) ==
  \/ f \notin DOMAIN sockets
  \/ sockets[f].type = "dgram" /\ ~sockets[f].udp
  \/ sockets[f].type = "stream" /\ sockets[f].stream = NoOne /\ ~sockets[f].bound
  \/ Accepts(f) /\ sockets[f].pending # NoOne
Pending(f) == [sockets EXCEPT ![f].pending = Head(backlog)]
select_read(S, n_fds, should_block) ==
  LET C == Considered(S, n_fds)
      R == {f \in C : Readable(f)}
  IN  /\ Calls /\ S # {}
      /\ IF (\E f \in C : NotSelectable(f)) \/ (should_block /\ R # C) THEN GivesUp
         ELSE /\ ready' = R
              /\ IF \E f \in C : Accepts(f)
                   THEN /\ sockets' = Pending(CHOOSE f \in C : Accepts(f))
                        /\ backlog' = Tail(backlog)
                   ELSE UNCHANGED <<sockets, backlog>>
              /\ GoesOn /\ UNCHANGED <<files, conn, sent, got>>
\* select for writing: connected or bound is writable; a listener is refused
Writable(f) == IF sockets[f].type = "stream" THEN sockets[f].stream # NoOne ELSE sockets[f].udp
select_write(S, n_fds, should_block) ==
  LET C == Considered(S, n_fds)
  IN  /\ Calls /\ S # {}
      /\ IF \E f \in C : f \notin DOMAIN sockets \/ Listens(sockets[f]) \/ (should_block /\ ~Writable(f)) THEN GivesUp
         ELSE GoesOn /\ UNCHANGED <<files, sockets, conn, backlog, ready, sent, got>>
\* select for errors: a connected stream that has none
select_error(S, n_fds) ==
  /\ Calls /\ S # {}
  /\ IF \E f \in Considered(S, n_fds) : f \notin DOMAIN sockets \/ Listens(sockets[f]) \/ sockets[f].stream = NoOne THEN GivesUp
     ELSE GoesOn /\ UNCHANGED <<files, sockets, conn, backlog, ready, sent, got>>

\* accept takes the connection that select accepted; without one, waiting
\* and accepting on the spot are not implemented.  The host knows no peer of
\* a connection that was reset meanwhile (external), which is an unwrap
HasNoPeer(c) == conn[c].end = "reset"
accept(f) ==
  LET s == sockets[f]
  IN  /\ Calls /\ f \in DOMAIN sockets /\ Fds \ DOMAIN files # {}
      /\ IF s.type # "stream" \/ s.pending = NoOne \/ HasNoPeer(s.pending) THEN GivesUp
         ELSE /\ files' = files @@ (FreeFd :> "socket")
              /\ sockets' = [sockets EXCEPT ![f].pending = NoOne] @@ (FreeFd :> [NewSocket("stream") EXCEPT !.stream = s.pending])
              /\ ready' = ready \ {f} /\ GoesOn /\ UNCHANGED <<conn, backlog, sent, got>>
\* recvfrom: up to n bytes; an ended connection gives 0, a reset one an error
\* (and both again and again); nothing to read is not implemented
TakeBytes(s, n) == Min({n, Len(s)})
recvfrom(f, n) ==
  LET s == sockets[f]
      c == s.stream
      k == TakeBytes(conn[c].inp, n)
  IN  /\ Calls /\ f \in DOMAIN sockets
      /\ IF s.type = "dgram"
           THEN IF s.waiting = 0 THEN GivesUp
                ELSE /\ sockets' = [sockets EXCEPT ![f].waiting = @ - 1] /\ ready' = ready \ {f} /\ GoesOn
                     /\ UNCHANGED <<files, conn, backlog, sent, got>>
         ELSE IF c = NoOne THEN GivesUp
         ELSE IF conn[c].inp = <<>> /\ conn[c].end = "open" THEN GivesUp
         ELSE /\ conn' = [conn EXCEPT ![c].inp = SubSeq(@, k + 1, Len(@))]
              /\ got' = [got EXCEPT ![c] = @ + k]
              /\ ready' = ready \ {f} /\ GoesOn /\ UNCHANGED <<files, sockets, backlog, sent>>
\* send on an unconnected socket is an unwrap; a peer that is gone, or a full
\* buffer, an error of the host
send(f) ==
  /\ Calls
  /\ IF f \notin DOMAIN sockets \/ (f \in DOMAIN sockets /\ sockets[f].stream = NoOne) THEN GivesUp
     ELSE IF conn[sockets[f].stream].end # "open" THEN GivesUp
     ELSE GoesOn /\ UNCHANGED <<files, sockets, conn, backlog, ready, sent, got>>
\* sendto binds a socket that is not bound, if it may broadcast
sendto(f) ==
  /\ Calls
  /\ IF f \notin DOMAIN sockets \/ (f \in DOMAIN sockets /\ (sockets[f].type # "dgram" \/ (~sockets[f].udp /\ sockets[f].options = {})))
       THEN GivesUp
     ELSE /\ sockets' = [sockets EXCEPT ![f].udp = TRUE]
          /\ GoesOn /\ UNCHANGED <<files, conn, backlog, ready, sent, got>>
\* close, and shutdown, which closes: the host's sockets are dropped
Without(m, k) == [x \in DOMAIN m \ {k} |-> m[x]]
Gone(s) == {s.stream, s.pending} \cup (IF Listens(s) THEN Range(backlog) ELSE {})
close(f) ==
  /\ Calls /\ f \in DOMAIN files
  /\ files' = Without(files, f) /\ ready' = ready \ {f}
  /\ IF files[f] = "file" THEN UNCHANGED <<sockets, conn, backlog>>
     ELSE /\ sockets' = Without(sockets, f)
          /\ conn' = [c \in Conns |-> IF c \in Gone(sockets[f]) THEN [inp |-> <<>>, end |-> "dropped"] ELSE conn[c]]
          /\ backlog' = (IF Listens(sockets[f]) THEN <<>> ELSE backlog)
  /\ GoesOn /\ UNCHANGED <<sent, got>>
open ==
  /\ Calls /\ Fds \ DOMAIN files # {} /\ files' = files @@ (FreeFd :> "file")
  /\ GoesOn /\ UNCHANGED <<sockets, conn, backlog, ready, sent, got>>

-----------------------------------------------------------------------------
\* The peers
PeerOnly == ~panic /\ UNCHANGED <<files, sockets, ready, got, calls, panic>>
peer_connects(c) ==
  /\ conn[c].end = "unused" /\ InUse("stream")
  /\ conn' = [conn EXCEPT ![c].end = "open"] /\ backlog' = Append(backlog, c) /\ PeerOnly /\ UNCHANGED sent
peer_sends(c) ==
  /\ conn[c].end = "open" /\ sent[c] < MaxBytes
  /\ conn' = [conn EXCEPT ![c].inp = Append(@, sent[c] + 1)] /\ sent' = [sent EXCEPT ![c] = @ + 1]
  /\ PeerOnly /\ UNCHANGED backlog
peer_ends(c, how) ==
  /\ conn[c].end = "open"
  /\ conn' = [conn EXCEPT ![c].end = how] /\ PeerOnly /\ UNCHANGED <<backlog, sent>>
datagram_arrives(f) ==
  /\ ~panic /\ f \in DOMAIN sockets /\ sockets[f].udp /\ sockets[f].waiting < MaxBytes
  /\ sockets' = [sockets EXCEPT ![f].waiting = @ + 1]
  /\ UNCHANGED <<files, conn, backlog, ready, sent, got, calls, panic>>

Next ==
  \/ \E t \in {"stream", "dgram"} : socket(t)
  \/ \E f \in Fds : \/ setsockopt(f) \/ bind(f) \/ accept(f) \/ send(f) \/ sendto(f) \/ close(f)
                    \/ \E n \in 1..2 : recvfrom(f, n)
  \/ \E f \in Fds, c \in Conns, ok \in BOOLEAN : connect(f, c, ok)
  \/ \E S \in SUBSET Fds, b \in BOOLEAN : \/ select_read(S, Max(Fds) + 1, b) \/ select_write(S, Max(Fds) + 1, b)
  \/ \E S \in SUBSET Fds : select_error(S, Max(Fds) + 1)
  \/ open
  \/ \E c \in Conns : peer_connects(c) \/ peer_sends(c) \/ \E how \in {"ended", "reset"} : peer_ends(c, how)
  \/ \E f \in Fds : datagram_arrives(f)
Spec == Init /\ [][Next]_vars

-----------------------------------------------------------------------------
\* Every descriptor of a socket has its host object and no other has one, a
\* connection belongs to one of them at most, and none is forgotten: it waits
\* at the listener, for accept, or is a stream; and its bytes arrive in order
SocketsTracked ==
  /\ DOMAIN sockets = {f \in DOMAIN files : files[f] = "socket"}
  /\ \A f, g \in DOMAIN sockets : f # g => ({sockets[f].pending, sockets[f].stream} \cap {sockets[g].pending, sockets[g].stream}) \subseteq {NoOne}
  /\ \A c \in Conns : conn[c].end \in {"open", "ended", "reset"} =>
       /\ Cardinality({f \in DOMAIN sockets : c \in {sockets[f].pending, sockets[f].stream}}) + Cardinality({i \in DOMAIN backlog : backlog[i] = c}) = 1
       /\ conn[c].inp = [i \in 1..(sent[c] - got[c]) |-> got[c] + i]

\* A guest that reads and accepts only what select has reported never has to
\* wait in a call that cannot: peeking and accepting early keep what they find
ReadyIsReady ==
  \A f \in ready : f \in DOMAIN sockets /\
    (\/ sockets[f].type = "dgram" /\ sockets[f].waiting > 0
     \/ sockets[f].pending # NoOne
     \/ sockets[f].stream # NoOne /\ (conn[sockets[f].stream].inp # <<>> \/ conn[sockets[f].stream].end # "open"))
=============================================================================
