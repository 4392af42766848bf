-------------------------------- MODULE OpenAL --------------------------------
(***************************************************************************)
(* OpenAL for the guest (frameworks/openal.rs) over the host's             *)
(* (audio/openal.rs): devices and contexts are guest addresses that stand  *)
(* for host pointers, and every call first makes the host context of the   *)
(* guest's current context current, since the host knows one current       *)
(* context only, which the audio toolbox switches to its own.  Addresses,  *)
(* the guest's and the host's, are used again once they are freed.  The    *)
(* guest has one source and the buffers of AlBuffers in each context.      *)
(***************************************************************************)
EXTENDS ALSource, FiniteSetsExt, TLC

CONSTANTS
  Addr,      \* guest addresses
  HostDev,   \* host devices
  HostCtx,   \* host contexts of the guest
  AlBuffers, \* names of buffers
  MaxCalls   \* calls a guest makes

VARIABLES
  devices,     \* State::devices: guest address -> host device
  contexts,    \* State::contexts: guest address -> [ctx, dev]
  current_ctx, \* State::current_ctx, Nil for a null pointer
  host_current,\* the host library's current context
  al,          \* the host contexts: [dev, dead, gain, src, bufs, err]
  meant,       \* ghost: the host context the guest made current
  want,        \* ghost: the contexts as the guest's calls mean them
  calls, panic
vars == <<devices, contexts, current_ctx, host_current, al, meant, want, calls, panic>>

Nil == "nil"
Own == "audio toolbox"
NewContext(dev) == [dev |-> dev, dead |-> FALSE, gain |-> 1, src |-> NoSource, bufs |-> {}, err |-> FALSE]
Free(S) == S \ (DOMAIN devices \cup DOMAIN contexts)
HostBusy == {devices[d] : d \in DOMAIN devices}

Init ==
  /\ devices = <<>> /\ contexts = <<>> /\ current_ctx = Nil /\ host_current = Nil
  /\ al = (Own :> NewContext(Own)) /\ meant = Nil /\ want = al /\ calls = 0 /\ panic = FALSE

Calls == ~panic /\ calls < MaxCalls /\ calls' = calls + 1
Same == UNCHANGED <<devices, contexts, current_ctx>>

-----------------------------------------------------------------------------
\* Devices.  A name other than the default's is refused (no state changes)
alcOpenDevice(g, h) ==
  /\ Calls /\ g \in Free(Addr) /\ h \in HostDev \ HostBusy
  /\ devices' = devices @@ (g :> h)
  /\ UNCHANGED <<contexts, current_ctx, host_current, al, meant, want, panic>>
\* The host releases the contexts of a device that is closed (external)
Released(cs, dev) == [h \in DOMAIN cs |-> IF cs[h].dev = dev THEN [cs[h] EXCEPT !.dead = TRUE] ELSE cs[h]]
alcCloseDevice(g) ==
  /\ Calls /\ g \in DOMAIN devices
  /\ devices' = [d \in DOMAIN devices \ {g} |-> devices[d]]
  /\ al' = Released(al, devices[g]) /\ want' = Released(want, devices[g])
  /\ host_current' = (IF host_current # Nil /\ al'[host_current].dead THEN Nil ELSE host_current)
  /\ UNCHANGED <<contexts, current_ctx, meant, panic>>

\* Contexts
alcCreateContext(d, g, h) ==
  /\ Calls /\ d \in DOMAIN devices /\ g \in Free(Addr) /\ h \in HostCtx \ DOMAIN al
  /\ contexts' = contexts @@ (g :> [ctx |-> h, dev |-> devices[d]])
  /\ al' = al @@ (h :> NewContext(devices[d])) /\ want' = want @@ (h :> NewContext(devices[d]))
  /\ UNCHANGED <<devices, current_ctx, host_current, meant, panic>>
\* The context's Drop destroys the host's, and its address is free again
Without(f, k) == [x \in DOMAIN f \ {k} |-> f[x]]
alcDestroyContext(c) ==
  LET h == contexts[c].ctx
  IN  /\ Calls /\ c \in DOMAIN contexts
      /\ current_ctx' = (IF current_ctx = c THEN Nil ELSE current_ctx)
      /\ contexts' = Without(contexts, c) /\ al' = Without(al, h) /\ want' = Without(want, h)
      /\ host_current' = (IF host_current = h THEN Nil ELSE host_current)
      /\ meant' = (IF meant = h THEN Nil ELSE meant)
      /\ UNCHANGED <<devices, panic>>
\* An address that is not a context's changes nothing
alcMakeContextCurrent(c) ==
  /\ Calls /\ c \in DOMAIN contexts \cup {Nil}
  /\ current_ctx' = c /\ meant' = (IF c = Nil THEN Nil ELSE contexts[c].ctx)
  /\ UNCHANGED <<devices, contexts, host_current, al, want, panic>>
\* The guest's device is looked for by the host's pointer
alcGetContextsDevice(c) ==
  LET found == {d \in DOMAIN devices : devices[d] = contexts[c].dev}
  IN  IF found = {} THEN Nil ELSE CHOOSE d \in found : TRUE

-----------------------------------------------------------------------------
\* A call on the current context.  Without a valid one it is skipped; the
\* host refuses a context that died with its device, which is an assertion
make_current(h) == h
Call(Op(_), Meaning(_)) ==
  \/ /\ current_ctx \notin DOMAIN contexts
     /\ want' = (IF meant = Nil THEN want ELSE [want EXCEPT ![meant] = Meaning(@)])
     /\ Same /\ UNCHANGED <<host_current, al, meant, panic>>
  \/ /\ current_ctx \in DOMAIN contexts
     /\ LET h == contexts[current_ctx].ctx
            c == make_current(h)
        IN  IF al[h].dead THEN panic' = TRUE /\ UNCHANGED <<host_current, al, want>>
            ELSE /\ host_current' = c /\ al' = [al EXCEPT ![c] = Op(@)]
                 /\ want' = (IF meant = Nil THEN want ELSE [want EXCEPT ![meant] = Meaning(@)])
                 /\ UNCHANGED panic
     /\ Same /\ UNCHANGED meant

Error(c) == [c EXCEPT !.err = TRUE]
OnSource(c, F(_)) == IF HasSource(c.src) THEN [c EXCEPT !.src = F(@)] ELSE Error(c)
alListener(v) == Calls /\ LET Op(c) == [c EXCEPT !.gain = v] IN Call(Op, Op)
alGenSources == Calls /\ LET Op(c) == IF HasSource(c.src) THEN c ELSE [c EXCEPT !.src = NewSource] IN Call(Op, Op)
alDeleteSources == Calls /\ LET Op(c) == OnSource(c, LAMBDA s : NoSource) IN Call(Op, Op)
alSourcePlay == Calls /\ LET Op(c) == OnSource(c, SourcePlay) IN Call(Op, Op)
alSourcePause == Calls /\ LET Op(c) == OnSource(c, SourcePause) IN Call(Op, Op)
alSourceStop == Calls /\ LET Op(c) == OnSource(c, SourceStop) IN Call(Op, Op)
alSourceRewind == Calls /\ LET Op(c) == OnSource(c, SourceRewind) IN Call(Op, Op)
alGenBuffers(b) == Calls /\ LET Op(c) == [c EXCEPT !.bufs = @ \cup {b}] IN Call(Op, Op)
Queued(c, b) == \E i \in DOMAIN c.src.queue : c.src.queue[i] = b
alDeleteBuffers(b) ==
  Calls /\ LET Op(c) == IF b \notin c.bufs \/ Queued(c, b) THEN Error(c) ELSE [c EXCEPT !.bufs = @ \ {b}] IN Call(Op, Op)
alSourceQueueBuffers(b) ==
  /\ Calls
  /\ LET Op(c) == IF b \notin c.bufs THEN Error(c) ELSE OnSource(c, LAMBDA s : [s EXCEPT !.queue = Append(@, b)]) IN Call(Op, Op)
\* No more buffers are unqueued than have been processed, where the host
\* would refuse them all (external)
HostUnqueue(c, n) == IF ~HasSource(c.src) \/ n > Processed(c.src) THEN Error(c) ELSE [c EXCEPT !.src = UnqueuedN(@, n)]
UnqueueCount(c, nb) == IF Processed(c.src) < nb THEN Processed(c.src) ELSE nb
alSourceUnqueueBuffers(nb) ==
  /\ Calls
  /\ LET Op(c) == HostUnqueue(c, UnqueueCount(c, nb))
         Meaning(c) == IF ~HasSource(c.src) THEN Error(c) ELSE [c EXCEPT !.src = UnqueuedN(@, Min({nb, Processed(@)}))]
     IN  Call(Op, Meaning)
\* The error is read and cleared; without a context there is none
alGetError == Calls /\ LET Op(c) == [c EXCEPT !.err = FALSE] IN Call(Op, Op)

\* The audio toolbox plays on a context of its own (make_al_context_current)
make_al_context_current ==
  /\ ~panic /\ host_current # Own /\ host_current' = Own
  /\ UNCHANGED <<devices, contexts, current_ctx, al, meant, want, calls, panic>>
device_plays(h) ==
  /\ ~panic /\ ~al[h].dead /\ al[h].src.state = "playing"
  /\ al' = [al EXCEPT ![h].src = SourceAdvances(@)] /\ want' = [want EXCEPT ![h].src = SourceAdvances(@)]
  /\ Same /\ UNCHANGED <<host_current, meant, calls, panic>>

Next ==
  \/ \E g \in Addr : \E h \in HostDev : alcOpenDevice(g, h)
  \/ \E g \in Addr : alcCloseDevice(g) \/ alcDestroyContext(g)
  \/ \E d, g \in Addr, h \in HostCtx : alcCreateContext(d, g, h)
  \/ \E c \in Addr \cup {Nil} : alcMakeContextCurrent(c)
  \/ alListener(0)
  \/ alGenSources \/ alDeleteSources \/ alSourcePlay \/ alSourcePause \/ alSourceStop \/ alSourceRewind \/ alGetError
  \/ \E b \in AlBuffers : alGenBuffers(b) \/ alDeleteBuffers(b) \/ alSourceQueueBuffers(b)
  \/ \E nb \in 1..2 : alSourceUnqueueBuffers(nb)
  \/ make_al_context_current
  \/ \E h \in DOMAIN al : device_plays(h)
Spec == Init /\ [][Next]_vars

-----------------------------------------------------------------------------
\* Every call reaches the context the guest made current, and no other, though
\* contexts and their addresses come and go and the toolbox switches contexts
\* in between; unqueueing too many buffers is not an error; and a context tells
\* the device it was made for as long as that is open
CallsReachContext ==
  /\ al = want
  /\ \A c \in DOMAIN contexts : ~al[contexts[c].ctx].dead => alcGetContextsDevice(c) # Nil /\ devices[alcGetContextsDevice(c)] = al[contexts[c].ctx].dev
  /\ panic => \E h \in DOMAIN al : al[h].dead
=============================================================================
