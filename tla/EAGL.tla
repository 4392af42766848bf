------------------------------- MODULE EAGL --------------------------------
(***************************************************************************)
(* EAGL contexts (frameworks/opengles/eagl.rs, frameworks/opengles.rs):    *)
(* who holds them, the renderbuffers bound to layers, which a sharegroup   *)
(* has in common, the buffers mapped into guest memory (gles_guest.rs) and *)
(* the pace of presentRenderbuffer:.                                       *)
(***************************************************************************)
EXTENDS Integers, FiniteSets, FiniteSetsExt, FiniteSetTheorems, TLAPS

CONSTANTS
  Threads,        \* guest threads
  Contexts,       \* EAGLContexts
  Layers,         \* CAEAGLLayers
  Renderbuffers,  \* renderbuffer names of a sharegroup
  Buffers,        \* buffer object names of a sharegroup
  Interval,       \* 1 / fps_limit, in clock ticks
  MaxTime,        \* bound on the clock
  MaxFrames,      \* bound on the frames of a context
  Nobody          \* nil

VARIABLES
  ctx,        \* refcount and EAGLContextHostObject of each context
  bindings,   \* renderbuffer_drawable_bindings of each sharegroup
  layer,      \* refcount of each layer, and whether the guest holds it
  current,    \* current_ctxs
  mapped,     \* buffers the host has mapped, per sharegroup
  allocs,     \* guest buffers allocated for mappings and not freed
  now,        \* Instant::now()
  shown       \* when each context's first frame was presented, and how many

eagl_vars == <<ctx, bindings, layer, current, mapped, allocs, now, shown>>
Held == <<ctx, bindings, layer, current, mapped, allocs>>

None == -1
NoContext ==
  [made |-> FALSE, refs |-> 0, held |-> FALSE, group |-> Nobody, bound |-> Nobody,
   due |-> None, resources |-> FALSE, mapped_buffers |-> {}]
ContextsInit ==
  /\ ctx = [c \in Contexts |-> NoContext]
  /\ bindings = [c \in Contexts |-> [r \in Renderbuffers |-> Nobody]]
  /\ layer = [l \in Layers |-> [refs |-> 1, held |-> TRUE]]
  /\ current = [t \in Threads |-> Nobody]
  /\ mapped = {} /\ allocs = {}
  /\ now = 0 /\ shown = [c \in Contexts |-> [first |-> None, frames |-> 0]]

Live(c) == ctx[c].refs > 0
Group(x, g) == {c \in Contexts : x[c].refs > 0 /\ x[c].group = g}

\* -[EAGLContext dealloc], for what is left of ctx: the last of a sharegroup
\* (Rc::strong_count) releases the layers its renderbuffers were bound to
LastOfGroup(x, c) == Group(x, x[c].group) = {}
FreedLayers(x, c) ==
  IF LastOfGroup(x, c)
  THEN [l \in Layers |-> Cardinality({r \in Renderbuffers : bindings[x[c].group][r] = l})]
  ELSE [l \in Layers |-> 0]
Dealloc(x, c) ==
  /\ layer' = [l \in Layers |-> [layer[l] EXCEPT !.refs = @ - FreedLayers(x, c)[l]]]
  /\ bindings' = IF LastOfGroup(x, c)
                 THEN [bindings EXCEPT ![x[c].group] = [r \in Renderbuffers |-> Nobody]] ELSE bindings
  /\ allocs' = allocs \ {<<c, b>> : b \in x[c].mapped_buffers}
  /\ ctx' = [x EXCEPT ![c] = [@ EXCEPT !.mapped_buffers = {}, !.resources = FALSE]]
\* The new current context is retained before the old one is released
Swap(retained, released) ==
  LET up == IF retained \in Contexts THEN [ctx EXCEPT ![retained].refs = @ + 1] ELSE ctx
      x == IF released \in Contexts THEN [up EXCEPT ![released].refs = @ - 1] ELSE up
  IN  IF released \in Contexts /\ x[released].refs = 0 THEN Dealloc(x, released)
      ELSE ctx' = x /\ UNCHANGED <<layer, bindings, allocs>>

-----------------------------------------------------------------------------
\* alloc and initWithAPI:, a sharegroup of its own
initWithAPI(c) ==
  /\ ~ctx[c].made
  /\ ctx' = [ctx EXCEPT ![c] = [@ EXCEPT !.made = TRUE, !.refs = 1, !.held = TRUE, !.group = c]]
  /\ UNCHANGED <<bindings, layer, current, mapped, allocs, now, shown>>
\* The host context is made while the other is current, so as to share with
\* it, and the bindings are the same
initWithAPI_sharegroup(c, other) ==
  /\ ~ctx[c].made /\ Live(other)
  /\ ctx' = [ctx EXCEPT ![c] = [@ EXCEPT !.made = TRUE, !.refs = 1, !.held = TRUE,
                                         !.group = ctx[other].group]]
  /\ UNCHANGED <<bindings, layer, current, mapped, allocs, now, shown>>
guest_releases(c) ==
  /\ Live(c) /\ ctx[c].held
  /\ LET x == [ctx EXCEPT ![c].refs = @ - 1, ![c].held = FALSE]
     IN  IF x[c].refs = 0 THEN Dealloc(x, c)
         ELSE ctx' = x /\ UNCHANGED <<layer, bindings, allocs>>
  /\ UNCHANGED <<current, mapped, now, shown>>
guest_releases_layer(l) ==
  /\ layer[l].held
  /\ layer' = [layer EXCEPT ![l] = [refs |-> @.refs - 1, held |-> FALSE]]
  /\ UNCHANGED <<ctx, bindings, current, mapped, allocs, now, shown>>

setCurrentContext(t, c) ==
  /\ c # Nobody => ctx[c].held \/ \E u \in Threads : current[u] = c
  /\ Swap(c, current[t])
  /\ current' = [current EXCEPT ![t] = c]
  /\ UNCHANGED <<mapped, now, shown>>

On(t, c) == current[t] = c /\ c # Nobody
glBindRenderbufferOES(t, r) ==
  /\ \E c \in Contexts : On(t, c) /\ ctx' = [ctx EXCEPT ![c].bound = r]
  /\ UNCHANGED <<bindings, layer, current, mapped, allocs, now, shown>>
\* renderbufferStorage:fromDrawable: on the current context; with nil, and no
\* layer to be found in the windows, the binding goes
Rebind_unreleased(g, r, l) ==
  /\ bindings' = [bindings EXCEPT ![g][r] = l]
  /\ layer' = IF l \in Layers THEN [layer EXCEPT ![l].refs = @ + 1] ELSE layer
Rebind(g, r, l) ==
  LET old == bindings[g][r]
      up == IF l \in Layers THEN [layer EXCEPT ![l].refs = @ + 1] ELSE layer
  IN  /\ bindings' = [bindings EXCEPT ![g][r] = l]
      /\ layer' = IF old \in Layers THEN [up EXCEPT ![old].refs = @ - 1] ELSE up
renderbufferStorage(t, l) ==
  /\ l # Nobody => layer[l].held
  /\ \E c \in Contexts : On(t, c) /\ ctx[c].bound # Nobody /\ Rebind(ctx[c].group, ctx[c].bound, l)
  /\ UNCHANGED <<ctx, current, mapped, allocs, now, shown>>

\* glMapBufferOES: an old mapping of the buffer is undone first.  The host
\* maps a buffer for one context at a time.
glMapBufferOES(t, b) ==
  /\ \E c \in Contexts :
       /\ On(t, c)
       /\ <<ctx[c].group, b>> \in mapped => b \in ctx[c].mapped_buffers
       /\ ctx' = [ctx EXCEPT ![c].mapped_buffers = @ \cup {b}]
       /\ mapped' = mapped \cup {<<ctx[c].group, b>>}
       /\ allocs' = (allocs \ {<<c, b>>}) \cup {<<c, b>>}
  /\ UNCHANGED <<bindings, layer, current, now, shown>>
\* glUnmapBufferOES: only a mapping of this context is copied back and freed
Unmapped(c, b) == [ctx EXCEPT ![c].mapped_buffers = @ \ {b}]
glUnmapBufferOES(t, b) ==
  /\ \E c \in Contexts :
       /\ On(t, c)
       /\ ctx' = Unmapped(c, b)
       /\ mapped' = mapped \ {<<ctx[c].group, b>>}
       /\ allocs' = allocs \ {<<c, b>>}
  /\ UNCHANGED <<bindings, layer, current, now, shown>>

-----------------------------------------------------------------------------
(***************************************************************************)
(* presentRenderbuffer: shows a frame at once and delays the next one.     *)
(***************************************************************************)
CeilDiv(a, b) == (a + b - 1) \div b
limit_framerate_all_slop(due) == IF due = None THEN now + Interval ELSE due + Interval
limit_framerate(due) ==
  IF due = None THEN now + Interval
  ELSE IF now > due + Interval THEN due + Interval * CeilDiv(now - due, Interval)
  ELSE due + Interval
SleepUntil(due) == IF due # None /\ now < due THEN due ELSE now
presentRenderbuffer(t) ==
  \E c \in Contexts :
    /\ On(t, c) /\ ctx[c].bound # Nobody /\ shown[c].frames < MaxFrames
    /\ bindings[ctx[c].group][ctx[c].bound] # Nobody
    /\ now' = SleepUntil(ctx[c].due) /\ now' <= MaxTime
    /\ ctx' = [ctx EXCEPT ![c].due = limit_framerate(@), ![c].resources = TRUE]
    /\ shown' = [shown EXCEPT ![c] = [first |-> IF @.first = None THEN now ELSE @.first,
                                      frames |-> @.frames + 1]]
    /\ UNCHANGED <<bindings, layer, current, mapped, allocs>>
tick == now < MaxTime /\ now' = now + 1 /\ UNCHANGED <<Held, shown>>

Holding ==
  \/ \E c \in Contexts :
       \/ initWithAPI(c) \/ guest_releases(c)
       \/ \E other \in Contexts : initWithAPI_sharegroup(c, other)
  \/ \E l \in Layers : guest_releases_layer(l)
  \/ \E t \in Threads :
       \/ \E c \in Contexts \cup {Nobody} : setCurrentContext(t, c)
       \/ \E r \in Renderbuffers : glBindRenderbufferOES(t, r)
       \/ \E l \in Layers \cup {Nobody} : renderbufferStorage(t, l)
       \/ \E b \in Buffers : glMapBufferOES(t, b) \/ glUnmapBufferOES(t, b)
Pacing == tick \/ \E t \in Threads : presentRenderbuffer(t)
ContextsNext == Holding \/ Pacing
ContextsSpec == ContextsInit /\ [][ContextsNext]_eagl_vars

-----------------------------------------------------------------------------
(***************************************************************************)
(* Properties.                                                             *)
(***************************************************************************)
\* A context has one reference for the guest and one for every thread it is
\* current on; a layer one for the guest and one for every renderbuffer of a
\* living sharegroup that is bound to it; a buffer in guest memory belongs to
\* a living context that lists it.  So nothing dangles (a current context, or
\* a layer a renderbuffer is presented to, is alive) and nothing leaks.
HoldersExact ==
  LET B(b) == IF b THEN 1 ELSE 0
  IN  /\ \A c \in Contexts :
           /\ ctx[c].refs = B(ctx[c].held) + Cardinality({t \in Threads : current[t] = c})
           /\ {b \in Buffers : <<c, b>> \in allocs} = ctx[c].mapped_buffers
           /\ ~Live(c) => ctx[c].mapped_buffers = {} /\ ~ctx[c].resources
      /\ \A l \in Layers :
           layer[l].refs = B(layer[l].held) +
             Cardinality({p \in Contexts \X Renderbuffers : bindings[p[1]][p[2]] = l /\ Group(ctx, p[1]) # {}})
      /\ \A g \in Contexts, r \in Renderbuffers : bindings[g][r] # Nobody => Group(ctx, g) # {}

\* limit_framerate: "allow at most an interval's worth of accumulated slop".
\* However late frames come, n of them take n - 2 intervals at the least; a
\* frame never waits for longer than an interval, and the time at which the
\* next is due is not already past, so that none is made up for later.
Paced ==
  [][\A c \in Contexts :
       shown'[c].frames > shown[c].frames =>
         /\ (shown'[c].frames - 2) * Interval <= now - shown'[c].first
         /\ ctx'[c].due \in now .. now' + Interval]_eagl_vars

-----------------------------------------------------------------------------
(***************************************************************************)
(* The scale hack (frameworks/opengles/gles_guest.rs): renderbuffers, and  *)
(* textures of the size of the screen, are made larger than the guest      *)
(* asked for, and what it says in pixels of the bound framebuffer is       *)
(* scaled.  Tables by name, common to all contexts, tell what was scaled;  *)
(* they are looked at when something is attached.                          *)
(***************************************************************************)
CONSTANTS
  Images,         \* names of renderbuffers and textures
  Textures,       \* which of them are textures
  Framebuffers,   \* names of framebuffers
  ScaleHack,      \* options.scale_hack
  Sizes           \* what the guest says in pixels

VARIABLES
  factor,      \* the host's storage of an image: how much larger than asked (0: none)
  attached,    \* the image attached to each framebuffer
  bound,       \* the framebuffer bound, 0 for the window's
  scaled,      \* scaled_renderbuffers and scaled_textures
  scaled_framebuffers

scale_vars == <<factor, attached, bound, scaled, scaled_framebuffers>>
Nothing == "nothing"
Window == "none"
ScaleInit ==
  /\ factor = [i \in Images |-> 0]
  /\ attached = [f \in Framebuffers |-> Nothing]
  /\ bound = Window /\ scaled = {} /\ scaled_framebuffers = {}

Mark(S, x, b) == IF b THEN S \cup {x} ELSE S \ {x}
framebuffer_should_scale == ScaleHack # 1 /\ (bound = Window \/ bound \in scaled_framebuffers)
Factor == IF framebuffer_should_scale THEN ScaleHack ELSE 1

\* What glViewport and glScissor hand on, and what glGetIntegerv says of it
glViewport(v) == v * Factor
glGetIntegerv(h) == h \div Factor

glBindFramebuffer_scaled(f) ==
  /\ bound' = f
  /\ UNCHANGED <<factor, attached, scaled, scaled_framebuffers>>
\* renderbufferStorage:fromDrawable: does the same
glRenderbufferStorageOES(r) ==
  /\ r \in Images \ Textures
  /\ factor' = [factor EXCEPT ![r] = ScaleHack]
  /\ scaled' = Mark(scaled, r, ScaleHack # 1)
  /\ UNCHANGED <<attached, bound, scaled_framebuffers>>
\* empty: no pixels are given, and the size is that of the screen
glTexImage2D(t, empty) ==
  /\ t \in Textures
  /\ factor' = [factor EXCEPT ![t] = IF empty THEN ScaleHack ELSE 1]
  /\ scaled' = Mark(scaled, t, empty /\ ScaleHack # 1)
  /\ UNCHANGED <<attached, bound, scaled_framebuffers>>
\* The texture becomes a copy of the framebuffer's pixels
glCopyTexImage2D(t) ==
  /\ t \in Textures /\ (bound # Window => attached[bound] \notin {Nothing, t})
  /\ factor' = [factor EXCEPT ![t] = Factor]
  /\ scaled' = Mark(scaled, t, framebuffer_should_scale)
  /\ UNCHANGED <<attached, bound, scaled_framebuffers>>
\* glFramebufferRenderbufferOES, glFramebufferTexture2DOES
Attach(i) ==
  /\ bound # Window
  /\ attached' = [attached EXCEPT ![bound] = i]
  /\ scaled_framebuffers' = Mark(scaled_framebuffers, bound, i \in scaled)
  /\ UNCHANGED <<factor, bound, scaled>>
glDelete(x) ==
  /\ factor' = [i \in Images |-> IF i = x THEN 0 ELSE factor[i]]
  /\ attached' = [f \in Framebuffers |-> IF f = x \/ attached[f] = x THEN Nothing ELSE attached[f]]
  /\ bound' = IF bound = x THEN Window ELSE bound
  /\ UNCHANGED <<scaled, scaled_framebuffers>>

\* The guest gives an image its storage before it attaches it, and not again
\* while it is attached
Specified(i) == \A f \in Framebuffers : attached[f] # i
ScaleNext ==
  \/ \E f \in Framebuffers \cup {Window} : glBindFramebuffer_scaled(f)
  \/ \E i \in Images :
       \/ Specified(i) /\ (glRenderbufferStorageOES(i) \/ glCopyTexImage2D(i))
       \/ Specified(i) /\ \E empty \in BOOLEAN : glTexImage2D(i, empty)
       \/ factor[i] # 0 /\ Attach(i)
  \/ \E x \in Images \cup Framebuffers : glDelete(x)
ScaleSpec == ScaleInit /\ [][ScaleNext]_scale_vars

\* "scale viewport appropriately": what the guest says in pixels of a complete
\* framebuffer reaches the host scaled by what that framebuffer's image was
\* scaled by, whatever has been deleted, re-made and copied before.
Complete(f) == f = Window \/ (attached[f] # Nothing /\ factor[attached[f]] # 0)
StorageFactor(f) == IF f = Window THEN ScaleHack ELSE factor[attached[f]]
ScaledRight ==
  Complete(bound) => \A v \in Sizes : glViewport(v) = v * StorageFactor(bound) /\ glGetIntegerv(glViewport(v)) = v

\* What the proofs rely on: there are finitely many of each, nil is none of them, the limit
\* on frames leaves time between them, and pixels are scaled up
HoldConstants ==
  /\ IsFiniteSet(Threads) /\ IsFiniteSet(Contexts) /\ IsFiniteSet(Renderbuffers)
  /\ Nobody \notin Contexts \cup Layers \cup Renderbuffers
PaceConstants == Interval \in Nat \ {0} /\ MaxTime \in Nat
ScaleConstants ==
  /\ ScaleHack \in Nat \ {0} /\ Sizes \subseteq Nat
  /\ Textures \subseteq Images /\ Nothing \notin Images /\ Window \notin Framebuffers
ASSUME EAGLAssumption == HoldConstants /\ PaceConstants /\ ScaleConstants

-----------------------------------------------------------------------------
(***************************************************************************)
(* Proofs.                                                                 *)
(*                                                                         *)
(* Scaling: an image that has storage is in the table exactly if it was    *)
(* scaled, and so is a framebuffer that has an image.  Entries of images   *)
(* and framebuffers that were deleted stay behind and are not looked at.   *)
(***************************************************************************)
ScaleInv ==
  /\ factor \in [Images -> {0, 1, ScaleHack}]
  /\ attached \in [Framebuffers -> Images \cup {Nothing}]
  /\ bound \in Framebuffers \cup {Window}
  /\ \A i \in Images : factor[i] # 0 => (i \in scaled <=> factor[i] # 1)
  /\ \A f \in Framebuffers : attached[f] # Nothing =>
       /\ factor[attached[f]] # 0
       /\ f \in scaled_framebuffers <=> factor[attached[f]] # 1

LEMMA FactorFacts ==
  ASSUME ScaleConstants
  PROVE  /\ Factor \in {1, ScaleHack} /\ Factor \in Nat \ {0}
         /\ framebuffer_should_scale <=> Factor # 1
BY DEF ScaleConstants, Factor, framebuffer_should_scale

LEMMA ScaleStarts == ASSUME ScaleConstants, ScaleInit PROVE ScaleInv
BY DEF ScaleConstants, ScaleInit, ScaleInv

\* An image that nothing is attached to gets storage
LEMMA StorageKeeps ==
  ASSUME ScaleConstants, ScaleInv, NEW i \in Images, Specified(i), NEW n \in {1, ScaleHack},
         factor' = [factor EXCEPT ![i] = n], scaled' = Mark(scaled, i, n # 1),
         UNCHANGED <<attached, bound, scaled_framebuffers>>
  PROVE  ScaleInv'
<1>1. factor' \in [Images -> {0, 1, ScaleHack}]
  BY DEF ScaleInv
<1>2. ASSUME NEW j \in Images, factor'[j] # 0 PROVE j \in scaled' <=> factor'[j] # 1
  <2>1. CASE j = i
    BY <2>1 DEF ScaleInv, Mark
  <2>2. CASE j # i
    <3>1. factor'[j] = factor[j] /\ (j \in scaled' <=> j \in scaled)
      BY <2>2 DEF ScaleInv, Mark
    <3> QED BY <1>2, <3>1 DEF ScaleInv
  <2> QED BY <2>1, <2>2
<1>3. ASSUME NEW f \in Framebuffers, attached'[f] # Nothing
      PROVE  factor'[attached'[f]] # 0 /\ (f \in scaled_framebuffers' <=> factor'[attached'[f]] # 1)
  <2>1. attached[f] \in Images /\ attached[f] # i
    BY <1>3 DEF ScaleInv, Specified
  <2>2. factor'[attached[f]] = factor[attached[f]]
    BY <2>1 DEF ScaleInv
  <2> QED BY <1>3, <2>1, <2>2 DEF ScaleInv
<1> QED BY <1>1, <1>2, <1>3 DEF ScaleInv

LEMMA AttachKeeps ==
  ASSUME ScaleConstants, ScaleInv, NEW i \in Images, factor[i] # 0, Attach(i)
  PROVE  ScaleInv'
<1>1. bound \in Framebuffers /\ attached' \in [Framebuffers -> Images \cup {Nothing}]
  BY DEF Attach, ScaleInv
<1>2. ASSUME NEW f \in Framebuffers, attached'[f] # Nothing
      PROVE  factor[attached'[f]] # 0 /\ (f \in scaled_framebuffers' <=> factor[attached'[f]] # 1)
  <2>1. CASE f = bound
    BY <1>1, <2>1 DEF Attach, Mark, ScaleInv
  <2>2. CASE f # bound
    <3>1. attached'[f] = attached[f] /\ (f \in scaled_framebuffers' <=> f \in scaled_framebuffers)
      BY <2>2 DEF Attach, Mark, ScaleInv
    <3> QED BY <1>2, <3>1 DEF ScaleInv
  <2> QED BY <2>1, <2>2
<1> QED BY <1>1, <1>2 DEF ScaleInv, Attach

LEMMA DeleteKeeps ==
  ASSUME ScaleConstants, ScaleInv, NEW x, glDelete(x)
  PROVE  ScaleInv'
<1>1. /\ factor' \in [Images -> {0, 1, ScaleHack}] /\ attached' \in [Framebuffers -> Images \cup {Nothing}]
      /\ bound' \in Framebuffers \cup {Window}
  BY DEF glDelete, ScaleInv
<1>2. \A i \in Images : factor'[i] # 0 => factor'[i] = factor[i]
  BY DEF glDelete, ScaleInv
<1>3. ASSUME NEW f \in Framebuffers, attached'[f] # Nothing
      PROVE  attached'[f] = attached[f] /\ attached[f] \in Images /\ factor'[attached[f]] = factor[attached[f]]
  <2>1. attached'[f] = attached[f] /\ attached[f] # x /\ attached[f] # Nothing
    BY <1>3 DEF glDelete
  <2>2. attached[f] \in Images
    BY <2>1 DEF ScaleInv
  <2> QED BY <2>1, <2>2 DEF glDelete
<1> QED BY <1>1, <1>2, <1>3 DEF ScaleInv, glDelete

LEMMA ScaleStep == ASSUME ScaleConstants, ScaleInv, [ScaleNext]_scale_vars PROVE ScaleInv'
<1>1. ASSUME NEW f \in Framebuffers \cup {Window}, glBindFramebuffer_scaled(f) PROVE ScaleInv'
  BY <1>1 DEF glBindFramebuffer_scaled, ScaleInv
<1>2. ASSUME NEW i \in Images, Specified(i), glRenderbufferStorageOES(i) PROVE ScaleInv'
  <2>1. /\ factor' = [factor EXCEPT ![i] = ScaleHack] /\ scaled' = Mark(scaled, i, ScaleHack # 1)
        /\ UNCHANGED <<attached, bound, scaled_framebuffers>>
    BY <1>2 DEF glRenderbufferStorageOES
  <2> QED BY <1>2, <2>1, StorageKeeps
<1>3. ASSUME NEW i \in Images, Specified(i), glCopyTexImage2D(i) PROVE ScaleInv'
  <2>1. Factor \in {1, ScaleHack} /\ (framebuffer_should_scale <=> Factor # 1)
    BY FactorFacts
  <2>2. Mark(scaled, i, framebuffer_should_scale) = Mark(scaled, i, Factor # 1)
    BY <2>1 DEF Mark
  <2>3. /\ factor' = [factor EXCEPT ![i] = Factor] /\ scaled' = Mark(scaled, i, Factor # 1)
        /\ UNCHANGED <<attached, bound, scaled_framebuffers>>
    BY <1>3, <2>2 DEF glCopyTexImage2D
  <2> QED BY <1>3, <2>1, <2>3, StorageKeeps
<1>4. ASSUME NEW i \in Images, Specified(i), NEW empty \in BOOLEAN, glTexImage2D(i, empty) PROVE ScaleInv'
  <2> DEFINE n == IF empty THEN ScaleHack ELSE 1
  <2>1. n \in {1, ScaleHack} /\ (empty /\ ScaleHack # 1 <=> n # 1)
    OBVIOUS
  <2>2. /\ factor' = [factor EXCEPT ![i] = n] /\ scaled' = Mark(scaled, i, empty /\ ScaleHack # 1)
        /\ UNCHANGED <<attached, bound, scaled_framebuffers>>
    BY <1>4 DEF glTexImage2D
  <2> HIDE DEF n
  <2>3. scaled' = Mark(scaled, i, n # 1)
    BY <2>1, <2>2 DEF Mark
  <2> QED BY <1>4, <2>1, <2>2, <2>3, StorageKeeps
<1>5. ASSUME UNCHANGED scale_vars PROVE ScaleInv'
  BY <1>5 DEF scale_vars, ScaleInv
<1> QED BY <1>1, <1>2, <1>3, <1>4, <1>5, AttachKeeps, DeleteKeeps DEF ScaleNext

LEMMA TimesThenDiv == ASSUME NEW v \in Nat, NEW n \in Nat \ {0} PROVE (v * n) \div n = v
<1> DEFINE a == v * n  q == a \div n
<1>1. a \in Nat
  OBVIOUS
<1> HIDE DEF a
<1>2. q \in Int /\ n * q <= a /\ a < n * q + n
  BY <1>1
<1> HIDE DEF q
<1>3. n * q <= v * n /\ v * n < n * q + n
  BY <1>2 DEF a
<1>4. ~(q >= v + 1)
  <2>1. ASSUME q >= v + 1 PROVE FALSE
    <3>1. n * q >= n * (v + 1)
      BY <1>2, <2>1
    <3> QED BY <1>2, <1>3, <3>1
  <2> QED BY <2>1
<1>5. ~(q <= v - 1)
  <2>1. ASSUME q <= v - 1 PROVE FALSE
    <3>1. n * q <= n * (v - 1)
      BY <1>2, <2>1
    <3> QED BY <1>2, <1>3, <3>1
  <2> QED BY <2>1
<1>6. q = v
  BY <1>2, <1>4, <1>5
<1> QED BY <1>6 DEF q, a

LEMMA ScaleInvRight == ASSUME ScaleConstants, ScaleInv PROVE ScaledRight
<1> SUFFICES ASSUME Complete(bound), NEW v \in Sizes
             PROVE  glViewport(v) = v * StorageFactor(bound) /\ glGetIntegerv(glViewport(v)) = v
  BY DEF ScaledRight
<1>1. Factor = StorageFactor(bound)
  <2>1. CASE bound = Window
    BY <2>1 DEF Factor, StorageFactor, framebuffer_should_scale
  <2>2. CASE bound # Window
    <3>1. bound \in Framebuffers /\ attached[bound] # Nothing /\ factor[attached[bound]] \in {0, 1, ScaleHack}
      BY <2>2 DEF Complete, ScaleInv
    <3>2. factor[attached[bound]] # 0 /\ (bound \in scaled_framebuffers <=> factor[attached[bound]] # 1)
      BY <3>1 DEF ScaleInv
    <3> QED BY <2>2, <3>1, <3>2 DEF Factor, StorageFactor, framebuffer_should_scale
  <2> QED BY <2>1, <2>2
<1>2. Factor \in Nat \ {0} /\ v \in Nat
  BY FactorFacts DEF ScaleConstants
<1>3. (v * Factor) \div Factor = v
  BY <1>2, TimesThenDiv
<1> QED BY <1>1, <1>3 DEF glViewport, glGetIntegerv

\* For any images, framebuffers, sizes and scale: what the guest says in pixels reaches the
\* host scaled as the storage of the bound framebuffer is, and is read back as it was said.
THEOREM ScaleAlwaysRight == ScaleSpec => []ScaledRight
<1> USE EAGLAssumption
<1>1. ScaleInit => ScaleInv
  BY ScaleStarts
<1>2. ScaleInv /\ [ScaleNext]_scale_vars => ScaleInv'
  BY ScaleStep
<1>3. ScaleInv => ScaledRight
  BY ScaleInvRight
<1> QED BY <1>1, <1>2, <1>3, PTL DEF ScaleSpec

-----------------------------------------------------------------------------
(***************************************************************************)
(* Pacing.  Once a context has shown n frames, the next is due n intervals *)
(* after the first at the earliest, and not later than an interval from    *)
(* now.                                                                    *)
(***************************************************************************)
ContextRecord ==
  [made : BOOLEAN, refs : Int, held : BOOLEAN, group : Contexts \cup {Nobody},
   bound : Renderbuffers \cup {Nobody}, due : Nat \cup {None}, resources : BOOLEAN,
   mapped_buffers : SUBSET Buffers]
ContextsTyped == ctx \in [Contexts -> ContextRecord]
PacedSoFar(c) ==
  \/ shown[c].frames = 0 /\ shown[c].first = None /\ ctx[c].due = None
  \/ /\ shown[c].frames \in Nat \ {0} /\ shown[c].first \in Nat /\ ctx[c].due \in Nat
     /\ ctx[c].due >= shown[c].first + shown[c].frames * Interval
     /\ ctx[c].due <= now + Interval
PaceInv ==
  /\ ContextsTyped /\ now \in Nat
  /\ shown \in [Contexts -> [first : Nat \cup {None}, frames : Nat]]
  /\ \A c \in Contexts : PacedSoFar(c)

LEMMA PaceStarts == ASSUME PaceConstants, ContextsInit PROVE PaceInv
<1>1. NoContext \in ContextRecord /\ NoContext.due = None
  BY DEF NoContext, ContextRecord, None
<1>2. ContextsTyped
  BY <1>1 DEF ContextsInit, ContextsTyped
<1>3. \A c \in Contexts : PacedSoFar(c)
  BY <1>1 DEF ContextsInit, PacedSoFar
<1> QED BY <1>2, <1>3 DEF ContextsInit, PaceInv, None

\* The first multiple of the interval that reaches a
LEMMA CeilDivFacts ==
  ASSUME NEW a \in Nat, NEW b \in Nat \ {0}
  PROVE  CeilDiv(a, b) \in Int /\ b * CeilDiv(a, b) >= a /\ b * CeilDiv(a, b) < a + b
<1> DEFINE c == a + b - 1  q == c \div b
<1>1. c \in Nat
  OBVIOUS
<1> HIDE DEF c
<1>2. q \in Int /\ b * q <= c /\ c < b * q + b
  BY <1>1
<1> HIDE DEF q
<1>3. b * q >= a /\ b * q < a + b
  BY <1>2 DEF c
<1>4. CeilDiv(a, b) = q
  BY DEF CeilDiv, c, q
<1> QED BY <1>2, <1>3, <1>4

\* When the next frame is due
LEMMA LimitFacts ==
  ASSUME PaceConstants, now \in Nat, NEW due \in Nat \cup {None}
  PROVE  /\ limit_framerate(due) \in Nat
         /\ limit_framerate(due) >= now /\ limit_framerate(due) <= SleepUntil(due) + Interval
         /\ due # None => limit_framerate(due) >= due + Interval
         /\ due = None => limit_framerate(due) = now + Interval
         /\ SleepUntil(due) \in Nat /\ SleepUntil(due) >= now
         /\ due # None => SleepUntil(due) >= due
<1>1. Interval \in Nat \ {0}
  BY DEF PaceConstants
<1>2. CASE due = None
  BY <1>1, <1>2 DEF limit_framerate, SleepUntil
<1>3. CASE due # None /\ now > due + Interval
  <2>1. due \in Nat /\ now - due \in Nat
    BY <1>1, <1>3
  <2> DEFINE k == Interval * CeilDiv(now - due, Interval)
  <2>2. CeilDiv(now - due, Interval) \in Int /\ k >= now - due /\ k < (now - due) + Interval
    BY <1>1, <2>1, CeilDivFacts
  <2>3. k \in Int
    BY <1>1, <2>2
  <2>4. limit_framerate(due) = due + k /\ SleepUntil(due) = now
    BY <1>1, <1>3, <2>1 DEF limit_framerate, SleepUntil
  <2> HIDE DEF k
  <2> QED BY <1>1, <1>3, <2>1, <2>2, <2>3, <2>4
<1>4. CASE due # None /\ ~(now > due + Interval)
  BY <1>1, <1>4 DEF limit_framerate, SleepUntil
<1> QED BY <1>2, <1>3, <1>4

\* A step that presents nothing and does not touch due
LEMMA PaceRests ==
  ASSUME PaceConstants, PaceInv, ContextsTyped', now' \in Nat, now' >= now, shown' = shown,
         \A c \in Contexts : ctx'[c].due = ctx[c].due
  PROVE  PaceInv'
<1>1. ASSUME NEW c \in Contexts PROVE PacedSoFar(c)'
  <2>1. PacedSoFar(c) /\ now \in Nat /\ Interval \in Nat
    BY DEF PaceInv, PaceConstants
  <2> QED BY <2>1 DEF PacedSoFar
<1> QED BY <1>1 DEF PaceInv

-----------------------------------------------------------------------------
(***************************************************************************)
(* Who holds contexts, layers and buffers.                                 *)
(***************************************************************************)
One(b) == IF b THEN 1 ELSE 0
UsedOn(c) == {t \in Threads : current[t] = c}
BoundTo(l) == {p \in Contexts \X Renderbuffers : bindings[p[1]][p[2]] = l}
MappedFor(c) == {b \in Buffers : <<c, b>> \in allocs}
ContextHeld(c) ==
  /\ ctx[c].refs = One(ctx[c].held) + Cardinality(UsedOn(c))
  /\ MappedFor(c) = ctx[c].mapped_buffers
  /\ ~Live(c) => ctx[c].mapped_buffers = {} /\ ~ctx[c].resources
  /\ ctx[c].made => ctx[c].group \in Contexts
  /\ ~ctx[c].made => ctx[c].refs = 0
LayerHeld(l) == layer[l].refs = One(layer[l].held) + Cardinality(BoundTo(l))
GroupsAlive == \A g \in Contexts, r \in Renderbuffers : bindings[g][r] # Nobody => Group(ctx, g) # {}
LayersTyped ==
  /\ bindings \in [Contexts -> [Renderbuffers -> Layers \cup {Nobody}]]
  /\ layer \in [Layers -> [refs : Int, held : BOOLEAN]]
HoldInv ==
  /\ ContextsTyped /\ current \in [Threads -> Contexts \cup {Nobody}] /\ LayersTyped
  /\ \A c \in Contexts : ContextHeld(c)
  /\ \A l \in Layers : LayerHeld(l)
  /\ GroupsAlive

LEMMA CountFacts ==
  ASSUME HoldConstants
  PROVE  /\ \A c : IsFiniteSet(UsedOn(c)) /\ Cardinality(UsedOn(c)) \in Nat
         /\ \A l : IsFiniteSet(BoundTo(l)) /\ Cardinality(BoundTo(l)) \in Nat
<1>1. ASSUME NEW c PROVE IsFiniteSet(UsedOn(c)) /\ Cardinality(UsedOn(c)) \in Nat
  <2>1. UsedOn(c) \subseteq Threads
    BY DEF UsedOn
  <2> QED BY <2>1, FS_Subset, FS_CardinalityType DEF HoldConstants
<1>2. IsFiniteSet(Contexts \X Renderbuffers)
  BY FS_Product DEF HoldConstants
<1>3. ASSUME NEW l PROVE IsFiniteSet(BoundTo(l)) /\ Cardinality(BoundTo(l)) \in Nat
  <2>1. BoundTo(l) \subseteq Contexts \X Renderbuffers
    BY DEF BoundTo
  <2> QED BY <1>2, <2>1, FS_Subset, FS_CardinalityType
<1> QED BY <1>1, <1>3

LEMMA ContextFacts ==
  ASSUME HoldConstants, HoldInv, NEW c \in Contexts
  PROVE  /\ ctx[c] \in ContextRecord /\ DOMAIN ctx = Contexts /\ ContextHeld(c)
         /\ ctx[c].refs \in Nat /\ ctx[c].mapped_buffers \subseteq Buffers
         /\ ctx[c].held \in BOOLEAN /\ ctx[c].made \in BOOLEAN
         /\ Cardinality(UsedOn(c)) \in Nat
         /\ ctx[c].held => Live(c)
         /\ UsedOn(c) # {} => Live(c)
         /\ Live(c) => ctx[c].made /\ ctx[c].group \in Contexts
<1>1. ctx[c] \in ContextRecord /\ DOMAIN ctx = Contexts /\ ContextHeld(c)
  BY DEF HoldInv, ContextsTyped
<1>2. ctx[c].mapped_buffers \subseteq Buffers /\ ctx[c].held \in BOOLEAN /\ ctx[c].made \in BOOLEAN
  BY <1>1 DEF ContextRecord
<1>3. IsFiniteSet(UsedOn(c)) /\ Cardinality(UsedOn(c)) \in Nat
  BY CountFacts
<1>4. ctx[c].refs \in Nat /\ (ctx[c].held => Live(c))
  BY <1>1, <1>2, <1>3 DEF ContextHeld, One, Live
<1>5. UsedOn(c) # {} => Cardinality(UsedOn(c)) # 0
  BY <1>3, FS_EmptySet
<1>6. UsedOn(c) # {} => Live(c)
  BY <1>1, <1>2, <1>3, <1>5 DEF ContextHeld, One, Live
<1>7. Live(c) => ctx[c].made /\ ctx[c].group \in Contexts
  BY <1>1 DEF ContextHeld, Live
<1> QED BY <1>1, <1>2, <1>3, <1>4, <1>6, <1>7

LEMMA HoldStarts == ASSUME HoldConstants, ContextsInit PROVE HoldInv
<1>1. NoContext \in ContextRecord
  BY DEF NoContext, ContextRecord, None
<1>2. /\ NoContext.refs = 0 /\ NoContext.mapped_buffers = {} /\ NoContext.held = FALSE
      /\ NoContext.made = FALSE /\ NoContext.resources = FALSE
  BY DEF NoContext
<1>3. ASSUME NEW c \in Contexts PROVE ContextHeld(c)
  <2>1. ctx[c] = NoContext /\ MappedFor(c) = {}
    BY DEF ContextsInit, MappedFor
  <2>2. UsedOn(c) = {}
    BY DEF UsedOn, ContextsInit, HoldConstants
  <2>3. Cardinality(UsedOn(c)) = 0
    BY <2>2, FS_EmptySet
  <2> QED BY <1>2, <2>1, <2>3 DEF ContextHeld, One
<1>4. ASSUME NEW l \in Layers PROVE LayerHeld(l)
  <2>1. layer[l].refs = 1 /\ layer[l].held = TRUE
    BY DEF ContextsInit
  <2>2. BoundTo(l) = {}
    BY DEF BoundTo, ContextsInit, HoldConstants
  <2>3. Cardinality(BoundTo(l)) = 0
    BY <2>2, FS_EmptySet
  <2> QED BY <2>1, <2>3 DEF LayerHeld, One
<1>5. ContextsTyped /\ LayersTyped /\ current \in [Threads -> Contexts \cup {Nobody}] /\ GroupsAlive
  BY <1>1 DEF ContextsInit, ContextsTyped, LayersTyped, GroupsAlive
<1> QED BY <1>3, <1>4, <1>5 DEF HoldInv

\* One context changes, which goes on living in its sharegroup if it lived
LEMMA OneContext ==
  ASSUME HoldConstants, HoldInv, NEW c \in Contexts, NEW y \in ContextRecord,
         ctx' = [ctx EXCEPT ![c] = y], UNCHANGED <<bindings, layer, current>>,
         \A d \in Contexts \ {c} : MappedFor(d)' = MappedFor(d),
         Live(c) => y.refs > 0 /\ y.group = ctx[c].group,
         ContextHeld(c)'
  PROVE  HoldInv'
<1>1. ContextsTyped' /\ ctx'[c] = y /\ \A d \in Contexts \ {c} : ctx'[d] = ctx[d]
  BY DEF HoldInv, ContextsTyped
<1>2. ASSUME NEW d \in Contexts, d # c PROVE ContextHeld(d)'
  <2>1. ctx'[d] = ctx[d] /\ MappedFor(d)' = MappedFor(d) /\ UsedOn(d)' = UsedOn(d) /\ ContextHeld(d)
    BY <1>1, <1>2 DEF UsedOn, HoldInv
  <2> QED BY <2>1 DEF ContextHeld, Live
<1>3. \A l \in Layers : LayerHeld(l)'
  BY DEF HoldInv, LayerHeld, BoundTo
<1>4. \A g : Group(ctx, g) \subseteq Group(ctx', g)
  BY <1>1 DEF Group, Live
<1>5. GroupsAlive'
  BY <1>4 DEF GroupsAlive, HoldInv
<1>6. LayersTyped' /\ current' \in [Threads -> Contexts \cup {Nobody}]
  BY DEF HoldInv, LayersTyped
<1> QED BY <1>1, <1>2, <1>3, <1>5, <1>6 DEF HoldInv

\* A context is made
LEMMA MakeKeeps ==
  ASSUME HoldConstants, HoldInv, NEW c \in Contexts, ~ctx[c].made, NEW g \in Contexts,
         ctx' = [ctx EXCEPT ![c] = [ctx[c] EXCEPT !.made = TRUE, !.refs = 1, !.held = TRUE, !.group = g]],
         UNCHANGED <<bindings, layer, current, allocs>>
  PROVE  HoldInv' /\ ContextsTyped' /\ \A d \in Contexts : ctx'[d].due = ctx[d].due
<1> DEFINE x == ctx[c]  y == [x EXCEPT !.made = TRUE, !.refs = 1, !.held = TRUE, !.group = g]
<1>1. /\ x \in ContextRecord /\ DOMAIN ctx = Contexts /\ ContextHeld(c) /\ Cardinality(UsedOn(c)) \in Nat
      /\ x.refs \in Nat /\ x.held \in BOOLEAN
  BY ContextFacts
<1>2. x.refs = 0 /\ ~Live(c) /\ x.mapped_buffers = {} /\ ~x.resources /\ MappedFor(c) = {}
  BY <1>1 DEF ContextHeld, Live
<1>3. Cardinality(UsedOn(c)) = 0
  BY <1>1, <1>2 DEF ContextHeld, One
<1> HIDE DEF x
<1>4. y.refs = 1 /\ y.group = g /\ y.mapped_buffers = x.mapped_buffers /\ y.due = x.due
  BY <1>1 DEF ContextRecord
<1>5. y.made = TRUE /\ y.held = TRUE /\ y.resources = x.resources
  BY <1>1 DEF ContextRecord
<1>6. y \in ContextRecord
  <2> DEFINE y1 == [x EXCEPT !.made = TRUE]  y2 == [y1 EXCEPT !.refs = 1]  y3 == [y2 EXCEPT !.held = TRUE]
  <2>1. y1 \in ContextRecord
    BY <1>1 DEF ContextRecord
  <2> HIDE DEF y1
  <2>2. y2 \in ContextRecord
    BY <2>1 DEF ContextRecord
  <2> HIDE DEF y2
  <2>3. y3 \in ContextRecord
    BY <2>2 DEF ContextRecord
  <2> HIDE DEF y3
  <2>4. [y3 EXCEPT !.group = g] \in ContextRecord
    BY <2>3 DEF ContextRecord
  <2> QED BY <2>4 DEF y1, y2, y3
<1>7. ctx' = [ctx EXCEPT ![c] = y]
  BY DEF x
<1> HIDE DEF y
<1>8. ctx'[c] = y /\ \A d \in Contexts \ {c} : ctx'[d] = ctx[d]
  BY <1>1, <1>7
<1>9. ContextHeld(c)'
  <2>1. UsedOn(c)' = UsedOn(c) /\ MappedFor(c)' = MappedFor(c)
    BY DEF UsedOn, MappedFor
  <2>2. (ctx[c].refs = One(ctx[c].held) + Cardinality(UsedOn(c)))'
    BY <1>3, <1>4, <1>5, <1>8, <2>1 DEF One
  <2>3. (MappedFor(c) = ctx[c].mapped_buffers)'
    BY <1>2, <1>4, <1>8, <2>1
  <2>4. ctx'[c].refs > 0 /\ ctx'[c].made /\ ctx'[c].group \in Contexts
    BY <1>4, <1>5, <1>8
  <2> QED BY <2>2, <2>3, <2>4 DEF ContextHeld, Live
<1>10. \A d \in Contexts \ {c} : MappedFor(d)' = MappedFor(d)
  BY DEF MappedFor
<1>11. HoldInv'
  BY <1>2, <1>6, <1>7, <1>9, <1>10, OneContext
<1>12. \A d \in Contexts : ctx'[d].due = ctx[d].due
  BY <1>4, <1>8 DEF x
<1> QED BY <1>11, <1>12 DEF HoldInv

\* The current context of a thread changes, in what is not counted
LEMMA CurrentLives ==
  ASSUME HoldConstants, HoldInv, NEW t \in Threads, NEW c \in Contexts, On(t, c)
  PROVE  Live(c) /\ ctx[c].made /\ ctx[c].group \in Contexts
<1>1. UsedOn(c) # {}
  BY DEF On, UsedOn
<1> QED BY <1>1, ContextFacts

LEMMA BindKeeps ==
  ASSUME HoldConstants, HoldInv, NEW t \in Threads, NEW r \in Renderbuffers, glBindRenderbufferOES(t, r)
  PROVE  HoldInv' /\ ContextsTyped' /\ \A d \in Contexts : ctx'[d].due = ctx[d].due
<1>1. PICK c \in Contexts : On(t, c) /\ ctx' = [ctx EXCEPT ![c].bound = r]
  BY DEF glBindRenderbufferOES
<1> DEFINE x == ctx[c]  y == [x EXCEPT !.bound = r]
<1>2. x \in ContextRecord /\ DOMAIN ctx = Contexts /\ ContextHeld(c)
  BY ContextFacts
<1> HIDE DEF x
<1>3. /\ y \in ContextRecord /\ y.refs = x.refs /\ y.group = x.group /\ y.due = x.due
      /\ y.mapped_buffers = x.mapped_buffers
  BY <1>2 DEF ContextRecord
<1>4. y.made = x.made /\ y.held = x.held /\ y.resources = x.resources
  BY <1>2 DEF ContextRecord
<1>5. ctx' = [ctx EXCEPT ![c] = y]
  BY <1>1 DEF x
<1> HIDE DEF y
<1>6. ctx'[c] = y /\ \A d \in Contexts \ {c} : ctx'[d] = ctx[d]
  BY <1>2, <1>5
<1>7. UNCHANGED <<bindings, layer, current, allocs>>
  BY DEF glBindRenderbufferOES
<1>8. ContextHeld(c)'
  <2>1. UsedOn(c)' = UsedOn(c) /\ MappedFor(c)' = MappedFor(c)
    BY <1>7 DEF UsedOn, MappedFor
  <2> QED BY <1>2, <1>3, <1>4, <1>6, <2>1 DEF ContextHeld, Live, x
<1>9. \A d \in Contexts \ {c} : MappedFor(d)' = MappedFor(d)
  BY <1>7 DEF MappedFor
<1>10. Live(c) => y.refs > 0 /\ y.group = ctx[c].group
  BY <1>3 DEF Live, x
<1>11. HoldInv'
  BY <1>3, <1>5, <1>7, <1>8, <1>9, <1>10, OneContext
<1>12. \A d \in Contexts : ctx'[d].due = ctx[d].due
  BY <1>3, <1>6 DEF x
<1> QED BY <1>11, <1>12 DEF HoldInv

\* A buffer is mapped or unmapped
LEMMA MapKeeps ==
  ASSUME HoldConstants, HoldInv, NEW c \in Contexts, Live(c), NEW m \in SUBSET Buffers,
         ctx' = [ctx EXCEPT ![c].mapped_buffers = m], MappedFor(c)' = m,
         \A d \in Contexts \ {c} : MappedFor(d)' = MappedFor(d),
         UNCHANGED <<bindings, layer, current>>
  PROVE  HoldInv' /\ ContextsTyped' /\ \A d \in Contexts : ctx'[d].due = ctx[d].due
<1> DEFINE x == ctx[c]  y == [x EXCEPT !.mapped_buffers = m]
<1>2. x \in ContextRecord /\ DOMAIN ctx = Contexts /\ ContextHeld(c)
  BY ContextFacts
<1> HIDE DEF x
<1>3. /\ y \in ContextRecord /\ y.refs = x.refs /\ y.group = x.group /\ y.due = x.due
      /\ y.mapped_buffers = m
  BY <1>2 DEF ContextRecord
<1>4. y.made = x.made /\ y.held = x.held /\ y.resources = x.resources
  BY <1>2 DEF ContextRecord
<1>5. ctx' = [ctx EXCEPT ![c] = y]
  BY DEF x
<1> HIDE DEF y
<1>6. ctx'[c] = y /\ \A d \in Contexts \ {c} : ctx'[d] = ctx[d]
  BY <1>2, <1>5
<1>8. ContextHeld(c)'
  <2>1. UsedOn(c)' = UsedOn(c)
    BY DEF UsedOn
  <2> QED BY <1>2, <1>3, <1>4, <1>6, <2>1 DEF ContextHeld, Live, x
<1>10. Live(c) => y.refs > 0 /\ y.group = ctx[c].group
  BY <1>3 DEF Live, x
<1>11. HoldInv'
  BY <1>3, <1>5, <1>8, <1>10, OneContext
<1>12. \A d \in Contexts : ctx'[d].due = ctx[d].due
  BY <1>3, <1>6 DEF x
<1> QED BY <1>11, <1>12 DEF HoldInv

LEMMA MapBufferKeeps ==
  ASSUME HoldConstants, HoldInv, NEW t \in Threads, NEW b \in Buffers,
         glMapBufferOES(t, b) \/ glUnmapBufferOES(t, b)
  PROVE  HoldInv' /\ ContextsTyped' /\ \A d \in Contexts : ctx'[d].due = ctx[d].due
<1>1. CASE glMapBufferOES(t, b)
  <2>1. PICK c \in Contexts : /\ On(t, c) /\ ctx' = [ctx EXCEPT ![c].mapped_buffers = @ \cup {b}]
                              /\ allocs' = (allocs \ {<<c, b>>}) \cup {<<c, b>>}
    BY <1>1 DEF glMapBufferOES
  <2>2. UNCHANGED <<bindings, layer, current>>
    BY <1>1 DEF glMapBufferOES
  <2>3. Live(c) /\ ContextHeld(c) /\ ctx[c].mapped_buffers \subseteq Buffers
    BY <2>1, CurrentLives, ContextFacts
  <2> DEFINE m == ctx[c].mapped_buffers \cup {b}
  <2>4. m \in SUBSET Buffers /\ ctx' = [ctx EXCEPT ![c].mapped_buffers = m]
    BY <2>1, <2>3
  <2>5. MappedFor(c)' = m /\ \A d \in Contexts \ {c} : MappedFor(d)' = MappedFor(d)
    BY <2>1, <2>3 DEF MappedFor, ContextHeld
  <2> HIDE DEF m
  <2> QED BY <2>2, <2>3, <2>4, <2>5, MapKeeps
<1>2. CASE glUnmapBufferOES(t, b)
  <2>1. PICK c \in Contexts : /\ On(t, c) /\ ctx' = [ctx EXCEPT ![c].mapped_buffers = @ \ {b}]
                              /\ allocs' = allocs \ {<<c, b>>}
    BY <1>2 DEF glUnmapBufferOES, Unmapped
  <2>2. UNCHANGED <<bindings, layer, current>>
    BY <1>2 DEF glUnmapBufferOES
  <2>3. Live(c) /\ ContextHeld(c) /\ ctx[c].mapped_buffers \subseteq Buffers
    BY <2>1, CurrentLives, ContextFacts
  <2> DEFINE m == ctx[c].mapped_buffers \ {b}
  <2>4. m \in SUBSET Buffers /\ ctx' = [ctx EXCEPT ![c].mapped_buffers = m]
    BY <2>1, <2>3
  <2>5. MappedFor(c)' = m /\ \A d \in Contexts \ {c} : MappedFor(d)' = MappedFor(d)
    BY <2>1, <2>3 DEF MappedFor, ContextHeld
  <2> HIDE DEF m
  <2> QED BY <2>2, <2>3, <2>4, <2>5, MapKeeps
<1> QED BY <1>1, <1>2

\* Adding to the count of one layer, if it is one
LEMMA LayerCount ==
  ASSUME NEW x \in [Layers -> [refs : Int, held : BOOLEAN]], NEW l, NEW n \in Int, NEW y,
         y = IF l \in Layers THEN [x EXCEPT ![l].refs = @ + n] ELSE x
  PROVE  /\ y \in [Layers -> [refs : Int, held : BOOLEAN]]
         /\ \A k \in Layers : /\ y[k].held = x[k].held
                              /\ k = l => y[k].refs = x[k].refs + n
                              /\ k # l => y[k].refs = x[k].refs
<1>1. CASE l \notin Layers
  BY <1>1
<1>2. CASE l \in Layers
  <2> DEFINE z == [x[l] EXCEPT !.refs = x[l].refs + n]
  <2>1. x[l] \in [refs : Int, held : BOOLEAN] /\ x[l].refs + n \in Int
    BY <1>2
  <2>2. z \in [refs : Int, held : BOOLEAN] /\ z.refs = x[l].refs + n /\ z.held = x[l].held
    BY <2>1
  <2>3. y = [x EXCEPT ![l] = z]
    BY <1>2
  <2> HIDE DEF z
  <2> QED BY <1>2, <2>2, <2>3
<1> QED BY <1>1, <1>2

LEMMA StorageHolds ==
  ASSUME HoldConstants, HoldInv, NEW t \in Threads, NEW l \in Layers \cup {Nobody}, renderbufferStorage(t, l)
  PROVE  HoldInv'
<1>1. PICK c \in Contexts : On(t, c) /\ ctx[c].bound # Nobody /\ Rebind(ctx[c].group, ctx[c].bound, l)
  BY DEF renderbufferStorage
<1> DEFINE g == ctx[c].group  r == ctx[c].bound  old == bindings[g][r]
           up == IF l \in Layers THEN [layer EXCEPT ![l].refs = @ + 1] ELSE layer
<1>2. UNCHANGED <<ctx, current, allocs>>
  BY DEF renderbufferStorage
<1>3. ctx[c] \in ContextRecord /\ Live(c) /\ g \in Contexts
  BY <1>1, CurrentLives, ContextFacts
<1>4. r \in Renderbuffers
  BY <1>1, <1>3 DEF ContextRecord
<1>5. /\ bindings' = [bindings EXCEPT ![g][r] = l]
      /\ layer' = IF old \in Layers THEN [up EXCEPT ![old].refs = @ - 1] ELSE up
  BY <1>1 DEF Rebind
<1>6. LayersTyped /\ old \in Layers \cup {Nobody} /\ Nobody \notin Layers
  BY <1>3, <1>4 DEF HoldInv, LayersTyped, HoldConstants
<1>g. c \in Group(ctx, g)
  BY <1>3 DEF Group, Live
<1> HIDE DEF g, r, old
<1>7. /\ bindings' \in [Contexts -> [Renderbuffers -> Layers \cup {Nobody}]] /\ bindings'[g][r] = l
      /\ \A h \in Contexts, s \in Renderbuffers : <<h, s>> # <<g, r>> => bindings'[h][s] = bindings[h][s]
  BY <1>3, <1>4, <1>5, <1>6 DEF LayersTyped
<1>8. /\ up \in [Layers -> [refs : Int, held : BOOLEAN]]
      /\ \A k \in Layers : /\ up[k].held = layer[k].held
                           /\ k = l => up[k].refs = layer[k].refs + 1
                           /\ k # l => up[k].refs = layer[k].refs
  BY <1>6, LayerCount DEF LayersTyped
<1> HIDE DEF up
<1>9. /\ layer' \in [Layers -> [refs : Int, held : BOOLEAN]]
      /\ \A k \in Layers : /\ layer'[k].held = up[k].held
                           /\ k = old => layer'[k].refs = up[k].refs + (-1)
                           /\ k # old => layer'[k].refs = up[k].refs
  <2>1. layer' = IF old \in Layers THEN [up EXCEPT ![old].refs = @ + (-1)] ELSE up
    <3>1. CASE old \in Layers
      <4>1. up[old].refs \in Int
        BY <1>8, <3>1
      <4>2. up[old].refs - 1 = up[old].refs + (-1)
        BY <4>1
      <4> QED BY <1>5, <3>1, <4>2
    <3>2. CASE old \notin Layers
      BY <1>5, <3>2
    <3> QED BY <3>1, <3>2
  <2> QED BY <1>8, <2>1, LayerCount
<1>10. ASSUME NEW k \in Layers PROVE LayerHeld(k)'
  <2> DEFINE p == <<g, r>>
  <2>1. p \in Contexts \X Renderbuffers /\ (p \in BoundTo(k) <=> old = k)
    BY <1>3, <1>4 DEF BoundTo, old
  <2>2. BoundTo(k)' = IF k = l THEN BoundTo(k) \cup {p} ELSE BoundTo(k) \ {p}
    <3>1. ASSUME NEW q \in Contexts \X Renderbuffers
          PROVE  q \in BoundTo(k)' <=> IF q = p THEN k = l ELSE q \in BoundTo(k)
      <4>1. PICK h \in Contexts, s \in Renderbuffers : q = <<h, s>>
        BY <3>1
      <4> QED BY <1>7, <4>1 DEF BoundTo
    <3>2. BoundTo(k) \subseteq Contexts \X Renderbuffers /\ BoundTo(k)' \subseteq Contexts \X Renderbuffers
      BY DEF BoundTo
    <3> QED BY <2>1, <3>1, <3>2
  <2> HIDE DEF p
  <2>3. IsFiniteSet(BoundTo(k)) /\ Cardinality(BoundTo(k)) \in Nat /\ LayerHeld(k) /\ layer[k].refs \in Int
    BY <1>6, CountFacts DEF HoldInv, LayersTyped
  <2>4. /\ Cardinality(BoundTo(k) \cup {p}) = IF p \in BoundTo(k) THEN Cardinality(BoundTo(k)) ELSE Cardinality(BoundTo(k)) + 1
        /\ Cardinality(BoundTo(k) \ {p}) = IF p \in BoundTo(k) THEN Cardinality(BoundTo(k)) - 1 ELSE Cardinality(BoundTo(k))
    BY <2>3, FS_AddElement, FS_RemoveElement
  <2>5. layer'[k].held = layer[k].held
    BY <1>8, <1>9
  <2>6. layer'[k].refs - layer[k].refs = Cardinality(BoundTo(k)') - Cardinality(BoundTo(k))
    <3>1. CASE k = l /\ k = old
      BY <1>8, <1>9, <2>1, <2>2, <2>3, <2>4, <3>1
    <3>2. CASE k = l /\ k # old
      BY <1>8, <1>9, <2>1, <2>2, <2>3, <2>4, <3>2
    <3>3. CASE k # l /\ k = old
      BY <1>8, <1>9, <2>1, <2>2, <2>3, <2>4, <3>3
    <3>4. CASE k # l /\ k # old
      BY <1>8, <1>9, <2>1, <2>2, <2>3, <2>4, <3>4
    <3> QED BY <3>1, <3>2, <3>3, <3>4
  <2>7. Cardinality(BoundTo(k)') \in Int /\ layer'[k].refs \in Int
    BY <1>9, <2>2, <2>3, <2>4
  <2>8. One(layer[k].held) \in Int /\ One(layer'[k].held) = One(layer[k].held)
    BY <2>5 DEF One
  <2>9. layer'[k].refs = One(layer'[k].held) + Cardinality(BoundTo(k)')
    BY <2>3, <2>6, <2>7, <2>8 DEF LayerHeld
  <2> QED BY <2>9 DEF LayerHeld, One
<1>11. \A d \in Contexts : ContextHeld(d)'
  BY <1>2 DEF HoldInv, ContextHeld, UsedOn, MappedFor, Live
<1>12. GroupsAlive'
  <2>1. ASSUME NEW h \in Contexts, NEW s \in Renderbuffers, bindings'[h][s] # Nobody PROVE Group(ctx', h) # {}
    <3>1. CASE h = g /\ s = r
      BY <1>2, <1>g, <3>1
    <3>2. CASE ~(h = g /\ s = r)
      <4>1. bindings'[h][s] = bindings[h][s]
        BY <1>7, <3>2
      <4> QED BY <1>2, <2>1, <4>1 DEF HoldInv, GroupsAlive
    <3> QED BY <3>1, <3>2
  <2> QED BY <2>1 DEF GroupsAlive
<1> QED BY <1>2, <1>7, <1>9, <1>10, <1>11, <1>12 DEF HoldInv, ContextsTyped, LayersTyped

LEMMA LayerReleaseKeeps ==
  ASSUME HoldConstants, HoldInv, NEW l \in Layers, guest_releases_layer(l) PROVE HoldInv'
<1>1. /\ layer[l].held /\ layer' = [layer EXCEPT ![l] = [refs |-> layer[l].refs - 1, held |-> FALSE]]
      /\ UNCHANGED <<ctx, bindings, current, allocs>>
  BY DEF guest_releases_layer
<1>2. LayersTyped
  BY DEF HoldInv
<1> DEFINE z == [refs |-> layer[l].refs - 1, held |-> FALSE]
<1>3. layer[l].refs \in Int
  BY <1>2 DEF LayersTyped
<1>4. z \in [refs : Int, held : BOOLEAN] /\ z.refs = layer[l].refs - 1 /\ ~z.held
  BY <1>3
<1> HIDE DEF z
<1>5. LayersTyped' /\ layer'[l] = z /\ \A k \in Layers \ {l} : layer'[k] = layer[k]
  BY <1>1, <1>2, <1>4 DEF LayersTyped, z
<1>6. ASSUME NEW k \in Layers PROVE LayerHeld(k)'
  <2>1. BoundTo(k)' = BoundTo(k) /\ LayerHeld(k) /\ Cardinality(BoundTo(k)) \in Nat
    BY <1>1, CountFacts DEF BoundTo, HoldInv
  <2>2. CASE k # l
    BY <1>5, <2>1, <2>2 DEF LayerHeld
  <2>3. CASE k = l
    BY <1>1, <1>3, <1>4, <1>5, <2>1, <2>3 DEF LayerHeld, One
  <2> QED BY <2>2, <2>3
<1>7. (\A d \in Contexts : ContextHeld(d)') /\ GroupsAlive'
  BY <1>1 DEF HoldInv, ContextHeld, UsedOn, MappedFor, Live, GroupsAlive
<1> QED BY <1>1, <1>5, <1>6, <1>7 DEF HoldInv, ContextsTyped

\* What a context is, but for its counts
SameButCounts(x) ==
  \A d \in Contexts :
    /\ x[d].group = ctx[d].group /\ x[d].mapped_buffers = ctx[d].mapped_buffers /\ x[d].due = ctx[d].due
    /\ x[d].made <=> ctx[d].made
    /\ x[d].resources <=> ctx[d].resources

\* The last context of its sharegroup goes: its renderbuffers let go of their layers
LEMMA LastReleases ==
  ASSUME HoldConstants, HoldInv, NEW g \in Contexts,
         bindings' = [bindings EXCEPT ![g] = [r \in Renderbuffers |-> Nobody]],
         layer' = [l \in Layers |-> [layer[l] EXCEPT !.refs = @ - Cardinality({r \in Renderbuffers : bindings[g][r] = l})]]
  PROVE  LayersTyped' /\ \A l \in Layers : LayerHeld(l)'
<1>1. LayersTyped
  BY DEF HoldInv
<1>2. /\ bindings' \in [Contexts -> [Renderbuffers -> Layers \cup {Nobody}]]
      /\ \A r \in Renderbuffers : bindings'[g][r] = Nobody
      /\ \A h \in Contexts \ {g} : bindings'[h] = bindings[h]
  BY <1>1 DEF LayersTyped
<1>3. ASSUME NEW l \in Layers
      PROVE  layer'[l] \in [refs : Int, held : BOOLEAN] /\ LayerHeld(l)'
  <2> DEFINE R == {r \in Renderbuffers : bindings[g][r] = l}
             n == Cardinality(R)
             z == [layer[l] EXCEPT !.refs = layer[l].refs - n]
  <2>1. layer'[l] = z /\ layer[l] \in [refs : Int, held : BOOLEAN]
    BY <1>1 DEF LayersTyped
  <2>2. IsFiniteSet(R) /\ n \in Nat
    <3>1. R \subseteq Renderbuffers
      OBVIOUS
    <3> QED BY <3>1, FS_Subset, FS_CardinalityType DEF HoldConstants
  <2>3. IsFiniteSet({g} \X R) /\ Cardinality({g} \X R) = n
    <3>1. IsFiniteSet({g}) /\ Cardinality({g}) = 1
      BY FS_Singleton
    <3>2. IsFiniteSet({g} \X R) /\ Cardinality({g} \X R) = Cardinality({g}) * n
      BY <2>2, <3>1, FS_Product
    <3> QED BY <2>2, <3>1, <3>2
  <2>4. {g} \X R \subseteq BoundTo(l)
    BY DEF BoundTo
  <2>5. BoundTo(l)' = BoundTo(l) \ ({g} \X R)
    <3>1. ASSUME NEW q \in Contexts \X Renderbuffers
          PROVE  q \in BoundTo(l)' <=> q \in BoundTo(l) /\ q \notin {g} \X R
      <4>1. PICK h \in Contexts, s \in Renderbuffers : q = <<h, s>>
        BY <3>1
      <4>2. Nobody # l
        BY DEF HoldConstants
      <4>3. CASE h = g
        BY <1>2, <4>1, <4>2, <4>3 DEF BoundTo
      <4>4. CASE h # g
        BY <1>2, <4>1, <4>4 DEF BoundTo
      <4> QED BY <4>3, <4>4
    <3>2. BoundTo(l) \subseteq Contexts \X Renderbuffers /\ BoundTo(l)' \subseteq Contexts \X Renderbuffers
      BY DEF BoundTo
    <3> QED BY <3>1, <3>2
  <2>6. IsFiniteSet(BoundTo(l)) /\ Cardinality(BoundTo(l)) \in Nat /\ LayerHeld(l)
    BY CountFacts DEF HoldInv
  <2> HIDE DEF R
  <2>7. Cardinality(BoundTo(l)') = Cardinality(BoundTo(l)) - n
    <3>1. BoundTo(l) \cap ({g} \X R) = {g} \X R
      BY <2>4
    <3>2. Cardinality(BoundTo(l) \ ({g} \X R)) = Cardinality(BoundTo(l)) - Cardinality(BoundTo(l) \cap ({g} \X R))
      BY <2>3, <2>6, FS_Difference
    <3> QED BY <2>3, <2>5, <3>1, <3>2
  <2> HIDE DEF n
  <2>8. layer[l].refs - n \in Int
    BY <2>1, <2>2
  <2>9. z \in [refs : Int, held : BOOLEAN] /\ z.refs = layer[l].refs - n /\ z.held = layer[l].held
    BY <2>1, <2>8
  <2> HIDE DEF z
  <2>10. One(layer[l].held) \in Int /\ layer[l].refs \in Int
    BY <2>1 DEF One
  <2>11. layer'[l].refs = One(layer'[l].held) + Cardinality(BoundTo(l)')
    <3>1. layer[l].refs - n = One(layer[l].held) + (Cardinality(BoundTo(l)) - n)
      BY <2>2, <2>6, <2>10 DEF LayerHeld
    <3> QED BY <2>1, <2>7, <2>9, <3>1
  <2> QED BY <2>1, <2>9, <2>11 DEF LayerHeld, One
<1>4. layer' \in [Layers -> [refs : Int, held : BOOLEAN]]
  BY <1>3
<1> QED BY <1>2, <1>3, <1>4 DEF LayersTyped

\* References to contexts come and go; c is the one that loses one
LEMMA ReleaseKeeps ==
  ASSUME HoldConstants, HoldInv, NEW x \in [Contexts -> ContextRecord], NEW c, SameButCounts(x),
         current' \in [Threads -> Contexts \cup {Nobody}],
         \A d \in Contexts : x[d].refs = One(x[d].held) + Cardinality(UsedOn(d)'),
         \A d \in Contexts : d # c => (x[d].refs > 0 <=> ctx[d].refs > 0),
         c \in Contexts => ctx[c].refs > 0,
         IF c \in Contexts /\ x[c].refs = 0 THEN Dealloc(x, c)
         ELSE ctx' = x /\ UNCHANGED <<layer, bindings, allocs>>
  PROVE  HoldInv' /\ \A d \in Contexts : ctx'[d].due = ctx[d].due
<1>1. ASSUME NEW d \in Contexts PROVE x[d].refs \in Nat
  <2>1. x[d] \in ContextRecord /\ x[d].refs = One(x[d].held) + Cardinality(UsedOn(d)')
    OBVIOUS
  <2>2. UsedOn(d)' \subseteq Threads
    BY DEF UsedOn
  <2>3. Cardinality(UsedOn(d)') \in Nat
    BY <2>2, FS_Subset, FS_CardinalityType DEF HoldConstants
  <2> QED BY <2>1, <2>3 DEF One
<1>2. CASE ~(c \in Contexts /\ x[c].refs = 0)
  <2>1. ctx' = x /\ UNCHANGED <<layer, bindings, allocs>>
    BY <1>2
  <2>2. \A d \in Contexts : x[d].refs > 0 <=> ctx[d].refs > 0
    BY <1>1, <1>2
  <2>3. ASSUME NEW d \in Contexts PROVE ContextHeld(d)'
    <3>1. ContextHeld(d) /\ MappedFor(d)' = MappedFor(d) /\ (x[d].refs > 0 <=> ctx[d].refs > 0) /\ x[d].refs \in Nat
      BY <1>1, <2>1, <2>2 DEF HoldInv, MappedFor
    <3>2. (ctx[d].refs = One(ctx[d].held) + Cardinality(UsedOn(d)))'
      BY <2>1 DEF One
    <3>3. (MappedFor(d) = ctx[d].mapped_buffers)'
      BY <2>1, <3>1 DEF ContextHeld, SameButCounts
    <3>4. (~Live(d) => ctx[d].mapped_buffers = {} /\ ~ctx[d].resources)'
      BY <2>1, <3>1 DEF ContextHeld, SameButCounts, Live
    <3>5. (ctx[d].made => ctx[d].group \in Contexts)' /\ (~ctx[d].made => ctx[d].refs = 0)'
      BY <2>1, <3>1 DEF ContextHeld, SameButCounts
    <3> QED BY <3>2, <3>3, <3>4, <3>5 DEF ContextHeld
  <2>4. \A g : Group(ctx', g) = Group(ctx, g)
    BY <2>1, <2>2 DEF Group, SameButCounts
  <2>5. GroupsAlive' /\ LayersTyped' /\ ContextsTyped' /\ \A l \in Layers : LayerHeld(l)'
    BY <2>1, <2>4 DEF GroupsAlive, HoldInv, LayersTyped, ContextsTyped, LayerHeld, BoundTo
  <2> QED BY <2>1, <2>3, <2>5 DEF HoldInv, SameButCounts
<1>3. CASE c \in Contexts /\ x[c].refs = 0
  <2> DEFINE y == [x[c] EXCEPT !.mapped_buffers = {}, !.resources = FALSE]
             g == x[c].group
  <2>1. Dealloc(x, c) /\ x[c] \in ContextRecord
    BY <1>3
  <2>2. Live(c) /\ ContextHeld(c)
    BY <1>3 DEF Live, HoldInv
  <2>3. ctx[c].made /\ g = ctx[c].group /\ g \in Contexts
    BY <1>3, <2>2, ContextFacts DEF SameButCounts
  <2>4. y.mapped_buffers = {} /\ y.refs = x[c].refs /\ y.group = x[c].group /\ y.due = x[c].due
    BY <2>1 DEF ContextRecord
  <2>5. y.resources = FALSE /\ y.held = x[c].held /\ y.made = x[c].made
    BY <2>1 DEF ContextRecord
  <2>6. y \in ContextRecord
    BY <2>1 DEF ContextRecord
  <2>7. /\ ctx' = [x EXCEPT ![c] = y]
        /\ allocs' = allocs \ {<<c, b>> : b \in x[c].mapped_buffers}
    BY <2>1 DEF Dealloc
  <2> HIDE DEF y, g
  <2>8. ctx'[c] = y /\ (\A d \in Contexts \ {c} : ctx'[d] = x[d]) /\ ContextsTyped'
    BY <1>3, <2>6, <2>7 DEF ContextsTyped
  <2>9. ASSUME NEW d \in Contexts, d # c PROVE ContextHeld(d)'
    <3>1. ContextHeld(d) /\ MappedFor(d)' = MappedFor(d) /\ (x[d].refs > 0 <=> ctx[d].refs > 0) /\ x[d].refs \in Nat
          /\ ctx'[d] = x[d]
      BY <1>1, <2>7, <2>8, <2>9 DEF HoldInv, MappedFor
    <3>2. (ctx[d].refs = One(ctx[d].held) + Cardinality(UsedOn(d)))'
      BY <3>1 DEF One
    <3>3. (MappedFor(d) = ctx[d].mapped_buffers)'
      BY <3>1 DEF ContextHeld, SameButCounts
    <3>4. (~Live(d) => ctx[d].mapped_buffers = {} /\ ~ctx[d].resources)'
      BY <3>1 DEF ContextHeld, SameButCounts, Live
    <3>5. (ctx[d].made => ctx[d].group \in Contexts)' /\ (~ctx[d].made => ctx[d].refs = 0)'
      BY <3>1 DEF ContextHeld, SameButCounts
    <3> QED BY <3>2, <3>3, <3>4, <3>5 DEF ContextHeld
  <2>10. ContextHeld(c)'
    <3>1. x[c].mapped_buffers = MappedFor(c)
      BY <1>3, <2>2 DEF ContextHeld, SameButCounts
    <3>2. MappedFor(c)' = {}
      BY <2>7, <3>1 DEF MappedFor
    <3>3. (ctx[c].refs = One(ctx[c].held) + Cardinality(UsedOn(c)))'
      BY <1>3, <2>4, <2>5, <2>8 DEF One
    <3>4. (ctx[c].made => ctx[c].group \in Contexts)' /\ (~ctx[c].made => ctx[c].refs = 0)'
      BY <1>3, <2>3, <2>4, <2>8 DEF g
    <3> QED BY <2>4, <2>5, <2>8, <3>2, <3>3, <3>4 DEF ContextHeld, Live
  <2>11. \A h : Group(x, h) = Group(ctx', h)
    BY <2>4, <2>8 DEF Group
  <2>12. \A h : h # g => Group(ctx', h) = Group(ctx, h)
    <3>1. ASSUME NEW h, h # g PROVE Group(x, h) = Group(ctx, h)
      <4>1. \A d \in Contexts : (x[d].refs > 0 /\ x[d].group = h) <=> (ctx[d].refs > 0 /\ ctx[d].group = h)
        BY <1>3, <2>3, <3>1 DEF SameButCounts, g
      <4> QED BY <4>1 DEF Group
    <3> QED BY <2>11, <3>1
  <2>13. LayersTyped' /\ (\A l \in Layers : LayerHeld(l)') /\ GroupsAlive'
    <3>1. CASE LastOfGroup(x, c)
      <4>1. /\ bindings' = [bindings EXCEPT ![g] = [r \in Renderbuffers |-> Nobody]]
            /\ layer' = [l \in Layers |-> [layer[l] EXCEPT !.refs = @ - Cardinality({r \in Renderbuffers : bindings[g][r] = l})]]
        BY <2>1, <3>1 DEF Dealloc, FreedLayers, g
      <4>2. LayersTyped' /\ (\A l \in Layers : LayerHeld(l)')
        BY <2>3, <4>1, LastReleases
      <4>3. ASSUME NEW h \in Contexts, NEW r \in Renderbuffers, bindings'[h][r] # Nobody PROVE Group(ctx', h) # {}
        <5>1. h # g /\ bindings'[h][r] = bindings[h][r]
          BY <2>3, <4>1, <4>3 DEF HoldInv, LayersTyped
        <5> QED BY <2>12, <4>3, <5>1 DEF HoldInv, GroupsAlive
      <4> QED BY <4>2, <4>3 DEF GroupsAlive
    <3>2. CASE ~LastOfGroup(x, c)
      <4>1. bindings' = bindings /\ \A l \in Layers : layer'[l] = [layer[l] EXCEPT !.refs = layer[l].refs - 0]
        BY <2>1, <3>2 DEF Dealloc, FreedLayers
      <4>2. layer' = layer
        <5>1. ASSUME NEW l \in Layers PROVE layer'[l] = layer[l]
          <6>1. layer[l] \in [refs : Int, held : BOOLEAN] /\ layer[l].refs - 0 = layer[l].refs
            BY DEF HoldInv, LayersTyped
          <6>2. [layer[l] EXCEPT !.refs = layer[l].refs] = layer[l]
            BY <6>1
          <6> QED BY <4>1, <6>1, <6>2
        <5>2. layer' = [l \in Layers |-> layer'[l]] /\ layer = [l \in Layers |-> layer[l]]
          BY <2>1 DEF Dealloc, HoldInv, LayersTyped
        <5> QED BY <5>1, <5>2
      <4>3. Group(ctx', g) # {}
        BY <2>11, <3>2 DEF LastOfGroup, g
      <4>4. ASSUME NEW h \in Contexts, NEW r \in Renderbuffers, bindings[h][r] # Nobody PROVE Group(ctx', h) # {}
        BY <2>12, <4>3, <4>4 DEF HoldInv, GroupsAlive
      <4> QED BY <4>1, <4>2, <4>4 DEF HoldInv, LayersTyped, LayerHeld, BoundTo, GroupsAlive
    <3> QED BY <3>1, <3>2
  <2>14. \A d \in Contexts : ctx'[d].due = ctx[d].due
    BY <1>3, <2>4, <2>8 DEF SameButCounts
  <2> QED BY <2>8, <2>9, <2>10, <2>13, <2>14 DEF HoldInv
<1> QED BY <1>2, <1>3

\* Adding to the count of one context, if it is one
Counted(x, y, c, n) ==
  /\ y \in [Contexts -> ContextRecord]
  /\ \A d \in Contexts :
       /\ y[d].group = x[d].group /\ y[d].mapped_buffers = x[d].mapped_buffers /\ y[d].due = x[d].due
       /\ y[d].made = x[d].made /\ y[d].held = x[d].held /\ y[d].resources = x[d].resources
       /\ d = c => y[d].refs = x[d].refs + n
       /\ d # c => y[d].refs = x[d].refs
LEMMA ContextCount ==
  ASSUME NEW x \in [Contexts -> ContextRecord], NEW c, NEW n \in Int, NEW y,
         y = IF c \in Contexts THEN [x EXCEPT ![c].refs = @ + n] ELSE x
  PROVE  Counted(x, y, c, n)
<1>1. CASE c \notin Contexts
  BY <1>1 DEF Counted
<1>2. CASE c \in Contexts
  <2> DEFINE w == x[c]  m == w.refs + n  z == [w EXCEPT !.refs = m]
  <2>1. w \in ContextRecord
    BY <1>2
  <2>2. m \in Int
    BY <2>1 DEF ContextRecord
  <2>3. y = [x EXCEPT ![c] = z]
    BY <1>2
  <2> HIDE DEF w, m
  <2>4. z \in ContextRecord /\ z.refs = m
    BY <2>1, <2>2 DEF ContextRecord
  <2>5. z.group = w.group /\ z.mapped_buffers = w.mapped_buffers /\ z.due = w.due
    BY <2>1 DEF ContextRecord
  <2>6. z.made = w.made /\ z.held = w.held /\ z.resources = w.resources
    BY <2>1 DEF ContextRecord
  <2> HIDE DEF z
  <2>7. y \in [Contexts -> ContextRecord] /\ y[c] = z /\ \A d \in Contexts \ {c} : y[d] = x[d]
    BY <1>2, <2>3, <2>4
  <2> QED BY <2>4, <2>5, <2>6, <2>7 DEF w, m, Counted
<1> QED BY <1>1, <1>2

LEMMA GuestReleaseKeeps ==
  ASSUME HoldConstants, HoldInv, NEW c \in Contexts, guest_releases(c)
  PROVE  HoldInv' /\ \A d \in Contexts : ctx'[d].due = ctx[d].due
<1> DEFINE w == ctx[c]  m == w.refs - 1
           z == [w EXCEPT !.refs = m, !.held = FALSE]
           x == [ctx EXCEPT ![c].refs = @ - 1, ![c].held = FALSE]
<1>1. /\ Live(c) /\ w.held /\ current' = current
      /\ IF x[c].refs = 0 THEN Dealloc(x, c) ELSE ctx' = x /\ UNCHANGED <<layer, bindings, allocs>>
  BY DEF guest_releases
<1>2. w \in ContextRecord /\ DOMAIN ctx = Contexts /\ ctx \in [Contexts -> ContextRecord] /\ ContextHeld(c)
      /\ w.refs \in Nat /\ Cardinality(UsedOn(c)) \in Nat
  BY ContextFacts DEF HoldInv, ContextsTyped
<1>3. m = Cardinality(UsedOn(c)) /\ m \in Int
  BY <1>1, <1>2 DEF ContextHeld, One
<1>x. x = [ctx EXCEPT ![c] = z]
  BY <1>2
<1> HIDE DEF w, m, x
<1>4. z \in ContextRecord /\ z.refs = m
  <2> DEFINE z1 == [w EXCEPT !.refs = m]
  <2>1. z1 \in ContextRecord /\ z1.refs = m
    BY <1>2, <1>3 DEF ContextRecord
  <2> HIDE DEF z1
  <2>2. [z1 EXCEPT !.held = FALSE] \in ContextRecord /\ [z1 EXCEPT !.held = FALSE].refs = z1.refs
    BY <2>1 DEF ContextRecord
  <2> QED BY <2>1, <2>2 DEF z1
<1>5. z.group = w.group /\ z.mapped_buffers = w.mapped_buffers /\ z.due = w.due
  BY <1>2 DEF ContextRecord
<1>6. z.made = w.made /\ z.held = FALSE /\ z.resources = w.resources
  BY <1>2 DEF ContextRecord
<1> HIDE DEF z
<1>7. x \in [Contexts -> ContextRecord] /\ x[c] = z /\ \A d \in Contexts \ {c} : x[d] = ctx[d]
  BY <1>x, <1>2, <1>4
<1>8. SameButCounts(x)
  BY <1>5, <1>6, <1>7 DEF SameButCounts, w
<1>9. ASSUME NEW d \in Contexts PROVE x[d].refs = One(x[d].held) + Cardinality(UsedOn(d)')
  <2>1. UsedOn(d)' = UsedOn(d) /\ ContextHeld(d)
    BY <1>1 DEF UsedOn, HoldInv
  <2>2. CASE d = c
    BY <1>2, <1>3, <1>4, <1>6, <1>7, <2>1, <2>2 DEF One
  <2>3. CASE d # c
    BY <1>7, <2>1, <2>3 DEF ContextHeld
  <2> QED BY <2>2, <2>3
<1>10. \A d \in Contexts : d # c => (x[d].refs > 0 <=> ctx[d].refs > 0)
  BY <1>7
<1>11. current' \in [Threads -> Contexts \cup {Nobody}] /\ ctx[c].refs > 0
  BY <1>1 DEF HoldInv, Live
<1>12. IF c \in Contexts /\ x[c].refs = 0 THEN Dealloc(x, c) ELSE ctx' = x /\ UNCHANGED <<layer, bindings, allocs>>
  BY <1>1
<1> QED BY <1>7, <1>8, <1>9, <1>10, <1>11, <1>12, ReleaseKeeps

LEMMA SetCurrentKeeps ==
  ASSUME HoldConstants, HoldInv, NEW t \in Threads, NEW c \in Contexts \cup {Nobody}, setCurrentContext(t, c)
  PROVE  HoldInv' /\ \A d \in Contexts : ctx'[d].due = ctx[d].due
<1> DEFINE old == current[t]
           up == IF c \in Contexts THEN [ctx EXCEPT ![c].refs = @ + 1] ELSE ctx
           x == IF old \in Contexts THEN [up EXCEPT ![old].refs = @ - 1] ELSE up
<1>1. /\ c # Nobody => ctx[c].held \/ \E u \in Threads : current[u] = c
      /\ current' = [current EXCEPT ![t] = c]
      /\ IF old \in Contexts /\ x[old].refs = 0 THEN Dealloc(x, old)
         ELSE ctx' = x /\ UNCHANGED <<layer, bindings, allocs>>
  BY DEF setCurrentContext, Swap
<1>2. /\ ctx \in [Contexts -> ContextRecord] /\ current \in [Threads -> Contexts \cup {Nobody}]
      /\ Nobody \notin Contexts
  BY DEF HoldInv, ContextsTyped, HoldConstants
<1>3. c \in Contexts => ctx[c].refs > 0
  <2>1. ASSUME c \in Contexts PROVE ctx[c].refs > 0
    <3>1. ctx[c].held \/ UsedOn(c) # {}
      BY <1>1, <1>2, <2>1 DEF UsedOn
    <3>2. Live(c)
      BY <2>1, <3>1, ContextFacts
    <3> QED BY <3>2 DEF Live
  <2> QED BY <2>1
<1>4. old \in Contexts => ctx[old].refs > 0
  <2>1. ASSUME old \in Contexts PROVE ctx[old].refs > 0
    <3>1. UsedOn(old) # {}
      BY DEF UsedOn
    <3>2. Live(old)
      BY <2>1, <3>1, ContextFacts
    <3> QED BY <3>2 DEF Live
  <2> QED BY <2>1
<1>u. up = IF c \in Contexts THEN [ctx EXCEPT ![c].refs = @ + 1] ELSE ctx
  OBVIOUS
<1> HIDE DEF old, up
<1>5. Counted(ctx, up, c, 1)
  <2>1. ctx \in [Contexts -> ContextRecord] /\ 1 \in Int
    BY <1>2
  <2> QED BY <1>u, <2>1, ContextCount
<1>6. x = IF old \in Contexts THEN [up EXCEPT ![old].refs = @ + (-1)] ELSE up
  <2>1. CASE old \in Contexts
    <3>1. up[old].refs \in Int
      BY <1>5, <2>1 DEF ContextRecord, Counted
    <3>2. up[old].refs - 1 = up[old].refs + (-1)
      BY <3>1
    <3> QED BY <2>1, <3>2
  <2>2. CASE old \notin Contexts
    BY <2>2
  <2> QED BY <2>1, <2>2
<1> HIDE DEF x
<1>7. Counted(up, x, old, -1)
  <2>1. up \in [Contexts -> ContextRecord] /\ -1 \in Int
    BY <1>5 DEF Counted
  <2> QED BY <1>6, <2>1, ContextCount
<1>8. SameButCounts(x) /\ x \in [Contexts -> ContextRecord]
  BY <1>5, <1>7 DEF SameButCounts, Counted
<1>9. current' \in [Threads -> Contexts \cup {Nobody}]
  BY <1>1, <1>2
<1>10. ASSUME NEW d \in Contexts
       PROVE  /\ x[d].refs = One(x[d].held) + Cardinality(UsedOn(d)')
              /\ d # old => (x[d].refs > 0 <=> ctx[d].refs > 0)
  <2>1. /\ ContextHeld(d) /\ ctx[d].refs \in Nat /\ IsFiniteSet(UsedOn(d)) /\ Cardinality(UsedOn(d)) \in Nat
        /\ ctx[d].held \in BOOLEAN
    BY ContextFacts, CountFacts
  <2>2. UsedOn(d)' = IF d = c THEN UsedOn(d) \cup {t} ELSE UsedOn(d) \ {t}
    BY <1>1, <1>2 DEF UsedOn
  <2>3. t \in UsedOn(d) <=> d = old
    BY DEF UsedOn, old
  <2>4. /\ Cardinality(UsedOn(d) \cup {t}) = IF d = old THEN Cardinality(UsedOn(d)) ELSE Cardinality(UsedOn(d)) + 1
        /\ Cardinality(UsedOn(d) \ {t}) = IF d = old THEN Cardinality(UsedOn(d)) - 1 ELSE Cardinality(UsedOn(d))
    BY <2>1, <2>3, FS_AddElement, FS_RemoveElement
  <2>5. One(x[d].held) = One(ctx[d].held) /\ One(ctx[d].held) \in Int
    BY <1>5, <1>7 DEF One, Counted
  <2>6. x[d].refs = One(x[d].held) + Cardinality(UsedOn(d)')
    <3>1. ctx[d].refs = One(ctx[d].held) + Cardinality(UsedOn(d))
      BY <2>1 DEF ContextHeld
    <3>2. CASE d = c /\ d = old
      BY <1>5, <1>7, <2>1, <2>2, <2>4, <2>5, <3>1, <3>2 DEF Counted
    <3>3. CASE d = c /\ d # old
      BY <1>5, <1>7, <2>1, <2>2, <2>4, <2>5, <3>1, <3>3 DEF Counted
    <3>4. CASE d # c /\ d = old
      BY <1>5, <1>7, <2>1, <2>2, <2>4, <2>5, <3>1, <3>4 DEF Counted
    <3>5. CASE d # c /\ d # old
      BY <1>5, <1>7, <2>1, <2>2, <2>4, <2>5, <3>1, <3>5 DEF Counted
    <3> QED BY <3>2, <3>3, <3>4, <3>5
  <2>7. d # old => (x[d].refs > 0 <=> ctx[d].refs > 0)
    BY <1>3, <1>5, <1>7, <2>1 DEF Counted
  <2> QED BY <2>6, <2>7
<1>11. IF old \in Contexts /\ x[old].refs = 0 THEN Dealloc(x, old) ELSE ctx' = x /\ UNCHANGED <<layer, bindings, allocs>>
  BY <1>1
<1>12. \A d \in Contexts : x[d].refs = One(x[d].held) + Cardinality(UsedOn(d)')
  BY <1>10
<1>13. \A d \in Contexts : d # old => (x[d].refs > 0 <=> ctx[d].refs > 0)
  BY <1>10
<1> QED BY <1>4, <1>8, <1>9, <1>11, <1>12, <1>13, ReleaseKeeps

\* Making a context, with a sharegroup of its own or another's
LEMMA InitKeeps ==
  ASSUME HoldConstants, HoldInv, NEW c \in Contexts,
         initWithAPI(c) \/ \E other \in Contexts : initWithAPI_sharegroup(c, other)
  PROVE  HoldInv' /\ \A d \in Contexts : ctx'[d].due = ctx[d].due
<1>1. ctx \in [Contexts -> ContextRecord]
  BY DEF HoldInv, ContextsTyped
<1>2. CASE initWithAPI(c)
  <2>1. ~ctx[c].made /\ UNCHANGED <<bindings, layer, current, allocs>>
    BY <1>2 DEF initWithAPI
  <2>2. ctx' = [ctx EXCEPT ![c] = [ctx[c] EXCEPT !.made = TRUE, !.refs = 1, !.held = TRUE, !.group = c]]
    BY <1>1, <1>2 DEF initWithAPI
  <2> QED BY <2>1, <2>2, MakeKeeps
<1>3. ASSUME NEW other \in Contexts, initWithAPI_sharegroup(c, other)
      PROVE  HoldInv' /\ \A d \in Contexts : ctx'[d].due = ctx[d].due
  <2>1. ~ctx[c].made /\ Live(other) /\ UNCHANGED <<bindings, layer, current, allocs>>
    BY <1>3 DEF initWithAPI_sharegroup
  <2> DEFINE g == ctx[other].group
  <2>2. g \in Contexts
    BY <2>1, ContextFacts
  <2>3. ctx' = [ctx EXCEPT ![c] = [ctx[c] EXCEPT !.made = TRUE, !.refs = 1, !.held = TRUE, !.group = g]]
    BY <1>1, <1>3 DEF initWithAPI_sharegroup
  <2> HIDE DEF g
  <2> QED BY <2>1, <2>2, <2>3, MakeKeeps
<1> QED BY <1>2, <1>3

\* Whatever does not present a frame
LEMMA HoldingKeeps ==
  ASSUME HoldConstants, HoldInv, Holding
  PROVE  HoldInv' /\ (\A d \in Contexts : ctx'[d].due = ctx[d].due) /\ UNCHANGED <<now, shown>>
<1>1. ASSUME NEW c \in Contexts, initWithAPI(c) \/ \E other \in Contexts : initWithAPI_sharegroup(c, other)
      PROVE  HoldInv' /\ (\A d \in Contexts : ctx'[d].due = ctx[d].due) /\ UNCHANGED <<now, shown>>
  BY <1>1, InitKeeps DEF initWithAPI, initWithAPI_sharegroup
<1>2. ASSUME NEW c \in Contexts, guest_releases(c)
      PROVE  HoldInv' /\ (\A d \in Contexts : ctx'[d].due = ctx[d].due) /\ UNCHANGED <<now, shown>>
  <2>1. UNCHANGED <<now, shown>>
    BY <1>2 DEF guest_releases
  <2> QED BY <1>2, <2>1, GuestReleaseKeeps
<1>3. ASSUME NEW l \in Layers, guest_releases_layer(l)
      PROVE  HoldInv' /\ (\A d \in Contexts : ctx'[d].due = ctx[d].due) /\ UNCHANGED <<now, shown>>
  BY <1>3, LayerReleaseKeeps DEF guest_releases_layer
<1>4. ASSUME NEW t \in Threads, NEW c \in Contexts \cup {Nobody}, setCurrentContext(t, c)
      PROVE  HoldInv' /\ (\A d \in Contexts : ctx'[d].due = ctx[d].due) /\ UNCHANGED <<now, shown>>
  <2>1. UNCHANGED <<now, shown>>
    BY <1>4 DEF setCurrentContext
  <2> QED BY <1>4, <2>1, SetCurrentKeeps
<1>5. ASSUME NEW t \in Threads, NEW r \in Renderbuffers, glBindRenderbufferOES(t, r)
      PROVE  HoldInv' /\ (\A d \in Contexts : ctx'[d].due = ctx[d].due) /\ UNCHANGED <<now, shown>>
  BY <1>5, BindKeeps DEF glBindRenderbufferOES
<1>6. ASSUME NEW t \in Threads, NEW l \in Layers \cup {Nobody}, renderbufferStorage(t, l)
      PROVE  HoldInv' /\ (\A d \in Contexts : ctx'[d].due = ctx[d].due) /\ UNCHANGED <<now, shown>>
  BY <1>6, StorageHolds DEF renderbufferStorage
<1>7. ASSUME NEW t \in Threads, NEW b \in Buffers, glMapBufferOES(t, b) \/ glUnmapBufferOES(t, b)
      PROVE  HoldInv' /\ (\A d \in Contexts : ctx'[d].due = ctx[d].due) /\ UNCHANGED <<now, shown>>
  BY <1>7, MapBufferKeeps DEF glMapBufferOES, glUnmapBufferOES
<1> QED BY <1>1, <1>2, <1>3, <1>4, <1>5, <1>6, <1>7 DEF Holding

\* A frame of c is shown
FrameShown(c) ==
  /\ shown' = [shown EXCEPT ![c] = [first |-> IF shown[c].first = None THEN now ELSE shown[c].first,
                                    frames |-> shown[c].frames + 1]]
  /\ ctx'[c].due = limit_framerate(ctx[c].due) /\ now' = SleepUntil(ctx[c].due)
  /\ \A d \in Contexts \ {c} : ctx'[d] = ctx[d]
LEMMA PresentHolds ==
  ASSUME HoldConstants, PaceConstants, HoldInv, PaceInv, NEW t \in Threads, presentRenderbuffer(t)
  PROVE  HoldInv' /\ \E c \in Contexts : FrameShown(c)
<1>1. PICK c \in Contexts :
        /\ On(t, c) /\ now' = SleepUntil(ctx[c].due)
        /\ ctx' = [ctx EXCEPT ![c].due = limit_framerate(@), ![c].resources = TRUE]
        /\ shown' = [shown EXCEPT ![c] = [first |-> IF @.first = None THEN now ELSE @.first,
                                          frames |-> @.frames + 1]]
        /\ UNCHANGED <<bindings, layer, current, allocs>>
  BY DEF presentRenderbuffer
<1> DEFINE x == ctx[c]  n == limit_framerate(x.due)  z == [x EXCEPT !.due = n]
           y == [z EXCEPT !.resources = TRUE]
<1>2. x \in ContextRecord /\ ctx \in [Contexts -> ContextRecord] /\ ContextHeld(c) /\ Live(c)
  BY <1>1, ContextFacts, CurrentLives DEF HoldInv, ContextsTyped
<1>3. x.due \in Nat \cup {None} /\ now \in Nat
  BY <1>2 DEF ContextRecord, PaceInv
<1>4. n \in Nat
  BY <1>3, LimitFacts
<1>5. ctx' = [ctx EXCEPT ![c] = y]
  BY <1>1, <1>2
<1> HIDE DEF x, n
<1>6. z \in ContextRecord /\ z.due = n /\ z.refs = x.refs /\ z.group = x.group /\ z.mapped_buffers = x.mapped_buffers
  BY <1>2, <1>4 DEF ContextRecord
<1>7. z.made = x.made /\ z.held = x.held
  BY <1>2 DEF ContextRecord
<1> HIDE DEF z
<1>8. y \in ContextRecord /\ y.due = n /\ y.refs = x.refs /\ y.group = x.group /\ y.mapped_buffers = x.mapped_buffers
  BY <1>6 DEF ContextRecord
<1>9. y.made = x.made /\ y.held = x.held
  BY <1>6, <1>7 DEF ContextRecord
<1> HIDE DEF y
<1>10. ctx'[c] = y /\ \A d \in Contexts \ {c} : ctx'[d] = ctx[d]
  BY <1>2, <1>5
<1>11. ContextHeld(c)'
  <2>1. UsedOn(c)' = UsedOn(c) /\ MappedFor(c)' = MappedFor(c)
    BY <1>1 DEF UsedOn, MappedFor
  <2> QED BY <1>2, <1>8, <1>9, <1>10, <2>1 DEF ContextHeld, Live, x
<1>12. \A d \in Contexts \ {c} : MappedFor(d)' = MappedFor(d)
  BY <1>1 DEF MappedFor
<1>13. Live(c) => y.refs > 0 /\ y.group = ctx[c].group
  BY <1>8 DEF Live, x
<1>14. HoldInv'
  BY <1>1, <1>5, <1>8, <1>11, <1>12, <1>13, OneContext
<1>15. FrameShown(c)
  BY <1>1, <1>8, <1>10 DEF FrameShown, n, x
<1> QED BY <1>14, <1>15

LEMMA Between ==
  ASSUME NEW n \in Nat, NEW a \in Nat, NEW b \in Nat, NEW i \in Nat, n >= a, n <= b + i
  PROVE  n \in a .. b + i
OBVIOUS

\* The frame that is shown comes late enough, and so will the next
LEMMA PresentPaces ==
  ASSUME PaceConstants, PaceInv, ContextsTyped', NEW c \in Contexts, FrameShown(c)
  PROVE  /\ PaceInv'
         /\ (shown'[c].frames - 2) * Interval <= now - shown'[c].first
         /\ ctx'[c].due \in now .. now' + Interval
         /\ \A d \in Contexts \ {c} : shown'[d] = shown[d]
<1> DEFINE due == ctx[c].due  first == shown[c].first  frames == shown[c].frames
           due1 == ctx'[c].due  first1 == shown'[c].first  frames1 == shown'[c].frames
<1>1. /\ ctx[c] \in ContextRecord /\ shown[c] \in [first : Nat \cup {None}, frames : Nat] /\ PacedSoFar(c)
      /\ Interval \in Nat \ {0} /\ now \in Nat
  BY DEF PaceInv, ContextsTyped, PaceConstants
<1>2. due \in Nat \cup {None} /\ first \in Nat \cup {None} /\ frames \in Nat
  BY <1>1 DEF ContextRecord
<1>3. /\ due1 = limit_framerate(due) /\ now' = SleepUntil(due)
      /\ first1 = (IF first = None THEN now ELSE first) /\ frames1 = frames + 1
      /\ \A d \in Contexts \ {c} : shown'[d] = shown[d] /\ ctx'[d] = ctx[d]
  BY DEF FrameShown, PaceInv
<1>4. /\ limit_framerate(due) \in Nat
      /\ limit_framerate(due) >= now /\ limit_framerate(due) <= SleepUntil(due) + Interval
      /\ due # None => limit_framerate(due) >= due + Interval
      /\ due = None => limit_framerate(due) = now + Interval
      /\ SleepUntil(due) \in Nat /\ SleepUntil(due) >= now
  BY <1>1, <1>2, LimitFacts
<1>5. /\ due1 \in Nat /\ due1 >= now /\ due1 <= now' + Interval /\ now' \in Nat /\ now' >= now
      /\ due # None => due1 >= due + Interval
      /\ due = None => due1 = now + Interval
  BY <1>3, <1>4
<1>6. \/ frames = 0 /\ first = None /\ due = None
      \/ /\ frames \in Nat \ {0} /\ first \in Nat /\ due \in Nat
         /\ due >= first + frames * Interval /\ due <= now + Interval
  BY <1>1 DEF PacedSoFar
<1> HIDE DEF due, first, frames, due1, first1, frames1
<1>7. /\ frames1 \in Nat \ {0} /\ first1 \in Nat /\ due1 >= first1 + frames1 * Interval
      /\ (frames1 - 2) * Interval <= now - first1
  <2>1. CASE frames = 0 /\ first = None /\ due = None
    <3>1. frames1 = 1 /\ first1 = now /\ due1 = now + Interval
      BY <1>3, <1>5, <2>1
    <3>2. frames1 * Interval = Interval /\ (frames1 - 2) * Interval = 0 - Interval
      BY <1>1, <3>1
    <3> QED BY <1>1, <3>1, <3>2
  <2>2. CASE /\ frames \in Nat \ {0} /\ first \in Nat /\ due \in Nat
             /\ due >= first + frames * Interval /\ due <= now + Interval
    <3>1. frames1 = frames + 1 /\ first1 = first /\ due # None
      BY <1>3, <2>2 DEF None
    <3> DEFINE k == frames * Interval
    <3>2. k \in Nat /\ frames1 * Interval = k + Interval /\ (frames1 - 2) * Interval = k - Interval
      BY <1>1, <2>2, <3>1
    <3>3. due >= first + k
      BY <2>2
    <3> HIDE DEF k
    <3> QED BY <1>1, <1>5, <2>2, <3>1, <3>2, <3>3
  <2> QED BY <1>6, <2>1, <2>2
<1>8. PacedSoFar(c)'
  BY <1>5, <1>7 DEF PacedSoFar, due1, first1, frames1
<1>9. ASSUME NEW d \in Contexts, d # c PROVE PacedSoFar(d)'
  <2>1. PacedSoFar(d) /\ shown'[d] = shown[d] /\ ctx'[d] = ctx[d]
    BY <1>3, <1>9 DEF PaceInv
  <2> QED BY <1>1, <1>5, <2>1 DEF PacedSoFar
<1>10. shown' \in [Contexts -> [first : Nat \cup {None}, frames : Nat]]
  <2> DEFINE s == [first |-> IF first = None THEN now ELSE first, frames |-> frames + 1]
  <2>1. s \in [first : Nat \cup {None}, frames : Nat]
    BY <1>1, <1>2
  <2>2. shown' = [shown EXCEPT ![c] = s]
    BY DEF FrameShown, first, frames
  <2> HIDE DEF s
  <2> QED BY <2>1, <2>2 DEF PaceInv
<1>11. PaceInv'
  BY <1>5, <1>8, <1>9, <1>10 DEF PaceInv
<1>12. due1 \in now .. now' + Interval
  <2>1. Interval \in Nat /\ now \in Nat
    BY <1>1
  <2>2. due1 \in Nat /\ now' \in Nat /\ due1 >= now /\ due1 <= now' + Interval
    BY <1>5
  <2> QED BY <2>1, <2>2, Between
<1> QED BY <1>3, <1>7, <1>11, <1>12 DEF due1, first1, frames1

LEMMA Step ==
  ASSUME HoldConstants, PaceConstants, HoldInv, PaceInv, [ContextsNext]_eagl_vars
  PROVE  /\ HoldInv' /\ PaceInv'
         /\ \A c \in Contexts :
              shown'[c].frames > shown[c].frames =>
                /\ (shown'[c].frames - 2) * Interval <= now - shown'[c].first
                /\ ctx'[c].due \in now .. now' + Interval
<1>1. \A c \in Contexts : shown[c].frames \in Nat
  BY DEF PaceInv
<1>2. now \in Nat
  BY DEF PaceInv
<1>3. CASE Holding
  <2>1. HoldInv' /\ (\A d \in Contexts : ctx'[d].due = ctx[d].due) /\ UNCHANGED <<now, shown>>
    BY <1>3, HoldingKeeps
  <2>2. ContextsTyped' /\ now' \in Nat /\ now' >= now
    BY <1>2, <2>1 DEF HoldInv
  <2>3. PaceInv'
    BY <2>1, <2>2, PaceRests
  <2> QED BY <1>1, <2>1, <2>3
<1>4. CASE tick \/ UNCHANGED eagl_vars
  <2>1. UNCHANGED <<ctx, bindings, layer, current, mapped, allocs, shown>> /\ now' \in Nat /\ now' >= now
    BY <1>2, <1>4 DEF tick, Held, eagl_vars
  <2>2. HoldInv'
    <3>1. ContextsTyped' /\ LayersTyped' /\ GroupsAlive' /\ current' \in [Threads -> Contexts \cup {Nobody}]
      BY <2>1 DEF HoldInv, ContextsTyped, LayersTyped, GroupsAlive
    <3>2. ASSUME NEW c \in Contexts PROVE ContextHeld(c)'
      <4>1. ContextHeld(c) /\ UsedOn(c)' = UsedOn(c) /\ MappedFor(c)' = MappedFor(c)
        BY <2>1 DEF HoldInv, UsedOn, MappedFor
      <4> QED BY <2>1, <4>1 DEF ContextHeld, Live
    <3>3. \A l \in Layers : LayerHeld(l)'
      BY <2>1 DEF HoldInv, LayerHeld, BoundTo
    <3> QED BY <3>1, <3>2, <3>3 DEF HoldInv
  <2>3. ContextsTyped' /\ \A d \in Contexts : ctx'[d].due = ctx[d].due
    BY <2>1, <2>2 DEF HoldInv
  <2>4. PaceInv'
    BY <2>1, <2>3, PaceRests
  <2> QED BY <1>1, <2>1, <2>2, <2>4
<1>5. ASSUME NEW t \in Threads, presentRenderbuffer(t)
      PROVE  /\ HoldInv' /\ PaceInv'
             /\ \A c \in Contexts :
                  shown'[c].frames > shown[c].frames =>
                    /\ (shown'[c].frames - 2) * Interval <= now - shown'[c].first
                    /\ ctx'[c].due \in now .. now' + Interval
  <2>1. HoldInv' /\ \E c \in Contexts : FrameShown(c)
    BY <1>5, PresentHolds
  <2>2. PICK c \in Contexts : FrameShown(c)
    BY <2>1
  <2>3. ContextsTyped'
    BY <2>1 DEF HoldInv
  <2>4. /\ PaceInv'
        /\ (shown'[c].frames - 2) * Interval <= now - shown'[c].first
        /\ ctx'[c].due \in now .. now' + Interval
        /\ \A d \in Contexts \ {c} : shown'[d] = shown[d]
    BY <2>2, <2>3, PresentPaces
  <2>5. ASSUME NEW d \in Contexts, shown'[d].frames > shown[d].frames PROVE d = c
    <3>1. d # c => shown'[d] = shown[d]
      BY <2>4
    <3> QED BY <1>1, <2>5, <3>1
  <2> QED BY <2>1, <2>4, <2>5
<1> QED BY <1>3, <1>4, <1>5 DEF ContextsNext, Pacing

LEMMA HoldInvExact == ASSUME HoldConstants, HoldInv PROVE HoldersExact
<1>1. ASSUME NEW c \in Contexts
      PROVE  /\ ctx[c].refs = (IF ctx[c].held THEN 1 ELSE 0) + Cardinality({t \in Threads : current[t] = c})
             /\ {b \in Buffers : <<c, b>> \in allocs} = ctx[c].mapped_buffers
             /\ ~Live(c) => ctx[c].mapped_buffers = {} /\ ~ctx[c].resources
  <2>1. ContextHeld(c)
    BY DEF HoldInv
  <2> QED BY <2>1 DEF ContextHeld, UsedOn, MappedFor, One
<1>2. ASSUME NEW l \in Layers
      PROVE  layer[l].refs = (IF layer[l].held THEN 1 ELSE 0) +
               Cardinality({p \in Contexts \X Renderbuffers : bindings[p[1]][p[2]] = l /\ Group(ctx, p[1]) # {}})
  <2>1. LayerHeld(l) /\ l # Nobody /\ GroupsAlive
    BY DEF HoldInv, HoldConstants
  <2>2. \A p \in Contexts \X Renderbuffers : bindings[p[1]][p[2]] = l => Group(ctx, p[1]) # {}
    BY <2>1 DEF GroupsAlive
  <2>3. BoundTo(l) = {p \in Contexts \X Renderbuffers : bindings[p[1]][p[2]] = l /\ Group(ctx, p[1]) # {}}
    BY <2>2 DEF BoundTo
  <2> QED BY <2>1, <2>3 DEF LayerHeld, One
<1>3. GroupsAlive
  BY DEF HoldInv
<1> QED BY <1>1, <1>2, <1>3 DEF HoldersExact, GroupsAlive

\* For any contexts, threads, layers and renderbuffers: every reference to a context and to a
\* layer is one somebody holds, and every buffer in guest memory one a living context lists.
THEOREM HoldersAlwaysExact == ContextsSpec => []HoldersExact
<1> USE EAGLAssumption
<1>1. ContextsInit => HoldInv /\ PaceInv
  BY HoldStarts, PaceStarts
<1>2. HoldInv /\ PaceInv /\ [ContextsNext]_eagl_vars => HoldInv' /\ PaceInv'
  BY Step
<1>3. HoldInv => HoldersExact
  BY HoldInvExact
<1> QED BY <1>1, <1>2, <1>3, PTL DEF ContextsSpec

\* For any frame interval: no run of frames is faster than the limit allows by more than two
\* frames, no frame waits longer than an interval, and none is due in the past.
THEOREM FramesAlwaysPaced == ContextsSpec => Paced
<1> USE EAGLAssumption
<1> DEFINE OnTime == \A c \in Contexts :
                       shown'[c].frames > shown[c].frames =>
                         /\ (shown'[c].frames - 2) * Interval <= now - shown'[c].first
                         /\ ctx'[c].due \in now .. now' + Interval
<1>1. ContextsInit => HoldInv /\ PaceInv
  BY HoldStarts, PaceStarts
<1>2. HoldInv /\ PaceInv /\ [ContextsNext]_eagl_vars => HoldInv' /\ PaceInv' /\ [OnTime]_eagl_vars
  BY Step
<1> QED BY <1>1, <1>2, PTL DEF ContextsSpec, Paced
=============================================================================
