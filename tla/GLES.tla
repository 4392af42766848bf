-------------------------------- MODULE GLES --------------------------------
(***************************************************************************)
(* One OpenGL ES context as the guest sees it: the entry points            *)
(* (frameworks/opengles/gles_guest.rs), the two implementations of OpenGL  *)
(* ES 1.1 below them (gles/gles1_on_gl2.rs on a desktop OpenGL, which has  *)
(* no fixed-point arrays, and gles/gles1_native.rs), and presenting, which *)
(* borrows the guest's context to draw a frame on the window (eagl.rs,     *)
(* gles/present.rs).                                                       *)
(*                                                                         *)
(* A setting is one number, or one record where a property looks inside;   *)
(* the dozens of settings that are stored and read back alike are members  *)
(* of one set each.                                                        *)
(***************************************************************************)
EXTENDS Integers, Sequences, FiniteSets, SequencesExt

CONSTANTS
  Impls,        \* implementations to look at: "gl2", "native"
  Units,        \* texture units
  Caps,         \* capabilities of glEnable other than FOG and TEXTURE_2D
  Modes,        \* matrix modes
  MaxStack,     \* depth of a matrix stack
  FixedOne,     \* a fixed-point 1.0
  MaxSettings   \* bound on how many settings are away from their defaults

ASSUME GLESAssumption ==
  /\ Impls \subseteq {"gl2", "native"} /\ 0 \in Units /\ Units \subseteq Nat
  /\ {"MODELVIEW", "TEXTURE"} \subseteq Modes
  /\ FixedOne \in Nat \ {0, 1} /\ MaxStack \in Nat \ {0} /\ MaxSettings \in Nat

VARIABLES
  impl,   \* the implementation behind the context
  gl,     \* the state of the host's context, and GLES1OnGL2State
  panic

vars == <<impl, gl, panic>>

ARRAYS == <<"color", "normal", "tex", "vertex">>
\* There is one texture co-ordinates array per texture unit
Cell(k, u) == <<k, IF k = "tex" THEN u ELSE 0>>
Cells == {Cell(k, u) : k \in Range(ARRAYS), u \in Units}
\* Settings that are stored and read back alike: floating-point numbers
\* ("state" is AlphaFunc, DepthRange, LineWidth...), and enums and integers
FloatItems == {"state", "point", "light", "color", "clear_color"}
EnumItems == {"viewport", "program", "pixel_store", "tex_parameter", "tex_env"}
Items == FloatItems \cup EnumItems
AllCaps == {<<c, 0>> : c \in Caps \cup {"FOG"}} \cup {<<"TEXTURE_2D", u>> : u \in Units}
\* Capabilities as glEnable finds them: TEXTURE_2D is that of the active unit
CAPABILITIES(g) == {c \in AllCaps : c[1] = "TEXTURE_2D" => c[2] = g.active}

Guest(p) == <<"guest", p>>
Default == [type |-> "FLOAT", ptr |-> Guest(0), buf |-> 0]
Fresh ==
  [val |-> [i \in Items |-> 0], blend |-> <<0, 0>>, fog |-> <<0, 1>>,
   caps |-> {}, on |-> {}, arr |-> [c \in Cells |-> Default],
   active |-> 0, client |-> 0, array_buffer |-> 0,
   tex |-> [u \in Units |-> 0], framebuffer |-> 0,
   stack |-> [m \in Modes |-> <<0>>], mode |-> "MODELVIEW",
   pointer_is_fixed_point |-> {}, fixed_point_texture_units |-> {}]

Init == impl \in Impls /\ gl = Fresh /\ panic = FALSE

-----------------------------------------------------------------------------
(***************************************************************************)
(* What the guest has told OpenGL, read off the state below it             *)
(***************************************************************************)
IsFixed(g, c) ==
  \/ g.arr[c].type = "FIXED"
  \/ c[1] # "tex" /\ c[1] \in g.pointer_is_fixed_point
  \/ c[1] = "tex" /\ c[2] \in g.fixed_point_texture_units
Told(g, c) == [g.arr[c] EXCEPT !.type = IF IsFixed(g, c) THEN "FIXED" ELSE @]
View ==
  [item |-> gl.val, cap |-> gl.caps, enabled |-> gl.on, texture |-> gl.tex, matrix |-> gl.stack,
   tex_array |-> [u \in Units |-> Told(gl, Cell("tex", u))], color_array |-> Told(gl, Cell("color", 0)),
   normal_array |-> Told(gl, Cell("normal", 0)), vertex_array |-> Told(gl, Cell("vertex", 0)),
   blend |-> gl.blend, fog |-> gl.fog, mode |-> gl.mode, active |-> gl.active, client |-> gl.client,
   array_buffer |-> gl.array_buffer, framebuffer |-> gl.framebuffer]

\* How far the guest has gone from the defaults
Changed(g) ==
  LET B(b) == IF b THEN 1 ELSE 0
  IN  Cardinality({i \in Items : g.val[i] # 0}) + Cardinality(g.caps) + Cardinality(g.on)
      + Cardinality({c \in Cells : g.arr[c] # Default}) + Cardinality({u \in Units : g.tex[u] # 0})
      + Cardinality({m \in Modes : g.stack[m] # <<0>>}) + B(g.blend # <<0, 0>>) + B(g.fog # <<0, 1>>)
      + B(g.active # 0) + B(g.client # 0) + B(g.array_buffer # 0) + B(g.framebuffer # 0) + B(g.mode # "MODELVIEW")

\* with_ctx_and_mem: the call is made on the thread's current context
with_ctx(g) ==
  /\ ~panic
  /\ gl' = g /\ UNCHANGED <<impl, panic>>

-----------------------------------------------------------------------------
(***************************************************************************)
(* Settings.  The guest gives a number as a float, an integer or in fixed  *)
(* point; ParamTable::setx scales fixed point for floating-point           *)
(* parameters only.                                                        *)
(***************************************************************************)
fixed_to_float(x) == x \div FixedOne
setx(i, x) == IF i \in FloatItems THEN fixed_to_float(x) ELSE x
\* A value by itself is always a float's; one that is a parameter goes by its
\* table's type.  A native driver knows fixed point.
Scalar(form, n) == IF form = "x" THEN fixed_to_float(n) ELSE n
Parameter(i, form, n) == IF form = "x" THEN setx(i, n) ELSE n
Driver(i, form, n) == IF form = "x" /\ i \in FloatItems THEN fixed_to_float(n) ELSE n
\* What a guest passes to say v
InForm(i, form, v) == IF form = "x" /\ i \in FloatItems THEN v * FixedOne ELSE v
AlphaFunc_etc(form, n) == Scalar(form, n)
Viewport_etc(form, n) == Scalar(form, n)
PointParameter_etc(form, n) == Parameter("point", form, n)
Light_etc(form, n) == Parameter("light", form, n)
Color4_etc(form, n) == Scalar(form, n)
ClearColor_etc(form, n) == Scalar(form, n)
TexParameter_etc(form, n) == Parameter("tex_parameter", form, n)
TexEnv_etc(form, n) == Parameter("tex_env", form, n)
UseProgram_etc(n) == n
PixelStorei(n) == n
\* The value that a call on item i stores
OnGL2(i, form, n) ==
  CASE i = "state" -> AlphaFunc_etc(form, n)
    [] i = "viewport" -> Viewport_etc(form, n)
    [] i = "point" -> PointParameter_etc(form, n)
    [] i = "light" -> Light_etc(form, n)
    [] i = "color" -> Color4_etc(form, n)
    [] i = "clear_color" -> ClearColor_etc(form, n)
    [] i = "tex_parameter" -> TexParameter_etc(form, n)
    [] i = "tex_env" -> TexEnv_etc(form, n)
    [] i = "program" -> UseProgram_etc(n)
    [] i = "pixel_store" -> PixelStorei(n)
OnNative(i, form, n) == Driver(i, form, n)
setter(i, form, v) ==
  LET n == InForm(i, form, v)
  IN  with_ctx([gl EXCEPT !.val[i] = IF impl = "gl2" THEN OnGL2(i, form, n) ELSE OnNative(i, form, n)])
glAlphaFunc_etc(form, v) == setter("state", form, v)
glViewport_etc(v) == setter("viewport", "i", v)
glPointSize_etc(form, v) == setter("point", form, v)
glLight_etc(form, v) == setter("light", form, v)
glUseProgram_etc(v) == setter("program", "i", v)
glColor4_etc(form, v) == setter("color", form, v)
glClearColor_etc(form, v) == setter("clear_color", form, v)
glPixelStorei(v) == setter("pixel_store", "i", v)
glTexParameter_etc(form, v) == setter("tex_parameter", form, v)
glTexEnv_etc(form, v) == setter("tex_env", form, v)
BlendFunc(g, v) == [g EXCEPT !.blend = <<v, v>>]
BlendFuncSeparate(g, v, w) == [g EXCEPT !.blend = <<v, w>>]
Fog(g, k, v) == [g EXCEPT !.fog[k] = v]
glBlendFunc(v) == with_ctx(BlendFunc(gl, v))
glBlendFuncSeparate(v, w) == with_ctx(BlendFuncSeparate(gl, v, w))
glFog(k, v) == with_ctx(Fog(gl, k, v))

EnableCap(g, c, b) == [g EXCEPT !.caps = IF b THEN @ \cup {c} ELSE @ \ {c}]
EnableArray(g, k, b) ==
  [g EXCEPT !.on = IF b THEN @ \cup {Cell(k, g.client)} ELSE @ \ {Cell(k, g.client)}]
glEnable(c, b) == c \in CAPABILITIES(gl) /\ with_ctx(EnableCap(gl, c, b))
glEnableClientState(k, b) == with_ctx(EnableArray(gl, k, b))

MatrixMode(g, m) == [g EXCEPT !.mode = m]
\* At its limit a stack is left alone (GL_STACK_OVERFLOW, GL_STACK_UNDERFLOW)
PushMatrix(g, m) == [g EXCEPT !.stack[m] = IF Len(@) < MaxStack THEN Append(@, Last(@)) ELSE @]
PopMatrix(g, m) == [g EXCEPT !.stack[m] = IF Len(@) > 1 THEN Front(@) ELSE @]
LoadMatrix(g, m, v) == [g EXCEPT !.stack[m] = Append(Front(@), v)]
glMatrixMode(m) == with_ctx(MatrixMode(gl, m))
glPushMatrix == with_ctx(PushMatrix(gl, gl.mode))
glPopMatrix == with_ctx(PopMatrix(gl, gl.mode))
glLoadMatrix(v) == with_ctx(LoadMatrix(gl, gl.mode, v))

BindTexture(g, t) == [g EXCEPT !.tex[g.active] = t]
BindFramebuffer(g, f) == [g EXCEPT !.framebuffer = f]
BindBuffer(g, b) == [g EXCEPT !.array_buffer = b]
glActiveTexture(u) == with_ctx([gl EXCEPT !.active = u])
glClientActiveTexture(u) == with_ctx([gl EXCEPT !.client = u])
glBindTexture(t) == with_ctx(BindTexture(gl, t))
glBindFramebufferOES(f) == with_ctx(BindFramebuffer(gl, f))
glBindBuffer(b) == with_ctx(BindBuffer(gl, b))

-----------------------------------------------------------------------------
(***************************************************************************)
(* Arrays.  The host's pointer functions take the buffer bound to          *)
(* ARRAY_BUFFER along.  On a desktop OpenGL fixed-point data is passed off *)
(* as floats and noted in the state, to be converted when it is drawn.     *)
(***************************************************************************)
HostPointer(g, k, type, ptr) ==
  [g EXCEPT !.arr[Cell(k, g.client)] = [type |-> type, ptr |-> ptr, buf |-> g.array_buffer]]
Pointer(g, k, type, ptr) ==
  HostPointer(g, k, IF type = "FIXED" /\ impl = "gl2" THEN "FLOAT" ELSE type, ptr)
TexCoordUnits(g, type) ==
  IF type = "FIXED" THEN g.fixed_point_texture_units \cup {g.client}
                    ELSE g.fixed_point_texture_units \ {g.client}
ArrayPointer(g, k, type, ptr) ==
  IF impl = "native" THEN Pointer(g, k, type, ptr)
  ELSE [Pointer(g, k, type, ptr) EXCEPT
          !.pointer_is_fixed_point = IF type = "FIXED" THEN @ \cup {k} ELSE @ \ {k}]
TexCoordPointer(g, type, ptr) ==
  IF impl = "native" THEN Pointer(g, "tex", type, ptr)
  ELSE [Pointer(g, "tex", type, ptr) EXCEPT
          !.fixed_point_texture_units = TexCoordUnits(g, type),
          !.pointer_is_fixed_point =
             IF TexCoordUnits(g, type) # {} THEN @ \cup {"tex"} ELSE @ \ {"tex"}]
PointerCall(g, k, type, ptr) ==
  IF k = "tex" THEN TexCoordPointer(g, type, ptr) ELSE ArrayPointer(g, k, type, ptr)
glPointer(k, type, p) == with_ctx(PointerCall(gl, k, type, Guest(p)))

\* translate_fixed_point_arrays, for one array.  d.saved has what is to be
\* restored, d.panic tells that there was no buffer to map.
TranslateArray(d, k) ==
  LET old == d.g.client
      g == IF k = "tex" THEN [d.g EXCEPT !.client = d.g.active] ELSE d.g
      c == Cell(k, g.active)
      a == g.arr[c]
      mapped == a.buf # 0
      data == <<"converted", IF mapped THEN g.array_buffer ELSE 0, a.ptr>>
      unbound == IF mapped THEN BindBuffer(g, 0) ELSE g
  IN  IF k \notin d.g.pointer_is_fixed_point
           \/ (k = "tex" /\ g.active \notin g.fixed_point_texture_units) THEN d
      ELSE IF c \notin g.on THEN [d EXCEPT !.g = g]
      ELSE [g |-> [HostPointer(unbound, k, "FLOAT", data) EXCEPT !.client = old],
            saved |-> d.saved @@ (k :> a),
            panic |-> d.panic \/ (mapped /\ g.array_buffer = 0)]
translate_fixed_point_arrays(g) ==
  FoldLeft(TranslateArray, [g |-> g, saved |-> <<>>, panic |-> FALSE], ARRAYS)
RestoreArray(d, k) ==
  IF k \notin DOMAIN d.saved THEN d
  ELSE LET a == d.saved[k]
           b == IF a.buf # 0 THEN BindBuffer(d.g, a.buf) ELSE d.g
           u == IF k = "tex" THEN [b EXCEPT !.client = b.active] ELSE b
       IN  [d EXCEPT !.g = [HostPointer(u, k, "FLOAT", a.ptr) EXCEPT !.client = d.g.client]]
restore_fixed_point_arrays(d) == FoldLeft(RestoreArray, d, ARRAYS).g

\* Fog that starts where it ends is moved for the draw
clamp_fog_state_values(g) ==
  IF <<"FOG", 0>> \in g.caps /\ g.fog[1] = g.fog[2] THEN [g EXCEPT !.fog[1] = @ - 1] ELSE g
restore_fog_state_values(g, old) == [g EXCEPT !.fog = old.fog]
\* The arrays at the moment of the draw, and the state after it
AtDraw(g) ==
  IF impl = "native" THEN [g |-> g, saved |-> <<>>, panic |-> FALSE]
                     ELSE translate_fixed_point_arrays(g)
HostDraw(g) == restore_fixed_point_arrays(AtDraw(g))
Draw(g) == restore_fog_state_values(HostDraw(clamp_fog_state_values(g)), g)
\* Mapping no buffer at all ends in a failed assertion
or_panic(fails, g) ==
  /\ ~panic /\ panic' = fails
  /\ gl' = (IF fails THEN gl ELSE g) /\ UNCHANGED impl
glDraw == or_panic(AtDraw(gl).panic, Draw(gl))

-----------------------------------------------------------------------------
(***************************************************************************)
(* Presenting.  The hidden framebuffer and texture are numbers of their    *)
(* own.  What is saved is read back from the implementation, which on a    *)
(* desktop OpenGL says FLOAT for fixed-point arrays.                       *)
(***************************************************************************)
Hidden == 9
Reset(g) ==
  LET h == BindTexture(BindFramebuffer(g, 0), Hidden)
      off == [h EXCEPT !.on = @ \ {Cell(k, g.client) : k \in Range(ARRAYS)},
                       !.caps = @ \ CAPABILITIES(g)]
      pushed == [off EXCEPT !.stack = [m \in Modes |-> LoadMatrix(PushMatrix(off, m), m, 0).stack[m]]]
  IN  [pushed EXCEPT !.val["color"] = 1, !.val["tex_env"] = 1]
\* Two quads may be drawn, the second for the virtual cursor
Quad(g) ==
  LET v == [BindBuffer(g, 0) EXCEPT !.val["viewport"] = Hidden, !.val["clear_color"] = Hidden]
      p == PointerCall(PointerCall(EnableArray(EnableArray(v, "vertex", TRUE), "tex", TRUE),
                                   "vertex", "FLOAT", Guest(Hidden)),
                       "tex", "FLOAT", Guest(Hidden))
      q == EnableCap(p, <<"TEXTURE_2D", p.active>>, TRUE)
  IN  LoadMatrix(MatrixMode(q, "TEXTURE"), "TEXTURE", Hidden)
Cursor(g) ==
  LET off == EnableCap(EnableArray(g, "tex", FALSE), <<"TEXTURE_2D", g.active>>, FALSE)
      on == [EnableCap(off, <<"BLEND", 0>>, TRUE) EXCEPT !.blend = <<Hidden, Hidden>>, !.val["color"] = Hidden]
  IN  PointerCall(on, "vertex", "FLOAT", Guest(Hidden))
present_frame(g, cursor) ==
  LET m == LoadMatrix(HostDraw(Quad(g)), "TEXTURE", 0) IN IF cursor THEN HostDraw(Cursor(m)) ELSE m
\* What is read back before: the getters know one blend function, the
\* capabilities and arrays of the active units, and the host's array types
GetPointer(g, k) == g.arr[Cell(k, g.client)]
IsEnabled(g) == g.caps \cap CAPABILITIES(g)
Saved(g) ==
  [arr |-> [k \in {"vertex", "tex"} |-> GetPointer(g, k)], array_buffer |-> g.array_buffer,
   caps |-> IsEnabled(g), on |-> g.on \cap {Cell(k, g.client) : k \in Range(ARRAYS)},
   mode |-> g.mode, blend |-> g.blend[1], texture |-> g.tex[g.active], framebuffer |-> g.framebuffer,
   val |-> [i \in {"color", "viewport", "clear_color", "tex_env"} |-> g.val[i]]]
RestorePointer(g, k, a) == PointerCall(BindBuffer(g, a.buf), k, a.type, a.ptr)
Restore(g, s) ==
  LET arrays == RestorePointer(RestorePointer(g, "vertex", s.arr["vertex"]), "tex", s.arr["tex"])
      popped == [m \in Modes |-> PopMatrix(g, m).stack[m]]
      back == [BindBuffer(arrays, s.array_buffer) EXCEPT
                 !.on = (@ \ {Cell(k, g.client) : k \in Range(ARRAYS)}) \cup s.on,
                 !.caps = (@ \ CAPABILITIES(g)) \cup s.caps,
                 !.stack = popped, !.mode = s.mode,
                 !.val = [i \in Items |-> IF i \in DOMAIN s.val THEN s.val[i] ELSE @[i]],
                 !.blend = <<s.blend, s.blend>>]
  IN  BindFramebuffer(BindTexture(back, s.texture), s.framebuffer)
Presented(g, cursor) == Restore(present_frame(Reset(g), cursor), Saved(g))
present_renderbuffer(cursor) == or_panic(AtDraw(Quad(Reset(gl))).panic, Presented(gl, cursor))

-----------------------------------------------------------------------------
Setting ==
  \E v \in {0, 1} :
    \/ \E form \in {"f", "x"} :
         \/ glAlphaFunc_etc(form, v) \/ glPointSize_etc(form, v) \/ glLight_etc(form, v)
         \/ glColor4_etc(form, v) \/ glClearColor_etc(form, v)
         \/ glTexParameter_etc(form, v) \/ glTexEnv_etc(form, v)
    \/ glViewport_etc(v) \/ glUseProgram_etc(v) \/ glPixelStorei(v)
    \/ \E k \in {1, 2} : glFog(k, v)
    \/ glBlendFunc(v) \/ glLoadMatrix(v) \/ glBindTexture(v) \/ glBindFramebufferOES(v)
Pointing ==
  \/ \E b \in BOOLEAN, k \in Range(ARRAYS) : glEnableClientState(k, b)
  \/ \E u \in Units : glActiveTexture(u) \/ glClientActiveTexture(u)
  \/ \E v \in {0, 1} : glBindBuffer(v)
  \/ \E k \in Range(ARRAYS), type \in {"FLOAT", "FIXED"} : glPointer(k, type, 1)
Switching ==
  \/ \E b \in BOOLEAN, c \in AllCaps : glEnable(c, b)
  \/ \E m \in Modes : glMatrixMode(m)
  \/ glPushMatrix \/ glPopMatrix
Next ==
  \/ Setting \/ Switching \/ Pointing
  \/ \E v, w \in {0, 1} : glBlendFuncSeparate(v, w)
  \/ glDraw \/ \E cursor \in BOOLEAN : present_renderbuffer(cursor)
Spec == Init /\ [][Next]_vars

-----------------------------------------------------------------------------
(***************************************************************************)
(* Properties, for a guest that keeps off the implementation's limits:     *)
(* it draws with the buffer of its fixed-point arrays bound (one such      *)
(* array, if it is in a buffer) and with fixed-point co-ordinates for the  *)
(* active texture unit only, and presents with a matrix to spare, without  *)
(* separate alpha blending and, on a desktop OpenGL, without fixed-point   *)
(* vertices.                                                               *)
(***************************************************************************)
InUse(g) == {c \in g.on : IsFixed(g, c)}
DrawSafe(g) ==
  impl = "gl2" =>
    /\ \A c \in InUse(g) : g.arr[c].buf = g.array_buffer /\ c \in {Cell(k, g.active) : k \in Range(ARRAYS)}
    /\ g.array_buffer # 0 => Cardinality(InUse(g)) <= 1
    /\ g.client # g.active /\ g.active \in g.fixed_point_texture_units => Cell("tex", g.active) \in g.on
PresentSafe(g) ==
  /\ g.blend[1] = g.blend[2]
  /\ \A m \in Modes : Len(g.stack[m]) < MaxStack
  /\ impl = "gl2" =>
        /\ ~IsFixed(g, Cell("vertex", 0)) /\ ~IsFixed(g, Cell("tex", g.client))
        /\ DrawSafe(Quad(Reset(g)))
Settings ==
  {"item", "cap", "enabled", "texture", "matrix", "tex_array", "color_array", "normal_array",
   "vertex_array", "blend", "fog", "mode", "active", "client", "array_buffer", "framebuffer"}
Arrays == [type : {"FLOAT", "FIXED"}, ptr : {Guest(0), Guest(1)}, buf : {0, 1}]
Values(s) ==
  CASE s = "item" -> [Items -> {0, 1}]
    [] s = "cap" -> SUBSET AllCaps
    [] s = "enabled" -> SUBSET Cells
    [] s = "texture" -> [Units -> {0, 1}]
    [] s = "matrix" -> [Modes -> BoundedSeq({0, 1}, MaxStack)]
    [] s = "tex_array" -> [Units -> Arrays]
    [] s \in {"color_array", "normal_array", "vertex_array"} -> Arrays
    [] s \in {"blend", "fog"} -> {0, 1} \X {0, 1}
    [] s = "mode" -> Modes
    [] s \in {"active", "client"} -> Units
    [] s \in {"array_buffer", "framebuffer"} -> {0, 1}

\* gles1_on_gl2.rs and eagl.rs give the guest's context back as they found
\* it: what the guest has told OpenGL changes one setting at a time, to the
\* value it gave, and never when a draw call has its arrays converted or a
\* frame is presented with the guest's own context.
Promise == INSTANCE GLState WITH st <- View

\* A draw call reads what the guest pointed at: every enabled array with the
\* data and in the form the guest said, fixed-point data converted.
DrawsRight ==
  DrawSafe(gl) =>
    /\ ~AtDraw(gl).panic
    /\ \A c \in gl.on :
          AtDraw(gl).g.arr[c] =
            IF impl = "gl2" /\ IsFixed(gl, c)
            THEN [type |-> "FLOAT", buf |-> 0, ptr |-> <<"converted", gl.arr[c].buf, gl.arr[c].ptr>>]
            ELSE gl.arr[c]

=============================================================================
