----------------------------- MODULE MCGraphics -----------------------------
(***************************************************************************)
(* The graphics side in one run.  A behaviour is that of one guest, chosen *)
(* at the start, which keeps to one of the models; the others rest.        *)
(***************************************************************************)
EXTENDS GLES, EAGL

CONSTANTS Guests, MaxArraySettings
VARIABLE guest

\* A guest that changes every kind of setting, a few at a time
settings_guest ==
  /\ \/ Setting \/ Switching
     \/ \E u \in Units : glActiveTexture(u) \/ glClientActiveTexture(u)
     \/ \E k \in {"tex", "vertex"}, b \in BOOLEAN : glEnableClientState(k, b)
  /\ Changed(gl') <= MaxSettings
\* A guest that points at arrays, in memory and in a buffer, on both units
arrays_guest == Pointing /\ Changed(gl') <= MaxArraySettings
Drawing ==
  \/ DrawSafe(gl) /\ glDraw
  \/ PresentSafe(gl) /\ \E cursor \in BOOLEAN : present_renderbuffer(cursor)
gl_step ==
  /\ \/ guest = "settings" /\ (settings_guest \/ Drawing)
     \/ guest = "arrays" /\ (arrays_guest \/ Drawing)
  /\ UNCHANGED <<eagl_vars, scale_vars>>
\* Contexts are shared out among threads before anything is presented
eagl_step ==
  /\ guest = "contexts" /\ Holding /\ UNCHANGED <<vars, scale_vars>>
\* One context presents a renderbuffer again and again
pace_step ==
  /\ guest = "frames"
  /\ \/ Pacing
     \/ \E c \in Contexts : (\A d \in Contexts : ~ctx[d].made) /\ initWithAPI(c)
     \/ \E c \in Contexts : guest_releases(c)
     \/ \E t \in Threads :
          \/ \E c \in Contexts \cup {Nobody} : setCurrentContext(t, c)
          \/ \E r \in Renderbuffers : glBindRenderbufferOES(t, r)
          \/ \E l \in Layers \cup {Nobody} : renderbufferStorage(t, l)
  /\ UNCHANGED <<vars, scale_vars>>
scale_step ==
  /\ guest = "scale" /\ ScaleNext
  /\ UNCHANGED <<vars, eagl_vars>>
MCInit ==
  /\ guest \in Guests /\ Init /\ ContextsInit /\ ScaleInit
  /\ guest \in {"contexts", "frames", "scale"} => impl = "native"
MCNext == (gl_step \/ eagl_step \/ pace_step \/ scale_step) /\ UNCHANGED guest
MCSpec == MCInit /\ [][MCNext]_<<vars, eagl_vars, scale_vars, guest>>

=============================================================================
