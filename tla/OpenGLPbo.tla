----------------------------- MODULE OpenGLPbo -----------------------------
(***************************************************************************)
(* The pixel buffer objects of src/client/opengl.c: resolving the          *)
(* functions of GL_ARB_pixel_buffer_object, and creating, starting,        *)
(* reading, resizing and destroying a buffer in the GL context of the      *)
(* program, whose own buffer binding is put back afterwards.               *)
(*                                                                         *)
(* A call is cut at the callback of opengl_pbo_read, which runs with the   *)
(* buffer bound and mapped and may call any of them again.                 *)
(***************************************************************************)
EXTENDS Naturals, Sequences

CONSTANTS
  Pbos,       \* bound on the buffers at a time
  MaxDepth    \* bound on the calls of opengl_pbo_read inside each other

VARIABLES
  offered,     \* how many of Functions the driver has
  pbo_init,
  resolved,    \* the functions whose pointer is set
  pbo,         \* the buffers: "none", "idle" or "active"
  bound,       \* GL_PIXEL_PACK_BUFFER_BINDING_ARB: a buffer, or one of Programs
  mapped,      \* the buffers GL has mapped
  reads,       \* the calls of opengl_pbo_read in progress, innermost first
  program,     \* ghost: what the program has bound
  refused,     \* ghost: a glMapBuffer has failed
  nullcall     \* a pointer that is NULL was called

pboVars == <<offered, pbo_init, resolved, pbo, bound, mapped, reads, program, refused, nullcall>>

Functions == <<"glXGetProcAddress", "glGenBuffers", "glDeleteBuffers", "glBufferData",
               "glBindBuffer", "glMapBuffer", "glUnmapBuffer">>
AllFunctions == {Functions[i] : i \in DOMAIN Functions}

Programs == {"no buffer", "program's buffer"}
Bindings == Pbos \cup Programs

\* A buffer the client has generated is none the program has.
ASSUME BuffersApart == Pbos \cap Programs = {}

PboTypeOK ==
  /\ offered \in 0 .. Len(Functions)
  /\ pbo_init \in BOOLEAN /\ refused \in BOOLEAN /\ nullcall \in BOOLEAN
  /\ resolved \subseteq AllFunctions
  /\ pbo \in [Pbos -> {"none", "idle", "active"}]
  /\ bound \in Bindings /\ program \in Programs
  /\ mapped \subseteq Pbos
  /\ reads \in Seq([id : Pbos, binding : Bindings])

PboInit ==
  /\ offered = 0
  /\ pbo_init = FALSE /\ resolved = {}
  /\ pbo = [p \in Pbos |-> "none"]
  /\ bound = "no buffer" /\ program = "no buffer" /\ mapped = {} /\ reads = << >>
  /\ refused = FALSE /\ nullcall = FALSE

Calls(functions) == nullcall' = (nullcall \/ ~(functions \subseteq resolved'))

-----------------------------------------------------------------------------
\* The program makes a context of another driver current, or binds a buffer.
SwitchDriver(n) ==
  /\ reads = << >> /\ offered' = n
  /\ UNCHANGED <<pbo_init, resolved, pbo, bound, mapped, reads, program, refused, nullcall>>

ProgramBinds(b) ==
  /\ reads = << >>
  /\ bound' = b /\ program' = b
  /\ UNCHANGED <<offered, pbo_init, resolved, pbo, mapped, reads, refused, nullcall>>

\* Mutant: one function is enough.
InitDoneEarly(n) == n > 0
InitDone(n) == n = Len(Functions)

\* The functions are looked up in order up to the first that is missing, whose
\* pointer becomes NULL; those behind it keep what an earlier call has left.
Resolved(n) ==
  {Functions[i] : i \in 1 .. n} \cup
    (IF n = Len(Functions) THEN {} ELSE resolved \ {Functions[n + 1]})

\* opengl_pbo_init.  Without a context, the extension or libGL nothing is looked up.
Initialize(current) ==
  /\ resolved' = IF pbo_init \/ ~current THEN resolved ELSE Resolved(offered)
  /\ pbo_init' = (pbo_init \/ (current /\ InitDone(offered)))

PboSupported(current) ==
  /\ Initialize(current)
  /\ UNCHANGED <<offered, pbo, bound, mapped, reads, program, refused, nullcall>>

PboCreate(p, current) ==
  /\ pbo[p] = "none"
  /\ Initialize(current)
  /\ IF pbo_init'
     THEN /\ pbo' = [pbo EXCEPT ![p] = "idle"]
          /\ Calls({"glGenBuffers", "glBindBuffer", "glBufferData"})
     ELSE UNCHANGED <<pbo, nullcall>>
  /\ UNCHANGED <<offered, bound, mapped, reads, program, refused>>

\* Deleting a buffer unmaps it and takes it out of the binding.
PboDestroy(p) ==
  /\ pbo[p] # "none" /\ \A i \in DOMAIN reads : reads[i].id # p
  /\ pbo' = [pbo EXCEPT ![p] = "none"]
  /\ bound' = IF bound = p THEN "no buffer" ELSE bound
  /\ mapped' = mapped \ {p}
  /\ UNCHANGED <<offered, pbo_init, resolved, reads, program, refused>>
  /\ Calls({"glDeleteBuffers"})

\* The buffer is bound, pixels are read into it, what was bound is bound again.
PboStart(p) ==
  /\ pbo[p] = "idle"
  /\ pbo' = [pbo EXCEPT ![p] = "active"]
  /\ UNCHANGED <<offered, pbo_init, resolved, bound, mapped, reads, program, refused>>
  /\ Calls({"glBindBuffer"})

\* New storage for a buffer, which unmaps it.
PboResize(p) ==
  /\ pbo[p] = "idle"
  /\ mapped' = mapped \ {p}
  /\ UNCHANGED <<offered, pbo_init, resolved, pbo, bound, reads, program, refused>>
  /\ Calls({"glBindBuffer", "glBufferData"})

\* Up to the callback.  If the buffer cannot be mapped, or is already, the call
\* returns and leaves it bound and active.
PboRead(p, maps) ==
  /\ pbo[p] = "active" /\ Len(reads) < MaxDepth
  /\ maps => p \notin mapped
  /\ bound' = p
  /\ IF maps
     THEN /\ mapped' = mapped \cup {p}
          /\ reads' = <<[id |-> p, binding |-> bound]>> \o reads
          /\ UNCHANGED refused
     ELSE refused' = TRUE /\ UNCHANGED <<mapped, reads>>
  /\ UNCHANGED <<offered, pbo_init, resolved, pbo, program>>
  /\ Calls({"glBindBuffer", "glMapBuffer"})

\* The callback has returned.  The buffer that is bound by now is unmapped.
PboReadReturns ==
  /\ reads # << >>
  /\ LET call == Head(reads)
     IN  /\ mapped' = mapped \ {bound}
         /\ pbo' = [pbo EXCEPT ![call.id] = "idle"]
         /\ bound' = call.binding
  /\ reads' = Tail(reads)
  /\ UNCHANGED <<offered, pbo_init, resolved, program, refused>>
  /\ Calls({"glUnmapBuffer", "glBindBuffer"})

PboNext ==
  \/ \E n \in 0 .. Len(Functions) : SwitchDriver(n)
  \/ \E b \in Programs : ProgramBinds(b)
  \/ \E current \in BOOLEAN : PboSupported(current) \/ \E p \in Pbos : PboCreate(p, current)
  \/ \E p \in Pbos :
       \/ PboDestroy(p) \/ PboStart(p) \/ PboResize(p)
       \/ \E maps \in BOOLEAN : PboRead(p, maps)
  \/ PboReadReturns

-----------------------------------------------------------------------------
\* However the calls are nested and whatever the driver lacks at the time, none of
\* them calls a function that was not found.  Unless a buffer could not be mapped,
\* each leaves the binding as the program made it and no buffer mapped but those
\* whose callback is running.
PboLeavesNoTrace ==
  /\ ~nullcall
  /\ ~refused => /\ reads = << >> => bound = program
                 /\ mapped = {reads[i].id : i \in DOMAIN reads}
=============================================================================
