--------------------------- MODULE OpenGLContexts ---------------------------
(***************************************************************************)
(* The list of contexts of src/client/opengl.c and the callbacks of        *)
(* src/client/event.c that are fired when it changes.  The rendering       *)
(* threads of the program come here from glXSwapBuffers and glFinish,      *)
(* which get the context of their drawable or create it, and from the      *)
(* functions that destroy a drawable.  No lock is taken: every access to   *)
(* the list is a step of its own.                                          *)
(*                                                                         *)
(* The size of a drawable, which only the listeners of ctx_resize would    *)
(* see, is left out.                                                       *)
(***************************************************************************)
EXTENDS Naturals, SequencesExt, FiniteSets

CONSTANTS
  Renderers,   \* threads of the program
  Drawables,
  Cells,       \* bound on the contexts malloc has returned and nobody freed
  NoCtx,       \* NULL
  GlcStart,    \* the callback glc_init registers
  Listeners    \* ctx_create when the program starts, in the order of the list

\* NULL is no context, and memory is finite.
ASSUME NoCell == NoCtx \notin Cells /\ IsFiniteSet(Cells)

\* Each callback is registered once.
ASSUME ListenersDiffer ==
  /\ Listeners \in Seq(ToSet(Listeners))
  /\ \A i, j \in DOMAIN Listeners : Listeners[i] = Listeners[j] => i = j

VARIABLES
  first,        \* opengl.ctx
  ctx,          \* the memory of each context
  ctx_create,   \* the list of callbacks
  th,           \* where each thread is and what it holds
  known,        \* the drawables the listeners take to have a context
  starts,       \* how often glc_start has been called
  raced,        \* ghost: two calls have met that a lock would keep apart
  ended         \* why the process is over, if it is

glVars == <<first, ctx, ctx_create, th, known, starts, raced, ended>>

Endings == {"not", "exit", "freed context", "freed callback"}
Listing == {"find", "link", "publish", "create", "announce", "unlink", "free"}
Idle == [pc |-> "idle", call |-> "none", drawable |-> NoCtx, at |-> NoCtx, prev |-> NoCtx, fired |-> 0]

GlInit ==
  /\ first = NoCtx
  /\ ctx = [c \in Cells |-> [id |-> NoCtx, next |-> NoCtx, live |-> FALSE]]
  /\ ctx_create = Listeners
  /\ th = [t \in Renderers |-> Idle]
  /\ known = {} /\ starts = 0 /\ raced = FALSE /\ ended = "not"

\* The call the thread is in holds the list of contexts or a context of its drawable
\* while another call changes the one or destroys the other.
Meeting(t, u) ==
  \/ th[t].pc \in Listing /\ th[u].pc \in Listing
  \/ th[t].pc # "idle" /\ th[u].call = "destroy" /\ th[t].drawable = th[u].drawable

At(t) == th[t].at
Readable(c) == ctx[c].live
UsesFreed == ended' = "freed context"

Call(t, call, d) ==
  /\ th[t].pc = "idle"
  /\ th' = [th EXCEPT ![t] =
              [Idle EXCEPT !.pc = "find", !.call = call, !.drawable = d, !.at = first]]
  /\ UNCHANGED <<first, ctx, ctx_create, known, starts, ended>>

Go(t, pc) == th' = [th EXCEPT ![t].pc = pc]

\* One turn of the loops of opengl_context_get and opengl_context_destroy.
Find(t) ==
  /\ th[t].pc = "find" /\ At(t) # NoCtx
  /\ IF ~Readable(At(t)) THEN UsesFreed /\ UNCHANGED th
     ELSE /\ UNCHANGED ended
          /\ IF ctx[At(t)].id = th[t].drawable
             THEN Go(t, IF th[t].call = "destroy" THEN "announce" ELSE "before")
             ELSE th' = [th EXCEPT ![t].prev = At(t), ![t].at = ctx[At(t)].next]
  /\ UNCHANGED <<first, ctx, ctx_create, known, starts>>

DestroyUnknown(t) ==
  /\ th[t].pc = "find" /\ At(t) = NoCtx /\ th[t].call = "destroy"
  /\ th' = [th EXCEPT ![t] = Idle]
  /\ UNCHANGED <<first, ctx, ctx_create, known, starts, ended>>

\* A context is allocated, linked to the first one and made the first.
CreateContext(t) ==
  /\ th[t].pc = "find" /\ At(t) = NoCtx /\ th[t].call # "destroy"
  /\ \E c \in Cells :
       /\ ~ctx[c].live
       /\ ctx' = [ctx EXCEPT ![c] = [id |-> th[t].drawable, next |-> NoCtx, live |-> TRUE]]
       /\ th' = [th EXCEPT ![t].pc = "link", ![t].at = c]
  /\ UNCHANGED <<first, ctx_create, known, starts, ended>>

LinkContext(t) ==
  /\ th[t].pc = "link"
  /\ ctx' = [ctx EXCEPT ![At(t)].next = first]
  /\ Go(t, "publish")
  /\ UNCHANGED <<first, ctx_create, known, starts, ended>>

PublishContext(t) ==
  /\ th[t].pc = "publish"
  /\ first' = At(t)
  /\ known' = known \cup {th[t].drawable}
  /\ Go(t, "create")
  /\ UNCHANGED <<ctx, ctx_create, starts, ended>>

-----------------------------------------------------------------------------
\* GLC_EVENT_FIRE_ARGS(opengl.ctx_create): th[t].fired callbacks have returned.
\* Listeners are only ever taken out of the list, so that the element a thread is
\* at is known by its place in the initial list.
Registered(i) == \E j \in DOMAIN ctx_create : ctx_create[j] = Listeners[i]
Remaining(t) == {i \in DOMAIN Listeners : i > th[t].fired /\ Registered(i)}
Least(S) == CHOOSE i \in S : \A j \in S : i <= j

FireEnd(t) ==
  /\ th[t].pc = "create" /\ Remaining(t) = {}
  /\ Go(t, "before")
  /\ UNCHANGED <<first, ctx, ctx_create, known, starts, ended>>

\* Any other callback returns and the list goes on.
FireListener(t) ==
  /\ th[t].pc = "create" /\ Remaining(t) # {}
  /\ Listeners[Least(Remaining(t))] # GlcStart
  /\ th' = [th EXCEPT ![t].fired = Least(Remaining(t))]
  /\ UNCHANGED <<first, ctx, ctx_create, known, starts, ended>>

\* Mutant: glc_start stays registered.
KeptRegistered == ctx_create
\* glc_unregister_event takes the first element with the callback out.
Unregistered == RemoveFirst(ctx_create, GlcStart)

\* glc_start unregisters itself, which frees the element the loop is at, and
\* connects to the server; if that fails it ends the program.  The loop then reads
\* the element's next: what it was, or what malloc has made of it meanwhile.
FireGlcStart(t) ==
  /\ th[t].pc = "create" /\ Remaining(t) # {}
  /\ Listeners[Least(Remaining(t))] = GlcStart
  /\ ctx_create' = Unregistered
  /\ starts' = starts + 1
  /\ ended' \in {"not", "exit", "freed callback"}
  /\ th' = [th EXCEPT ![t].fired = Least(Remaining(t))]
  /\ UNCHANGED <<first, ctx, known>>

-----------------------------------------------------------------------------
\* The listeners of ctx_swap or ctx_finish are called with the context, then the
\* real function, then the listeners of the after lists.
Before(t) ==
  /\ th[t].pc = "before"
  /\ IF Readable(At(t)) THEN Go(t, "after") /\ UNCHANGED ended
     ELSE UsesFreed /\ UNCHANGED th
  /\ UNCHANGED <<first, ctx, ctx_create, known, starts>>

AfterSwap(t) ==
  /\ th[t].pc = "after"
  /\ IF Readable(At(t)) THEN th' = [th EXCEPT ![t] = Idle] /\ UNCHANGED ended
     ELSE UsesFreed /\ UNCHANGED th
  /\ UNCHANGED <<first, ctx, ctx_create, known, starts>>

\* ctx_destroy is fired before the context is taken out of the list.
Announce(t) ==
  /\ th[t].pc = "announce"
  /\ known' = known \ {th[t].drawable}
  /\ Go(t, "unlink")
  /\ UNCHANGED <<first, ctx, ctx_create, starts, ended>>

\* Mutant: the list is cut off behind the context before.
NextOfNone(c) == NoCtx
NextOf(c) == ctx[c].next

Unlink(t) ==
  /\ th[t].pc = "unlink"
  /\ IF th[t].prev = NoCtx
     THEN first' = NextOf(At(t)) /\ UNCHANGED ctx
     ELSE ctx' = [ctx EXCEPT ![th[t].prev].next = NextOf(At(t))] /\ UNCHANGED first
  /\ IF Readable(At(t)) /\ (th[t].prev # NoCtx => Readable(th[t].prev))
     THEN Go(t, "free") /\ UNCHANGED ended
     ELSE UsesFreed /\ UNCHANGED th
  /\ UNCHANGED <<ctx_create, known, starts>>

FreeContext(t) ==
  /\ th[t].pc = "free"
  /\ ctx' = [ctx EXCEPT ![At(t)].live = FALSE]
  /\ th' = [th EXCEPT ![t] = Idle]
  /\ UNCHANGED <<first, ctx_create, known, starts, ended>>

GlStep(t) ==
  \/ Find(t) \/ DestroyUnknown(t) \/ CreateContext(t) \/ LinkContext(t) \/ PublishContext(t)
  \/ FireListener(t) \/ FireGlcStart(t) \/ FireEnd(t)
  \/ Before(t) \/ AfterSwap(t)
  \/ Announce(t) \/ Unlink(t) \/ FreeContext(t)

GlNext ==
  /\ ended = "not"
  /\ \E t \in Renderers :
       \/ \E call \in {"render", "destroy"}, d \in Drawables : Call(t, call, d)
       \/ GlStep(t)
  /\ raced' = (raced \/ \E t, u \in Renderers : t # u /\ Meeting(t, u)')

GlTypeOK ==
  /\ first \in Cells \cup {NoCtx}
  /\ ctx \in [Cells -> [id : Drawables \cup {NoCtx}, next : Cells \cup {NoCtx}, live : BOOLEAN]]
  /\ known \subseteq Drawables /\ starts \in Nat /\ raced \in BOOLEAN /\ ended \in Endings
  /\ th \in [Renderers -> [pc : Listing \cup {"idle", "before", "after"},
                           call : {"none", "render", "destroy"},
                           drawable : Drawables \cup {NoCtx},
                           at : Cells \cup {NoCtx}, prev : Cells \cup {NoCtx},
                           fired : 0 .. Len(Listeners)]]

-----------------------------------------------------------------------------
\* The n-th context of the list.
Nth[n \in 0 .. Cardinality(Cells)] ==
  IF n = 0 THEN first ELSE IF Nth[n - 1] = NoCtx THEN NoCtx ELSE ctx[Nth[n - 1]].next

Listed == {Nth[n] : n \in 0 .. Cardinality(Cells)} \ {NoCtx}

\* As long as no two calls meet that a lock around opengl_context_get and
\* opengl_context_destroy would keep apart, and nobody renders to a drawable while
\* it is destroyed: between such calls the list has one context for each drawable
\* the listeners know, and nothing that was allocated is missing from it.
ContextsExact ==
  ~raced /\ ended = "not" /\ (\A t \in Renderers : th[t].pc \notin Listing) =>
    /\ Listed = {c \in Cells : ctx[c].live}
    /\ {ctx[c].id : c \in Listed} = known
    /\ Cardinality(Listed) = Cardinality(known)

\* Under the same condition no thread uses a context after it was freed, and
\* glc_start connects to the server once.
ApartIsSafe == ~raced => ended # "freed context" /\ starts <= 1
=============================================================================
