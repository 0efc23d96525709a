------------------------------ MODULE GlcHook ------------------------------
(***************************************************************************)
(* glc_init of src/client/main.c: src/client/hook.c finds the real dlopen, *)
(* dlsym, dlvsym and __libc_dlsym with elfhacks, then x11_init and         *)
(* opengl_init register the functions they take the place of, and whoever  *)
(* asks dlsym for one of these is handed the client's own.                 *)
(*                                                                         *)
(* The program calls the client's functions once glc_init has returned and *)
(* not after glc_destroy.                                                  *)
(***************************************************************************)
EXTENDS ElfHacks

CONSTANTS
  Libdl, Libc    \* the object names that match "*libdl.so*" and "*libc.so*"

DlSymbols == {"dlopen", "dlsym", "dlvsym"}
LibcSymbol == "__libc_dlsym"

\* The functions hooks are registered for, in order.
X11Functions ==
  <<"XNextEvent", "XPeekEvent", "XWindowEvent", "XMaskEvent", "XCheckWindowEvent",
    "XCheckMaskEvent", "XCheckTypedEvent", "XCheckTypedWindowEvent", "XIfEvent",
    "XCheckIfEvent", "XPeekIfEvent", "XDestroyWindow", "XCreateWindow", "XFreePixmap">>

OpenGLFunctions ==
  <<"glXGetProcAddressARB", "glXSwapBuffers", "glFinish", "glXDestroyWindow",
    "glXDestroyPixmap", "glXDestroyPbuffer">>

Wanted == [x11_init |-> X11Functions, opengl_init |-> OpenGLFunctions]

VARIABLES
  stage,      \* of glc_init: whose turn it is, or how it ended
  exported,   \* the functions the real libraries have
  symbols,    \* the list of hook_symbol, newest first
  real        \* the functions whose real address is in x11 or opengl

hookVars == <<stage, exported, symbols, real>>

Registering == DOMAIN Wanted
Stages == {"hook_init", "running", "exited", "crashed"} \cup Registering
After(s) == IF s = "x11_init" THEN "opengl_init" ELSE "running"

Hooks == UNION {{Wanted[s][i] : i \in DOMAIN Wanted[s]} : s \in Registering}
HookNames == {symbols[i].sym_name : i \in DOMAIN symbols}

\* The elements of the list; no element is at NULL.
HookSymbols == [sym_name : Hooks, real_sym : BOOLEAN]
ASSUME NullIsNoSymbol == Null \notin HookSymbols

\* The symbol of the program or library that eh_find_obj and eh_find_sym get.
RealSymbol(pattern, name) ==
  LET i == FindObj(linkmap, pattern)
  IN  IF i # 0 /\ Supported(linkmap[i]) THEN FindSym(linkmap[i], name) ELSE NotFound

RealFunctions ==
  /\ \A name \in DlSymbols : RealSymbol(Libdl, name) # NotFound
  /\ RealSymbol(Libc, LibcSymbol) # NotFound

\* A symbol that is missing, or the client's own object that cannot be opened, ends
\* the program.
HookInit ==
  /\ stage = "hook_init"
  /\ stage' \in IF RealFunctions THEN {"x11_init", "exited"} ELSE {"exited"}
  /\ UNCHANGED <<exported, symbols, real>>

\* Without the library hook_register closes a handle that is NULL.
LibraryMissing ==
  /\ stage \in Registering
  /\ Wanted[stage][1] \notin HookNames
  /\ stage' \in {"exited", "crashed"}
  /\ UNCHANGED <<exported, symbols, real>>

\* Mutant: a library without the function is not noticed.
CompleteAlways(name) == TRUE
Complete(name) == name \in exported

\* One turn of the loop of hook_register: the symbol is in the list before anybody
\* has looked whether the library has it.  A set that is not complete ends the
\* program, so what is in the list by then is never used.
RegisterHook ==
  /\ stage \in Registering
  /\ \E i \in DOMAIN Wanted[stage] :
       LET name == Wanted[stage][i]
       IN  /\ name \notin HookNames
           /\ \A j \in 1 .. (i - 1) : Wanted[stage][j] \in HookNames
           /\ symbols' = <<[sym_name |-> name, real_sym |-> name \in exported]>> \o symbols
           /\ real' = IF name \in exported THEN real \cup {name} ELSE real
           /\ stage' = IF ~Complete(name) THEN "exited"
                       ELSE IF i = Len(Wanted[stage]) THEN After(stage) ELSE stage
  /\ UNCHANGED exported

HookNext == HookInit \/ LibraryMissing \/ RegisterHook

\* hook_sym: what dlsym, dlvsym, __libc_dlsym and glXGetProcAddressARB answer with
\* before they ask the real ones.
HookSym(name) ==
  IF name \in HookNames
  THEN symbols[Min({i \in DOMAIN symbols : symbols[i].sym_name = name})]
  ELSE Null

HookTypeOK ==
  /\ stage \in Stages
  /\ symbols \in Seq(HookSymbols)
  /\ real \subseteq Hooks /\ exported \subseteq Hooks

\* Whatever is missing and wherever registering stops, once the program runs it is
\* handed a function of the client for every hook, and each of these has the real
\* function it goes on to.
HooksReachReal ==
  stage = "running" =>
    \A name \in Hooks : HookSym(name) # Null /\ HookSym(name).real_sym /\ name \in real
=============================================================================
