----------------------------- MODULE Glc2Client -----------------------------
(***************************************************************************)
(* The client inside the captured program: glc_init finds the real         *)
(* functions and registers the hooks, and from then on the program's calls *)
(* go through the lists of OpenGL contexts and of X11 shortcuts and        *)
(* through the pixel buffer objects.                                       *)
(*                                                                         *)
(* These three share no variable and none reads another's, so a behaviour  *)
(* shows one of them at a time, chosen at the start.  A fourth kind of     *)
(* behaviour is that of a program that uses elfhacks on its own.           *)
(***************************************************************************)
EXTENDS GlcHook, OpenGLContexts, X11Shortcut, OpenGLPbo

CONSTANTS
  Inspected,    \* the link maps elfhacks is used on
  Patterns,     \* what is looked for in them
  SymbolNames,  \* the symbols that are looked up
  Loaded,       \* the link maps glc_init may find
  Exports       \* the functions libX11 and libGL may have

\* Of all their functions only those that hooks are registered for matter.
ASSUME ExportsAreHooks == Exports \subseteq SUBSET Hooks

\* A link map is a list of objects with names, and those elfhacks is used on are as
\* the linkers leave them.
ASSUME MapsAreLists == \A map \in Inspected \cup Loaded : map \in Seq(ToSet(map))
ASSUME ObjectsLinked ==
  \A map \in Inspected : \A i \in DOMAIN map :
    Supported(map[i]) => WellLinked(map[i], SymbolNames)

\* NULL is no pattern and no index, and no symbol is looked up without a name.
ASSUME NullIsNoPattern ==
  /\ Null # {}
  /\ \A map \in Inspected : \A i \in DOMAIN map : {map[i].name} # Null
ASSUME NullIsNoIndex == Null \notin Nat
ASSUME NamesAreGiven == NoName \notin SymbolNames

VARIABLE shown  \* the part of the client the behaviour shows

vars == <<shown, elfVars, hookVars, glVars, x11Vars, pboVars>>

Init ==
  /\ shown \in {"elfhacks", "contexts", "shortcuts", "pbos"}
  /\ IF shown = "elfhacks"
     THEN linkmap \in Inspected /\ exported = {}
     ELSE linkmap \in Loaded /\ exported \in Exports
  /\ obj = 0 /\ answer = NoAnswer
  /\ stage = "hook_init" /\ symbols = << >> /\ real = {}
  /\ GlInit /\ X11Init /\ PboInit

UsesElfhacks ==
  /\ shown = "elfhacks" /\ ElfNext(Patterns, SymbolNames)
  /\ UNCHANGED <<shown, hookVars, glVars, x11Vars, pboVars>>

GlcInit ==
  /\ shown # "elfhacks" /\ HookNext
  /\ UNCHANGED <<shown, elfVars, glVars, x11Vars, pboVars>>

Renders ==
  /\ stage = "running" /\ shown = "contexts" /\ GlNext
  /\ UNCHANGED <<shown, elfVars, hookVars, x11Vars, pboVars>>

HandlesKeys ==
  /\ stage = "running" /\ shown = "shortcuts" /\ X11Next
  /\ UNCHANGED <<shown, elfVars, hookVars, glVars, pboVars>>

CapturesPixels ==
  /\ stage = "running" /\ shown = "pbos" /\ PboNext
  /\ UNCHANGED <<shown, elfVars, hookVars, glVars, x11Vars>>

Next == UsesElfhacks \/ GlcInit \/ Renders \/ HandlesKeys \/ CapturesPixels

Spec == Init /\ [][Next]_vars

\* The type invariant of all parts.
TypeOK ==
  /\ obj \in 0 .. Len(linkmap)
  /\ HookTypeOK /\ GlTypeOK /\ X11TypeOK /\ PboTypeOK
=============================================================================
