---------------------------- MODULE X11Shortcut ----------------------------
(***************************************************************************)
(* src/client/x11.c: the events a program takes from Xlib's queue are      *)
(* looked at on their way to find out which keys are pressed, and the      *)
(* callbacks of the shortcuts whose keys are all down are called.          *)
(*                                                                         *)
(* The X server sends the program a press and a release for each key, and  *)
(* while a key is held repeats it: a release and a press with one time.    *)
(* Times only grow; that the user lets a key go and presses it again takes *)
(* some.  A key has the same KeySym whatever else is pressed, so keys stand*)
(* for both key codes and KeySyms.                                         *)
(***************************************************************************)
EXTENDS Integers, SequencesExt, FiniteSetsExt

CONSTANTS
  Keys,
  Shortcuts,   \* the sets of keys shortcuts are registered for
  MaxTime,     \* bound on the time of an event
  MaxQueue,    \* bound on the events in the queue
  MaxShortcuts \* bound on the list of shortcuts

ASSUME TimeBound == MaxTime \in Nat \ {0}

VARIABLES
  now, held,         \* the X server: its time, the keys the user holds
  queue,             \* the events Xlib has read or could read
  repeating,         \* keys released for a repeat whose press is still to come
  keys_pressed,      \* x11.keys_pressed, newest first
  last_event_time, last_keycode,   \* of the last release
  shortcut_events,   \* x11.shortcut_events, newest first
  crashed,           \* a NULL pointer was read
  misled             \* ghost: an event reached x11_event late, twice or never

serverVars == <<now, held, repeating>>
keyVars == <<keys_pressed, last_event_time, last_keycode>>
x11Vars == <<serverVars, queue, keyVars, shortcut_events, crashed, misled>>

Event == [type : {"press", "release"}, key : Keys, time : 1 .. MaxTime]
Pressed == ToSet(keys_pressed)

X11Init ==
  /\ now = 1 /\ held = {} /\ queue = << >> /\ repeating = {}
  /\ keys_pressed = << >> /\ last_event_time = 0 /\ last_keycode = {}
  /\ shortcut_events = << >> /\ crashed = FALSE /\ misled = FALSE

-----------------------------------------------------------------------------
\* The X server (external).

Sent(type, k, time) ==
  /\ Len(queue) < MaxQueue
  /\ queue' = Append(queue, [type |-> type, key |-> k, time |-> time])

LocalUnchanged == UNCHANGED <<keyVars, shortcut_events, crashed>>

UserPresses(k) ==
  /\ k \notin held /\ repeating = {} /\ now < MaxTime
  /\ held' = held \cup {k} /\ now' = now + 1
  /\ Sent("press", k, now')
  /\ UNCHANGED <<repeating, misled>> /\ LocalUnchanged

\* While another window has the focus the event goes there.
UserReleases(k, focused) ==
  /\ k \in held /\ repeating = {} /\ now < MaxTime
  /\ held' = held \ {k} /\ now' = now + 1
  /\ IF focused THEN Sent("release", k, now') /\ UNCHANGED misled
     ELSE misled' = TRUE /\ UNCHANGED queue
  /\ UNCHANGED repeating /\ LocalUnchanged

\* The release of a repeat becomes readable before its press, which is sent next.
RepeatRelease(k) ==
  /\ k \in held /\ repeating = {} /\ now < MaxTime
  /\ now' = now + 1 /\ repeating' = {k}
  /\ Sent("release", k, now')
  /\ UNCHANGED <<held, misled>> /\ LocalUnchanged

\* Too late, if somebody has looked at the release already.
RepeatPress(k) ==
  /\ k \in repeating
  /\ repeating' = {}
  /\ Sent("press", k, now)
  /\ misled' = (misled \/ (last_keycode = {k} /\ last_event_time = now))
  /\ UNCHANGED <<now, held>> /\ LocalUnchanged

ServerNext ==
  \E k \in Keys :
    \/ UserPresses(k) \/ RepeatRelease(k) \/ RepeatPress(k)
    \/ \E focused \in BOOLEAN : UserReleases(k, focused)

-----------------------------------------------------------------------------
\* Mutant: a shortcut stays down once it is.
CheckedNeverUp(k, pressed) ==
  [i \in DOMAIN shortcut_events |->
     LET e == shortcut_events[i]
     IN  IF e.keys \subseteq pressed /\ k \in e.keys
         THEN [e EXCEPT !.is_down = TRUE, !.down_calls = @ + 1] ELSE e]

\* x11_shortcut_check for an event of key k, when the keys of pressed are down.
Checked(k, pressed) ==
  [i \in DOMAIN shortcut_events |->
     LET e == shortcut_events[i]
     IN  IF e.keys \subseteq pressed
         THEN IF k \in e.keys
              THEN [e EXCEPT !.is_down = TRUE, !.down_calls = @ + 1] ELSE e
         ELSE IF e.is_down
              THEN [e EXCEPT !.is_down = FALSE, !.down_calls = @ - 1] ELSE e]

\* Mutant: a key that is down is not looked for.
IgnoredPressOfRepeat(event) == event.time = last_event_time /\ {event.key} = last_keycode

\* The press of a repeat, or of a key that is down.
IgnoredPress(event) ==
  \/ event.time = last_event_time /\ {event.key} = last_keycode
  \/ event.key \in Pressed

\* Mutant: repeats are not looked for.
NoRepeat(event, rest) == FALSE

\* The release of a repeat: the press is the next event in the queue.
Repeated(event, rest) ==
  rest # << >> /\ Head(rest) = [event EXCEPT !.type = "press"]

\* x11_event, with what is in the queue after the event.
X11Press(event) ==
  /\ event.type = "press"
  /\ keys_pressed' = IF IgnoredPress(event) THEN keys_pressed ELSE <<event.key>> \o keys_pressed
  /\ shortcut_events' = IF IgnoredPress(event) THEN shortcut_events
                        ELSE Checked(event.key, Pressed')
  /\ UNCHANGED <<last_event_time, last_keycode>>

X11Release(event, rest) ==
  /\ event.type = "release"
  /\ last_event_time' = event.time /\ last_keycode' = {event.key}
  /\ IF Repeated(event, rest) THEN UNCHANGED <<keys_pressed, shortcut_events>>
     ELSE /\ keys_pressed' = RemoveFirst(keys_pressed, event.key)
          /\ shortcut_events' = Checked(event.key, Pressed')

X11Event(event, rest) == X11Press(event) \/ X11Release(event, rest)

\* XNextEvent takes the first event, the functions that look for one of some kind
\* may take a later one.
TakeEvent(i) ==
  /\ queue' = RemoveAt(queue, i)
  /\ X11Event(queue[i], queue')
  /\ misled' = (misled \/ i > 1)
  /\ UNCHANGED <<serverVars, crashed>>

\* XPeekEvent and XPeekIfEvent leave the event in the queue, so it is looked at again
\* when it is taken; what follows the first event is that event itself.
PeekEvent(i) ==
  /\ X11Event(queue[i], queue)
  /\ misled' = (misled \/ i > 1 \/ (queue[i].type = "release" /\
                  (Repeated(queue[i], Tail(queue)) \/ queue[i].key \in repeating)))
  /\ UNCHANGED <<serverVars, queue, crashed>>

-----------------------------------------------------------------------------
\* Shortcuts are registered for both types, each with a callback of its own.
RegisterShortcut(keys) ==
  /\ Len(shortcut_events) < MaxShortcuts
  /\ shortcut_events' =
       <<[keys |-> keys, is_down |-> FALSE, down_calls |-> 0]>> \o shortcut_events
  /\ UNCHANGED <<serverVars, queue, keyVars, crashed, misled>>

\* x11_unregister_shortcut with a callback.  Each turn of the loop looks at the next
\* element and removes the one before it; after the last one it reads NULL.
UnregisterShortcut(keys) ==
  /\ shortcut_events # << >>
  /\ LET found == {i \in 1 .. (Len(shortcut_events) - 1) : shortcut_events[i + 1].keys = keys}
     IN  IF found = {} THEN crashed' = TRUE /\ UNCHANGED shortcut_events
         ELSE /\ UNCHANGED crashed
              /\ shortcut_events' = RemoveAt(shortcut_events, Min(found))
  /\ UNCHANGED <<serverVars, queue, keyVars, misled>>

\* x11_shortcut_destroy unregisters without a callback, and so goes on to the end of
\* the list: it returns only if that is empty.
DestroyShortcut ==
  /\ crashed' = (shortcut_events # << >>)
  /\ UNCHANGED <<serverVars, queue, keyVars, shortcut_events, misled>>

X11Next ==
  /\ ~crashed
  /\ \/ ServerNext
     \/ \E i \in DOMAIN queue : TakeEvent(i) \/ PeekEvent(i)
     \/ \E keys \in Shortcuts : RegisterShortcut(keys) \/ UnregisterShortcut(keys)
     \/ DestroyShortcut

X11TypeOK ==
  /\ now \in 1 .. MaxTime /\ held \subseteq Keys /\ repeating \subseteq held
  /\ queue \in Seq(Event)
  /\ keys_pressed \in Seq(Keys) /\ Cardinality(Pressed) = Len(keys_pressed)
  /\ last_event_time \in 0 .. MaxTime
  /\ last_keycode \in {{}} \cup {{k} : k \in Keys}
  /\ shortcut_events \in Seq([keys : Shortcuts, is_down : BOOLEAN, down_calls : Int])
  /\ crashed \in BOOLEAN /\ misled \in BOOLEAN

-----------------------------------------------------------------------------
\* When the program has taken all events, x11.keys_pressed has the keys the user
\* holds, however many repeats there were.  It loses track only if an event goes to
\* another window or is taken out of order, or if the release of a repeat is looked
\* at before its press can be read or by a function that leaves it in the queue: the
\* press is then ignored for having the time of the release.
KeysTracked == ~misled /\ queue = << >> /\ repeating = {} => Pressed = held

\* However events get lost, repeated or out of order: a shortcut that is down has all
\* its keys pressed, and its callbacks are called for down and up in turn.
ShortcutsInTurn ==
  \A i \in DOMAIN shortcut_events :
    LET e == shortcut_events[i]
    IN  /\ e.is_down => e.keys \subseteq Pressed
        /\ e.down_calls = IF e.is_down THEN 1 ELSE 0
=============================================================================
